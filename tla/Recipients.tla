----------------------------- MODULE Recipients -----------------------------
(***************************************************************************)
(* The RecipientInfos of an envelope: how makeRecipientInfo (encrypt.go)   *)
(* and makeKEMRecipientInfo (kem.go) give the content key to a recipient,  *)
(* and how selectRecipientForCertificate (decrypt.go) and                  *)
(* decryptKEMRecipientKey (kem.go) find it again.                          *)
(*                                                                         *)
(* A recipient's certificate is a record [issuer, serial, skid, keyUsage,  *)
(* spki, pub].  pub is the record [kind, id] of its public key, kind the   *)
(* Go type of cert.PublicKey; spki is the algorithm of the raw             *)
(* SubjectPublicKeyInfo, "absent" when there is none and "malformed" when  *)
(* its parameters or its key are.  A private key is the record of its      *)
(* public half.                                                            *)
(*                                                                         *)
(* A RecipientInfo is a record whose choice is "ktri", "kari" or "ori",    *)
(* and whose form is "ok" or "malformed": what the Go structure for that   *)
(* choice can or cannot be read from.                                      *)
(***************************************************************************)
EXTENDS Integers, Sequences

C == INSTANCE Certificates

PublicKey == [kind : STRING, id : STRING]
RecipientCertificate ==
  [issuer : STRING, serial : Nat, skid : STRING, keyUsage : STRING, spki : STRING, pub : PublicKey]
NilCertificate == [issuer |-> "nil"]
NilOID == "nil"
MLKEM == {"MLKEM768", "MLKEM1024"}
mlKEMKEKLength == 32
NoUKM == "none"      \* the empty byte strings of these fields
NoSKID == "none"

Refusal == [ok |-> FALSE]
Found(x) == [ok |-> TRUE, value |-> x]

IssuerAndSerial(cert) == [form |-> "issuerAndSerial", issuer |-> cert.issuer, serial |-> cert.serial]

\* The position where a search over the RecipientInfos stops, given the positions
\* where it would; 0 if it does not.
FirstPosition(stops) ==
  IF stops = {} THEN 0 ELSE CHOOSE k \in stops : \A l \in stops : k <= l

(***************************************************************************)
(* RSA key transport.                                                      *)
(***************************************************************************)

\* rsa.EncryptPKCS1v15 and DecryptPKCS1v15: only the private half recovers the
\* key; any other private key fails on the padding.
RSAEncrypt(pub, key) == [by |-> pub, key |-> key]
RSADecrypt(priv, c) == IF c.by = priv THEN Found(c.key) ELSE Refusal

KeyTransRecipientInfo(key, cert) ==
  [choice |-> "ktri", form |-> "ok", rid |-> IssuerAndSerial(cert),
   encryptedKey |-> RSAEncrypt(cert.pub, key)]

\* The first KeyTransRecipientInfo, whoever it is for.
selectFirstRecipient(infos, cert) ==
  LET Stops(info) == info.choice = "ktri" /\ info.form = "ok"
      at == FirstPosition({k \in 1 .. Len(infos) : Stops(infos[k])})
  IN  IF at = 0 THEN Refusal ELSE Found(infos[at])

\* The first KeyTransRecipientInfo of the certificate's issuer and serial number;
\* one that cannot be read ends the search.
selectRecipientForCertificate(infos, cert) ==
  LET Stops(info) == /\ info.choice = "ktri"
                     /\ \/ info.form # "ok"
                        \/ C!isCertMatchForIssuerAndSerial(cert, info.rid)
      at == FirstPosition({k \in 1 .. Len(infos) : Stops(infos[k])})
  IN  IF cert = NilCertificate \/ at = 0 THEN Refusal
      ELSE IF infos[at].form # "ok" THEN Refusal
      ELSE Found(infos[at])

(***************************************************************************)
(* ML-KEM.                                                                 *)
(***************************************************************************)

\* encapsulateForCertificate: the KEM of a certificate, NilOID for an error.  With
\* no SubjectPublicKeyInfo the Go type of the key decides.
encapsulateForCertificate(cert) ==
  LET kem == IF cert.spki = "absent" THEN cert.pub.kind ELSE cert.spki
  IN  IF kem \in MLKEM THEN kem ELSE NilOID

\* Encapsulate and Decapsulate: another key of the same kind gives another secret,
\* never an error.
Encapsulate(pub, fresh) == [by |-> pub, fresh |-> fresh]
Decapsulate(priv, c) == [to |-> priv, ciphertext |-> c]

\* deriveKEMKey: the key-encryption key depends on all that HKDF is given.
deriveKEMKey(secret, wrap, kekLength, ukm) ==
  [secret |-> secret, wrap |-> wrap, kekLength |-> kekLength, ukm |-> ukm]

\* aesKeyWrap and aesKeyUnwrap, as KeyWrap shows them to be: an integrity check.
Wrapped(kek, key) == [kek |-> kek, key |-> key]
Unwrapped(kek, c) == IF c.kek = kek THEN Found(c.key) ELSE Refusal

\* makeKEMRecipientInfo after it has looked at ContentEncryptionAlgorithm.
makeKEMRecipientInfo(key, cert, fresh) ==
  LET kem == encapsulateForCertificate(cert)
      pub == [kind |-> kem, id |-> cert.pub.id]
      c == Encapsulate(pub, fresh)
      kek == deriveKEMKey(Decapsulate(pub, c), "AES256Wrap", mlKEMKEKLength, NoUKM)
  IN  IF \/ key.len < 16 \/ key.len % 8 # 0
         \/ cert.keyUsage \notin {"none", "keyEncipherment"}
         \/ kem = NilOID
      THEN Refusal
      ELSE Found([choice |-> "ori", form |-> "ok", type |-> "KEM", value |-> "ok",
                  rid |-> IssuerAndSerial(cert), version |-> 0, kem |-> kem,
                  ciphertext |-> c, kdf |-> "HKDFSHA256", kekLength |-> mlKEMKEKLength,
                  ukm |-> NoUKM, wrap |-> "AES256Wrap", parameters |-> FALSE,
                  encryptedKey |-> Wrapped(kek, key)])

\* recipientIdentifierMatchesCertificate: "match", "other" or "error".
recipientIdentifierMatchesCertificate(rid, cert) ==
  IF cert = NilCertificate THEN "error"
  ELSE IF rid.form = "issuerAndSerial"
  THEN IF C!isCertMatchForIssuerAndSerial(cert, rid) THEN "match" ELSE "other"
  ELSE IF rid.form = "subjectKeyIdentifier"
  THEN IF rid.skid # NoSKID /\ rid.skid = cert.skid THEN "match" ELSE "other"
  ELSE "error"

\* The algorithms and versions that the package accepts of a KEMRecipientInfo.
AcceptableKEM(info, kem) ==
  /\ info.version = 0 /\ info.kem = kem /\ ~info.parameters
  /\ info.kdf = "HKDFSHA256" /\ info.wrap = "AES256Wrap"
  /\ info.kekLength = mlKEMKEKLength

\* The first OtherRecipientInfo that cannot be read, or is a KEMRecipientInfo that
\* cannot be read or is the certificate's, decides.
decryptKEMRecipientKey(infos, cert, priv) ==
  LET Rid(info) == recipientIdentifierMatchesCertificate(info.rid, cert)
      Stops(info) == /\ info.choice = "ori"
                     /\ \/ info.form # "ok"
                        \/ /\ info.type = "KEM"
                           /\ info.value # "ok" \/ Rid(info) # "other"
      at == FirstPosition({k \in 1 .. Len(infos) : Stops(infos[k])})
      info == infos[at]
      kek == deriveKEMKey(Decapsulate(priv, info.ciphertext), info.wrap, info.kekLength, info.ukm)
  IN  IF priv.kind \notin MLKEM \/ at = 0 THEN Refusal
      ELSE IF info.form # "ok" \/ info.value # "ok" THEN Refusal
      ELSE IF Rid(info) = "error" \/ ~AcceptableKEM(info, priv.kind) THEN Refusal
      ELSE Unwrapped(kek, info.encryptedKey)

=============================================================================
