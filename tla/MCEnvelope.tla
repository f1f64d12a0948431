----------------------------- MODULE MCEnvelope -----------------------------
(***************************************************************************)
(* Recipients of every kind, readers with the right and the wrong key or   *)
(* certificate, RecipientInfos of other implementations.  Block sizes 2    *)
(* and 3 stand for 8 and 16.                                               *)
(***************************************************************************)
EXTENDS Envelope

Cert(serial, skid, usage, spki, kind, id) ==
  [issuer |-> "CA", serial |-> serial, skid |-> skid, keyUsage |-> usage, spki |-> spki,
   pub |-> [kind |-> kind, id |-> id]]

rsa1 == Cert(1, "s1", "keyEncipherment", "RSA", "RSA", "k1")
twin == Cert(1, "s4", "keyEncipherment", "RSA", "RSA", "k4")  \* rsa1's serial number
rsa7 == Cert(7, "s7", "none", "RSA", "RSA", "k7")
kem768 == Cert(2, "s2", "none", "MLKEM768", "nil", "k2")
kem1024 == Cert(3, NoSKID, "keyEncipherment", "absent", "MLKEM1024", "k3")
kem512 == Cert(5, "s5", "none", "MLKEM512", "nil", "k5")
signing == Cert(6, "s6", "digitalSignature", "MLKEM768", "nil", "k6")

Lists(certs, max) == UNION {[1 .. n -> certs] : n \in 0 .. max}
AllLists == Lists({rsa1, twin, rsa7, kem768, kem1024, kem512, signing, NilCertificate}, 2)
ShortLists == {<<rsa1>>, <<kem768>>, <<rsa1, kem768>>}

Priv(kind, id) == [kind |-> kind, id |-> id]
Reader(cert, kind, id) == [by |-> "cert", cert |-> cert, priv |-> Priv(kind, id)]
PSK(id, len) == [id |-> id, len |-> len]
PSKReader(key) == [by |-> "psk", key |-> key]

MCPSKs == {PSK("p8", 8), PSK("p16", 16), PSK("p24", 24), PSK("p32", 32)}
MCReaders ==
  {Reader(rsa1, "RSA", "k1"), Reader(twin, "RSA", "k4"), Reader(rsa1, "RSA", "k4"),
   Reader(rsa7, "RSA", "k7"),
   Reader(kem768, "MLKEM768", "k2"), Reader(kem1024, "MLKEM1024", "k3"),
   Reader(kem768, "MLKEM768", "k9"), Reader(kem768, "RSA", "k1"),
   Reader(NilCertificate, "RSA", "k1"), Reader(rsa1, "ECDSA", "k1")}
    \cup {PSKReader(PSK("p8", 8)), PSKReader(PSK("q8", 8)), PSKReader(PSK("p32", 32))}
FewReaders == {Reader(rsa1, "RSA", "k1"), Reader(kem768, "MLKEM768", "k2"),
               PSKReader(PSK("p8", 8)), PSKReader(PSK("p16", 16))}

\* Key transport by subject key identifier, key agreement, another kind of other
\* recipient, a KEM recipient that the package cannot serve, malformed ones.
ForeignKEM(rid, kdf) ==
  LET pub == Priv("MLKEM768", "k8")
      c == Encapsulate(pub, "other")
  IN  [choice |-> "ori", form |-> "ok", type |-> "KEM", value |-> "ok", rid |-> rid, version |-> 0,
       kem |-> "MLKEM768", ciphertext |-> c,
       kdf |-> kdf, kekLength |-> 32, ukm |-> NoUKM, wrap |-> "AES256Wrap", parameters |-> FALSE,
       encryptedKey |-> Wrapped(deriveKEMKey(Decapsulate(pub, c), "AES256Wrap", 32, NoUKM), NoKey)]
SKI(skid) == [form |-> "subjectKeyIdentifier", skid |-> skid]
MCForeignInfos ==
  {[choice |-> "ktri", form |-> "malformed"], [choice |-> "kari", form |-> "ok"],
   [choice |-> "ori", form |-> "ok", type |-> "PWRI", value |-> "ok"],
   [choice |-> "ori", form |-> "malformed"],
   [choice |-> "ori", form |-> "ok", type |-> "KEM", value |-> "malformed"],
   ForeignKEM(SKI("s2"), "HKDFSHA512"), ForeignKEM(SKI(NoSKID), "HKDFSHA256"),
   ForeignKEM([form |-> "other"], "HKDFSHA256")}

MCSettings == ContentAlgorithms \cup {"none"}
MCContents == {<<>>, <<7, 1, 1>>}
OneContent == {<<7, 2, 1>>}

\* encrypt.go:253 "ML-KEM-768 and ML-KEM-1024 certificates use the RFC 9629
\* KEMRecipientInfo structure and require an AES-CBC content-encryption algorithm":
\* Encrypt returns no message of another kind with such a recipient.
KEMRequiresCBC ==
  enc.pc = "returned" /\ enc.version = 3 => enc.eci.alg \in CBCAlgorithms

=============================================================================
