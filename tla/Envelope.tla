------------------------------ MODULE Envelope ------------------------------
(***************************************************************************)
(* EnvelopedData and EncryptedData messages from sender to reader:         *)
(* Encrypt and EncryptUsingPSK (encrypt.go), the transport, Parse          *)
(* (pkcs7.go), Decrypt and DecryptUsingPSK (decrypt.go).                   *)
(*                                                                         *)
(* Encrypt reads the package variable ContentEncryptionAlgorithm several   *)
(* times, each time in a step of its own.  With Racing another goroutine   *)
(* sets the variable between those steps.  The segments of a ciphertext    *)
(* are joined one per step.                                                *)
(***************************************************************************)
EXTENDS ContentEncryption, Recipients

CONSTANTS
  Settings,      \* values given to ContentEncryptionAlgorithm
  Racing,        \* it is also set while Encrypt runs
  Contents, RecipientLists, PSKs,  \* arguments of the calls
  Readers,       \* [by |-> "cert", cert, priv] or [by |-> "psk", key]
  ForeignInfos,  \* RecipientInfos that another implementation adds
  MaxChanges     \* bound: changes in transport

ASSUME CallAssumption ==
  /\ Racing \in BOOLEAN /\ MaxChanges \in Nat
  /\ Contents \subseteq Seq(Byte)
  /\ RecipientLists \subseteq Seq(RecipientCertificate \cup {NilCertificate})
  /\ \A r \in Readers :
       r.by # "psk" => r \in [by : {"cert"}, cert : RecipientCertificate \cup {NilCertificate},
                             priv : PublicKey]

\* A RecipientInfo that was made for a private key.
MadeFor(info, priv) ==
  \/ info.choice = "ktri" /\ info.form = "ok" /\ info.encryptedKey.by = priv
  \/ /\ info.choice = "ori" /\ info.form = "ok" /\ info.type = "KEM" /\ info.value = "ok"
     /\ info.encryptedKey.kek = deriveKEMKey(Decapsulate(priv, info.ciphertext), info.wrap,
                                             info.kekLength, info.ukm)

\* The others that the other implementation addresses are not among the readers.
ASSUME ForeignAssumption ==
  \A info \in ForeignInfos, r \in Readers : r.by = "cert" => ~MadeFor(info, r.priv)

VARIABLES
  ContentEncryptionAlgorithm,
  enc,      \* the call of Encrypt or EncryptUsingPSK
  msg,      \* the message, NoMessage before the call returns it
  sealed,   \* history: the content, key and recipients of the message
  intact,   \* history: transport has changed nothing but the encoding
  changes,
  dec       \* the call of Decrypt or DecryptUsingPSK

envVars == <<ContentEncryptionAlgorithm, enc, msg, sealed, intact, changes, dec>>

NoMessage == [type |-> "none"]
NoReader == [by |-> "none"]

NoEncrypt == [pc |-> "idle", type |-> "none", content |-> <<>>, recipients |-> <<>>, key |-> NoKey,
              setting |-> "none", eci |-> Failed.eci, infos |-> <<>>, version |-> 0, error |-> "nil"]
NoDecrypt == [pc |-> "idle", reader |-> NoReader, key |-> NoKey, rest |-> <<>>, buf |-> <<>>,
              result |-> Invalid]

EnvInit ==
  /\ ContentEncryptionAlgorithm = "DESCBC"
  /\ enc = NoEncrypt /\ dec = NoDecrypt
  /\ msg = NoMessage
  /\ sealed = [content |-> <<>>, key |-> NoKey, recipients |-> <<>>]
  /\ intact = TRUE /\ changes = 0

EncryptEnded == enc.pc \in {"returned", "failed", "panic"}

SetAlgorithm ==
  /\ enc.pc = "idle" \/ (Racing /\ ~EncryptEnded)
  /\ ContentEncryptionAlgorithm' \in Settings
  /\ UNCHANGED <<enc, msg, sealed, intact, changes, dec>>

(***************************************************************************)
(* Encrypt and EncryptUsingPSK.                                            *)
(***************************************************************************)

EncryptStep == UNCHANGED <<ContentEncryptionAlgorithm, intact, changes, dec>>
Sealing == EncryptStep /\ UNCHANGED <<msg, sealed>>

Goto(label) == [enc EXCEPT !.pc = label]
FailWith(error) == [enc EXCEPT !.pc = "failed", !.error = error]

\* The first switch on the variable chooses the function that encrypts the content.
EncryptCall ==
  \E content \in Contents, recipients \in RecipientLists :
    /\ enc.pc = "idle" /\ Sealing
    /\ enc' = IF ContentEncryptionAlgorithm \in ContentAlgorithms
              THEN [enc EXCEPT !.pc = "content", !.type = "enveloped", !.content = content,
                               !.recipients = recipients, !.setting = ContentEncryptionAlgorithm]
              ELSE FailWith("unsupported")

EncryptUsingPSKCall ==
  \E content \in Contents, key \in PSKs \cup {NoKey} :
    /\ enc.pc = "idle" /\ Sealing
    /\ enc' = IF key = NoKey THEN FailWith("noPSK")
              ELSE IF ContentEncryptionAlgorithm \in {"DESCBC"} \cup GCMAlgorithms
              THEN [enc EXCEPT !.pc = "content", !.type = "encrypted", !.content = content,
                               !.key = key, !.setting = ContentEncryptionAlgorithm]
              ELSE FailWith("unsupported")

\* The function that the first switch chose, reading the variable again.
EncryptedFor(current) ==
  CASE enc.setting = "DESCBC" -> encryptDESCBC(enc.content, enc.key, "made")
    [] enc.setting \in CBCAlgorithms -> encryptAESCBC(current, enc.content, enc.key, "made")
    [] OTHER -> encryptAESGCM(current, enc.content, enc.key, "made")

\* The content is labelled with the algorithm of the first switch.
EncryptedContentStale ==
  [EncryptedFor(ContentEncryptionAlgorithm) EXCEPT !.eci.alg = enc.setting]
EncryptedContent == EncryptedFor(ContentEncryptionAlgorithm)

EncryptContent ==
  /\ enc.pc = "content" /\ Sealing
  /\ LET r == EncryptedContent
     IN  enc' = IF r.ok THEN [enc EXCEPT !.pc = IF enc.type = "enveloped" THEN "recipients" ELSE "marshal",
                                         !.key = r.key, !.eci = r.eci]
                ELSE FailWith("other")

Recipient == enc.recipients[Len(enc.infos) + 1]
Append1(info) == [enc EXCEPT !.pc = "recipients", !.infos = Append(@, info)]

\* makeRecipientInfo: a nil certificate is dereferenced; a key that is not an RSA
\* key is taken for one of a KEM.
MakeRecipientInfo ==
  /\ enc.pc = "recipients" /\ Sealing
  /\ IF Len(enc.infos) = Len(enc.recipients) THEN enc' = Goto("marshal")
     ELSE IF Recipient = NilCertificate THEN enc' = Goto("panic")
     ELSE IF Recipient.pub.kind = "RSA"
     THEN enc' = Append1(KeyTransRecipientInfo(enc.key, Recipient))
     ELSE enc' = Goto("kem1")

\* A KEM recipient is given the key of whatever content there is.
KEMCheckNone == enc.pc = "kem1" /\ Sealing /\ enc' = Goto("kem")

\* makeKEMRecipientInfo compares the variable with both AES-CBC algorithms, in two
\* reads.
KEMCheck1 ==
  /\ enc.pc = "kem1" /\ Sealing
  /\ enc' = Goto(IF ContentEncryptionAlgorithm = "AES128CBC" THEN "kem" ELSE "kem2")
KEMCheck2 ==
  /\ enc.pc = "kem2" /\ Sealing
  /\ enc' = IF ContentEncryptionAlgorithm = "AES256CBC" THEN Goto("kem") ELSE FailWith("other")

\* The envelope keeps version 0.
KEMRecipientVersion0 ==
  /\ enc.pc = "kem" /\ Sealing
  /\ LET r == makeKEMRecipientInfo(enc.key, Recipient, "made")
     IN  enc' = IF r.ok THEN Append1(r.value) ELSE FailWith("other")
KEMRecipient ==
  /\ enc.pc = "kem" /\ Sealing
  /\ LET r == makeKEMRecipientInfo(enc.key, Recipient, "made")
     IN  enc' = IF r.ok THEN [Append1(r.value) EXCEPT !.version = 3] ELSE FailWith("other")

\* The SET OF RecipientInfos is sorted by its encoding: any order.
Orders(s) == {[k \in 1 .. Len(s) |-> s[p[k]]] :
                p \in {q \in [1 .. Len(s) -> 1 .. Len(s)] : \A k, l \in 1 .. Len(s) : q[k] = q[l] => k = l}}

Marshal ==
  /\ enc.pc = "marshal" /\ EncryptStep
  /\ enc' = Goto("returned")
  /\ \E infos \in Orders(enc.infos) :
       msg' = [type |-> enc.type, version |-> enc.version, infos |-> infos, eci |-> enc.eci]
  /\ sealed' = [content |-> enc.content, key |-> enc.key, recipients |-> enc.recipients]

Encrypting ==
  \/ EncryptContent \/ MakeRecipientInfo \/ KEMCheck1 \/ KEMCheck2 \/ KEMRecipient \/ Marshal

(***************************************************************************)
(* Transport.                                                              *)
(***************************************************************************)

Travelling == enc.pc = "returned" /\ dec.pc = "idle" /\ changes < MaxChanges
Change == /\ Travelling /\ changes' = changes + 1
          /\ UNCHANGED <<ContentEncryptionAlgorithm, enc, sealed, dec>>

Ciphertext == msg.eci.segments[1].bytes
Segment(ok, bytes) == [ok |-> ok, bytes |-> bytes]

\* Another encoding of the ciphertext: primitive, or in two segments.
Resegment ==
  /\ Change /\ UNCHANGED intact
  /\ Len(msg.eci.segments) = 1
  /\ \/ msg' = [msg EXCEPT !.eci.compound = FALSE]
     \/ \E k \in 0 .. Len(Ciphertext) :
          msg' = [msg EXCEPT !.eci.compound = TRUE, !.eci.segments =
                    <<Segment(TRUE, SubSeq(Ciphertext, 1, k)),
                      Segment(TRUE, SubSeq(Ciphertext, k + 1, Len(Ciphertext)))>>]

\* The other implementation addresses the content key to others too.
AddRecipient ==
  /\ Change /\ UNCHANGED intact
  /\ msg.type = "enveloped"
  /\ \E info \in ForeignInfos, k \in 0 .. Len(msg.infos) :
       msg' = [msg EXCEPT !.infos = SubSeq(@, 1, k) \o <<info>> \o SubSeq(@, k + 1, Len(@))]

ForeignByte(k) == [seal |-> [mode |-> "none", iv |-> NoKey, plain |-> <<>>], at |-> k]

\* A byte changes, the tail is lost, a segment is not a primitive OCTET STRING, the
\* algorithm or its parameters change.
Damage ==
  /\ Change /\ intact' = FALSE
  /\ \/ \E s \in 1 .. Len(msg.eci.segments) : \E k \in 1 .. Len(msg.eci.segments[s].bytes) :
          \/ msg' = [msg EXCEPT !.eci.segments[s].bytes[k] = ForeignByte(k)]
          \/ msg' = [msg EXCEPT !.eci.segments[s].bytes = SubSeq(@, 1, k - 1)]
     \/ \E s \in 1 .. Len(msg.eci.segments) :
          /\ msg.eci.compound
          /\ msg' = [msg EXCEPT !.eci.segments[s].ok = FALSE]
     \/ \E a \in (Decryptable \cup {"unknown"}) \ {msg.eci.alg} : msg' = [msg EXCEPT !.eci.alg = a]
     \/ \E n \in {0, DESBlock, AESBlock, nonceSize} :
          msg' = [msg EXCEPT !.eci.params.iv = [id |-> "foreign", len |-> n]]
     \/ msg' = [msg EXCEPT !.eci.params.icv = 12]

(***************************************************************************)
(* Parse, Decrypt and DecryptUsingPSK.                                     *)
(***************************************************************************)

\* The content key that a reader gets out of a message: p7.raw has the type of the
\* message, and a KEM reader wants version 3 and AES-CBC.
ContentKey(r) ==
  IF r.by = "psk" THEN IF msg.type = "encrypted" THEN Found(r.key) ELSE Refusal
  ELSE IF msg.type # "enveloped" THEN Refusal
  ELSE IF r.priv.kind = "RSA"
  THEN LET s == selectRecipientForCertificate(msg.infos, r.cert)
       IN  IF s.ok THEN RSADecrypt(r.priv, s.value.encryptedKey) ELSE Refusal
  ELSE IF r.priv.kind \in MLKEM /\ msg.version = 3 /\ msg.eci.alg \in CBCAlgorithms
  THEN decryptKEMRecipientKey(msg.infos, r.cert, r.priv)
  ELSE Refusal

Opening == UNCHANGED <<ContentEncryptionAlgorithm, enc, msg, sealed, intact, changes>>
Give(x) == [dec EXCEPT !.pc = "done", !.result = x]

\* decrypt starts: the algorithm is known, a primitive ciphertext is taken as it is.
DecryptCall ==
  /\ enc.pc = "returned" /\ dec.pc = "idle" /\ Opening
  /\ \E r \in Readers :
       LET key == ContentKey(r)
       IN  dec' = IF ~key.ok \/ msg.eci.alg \notin Decryptable
                  THEN [Give(Invalid) EXCEPT !.reader = r]
                  ELSE [dec EXCEPT !.reader = r, !.key = key.value,
                                   !.pc = IF msg.eci.compound THEN "join" ELSE "open",
                                   !.rest = IF msg.eci.compound THEN msg.eci.segments ELSE <<>>,
                                   !.buf = IF msg.eci.compound THEN <<>> ELSE Ciphertext]

\* What asn1.Unmarshal leaves after a part that it cannot read: the input.
RestUnread(segments) ==
  IF segments # <<>> /\ Head(segments).ok THEN [nil |-> FALSE, segments |-> Tail(segments)]
  ELSE [nil |-> FALSE, segments |-> segments]

\* The rest that asn1.Unmarshal returns: after a part an empty or longer slice,
\* after an error, such as that of an empty input, nil.
Rest(segments) ==
  IF segments # <<>> /\ Head(segments).ok THEN [nil |-> FALSE, segments |-> Tail(segments)]
  ELSE [nil |-> TRUE, segments |-> <<>>]

JoinSegment ==
  /\ dec.pc = "join" /\ Opening
  /\ LET read == dec.rest # <<>> /\ Head(dec.rest).ok
     IN  dec' = [dec EXCEPT !.rest = Rest(dec.rest).segments,
                            !.pc = IF Rest(dec.rest).nil THEN "open" ELSE "join",
                            !.buf = IF read THEN @ \o Head(dec.rest).bytes ELSE @]

DecryptOpen ==
  /\ dec.pc = "open" /\ Opening
  /\ \E x \in decrypt(msg.eci, dec.key, dec.buf) : dec' = Give(x)

EnvNext ==
  \/ SetAlgorithm \/ EncryptCall \/ EncryptUsingPSKCall \/ Encrypting
  \/ Resegment \/ AddRecipient \/ Damage
  \/ DecryptCall \/ JoinSegment \/ DecryptOpen

\* A call that has begun goes on.
EnvFairness == WF_envVars(Encrypting) /\ WF_envVars(JoinSegment \/ DecryptOpen)

EnvSpec == EnvInit /\ [][EnvNext]_envVars /\ EnvFairness

-----------------------------------------------------------------------------

\* The readers with a private key of a recipient, or the pre-shared key.
Holders ==
  IF msg.type = "enveloped"
  THEN {r \in Readers : r.by = "cert" /\ \E k \in 1 .. Len(sealed.recipients) :
                           sealed.recipients[k].pub.id = r.priv.id}
  ELSE IF msg.type = "encrypted" THEN {r \in Readers : r.by = "psk" /\ r.key = sealed.key}
  ELSE {}

\* A RecipientInfo that decides what a reader gets: one of the reader's kind that is
\* malformed or names the reader's certificate.
Decides(info, r) ==
  IF r.priv.kind = "RSA"
  THEN /\ info.choice = "ktri"
       /\ info.form # "ok" \/ C!isCertMatchForIssuerAndSerial(r.cert, info.rid)
  ELSE /\ info.choice = "ori"
       /\ \/ info.form # "ok"
          \/ /\ info.type = "KEM"
             /\ info.value # "ok" \/ recipientIdentifierMatchesCertificate(info.rid, r.cert) # "other"

\* The private key of a recipient.
PrivateKeyOf(cert) ==
  IF cert.pub.kind = "RSA" THEN cert.pub
  ELSE [kind |-> encapsulateForCertificate(cert), id |-> cert.pub.id]

\* The readers that a message from Encrypt serves: those that were addressed by
\* the certificate they present, have its private key and meet no RecipientInfo
\* of another before their own; KEM readers only with AES-CBC content.
Served(r) ==
  /\ r \in Holders
  /\ r.by = "cert" =>
       /\ \E k \in 1 .. Len(sealed.recipients) : r.cert = sealed.recipients[k]
       /\ r.priv = PrivateKeyOf(r.cert)
       /\ r.priv.kind # "RSA" => msg.eci.alg \in CBCAlgorithms
       /\ \A k \in 1 .. Len(msg.infos) :
            Decides(msg.infos[k], r) /\ (\A l \in 1 .. k - 1 : ~Decides(msg.infos[l], r))
              => MadeFor(msg.infos[k], r.priv)

\* Messages implement sealed boxes.  An intact message gives every reader it serves
\* its content, and every other holder of a key its content or an error.  A message
\* that is labelled AES-GCM gives its content to nobody but them and other bytes to
\* nobody at all, however it was damaged.  Nothing is promised about the bytes that
\* another label gives to a reader with the wrong key, or after damage: their padding
\* may happen to be valid.  The label is the one read, which damage may have changed.
Box == INSTANCE SealedBox WITH
  state <- IF dec.pc = "done" THEN "opened" ELSE IF msg = NoMessage THEN "empty" ELSE "sealed",
  content <- sealed.content,
  holders <- Holders,
  readers <- IF intact THEN {r \in Readers : Served(r)} ELSE {},
  authenticated <- msg # NoMessage /\ msg.eci.alg \in GCMAlgorithms,
  opener <- IF dec.pc = "done" THEN dec.reader ELSE NoReader,
  result <- dec.result

ImplementsSealedBox == Box!BoxSpec

\* The algorithm a message names is the one its key was made for, also if another
\* goroutine sets ContentEncryptionAlgorithm while Encrypt runs.
LabelMatchesKey ==
  enc.pc = "returned" /\ enc.type = "enveloped" =>
    KeyLen[enc.eci.alg] = enc.key.len

\* Without such a race, every message with a KEM recipient is one that a KEM reader
\* accepts: version 3 and AES-CBC content.
KEMAcceptable ==
  msg.type = "enveloped" /\ intact =>
    \A k \in 1 .. Len(sealed.recipients) :
      sealed.recipients[k].pub.kind # "RSA" =>
        msg.version = 3 /\ msg.eci.alg \in CBCAlgorithms

\* Every call returns: Encrypt whatever the variable does meanwhile, Decrypt
\* whatever the segments of the ciphertext are.
CallsReturn ==
  /\ enc.pc = "content" ~> EncryptEnded
  /\ dec.pc \in {"join", "open"} ~> dec.pc = "done"

=============================================================================
