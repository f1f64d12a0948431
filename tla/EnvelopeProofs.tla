--------------------------- MODULE EnvelopeProofs ---------------------------
(***************************************************************************)
(* Encrypted messages implement sealed boxes, for any recipients, readers, *)
(* contents, pre-shared keys and RecipientInfos of others, any number of   *)
(* changes in transport, and with ContentEncryptionAlgorithm set at any    *)
(* time.                                                                   *)
(***************************************************************************)
EXTENDS Envelope, PaddingProofs, FiniteSetTheorems, WellFoundedInduction

-----------------------------------------------------------------------------
(***************************************************************************)
(* The invariant.                                                          *)
(***************************************************************************)

\* A key can be given to a certificate, and the RecipientInfo that does it.
Addressable(key, cert) ==
  /\ cert \in RecipientCertificate
  /\ cert.pub.kind # "RSA" => makeKEMRecipientInfo(key, cert, "made").ok
InfoFor(key, cert) ==
  IF cert.pub.kind = "RSA" THEN KeyTransRecipientInfo(key, cert)
  ELSE makeKEMRecipientInfo(key, cert, "made").value
OwnInfos(key, recipients) ==
  {InfoFor(key, recipients[j]) : j \in {i \in 1 .. Len(recipients) : Addressable(key, recipients[i])}}

\* The encrypted content that the package makes.
MadeParams(alg) ==
  IF alg \in GCMAlgorithms
  THEN [form |-> "gcm", iv |-> [id |-> "made", len |-> nonceSize], icv |-> Overhead]
  ELSE [form |-> "iv", iv |-> [id |-> "made", len |-> BlockSize(CipherOf(alg))], icv |-> 0]
MadeBytes(alg, key, content) ==
  IF alg \in GCMAlgorithms THEN GCMSeal(key, MadeParams(alg).iv, content)
  ELSE CryptBlocks(CipherOf(alg), key, MadeParams(alg).iv,
                   pad(content, BlockSize(CipherOf(alg))).bytes)

EncryptedPCs == {"recipients", "kem1", "kem2", "kem", "marshal", "returned"}
KEMPCs == {"kem1", "kem2", "kem"}

EncShape ==
  enc = [pc |-> enc.pc, type |-> enc.type, content |-> enc.content, recipients |-> enc.recipients,
         key |-> enc.key, setting |-> enc.setting, eci |-> enc.eci, infos |-> enc.infos,
         version |-> enc.version, error |-> enc.error]

\* The arguments of the call, and the key once it is made.
Prepared ==
  /\ enc.type \in {"enveloped", "encrypted"}
  /\ enc.content \in Seq(Byte)
  /\ enc.recipients \in Seq(RecipientCertificate \cup {NilCertificate})
  /\ enc.type = "encrypted" => enc.recipients = <<>>

\* The content is encrypted with a key that its algorithm takes.
ContentMade ==
  /\ enc.eci = ECI(enc.eci.alg, MadeParams(enc.eci.alg),
                   MadeBytes(enc.eci.alg, enc.key, enc.content))
  /\ enc.eci.alg \in ContentAlgorithms
  /\ NewCipher(CipherOf(enc.eci.alg), enc.key)
  /\ enc.type = "enveloped" => KeyLen[enc.eci.alg] = enc.key.len

\* The recipients so far have been given the key.
InfosMade ==
  /\ enc.infos \in Seq(OwnInfos(enc.key, enc.recipients))
  /\ Len(enc.infos) <= Len(enc.recipients)
  /\ \A k \in 1 .. Len(enc.infos) :
       /\ enc.infos[k] = InfoFor(enc.key, enc.recipients[k])
       /\ Addressable(enc.key, enc.recipients[k])
       /\ enc.recipients[k].pub.kind # "RSA" => enc.version = 3

EncInv ==
  /\ EncShape
  /\ enc.pc \in {"idle", "content", "failed", "panic"} \cup EncryptedPCs
  /\ enc.pc = "idle" => enc = NoEncrypt
  /\ enc.pc = "content" =>
       /\ Prepared /\ enc.setting \in ContentAlgorithms
       /\ enc.infos = <<>> /\ (enc.type = "enveloped" => enc.key = NoKey)
  /\ enc.pc \in EncryptedPCs => Prepared /\ ContentMade /\ InfosMade
  /\ enc.pc \in {"recipients"} \cup KEMPCs => enc.type = "enveloped"
  /\ enc.pc \in KEMPCs =>
       /\ Len(enc.infos) < Len(enc.recipients)
       /\ Recipient \in RecipientCertificate /\ Recipient.pub.kind # "RSA"
  /\ enc.pc \in {"marshal", "returned"} => Len(enc.infos) = Len(enc.recipients)

\* Bytes of a ciphertext in transport: those that were made and foreign ones.
Made == MadeBytes(enc.eci.alg, enc.key, enc.content)
Symbols == {Made[k] : k \in 1 .. Len(Made)} \cup {ForeignByte(k) : k \in Nat}
Segments == [ok : BOOLEAN, bytes : Seq(Symbols)]
Joined(s) ==
  IF s = <<>> THEN <<>> ELSE IF Len(s) = 1 THEN s[1].bytes ELSE s[1].bytes \o s[2].bytes
Whole(buf, s) == (\A k \in 1 .. Len(s) : s[k].ok) /\ buf \o Joined(s) = Made

\* Each recipient has its RecipientInfo in the message.
Addressed ==
  \A j \in 1 .. Len(enc.recipients) : \E k \in 1 .. Len(msg.infos) :
    msg.infos[k] = InfoFor(enc.key, enc.recipients[j])

ECIInv ==
  /\ msg.eci = [alg |-> msg.eci.alg, params |-> msg.eci.params, compound |-> msg.eci.compound,
                segments |-> msg.eci.segments]
  /\ msg.eci.compound \in BOOLEAN
  /\ msg.eci.segments \in Seq(Segments) /\ Len(msg.eci.segments) \in {1, 2}
  /\ ~msg.eci.compound => Len(msg.eci.segments) = 1
  /\ intact => /\ msg.eci.alg = enc.eci.alg /\ msg.eci.params = enc.eci.params
               /\ Whole(<<>>, msg.eci.segments)

MsgInv ==
  /\ intact \in BOOLEAN
  /\ enc.pc # "returned" => msg = NoMessage /\ intact /\ dec = NoDecrypt /\ sealed.content = <<>>
  /\ enc.pc = "returned" =>
       /\ msg = [type |-> enc.type, version |-> enc.version, infos |-> msg.infos, eci |-> msg.eci]
       /\ sealed = [content |-> enc.content, key |-> enc.key, recipients |-> enc.recipients]
       /\ msg.infos \in Seq(OwnInfos(enc.key, enc.recipients) \cup ForeignInfos)
       /\ Addressed /\ ECIInv

DecInv ==
  /\ dec = [pc |-> dec.pc, reader |-> dec.reader, key |-> dec.key, rest |-> dec.rest,
            buf |-> dec.buf, result |-> dec.result]
  /\ dec.pc \in {"idle", "join", "open", "done"}
  /\ dec.pc \in {"join", "open"} =>
       /\ enc.pc = "returned"
       /\ dec.reader \in Readers /\ dec.buf \in Seq(Symbols)
       /\ dec.key = sealed.key <=> dec.reader \in Holders
  /\ dec.pc = "join" =>
       /\ dec.rest \in Seq(Segments) /\ Len(dec.rest) <= 2
       /\ intact => Whole(dec.buf, dec.rest)
  /\ dec.pc = "open" /\ intact => dec.buf = Made

EnvInv == EncInv /\ MsgInv /\ DecInv

\* Without a race the variable keeps its value while Encrypt runs.
RaceInv ==
  /\ enc.pc \in {"content"} \cup (EncryptedPCs \ {"returned"}) =>
       ContentEncryptionAlgorithm = enc.setting
  /\ enc.pc \in EncryptedPCs => enc.eci.alg = enc.setting
  /\ enc.pc = "kem" => enc.setting \in CBCAlgorithms
  /\ enc.pc \in EncryptedPCs =>
       \A k \in 1 .. Len(enc.infos) :
         enc.recipients[k].pub.kind # "RSA" => enc.setting \in CBCAlgorithms

-----------------------------------------------------------------------------
(***************************************************************************)
(* Encrypt and EncryptUsingPSK.                                            *)
(***************************************************************************)

\* The result of one of the encryption functions.
GoodResult(r, content, own) ==
  r.ok => /\ r.eci.alg \in ContentAlgorithms
          /\ r.eci = ECI(r.eci.alg, MadeParams(r.eci.alg), MadeBytes(r.eci.alg, r.key, content))
          /\ NewCipher(CipherOf(r.eci.alg), r.key)
          /\ own = NoKey => KeyLen[r.eci.alg] = r.key.len

LEMMA EncryptCBCGood ==
  ASSUME NEW alg \in {"DESCBC"} \cup CBCAlgorithms, NEW content, NEW key
  PROVE  GoodResult(encryptCBC(alg, content, key, "made"), content, key)
<1> DEFINE k == IF key = NoKey THEN [id |-> "made", len |-> KeyLen[alg]] ELSE key
           iv == [id |-> "made", len |-> BlockSize(CipherOf(alg))]
           eci == ECI(alg, [form |-> "iv", iv |-> iv, icv |-> 0],
                      CryptBlocks(CipherOf(alg), k, iv, pad(content, BlockSize(CipherOf(alg))).bytes))
           r == encryptCBC(alg, content, key, "made")
<1>1. alg \in ContentAlgorithms /\ alg \notin GCMAlgorithms
  BY DEF ContentAlgorithms, CBCAlgorithms, GCMAlgorithms
<1>2. key = NoKey => KeyLen[alg] = k.len
  OBVIOUS
<1>3. r = Encrypted(k, CipherOf(alg), eci)
  BY DEF encryptCBC
<1> HIDE DEF k, r
<1>4. eci = ECI(alg, MadeParams(alg), MadeBytes(alg, k, content)) /\ eci.alg = alg
  BY <1>1 DEF MadeParams, MadeBytes, ECI
<1> HIDE DEF eci
<1>5. CASE NewCipher(CipherOf(alg), k)
  <2>1. r.key = k /\ r.eci = eci
    BY <1>3, <1>5 DEF Encrypted
  <2> QED BY <1>1, <1>2, <1>4, <1>5, <2>1 DEF GoodResult, r
<1>6. CASE ~NewCipher(CipherOf(alg), k)
  BY <1>3, <1>6 DEF Encrypted, Failed, GoodResult, r
<1> QED BY <1>5, <1>6

LEMMA EncryptGCMGood ==
  ASSUME NEW alg, NEW content, NEW key
  PROVE  GoodResult(encryptAESGCM(alg, content, key, "made"), content, key)
<1> DEFINE k == IF key = NoKey THEN [id |-> "made", len |-> KeyLen[alg]] ELSE key
           nonce == [id |-> "made", len |-> nonceSize]
           eci == ECI(alg, [form |-> "gcm", iv |-> nonce, icv |-> Overhead], GCMSeal(k, nonce, content))
           r == encryptAESGCM(alg, content, key, "made")
<1>0. CASE alg \notin GCMAlgorithms
  BY <1>0 DEF encryptAESGCM, Failed, GoodResult
<1>7. CASE alg \in GCMAlgorithms
  <2>1. alg \in ContentAlgorithms /\ CipherOf(alg) = "AES"
    BY <1>7 DEF ContentAlgorithms, GCMAlgorithms, CipherOf
  <2>2. key = NoKey => KeyLen[alg] = k.len
    OBVIOUS
  <2>3. r = Encrypted(k, "AES", eci)
    BY <1>7 DEF encryptAESGCM
  <2> HIDE DEF k, r
  <2>4. eci = ECI(alg, MadeParams(alg), MadeBytes(alg, k, content)) /\ eci.alg = alg
    BY <1>7 DEF MadeParams, MadeBytes, ECI
  <2> HIDE DEF eci
  <2>5. CASE NewCipher("AES", k)
    <3>1. r.key = k /\ r.eci = eci
      BY <2>3, <2>5 DEF Encrypted
    <3> QED BY <2>1, <2>2, <2>4, <2>5, <3>1 DEF GoodResult, r
  <2>6. CASE ~NewCipher("AES", k)
    BY <2>3, <2>6 DEF Encrypted, Failed, GoodResult, r
  <2> QED BY <2>5, <2>6
<1> QED BY <1>0, <1>7

\* Whatever the variable is when the chosen function reads it.
LEMMA EncryptedContentGood ==
  GoodResult(EncryptedContent, enc.content, enc.key)
<1> DEFINE current == ContentEncryptionAlgorithm
<1>1. CASE enc.setting = "DESCBC"
  <2>1. EncryptedContent = encryptCBC("DESCBC", enc.content, enc.key, "made")
    BY <1>1 DEF EncryptedContent, EncryptedFor, encryptDESCBC, CBCAlgorithms
  <2> QED BY <2>1, EncryptCBCGood
<1>2. CASE enc.setting # "DESCBC" /\ enc.setting \in CBCAlgorithms
  <2>1. EncryptedContent = encryptAESCBC(current, enc.content, enc.key, "made")
    BY <1>2 DEF EncryptedContent, EncryptedFor
  <2>2. CASE current \in CBCAlgorithms
    BY <2>1, <2>2, EncryptCBCGood DEF encryptAESCBC
  <2>3. CASE current \notin CBCAlgorithms
    BY <2>1, <2>3 DEF encryptAESCBC, Failed, GoodResult
  <2> QED BY <2>2, <2>3
<1>3. CASE enc.setting # "DESCBC" /\ enc.setting \notin CBCAlgorithms
  <2>1. EncryptedContent = encryptAESGCM(current, enc.content, enc.key, "made")
    BY <1>3 DEF EncryptedContent, EncryptedFor
  <2> QED BY <2>1, EncryptGCMGood
<1> QED BY <1>1, <1>2, <1>3

LEMMA EncFrame ==
  ASSUME EncInv, enc' = enc
  PROVE  EncInv'
BY DEF EncInv, EncShape, Prepared, ContentMade, InfosMade, Recipient

\* A call that ends without a message promises nothing.
LEMMA EncEnds ==
  ASSUME EncInv, NEW x \in {"failed", "panic"},
         \/ enc' = Goto(x)
         \/ \E e : enc' = FailWith(e)
  PROVE  EncInv'
<1>1. enc'.pc \in {"failed", "panic"} /\ EncShape'
  BY DEF EncInv, EncShape, Goto, FailWith
<1> QED BY <1>1 DEF EncInv, EncryptedPCs, KEMPCs

LEMMA EncIdle ==
  ASSUME EncInv, enc.pc = "idle"
  PROVE  enc.infos = <<>> /\ enc.recipients = <<>> /\ enc.key = NoKey
<1>1. enc = NoEncrypt
  BY DEF EncInv
<1> QED BY <1>1 DEF NoEncrypt

LEMMA EncryptCallStep ==
  ASSUME EncInv, EncryptCall
  PROVE  EncInv'
<1>1. PICK content \in Contents, recipients \in RecipientLists :
        /\ enc.pc = "idle"
        /\ enc' = IF ContentEncryptionAlgorithm \in ContentAlgorithms
                  THEN [enc EXCEPT !.pc = "content", !.type = "enveloped", !.content = content,
                                   !.recipients = recipients,
                                   !.setting = ContentEncryptionAlgorithm]
                  ELSE FailWith("unsupported")
  BY DEF EncryptCall
<1>2. CASE ContentEncryptionAlgorithm \in ContentAlgorithms
  <2>1. /\ EncShape' /\ enc'.pc = "content" /\ enc'.type = "enveloped" /\ enc'.content = content
        /\ enc'.recipients = recipients /\ enc'.setting = ContentEncryptionAlgorithm
        /\ enc'.infos = <<>> /\ enc'.key = NoKey
    BY <1>1, <1>2, EncIdle DEF EncInv, EncShape
  <2>2. Prepared'
    BY <2>1, CallAssumption DEF Prepared
  <2> QED BY <1>2, <2>1, <2>2 DEF EncInv, EncryptedPCs, KEMPCs
<1>3. CASE ContentEncryptionAlgorithm \notin ContentAlgorithms
  BY <1>1, <1>3, EncEnds
<1> QED BY <1>2, <1>3

LEMMA EncryptUsingPSKCallStep ==
  ASSUME EncInv, EncryptUsingPSKCall
  PROVE  EncInv'
<1>1. PICK content \in Contents, key \in PSKs \cup {NoKey} :
        /\ enc.pc = "idle"
        /\ enc' = IF key = NoKey THEN FailWith("noPSK")
                  ELSE IF ContentEncryptionAlgorithm \in {"DESCBC"} \cup GCMAlgorithms
                  THEN [enc EXCEPT !.pc = "content", !.type = "encrypted", !.content = content,
                                   !.key = key, !.setting = ContentEncryptionAlgorithm]
                  ELSE FailWith("unsupported")
  BY DEF EncryptUsingPSKCall
<1>2. CASE key # NoKey /\ ContentEncryptionAlgorithm \in {"DESCBC"} \cup GCMAlgorithms
  <2>1. /\ EncShape' /\ enc'.pc = "content" /\ enc'.type = "encrypted" /\ enc'.content = content
        /\ enc'.recipients = <<>> /\ enc'.setting = ContentEncryptionAlgorithm
        /\ enc'.infos = <<>>
    BY <1>1, <1>2, EncIdle DEF EncInv, EncShape
  <2>2. Prepared'
    BY <2>1, CallAssumption, EmptySeq DEF Prepared
  <2>3. ContentEncryptionAlgorithm \in ContentAlgorithms
    BY <1>2 DEF ContentAlgorithms
  <2> QED BY <2>1, <2>2, <2>3 DEF EncInv, EncryptedPCs, KEMPCs
<1>3. CASE ~(key # NoKey /\ ContentEncryptionAlgorithm \in {"DESCBC"} \cup GCMAlgorithms)
  BY <1>1, <1>3, EncEnds
<1> QED BY <1>2, <1>3

LEMMA EncryptContentStep ==
  ASSUME EncInv, EncryptContent
  PROVE  EncInv'
<1> DEFINE r == EncryptedContent
           next == IF enc.type = "enveloped" THEN "recipients" ELSE "marshal"
<1>1. /\ enc.pc = "content"
      /\ enc' = IF r.ok THEN [enc EXCEPT !.pc = next, !.key = r.key, !.eci = r.eci]
                ELSE FailWith("other")
  BY DEF EncryptContent
<1>2. GoodResult(r, enc.content, enc.key)
  BY EncryptedContentGood
<1>3. CASE r.ok
  <2> HIDE DEF r
  <2>1. /\ EncShape' /\ enc'.pc = next /\ enc'.type = enc.type /\ enc'.content = enc.content
        /\ enc'.recipients = enc.recipients /\ enc'.infos = <<>> /\ enc'.key = r.key
        /\ enc'.eci = r.eci
    BY <1>1, <1>3 DEF EncInv, EncShape
  <2>2. Prepared /\ Prepared' /\ (enc.type = "enveloped" => enc.key = NoKey)
    BY <1>1, <2>1 DEF EncInv, Prepared
  <2>3. ContentMade'
    BY <1>2, <1>3, <2>1, <2>2 DEF ContentMade, GoodResult
  <2>4. InfosMade'
    BY <2>1, <2>2, EmptySeq, LenProperties DEF InfosMade, Prepared
  <2>5. enc'.pc = "marshal" => Len(enc'.infos) = Len(enc'.recipients)
    BY <2>1, <2>2 DEF Prepared
  <2> QED BY <2>1, <2>2, <2>3, <2>4, <2>5 DEF EncInv, EncryptedPCs, KEMPCs, Prepared
<1>4. CASE ~r.ok
  BY <1>1, <1>4, EncEnds
<1> QED BY <1>3, <1>4

\* The next recipient is given the key.
LEMMA AppendInfo ==
  ASSUME EncInv, enc.pc \in {"recipients", "kem"}, Len(enc.infos) < Len(enc.recipients),
         Addressable(enc.key, Recipient), NEW v \in {enc.version, 3},
         Recipient.pub.kind # "RSA" => v = 3,
         enc' = [Append1(InfoFor(enc.key, Recipient)) EXCEPT !.version = v]
  PROVE  EncInv'
<1> DEFINE n == Len(enc.infos)
           info == InfoFor(enc.key, Recipient)
           own == OwnInfos(enc.key, enc.recipients)
<1>1. Prepared /\ ContentMade /\ InfosMade /\ enc.type = "enveloped"
  BY DEF EncInv, EncryptedPCs, KEMPCs
<1> HIDE DEF info
<1>2. /\ EncShape' /\ enc'.pc = "recipients" /\ enc'.type = enc.type /\ enc'.content = enc.content
      /\ enc'.recipients = enc.recipients /\ enc'.key = enc.key /\ enc'.eci = enc.eci
      /\ enc'.infos = Append(enc.infos, info) /\ enc'.version = v
  BY DEF EncInv, EncShape, Append1, info
<1>3. n \in Nat /\ Len(enc.recipients) \in Nat /\ enc.infos \in Seq(own)
  BY <1>1, LenProperties DEF Prepared, InfosMade
<1>4. Recipient = enc.recipients[n + 1] /\ n + 1 \in 1 .. Len(enc.recipients)
  BY <1>3 DEF Recipient
<1>5. info \in own
  BY <1>4 DEF OwnInfos, info
<1>6. /\ Append(enc.infos, info) \in Seq(own) /\ Len(Append(enc.infos, info)) = n + 1
      /\ \A k \in 1 .. n : Append(enc.infos, info)[k] = enc.infos[k]
      /\ Append(enc.infos, info)[n + 1] = info
  BY <1>3, <1>5, AppendProperties
<1>7. ASSUME NEW k \in 1 .. n + 1
      PROVE  /\ enc'.infos[k] = InfoFor(enc.key, enc.recipients[k])
             /\ Addressable(enc.key, enc.recipients[k])
             /\ enc.recipients[k].pub.kind # "RSA" => v = 3
  <2>1. CASE k \in 1 .. n
    BY <1>1, <1>2, <1>6, <2>1 DEF InfosMade
  <2>2. CASE k = n + 1
    BY <1>2, <1>4, <1>6, <2>2 DEF info
  <2> QED BY <1>3, <2>1, <2>2
<1>8. InfosMade'
  <2>1. enc'.infos \in Seq(OwnInfos(enc'.key, enc'.recipients)) /\ Len(enc'.infos) = n + 1
    BY <1>2, <1>6
  <2>2. Len(enc'.infos) <= Len(enc'.recipients)
    BY <1>2, <1>3, <2>1
  <2>3. \A k \in 1 .. Len(enc'.infos) :
           /\ enc'.infos[k] = InfoFor(enc'.key, enc'.recipients[k])
           /\ Addressable(enc'.key, enc'.recipients[k])
           /\ enc'.recipients[k].pub.kind # "RSA" => enc'.version = 3
    BY <1>2, <1>7, <2>1
  <2> QED BY <2>1, <2>2, <2>3 DEF InfosMade
<1>9. Prepared' /\ ContentMade'
  BY <1>1, <1>2 DEF Prepared, ContentMade
<1> QED BY <1>1, <1>2, <1>8, <1>9 DEF EncInv, EncryptedPCs, KEMPCs

\* A step that only goes to another label of the loop over the recipients.
LEMMA GotoStep ==
  ASSUME EncInv, enc.pc \in EncryptedPCs, NEW x \in EncryptedPCs, enc' = Goto(x),
         x \in KEMPCs => /\ enc.type = "enveloped" /\ Len(enc.infos) < Len(enc.recipients)
                         /\ Recipient \in RecipientCertificate /\ Recipient.pub.kind # "RSA",
         x \in {"marshal", "returned"} => Len(enc.infos) = Len(enc.recipients),
         x # "recipients"
  PROVE  EncInv'
<1>1. Prepared /\ ContentMade /\ InfosMade
  BY DEF EncInv
<1>2. /\ EncShape' /\ enc'.pc = x /\ enc'.type = enc.type /\ enc'.content = enc.content
      /\ enc'.recipients = enc.recipients /\ enc'.key = enc.key /\ enc'.eci = enc.eci
      /\ enc'.infos = enc.infos /\ enc'.version = enc.version
  BY DEF EncInv, EncShape, Goto
<1>3. Prepared' /\ ContentMade' /\ InfosMade' /\ Recipient' = Recipient
  BY <1>1, <1>2 DEF Prepared, ContentMade, InfosMade, Recipient
<1> QED BY <1>2, <1>3 DEF EncInv, EncryptedPCs, KEMPCs

LEMMA MakeRecipientInfoStep ==
  ASSUME EncInv, MakeRecipientInfo
  PROVE  EncInv'
<1>1. /\ enc.pc = "recipients" /\ enc.type = "enveloped" /\ Prepared /\ InfosMade
      /\ enc.pc \in EncryptedPCs
  BY DEF MakeRecipientInfo, EncInv, EncryptedPCs
<1>2. CASE Len(enc.infos) = Len(enc.recipients)
  BY <1>1, <1>2, GotoStep DEF MakeRecipientInfo, EncryptedPCs, KEMPCs
<1>3. CASE Len(enc.infos) # Len(enc.recipients)
  <2>1. Len(enc.infos) < Len(enc.recipients) /\ Len(enc.infos) + 1 \in 1 .. Len(enc.recipients)
    BY <1>1, <1>3, LenProperties DEF Prepared, InfosMade
  <2>2. Recipient \in RecipientCertificate \cup {NilCertificate}
    BY <1>1, <2>1, ElementOfSeq DEF Recipient, Prepared
  <2>3. CASE Recipient = NilCertificate
    BY <1>3, <2>3, EncEnds DEF MakeRecipientInfo
  <2>4. CASE Recipient # NilCertificate /\ Recipient.pub.kind = "RSA"
    <3>1. enc' = Append1(InfoFor(enc.key, Recipient))
      BY <1>3, <2>4 DEF MakeRecipientInfo, InfoFor
    <3>2. Addressable(enc.key, Recipient)
      BY <2>2, <2>4 DEF Addressable
    <3>3. enc' = [Append1(InfoFor(enc.key, Recipient)) EXCEPT !.version = enc.version]
      BY <3>1 DEF Append1, EncInv, EncShape
    <3> QED BY <1>1, <2>1, <2>4, <3>2, <3>3, AppendInfo
  <2>5. CASE Recipient # NilCertificate /\ Recipient.pub.kind # "RSA"
    <3>1. enc' = Goto("kem1")
      BY <1>3, <2>5 DEF MakeRecipientInfo
    <3> QED BY <1>1, <2>1, <2>2, <2>5, <3>1, GotoStep DEF EncryptedPCs, KEMPCs
  <2> QED BY <2>3, <2>4, <2>5
<1> QED BY <1>2, <1>3

LEMMA InKEM ==
  ASSUME EncInv, enc.pc \in KEMPCs
  PROVE  /\ enc.pc \in EncryptedPCs /\ enc.type = "enveloped"
         /\ Len(enc.infos) < Len(enc.recipients)
         /\ Recipient \in RecipientCertificate /\ Recipient.pub.kind # "RSA"
BY DEF EncInv, EncryptedPCs, KEMPCs

LEMMA KEMCheckStep ==
  ASSUME EncInv, KEMCheck1 \/ KEMCheck2
  PROVE  EncInv'
<1>1. enc.pc \in KEMPCs
  BY DEF KEMCheck1, KEMCheck2, KEMPCs
<1>2. \/ \E x \in {"kem", "kem2"} : enc' = Goto(x)
      \/ enc' = FailWith("other")
  BY DEF KEMCheck1, KEMCheck2
<1>3. ASSUME NEW x \in {"kem", "kem2"}, enc' = Goto(x)
      PROVE  EncInv'
  BY <1>1, <1>3, InKEM, GotoStep DEF EncryptedPCs, KEMPCs
<1> QED BY <1>2, <1>3, EncEnds

LEMMA KEMRecipientStep ==
  ASSUME EncInv, KEMRecipient
  PROVE  EncInv'
<1> DEFINE r == makeKEMRecipientInfo(enc.key, Recipient, "made")
<1>1. /\ enc.pc = "kem" /\ enc.pc \in KEMPCs
      /\ enc' = IF r.ok THEN [Append1(r.value) EXCEPT !.version = 3] ELSE FailWith("other")
  BY DEF KEMRecipient, KEMPCs
<1>2. CASE r.ok
  <2>1. InfoFor(enc.key, Recipient) = r.value /\ Addressable(enc.key, Recipient)
    BY <1>1, <1>2, InKEM DEF InfoFor, Addressable
  <2> QED BY <1>1, <1>2, <2>1, InKEM, AppendInfo
<1>3. CASE ~r.ok
  BY <1>1, <1>3, EncEnds
<1> QED BY <1>2, <1>3

LEMMA MarshalEncStep ==
  ASSUME EncInv, Marshal
  PROVE  EncInv'
BY GotoStep DEF Marshal, EncInv, EncryptedPCs, KEMPCs

-----------------------------------------------------------------------------
(***************************************************************************)
(* The message that Encrypt returns.                                       *)
(***************************************************************************)

\* A reordered sequence has the elements of the original.
LEMMA OrdersPermute ==
  ASSUME NEW S, NEW s \in Seq(S), NEW t \in Orders(s)
  PROVE  /\ t \in Seq(S) /\ Len(t) = Len(s)
         /\ \A j \in 1 .. Len(s) : \E k \in 1 .. Len(t) : t[k] = s[j]
<1> DEFINE n == Len(s)
           I == 1 .. n
<1>1. n \in Nat /\ \A k \in I : s[k] \in S
  BY LenProperties, ElementOfSeq
<1>2. PICK p \in [I -> I] : /\ \A k, l \in I : p[k] = p[l] => k = l
                           /\ t = [k \in I |-> s[p[k]]]
  BY DEF Orders
<1> HIDE DEF n
<1>3. t \in Seq(S) /\ Len(t) = n
  BY <1>1, <1>2
<1>4. IsFiniteSet(I)
  BY <1>1, FS_Interval
<1>5. p \in Injection(I, I)
  BY <1>2 DEF Injection, IsInjective
<1>6. p \in Surjection(I, I)
  BY <1>4, <1>5, FS_Injection
<1>7. \A j \in I : \E k \in I : p[k] = j
  BY <1>6 DEF Surjection
<1> QED BY <1>2, <1>3, <1>7 DEF n

\* The bytes of a ciphertext carry their seal and their position.
LEMMA SealedBytes ==
  ASSUME NEW seal, NEW n \in Nat
  PROVE  /\ Len(Sealed(seal, n)) = n
         /\ \A S : (\A k \in 1 .. n : Sealed(seal, n)[k] \in S) => Sealed(seal, n) \in Seq(S)
         /\ \A k \in 1 .. n : Sealed(seal, n)[k] = [seal |-> seal, at |-> k]
<1> DEFINE s == Sealed(seal, n)
<1>1. s = [k \in 1 .. n |-> [seal |-> seal, at |-> k]]
  BY DEF Sealed
<1>2. \A k \in 1 .. n : s[k] = [seal |-> seal, at |-> k]
  BY <1>1
<1>3. ASSUME NEW S, \A k \in 1 .. n : s[k] \in S
      PROVE  s \in Seq(S)
  <2>1. s \in [1 .. n -> S]
    BY <1>1, <1>3
  <2> QED BY <2>1
<1>4. Len(s) = n
  BY <1>1
<1> QED BY <1>2, <1>3, <1>4

LEMMA BlockSizeType ==
  ASSUME NEW cipher
  PROVE  BlockSize(cipher) \in BlockSizes
BY BlockAssumption DEF BlockSize, BlockSizes

MadePlain(alg, content) ==
  IF alg \in GCMAlgorithms THEN content ELSE pad(content, BlockSize(CipherOf(alg))).bytes
MadeSeal(alg, key, content) ==
  [mode |-> IF alg \in GCMAlgorithms THEN "GCM" ELSE "CBC", cipher |-> CipherOf(alg),
   key |-> key, iv |-> MadeParams(alg).iv, plain |-> MadePlain(alg, content)]
MadeLen(alg, content) ==
  IF alg \in GCMAlgorithms THEN Len(content) + 1 ELSE Len(MadePlain(alg, content))

LEMMA MadePlainType ==
  ASSUME NEW alg, NEW content \in Seq(Byte)
  PROVE  MadePlain(alg, content) \in Seq(Byte) /\ MadeLen(alg, content) \in Nat
<1>1. CASE alg \in GCMAlgorithms
  BY <1>1, LenProperties DEF MadePlain, MadeLen
<1>2. CASE alg \notin GCMAlgorithms
  <2> DEFINE b == BlockSize(CipherOf(alg))
  <2>1. b \in BlockSizes
    BY BlockSizeType
  <2> HIDE DEF b
  <2>2. pad(content, b).bytes \in Seq(Byte)
    <3> DEFINE x == content \o padding(Len(content), b)
    <3>1. pad(content, b) = Bytes(x) /\ x \in Seq(Byte)
      BY <2>1, PadBytes
    <3> HIDE DEF x
    <3> QED BY <3>1 DEF Bytes
  <2>3. Len(pad(content, b).bytes) \in Nat
    BY <2>2, LenProperties
  <2> QED BY <1>2, <2>2, <2>3 DEF MadePlain, MadeLen, b
<1> QED BY <1>1, <1>2

LEMMA MadeIsSealed ==
  ASSUME NEW alg, NEW key, NEW content
  PROVE  MadeBytes(alg, key, content) = Sealed(MadeSeal(alg, key, content), MadeLen(alg, content))
<1>1. CASE alg \in GCMAlgorithms
  <2>1. CipherOf(alg) = "AES"
    BY <1>1 DEF GCMAlgorithms, CipherOf
  <2> QED BY <1>1, <2>1 DEF MadeBytes, MadeSeal, MadeLen, MadePlain, GCMSeal
<1>2. CASE alg \notin GCMAlgorithms
  BY <1>2 DEF MadeBytes, MadeSeal, MadeLen, MadePlain, CryptBlocks
<1> QED BY <1>1, <1>2

LEMMA MadeType ==
  ASSUME Prepared
  PROVE  /\ Made \in Seq(Symbols) /\ Len(Made) = MadeLen(enc.eci.alg, enc.content)
         /\ \A k \in 1 .. Len(Made) :
              Made[k] = [seal |-> MadeSeal(enc.eci.alg, enc.key, enc.content), at |-> k]
<1> DEFINE seal == MadeSeal(enc.eci.alg, enc.key, enc.content)
           n == MadeLen(enc.eci.alg, enc.content)
<1>1. n \in Nat /\ Made = Sealed(seal, n)
  BY MadePlainType, MadeIsSealed DEF Prepared, Made
<1> HIDE DEF seal, n
<1>2. /\ Len(Made) = n
      /\ \A k \in 1 .. n : Made[k] = [seal |-> seal, at |-> k]
      /\ (\A k \in 1 .. n : Made[k] \in Symbols) => Made \in Seq(Symbols)
  BY <1>1, SealedBytes
<1>3. \A k \in 1 .. n : Made[k] \in Symbols
  BY <1>2 DEF Symbols
<1>4. Made \in Seq(Symbols)
  BY <1>2, <1>3
<1> QED BY <1>2, <1>4 DEF seal, n

LEMMA MadeFrame ==
  ASSUME enc'.eci = enc.eci, enc'.key = enc.key, enc'.content = enc.content
  PROVE  Made' = Made /\ Symbols' = Symbols /\ Segments' = Segments
<1>1. Made' = Made
  BY DEF Made
<1>2. Symbols' = Symbols
  BY <1>1 DEF Symbols
<1> QED BY <1>1, <1>2 DEF Segments

\* One segment with all of the ciphertext.
LEMMA OneSegment ==
  ASSUME Prepared
  PROVE  LET s == <<[ok |-> TRUE, bytes |-> Made]>>
         IN  s \in Seq(Segments) /\ Len(s) = 1 /\ Whole(<<>>, s)
<1> DEFINE x == [ok |-> TRUE, bytes |-> Made]
           s == <<x>>
<1>1. x \in Segments /\ x.ok /\ x.bytes = Made
  BY MadeType DEF Segments
<1> HIDE DEF x
<1>2. s \in Seq(Segments) /\ Len(s) = 1 /\ s[1] = x /\ s # <<>>
  BY <1>1
<1>3. Joined(s) = Made
  BY <1>1, <1>2 DEF Joined
<1>4. <<>> \o Made = Made
  BY MadeType, ConcatEmptySeq
<1>5. Whole(<<>>, s)
  BY <1>1, <1>2, <1>3, <1>4 DEF Whole
<1> QED BY <1>2, <1>5 DEF x

LEMMA MarshalStep ==
  ASSUME EncInv, MsgInv, DecInv, Marshal
  PROVE  MsgInv' /\ DecInv'
<1> DEFINE own == OwnInfos(enc.key, enc.recipients)
<1>1. PICK infos \in Orders(enc.infos) :
        /\ enc.pc = "marshal" /\ enc' = Goto("returned") /\ intact' = intact /\ dec' = dec
        /\ msg' = [type |-> enc.type, version |-> enc.version, infos |-> infos, eci |-> enc.eci]
        /\ sealed' = [content |-> enc.content, key |-> enc.key, recipients |-> enc.recipients]
  BY DEF Marshal, EncryptStep
<1>2. /\ Prepared /\ ContentMade /\ InfosMade /\ Len(enc.infos) = Len(enc.recipients)
      /\ intact /\ dec = NoDecrypt
  BY <1>1 DEF EncInv, MsgInv, EncryptedPCs
<1>3. /\ enc'.pc = "returned" /\ enc'.type = enc.type /\ enc'.version = enc.version
      /\ enc'.content = enc.content /\ enc'.recipients = enc.recipients /\ enc'.key = enc.key
      /\ enc'.eci = enc.eci
  BY <1>1 DEF EncInv, EncShape, Goto
<1>4. /\ infos \in Seq(own) /\ Len(infos) = Len(enc.infos)
      /\ \A j \in 1 .. Len(enc.infos) : \E k \in 1 .. Len(infos) : infos[k] = enc.infos[j]
  BY <1>1, <1>2, OrdersPermute, ZenonT(60) DEF InfosMade
<1>5. infos \in Seq(own \cup ForeignInfos)
  BY <1>4, SeqMonotonic
<1>6. Addressed'
  <2>1. \A j \in 1 .. Len(enc.recipients) : \E k \in 1 .. Len(infos) :
          infos[k] = InfoFor(enc.key, enc.recipients[j])
    BY <1>2, <1>4 DEF InfosMade
  <2> QED BY <1>1, <1>3, <2>1 DEF Addressed
<1>7. ECIInv'
  <2> DEFINE s == <<[ok |-> TRUE, bytes |-> Made]>>
  <2>1. Made' = Made /\ Symbols' = Symbols /\ Segments' = Segments
    BY <1>3, MadeFrame
  <2>2. s \in Seq(Segments) /\ Len(s) = 1 /\ Whole(<<>>, s)
    BY <1>2, OneSegment
  <2>3. msg'.eci = [alg |-> enc.eci.alg, params |-> MadeParams(enc.eci.alg), compound |-> TRUE,
                    segments |-> s]
    BY <1>1, <1>2 DEF ContentMade, ECI, Made
  <2> HIDE DEF s
  <2>4. (\A k \in 1 .. Len(s) : s[k].ok) /\ <<>> \o Joined(s) = Made'
    BY <2>1, <2>2 DEF Whole
  <2>5. msg'.eci = enc'.eci
    BY <1>1, <1>3
  <2>6. /\ msg'.eci = [alg |-> msg'.eci.alg, params |-> msg'.eci.params,
                       compound |-> msg'.eci.compound, segments |-> msg'.eci.segments]
        /\ msg'.eci.compound = TRUE /\ msg'.eci.segments = s
    BY <2>3
  <2> QED BY <2>1, <2>2, <2>4, <2>5, <2>6 DEF ECIInv, Whole
<1>8. MsgInv'
  BY <1>1, <1>2, <1>3, <1>5, <1>6, <1>7 DEF MsgInv
<1>9. DecInv'
  BY <1>1, <1>2 DEF DecInv, NoDecrypt
<1> QED BY <1>8, <1>9

\* The steps of Encrypt before it returns.
LEMMA EncryptingFrame ==
  ASSUME MsgInv, enc.pc # "returned", enc'.pc # "returned",
         UNCHANGED <<msg, sealed, intact, dec>>
  PROVE  MsgInv' /\ DecInv'
<1>1. dec' = NoDecrypt
  BY DEF MsgInv
<1>2. DecInv'
  BY <1>1 DEF DecInv, NoDecrypt
<1> QED BY <1>2 DEF MsgInv

-----------------------------------------------------------------------------
(***************************************************************************)
(* Transport.                                                              *)
(***************************************************************************)

\* What a change of the encrypted content keeps, and what is left to show.
LEMMA ContentChange ==
  ASSUME MsgInv, DecInv, Change, NEW e, msg' = [msg EXCEPT !.eci = e],
         e = [alg |-> e.alg, params |-> e.params, compound |-> e.compound, segments |-> e.segments],
         e.compound \in BOOLEAN, e.segments \in Seq(Segments), Len(e.segments) \in {1, 2},
         ~e.compound => Len(e.segments) = 1,
         intact' \in BOOLEAN,
         intact' => e.alg = enc.eci.alg /\ e.params = enc.eci.params /\ Whole(<<>>, e.segments)
  PROVE  MsgInv' /\ DecInv'
<1>1. enc.pc = "returned" /\ dec.pc = "idle" /\ enc' = enc /\ sealed' = sealed /\ dec' = dec
  BY DEF Change, Travelling
<1>2. msg = [type |-> enc.type, version |-> enc.version, infos |-> msg.infos, eci |-> msg.eci]
  BY <1>1 DEF MsgInv
<1>4. /\ msg' = [type |-> enc.type, version |-> enc.version, infos |-> msg.infos, eci |-> e]
      /\ msg'.infos = msg.infos /\ msg'.eci = e
  BY <1>2
<1>5. Made' = Made /\ Segments' = Segments
  BY <1>1, MadeFrame
<1>6. ECIInv'
  BY <1>1, <1>4, <1>5 DEF ECIInv, Whole
<1>7. Addressed'
  BY <1>1, <1>4 DEF MsgInv, Addressed
<1>8. MsgInv'
  BY <1>1, <1>4, <1>6, <1>7 DEF MsgInv
<1>9. DecInv'
  BY <1>1 DEF DecInv
<1> QED BY <1>8, <1>9

\* In transport, the first segment is all of an intact message's ciphertext if there
\* is no other.
LEMMA SingleSegment ==
  ASSUME NEW s \in Seq(Segments), Len(s) = 1
  PROVE  /\ s[1] \in Segments /\ s[1].bytes \in Seq(Symbols)
         /\ Whole(<<>>, s) <=> s[1].ok /\ s[1].bytes = Made
<1>1. s[1] \in Segments /\ s # <<>>
  BY ElementOfSeq, EmptySeq
<1>2. s[1].bytes \in Seq(Symbols) /\ Joined(s) = s[1].bytes
  BY <1>1 DEF Segments, Joined
<1>3. <<>> \o s[1].bytes = s[1].bytes
  BY <1>2, ConcatEmptySeq
<1> QED BY <1>1, <1>2, <1>3 DEF Whole

LEMMA JoinedTwo ==
  ASSUME NEW s, Len(s) = 2
  PROVE  Joined(s) = s[1].bytes \o s[2].bytes
<1>1. s # <<>> /\ Len(s) # 1
  OBVIOUS
<1> QED BY <1>1, Zenon DEF Joined

LEMMA SplitSegments ==
  ASSUME NEW c \in Seq(Symbols), NEW k \in 0 .. Len(c)
  PROVE  LET s == <<Segment(TRUE, SubSeq(c, 1, k)), Segment(TRUE, SubSeq(c, k + 1, Len(c)))>>
         IN  s \in Seq(Segments) /\ Len(s) = 2 /\ (c = Made => Whole(<<>>, s))
<1> DEFINE a == SubSeq(c, 1, k)
           b == SubSeq(c, k + 1, Len(c))
           x == Segment(TRUE, a)
           y == Segment(TRUE, b)
           s == <<x, y>>
<1>1. Len(c) \in Nat /\ k \in Int /\ \A i \in 1 .. Len(c) : c[i] \in Symbols
  BY LenProperties, ElementOfSeq
<1>2. a \in Seq(Symbols)
  BY <1>1, SubSeqProperties
<1>3. b \in Seq(Symbols)
  BY <1>1, SubSeqProperties
<1>4. a \o b = c
  <2>1. 1 \in 1 .. Len(c) + 1 /\ k \in 1 - 1 .. Len(c) /\ Len(c) \in k .. Len(c)
    BY <1>1
  <2>2. a \o b = SubSeq(c, 1, Len(c))
    BY <2>1, ConcatAdjacentSubSeq
  <2> QED BY <2>2, SubSeqFull
<1> HIDE DEF a, b
<1>5. x \in Segments /\ y \in Segments /\ x.ok /\ y.ok /\ x.bytes = a /\ y.bytes = b
  BY <1>2, <1>3 DEF Segments, Segment
<1> HIDE DEF x, y
<1>6. s \in Seq(Segments) /\ Len(s) = 2 /\ s[1] = x /\ s[2] = y /\ s # <<>>
  BY <1>5
<1> HIDE DEF s
<1>7. Joined(s) = c /\ <<>> \o c = c
  <2>1. Joined(s) = s[1].bytes \o s[2].bytes
    BY <1>6, JoinedTwo
  <2> QED BY <1>4, <1>5, <1>6, <2>1, ConcatEmptySeq
<1>8. \A i \in 1 .. Len(s) : s[i].ok
  BY <1>5, <1>6
<1>9. c = Made => Whole(<<>>, s)
  BY <1>7, <1>8 DEF Whole
<1> QED BY <1>6, <1>9 DEF s, x, y, a, b

LEMMA ResegmentStep ==
  ASSUME MsgInv, DecInv, Resegment
  PROVE  MsgInv' /\ DecInv'
<1> DEFINE e == msg.eci
           g == msg.eci.segments
           c == g[1].bytes
<1>1. /\ Change /\ intact' = intact /\ Len(g) = 1 /\ enc.pc = "returned"
      /\ \/ msg' = [msg EXCEPT !.eci.compound = FALSE]
         \/ \E k \in 0 .. Len(c) :
              msg' = [msg EXCEPT !.eci.compound = TRUE, !.eci.segments =
                        <<Segment(TRUE, SubSeq(c, 1, k)), Segment(TRUE, SubSeq(c, k + 1, Len(c)))>>]
  BY DEF Resegment, Change, Travelling, Ciphertext
<1>2. /\ msg = [type |-> enc.type, version |-> enc.version, infos |-> msg.infos, eci |-> msg.eci]
      /\ e = [alg |-> e.alg, params |-> e.params, compound |-> e.compound, segments |-> g]
      /\ g \in Seq(Segments) /\ intact \in BOOLEAN
      /\ intact => e.alg = enc.eci.alg /\ e.params = enc.eci.params /\ Whole(<<>>, g)
  BY <1>1 DEF MsgInv, ECIInv
<1>3. c \in Seq(Symbols) /\ (intact => c = Made)
  BY <1>1, <1>2, SingleSegment
<1>4. CASE msg' = [msg EXCEPT !.eci.compound = FALSE]
  <2> DEFINE f == [e EXCEPT !.compound = FALSE]
  <2>0. f = [e EXCEPT !.compound = FALSE]
    OBVIOUS
  <2> HIDE DEF f
  <2>1. /\ f = [alg |-> f.alg, params |-> f.params, compound |-> f.compound, segments |-> f.segments]
        /\ f.alg = e.alg /\ f.params = e.params /\ f.compound = FALSE /\ f.segments = g
    BY <1>2, <2>0
  <2>2. msg' = [msg EXCEPT !.eci = f]
    BY <1>4, <2>0
  <2> QED BY <1>1, <1>2, <2>1, <2>2, ContentChange
<1>5. ASSUME NEW k \in 0 .. Len(c),
             msg' = [msg EXCEPT !.eci.compound = TRUE, !.eci.segments =
                       <<Segment(TRUE, SubSeq(c, 1, k)), Segment(TRUE, SubSeq(c, k + 1, Len(c)))>>]
      PROVE  MsgInv' /\ DecInv'
  <2> DEFINE t == <<Segment(TRUE, SubSeq(c, 1, k)), Segment(TRUE, SubSeq(c, k + 1, Len(c)))>>
  <2>1. t \in Seq(Segments) /\ Len(t) = 2 /\ (c = Made => Whole(<<>>, t))
    BY <1>3, SplitSegments
  <2> HIDE DEF t
  <2> DEFINE f == [e EXCEPT !.compound = TRUE, !.segments = t]
  <2>2. f = [e EXCEPT !.compound = TRUE, !.segments = t]
    OBVIOUS
  <2> HIDE DEF f
  <2>3. /\ f = [alg |-> f.alg, params |-> f.params, compound |-> f.compound, segments |-> f.segments]
        /\ f.alg = e.alg /\ f.params = e.params /\ f.compound = TRUE /\ f.segments = t
    BY <1>2, <2>2
  <2>4. msg' = [msg EXCEPT !.eci = f]
    BY <1>5, <2>2 DEF t
  <2> QED BY <1>1, <1>2, <1>3, <2>1, <2>3, <2>4, ContentChange
<1> QED BY <1>1, <1>4, <1>5

Insert(s, k, x) == SubSeq(s, 1, k) \o <<x>> \o SubSeq(s, k + 1, Len(s))

LEMMA Inserted ==
  ASSUME NEW S, NEW s \in Seq(S), NEW x \in S, NEW k \in 0 .. Len(s)
  PROVE  /\ Insert(s, k, x) \in Seq(S) /\ Len(Insert(s, k, x)) = Len(s) + 1
         /\ \A i \in 1 .. Len(s) + 1 :
              Insert(s, k, x)[i] = IF i <= k THEN s[i] ELSE IF i = k + 1 THEN x ELSE s[i - 1]
<1> DEFINE n == Len(s)
           a == SubSeq(s, 1, k)
           b == SubSeq(s, k + 1, n)
           c == a \o <<x>>
           t == c \o b
<1>1. n \in Nat /\ k \in Int /\ \A i \in 1 .. n : s[i] \in S
  BY LenProperties, ElementOfSeq
<1> HIDE DEF n
<1>2. a \in Seq(S) /\ Len(a) = k /\ \A i \in 1 .. k : a[i] = s[i]
  BY <1>1, SubSeqProperties DEF n
<1>3. /\ b \in Seq(S) /\ Len(b) = n - k
      /\ \A i \in 1 .. n - k : b[i] = s[k + i]
  <2>1. /\ b \in Seq(S) /\ Len(b) = IF k + 1 <= n THEN n - (k + 1) + 1 ELSE 0
        /\ \A i \in 1 .. n - (k + 1) + 1 : b[i] = s[(k + 1) + i - 1]
    BY <1>1, SubSeqProperties DEF n
  <2> HIDE DEF b
  <2> QED BY <1>1, <2>1 DEF n
<1>4. <<x>> \in Seq(S) /\ Len(<<x>>) = 1 /\ <<x>>[1] = x
  OBVIOUS
<1> HIDE DEF a, b
<1>5. /\ c \in Seq(S) /\ Len(c) = k + 1
      /\ \A i \in 1 .. k + 1 : c[i] = IF i <= k THEN a[i] ELSE <<x>>[i - k]
  BY <1>2, <1>4, ConcatProperties
<1> HIDE DEF c
<1>6. /\ t \in Seq(S) /\ Len(t) = Len(c) + Len(b)
      /\ \A i \in 1 .. Len(c) + Len(b) : t[i] = IF i <= Len(c) THEN c[i] ELSE b[i - Len(c)]
  BY <1>3, <1>5, ConcatProperties
<1> HIDE DEF t
<1>7. \A i \in 1 .. n + 1 : t[i] = IF i <= k THEN s[i] ELSE IF i = k + 1 THEN x ELSE s[i - 1]
  <2> SUFFICES ASSUME NEW i \in 1 .. n + 1
               PROVE  t[i] = IF i <= k THEN s[i] ELSE IF i = k + 1 THEN x ELSE s[i - 1]
    OBVIOUS
  <2>1. CASE i <= k
    <3>1. t[i] = c[i]
      <4>1. i \in 1 .. Len(c) + Len(b) /\ i <= Len(c)
        BY <1>1, <1>3, <1>5, <2>1 DEF n
      <4> QED BY <1>6, <4>1
    <3>2. c[i] = a[i] /\ a[i] = s[i]
      BY <1>1, <1>2, <1>5, <2>1
    <3> QED BY <2>1, <3>1, <3>2
  <2>2. CASE i = k + 1
    <3>1. t[i] = c[i]
      BY <1>1, <1>3, <1>5, <1>6, <2>2 DEF n
    <3>2. c[k + 1] = x
      BY <1>1, <1>4, <1>5
    <3> QED BY <1>1, <2>2, <3>1, <3>2
  <2>3. CASE i > k + 1
    <3>1. i - (k + 1) \in 1 .. n - k /\ k + (i - (k + 1)) = i - 1
      BY <1>1, <2>3 DEF n
    <3>2. t[i] = b[i - (k + 1)]
      <4>1. i \in 1 .. Len(c) + Len(b) /\ ~(i <= Len(c))
        BY <1>1, <1>3, <1>5, <2>3 DEF n
      <4> QED BY <1>5, <1>6, <4>1
    <3>3. b[i - (k + 1)] = s[i - 1]
      BY <1>3, <3>1
    <3> QED BY <1>1, <2>3, <3>2, <3>3
  <2> QED BY <1>1, <2>1, <2>2, <2>3
<1>8. t \in Seq(S) /\ Len(t) = n + 1
  BY <1>1, <1>3, <1>5, <1>6 DEF n
<1> QED BY <1>7, <1>8 DEF n, a, b, c, t, Insert

LEMMA AddRecipientStep ==
  ASSUME EncInv, MsgInv, DecInv, AddRecipient
  PROVE  MsgInv' /\ DecInv'
<1> DEFINE s == msg.infos
           infos == OwnInfos(enc.key, enc.recipients) \cup ForeignInfos
<1>1. PICK info \in ForeignInfos, k \in 0 .. Len(s) :
        msg' = [msg EXCEPT !.infos = SubSeq(@, 1, k) \o <<info>> \o SubSeq(@, k + 1, Len(@))]
  BY DEF AddRecipient
<1>2. /\ enc.pc = "returned" /\ dec.pc = "idle" /\ enc' = enc /\ sealed' = sealed /\ dec' = dec
      /\ intact' = intact
  BY DEF AddRecipient, Change, Travelling
<1>3. /\ msg = [type |-> enc.type, version |-> enc.version, infos |-> s, eci |-> msg.eci]
      /\ s \in Seq(infos) /\ Addressed /\ ECIInv
  BY <1>2 DEF MsgInv
<1> DEFINE t == Insert(s, k, info)
<1>4. /\ t \in Seq(infos) /\ Len(t) = Len(s) + 1
      /\ \A i \in 1 .. Len(s) + 1 :
           t[i] = IF i <= k THEN s[i] ELSE IF i = k + 1 THEN info ELSE s[i - 1]
  <2>1. info \in infos /\ s \in Seq(infos) /\ k \in 0 .. Len(s)
    BY <1>3
  <2> HIDE DEF infos, s
  <2>2. Insert(s, k, info) \in Seq(infos) /\ Len(Insert(s, k, info)) = Len(s) + 1
    BY <2>1, Inserted
  <2>3. \A i \in 1 .. Len(s) + 1 :
          Insert(s, k, info)[i] = IF i <= k THEN s[i] ELSE IF i = k + 1 THEN info ELSE s[i - 1]
    BY <2>1, Inserted
  <2> QED BY <2>2, <2>3
<1>0. msg' = [msg EXCEPT !.infos = t]
  BY <1>1 DEF Insert
<1> HIDE DEF t
<1>5. /\ msg' = [type |-> enc.type, version |-> enc.version, infos |-> t, eci |-> msg.eci]
      /\ msg'.infos = t /\ msg'.eci = msg.eci
  BY <1>0, <1>3
<1>6. Addressed'
  <2> SUFFICES ASSUME NEW j \in 1 .. Len(enc.recipients)
               PROVE  \E i \in 1 .. Len(t) : t[i] = InfoFor(enc.key, enc.recipients[j])
    BY <1>2, <1>5 DEF Addressed
  <2>1. PICK i \in 1 .. Len(s) : s[i] = InfoFor(enc.key, enc.recipients[j])
    BY <1>3 DEF Addressed
  <2>2. Len(s) \in Nat
    BY <1>3, LenProperties
  <2>3. CASE i <= k
    BY <1>4, <2>1, <2>2, <2>3
  <2>4. CASE i > k
    <3>1. i + 1 \in 1 .. Len(s) + 1 /\ ~(i + 1 <= k) /\ i + 1 # k + 1 /\ (i + 1) - 1 = i
      BY <2>2, <2>4
    <3>2. t[i + 1] = s[i]
      BY <1>4, <3>1
    <3> QED BY <1>4, <2>1, <3>1, <3>2
  <2> QED BY <2>2, <2>3, <2>4
<1>7. ECIInv'
  <2>1. Made' = Made /\ Segments' = Segments
    BY <1>2, MadeFrame
  <2> QED BY <1>2, <1>3, <1>5, <2>1 DEF ECIInv, Whole
<1>8. MsgInv'
  BY <1>2, <1>4, <1>5, <1>6, <1>7 DEF MsgInv
<1>9. DecInv'
  BY <1>2 DEF DecInv
<1> QED BY <1>8, <1>9

\* A damaged message keeps its shape.
LEMMA FieldDamaged ==
  ASSUME MsgInv, DecInv, Change, intact' = FALSE, NEW f, msg' = [msg EXCEPT !.eci = f],
         f = [alg |-> f.alg, params |-> f.params, compound |-> f.compound, segments |-> f.segments],
         f.compound = msg.eci.compound,
         f.segments \in Seq(Segments), Len(f.segments) = Len(msg.eci.segments)
  PROVE  MsgInv' /\ DecInv'
<1>1. ECIInv
  BY DEF MsgInv, Change, Travelling
<1>2. /\ f.compound \in BOOLEAN /\ Len(f.segments) \in {1, 2}
      /\ ~f.compound => Len(f.segments) = 1
  BY <1>1 DEF ECIInv
<1>3. intact' \in BOOLEAN /\ ~intact'
  OBVIOUS
<1> QED BY <1>2, <1>3, ContentChange

LEMMA SegmentFields ==
  ASSUME NEW y \in Segments, NEW x
  PROVE  /\ \A b \in Seq(Symbols) : x = [y EXCEPT !.bytes = b] => x \in Segments
         /\ x = [y EXCEPT !.ok = FALSE] => x \in Segments
BY DEF Segments

LEMMA SegmentDamaged ==
  ASSUME MsgInv, DecInv, Change, intact' = FALSE,
         NEW s \in 1 .. Len(msg.eci.segments), NEW x \in Segments,
         msg' = [msg EXCEPT !.eci.segments[s] = x]
  PROVE  MsgInv' /\ DecInv'
<1> DEFINE e == msg.eci
           g == [e.segments EXCEPT ![s] = x]
           f == [e EXCEPT !.segments = g]
<1>1. /\ e = [alg |-> e.alg, params |-> e.params, compound |-> e.compound, segments |-> e.segments]
      /\ e.segments \in Seq(Segments)
  BY DEF MsgInv, ECIInv, Change, Travelling
<1>2. g \in Seq(Segments) /\ Len(g) = Len(e.segments)
  BY <1>1, ExceptSeq
<1>3. f = [e EXCEPT !.segments = g] /\ msg' = [msg EXCEPT !.eci = f]
  OBVIOUS
<1> HIDE DEF f, g
<1>4. /\ f = [alg |-> f.alg, params |-> f.params, compound |-> f.compound, segments |-> f.segments]
      /\ f.compound = e.compound /\ f.segments = g
  BY <1>1, <1>3
<1> QED BY <1>2, <1>3, <1>4, FieldDamaged, ZenonT(60)

LEMMA DamageStep ==
  ASSUME MsgInv, DecInv, Damage
  PROVE  MsgInv' /\ DecInv'
<1> DEFINE e == msg.eci
           g == msg.eci.segments
<1>1. Change /\ intact' = FALSE
  BY DEF Damage
<1>2. /\ e = [alg |-> e.alg, params |-> e.params, compound |-> e.compound, segments |-> g]
      /\ g \in Seq(Segments)
  BY <1>1 DEF MsgInv, ECIInv, Change, Travelling
<1>3. ASSUME NEW s \in 1 .. Len(g)
      PROVE  g[s] \in Segments /\ g[s].bytes \in Seq(Symbols)
  <2>1. g[s] \in Segments
    BY <1>2, ElementOfSeq
  <2> QED BY <2>1 DEF Segments
<1>4. ASSUME NEW s \in 1 .. Len(g), NEW k \in 1 .. Len(g[s].bytes),
             msg' = [msg EXCEPT !.eci.segments[s].bytes[k] = ForeignByte(k)]
      PROVE  MsgInv' /\ DecInv'
  <2> DEFINE b == [g[s].bytes EXCEPT ![k] = ForeignByte(k)]
             x == [g[s] EXCEPT !.bytes = b]
  <2>1. ForeignByte(k) \in Symbols
    BY <1>3, LenProperties DEF Symbols
  <2>2. b \in Seq(Symbols)
    BY <1>3, <2>1, ExceptSeq
  <2>3. x = [g[s] EXCEPT !.bytes = b] /\ msg' = [msg EXCEPT !.eci.segments[s] = x]
    BY <1>4
  <2> HIDE DEF b, x
  <2>4. x \in Segments
    BY <1>3, <2>2, <2>3, SegmentFields
  <2> QED BY <1>1, <2>3, <2>4, SegmentDamaged
<1>5. ASSUME NEW s \in 1 .. Len(g), NEW k \in 1 .. Len(g[s].bytes),
             msg' = [msg EXCEPT !.eci.segments[s].bytes = SubSeq(@, 1, k - 1)]
      PROVE  MsgInv' /\ DecInv'
  <2> DEFINE b == SubSeq(g[s].bytes, 1, k - 1)
             x == [g[s] EXCEPT !.bytes = b]
  <2>2. b \in Seq(Symbols)
    <3> DEFINE y == g[s].bytes
    <3>1. y \in Seq(Symbols) /\ k \in 1 .. Len(y)
      BY <1>3
    <3> HIDE DEF y
    <3>2. Len(y) \in Nat /\ \A i \in 1 .. Len(y) : y[i] \in Symbols
      BY <3>1, LenProperties, ElementOfSeq
    <3>3. 1 \in Int /\ k - 1 \in Int /\ \A i \in 1 .. k - 1 : y[i] \in Symbols
      BY <3>1, <3>2
    <3> QED BY <3>3, SubSeqProperties DEF y
  <2>3. x = [g[s] EXCEPT !.bytes = b] /\ msg' = [msg EXCEPT !.eci.segments[s] = x]
    BY <1>5
  <2> HIDE DEF b, x
  <2>4. x \in Segments
    BY <1>3, <2>2, <2>3, SegmentFields
  <2> QED BY <1>1, <2>3, <2>4, SegmentDamaged
<1>6. ASSUME NEW s \in 1 .. Len(g), msg' = [msg EXCEPT !.eci.segments[s].ok = FALSE]
      PROVE  MsgInv' /\ DecInv'
  <2> DEFINE x == [g[s] EXCEPT !.ok = FALSE]
  <2>1. x = [g[s] EXCEPT !.ok = FALSE] /\ msg' = [msg EXCEPT !.eci.segments[s] = x]
    BY <1>6
  <2> HIDE DEF x
  <2>2. x \in Segments
    BY <1>3, <2>1, SegmentFields
  <2> QED BY <1>1, <2>1, <2>2, SegmentDamaged
<1>7. ASSUME NEW a, msg' = [msg EXCEPT !.eci.alg = a]
      PROVE  MsgInv' /\ DecInv'
  <2> DEFINE f == [e EXCEPT !.alg = a]
  <2>1. f = [e EXCEPT !.alg = a] /\ msg' = [msg EXCEPT !.eci = f]
    BY <1>7
  <2> HIDE DEF f
  <2>2. /\ f = [alg |-> f.alg, params |-> f.params, compound |-> f.compound, segments |-> f.segments]
        /\ f.compound = e.compound /\ f.segments = g
    BY <1>2, <2>1
  <2> QED BY <1>1, <1>2, <2>1, <2>2, FieldDamaged
<1>8. ASSUME NEW p, msg' = [msg EXCEPT !.eci.params = p]
      PROVE  MsgInv' /\ DecInv'
  <2> DEFINE f == [e EXCEPT !.params = p]
  <2>1. f = [e EXCEPT !.params = p] /\ msg' = [msg EXCEPT !.eci = f]
    BY <1>8
  <2> HIDE DEF f
  <2>2. /\ f = [alg |-> f.alg, params |-> f.params, compound |-> f.compound, segments |-> f.segments]
        /\ f.compound = e.compound /\ f.segments = g
    BY <1>2, <2>1
  <2> QED BY <1>1, <1>2, <2>1, <2>2, FieldDamaged
<1>9. ASSUME NEW v, msg' = [msg EXCEPT !.eci.params.iv = v]
      PROVE  MsgInv' /\ DecInv'
  <2>1. msg' = [msg EXCEPT !.eci.params = [e.params EXCEPT !.iv = v]]
    BY <1>9
  <2> QED BY <1>8, <2>1
<1>10. ASSUME msg' = [msg EXCEPT !.eci.params.icv = 12]
       PROVE  MsgInv' /\ DecInv'
  <2>1. msg' = [msg EXCEPT !.eci.params = [e.params EXCEPT !.icv = 12]]
    BY <1>10
  <2> QED BY <1>8, <2>1
<1> QED
  BY <1>4, <1>5, <1>6, <1>7, <1>9, <1>10 DEF Damage

-----------------------------------------------------------------------------
(***************************************************************************)
(* The content key: who gets it out of the RecipientInfos.                 *)
(***************************************************************************)

\* Every nonempty set of naturals has a least element.
LEMMA LeastElement ==
  ASSUME NEW S \in SUBSET Nat, S # {}
  PROVE  \E k \in S : \A l \in S : k <= l
<1> DEFINE R == OpToRel(<, Nat)
<1>1. IsWellFoundedOn(R, Nat)
  BY NatLessThanWellFounded
<1>2. \A x, y \in Nat : y < x => <<y, x>> \in R
  BY DEF OpToRel
<1> HIDE DEF R
<1>3. PICK x \in S : \A y \in S : ~(<<y, x>> \in R)
  BY <1>1, WFMin
<1>4. \A y \in S : x <= y
  <2> SUFFICES ASSUME NEW y \in S, y < x PROVE FALSE
    OBVIOUS
  <2>1. <<y, x>> \in R
    BY <1>2
  <2> QED BY <1>3, <2>1
<1> QED BY <1>4

\* A search stops at the first position where it may.
LEMMA FirstPositionLeast ==
  ASSUME NEW n \in Nat, NEW stops \in SUBSET (1 .. n)
  PROVE  /\ FirstPosition(stops) = 0 <=> stops = {}
         /\ stops # {} => /\ FirstPosition(stops) \in stops
                          /\ \A l \in stops : FirstPosition(stops) <= l
<1>1. CASE stops = {}
  BY <1>1 DEF FirstPosition
<1>2. CASE stops # {}
  <2>1. \E k \in stops : \A l \in stops : k <= l
    BY <1>2, LeastElement
  <2>2. /\ FirstPosition(stops) \in stops
        /\ \A l \in stops : FirstPosition(stops) <= l
    BY <1>2, <2>1 DEF FirstPosition
  <2>3. FirstPosition(stops) # 0
    BY <2>2
  <2> QED BY <1>2, <2>2, <2>3
<1> QED BY <1>1, <1>2

LEMMA RSAInfo ==
  ASSUME NEW key, NEW cert, cert.pub.kind = "RSA"
  PROVE  LET info == InfoFor(key, cert)
         IN  /\ info.choice = "ktri" /\ info.form = "ok" /\ info.rid = IssuerAndSerial(cert)
             /\ info.encryptedKey = RSAEncrypt(cert.pub, key)
BY DEF InfoFor, KeyTransRecipientInfo

LEMMA KEMInfo ==
  ASSUME NEW key, NEW cert, cert.pub.kind # "RSA", Addressable(key, cert)
  PROVE  LET info == InfoFor(key, cert)
             pub == PrivateKeyOf(cert)
         IN  /\ info.choice = "ori" /\ info.form = "ok" /\ info.type = "KEM" /\ info.value = "ok"
             /\ info.rid = IssuerAndSerial(cert)
             /\ pub = [kind |-> encapsulateForCertificate(cert), id |-> cert.pub.id]
             /\ pub.kind \in MLKEM /\ pub.id = cert.pub.id
             /\ AcceptableKEM(info, pub.kind)
             /\ info.encryptedKey = Wrapped(deriveKEMKey(Decapsulate(pub, info.ciphertext), info.wrap,
                                                         info.kekLength, info.ukm), key)
<1> DEFINE kem == encapsulateForCertificate(cert)
           pub == [kind |-> kem, id |-> cert.pub.id]
           c == Encapsulate(pub, "made")
           kek == deriveKEMKey(Decapsulate(pub, c), "AES256Wrap", mlKEMKEKLength, NoUKM)
           r == makeKEMRecipientInfo(key, cert, "made")
           i == [choice |-> "ori", form |-> "ok", type |-> "KEM", value |-> "ok",
                  rid |-> IssuerAndSerial(cert), version |-> 0, kem |-> kem,
                  ciphertext |-> c, kdf |-> "HKDFSHA256", kekLength |-> mlKEMKEKLength,
                  ukm |-> NoUKM, wrap |-> "AES256Wrap", parameters |-> FALSE,
                  encryptedKey |-> Wrapped(kek, key)]
<1>1. PrivateKeyOf(cert) = pub /\ kem \in MLKEM \cup {NilOID}
  BY DEF PrivateKeyOf, encapsulateForCertificate
<1>2. r.ok
  BY DEF Addressable
<1>3. r = Refusal \/ (r = Found(i) /\ kem # NilOID)
  BY DEF makeKEMRecipientInfo
<1> HIDE DEF r
<1>4. r = Found(i) /\ kem # NilOID
  BY <1>2, <1>3 DEF Refusal
<1>5. InfoFor(key, cert) = i
  <2> HIDE DEF i
  <2>1. InfoFor(key, cert) = r.value
    BY DEF InfoFor, r
  <2> QED BY <1>4, <2>1 DEF Found
<1>6. /\ i.choice = "ori" /\ i.form = "ok" /\ i.type = "KEM" /\ i.value = "ok"
      /\ i.rid = IssuerAndSerial(cert) /\ AcceptableKEM(i, kem)
      /\ i.ciphertext = c /\ i.wrap = "AES256Wrap" /\ i.kekLength = mlKEMKEKLength
      /\ i.ukm = NoUKM /\ i.encryptedKey = Wrapped(kek, key)
  BY DEF AcceptableKEM
<1> HIDE DEF i
<1>7. kem \in MLKEM
  BY <1>1, <1>4
<1> HIDE DEF kem
<1> QED BY <1>1, <1>5, <1>6, <1>7 DEF kem

\* A RecipientInfo is made for the private key of its recipient only.
LEMMA MadeForRecipient ==
  ASSUME NEW key, NEW cert, Addressable(key, cert), NEW priv, MadeFor(InfoFor(key, cert), priv)
  PROVE  priv = PrivateKeyOf(cert)
<1> DEFINE info == InfoFor(key, cert)
<1>1. CASE cert.pub.kind = "RSA"
  <2>1. info.choice = "ktri" /\ info.encryptedKey = RSAEncrypt(cert.pub, key)
    BY <1>1, RSAInfo
  <2>2. MadeFor(info, priv)
    OBVIOUS
  <2> HIDE DEF info
  <2>3. info.encryptedKey.by = priv
    BY <2>1, <2>2 DEF MadeFor
  <2> QED BY <1>1, <2>1, <2>3 DEF PrivateKeyOf, RSAEncrypt
<1>2. CASE cert.pub.kind # "RSA"
  <2> DEFINE pub == PrivateKeyOf(cert)
  <2>1. /\ info.choice = "ori"
        /\ info.encryptedKey = Wrapped(deriveKEMKey(Decapsulate(pub, info.ciphertext), info.wrap,
                                                    info.kekLength, info.ukm), key)
    BY <1>2, KEMInfo
  <2>4. MadeFor(info, priv)
    OBVIOUS
  <2> HIDE DEF info, pub
  <2>2. deriveKEMKey(Decapsulate(pub, info.ciphertext), info.wrap, info.kekLength, info.ukm)
          = deriveKEMKey(Decapsulate(priv, info.ciphertext), info.wrap, info.kekLength, info.ukm)
    BY <2>1, <2>4 DEF MadeFor, Wrapped
  <2>3. Decapsulate(pub, info.ciphertext) = Decapsulate(priv, info.ciphertext)
    BY <2>2 DEF deriveKEMKey
  <2> QED BY <2>3 DEF Decapsulate, pub
<1> QED BY <1>1, <1>2

\* The first RecipientInfo that decides for a reader.
FirstDecision(infos, r, at) ==
  /\ at \in 1 .. Len(infos) /\ Decides(infos[at], r)
  /\ \A l \in 1 .. at - 1 : ~Decides(infos[l], r)

\* What a reader makes of it.
RSAResult(info) == IF info.form # "ok" THEN Refusal ELSE Found(info)
KEMResult(info, r) ==
  IF info.form # "ok" \/ info.value # "ok" THEN Refusal
  ELSE IF \/ recipientIdentifierMatchesCertificate(info.rid, r.cert) = "error"
          \/ ~AcceptableKEM(info, r.priv.kind)
  THEN Refusal
  ELSE Unwrapped(deriveKEMKey(Decapsulate(r.priv, info.ciphertext), info.wrap, info.kekLength,
                              info.ukm), info.encryptedKey)

LEMMA FirstDecisionExists ==
  ASSUME NEW S, NEW infos \in Seq(S), NEW r
  PROVE  LET stops == {k \in 1 .. Len(infos) : Decides(infos[k], r)}
             at == FirstPosition(stops)
         IN  /\ at = 0 <=> \A k \in 1 .. Len(infos) : ~Decides(infos[k], r)
             /\ at # 0 => FirstDecision(infos, r, at)
<1> DEFINE n == Len(infos)
           stops == {k \in 1 .. n : Decides(infos[k], r)}
           at == FirstPosition(stops)
<1>1. n \in Nat
  BY LenProperties
<1> HIDE DEF n
<1>2. /\ at = 0 <=> stops = {}
      /\ stops # {} => at \in stops /\ \A l \in stops : at <= l
  BY <1>1, FirstPositionLeast
<1> HIDE DEF at
<1>3. at # 0 => FirstDecision(infos, r, at)
  <2> SUFFICES ASSUME at # 0 PROVE FirstDecision(infos, r, at)
    OBVIOUS
  <2>1. at \in 1 .. n /\ Decides(infos[at], r) /\ \A l \in stops : at <= l
    BY <1>2
  <2>2. ASSUME NEW l \in 1 .. at - 1 PROVE ~Decides(infos[l], r)
    <3>1. l \in 1 .. n /\ ~(at <= l)
      BY <1>1, <2>1
    <3> QED BY <2>1, <3>1
  <2> QED BY <2>1, <2>2 DEF FirstDecision, n
<1>4. at = 0 <=> \A k \in 1 .. n : ~Decides(infos[k], r)
  BY <1>2
<1> QED BY <1>3, <1>4 DEF n, at

LEMMA RSAReader ==
  ASSUME NEW S, NEW infos \in Seq(S), NEW r, r.priv.kind = "RSA"
  PROVE  LET s == selectRecipientForCertificate(infos, r.cert)
         IN  \/ /\ s = Refusal
                /\ \/ r.cert = NilCertificate
                   \/ \A k \in 1 .. Len(infos) : ~Decides(infos[k], r)
             \/ \E at : FirstDecision(infos, r, at) /\ s = RSAResult(infos[at])
<1> DEFINE stops == {k \in 1 .. Len(infos) : Decides(infos[k], r)}
           at == FirstPosition(stops)
           s == selectRecipientForCertificate(infos, r.cert)
           T == {k \in 1 .. Len(infos) :
                  /\ infos[k].choice = "ktri"
                  /\ infos[k].form # "ok" \/ C!isCertMatchForIssuerAndSerial(r.cert, infos[k].rid)}
<1>1. T = stops
  BY DEF Decides
<1>2. s = IF r.cert = NilCertificate \/ FirstPosition(T) = 0 THEN Refusal
          ELSE IF infos[FirstPosition(T)].form # "ok" THEN Refusal
          ELSE Found(infos[FirstPosition(T)])
  BY DEF selectRecipientForCertificate
<1> HIDE DEF T
<1>3. s = IF r.cert = NilCertificate \/ at = 0 THEN Refusal ELSE RSAResult(infos[at])
  BY <1>1, <1>2 DEF RSAResult
<1>4. /\ at = 0 <=> \A k \in 1 .. Len(infos) : ~Decides(infos[k], r)
      /\ at # 0 => FirstDecision(infos, r, at)
  BY FirstDecisionExists
<1> HIDE DEF s, at
<1> QED BY <1>3, <1>4 DEF s

LEMMA KEMReader ==
  ASSUME NEW S, NEW infos \in Seq(S), NEW r, r.priv.kind # "RSA", r.priv.kind \in MLKEM
  PROVE  LET s == decryptKEMRecipientKey(infos, r.cert, r.priv)
         IN  \/ s = Refusal /\ \A k \in 1 .. Len(infos) : ~Decides(infos[k], r)
             \/ \E at : FirstDecision(infos, r, at) /\ s = KEMResult(infos[at], r)
<1> DEFINE stops == {k \in 1 .. Len(infos) : Decides(infos[k], r)}
           at == FirstPosition(stops)
           s == decryptKEMRecipientKey(infos, r.cert, r.priv)
           T == {k \in 1 .. Len(infos) :
                  /\ infos[k].choice = "ori"
                  /\ \/ infos[k].form # "ok"
                     \/ /\ infos[k].type = "KEM"
                        /\ \/ infos[k].value # "ok"
                           \/ recipientIdentifierMatchesCertificate(infos[k].rid, r.cert) # "other"}
<1>1. T = stops
  BY DEF Decides
<1>2. s = IF r.priv.kind \notin MLKEM \/ FirstPosition(T) = 0 THEN Refusal
          ELSE KEMResult(infos[FirstPosition(T)], r)
  BY DEF decryptKEMRecipientKey, KEMResult
<1> HIDE DEF T
<1>3. s = IF at = 0 THEN Refusal ELSE KEMResult(infos[at], r)
  BY <1>1, <1>2
<1>4. /\ at = 0 <=> \A k \in 1 .. Len(infos) : ~Decides(infos[k], r)
      /\ at # 0 => FirstDecision(infos, r, at)
  BY FirstDecisionExists
<1> HIDE DEF s, at
<1> QED BY <1>3, <1>4 DEF s

\* The state of a message that was returned.
LEMMA Returned ==
  ASSUME EncInv, MsgInv, enc.pc = "returned"
  PROVE  /\ Prepared /\ ContentMade /\ InfosMade /\ Len(enc.infos) = Len(enc.recipients)
         /\ msg.type = enc.type /\ msg.version = enc.version
         /\ sealed.content = enc.content /\ sealed.key = enc.key
         /\ sealed.recipients = enc.recipients
         /\ msg.infos \in Seq(OwnInfos(enc.key, enc.recipients) \cup ForeignInfos)
         /\ Addressed /\ ECIInv
<1>1. /\ msg = [type |-> enc.type, version |-> enc.version, infos |-> msg.infos, eci |-> msg.eci]
      /\ sealed = [content |-> enc.content, key |-> enc.key, recipients |-> enc.recipients]
      /\ msg.infos \in Seq(OwnInfos(enc.key, enc.recipients) \cup ForeignInfos)
      /\ Addressed /\ ECIInv
  BY DEF MsgInv
<1>2. Prepared /\ ContentMade /\ InfosMade /\ Len(enc.infos) = Len(enc.recipients)
  BY DEF EncInv, EncryptedPCs
<1> QED BY <1>1, <1>2

\* A RecipientInfo of the message that is made for a reader's private key is a
\* recipient's, whose private key it is.
LEMMA MadeForReader ==
  ASSUME EncInv, MsgInv, enc.pc = "returned", NEW r \in Readers, r.by = "cert",
         NEW k \in 1 .. Len(msg.infos), MadeFor(msg.infos[k], r.priv)
  PROVE  \E j \in 1 .. Len(enc.recipients) :
           /\ Addressable(enc.key, enc.recipients[j])
           /\ msg.infos[k] = InfoFor(enc.key, enc.recipients[j])
           /\ r.priv = PrivateKeyOf(enc.recipients[j])
           /\ enc.recipients[j].pub.id = r.priv.id
<1>1. msg.infos[k] \in OwnInfos(enc.key, enc.recipients) \cup ForeignInfos
  BY Returned, ElementOfSeq
<1>2. msg.infos[k] \notin ForeignInfos
  BY ForeignAssumption
<1>3. PICK j \in 1 .. Len(enc.recipients) :
        /\ Addressable(enc.key, enc.recipients[j])
        /\ msg.infos[k] = InfoFor(enc.key, enc.recipients[j])
  BY <1>1, <1>2 DEF OwnInfos
<1>4. r.priv = PrivateKeyOf(enc.recipients[j])
  BY <1>3, MadeForRecipient
<1>5. PrivateKeyOf(enc.recipients[j]).id = enc.recipients[j].pub.id
  BY DEF PrivateKeyOf
<1> QED BY <1>3, <1>4, <1>5

\* Whoever gets a key with a certificate is a holder, and the key is the one that
\* the content was encrypted with.
LEMMA CertificateKey ==
  ASSUME EncInv, MsgInv, enc.pc = "returned", NEW r \in Readers, r.by = "cert", ContentKey(r).ok
  PROVE  ContentKey(r).value = sealed.key /\ r \in Holders
<1>1. msg.type = "enveloped"
  BY DEF ContentKey, Refusal
<1>2. \E k \in 1 .. Len(msg.infos) :
        MadeFor(msg.infos[k], r.priv) /\ ContentKey(r).value = msg.infos[k].encryptedKey.key
  <2>1. CASE r.priv.kind = "RSA"
    <3> DEFINE s == selectRecipientForCertificate(msg.infos, r.cert)
    <3>1. ContentKey(r) = IF s.ok THEN RSADecrypt(r.priv, s.value.encryptedKey) ELSE Refusal
      BY <1>1, <2>1 DEF ContentKey
    <3>2. \/ s = Refusal
          \/ \E at : FirstDecision(msg.infos, r, at) /\ s = RSAResult(msg.infos[at])
      BY <2>1, Returned, RSAReader
    <3> HIDE DEF s
    <3>3. PICK at : FirstDecision(msg.infos, r, at) /\ s = RSAResult(msg.infos[at])
      BY <3>1, <3>2 DEF Refusal
    <3> DEFINE i == msg.infos[at]
    <3>4. at \in 1 .. Len(msg.infos) /\ i.choice = "ktri"
      BY <2>1, <3>3 DEF FirstDecision, Decides
    <3> HIDE DEF i
    <3>5. i.form = "ok" /\ s.value = i
      BY <3>1, <3>3 DEF RSAResult, Refusal, Found, i
    <3>6. i.encryptedKey.by = r.priv /\ ContentKey(r).value = i.encryptedKey.key
      BY <3>1, <3>5 DEF RSADecrypt, Refusal, Found
    <3>7. MadeFor(i, r.priv)
      BY <3>4, <3>5, <3>6 DEF MadeFor
    <3> QED BY <3>4, <3>6, <3>7 DEF i
  <2>2. CASE r.priv.kind # "RSA"
    <3> DEFINE s == decryptKEMRecipientKey(msg.infos, r.cert, r.priv)
    <3>1. ContentKey(r) = s /\ r.priv.kind \in MLKEM
      BY <1>1, <2>2 DEF ContentKey, Refusal
    <3>2. \/ s = Refusal
          \/ \E at : FirstDecision(msg.infos, r, at) /\ s = KEMResult(msg.infos[at], r)
      BY <2>2, <3>1, Returned, KEMReader
    <3> HIDE DEF s
    <3>3. PICK at : FirstDecision(msg.infos, r, at) /\ s = KEMResult(msg.infos[at], r)
      BY <3>1, <3>2 DEF Refusal
    <3> DEFINE i == msg.infos[at]
               kek == deriveKEMKey(Decapsulate(r.priv, i.ciphertext), i.wrap, i.kekLength, i.ukm)
    <3>4. at \in 1 .. Len(msg.infos) /\ i.choice = "ori" /\ (i.form # "ok" \/ i.type = "KEM")
      BY <2>2, <3>3 DEF FirstDecision, Decides
    <3>5. i.form = "ok" /\ i.value = "ok" /\ s = Unwrapped(kek, i.encryptedKey)
      BY <3>1, <3>3 DEF KEMResult, Refusal
    <3> HIDE DEF i
    <3>6. i.encryptedKey.kek = kek /\ ContentKey(r).value = i.encryptedKey.key
      BY <3>1, <3>5 DEF Unwrapped, Refusal, Found
    <3>7. MadeFor(i, r.priv)
      BY <3>4, <3>5, <3>6 DEF MadeFor
    <3> QED BY <3>4, <3>6, <3>7 DEF i
  <2> QED BY <2>1, <2>2
<1>3. PICK k \in 1 .. Len(msg.infos) :
        MadeFor(msg.infos[k], r.priv) /\ ContentKey(r).value = msg.infos[k].encryptedKey.key
  BY <1>2
<1>4. PICK j \in 1 .. Len(enc.recipients) :
        /\ Addressable(enc.key, enc.recipients[j])
        /\ msg.infos[k] = InfoFor(enc.key, enc.recipients[j])
        /\ enc.recipients[j].pub.id = r.priv.id
  BY <1>3, MadeForReader
<1>5. InfoFor(enc.key, enc.recipients[j]).encryptedKey.key = enc.key
  <2> DEFINE cert == enc.recipients[j]
  <2>1. CASE cert.pub.kind = "RSA"
    <3>1. InfoFor(enc.key, cert).encryptedKey = RSAEncrypt(cert.pub, enc.key)
      BY <2>1, RSAInfo
    <3> QED BY <3>1 DEF RSAEncrypt
  <2>2. CASE cert.pub.kind # "RSA"
    <3>1. \E x : InfoFor(enc.key, cert).encryptedKey = Wrapped(x, enc.key)
      BY <1>4, <2>2, KEMInfo
    <3> QED BY <3>1 DEF Wrapped
  <2> QED BY <2>1, <2>2
<1> QED BY <1>1, <1>3, <1>4, <1>5, Returned DEF Holders

LEMMA ContentKeySound ==
  ASSUME EncInv, MsgInv, enc.pc = "returned", NEW r \in Readers, ContentKey(r).ok
  PROVE  ContentKey(r).value = sealed.key <=> r \in Holders
<1>1. CASE r.by = "psk"
  <2>1. msg.type = "encrypted" /\ ContentKey(r) = Found(r.key)
    BY <1>1 DEF ContentKey, Refusal
  <2>2. r \in Holders <=> r.key = sealed.key
    BY <1>1, <2>1 DEF Holders
  <2> QED BY <2>1, <2>2 DEF Found
<1>2. CASE r.by # "psk"
  <2>1. r.by = "cert"
    BY <1>2, CallAssumption
  <2> QED BY <2>1, CertificateKey
<1> QED BY <1>1, <1>2

\* A reader that the message serves gets the key.
LEMMA ServedGetsKey ==
  ASSUME EncInv, MsgInv, enc.pc = "returned", intact, NEW r \in Readers, Served(r)
  PROVE  ContentKey(r).ok /\ msg.eci.alg \in Decryptable
<1>1. msg.eci.alg \in Decryptable
  <2>1. msg.eci.alg \in ContentAlgorithms
    BY Returned DEF ECIInv, ContentMade
  <2> QED BY <2>1 DEF Decryptable
<1>2. r \in Holders
  BY DEF Served
<1>3. CASE r.by = "psk"
  <2>1. msg.type = "encrypted"
    BY <1>2, <1>3 DEF Holders
  <2> QED BY <1>1, <1>3, <2>1 DEF ContentKey, Found
<1>4. CASE r.by # "psk"
  <2>1. /\ r.by = "cert" /\ msg.type = "enveloped"
    BY <1>2, <1>4, CallAssumption DEF Holders
  <2>2. PICK j \in 1 .. Len(enc.recipients) : r.cert = enc.recipients[j]
    BY <2>1, Returned DEF Served
  <2>3. /\ r.priv = PrivateKeyOf(r.cert)
        /\ r.priv.kind # "RSA" => msg.eci.alg \in CBCAlgorithms
        /\ \A at : FirstDecision(msg.infos, r, at) => MadeFor(msg.infos[at], r.priv)
    BY <2>1 DEF Served, FirstDecision
  <2>4. PICK k \in 1 .. Len(msg.infos) : msg.infos[k] = InfoFor(enc.key, r.cert)
    BY <2>2, Returned DEF Addressed
  <2>5. /\ Addressable(enc.key, r.cert)
        /\ r.cert.pub.kind # "RSA" => msg.version = 3
    BY <2>2, Returned DEF InfosMade
  <2>6. r.cert \in RecipientCertificate /\ r.cert # NilCertificate
    BY <2>5 DEF Addressable, RecipientCertificate, NilCertificate
  <2>7. C!isCertMatchForIssuerAndSerial(r.cert, IssuerAndSerial(r.cert))
    BY DEF C!isCertMatchForIssuerAndSerial, IssuerAndSerial
  <2>8. CASE r.cert.pub.kind = "RSA"
    <3>1. r.priv.kind = "RSA"
      BY <2>3, <2>8 DEF PrivateKeyOf
    <3>2. Decides(msg.infos[k], r)
      BY <2>4, <2>7, <2>8, <3>1, RSAInfo DEF Decides
    <3> DEFINE s == selectRecipientForCertificate(msg.infos, r.cert)
    <3>3. \E at : FirstDecision(msg.infos, r, at) /\ s = RSAResult(msg.infos[at])
      BY <2>6, <3>1, <3>2, Returned, RSAReader
    <3> HIDE DEF s
    <3>4. PICK at : FirstDecision(msg.infos, r, at) /\ s = RSAResult(msg.infos[at])
      BY <3>3
    <3> DEFINE i == msg.infos[at]
    <3>5. i.choice = "ktri" /\ MadeFor(i, r.priv)
      BY <2>3, <3>1, <3>4 DEF FirstDecision, Decides
    <3> HIDE DEF i
    <3>6. i.form = "ok" /\ i.encryptedKey.by = r.priv
      BY <3>5 DEF MadeFor
    <3>7. s = Found(i)
      BY <3>4, <3>6 DEF RSAResult, i
    <3>8. RSADecrypt(r.priv, i.encryptedKey).ok
      BY <3>6 DEF RSADecrypt, Found
    <3>9. ContentKey(r) = IF s.ok THEN RSADecrypt(r.priv, s.value.encryptedKey) ELSE Refusal
      BY <2>1, <3>1 DEF ContentKey, s
    <3> QED BY <1>1, <3>7, <3>8, <3>9 DEF Found
  <2>9. CASE r.cert.pub.kind # "RSA"
    <3>1. r.priv.kind \in MLKEM /\ r.priv.kind # "RSA"
      <4>1. r.priv.kind \in MLKEM
        BY <2>3, <2>5, <2>9, KEMInfo
      <4> QED BY <4>1 DEF MLKEM
    <3>2. Decides(msg.infos[k], r)
      <4> DEFINE i == msg.infos[k]
      <4>1. /\ i.choice = "ori" /\ i.form = "ok" /\ i.type = "KEM" /\ i.value = "ok"
            /\ i.rid = IssuerAndSerial(r.cert)
        BY <2>4, <2>5, <2>9, KEMInfo
      <4> HIDE DEF i
      <4>2. recipientIdentifierMatchesCertificate(i.rid, r.cert) = "match"
        BY <2>6, <2>7, <4>1 DEF recipientIdentifierMatchesCertificate, IssuerAndSerial
      <4>3. Decides(i, r)
        BY <3>1, <4>1, <4>2 DEF Decides
      <4> QED BY <4>3 DEF i
    <3> DEFINE s == decryptKEMRecipientKey(msg.infos, r.cert, r.priv)
    <3>3. \E at : FirstDecision(msg.infos, r, at) /\ s = KEMResult(msg.infos[at], r)
      BY <3>1, <3>2, Returned, KEMReader
    <3> HIDE DEF s
    <3>4. PICK at : FirstDecision(msg.infos, r, at) /\ s = KEMResult(msg.infos[at], r)
      BY <3>3
    <3> DEFINE i == msg.infos[at]
    <3>5. i.choice = "ori" /\ MadeFor(i, r.priv) /\ at \in 1 .. Len(msg.infos)
      BY <2>3, <3>1, <3>4 DEF FirstDecision, Decides
    <3>6. PICK m \in 1 .. Len(enc.recipients) :
            /\ Addressable(enc.key, enc.recipients[m])
            /\ i = InfoFor(enc.key, enc.recipients[m])
            /\ r.priv = PrivateKeyOf(enc.recipients[m])
      BY <2>1, <3>5, MadeForReader
    <3> DEFINE cert == enc.recipients[m]
    <3>7. cert.pub.kind # "RSA"
      <4> SUFFICES ASSUME cert.pub.kind = "RSA" PROVE FALSE
        OBVIOUS
      <4>1. i.choice = "ktri"
        BY <3>6, RSAInfo
      <4> HIDE DEF i
      <4> QED BY <3>5, <4>1
    <3>8. /\ i.form = "ok" /\ i.value = "ok" /\ i.rid = IssuerAndSerial(cert)
          /\ AcceptableKEM(i, r.priv.kind)
      BY <3>6, <3>7, KEMInfo
    <3> HIDE DEF i
    <3>9. recipientIdentifierMatchesCertificate(i.rid, r.cert) # "error"
      BY <2>6, <3>8 DEF recipientIdentifierMatchesCertificate, IssuerAndSerial
    <3>10. i.encryptedKey.kek = deriveKEMKey(Decapsulate(r.priv, i.ciphertext), i.wrap, i.kekLength,
                                             i.ukm)
      BY <3>5 DEF MadeFor
    <3>11. KEMResult(i, r) = Found(i.encryptedKey.key)
      BY <3>8, <3>9, <3>10 DEF KEMResult, Unwrapped
    <3>12. ContentKey(r) = s
      BY <2>1, <2>3, <2>5, <2>9, <3>1 DEF ContentKey, s
    <3>13. s = Found(i.encryptedKey.key)
      BY <3>4, <3>11 DEF i
    <3> QED BY <1>1, <3>12, <3>13 DEF Found
  <2> QED BY <2>8, <2>9
<1> QED BY <1>3, <1>4

-----------------------------------------------------------------------------
(***************************************************************************)
(* Decrypt and DecryptUsingPSK.                                            *)
(***************************************************************************)

LEMMA OpeningFrame ==
  ASSUME EncInv, MsgInv, DecInv, Opening, enc.pc = "returned"
  PROVE  /\ EncInv' /\ MsgInv' /\ Holders' = Holders
         /\ Made' = Made /\ Symbols' = Symbols /\ Segments' = Segments
<1>1. enc' = enc /\ msg' = msg /\ sealed' = sealed /\ intact' = intact
  BY DEF Opening
<1>2. EncInv'
  BY <1>1, EncFrame
<1>3. Made' = Made /\ Symbols' = Symbols /\ Segments' = Segments
  BY <1>1, MadeFrame
<1>4. MsgInv'
  <2>1. Addressed' /\ ECIInv'
    BY <1>1, <1>3, Returned DEF Addressed, ECIInv, Whole
  <2> QED BY <1>1, <2>1 DEF MsgInv
<1>5. Holders' = Holders
  BY <1>1 DEF Holders
<1> QED BY <1>2, <1>3, <1>4, <1>5

LEMMA DecryptCallStep ==
  ASSUME EncInv, MsgInv, DecInv, DecryptCall
  PROVE  DecInv'
<1> DEFINE g == msg.eci.segments
           c == msg.eci.compound
<1>1. PICK r \in Readers :
        dec' = IF ~ContentKey(r).ok \/ msg.eci.alg \notin Decryptable
               THEN [Give(Invalid) EXCEPT !.reader = r]
               ELSE [dec EXCEPT !.reader = r, !.key = ContentKey(r).value,
                                !.pc = IF c THEN "join" ELSE "open",
                                !.rest = IF c THEN g ELSE <<>>,
                                !.buf = IF c THEN <<>> ELSE Ciphertext]
  BY DEF DecryptCall
<1>2. enc.pc = "returned" /\ Opening /\ enc' = enc /\ sealed' = sealed /\ intact' = intact
  BY DEF DecryptCall, Opening
<1>3. dec = [pc |-> dec.pc, reader |-> dec.reader, key |-> dec.key, rest |-> dec.rest,
             buf |-> dec.buf, result |-> dec.result]
  BY DEF DecInv
<1>4. Holders' = Holders /\ Made' = Made /\ Symbols' = Symbols /\ Segments' = Segments
  BY <1>2, OpeningFrame
<1>5. CASE ~ContentKey(r).ok \/ msg.eci.alg \notin Decryptable
  <2>1. dec' = [[dec EXCEPT !.pc = "done", !.result = Invalid] EXCEPT !.reader = r]
    BY <1>1, <1>5 DEF Give
  <2>2. /\ dec'.pc = "done"
        /\ dec' = [pc |-> dec'.pc, reader |-> dec'.reader, key |-> dec'.key, rest |-> dec'.rest,
                   buf |-> dec'.buf, result |-> dec'.result]
    BY <1>3, <2>1
  <2> QED BY <2>2 DEF DecInv
<1>6. CASE ContentKey(r).ok /\ msg.eci.alg \in Decryptable
  <2>1. dec' = [dec EXCEPT !.reader = r, !.key = ContentKey(r).value,
                           !.pc = IF c THEN "join" ELSE "open",
                           !.rest = IF c THEN g ELSE <<>>,
                           !.buf = IF c THEN <<>> ELSE Ciphertext]
    BY <1>1, <1>6
  <2>2. /\ dec'.reader = r /\ dec'.key = ContentKey(r).value
        /\ dec'.pc = (IF c THEN "join" ELSE "open")
        /\ dec'.rest = (IF c THEN g ELSE <<>>) /\ dec'.buf = (IF c THEN <<>> ELSE Ciphertext)
        /\ dec' = [pc |-> dec'.pc, reader |-> dec'.reader, key |-> dec'.key, rest |-> dec'.rest,
                   buf |-> dec'.buf, result |-> dec'.result]
    BY <1>3, <2>1
  <2>3. ContentKey(r).value = sealed.key <=> r \in Holders
    BY <1>2, <1>6, ContentKeySound
  <2>4. dec'.key = sealed'.key <=> dec'.reader \in Holders'
    BY <1>2, <1>4, <2>2, <2>3
  <2>5. ECIInv
    BY <1>2, Returned
  <2>6. CASE c
    <3>0. g \in Seq(Segments) /\ Len(g) \in {1, 2} /\ (intact => Whole(<<>>, g))
      BY <2>5, Zenon DEF ECIInv
    <3>1. Len(g) <= 2
      <4> DEFINE n == Len(g)
      <4>1. n \in {1, 2}
        BY <3>0
      <4> HIDE DEF n
      <4>2. n <= 2
        BY <4>1
      <4> QED BY <4>2 DEF n
    <3>2. <<>> \in Seq(Symbols)
      BY EmptySeq
    <3>3. /\ dec'.pc = "join" /\ dec'.rest = g /\ dec'.buf = <<>>
      BY <2>2, <2>6
    <3>4. intact' => Whole(dec.buf, dec.rest)'
      BY <1>2, <1>4, <3>0, <3>3 DEF Whole
    <3> QED BY <1>2, <1>4, <2>2, <2>4, <3>0, <3>1, <3>2, <3>3, <3>4 DEF DecInv
  <2>7. CASE ~c
    <3>1. g \in Seq(Segments) /\ Len(g) = 1 /\ (intact => Whole(<<>>, g))
      BY <2>5, <2>7 DEF ECIInv
    <3>2. g[1].bytes \in Seq(Symbols) /\ (intact => g[1].bytes = Made)
      BY <3>1, SingleSegment
    <3>3. dec'.pc = "open" /\ dec'.buf = g[1].bytes
      BY <2>2, <2>7 DEF Ciphertext
    <3> QED BY <1>2, <1>4, <2>2, <2>4, <3>2, <3>3 DEF DecInv
  <2> QED BY <2>6, <2>7
<1> QED BY <1>5, <1>6

\* The ciphertext of the first segment and of the others.
LEMMA JoinedHead ==
  ASSUME NEW s \in Seq(Segments), s # <<>>, Len(s) <= 2
  PROVE  /\ Head(s) \in Segments /\ Head(s).bytes \in Seq(Symbols) /\ Head(s) = s[1]
         /\ Tail(s) \in Seq(Segments) /\ Len(Tail(s)) = Len(s) - 1
         /\ \A k \in 1 .. Len(Tail(s)) : Tail(s)[k] = s[k + 1]
         /\ Joined(Tail(s)) \in Seq(Symbols)
         /\ Joined(s) = Head(s).bytes \o Joined(Tail(s))
<1>1. Len(s) \in Nat /\ Len(s) # 0
  BY EmptySeq, LenProperties
<1> DEFINE t == Tail(s)
<1>2. /\ Head(s) \in Segments /\ t \in Seq(Segments) /\ Len(t) = Len(s) - 1
      /\ \A k \in 1 .. Len(t) : t[k] = s[k + 1]
  BY HeadTailProperties
<1>3. Head(s) = s[1] /\ Head(s).bytes \in Seq(Symbols)
  BY <1>1, <1>2 DEF Segments
<1> HIDE DEF t
<1>4. CASE Len(s) = 1
  <2>1. Len(t) = 0
    BY <1>2, <1>4
  <2>2. t = <<>>
    BY <1>2, <2>1, EmptySeq
  <2>3. Joined(t) = <<>>
    BY <2>2 DEF Joined
  <2>4. Joined(s) = s[1].bytes
    BY <1>4 DEF Joined
  <2>5. s[1].bytes \o <<>> = s[1].bytes /\ <<>> \in Seq(Symbols)
    BY <1>3, ConcatEmptySeq, EmptySeq
  <2> QED BY <1>2, <1>3, <2>3, <2>4, <2>5 DEF t
<1>5. CASE Len(s) = 2
  <2>1. Joined(s) = s[1].bytes \o s[2].bytes
    BY <1>5, JoinedTwo
  <2>2. Len(t) = 1
    BY <1>2, <1>5
  <2>3. 1 \in 1 .. Len(t) /\ t # <<>> /\ 1 + 1 = 2
    BY <1>2, <2>2, EmptySeq
  <2>4. t[1] = s[2]
    BY <1>2, <2>3
  <2>5. Joined(t) = s[2].bytes
    BY <2>2, <2>3, <2>4 DEF Joined
  <2>6. s[2].bytes \in Seq(Symbols)
    <3>1. s[2] \in Segments
      BY <1>5, ElementOfSeq, SMTT(30)
    <3> QED BY <3>1 DEF Segments
  <2> QED BY <1>2, <1>3, <2>1, <2>5, <2>6 DEF t
<1>6. Len(s) = 1 \/ Len(s) = 2
  <2> DEFINE n == Len(s)
  <2>1. n \in Nat /\ n # 0 /\ n <= 2
    BY <1>1
  <2> HIDE DEF n
  <2>2. n = 1 \/ n = 2
    BY <2>1
  <2> QED BY <2>2 DEF n
<1> QED BY <1>4, <1>5, <1>6

LEMMA JoinSegmentStep ==
  ASSUME EncInv, MsgInv, DecInv, JoinSegment
  PROVE  DecInv'
<1> DEFINE read == dec.rest # <<>> /\ Head(dec.rest).ok
<1>1. /\ dec.pc = "join" /\ Opening /\ enc' = enc /\ sealed' = sealed /\ intact' = intact
      /\ dec' = [dec EXCEPT !.rest = Rest(dec.rest).segments,
                            !.pc = IF Rest(dec.rest).nil THEN "open" ELSE "join",
                            !.buf = IF read THEN @ \o Head(dec.rest).bytes ELSE @]
  BY DEF JoinSegment, Opening
<1>2. /\ enc.pc = "returned" /\ dec.reader \in Readers /\ dec.buf \in Seq(Symbols)
      /\ dec.key = sealed.key <=> dec.reader \in Holders
      /\ dec.rest \in Seq(Segments) /\ Len(dec.rest) <= 2
      /\ intact => Whole(dec.buf, dec.rest)
      /\ dec = [pc |-> dec.pc, reader |-> dec.reader, key |-> dec.key, rest |-> dec.rest,
                buf |-> dec.buf, result |-> dec.result]
  BY <1>1 DEF DecInv
<1>3. Holders' = Holders /\ Made' = Made /\ Symbols' = Symbols /\ Segments' = Segments
  BY <1>1, <1>2, OpeningFrame
<1>4. CASE read
  <2> DEFINE h == Head(dec.rest)
             t == Tail(dec.rest)
  <2>1. Rest(dec.rest).nil = FALSE /\ Rest(dec.rest).segments = t
    BY <1>4 DEF Rest
  <2>2. dec' = [dec EXCEPT !.rest = t, !.pc = "join", !.buf = dec.buf \o h.bytes]
    BY <1>1, <1>4, <2>1
  <2> HIDE DEF t, h
  <2>3. /\ dec'.pc = "join" /\ dec'.reader = dec.reader /\ dec'.key = dec.key /\ dec'.rest = t
        /\ dec'.buf = dec.buf \o h.bytes
        /\ dec' = [pc |-> dec'.pc, reader |-> dec'.reader, key |-> dec'.key, rest |-> dec'.rest,
                   buf |-> dec'.buf, result |-> dec'.result]
    BY <1>2, <2>2
  <2>4. /\ h.bytes \in Seq(Symbols) /\ t \in Seq(Segments) /\ Len(t) = Len(dec.rest) - 1
        /\ \A k \in 1 .. Len(t) : t[k] = dec.rest[k + 1]
        /\ Joined(t) \in Seq(Symbols) /\ Joined(dec.rest) = h.bytes \o Joined(t)
    BY <1>2, <1>4, JoinedHead DEF h, t
  <2>5. dec.buf \o h.bytes \in Seq(Symbols)
    BY <1>2, <2>4, ConcatProperties
  <2>6. Len(t) <= 2 /\ Len(dec.rest) \in Nat
    BY <1>2, <2>4, LenProperties
  <2>7. intact => Whole(dec'.buf, t)
    <3>1. (dec.buf \o h.bytes) \o Joined(t) = dec.buf \o Joined(dec.rest)
      <4> DEFINE b == dec.buf
                 x == h.bytes
                 y == Joined(t)
      <4>1. b \in Seq(Symbols) /\ x \in Seq(Symbols) /\ y \in Seq(Symbols)
        BY <1>2, <2>4
      <4>2. Joined(dec.rest) = x \o y
        BY <2>4
      <4> HIDE DEF b, x, y
      <4>3. (b \o x) \o y = b \o (x \o y)
        BY <4>1, ConcatAssociative
      <4> QED BY <4>2, <4>3 DEF b, x, y
    <3>2. ASSUME intact, NEW k \in 1 .. Len(t) PROVE t[k].ok
      <4>1. k + 1 \in 1 .. Len(dec.rest)
        BY <2>4, <2>6
      <4> QED BY <1>2, <2>4, <3>2, <4>1 DEF Whole
    <3> QED BY <1>2, <2>3, <3>1, <3>2 DEF Whole
  <2>8. intact' => Whole(dec.buf, dec.rest)'
    BY <1>1, <1>3, <2>3, <2>7 DEF Whole
  <2> QED BY <1>1, <1>2, <1>3, <2>3, <2>4, <2>5, <2>6, <2>8 DEF DecInv
<1>5. CASE ~read
  <2>1. Rest(dec.rest).nil = TRUE /\ Rest(dec.rest).segments = <<>>
    BY <1>5 DEF Rest
  <2>2. dec' = [dec EXCEPT !.rest = <<>>, !.pc = "open", !.buf = dec.buf]
    BY <1>1, <1>5, <2>1
  <2>3. /\ dec'.pc = "open" /\ dec'.reader = dec.reader /\ dec'.key = dec.key
        /\ dec'.buf = dec.buf
        /\ dec' = [pc |-> dec'.pc, reader |-> dec'.reader, key |-> dec'.key, rest |-> dec'.rest,
                   buf |-> dec'.buf, result |-> dec'.result]
    BY <1>2, <2>2
  <2>4. intact => dec.buf = Made
    <3> SUFFICES ASSUME intact PROVE dec.buf = Made
      OBVIOUS
    <3>1. dec.rest = <<>>
      <4> SUFFICES ASSUME dec.rest # <<>> PROVE FALSE
        OBVIOUS
      <4>1. Head(dec.rest) = dec.rest[1] /\ Len(dec.rest) \in Nat \ {0}
        BY <1>2, JoinedHead, EmptySeq
      <4> QED BY <1>2, <1>5, <4>1 DEF Whole
    <3>2. Joined(dec.rest) = <<>>
      BY <3>1 DEF Joined
    <3> QED BY <1>2, <3>2, ConcatEmptySeq DEF Whole
  <2> QED BY <1>1, <1>2, <1>3, <2>3, <2>4 DEF DecInv
<1> QED BY <1>4, <1>5

LEMMA DecryptOpenStep ==
  ASSUME EncInv, MsgInv, DecInv, DecryptOpen
  PROVE  DecInv'
<1>1. PICK x : dec' = [dec EXCEPT !.pc = "done", !.result = x]
  BY DEF DecryptOpen, Give
<1>2. /\ dec'.pc = "done"
      /\ dec' = [pc |-> dec'.pc, reader |-> dec'.reader, key |-> dec'.key, rest |-> dec'.rest,
                 buf |-> dec'.buf, result |-> dec'.result]
  BY <1>1 DEF DecInv
<1> QED BY <1>2 DEF DecInv

-----------------------------------------------------------------------------
(***************************************************************************)
(* What decrypt returns.                                                   *)
(***************************************************************************)

\* The block of a byte, and the block before it, lie in a ciphertext of whole blocks.
LEMMA BlockBounds ==
  ASSUME NEW b \in BlockSizes, NEW n \in Nat, n % b = 0, NEW k \in 1 .. n
  PROVE  LET start == k - ((k - 1) % b)
             from == IF start = 1 THEN 1 ELSE start - b
         IN  /\ start \in 1 .. n /\ start + b - 1 <= n /\ from \in 1 .. n
             /\ start = 1 => k <= b
<1>1. CASE b \in 1 .. 4
  BY <1>1, BlockSizeCases
<1>2. CASE b \in 5 .. 8
  BY <1>2, BlockSizeCases
<1>3. CASE b \in 9 .. 12
  BY <1>3, BlockSizeCases
<1>4. CASE b \in 13 .. 16
  BY <1>4, BlockSizeCases
<1> QED BY <1>1, <1>2, <1>3, <1>4 DEF BlockSizes

LEMMA SealFields ==
  ASSUME NEW mode, NEW cipher, NEW key, NEW iv, NEW plain, NEW seal,
         seal = [mode |-> mode, cipher |-> cipher, key |-> key, iv |-> iv, plain |-> plain],
         NEW f, f = [seal EXCEPT !.iv = iv, !.plain = <<>>]
  PROVE  /\ seal.iv = iv /\ seal.plain = plain
         /\ f = [mode |-> mode, cipher |-> cipher, key |-> key, iv |-> iv, plain |-> <<>>]
OBVIOUS

\* CBC decryption with the key and the initial value recovers every byte.
LEMMA AllRecoverable ==
  ASSUME NEW cipher, NEW key, NEW iv, NEW plain, Len(plain) \in Nat,
         Len(plain) % BlockSize(cipher) = 0, NEW ct, ct = CryptBlocks(cipher, key, iv, plain),
         NEW k \in 1 .. Len(ct)
  PROVE  Recoverable(cipher, key, iv, ct, k)
<1> DEFINE b == BlockSize(cipher)
           n == Len(plain)
           seal == [mode |-> "CBC", cipher |-> cipher, key |-> key, iv |-> iv, plain |-> plain]
           start == k - ((k - 1) % b)
           from == IF start = 1 THEN 1 ELSE start - b
           f == [ct[k].seal EXCEPT !.iv = iv, !.plain = <<>>]
<1>1. ct = Sealed(seal, n) /\ n \in Nat
  BY DEF CryptBlocks
<1>0. seal = [mode |-> "CBC", cipher |-> cipher, key |-> key, iv |-> iv, plain |-> plain]
  OBVIOUS
<1> HIDE DEF n, seal
<1>3. Len(ct) = n /\ \A m \in 1 .. n : ct[m] = [seal |-> seal, at |-> m]
  BY <1>1, SealedBytes
<1>4. b \in BlockSizes /\ n % b = 0 /\ k \in 1 .. n
  BY <1>3, BlockSizeType DEF n
<1> HIDE DEF b
<1>5. /\ start \in 1 .. n /\ start + b - 1 <= n /\ from \in 1 .. n /\ b \in 1 .. 16
      /\ start = 1 => k <= b
  BY <1>1, <1>4, BlockBounds DEF BlockSizes
<1>6. ct[k].seal = seal /\ ct[k].at = k
  BY <1>3, <1>4
<1>2. seal.iv = iv /\ f = [mode |-> "CBC", cipher |-> cipher, key |-> key, iv |-> iv, plain |-> <<>>]
  <2>1. f = [seal EXCEPT !.iv = iv, !.plain = <<>>]
    BY <1>6
  <2> HIDE DEF f
  <2> QED BY <1>0, <2>1, SealFields
<1> HIDE DEF start, from
<1>7. ASSUME NEW m \in from .. start + b - 1
      PROVE  ct[m] = [seal |-> seal, at |-> ct[k].at - k + m]
  <2>1. m \in 1 .. n /\ k - k + m = m
    BY <1>1, <1>4, <1>5
  <2> QED BY <1>3, <1>6, <2>1
<1>8. (ct[k].at - 1) % b = (k - 1) % b /\ (start = 1 => ct[k].at <= b /\ ct[k].seal.iv = iv)
  BY <1>2, <1>5, <1>6
<1>9. \A m \in from .. start + b - 1 : ct[m] = [seal |-> ct[k].seal, at |-> ct[k].at - k + m]
  BY <1>6, <1>7
<1> QED BY <1>2, <1>8, <1>9, Zenon DEF Recoverable, b, start, from, f

\* ... and so gives back the plaintext.
LEMMA CBCInverts ==
  ASSUME NEW cipher, NEW key, NEW iv, NEW plain \in Seq(Byte),
         Len(plain) % BlockSize(cipher) = 0, NEW ct, ct = CryptBlocks(cipher, key, iv, plain),
         NEW p \in CBCDecrypt(cipher, key, iv, ct)
  PROVE  p = plain /\ Len(ct) = Len(plain)
<1> DEFINE n == Len(plain)
           known == {k \in 1 .. Len(ct) : Recoverable(cipher, key, iv, ct, k)}
           seal == [mode |-> "CBC", cipher |-> cipher, key |-> key, iv |-> iv, plain |-> plain]
<1>1. n \in Nat
  BY LenProperties
<1>2. p \in Plaintexts(ct, known)
  BY DEF CBCDecrypt
<1>3. known = 1 .. Len(ct)
  BY <1>1, AllRecoverable
<1> HIDE DEF known
<1>4. PICK g : p = [k \in 1 .. Len(ct) |-> IF k \in known THEN ct[k].seal.plain[ct[k].at] ELSE g[k]]
  BY <1>2 DEF Plaintexts
<1>5. ct = Sealed(seal, n) /\ seal.plain = plain
  BY DEF CryptBlocks
<1> HIDE DEF seal
<1>6. Len(ct) = n /\ \A m \in 1 .. n : ct[m] = [seal |-> seal, at |-> m]
  BY <1>1, <1>5, SealedBytes
<1>7. p = [k \in 1 .. n |-> plain[k]]
  <2>1. \A k \in 1 .. n : ct[k].seal.plain[ct[k].at] = plain[k]
    <3> SUFFICES ASSUME NEW k \in 1 .. n PROVE ct[k].seal.plain[ct[k].at] = plain[k]
      OBVIOUS
    <3> DEFINE y == ct[k]
    <3>0. y = [seal |-> seal, at |-> k]
      BY <1>6, Zenon
    <3> HIDE DEF y
    <3>1. y.seal = seal /\ y.at = k
      BY <3>0
    <3> QED BY <1>5, <3>1 DEF y
  <2> DEFINE q == [k \in 1 .. n |-> plain[k]]
  <2>2. \A k \in 1 .. n : p[k] = q[k]
    BY <1>3, <1>4, <1>6, <2>1
  <2>3. p = [k \in 1 .. n |-> p[k]]
    BY <1>4, <1>6
  <2> QED BY <2>2, <2>3, Zenon
<1>8. plain = [k \in 1 .. n |-> plain[k]]
  BY LenProperties
<1> QED BY <1>6, <1>7, <1>8

\* An intact ciphertext opens with its key, to what was encrypted.
LEMMA DecryptIntact ==
  ASSUME Prepared, ContentMade, NEW eci, eci.alg = enc.eci.alg, eci.params = enc.eci.params,
         NEW x \in decrypt(eci, enc.key, Made)
  PROVE  x = Bytes(enc.content)
<1> DEFINE alg == enc.eci.alg
           cipher == CipherOf(alg)
           b == BlockSize(cipher)
           params == MadeParams(alg)
           key == enc.key
           content == enc.content
<1>1. /\ alg \in ContentAlgorithms /\ alg \in Decryptable /\ NewCipher(cipher, key)
      /\ content \in Seq(Byte)
  BY DEF ContentMade, Decryptable, Prepared
<1>2. eci.params = params
  <2> DEFINE m == MadeBytes(alg, key, content)
             e == enc.eci
  <2>1. e = ECI(alg, params, m) /\ eci.params = e.params
    BY DEF ContentMade
  <2> HIDE DEF m, params, alg, e
  <2>2. e.params = params
    BY <2>1 DEF ECI
  <2> QED BY <2>1, <2>2
<1>3. CASE alg \in GCMAlgorithms
  <2>1. params.form = "gcm" /\ params.iv.len = nonceSize /\ params.icv = Overhead
    BY <1>3 DEF MadeParams
  <2>2. x = decryptGCM(eci, key, Made)
    BY <1>1, <1>3 DEF decrypt
  <2>3. x = GCMOpen(key, params.iv, Made)
    BY <1>2, <2>1, <2>2 DEF decryptGCM
  <2>4. Made = GCMSeal(key, params.iv, content)
    BY <1>3 DEF Made, MadeBytes
  <2>5. Made # <<>> /\ Made[1].seal.plain = content
    <3> DEFINE seal == MadeSeal(alg, key, content)
    <3>1. Len(Made) = Len(content) + 1 /\ \A k \in 1 .. Len(Made) : Made[k] = [seal |-> seal, at |-> k]
      BY <1>3, MadeType DEF MadeLen
    <3>2. seal.plain = content
      BY <1>3 DEF MadeSeal, MadePlain
    <3> HIDE DEF seal
    <3>3. 1 \in 1 .. Len(Made) /\ Len(content) \in Nat
      BY <1>1, <3>1, LenProperties
    <3>4. Made # <<>>
      BY <3>1, <3>3, EmptySeq
    <3> DEFINE y == Made[1]
    <3>5. y = [seal |-> seal, at |-> 1]
      BY <3>1, <3>3, Zenon
    <3> HIDE DEF y
    <3>6. y.seal = seal
      BY <3>5
    <3> QED BY <3>2, <3>4, <3>6 DEF y
  <2> HIDE DEF params
  <2> QED BY <2>3, <2>4, <2>5 DEF GCMOpen
<1>4. CASE alg \notin GCMAlgorithms
  <2> DEFINE iv == params.iv
             plain == pad(content, b).bytes
  <2>1. iv.len = b
    BY <1>4 DEF MadeParams
  <2>2. Made = CryptBlocks(cipher, key, iv, plain)
    BY <1>4 DEF Made, MadeBytes
  <2>3. b \in BlockSizes
    BY BlockSizeType
  <2>4. plain \in Seq(Byte) /\ Len(plain) \in Nat /\ Len(plain) > 0 /\ Len(plain) % b = 0
    <3> HIDE DEF b
    <3> DEFINE c == content \o padding(Len(content), b)
    <3>1. /\ padlen(Len(content), b) \in 1 .. b /\ pad(content, b) = Bytes(c) /\ c \in Seq(Byte)
          /\ Len(c) = Len(content) + padlen(Len(content), b)
      BY <1>1, <2>3, PadBytes
    <3> HIDE DEF c
    <3>2. plain = c
      BY <3>1 DEF Bytes
    <3> DEFINE n == Len(content)
               l == padlen(n, b)
    <3>3. n \in Nat /\ (n + l) % b = 0
      BY <1>1, <2>3, LenProperties, PadlenFills
    <3>4. Len(c) = n + l /\ l \in 1 .. b /\ b \in 1 .. 16
      BY <2>3, <3>1 DEF BlockSizes
    <3> HIDE DEF n, l
    <3>5. Len(c) > 0
      BY <3>3, <3>4
    <3> HIDE DEF plain
    <3> QED BY <3>1, <3>2, <3>3, <3>4, <3>5
  <2>5. unpad(plain, b) = Bytes(content)
    <3> HIDE DEF b
    <3> QED BY <1>1, <2>3, UnpadInvertsPad
  <2> DEFINE m == Made
  <2>6. m = CryptBlocks(cipher, key, iv, plain)
    BY <2>2
  <2>7. /\ x \in decrypt(eci, key, m) /\ eci.alg = alg /\ eci.params.iv = iv
    BY <1>2
  <2> HIDE DEF m, iv, plain, params, alg
  <2>8. Len(m) = Len(plain)
    <3> DEFINE seal == [mode |-> "CBC", cipher |-> cipher, key |-> key, iv |-> iv, plain |-> plain]
    <3>1. m = Sealed(seal, Len(plain))
      BY <2>6 DEF CryptBlocks
    <3> HIDE DEF seal
    <3> QED BY <2>4, <3>1, SealedBytes
  <2>9. x \in {unpad(p, b) : p \in CBCDecrypt(cipher, key, iv, m)}
    BY <1>1, <1>4, <2>1, <2>4, <2>7, <2>8 DEF decrypt
  <2>10. PICK p \in CBCDecrypt(cipher, key, iv, m) : x = unpad(p, b)
    BY <2>9
  <2>11. p = plain
    BY <2>4, <2>6, CBCInverts
  <2> QED BY <2>5, <2>10, <2>11
<1> QED BY <1>3, <1>4

\* A byte in transport is a foreign one or one that was made.
LEMMA SymbolCases ==
  ASSUME Prepared, NEW y \in Symbols
  PROVE  \/ y.seal.mode = "none"
         \/ /\ y.seal = MadeSeal(enc.eci.alg, enc.key, enc.content)
            /\ y.at \in 1 .. Len(Made)
<1> DEFINE seal == MadeSeal(enc.eci.alg, enc.key, enc.content)
<1>1. CASE \E k \in Nat : y = ForeignByte(k)
  BY <1>1 DEF ForeignByte
<1>2. CASE \E k \in 1 .. Len(Made) : y = Made[k]
  <2>1. PICK k \in 1 .. Len(Made) : y = Made[k]
    BY <1>2
  <2>2. Made[k] = [seal |-> seal, at |-> k]
    BY MadeType
  <2> HIDE DEF seal
  <2>3. y.seal = seal /\ y.at = k
    BY <2>1, <2>2
  <2> QED BY <2>3 DEF seal
<1> QED BY <1>1, <1>2 DEF Symbols

LEMMA MadeSealFields ==
  ASSUME NEW alg, NEW key, NEW content
  PROVE  LET s == MadeSeal(alg, key, content)
         IN  /\ s.mode = "GCM" <=> alg \in GCMAlgorithms
             /\ s.mode = "CBC" <=> alg \notin GCMAlgorithms
             /\ s.key = key /\ s.plain = MadePlain(alg, content)
BY DEF MadeSeal

\* GCM opens nothing but the content, with its key.
LEMMA GCMAuthentic ==
  ASSUME Prepared, NEW buf \in Seq(Symbols), NEW key, NEW nonce, GCMOpen(key, nonce, buf) # Invalid
  PROVE  key = enc.key /\ GCMOpen(key, nonce, buf) = Bytes(enc.content)
<1> DEFINE alg == enc.eci.alg
           y == buf[1]
           s == y.seal
           plain == s.plain
           seal == [mode |-> "GCM", cipher |-> "AES", key |-> key, iv |-> nonce, plain |-> plain]
           made == MadeSeal(alg, enc.key, enc.content)
<1>1. buf # <<>> /\ buf = GCMSeal(key, nonce, plain) /\ GCMOpen(key, nonce, buf) = Bytes(plain)
  BY DEF GCMOpen
<1>2. Len(buf) \in Nat \ {0} /\ 1 \in 1 .. Len(buf)
  BY <1>1, EmptySeq, LenProperties
<1>3. y \in Symbols
  BY <1>2, ElementOfSeq
<1>4. y.seal.mode = "none" \/ y.seal = made
  BY <1>3, SymbolCases
<1>5. seal.mode = "GCM" /\ seal.key = key
  OBVIOUS
<1>6. s = seal
  <2>1. buf = Sealed(seal, Len(plain) + 1)
    BY <1>1 DEF GCMSeal
  <2> HIDE DEF seal
  <2>2. buf = [k \in 1 .. Len(plain) + 1 |-> [seal |-> seal, at |-> k]]
    BY <2>1 DEF Sealed
  <2>3. 1 \in 1 .. Len(plain) + 1
    <3>1. 1 \in DOMAIN buf
      BY <1>2, LenProperties
    <3> QED BY <2>2, <3>1
  <2>4. buf[1] = [seal |-> seal, at |-> 1]
    BY <2>2, <2>3
  <2> QED BY <2>4
<1> HIDE DEF seal, made, plain
<1>7. s = made
  BY <1>4, <1>5, <1>6
<1>8. made.mode = "GCM" /\ made.key = key
  BY <1>5, <1>6, <1>7
<1>9. alg \in GCMAlgorithms /\ made.key = enc.key /\ made.plain = MadePlain(alg, enc.content)
  BY <1>8, MadeSealFields DEF made
<1>10. plain = enc.content
  BY <1>7, <1>9 DEF MadePlain, plain
<1> QED BY <1>1, <1>8, <1>9, <1>10

\* Whatever CBC decrypts, with whatever key, it gives bytes.
LEMMA CBCPlain ==
  ASSUME Prepared, NEW buf \in Seq(Symbols), NEW cipher, NEW key, NEW iv,
         NEW p \in CBCDecrypt(cipher, key, iv, buf)
  PROVE  p \in Seq(Byte)
<1> DEFINE n == Len(buf)
           known == {k \in 1 .. n : Recoverable(cipher, key, iv, buf, k)}
           seal == MadeSeal(enc.eci.alg, enc.key, enc.content)
           plain == MadePlain(enc.eci.alg, enc.content)
<1>1. n \in Nat
  BY LenProperties
<1>2. p \in Plaintexts(buf, known)
  BY DEF CBCDecrypt
<1>3. \A k \in known : k \in 1 .. n /\ Recoverable(cipher, key, iv, buf, k)
  OBVIOUS
<1> HIDE DEF known
<1>4. PICK g \in [(1 .. n) \ known -> GarbleBytes] :
        p = [k \in 1 .. n |-> IF k \in known THEN buf[k].seal.plain[buf[k].at] ELSE g[k]]
  BY <1>2 DEF Plaintexts
<1>5. plain \in Seq(Byte) /\ Len(Made) = MadeLen(enc.eci.alg, enc.content)
  BY MadePlainType, MadeType DEF Prepared
<1>6. ASSUME NEW k \in known PROVE buf[k].seal.plain[buf[k].at] \in Byte
  <2> DEFINE y == buf[k]
             s == y.seal
             f == [s EXCEPT !.iv = iv, !.plain = <<>>]
  <2>1. k \in 1 .. n /\ y \in Symbols
    BY <1>3, <1>6, ElementOfSeq
  <2>2. f = [mode |-> "CBC", cipher |-> cipher, key |-> key, iv |-> iv, plain |-> <<>>]
    BY <1>3, <1>6, Zenon DEF Recoverable
  <2>3. f.mode = "CBC"
    <3> HIDE DEF f
    <3> QED BY <2>2
  <2>4. s.mode = "none" \/ (s = seal /\ y.at \in 1 .. Len(Made))
    BY <2>1, SymbolCases
  <2>5. ASSUME s.mode = "none" PROVE FALSE
    <3>1. PICK m \in Nat : y = ForeignByte(m)
      <4> SUFFICES ASSUME NEW m \in 1 .. Len(Made), y = Made[m] PROVE FALSE
        BY <2>1 DEF Symbols
      <4>1. Made[m] = [seal |-> seal, at |-> m]
        BY MadeType
      <4>2. seal.mode = "GCM" \/ seal.mode = "CBC"
        BY MadeSealFields
      <4> HIDE DEF seal
      <4>3. s = seal
        BY <4>1
      <4> QED BY <2>5, <4>2, <4>3
    <3>2. s = [mode |-> "none", iv |-> NoKey, plain |-> <<>>]
      BY <3>1 DEF ForeignByte
    <3> HIDE DEF s
    <3>3. f.mode = "none"
      BY <3>2
    <3> QED BY <2>3, <3>3
  <2>6. s = seal /\ y.at \in 1 .. Len(Made)
    BY <2>4, <2>5
  <2>7. seal.mode = "CBC"
    <3>1. seal = [mode |-> IF enc.eci.alg \in GCMAlgorithms THEN "GCM" ELSE "CBC",
                  cipher |-> CipherOf(enc.eci.alg), key |-> enc.key,
                  iv |-> MadeParams(enc.eci.alg).iv, plain |-> plain]
      BY DEF MadeSeal
    <3> HIDE DEF seal
    <3>2. f.mode = seal.mode
      BY <2>6, <3>1
    <3> QED BY <2>3, <3>2
  <2>8. enc.eci.alg \notin GCMAlgorithms /\ seal.plain = plain
    BY <2>7, MadeSealFields
  <2>9. Len(Made) = Len(plain)
    BY <1>5, <2>8 DEF MadeLen
  <2> HIDE DEF seal, plain
  <2>10. plain[y.at] \in Byte
    BY <1>5, <2>6, <2>9, ElementOfSeq
  <2> QED BY <2>6, <2>8, <2>10
<1>7. ASSUME NEW k \in (1 .. n) \ known PROVE g[k] \in Byte
  BY <1>7, BlockAssumption
<1>8. p \in [1 .. n -> Byte]
  BY <1>4, <1>6, <1>7
<1> HIDE DEF n
<1> QED BY <1>1, <1>8

\* Decrypt gives an error or bytes; of a message that is labelled AES-GCM, an error or
\* the content.
LEMMA DecryptResult ==
  ASSUME Prepared, NEW eci, NEW key, NEW buf \in Seq(Symbols), NEW x \in decrypt(eci, key, buf)
  PROVE  /\ x = Invalid \/ (x.ok /\ x.bytes \in Seq(Byte))
         /\ eci.alg \in GCMAlgorithms /\ x # Invalid => key = enc.key /\ x = Bytes(enc.content)
<1> DEFINE cipher == CipherOf(eci.alg)
           b == BlockSize(cipher)
<1>1. CASE x = Invalid
  BY <1>1
<1>2. CASE x # Invalid /\ eci.alg \in GCMAlgorithms
  <2>1. x = decryptGCM(eci, key, buf)
    BY <1>2 DEF decrypt
  <2>2. x = GCMOpen(key, eci.params.iv, buf)
    BY <1>2, <2>1 DEF decryptGCM
  <2>3. key = enc.key /\ x = Bytes(enc.content)
    BY <1>2, <2>2, GCMAuthentic
  <2> QED BY <2>3 DEF Bytes, Prepared
<1>3. CASE x # Invalid /\ eci.alg \notin GCMAlgorithms
  <2>1. PICK p \in CBCDecrypt(cipher, key, eci.params.iv, buf) : x = unpad(p, b)
    BY <1>3 DEF decrypt
  <2>2. p \in Seq(Byte) /\ b \in BlockSizes
    BY CBCPlain, BlockSizeType
  <2> HIDE DEF b
  <2>3. unpad(p, b).ok
    BY <1>3, <2>1 DEF unpad, Bytes
  <2> QED BY <1>3, <2>1, <2>2, <2>3, UnpadAcceptsOnlyPads
<1> QED BY <1>1, <1>2, <1>3

-----------------------------------------------------------------------------
(***************************************************************************)
(* The invariant is inductive.                                             *)
(***************************************************************************)

LEMMA EnvInitInv ==
  ASSUME EnvInit
  PROVE  EnvInv
<1>1. EncInv
  BY DEF EnvInit, NoEncrypt, EncInv, EncShape, EncryptedPCs, KEMPCs
<1>2. enc.pc = "idle"
  BY DEF EnvInit, NoEncrypt
<1>3. MsgInv
  BY <1>2 DEF EnvInit, MsgInv
<1>4. DecInv
  BY DEF EnvInit, NoDecrypt, DecInv
<1> QED BY <1>1, <1>3, <1>4 DEF EnvInv

LEMMA MessageFrame ==
  ASSUME MsgInv, DecInv, UNCHANGED <<enc, msg, sealed, intact, dec>>
  PROVE  MsgInv' /\ DecInv'
<1>1. Made' = Made /\ Symbols' = Symbols /\ Segments' = Segments
  BY MadeFrame
<1>2. Holders' = Holders
  BY DEF Holders
<1>3. Addressed' <=> Addressed
  BY DEF Addressed
<1>4. ECIInv' <=> ECIInv
  BY <1>1 DEF ECIInv, Whole
<1>5. MsgInv'
  BY <1>3, <1>4 DEF MsgInv
<1>6. DecInv'
  BY <1>1, <1>2 DEF DecInv, Whole
<1> QED BY <1>5, <1>6

\* A step of Encrypt before it returns.
LEMMA SealingFrame ==
  ASSUME MsgInv, Sealing, enc.pc # "returned", enc'.pc # "returned"
  PROVE  MsgInv' /\ DecInv'
BY EncryptingFrame DEF Sealing, EncryptStep

LEMMA EncryptingPC ==
  ASSUME EncInv,
         EncryptCall \/ EncryptUsingPSKCall \/ EncryptContent \/ MakeRecipientInfo
           \/ KEMCheck1 \/ KEMCheck2 \/ KEMRecipient
  PROVE  Sealing /\ enc.pc # "returned" /\ enc'.pc # "returned"
<1>0. EncShape
  BY DEF EncInv
<1>1. CASE EncryptCall
  BY <1>0, <1>1 DEF EncShape, EncryptCall, FailWith
<1>2. CASE EncryptUsingPSKCall
  BY <1>0, <1>2 DEF EncShape, EncryptUsingPSKCall, FailWith
<1>3. CASE EncryptContent
  <2> DEFINE r == EncryptedContent
  <2>1. /\ enc.pc = "content" /\ Sealing
        /\ enc' = IF r.ok THEN [enc EXCEPT !.pc = IF enc.type = "enveloped" THEN "recipients" ELSE "marshal",
                                           !.key = r.key, !.eci = r.eci]
                  ELSE FailWith("other")
    BY <1>3 DEF EncryptContent
  <2> HIDE DEF r
  <2> QED BY <1>0, <2>1 DEF EncShape, FailWith
<1>4. CASE MakeRecipientInfo
  <2> DEFINE x == KeyTransRecipientInfo(enc.key, Recipient)
  <2>1. /\ enc.pc = "recipients" /\ Sealing
        /\ \/ enc' = Goto("marshal") \/ enc' = Goto("panic") \/ enc' = Goto("kem1")
           \/ enc' = Append1(x)
    BY <1>4 DEF MakeRecipientInfo
  <2> HIDE DEF x
  <2> QED BY <1>0, <2>1 DEF EncShape, Goto, Append1
<1>5. CASE KEMCheck1 \/ KEMCheck2
  BY <1>0, <1>5 DEF EncShape, KEMCheck1, KEMCheck2, Goto, FailWith
<1>6. CASE KEMRecipient
  <2> DEFINE r == makeKEMRecipientInfo(enc.key, Recipient, "made")
  <2>1. /\ enc.pc = "kem" /\ Sealing
        /\ enc' = IF r.ok THEN [Append1(r.value) EXCEPT !.version = 3] ELSE FailWith("other")
    BY <1>6 DEF KEMRecipient
  <2> HIDE DEF r
  <2> QED BY <1>0, <2>1 DEF EncShape, Append1, FailWith
<1> QED BY <1>1, <1>2, <1>3, <1>4, <1>5, <1>6

LEMMA ChangeEnc ==
  ASSUME EncInv, Change
  PROVE  EncInv'
BY EncFrame DEF Change

LEMMA EnvStep ==
  ASSUME EnvInv, [EnvNext]_envVars
  PROVE  EnvInv'
<1> USE DEF EnvInv
<1>1. CASE SetAlgorithm \/ UNCHANGED envVars
  <2>1. UNCHANGED <<enc, msg, sealed, intact, dec>>
    BY <1>1 DEF SetAlgorithm, envVars
  <2> QED BY <2>1, EncFrame, MessageFrame
<1>2. CASE EncryptCall
  BY <1>2, EncryptCallStep, EncryptingPC, SealingFrame
<1>3. CASE EncryptUsingPSKCall
  BY <1>3, EncryptUsingPSKCallStep, EncryptingPC, SealingFrame
<1>4. CASE EncryptContent
  BY <1>4, EncryptContentStep, EncryptingPC, SealingFrame
<1>5. CASE MakeRecipientInfo
  BY <1>5, MakeRecipientInfoStep, EncryptingPC, SealingFrame
<1>6. CASE KEMCheck1 \/ KEMCheck2
  BY <1>6, KEMCheckStep, EncryptingPC, SealingFrame
<1>7. CASE KEMRecipient
  BY <1>7, KEMRecipientStep, EncryptingPC, SealingFrame
<1>8. CASE Marshal
  BY <1>8, MarshalEncStep, MarshalStep
<1>9. CASE Resegment
  BY <1>9, ResegmentStep, ChangeEnc DEF Resegment
<1>10. CASE AddRecipient
  BY <1>10, AddRecipientStep, ChangeEnc DEF AddRecipient
<1>11. CASE Damage
  BY <1>11, DamageStep, ChangeEnc DEF Damage
<1>12. CASE DecryptCall
  BY <1>12, DecryptCallStep, OpeningFrame DEF DecryptCall
<1>13. CASE JoinSegment
  BY <1>13, JoinSegmentStep, OpeningFrame DEF JoinSegment, DecInv
<1>14. CASE DecryptOpen
  BY <1>14, DecryptOpenStep, OpeningFrame DEF DecryptOpen, DecInv
<1> QED
  BY <1>1, <1>2, <1>3, <1>4, <1>5, <1>6, <1>7, <1>8, <1>9, <1>10, <1>11, <1>12, <1>13, <1>14
  DEF EnvNext, Encrypting

\* The invariant of a message from Encrypt to the reader holds, whatever happens to
\* it in transport.
THEOREM EnvInvariant == EnvSpec => []EnvInv
<1>1. EnvInit => EnvInv
  BY EnvInitInv
<1>2. EnvInv /\ [EnvNext]_envVars => EnvInv'
  BY EnvStep
<1> QED BY <1>1, <1>2, PTL DEF EnvSpec

\* The algorithm a message names is the one its key was made for: encryptAESCBC and
\* encryptAESGCM read the variable once more and label what they make with what they
\* read.
THEOREM LabelMatchesKeyHolds == EnvSpec => []LabelMatchesKey
<1>1. EnvInv => LabelMatchesKey
  BY DEF EnvInv, EncInv, EncryptedPCs, ContentMade, LabelMatchesKey
<1> QED BY <1>1, EnvInvariant, PTL

-----------------------------------------------------------------------------
(***************************************************************************)
(* Without a race.                                                         *)
(***************************************************************************)

\* The functions label the content with the algorithm they are given.
LEMMA EncryptedLabel ==
  ASSUME enc.setting \in ContentAlgorithms, ContentEncryptionAlgorithm = enc.setting,
         EncryptedContent.ok
  PROVE  EncryptedContent.eci.alg = enc.setting
<1> DEFINE r == EncryptedContent
           alg == enc.setting
<1>1. ASSUME NEW key, NEW cipher, NEW params, NEW bytes, r = Encrypted(key, cipher, ECI(alg, params, bytes))
      PROVE  r.eci.alg = alg
  <2> DEFINE e == ECI(alg, params, bytes)
  <2>1. e.alg = alg
    BY DEF ECI
  <2> HIDE DEF e
  <2>2. r.ok /\ r = Encrypted(key, cipher, e)
    BY <1>1 DEF e
  <2> HIDE DEF r
  <2>3. r.eci = e
    BY <2>2 DEF Encrypted, Failed
  <2> QED BY <2>1, <2>3
<1>2. ASSUME r = encryptCBC(alg, enc.content, enc.key, "made")
      PROVE  r.eci.alg = alg
  <2> HIDE DEF r
  <2> QED BY <1>1, <1>2, Zenon DEF encryptCBC
<1>3. CASE alg = "DESCBC"
  <2>1. r = encryptCBC(alg, enc.content, enc.key, "made")
    BY <1>3 DEF EncryptedContent, EncryptedFor, encryptDESCBC, CBCAlgorithms
  <2> QED BY <1>2, <2>1
<1>4. CASE alg # "DESCBC" /\ alg \in CBCAlgorithms
  <2>1. r = encryptCBC(alg, enc.content, enc.key, "made")
    BY <1>4 DEF EncryptedContent, EncryptedFor, encryptAESCBC
  <2> QED BY <1>2, <2>1
<1>5. CASE alg # "DESCBC" /\ alg \notin CBCAlgorithms
  <2>1. r = encryptAESGCM(alg, enc.content, enc.key, "made") /\ alg \in GCMAlgorithms
    BY <1>5 DEF EncryptedContent, EncryptedFor, ContentAlgorithms
  <2> DEFINE k == IF enc.key = NoKey THEN [id |-> "made", len |-> KeyLen[alg]] ELSE enc.key
             nonce == [id |-> "made", len |-> nonceSize]
             params == [form |-> "gcm", iv |-> nonce, icv |-> Overhead]
             bytes == GCMSeal(k, nonce, enc.content)
  <2> HIDE DEF r
  <2>2. r = Encrypted(k, "AES", ECI(alg, params, bytes))
    BY <2>1 DEF encryptAESGCM
  <2> HIDE DEF k, params, bytes
  <2>3. r.eci.alg = alg
    BY <1>1, <2>2
  <2> QED BY <2>3 DEF r
<1> QED BY <1>3, <1>4, <1>5

LEMMA RaceStep ==
  ASSUME Racing = FALSE, EnvInv, RaceInv, [EnvNext]_envVars
  PROVE  RaceInv'
<1> DEFINE cea == ContentEncryptionAlgorithm
<1>0. EncInv /\ EncShape
  BY DEF EnvInv, EncInv
<1>1. CASE enc' = enc
  <2>1. cea' = cea \/ enc.pc \in {"idle", "returned", "failed", "panic"}
    <3>1. CASE SetAlgorithm
      BY <3>1 DEF SetAlgorithm
    <3>2. CASE ~SetAlgorithm
      BY <3>2 DEF EnvNext, Encrypting, envVars, EncryptCall, EncryptUsingPSKCall, EncryptContent,
           MakeRecipientInfo, KEMCheck1, KEMCheck2, KEMRecipient, Marshal, Sealing, EncryptStep,
           Resegment, AddRecipient, Damage, Change, DecryptCall, JoinSegment, DecryptOpen, Opening
    <3> QED BY <3>1, <3>2
  <2> QED BY <1>1, <2>1 DEF RaceInv, EncryptedPCs
<1>2. CASE EncryptCall \/ EncryptUsingPSKCall
  <2>1. /\ enc.pc = "idle" /\ cea' = cea
        /\ \/ enc'.pc = "failed"
           \/ enc'.pc = "content" /\ enc'.setting = cea
    BY <1>0, <1>2 DEF EncryptCall, EncryptUsingPSKCall, EncShape, FailWith, Sealing, EncryptStep
  <2> QED BY <2>1 DEF RaceInv, EncryptedPCs
<1>3. CASE EncryptContent
  <2> DEFINE r == EncryptedContent
             next == IF enc.type = "enveloped" THEN "recipients" ELSE "marshal"
  <2>1. /\ enc.pc = "content" /\ cea' = cea
        /\ enc' = IF r.ok THEN [enc EXCEPT !.pc = next, !.key = r.key, !.eci = r.eci]
                  ELSE FailWith("other")
    BY <1>3 DEF EncryptContent, Sealing, EncryptStep
  <2>2. enc.setting \in ContentAlgorithms /\ enc.infos = <<>> /\ cea = enc.setting
    BY <1>0, <2>1 DEF EncInv, RaceInv
  <2>3. r.ok => r.eci.alg = enc.setting
    BY <2>2, EncryptedLabel
  <2> HIDE DEF r
  <2>4. CASE r.ok
    <3>1. /\ enc'.pc = next /\ enc'.setting = enc.setting /\ enc'.infos = <<>>
          /\ enc'.eci = r.eci
      BY <1>0, <2>1, <2>2, <2>4 DEF EncShape
    <3>2. enc'.pc \in {"recipients", "marshal"} /\ 1 .. Len(enc'.infos) = {}
      BY <3>1
    <3> QED BY <2>1, <2>2, <2>3, <2>4, <3>1, <3>2 DEF RaceInv
  <2>5. CASE ~r.ok
    BY <1>0, <2>1, <2>5 DEF EncShape, FailWith, RaceInv, EncryptedPCs
  <2> QED BY <2>4, <2>5
<1>4. ASSUME NEW x, enc' = Goto(x), enc.pc \in EncryptedPCs, cea' = cea,
             enc.pc = "returned" => x = "returned",
             x = "kem" => enc.setting \in CBCAlgorithms
      PROVE  RaceInv'
  <2>1. /\ enc'.pc = x /\ enc'.setting = enc.setting /\ enc'.infos = enc.infos
        /\ enc'.recipients = enc.recipients /\ enc'.eci = enc.eci
    BY <1>0, <1>4 DEF EncShape, Goto
  <2> QED BY <1>4, <2>1 DEF RaceInv
<1>5. ASSUME NEW e, enc' = FailWith(e) \/ enc' = Goto("panic")
      PROVE  RaceInv'
  <2>1. enc'.pc \in {"failed", "panic"}
    BY <1>0, <1>5 DEF EncShape, FailWith, Goto
  <2> QED BY <2>1 DEF RaceInv, EncryptedPCs
<1>6. ASSUME NEW info, NEW v, enc' = [Append1(info) EXCEPT !.version = v], cea' = cea,
             enc.pc \in {"recipients", "kem"},
             Recipient.pub.kind # "RSA" => enc.setting \in CBCAlgorithms
      PROVE  RaceInv'
  <2>1. enc.infos \in Seq(OwnInfos(enc.key, enc.recipients))
    BY <1>0, <1>6 DEF EncInv, EncryptedPCs, InfosMade
  <2> DEFINE s == Append(enc.infos, info)
             n == Len(enc.infos)
  <2>2. Len(s) = n + 1 /\ n \in Nat
    BY <2>1, AppendProperties, LenProperties
  <2>3. /\ enc'.pc = "recipients" /\ enc'.setting = enc.setting /\ enc'.infos = s
        /\ enc'.recipients = enc.recipients /\ enc'.eci = enc.eci
    <3> HIDE DEF s
    <3>1. enc' = [[enc EXCEPT !.pc = "recipients", !.infos = s] EXCEPT !.version = v]
      BY <1>6 DEF Append1, s
    <3> QED BY <1>0, <3>1 DEF EncShape
  <2>4. cea = enc.setting /\ enc.eci.alg = enc.setting
    BY <1>6 DEF RaceInv, EncryptedPCs
  <2>5. ASSUME NEW k \in 1 .. n + 1, enc.recipients[k].pub.kind # "RSA"
        PROVE  enc.setting \in CBCAlgorithms
    <3>1. CASE k = n + 1
      BY <1>6, <2>5, <3>1 DEF Recipient
    <3>2. CASE k \in 1 .. n
      BY <1>6, <2>5, <3>2 DEF RaceInv, EncryptedPCs
    <3> QED BY <2>2, <3>1, <3>2
  <2> HIDE DEF n, s
  <2> QED BY <1>6, <2>2, <2>3, <2>4, <2>5 DEF RaceInv
<1>7. CASE MakeRecipientInfo
  <2> DEFINE x == KeyTransRecipientInfo(enc.key, Recipient)
  <2>1. /\ enc.pc = "recipients" /\ cea' = cea /\ enc.pc \in EncryptedPCs
        /\ \/ enc' = Goto("marshal") \/ enc' = Goto("panic") \/ enc' = Goto("kem1")
           \/ Recipient.pub.kind = "RSA" /\ enc' = Append1(x)
    BY <1>7 DEF MakeRecipientInfo, Sealing, EncryptStep, EncryptedPCs
  <2> HIDE DEF x
  <2>2. enc' = Append1(x) => enc' = [Append1(x) EXCEPT !.version = enc.version]
    BY <1>0 DEF EncShape, Append1
  <2>3. ASSUME Recipient.pub.kind = "RSA", enc' = Append1(x) PROVE RaceInv'
    BY <1>6, <2>1, <2>2, <2>3
  <2>4. ASSUME NEW y \in {"marshal", "kem1"}, enc' = Goto(y) PROVE RaceInv'
    BY <1>4, <2>1, <2>4
  <2> QED BY <1>5, <2>1, <2>3, <2>4
<1>8. CASE KEMCheck1 \/ KEMCheck2
  <2>1. /\ enc.pc \in EncryptedPCs \ {"returned"} /\ cea' = cea
        /\ \/ enc' = Goto("kem") /\ cea \in CBCAlgorithms
           \/ enc' = Goto("kem2") \/ enc' = FailWith("other")
    BY <1>8 DEF KEMCheck1, KEMCheck2, Sealing, EncryptStep, EncryptedPCs, CBCAlgorithms
  <2>2. cea = enc.setting
    BY <2>1 DEF RaceInv
  <2> QED BY <1>4, <1>5, <2>1, <2>2
<1>9. CASE KEMRecipient
  <2> DEFINE r == makeKEMRecipientInfo(enc.key, Recipient, "made")
  <2>1. /\ enc.pc = "kem" /\ cea' = cea
        /\ enc' = IF r.ok THEN [Append1(r.value) EXCEPT !.version = 3] ELSE FailWith("other")
    BY <1>9 DEF KEMRecipient, Sealing, EncryptStep
  <2>2. enc.setting \in CBCAlgorithms
    BY <2>1 DEF RaceInv
  <2> HIDE DEF r
  <2> QED BY <1>5, <1>6, <2>1, <2>2
<1>10. CASE Marshal
  <2>1. enc.pc = "marshal" /\ enc' = Goto("returned") /\ cea' = cea /\ enc.pc \in EncryptedPCs
    BY <1>10 DEF Marshal, EncryptStep, EncryptedPCs
  <2> QED BY <1>4, <2>1
<1>11. enc' = enc \/ EncryptCall \/ EncryptUsingPSKCall \/ EncryptContent \/ MakeRecipientInfo
         \/ KEMCheck1 \/ KEMCheck2 \/ KEMRecipient \/ Marshal
  BY DEF EnvNext, Encrypting, envVars, SetAlgorithm, Resegment, AddRecipient, Damage, Change,
         DecryptCall, JoinSegment, DecryptOpen, Opening
<1> QED BY <1>1, <1>2, <1>3, <1>7, <1>8, <1>9, <1>10, <1>11

LEMMA RaceFree ==
  ASSUME EnvInv, RaceInv
  PROVE  KEMAcceptable
<1> SUFFICES ASSUME msg.type = "enveloped", intact, NEW k \in 1 .. Len(sealed.recipients),
                    sealed.recipients[k].pub.kind # "RSA"
             PROVE  msg.version = 3 /\ msg.eci.alg \in CBCAlgorithms
  BY DEF KEMAcceptable
<1>1. EncInv /\ MsgInv
  BY DEF EnvInv
<1>2. enc.pc = "returned"
  BY <1>1 DEF MsgInv, NoMessage
<1>3. ECIInv /\ sealed.recipients = enc.recipients
  BY <1>1, <1>2 DEF MsgInv
<1>4. msg.version = enc.version
  <2> DEFINE e == msg.eci
             i == msg.infos
  <2>1. msg = [type |-> enc.type, version |-> enc.version, infos |-> i, eci |-> e]
    BY <1>1, <1>2 DEF MsgInv
  <2> HIDE DEF e, i
  <2> QED BY <2>1
<1>5. InfosMade /\ Len(enc.infos) = Len(enc.recipients)
  BY <1>1, <1>2 DEF EncInv, EncryptedPCs
<1>6. k \in 1 .. Len(enc.infos) /\ enc.recipients[k].pub.kind # "RSA"
  BY <1>3, <1>5
<1>7. enc.version = 3
  BY <1>5, <1>6 DEF InfosMade
<1>8. enc.setting \in CBCAlgorithms /\ enc.eci.alg = enc.setting
  BY <1>2, <1>6 DEF RaceInv, EncryptedPCs
<1>9. msg.eci.alg = enc.eci.alg
  BY <1>3 DEF ECIInv
<1> QED BY <1>4, <1>7, <1>8, <1>9

\* Unless another goroutine sets the variable while Encrypt runs, makeKEMRecipientInfo
\* gives a key to a KEM recipient only in messages that a KEM reader accepts.
THEOREM KEMAcceptableHolds ==
  ASSUME Racing = FALSE
  PROVE  EnvSpec => []KEMAcceptable
<1>1. EnvInit => RaceInv
  BY DEF EnvInit, NoEncrypt, RaceInv, EncryptedPCs
<1>2. EnvInv /\ RaceInv /\ [EnvNext]_envVars => RaceInv'
  BY RaceStep
<1>3. EnvInv /\ RaceInv => KEMAcceptable
  BY RaceFree
<1> QED BY <1>1, <1>2, <1>3, EnvInvariant, PTL DEF EnvSpec

-----------------------------------------------------------------------------
(***************************************************************************)
(* Messages implement sealed boxes.                                        *)
(***************************************************************************)

BoxReaders == IF intact THEN {r \in Readers : Served(r)} ELSE {}
BoxState == IF dec.pc = "done" THEN "opened" ELSE IF msg = NoMessage THEN "empty" ELSE "sealed"
BoxAuthenticated == msg # NoMessage /\ msg.eci.alg \in GCMAlgorithms
BoxOpener == IF dec.pc = "done" THEN dec.reader ELSE NoReader

LEMMA BoxReadersHold == BoxReaders \subseteq Holders /\ Holders \subseteq Readers
BY DEF BoxReaders, Served, Holders

LEMMA BoxInitial ==
  ASSUME EnvInit
  PROVE  Box!BoxInit
<1>1. /\ dec.pc = "idle" /\ dec.result = Invalid /\ msg = NoMessage /\ intact = TRUE
      /\ sealed.content = <<>>
  BY DEF EnvInit, NoDecrypt
<1>2. Holders = {}
  BY <1>1 DEF Holders, NoMessage
<1>3. BoxReaders = {}
  BY <1>2, BoxReadersHold
<1> QED BY <1>1, <1>2, <1>3 DEF Box!BoxInit, Box!NoResult, Invalid, BoxReaders

\* Steps before the message is returned, and those of a reader that has not ended.
LEMMA BoxStutters ==
  ASSUME UNCHANGED <<msg, sealed, intact>>, dec.pc # "done", dec'.pc # "done",
         dec'.result = dec.result
  PROVE  UNCHANGED Box!boxVars
<1>1. Holders' = Holders
  BY DEF Holders
<1>2. BoxReaders' = BoxReaders
  BY <1>1 DEF BoxReaders, Served
<1>3. BoxState' = BoxState /\ BoxAuthenticated' = BoxAuthenticated /\ BoxOpener' = BoxOpener
  BY DEF BoxState, BoxAuthenticated, BoxOpener
<1> QED BY <1>1, <1>2, <1>3 DEF Box!boxVars, BoxReaders, BoxState, BoxAuthenticated, BoxOpener

LEMMA BoxFrame ==
  ASSUME UNCHANGED <<msg, sealed, intact, dec>>
  PROVE  UNCHANGED Box!boxVars
<1>1. Holders' = Holders
  BY DEF Holders
<1>2. BoxReaders' = BoxReaders
  BY <1>1 DEF BoxReaders, Served
<1>3. BoxState' = BoxState /\ BoxAuthenticated' = BoxAuthenticated /\ BoxOpener' = BoxOpener
  BY DEF BoxState, BoxAuthenticated, BoxOpener
<1> QED BY <1>1, <1>2, <1>3 DEF Box!boxVars, BoxReaders, BoxState, BoxAuthenticated, BoxOpener

LEMMA BoxSealed ==
  ASSUME EnvInv, Marshal
  PROVE  Box!Seal
<1>1. PICK infos :
        /\ enc.pc = "marshal" /\ intact' = intact /\ dec' = dec
        /\ msg' = [type |-> enc.type, version |-> enc.version, infos |-> infos, eci |-> enc.eci]
        /\ sealed' = [content |-> enc.content, key |-> enc.key, recipients |-> enc.recipients]
  BY DEF Marshal, EncryptStep
<1>2. Prepared /\ msg = NoMessage /\ dec = NoDecrypt
  BY <1>1 DEF EnvInv, EncInv, MsgInv, EncryptedPCs
<1>3. dec.pc = "idle"
  BY <1>2 DEF NoDecrypt
<1>4. msg' # NoMessage
  <2>1. msg'.type = enc.type
    BY <1>1
  <2> QED BY <1>2, <2>1 DEF Prepared, NoMessage
<1>5. sealed'.content \in Seq(0 .. 255)
  <2>1. sealed'.content = enc.content
    BY <1>1
  <2> QED BY <1>2, <2>1 DEF Prepared, Byte
<1>6. BoxReaders' \subseteq Holders' /\ Holders' \subseteq Readers
  BY DEF BoxReaders, Served, Holders
<1>7. BoxAuthenticated' \in BOOLEAN
  BY DEF BoxAuthenticated
<1>8. BoxState = "empty" /\ BoxState' = "sealed" /\ BoxOpener' = BoxOpener
  BY <1>1, <1>2, <1>3, <1>4 DEF BoxState, BoxOpener
<1> QED BY <1>1, <1>5, <1>6, <1>7, <1>8
    DEF Box!Seal, BoxReaders, BoxState, BoxAuthenticated, BoxOpener

\* What transport leaves alone.
LEMMA BoxTravels ==
  ASSUME EnvInv, EnvInv', Change
  PROVE  /\ BoxState = "sealed" /\ BoxState' = "sealed" /\ Holders' = Holders
         /\ sealed' = sealed /\ BoxOpener' = BoxOpener /\ dec' = dec
<1>1. /\ enc.pc = "returned" /\ dec.pc = "idle" /\ enc' = enc /\ sealed' = sealed /\ dec' = dec
  BY DEF Change, Travelling
<1>2. msg.type = enc.type /\ enc.type \in {"enveloped", "encrypted"} /\ msg # NoMessage
  BY <1>1, Returned DEF EnvInv, MsgInv, Prepared, NoMessage
<1>3. msg'.type = enc.type /\ msg' # NoMessage
  BY <1>1, <1>2 DEF EnvInv, MsgInv, NoMessage
<1> QED BY <1>1, <1>2, <1>3 DEF BoxState, BoxOpener, Holders

LEMMA BoxResegmented ==
  ASSUME EnvInv, EnvInv', Resegment
  PROVE  Box!Obstruct
<1>1. Change /\ intact' = intact
  BY DEF Resegment
<1>2. /\ BoxState = "sealed" /\ BoxState' = "sealed" /\ Holders' = Holders
      /\ sealed' = sealed /\ BoxOpener' = BoxOpener /\ dec' = dec
  BY <1>1, BoxTravels
<1>3. msg'.infos = msg.infos /\ msg'.eci.alg = msg.eci.alg
  <2>0. enc.pc = "returned"
    BY <1>1 DEF Change, Travelling
  <2> DEFINE m == msg
             e == msg.eci
             i == msg.infos
             g == e.segments
  <2>1. m = [type |-> enc.type, version |-> enc.version, infos |-> i, eci |-> e]
    BY <2>0 DEF EnvInv, MsgInv
  <2>2. e = [alg |-> e.alg, params |-> e.params, compound |-> e.compound, segments |-> g]
    BY <2>0, Returned DEF EnvInv, ECIInv
  <2>3. \E f : f.alg = e.alg /\ msg' = [m EXCEPT !.eci = f]
    <3>1. CASE msg' = [msg EXCEPT !.eci.compound = FALSE]
      <4> DEFINE f == [e EXCEPT !.compound = FALSE]
      <4>1. msg' = [m EXCEPT !.eci = f]
        BY <3>1
      <4>2. f.alg = e.alg
        <5> HIDE DEF e
        <5> QED BY <2>2
      <4> HIDE DEF f
      <4> QED BY <4>1, <4>2
    <3>2. CASE msg' # [msg EXCEPT !.eci.compound = FALSE]
      <4>1. PICK h : msg' = [msg EXCEPT !.eci.compound = TRUE, !.eci.segments = h]
        BY <3>2 DEF Resegment
      <4> DEFINE f == [e EXCEPT !.compound = TRUE, !.segments = h]
      <4>2. msg' = [m EXCEPT !.eci = f]
        BY <4>1
      <4>3. f.alg = e.alg
        <5> HIDE DEF e
        <5> QED BY <2>2
      <4> HIDE DEF f
      <4> QED BY <4>2, <4>3
    <3> QED BY <3>1, <3>2
  <2>4. PICK f : f.alg = e.alg /\ msg' = [m EXCEPT !.eci = f]
    BY <2>3
  <2>7. msg'.eci = f /\ msg'.infos = i
    <3> HIDE DEF m, i, e
    <3> QED BY <2>1, <2>4
  <2> QED BY <2>4, <2>7
<1>4. BoxReaders' = BoxReaders
  BY <1>1, <1>2, <1>3 DEF BoxReaders, Served
<1>5. BoxAuthenticated' = BoxAuthenticated
  BY <1>2, <1>3 DEF BoxAuthenticated, BoxState
<1> QED BY <1>1, <1>2, <1>4, <1>5
    DEF Box!Obstruct, BoxReaders, BoxState, BoxAuthenticated, BoxOpener

\* A RecipientInfo of another implementation, wherever it is put, serves nobody who was
\* not served before.
LEMMA InsertObstructs ==
  ASSUME NEW S, NEW s \in Seq(S), NEW x \in S, NEW at \in 0 .. Len(s), NEW r,
         ~MadeFor(x, r.priv),
         \A k \in 1 .. Len(s) + 1 :
           Decides(Insert(s, at, x)[k], r) /\ (\A l \in 1 .. k - 1 : ~Decides(Insert(s, at, x)[l], r))
             => MadeFor(Insert(s, at, x)[k], r.priv),
         NEW k \in 1 .. Len(s), Decides(s[k], r), \A l \in 1 .. k - 1 : ~Decides(s[l], r)
  PROVE  MadeFor(s[k], r.priv)
<1> DEFINE t == Insert(s, at, x)
           n == Len(s)
           j == IF k <= at THEN k ELSE k + 1
<1>0. n \in Nat
  BY LenProperties
<1>1. \A i \in 1 .. n + 1 : t[i] = IF i <= at THEN s[i] ELSE IF i = at + 1 THEN x ELSE s[i - 1]
  BY Inserted
<1>2. /\ \A i \in 1 .. n + 1 : Decides(t[i], r) /\ (\A l \in 1 .. i - 1 : ~Decides(t[l], r))
                                 => MadeFor(t[i], r.priv)
      /\ k \in 1 .. n /\ at \in 0 .. n
  OBVIOUS
<1> HIDE DEF t, n
<1>3. j \in 1 .. n + 1 /\ t[j] = s[k]
  BY <1>0, <1>1, <1>2
<1>4. ASSUME NEW l \in 1 .. j - 1, Decides(t[l], r) PROVE FALSE
  <2>1. CASE l <= at
    <3>1. t[l] = s[l] /\ l \in 1 .. k - 1
      BY <1>0, <1>1, <1>2, <1>3, <2>1
    <3> QED BY <1>4, <3>1
  <2>2. CASE l = at + 1
    <3>1. l \in 1 .. n + 1 /\ t[l] = x /\ at < k
      BY <1>0, <1>1, <1>2, <1>3, <2>2
    <3>2. \A i \in 1 .. l - 1 : ~Decides(t[i], r)
      <4> SUFFICES ASSUME NEW i \in 1 .. l - 1 PROVE ~Decides(t[i], r)
        OBVIOUS
      <4>1. t[i] = s[i] /\ i \in 1 .. k - 1
        BY <1>0, <1>1, <1>2, <2>2, <3>1
      <4> QED BY <4>1
    <3>3. MadeFor(t[l], r.priv)
      BY <1>2, <1>4, <3>1, <3>2
    <3> QED BY <3>1, <3>3
  <2>3. CASE l > at + 1
    <3>1. t[l] = s[l - 1] /\ l - 1 \in 1 .. k - 1
      BY <1>0, <1>1, <1>2, <1>3, <2>3
    <3> QED BY <1>4, <3>1
  <2> QED BY <1>2, <1>3, <2>1, <2>2, <2>3
<1>5. Decides(t[j], r) /\ \A l \in 1 .. j - 1 : ~Decides(t[l], r)
  BY <1>3, <1>4
<1> HIDE DEF j
<1>6. MadeFor(t[j], r.priv)
  BY <1>2, <1>3, <1>5
<1> QED BY <1>3, <1>6

LEMMA BoxObstructed ==
  ASSUME EnvInv, EnvInv', AddRecipient
  PROVE  Box!Obstruct
<1>1. Change /\ intact' = intact
  BY DEF AddRecipient
<1>2. /\ BoxState = "sealed" /\ BoxState' = "sealed" /\ Holders' = Holders
      /\ sealed' = sealed /\ BoxOpener' = BoxOpener /\ dec' = dec
  BY <1>1, BoxTravels
<1> DEFINE s == msg.infos
           S == OwnInfos(enc.key, enc.recipients) \cup ForeignInfos
<1>3. PICK x \in ForeignInfos, at \in 0 .. Len(s) :
        msg' = [msg EXCEPT !.infos = SubSeq(@, 1, at) \o <<x>> \o SubSeq(@, at + 1, Len(@))]
  BY DEF AddRecipient
<1> DEFINE t == Insert(s, at, x)
<1>4. enc.pc = "returned" /\ msg.type = "enveloped"
  BY <1>1 DEF Change, Travelling, AddRecipient
<1>5. s \in Seq(S) /\ x \in S
  BY <1>4, Returned DEF EnvInv
<1>6. msg'.infos = t /\ msg'.eci = msg.eci
  <2> DEFINE m == msg
             e == msg.eci
  <2>1. m = [type |-> enc.type, version |-> enc.version, infos |-> s, eci |-> e]
    BY <1>4 DEF EnvInv, MsgInv
  <2>2. msg' = [m EXCEPT !.infos = t]
    BY <1>3 DEF Insert
  <2> HIDE DEF m, s, e, t
  <2>3. msg'.infos = t /\ msg'.eci = e
    BY <2>1, <2>2
  <2> QED BY <2>3 DEF e
<1>7. Len(t) = Len(s) + 1
  BY <1>5, Inserted
<1>8. ASSUME NEW r \in Readers, Served(r)' PROVE Served(r)
  <2>1. r \in Holders /\ r.by = "cert"
    BY <1>2, <1>4, <1>8 DEF Served, Holders
  <2>2. /\ \E k \in 1 .. Len(sealed.recipients) : r.cert = sealed.recipients[k]
        /\ r.priv = PrivateKeyOf(r.cert)
        /\ r.priv.kind # "RSA" => msg.eci.alg \in CBCAlgorithms
        /\ \A k \in 1 .. Len(s) + 1 : Decides(t[k], r) /\ (\A l \in 1 .. k - 1 : ~Decides(t[l], r))
                                        => MadeFor(t[k], r.priv)
    <3> HIDE DEF t
    <3> QED BY <1>2, <1>6, <1>7, <1>8, <2>1 DEF Served
  <2>3. ~MadeFor(x, r.priv)
    BY <2>1, ForeignAssumption
  <2>4. ASSUME NEW k \in 1 .. Len(s), Decides(s[k], r), \A l \in 1 .. k - 1 : ~Decides(s[l], r)
        PROVE  MadeFor(s[k], r.priv)
    BY <1>5, <2>2, <2>3, <2>4, InsertObstructs
  <2> HIDE DEF s, t
  <2> QED BY <2>1, <2>2, <2>4 DEF Served, s
<1>9. BoxReaders' \subseteq BoxReaders
  BY <1>1, <1>8 DEF BoxReaders
<1>10. BoxAuthenticated' = BoxAuthenticated
  BY <1>2, <1>6 DEF BoxAuthenticated, BoxState
<1> QED BY <1>1, <1>2, <1>9, <1>10
    DEF Box!Obstruct, BoxReaders, BoxState, BoxAuthenticated, BoxOpener

LEMMA BoxDamaged ==
  ASSUME EnvInv, EnvInv', Damage
  PROVE  Box!Damage
<1>1. Change /\ intact' = FALSE
  BY DEF Damage
<1>2. /\ BoxState = "sealed" /\ BoxState' = "sealed" /\ Holders' = Holders
      /\ sealed' = sealed /\ BoxOpener' = BoxOpener /\ dec' = dec
  BY <1>1, BoxTravels
<1>3. BoxReaders' = {} /\ BoxAuthenticated' \in BOOLEAN
  BY <1>1 DEF BoxReaders, BoxAuthenticated
<1> QED BY <1>1, <1>2, <1>3
    DEF Box!Damage, BoxReaders, BoxState, BoxAuthenticated, BoxOpener

LEMMA BoxRefused ==
  ASSUME EnvInv, DecryptCall
  PROVE  UNCHANGED Box!boxVars \/ \E r \in Readers : Box!Open(r)
<1> DEFINE g == msg.eci.segments
           c == msg.eci.compound
<1>1. PICK r \in Readers :
        dec' = IF ~ContentKey(r).ok \/ msg.eci.alg \notin Decryptable
               THEN [Give(Invalid) EXCEPT !.reader = r]
               ELSE [dec EXCEPT !.reader = r, !.key = ContentKey(r).value,
                                !.pc = IF c THEN "join" ELSE "open",
                                !.rest = IF c THEN g ELSE <<>>,
                                !.buf = IF c THEN <<>> ELSE Ciphertext]
  BY DEF DecryptCall
<1>2. enc.pc = "returned" /\ dec.pc = "idle" /\ UNCHANGED <<enc, msg, sealed, intact>>
  BY DEF DecryptCall, Opening
<1>3. dec = [pc |-> dec.pc, reader |-> dec.reader, key |-> dec.key, rest |-> dec.rest,
             buf |-> dec.buf, result |-> dec.result]
  BY DEF EnvInv, DecInv
<1>4. CASE ~ContentKey(r).ok \/ msg.eci.alg \notin Decryptable
  <2>1. dec' = [[dec EXCEPT !.pc = "done", !.result = Invalid] EXCEPT !.reader = r]
    BY <1>1, <1>4 DEF Give
  <2>2. dec'.pc = "done" /\ dec'.reader = r /\ dec'.result = Invalid
    BY <1>3, <2>1
  <2>3. r \notin BoxReaders
    BY <1>2, <1>4, ServedGetsKey DEF EnvInv, BoxReaders
  <2>4. BoxState = "sealed"
    <3>1. msg # NoMessage
      BY <1>2, Returned DEF EnvInv, Prepared, NoMessage
    <3> QED BY <1>2, <3>1 DEF BoxState
  <2>5. BoxState' = "opened" /\ BoxOpener' = r
    BY <2>2 DEF BoxState, BoxOpener
  <2>6. Holders' = Holders
    BY <1>2 DEF Holders
  <2>7. BoxReaders' = BoxReaders /\ BoxAuthenticated' = BoxAuthenticated
    BY <1>2, <2>6 DEF BoxReaders, Served, BoxAuthenticated
  <2>8. Box!MayGet(r, dec'.result)
    BY <2>2, <2>3 DEF Box!MayGet, Box!NoResult, Invalid, BoxReaders
  <2>9. Box!Open(r)
    BY <1>2, <2>4, <2>5, <2>6, <2>7, <2>8
    DEF Box!Open, BoxReaders, BoxState, BoxAuthenticated, BoxOpener
  <2> QED BY <2>9
<1>5. CASE ContentKey(r).ok /\ msg.eci.alg \in Decryptable
  <2>1. dec' = [dec EXCEPT !.reader = r, !.key = ContentKey(r).value,
                           !.pc = IF c THEN "join" ELSE "open",
                           !.rest = IF c THEN g ELSE <<>>,
                           !.buf = IF c THEN <<>> ELSE Ciphertext]
    BY <1>1, <1>5
  <2>2. dec'.pc = (IF c THEN "join" ELSE "open") /\ dec'.result = dec.result
    BY <1>3, <2>1
  <2>3. UNCHANGED Box!boxVars
    BY <1>2, <2>2, BoxStutters
  <2> QED BY <2>3
<1> QED BY <1>4, <1>5

LEMMA BoxJoins ==
  ASSUME EnvInv, JoinSegment
  PROVE  UNCHANGED Box!boxVars
<1> DEFINE rest == Rest(dec.rest).segments
           p == IF Rest(dec.rest).nil THEN "open" ELSE "join"
           buf == IF dec.rest # <<>> /\ Head(dec.rest).ok THEN dec.buf \o Head(dec.rest).bytes ELSE dec.buf
<1>1. /\ dec.pc = "join" /\ UNCHANGED <<msg, sealed, intact>>
      /\ dec' = [dec EXCEPT !.rest = rest, !.pc = p, !.buf = buf]
  BY DEF JoinSegment, Opening
<1>2. p \in {"open", "join"}
  OBVIOUS
<1>3. dec = [pc |-> dec.pc, reader |-> dec.reader, key |-> dec.key, rest |-> dec.rest,
             buf |-> dec.buf, result |-> dec.result]
  BY DEF EnvInv, DecInv
<1> HIDE DEF rest, p, buf
<1>4. dec'.pc = p /\ dec'.result = dec.result
  BY <1>1, <1>3
<1> QED BY <1>1, <1>2, <1>4, BoxStutters

LEMMA BoxOpened ==
  ASSUME EnvInv, DecryptOpen
  PROVE  \E r \in Readers : Box!Open(r)
<1> DEFINE r == dec.reader
<1>1. PICK x \in decrypt(msg.eci, dec.key, dec.buf) : dec' = [dec EXCEPT !.pc = "done", !.result = x]
  BY DEF DecryptOpen, Give
<1>2. dec.pc = "open" /\ UNCHANGED <<enc, msg, sealed, intact>>
  BY DEF DecryptOpen, Opening
<1>3. /\ dec = [pc |-> dec.pc, reader |-> dec.reader, key |-> dec.key, rest |-> dec.rest,
                buf |-> dec.buf, result |-> dec.result]
      /\ enc.pc = "returned" /\ r \in Readers /\ dec.buf \in Seq(Symbols)
      /\ dec.key = sealed.key <=> r \in Holders
      /\ intact => dec.buf = Made
  BY <1>2 DEF EnvInv, DecInv
<1>4. dec'.pc = "done" /\ dec'.reader = r /\ dec'.result = x
  BY <1>1, <1>3
<1>5. /\ Prepared /\ ContentMade /\ ECIInv /\ sealed.content = enc.content /\ sealed.key = enc.key
      /\ msg.type = enc.type
  BY <1>3, Returned DEF EnvInv
<1>6. msg # NoMessage
  BY <1>5 DEF Prepared, NoMessage
<1>7. /\ x = Invalid \/ (x.ok /\ x.bytes \in Seq(Byte))
      /\ msg.eci.alg \in GCMAlgorithms /\ x # Invalid => dec.key = enc.key /\ x = Bytes(enc.content)
  BY <1>1, <1>3, <1>5, DecryptResult
<1>8. intact /\ r \in Holders => x = Bytes(enc.content)
  <2> SUFFICES ASSUME intact, r \in Holders PROVE x = Bytes(enc.content)
    OBVIOUS
  <2>1. msg.eci.alg = enc.eci.alg /\ msg.eci.params = enc.eci.params
    BY <1>5 DEF ECIInv
  <2>2. x \in decrypt(msg.eci, enc.key, Made)
    BY <1>1, <1>3, <1>5
  <2> QED BY <1>5, <2>1, <2>2, DecryptIntact
<1>9. Box!MayGet(r, x)
  <2>1. CASE x = Bytes(enc.content) /\ r \in Holders
    BY <1>5, <2>1 DEF Box!MayGet, Bytes
  <2>2. CASE x = Invalid /\ ~(intact /\ r \in Holders)
    <3>1. r \notin BoxReaders
      BY <2>2, BoxReadersHold DEF BoxReaders
    <3> QED BY <2>2, <3>1 DEF Box!MayGet, Box!NoResult, Invalid, BoxReaders
  <2>3. CASE x # Invalid /\ ~(intact /\ r \in Holders)
    <3>1. CASE msg.eci.alg \in GCMAlgorithms
      BY <1>3, <1>5, <1>7, <2>1, <2>3, <3>1
    <3>2. CASE msg.eci.alg \notin GCMAlgorithms
      BY <1>7, <2>3, <3>2 DEF Box!MayGet, Byte
    <3> QED BY <3>1, <3>2
  <2> QED BY <1>8, <2>1, <2>2, <2>3
<1>10. BoxState = "sealed" /\ BoxState' = "opened" /\ BoxOpener' = r
  BY <1>2, <1>4, <1>6 DEF BoxState, BoxOpener
<1>11. Holders' = Holders
  BY <1>2 DEF Holders
<1>12. BoxReaders' = BoxReaders /\ BoxAuthenticated' = BoxAuthenticated
  BY <1>2, <1>11 DEF BoxReaders, Served, BoxAuthenticated
<1>13. Box!Open(r)
  BY <1>2, <1>4, <1>9, <1>10, <1>11, <1>12
  DEF Box!Open, BoxReaders, BoxState, BoxAuthenticated, BoxOpener
<1> QED BY <1>3, <1>13

LEMMA BoxStep ==
  ASSUME EnvInv, EnvInv', [EnvNext]_envVars
  PROVE  [Box!BoxNext]_Box!boxVars
<1>1. CASE SetAlgorithm \/ UNCHANGED envVars
  BY <1>1, BoxFrame DEF SetAlgorithm, envVars
<1>2. CASE EncryptCall \/ EncryptUsingPSKCall \/ EncryptContent \/ MakeRecipientInfo
             \/ KEMCheck1 \/ KEMCheck2 \/ KEMRecipient
  BY <1>2, EncryptingPC, BoxFrame DEF EnvInv, Sealing, EncryptStep
<1>3. CASE Marshal
  BY <1>3, BoxSealed DEF Box!BoxNext
<1>4. CASE Resegment
  BY <1>4, BoxResegmented DEF Box!BoxNext
<1>5. CASE AddRecipient
  BY <1>5, BoxObstructed DEF Box!BoxNext
<1>6. CASE Damage
  BY <1>6, BoxDamaged DEF Box!BoxNext
<1>7. CASE DecryptCall
  BY <1>7, BoxRefused DEF Box!BoxNext
<1>8. CASE JoinSegment
  BY <1>8, BoxJoins
<1>9. CASE DecryptOpen
  BY <1>9, BoxOpened DEF Box!BoxNext
<1> QED BY <1>1, <1>2, <1>3, <1>4, <1>5, <1>6, <1>7, <1>8, <1>9 DEF EnvNext, Encrypting

\* An encrypted message is a sealed box: intact, it gives every reader it serves its
\* content and every other holder of a key its content or an error; labelled AES-GCM, it
\* gives nobody any other bytes, however it was damaged.
THEOREM EnvelopeImplementsSealedBox == EnvSpec => ImplementsSealedBox
<1>1. EnvInit => Box!BoxInit
  BY BoxInitial
<1>2. EnvInv /\ EnvInv' /\ [EnvNext]_envVars => [Box!BoxNext]_Box!boxVars
  BY BoxStep
<1> QED BY <1>1, <1>2, EnvInvariant, PTL DEF EnvSpec, ImplementsSealedBox, Box!BoxSpec

=============================================================================
