------------------------- MODULE SignedMessageProofs -------------------------
(***************************************************************************)
(* Authenticity of what Verify accepts, for all constants: any data, keys, *)
(* certificates and algorithms, any number of signers.                     *)
(***************************************************************************)
EXTENDS SignedMessage, SignedDataProofs

MessageRecord ==
  [present : BOOLEAN, contentType : Types, content : Bytes,
   certificates : Seq(Certificate), signers : Seq(SignerInfoRecord)]

\* The invariant: the builder's, and for the message on the wire and the parsed
\* message that their signatures, wherever the transport moved them, were made
\* by signing calls.
Inv ==
  /\ SDInv
  /\ wire \in MessageRecord /\ Made(wire.signers, signed)
  /\ p7 \in MessageRecord /\ Made(p7.signers, signed)

(***************************************************************************)
(* Verify is sound for messages whose signatures were made by signing      *)
(* calls.                                                                  *)
(***************************************************************************)

\* One of the recorded calls made a signature of the certificate's key over what the
\* signer carries, or over the same bytes in the other role.
Accountable(e, signer) ==
  /\ e.key = CertOf(signer).key
  /\ Genuine(e, signer) \/ ShownAsContent(e, signer) \/ ShownAsAttributes(e, signer)

\* What is signed determines the attributes, and the data if there are none, up to an
\* exchange of the two roles.
LEMMA MessageCases ==
  ASSUME NEW a, NEW b, NEW c, NEW d, Message(a, c) = Message(b, d)
  PROVE  \/ a = NoAttributes /\ b = NoAttributes /\ c = d
         \/ a # NoAttributes /\ b # NoAttributes /\ a = b
         \/ a # NoAttributes /\ b = NoAttributes /\ d = Encoding(a)
         \/ a = NoAttributes /\ b # NoAttributes /\ c = Encoding(b)
<1>1. Encoding(a) = Encoding(b) => a = b
  <2>1. Encoding(a).attributes = a /\ Encoding(b).attributes = b
    BY DEF Encoding
  <2> QED BY <2>1
<1> QED BY <1>1, Zenon DEF Message

\* A signer that verifies carries a signature of its certificate's key over the bytes
\* of its attributes and, through their digest, over the content; without attributes,
\* over the bytes of the content.
LEMMA SignerSound ==
  ASSUME NEW signer, NEW e \in signed, EventOK(e),
         signer.encryptedDigest = e.signature,
         NEW opts, NEW t, SignerVerifies(p7, signer, opts, t)
  PROVE  Accountable(e, signer)
<1> DEFINE ee == CertOf(signer)
           alg == getSignatureAlgorithm(signer.signatureAlgorithm, signer.parameters,
                                        signer.digestAlgorithm)
           msg == Message(signer.authenticated, p7.content)
           hash == getHashForOID(signer.digestAlgorithm)
           digests == signer.authenticated.messageDigest
<1>1. AttributesOK(p7, signer, ee) /\ CheckSignature(ee, alg, msg, signer.encryptedDigest)
  BY DEF SignerVerifies, CertOf, SignatureOK
<1> HIDE DEF alg
<1>2. e.signature.key = ee.key /\ e.signature.message = msg
  BY <1>1 DEF CheckSignature
<1>3. /\ e.key = ee.key
      /\ Message(e.attrs, e.data) = Message(signer.authenticated, p7.content)
  BY <1>2 DEF EventOK
<1>4. HasAttributes(signer) =>
        digests # {} /\ FirstValue(digests) = [hash |-> hash, data |-> p7.content]
  BY <1>1 DEF AttributesOK
<1> HIDE DEF hash, ee
<1>5. CASE e.attrs = NoAttributes /\ signer.authenticated = NoAttributes /\ e.data = p7.content
  BY <1>3, <1>5 DEF Accountable, Genuine, ee
<1>6. CASE /\ e.attrs # NoAttributes /\ signer.authenticated # NoAttributes
           /\ e.attrs = signer.authenticated
  <2>1. PICK h \in SHA : e.attrs.messageDigest = {[hash |-> h, data |-> e.data]}
    BY <1>6 DEF EventOK
  <2>2. FirstValue({[hash |-> h, data |-> e.data]}) = [hash |-> h, data |-> e.data]
    BY DEF FirstValue
  <2>3. [hash |-> hash, data |-> p7.content] = [hash |-> h, data |-> e.data]
    BY <1>4, <1>6, <2>1, <2>2 DEF HasAttributes
  <2>4. e.data = p7.content
    BY <2>3
  <2> QED BY <1>3, <1>6, <2>4 DEF Accountable, Genuine, ee
<1>7. CASE /\ e.attrs # NoAttributes /\ signer.authenticated = NoAttributes
           /\ p7.content = Encoding(e.attrs)
  BY <1>3, <1>7 DEF Accountable, ShownAsContent, HasAttributes, ee
<1>8. CASE /\ e.attrs = NoAttributes /\ signer.authenticated # NoAttributes
           /\ e.data = Encoding(signer.authenticated)
  <2>1. FirstValue(digests) \in digests
    BY <1>4, <1>8 DEF FirstValue, HasAttributes
  <2>2. [hash |-> hash, data |-> p7.content].data = p7.content
    OBVIOUS
  <2>3. \E x \in digests : x.data = p7.content
    BY <1>4, <1>8, <2>1, <2>2 DEF HasAttributes
  <2> QED BY <1>3, <1>8, <2>3 DEF Accountable, ShownAsAttributes, HasAttributes, ee
<1> HIDE DEF digests, msg
<1> QED BY <1>3, <1>5, <1>6, <1>7, <1>8, MessageCases

\* Verify accepts only if each signer's own check does.
LEMMA VerifyChecksEverySigner ==
  ASSUME NEW m, NEW t, VerifySignatures(m, t), NEW i \in 1 .. Len(m.signers)
  PROVE  \E opts, u : SignerVerifies(m, m.signers[i], opts, u)
BY DEF VerifySignatures, VerifyWithChain, VerifyWithOpts, verifySignature, verifySignatureAtTime

\* The invariant makes every signer of an accepted message accountable.
LEMMA InvAccountable ==
  ASSUME Inv, NEW i \in 1 .. Len(p7.signers),
         NEW opts, NEW t, SignerVerifies(p7, p7.signers[i], opts, t)
  PROVE  \E e \in signed : EventOK(e) /\ Accountable(e, p7.signers[i])
<1>1. PICK e \in signed : p7.signers[i].encryptedDigest = e.signature
  BY DEF Inv, Made
<1>2. EventOK(e)
  BY DEF Inv, SDInv
<1>3. Accountable(e, p7.signers[i])
  BY <1>1, <1>2, SignerSound
<1> QED BY <1>2, <1>3

\* The invariant gives the property.
LEMMA InvAuthentic ==
  ASSUME Inv
  PROVE  Authentic
<1> SUFFICES ASSUME p7.present, VerifySignatures(p7, now), NEW i \in 1 .. Len(p7.signers)
             PROVE  \E e \in signed : Accountable(e, p7.signers[i])
  BY DEF Authentic, Accountable
<1>1. PICK opts, u : SignerVerifies(p7, p7.signers[i], opts, u)
  BY VerifyChecksEverySigner
<1> QED BY <1>1, InvAccountable

\* With a trust store, each signer's chain is checked at its signing time.
LEMMA ChainCheckedAtSigningTime ==
  ASSUME NEW m, NEW t, NEW pool, ~pool.nil, VerifyWithChain(m, pool, t),
         NEW i \in 1 .. Len(m.signers)
  PROVE  LET signer == m.signers[i]
             ee == getCertFromCertsByIssuerAndSerial(m.certificates, signer)
             time == IF HasAttributes(signer) /\ signer.authenticated.signingTime # {}
                     THEN FirstValue(signer.authenticated.signingTime) ELSE t
         IN  /\ \E opts, u : SignerVerifies(m, signer, opts, u)
             /\ ChainVerifies(ee, pool.certs, Intermediates(m), time)
<1> DEFINE signer == m.signers[i]
           time == IF HasAttributes(signer) /\ signer.authenticated.signingTime # {}
                   THEN FirstValue(signer.authenticated.signingTime) ELSE t
           opts == [roots |-> pool, intermediates |-> Intermediates(m), currentTime |-> 0]
<1>1. VerifyWithOpts(m, opts, t)
  BY DEF VerifyWithChain
<1>2. /\ opts.currentTime = 0 /\ opts.roots = pool
      /\ opts.intermediates = Intermediates(m)
  OBVIOUS
<1> HIDE DEF opts
<1>3. verifySignature(m, signer, opts, t)
  BY <1>1, <1>2 DEF VerifyWithOpts
<1>4. SignerVerifies(m, signer, opts, time)
  BY <1>3 DEF verifySignature
<1> HIDE DEF signer, time
<1>5. ChainVerifies(getCertFromCertsByIssuerAndSerial(m.certificates, signer),
                    pool.certs, Intermediates(m), time)
  BY <1>2, <1>4 DEF SignerVerifies
<1>6. \E o, u : SignerVerifies(m, signer, o, u)
  BY <1>4
<1> QED BY <1>5, <1>6 DEF signer, time

\* The invariant gives the property: the signing time the receiver reads is the
\* only one that was signed.
LEMMA InvTrusted ==
  ASSUME Inv
  PROVE  TrustedAtSigningTime
<1> DEFINE TrustedAt(pool, signer, t) ==
             ChainVerifies(CertOf(signer), pool.certs, Intermediates(p7), t)
           Good(pool, signer, e) ==
             /\ e.key = CertOf(signer).key
             /\ \/ Genuine(e, signer) /\ \A t \in ChainTimes(e.attrs) : TrustedAt(pool, signer, t)
                \/ ShownAsContent(e, signer) /\ TrustedAt(pool, signer, now)
                \/ /\ ShownAsAttributes(e, signer)
                   /\ \E t \in ChainTimes(e.data.attributes) : TrustedAt(pool, signer, t)
<1> SUFFICES ASSUME p7.present, NEW pool \in Truststores, VerifyWithChain(p7, pool, now),
                    NEW i \in 1 .. Len(p7.signers)
             PROVE  \E e \in signed : Good(pool, p7.signers[i], e)
  BY DEF TrustedAtSigningTime
<1> DEFINE signer == p7.signers[i]
           times == signer.authenticated.signingTime
           time == IF HasAttributes(signer) /\ times # {} THEN FirstValue(times) ELSE now
<1>1. ~pool.nil
  BY SignedMessageAssumption
<1>2. /\ \E opts, u : SignerVerifies(p7, signer, opts, u)
      /\ ChainVerifies(CertOf(signer), pool.certs, Intermediates(p7), time)
  BY <1>1, ChainCheckedAtSigningTime DEF CertOf
<1>3. PICK e \in signed : EventOK(e) /\ Accountable(e, signer)
  BY <1>2, InvAccountable
<1>4. times # {} => HasAttributes(signer)
  BY DEF HasAttributes, NoAttributes
<1>5. time \in ChainTimes(signer.authenticated)
  BY <1>4 DEF ChainTimes, FirstValue
<1>6. ~HasAttributes(signer) => time = now
  OBVIOUS
<1>7. ASSUME \A t, u \in times : t = u
      PROVE  \A t \in ChainTimes(signer.authenticated) : t = time
  BY <1>5, <1>7 DEF ChainTimes
<1> HIDE DEF time
<1>8. TrustedAt(pool, signer, time)
  BY <1>2
<1> HIDE DEF signer, TrustedAt
<1>9. CASE Genuine(e, signer)
  <2>1. e.attrs = signer.authenticated
    BY <1>9 DEF Genuine
  <2>2. \A t \in ChainTimes(e.attrs) : t = time
    BY <1>3, <1>7, <2>1 DEF EventOK
  <2> QED BY <1>3, <1>8, <1>9, <2>2 DEF Accountable, signer
<1>10. CASE ShownAsContent(e, signer)
  <2>1. time = now
    BY <1>6, <1>10 DEF ShownAsContent
  <2> QED BY <1>3, <1>8, <1>10, <2>1 DEF Accountable, signer
<1>11. CASE ShownAsAttributes(e, signer)
  <2>1. e.data.attributes = signer.authenticated
    BY <1>11 DEF ShownAsAttributes, Encoding
  <2>2. time \in ChainTimes(e.data.attributes)
    BY <1>5, <2>1
  <2> QED BY <1>3, <1>8, <1>11, <2>2 DEF Accountable, signer
<1> QED BY <1>3, <1>9, <1>10, <1>11 DEF Accountable

(***************************************************************************)
(* The steps of the transport and of the receiver.                         *)
(***************************************************************************)

\* Replacing one signer of a message by a well-formed one whose signature is
\* among those of the message.
LEMMA SignerReplaced ==
  ASSUME NEW m \in MessageRecord, NEW events, Made(m.signers, events),
         NEW i \in 1 .. Len(m.signers), NEW j \in 1 .. Len(m.signers),
         NEW si \in SignerInfoRecord, si.encryptedDigest = m.signers[j].encryptedDigest,
         NEW n, n = [m EXCEPT !.signers = [m.signers EXCEPT ![i] = si]]
  PROVE  n \in MessageRecord /\ Made(n.signers, events)
<1> DEFINE s == m.signers
           r == [s EXCEPT ![i] = si]
<1>1. s \in Seq(SignerInfoRecord)
  BY DEF MessageRecord
<1>2. n = [m EXCEPT !.signers = r]
  OBVIOUS
<1>3. /\ Made(s, events) /\ si.encryptedDigest = s[j].encryptedDigest
      /\ i \in 1 .. Len(s) /\ j \in 1 .. Len(s)
  OBVIOUS
<1> HIDE DEF s
<1>4. /\ r \in Seq(SignerInfoRecord)
      /\ Len(r) = Len(s)
      /\ \A k \in 1 .. Len(s) : r[k] = IF k = i THEN si ELSE s[k]
  BY <1>1, <1>3, ExceptSeq
<1> HIDE DEF r
<1>5. n \in MessageRecord /\ n.signers = r
  BY <1>2, <1>4 DEF MessageRecord
<1>6. Made(r, events)
  BY <1>3, <1>4 DEF Made
<1> QED BY <1>5, <1>6

\* Replacing one field of a SignerInfo.
LEMMA SignerFieldReplaced ==
  ASSUME NEW si \in SignerInfoRecord
  PROVE  /\ \A attrs \in Attributes :
              /\ [si EXCEPT !.authenticated = attrs] \in SignerInfoRecord
              /\ [si EXCEPT !.authenticated = attrs].encryptedDigest = si.encryptedDigest
         /\ \A signature \in Signature :
              /\ [si EXCEPT !.encryptedDigest = signature] \in SignerInfoRecord
              /\ [si EXCEPT !.encryptedDigest = signature].encryptedDigest = signature
         /\ \A d \in DigestOids :
              /\ [si EXCEPT !.digestAlgorithm = d] \in SignerInfoRecord
              /\ [si EXCEPT !.digestAlgorithm = d].encryptedDigest = si.encryptedDigest
         /\ \A a \in EncryptionOids :
              /\ [si EXCEPT !.signatureAlgorithm = a] \in SignerInfoRecord
              /\ [si EXCEPT !.signatureAlgorithm = a].encryptedDigest = si.encryptedDigest
         /\ \A q \in Parameters :
              /\ [si EXCEPT !.parameters = q] \in SignerInfoRecord
              /\ [si EXCEPT !.parameters = q].encryptedDigest = si.encryptedDigest
         /\ \A c \in Certificate :
              /\ [si EXCEPT !.issuer = c.issuer, !.serial = c.serial] \in SignerInfoRecord
              /\ [si EXCEPT !.issuer = c.issuer, !.serial = c.serial].encryptedDigest
                   = si.encryptedDigest
BY DEF SignerInfoRecord, Certificate

\* Replacing one signed attribute.
LEMMA AttributeReplaced ==
  ASSUME NEW attrs \in Attributes
  PROVE  /\ \A t \in Nat : [attrs EXCEPT !.signingTime = {t}] \in Attributes
         /\ \A x \in Digest : [attrs EXCEPT !.messageDigest = {x}] \in Attributes
BY DEF Attributes

\* The transport puts byte strings and attributes into a message.
LEMMA KnownType ==
  ASSUME signed \subseteq Event
  PROVE  Known \subseteq Bytes /\ KnownAttributes \subseteq Attributes
<1>1. \A e \in signed : e.signature.message \in Bytes /\ e.attrs \in Attributes
  BY DEF Event, Signature
<1>2. NoAttributes \in Attributes
  BY DEF NoAttributes, Attributes
<1>3. \A b \in Datas \cap Encodings : b.attributes \in Attributes
  BY DEF Encodings
<1>4. Known \subseteq Bytes
  BY <1>1 DEF Known, Bytes
<1>5. KnownAttributes \subseteq Attributes
  BY <1>1, <1>2, <1>3 DEF KnownAttributes
<1> QED BY <1>4, <1>5

\* A changed signer is well formed, and its signature is one of the message's.
LEMMA ChangedSignersType ==
  ASSUME signed \subseteq Event, NEW s \in Seq(SignerInfoRecord), NEW i \in 1 .. Len(s),
         NEW si \in ChangedSigners(s, i)
  PROVE  /\ si \in SignerInfoRecord
         /\ \E j \in 1 .. Len(s) : si.encryptedDigest = s[j].encryptedDigest
<1> DEFINE Good(x) == /\ x \in SignerInfoRecord
                      /\ \E j \in 1 .. Len(s) : x.encryptedDigest = s[j].encryptedDigest
<1>1. \A j \in 1 .. Len(s) : s[j] \in SignerInfoRecord /\ s[j].encryptedDigest \in Signature
  <2>1. \A j \in 1 .. Len(s) : s[j] \in SignerInfoRecord
    BY ElementOfSeq
  <2> QED BY <2>1 DEF SignerInfoRecord
<1>2. s[i].authenticated \in Attributes
  BY <1>1 DEF SignerInfoRecord
<1>0. ASSUME NEW j \in 1 .. Len(s), si \in SignerInfoRecord,
             si.encryptedDigest = s[j].encryptedDigest
      PROVE  Good(si)
  BY <1>0
<1> SUFFICES Good(si)
  OBVIOUS
<1> HIDE DEF Good
<1>3. ASSUME NEW j \in 1 .. Len(s), si = [s[i] EXCEPT !.encryptedDigest = s[j].encryptedDigest]
      PROVE  Good(si)
  <2>1. s[j].encryptedDigest \in Signature /\ s[i] \in SignerInfoRecord
    BY <1>1
  <2>2. \A signature \in Signature :
          /\ [s[i] EXCEPT !.encryptedDigest = signature] \in SignerInfoRecord
          /\ [s[i] EXCEPT !.encryptedDigest = signature].encryptedDigest = signature
    BY <2>1, SignerFieldReplaced
  <2>3. si \in SignerInfoRecord /\ si.encryptedDigest = s[j].encryptedDigest
    BY <1>3, <2>1, <2>2, Zenon
  <2> QED BY <1>0, <2>3
<1>4. ASSUME NEW attrs \in Attributes, si = [s[i] EXCEPT !.authenticated = attrs]
      PROVE  Good(si)
  <2>1. si \in SignerInfoRecord /\ si.encryptedDigest = s[i].encryptedDigest
    BY <1>1, <1>4, SignerFieldReplaced
  <2> QED BY <1>0, <2>1
<1>5. ASSUME NEW t \in 1 .. MaxTime, si = [s[i] EXCEPT !.authenticated.signingTime = {t}]
      PROVE  Good(si)
  <2> DEFINE attrs == [s[i].authenticated EXCEPT !.signingTime = {t}]
  <2>1. attrs \in Attributes
    BY <1>2, SignedDataAssumption, AttributeReplaced
  <2>2. si = [s[i] EXCEPT !.authenticated = attrs]
    BY <1>5
  <2> HIDE DEF attrs
  <2> QED BY <1>4, <2>1, <2>2
<1>6. ASSUME NEW x \in [hash : SHA, data : Datas],
             si = [s[i] EXCEPT !.authenticated.messageDigest = {x}]
      PROVE  Good(si)
  <2> DEFINE attrs == [s[i].authenticated EXCEPT !.messageDigest = {x}]
  <2>1. x \in Digest
    BY DEF Digest, Contents
  <2>2. attrs \in Attributes
    BY <1>2, <2>1, AttributeReplaced
  <2>3. si = [s[i] EXCEPT !.authenticated = attrs]
    BY <1>6
  <2> HIDE DEF attrs
  <2> QED BY <1>4, <2>2, <2>3
<1>7. ASSUME NEW d \in DigestOids, si = [s[i] EXCEPT !.digestAlgorithm = d]
      PROVE  Good(si)
  <2>1. si \in SignerInfoRecord /\ si.encryptedDigest = s[i].encryptedDigest
    BY <1>1, <1>7, SignerFieldReplaced
  <2> QED BY <1>0, <2>1
<1>8. ASSUME NEW a \in EncryptionOids, si = [s[i] EXCEPT !.signatureAlgorithm = a]
      PROVE  Good(si)
  <2>1. si \in SignerInfoRecord /\ si.encryptedDigest = s[i].encryptedDigest
    BY <1>1, <1>8, SignerFieldReplaced
  <2> QED BY <1>0, <2>1
<1>9. ASSUME NEW q \in SignatureParameters, si = [s[i] EXCEPT !.parameters = q]
      PROVE  Good(si)
  <2>1. si \in SignerInfoRecord /\ si.encryptedDigest = s[i].encryptedDigest
    BY <1>1, <1>9, SignerFieldReplaced, SignedMessageAssumption
  <2> QED BY <1>0, <2>1
<1>10. ASSUME NEW c \in Certs, si = [s[i] EXCEPT !.issuer = c.issuer, !.serial = c.serial]
      PROVE  Good(si)
  <2>1. si \in SignerInfoRecord /\ si.encryptedDigest = s[i].encryptedDigest
    BY <1>1, <1>10, SignerFieldReplaced, SignedDataAssumption
  <2> QED BY <1>0, <2>1
<1>11. KnownAttributes \subseteq Attributes
  BY KnownType
<1>12. \/ \E j \in 1 .. Len(s) : si = [s[i] EXCEPT !.encryptedDigest = s[j].encryptedDigest]
       \/ \E attrs \in KnownAttributes : si = [s[i] EXCEPT !.authenticated = attrs]
       \/ \E t \in 1 .. MaxTime : si = [s[i] EXCEPT !.authenticated.signingTime = {t}]
       \/ \E x \in [hash : SHA, data : Datas] :
            si = [s[i] EXCEPT !.authenticated.messageDigest = {x}]
       \/ \E d \in DigestOids : si = [s[i] EXCEPT !.digestAlgorithm = d]
       \/ \E a \in EncryptionOids : si = [s[i] EXCEPT !.signatureAlgorithm = a]
       \/ \E q \in SignatureParameters : si = [s[i] EXCEPT !.parameters = q]
       \/ \E c \in Certs : si = [s[i] EXCEPT !.issuer = c.issuer, !.serial = c.serial]
  BY DEF ChangedSigners
<1>13. CASE \E x \in [hash : SHA, data : Datas] :
               si = [s[i] EXCEPT !.authenticated.messageDigest = {x}]
  BY <1>6, <1>13
<1>14. CASE \E attrs \in KnownAttributes : si = [s[i] EXCEPT !.authenticated = attrs]
  BY <1>4, <1>11, <1>14
<1>15. CASE \/ \E j \in 1 .. Len(s) : si = [s[i] EXCEPT !.encryptedDigest = s[j].encryptedDigest]
            \/ \E t \in 1 .. MaxTime : si = [s[i] EXCEPT !.authenticated.signingTime = {t}]
            \/ \E c \in Certs : si = [s[i] EXCEPT !.issuer = c.issuer, !.serial = c.serial]
  BY <1>3, <1>5, <1>10, <1>15
<1>16. CASE \/ \E d \in DigestOids : si = [s[i] EXCEPT !.digestAlgorithm = d]
            \/ \E a \in EncryptionOids : si = [s[i] EXCEPT !.signatureAlgorithm = a]
            \/ \E q \in SignatureParameters : si = [s[i] EXCEPT !.parameters = q]
  BY <1>7, <1>8, <1>9, <1>16
<1> QED BY <1>12, <1>13, <1>14, <1>15, <1>16

\* Tamper leaves a message whose signatures were made by signing calls.
LEMMA TamperStep ==
  ASSUME signed \subseteq Event, wire \in MessageRecord, Made(wire.signers, signed), Tamper
  PROVE  wire' \in MessageRecord /\ Made(wire'.signers, signed)
<1>1. CASE \E b \in Known : wire' = [wire EXCEPT !.content = b]
  <2>1. PICK b \in Bytes : wire' = [wire EXCEPT !.content = b]
    BY <1>1, KnownType
  <2>2. wire' \in MessageRecord /\ wire'.signers = wire.signers
    BY <2>1 DEF MessageRecord
  <2> QED BY <2>2
<1>2. CASE \E cs \in Chains : wire' = [wire EXCEPT !.certificates = cs]
  <2>1. wire' \in MessageRecord /\ wire'.signers = wire.signers
    BY <1>2, SignedDataAssumption DEF MessageRecord
  <2> QED BY <2>1
<1>3. CASE \E i \in 1 .. Len(wire.signers) : \E si \in ChangedSigners(wire.signers, i) :
             wire' = [wire EXCEPT !.signers[i] = si]
  <2>1. PICK i \in 1 .. Len(wire.signers) :
          \E si \in ChangedSigners(wire.signers, i) : wire' = [wire EXCEPT !.signers[i] = si]
    BY <1>3
  <2>2. PICK si \in ChangedSigners(wire.signers, i) : wire' = [wire EXCEPT !.signers[i] = si]
    BY <2>1
  <2>3. wire.signers \in Seq(SignerInfoRecord)
    BY DEF MessageRecord
  <2>4. /\ si \in SignerInfoRecord
        /\ \E j \in 1 .. Len(wire.signers) : si.encryptedDigest = wire.signers[j].encryptedDigest
    BY <2>3, ChangedSignersType
  <2>5. wire' = [wire EXCEPT !.signers = [wire.signers EXCEPT ![i] = si]]
    BY <2>2
  <2> QED BY <2>4, <2>5, SignerReplaced
<1> QED BY <1>1, <1>2, <1>3 DEF Tamper

\* Parse permutes the signers of the message it reads.
LEMMA ParseStep ==
  ASSUME wire \in MessageRecord, Made(wire.signers, signed), Parse
  PROVE  p7' \in MessageRecord /\ Made(p7'.signers, signed)
<1> DEFINE s == wire.signers
<1>1. PICK order \in Orders(Len(s)) :
        p7' = [wire EXCEPT !.signers = [i \in 1 .. Len(s) |-> s[order[i]]]]
  BY DEF Parse
<1> DEFINE r == [i \in 1 .. Len(s) |-> s[order[i]]]
<1>2. s \in Seq(SignerInfoRecord) /\ Made(s, signed)
  BY DEF MessageRecord
<1>3. p7' = [wire EXCEPT !.signers = r]
  BY <1>1
<1> HIDE DEF s
<1>4. \A i \in 1 .. Len(s) : order[i] \in 1 .. Len(s)
  BY DEF Orders
<1>5. \A i \in 1 .. Len(s) : s[order[i]] \in SignerInfoRecord
  BY <1>2, <1>4, ElementOfSeq
<1>6. r \in Seq(SignerInfoRecord) /\ Len(r) = Len(s)
  BY <1>2, <1>5
<1>7. Made(r, signed)
  <2>1. \A i \in 1 .. Len(s) : r[i] = s[order[i]]
    OBVIOUS
  <2> HIDE DEF r
  <2> QED BY <1>2, <1>4, <1>6, <2>1 DEF Made
<1> HIDE DEF r
<1>8. p7' \in MessageRecord /\ p7'.signers = r
  BY <1>3, <1>6 DEF MessageRecord
<1> QED BY <1>7, <1>8

\* Finish encodes the builder.
LEMMA FinishStep ==
  ASSUME SDInv, Finish
  PROVE  /\ SDInv' /\ signed' = signed
         /\ wire' \in MessageRecord /\ Made(wire'.signers, signed)
<1>1. /\ wire' = [present |-> TRUE, contentType |-> contentType, content |-> content,
                  certificates |-> certs, signers |-> signerInfos]
      /\ result' = "ok"
      /\ UNCHANGED <<builder, now, history>>
  BY DEF Finish
<1>2. /\ contentType \in Types /\ content \in Bytes /\ certs \in Seq(Certificate)
      /\ signerInfos \in Seq(SignerInfoRecord) /\ Made(signerInfos, signed)
  BY DEF SDInv, SDTypeOK, Contents, Bytes
<1>3. wire' \in MessageRecord /\ wire'.signers = signerInfos
  BY <1>1, <1>2 DEF MessageRecord
<1>4. SDInv' /\ signed' = signed
  BY <1>1 DEF builder, history, SDInv, SDTypeOK, EventOK, Made
<1> QED BY <1>2, <1>3, <1>4

\* DegenerateCertificate makes a message without signers.
LEMMA DegenerateStep ==
  ASSUME SDInv, NEW chain \in Chains, DegenerateCertificate(chain)
  PROVE  /\ SDInv' /\ signed' = signed
         /\ wire' \in MessageRecord /\ Made(wire'.signers, signed)
<1>1. /\ wire' = [NoMessage EXCEPT !.present = TRUE, !.certificates = chain]
      /\ result' = "ok"
      /\ UNCHANGED <<builder, now, history>>
  BY DEF DegenerateCertificate
<1>2. wire' = [present |-> TRUE, contentType |-> "data", content |-> Empty,
               certificates |-> chain, signers |-> <<>>]
  BY <1>1 DEF NoMessage
<1>3. wire' \in MessageRecord /\ wire'.signers = <<>>
  BY <1>2, SignedDataAssumption DEF MessageRecord, Types, Contents, Bytes
<1>4. SDInv' /\ signed' = signed
  BY <1>1 DEF builder, history, SDInv, SDTypeOK, EventOK, Made
<1> QED BY <1>3, <1>4 DEF Made

(***************************************************************************)
(* The theorem.                                                            *)
(***************************************************************************)

\* No message yet.
LEMMA InitInv ==
  ASSUME Init
  PROVE  Inv
<1>1. NoMessage \in MessageRecord /\ NoMessage.signers = <<>>
  BY DEF NoMessage, MessageRecord, Types, Contents, Bytes
<1>2. Made(<<>>, signed)
  BY DEF Made
<1> QED BY <1>1, <1>2, SDInitInv DEF Init, Inv

\* Every step keeps the invariant.
LEMMA NextInv ==
  ASSUME Inv, [Next]_vars
  PROVE  Inv'
<1>0. /\ SDInv
      /\ wire \in MessageRecord /\ Made(wire.signers, signed)
      /\ p7 \in MessageRecord /\ Made(p7.signers, signed)
  BY DEF Inv
<1>1. CASE SDNext /\ UNCHANGED messageVars
  <2>1. SDInv' /\ signed \subseteq signed' /\ wire' = wire /\ p7' = p7
    BY <1>0, <1>1, SDNextInv DEF messageVars
  <2>2. Made(wire.signers, signed') /\ Made(p7.signers, signed')
    BY <1>0, <2>1, MadeMonotone
  <2> QED BY <1>0, <2>1, <2>2 DEF Inv
<1>2. CASE Tick /\ UNCHANGED messageVars
  <2>1. SDInv' /\ signed' = signed /\ wire' = wire /\ p7' = p7
    BY <1>0, <1>2, TickStep DEF messageVars, Tick, history
  <2> QED BY <1>0, <2>1 DEF Inv
<1>3. CASE Finish
  <2>1. p7' = p7
    BY <1>3 DEF Finish
  <2> QED BY <1>0, <1>3, <2>1, FinishStep DEF Inv
<1>4. CASE \E chain \in Chains : DegenerateCertificate(chain)
  <2>1. p7' = p7
    BY <1>4 DEF DegenerateCertificate
  <2> QED BY <1>0, <1>4, <2>1, DegenerateStep DEF Inv
<1>5. CASE Tamper
  <2>1. p7' = p7 /\ UNCHANGED sdVars
    BY <1>5 DEF Tamper
  <2>2. SDInv' /\ signed' = signed
    BY <1>0, <2>1, SDStutterInv DEF sdVars, history
  <2>3. signed \subseteq Event
    BY <1>0 DEF SDInv, SDTypeOK, Event
  <2> QED BY <1>0, <1>5, <2>1, <2>2, <2>3, TamperStep DEF Inv
<1>6. CASE Parse
  <2>1. wire' = wire /\ UNCHANGED sdVars
    BY <1>6 DEF Parse
  <2>2. SDInv' /\ signed' = signed
    BY <1>0, <2>1, SDStutterInv DEF sdVars, history
  <2> QED BY <1>0, <1>6, <2>1, <2>2, ParseStep DEF Inv
<1>7. CASE \E b \in Known : SetContent(b)
  <2>1. wire' = wire /\ UNCHANGED sdVars
    BY <1>7 DEF SetContent
  <2>2. SDInv' /\ signed' = signed
    BY <1>0, <2>1, SDStutterInv DEF sdVars, history
  <2>3. p7' \in MessageRecord /\ p7'.signers = p7.signers
    <3>1. signed \subseteq Event
      BY <1>0 DEF SDInv, SDTypeOK, Event
    <3>2. PICK b \in Bytes : p7' = [p7 EXCEPT !.content = b]
      BY <1>7, <3>1, KnownType DEF SetContent
    <3> QED BY <1>0, <3>2 DEF MessageRecord
  <2> QED BY <1>0, <2>1, <2>2, <2>3 DEF Inv
<1>8. CASE UNCHANGED vars
  <2>1. UNCHANGED sdVars /\ wire' = wire /\ p7' = p7
    BY <1>8 DEF vars, messageVars
  <2>2. SDInv' /\ signed' = signed
    BY <1>0, <2>1, SDStutterInv DEF sdVars, history
  <2> QED BY <1>0, <2>1, <2>2 DEF Inv
<1> QED BY <1>1, <1>2, <1>3, <1>4, <1>5, <1>6, <1>7, <1>8 DEF Next

\* Verify accepts a message only if, for every one of its signers, the key of
\* the certificate found for it did sign exactly this content with exactly
\* these attributes, or the same bytes as attributes where they stand as content
\* or the other way round, whatever the transport did to the message.
THEOREM AuthenticHolds == Spec => []Authentic
<1>1. Init => Inv
  BY InitInv
<1>2. Inv /\ [Next]_vars => Inv'
  BY NextInv
<1>3. Inv => Authentic
  BY InvAuthentic
<1> QED BY <1>1, <1>2, <1>3, PTL DEF Spec

\* VerifyWithChain accepts a message only if every signer had a valid certificate with
\* a valid chain to a root of the trust store at the time that its key holder stated
\* when signing this content; in a message that shows signed bytes in their other role,
\* at the time that those bytes are read to state.
THEOREM TrustedHolds == Spec => []TrustedAtSigningTime
<1>1. Init => Inv
  BY InitInv
<1>2. Inv /\ [Next]_vars => Inv'
  BY NextInv
<1>3. Inv => TrustedAtSigningTime
  BY InvTrusted
<1> QED BY <1>1, <1>2, <1>3, PTL DEF Spec

\* The signing time that UnmarshalSignedAttribute reads from the signer that
\* happens to be encoded first was signed together with this content, or stands in
\* data that its key signed as a content.
THEOREM SigningTimeHolds == Spec => []SigningTimeSigned
<1>1. Init => Inv
  BY InitInv
<1>2. Inv /\ [Next]_vars => Inv'
  BY NextInv
<1>3. Inv => SigningTimeSigned
  <2> DEFINE signer == p7.signers[1]
             times == signer.authenticated.signingTime
             Good(u, e) ==
               /\ e.key = CertOf(signer).key
               /\ \/ Genuine(e, signer) /\ e.attrs.signingTime = {u}
                  \/ ShownAsAttributes(e, signer) /\ u \in e.data.attributes.signingTime
  <2> SUFFICES ASSUME Inv, p7.present, VerifySignatures(p7, now),
                      NEW u \in UnmarshalSigningTime(p7)
               PROVE  \E e \in signed : Good(u, e)
    BY DEF SigningTimeSigned
  <2>1. p7.signers # <<>> /\ times # {} /\ u = FirstValue(times)
    BY DEF UnmarshalSigningTime
  <2>2. u \in times
    BY <2>1, Zenon DEF FirstValue
  <2>3. 1 \in 1 .. Len(p7.signers)
    <3>1. p7.signers \in Seq(SignerInfoRecord)
      BY DEF Inv, MessageRecord
    <3> QED BY <2>1, <3>1
  <2>4. PICK opts, t : SignerVerifies(p7, signer, opts, t)
    BY <2>3, VerifyChecksEverySigner
  <2>5. PICK e \in signed : EventOK(e) /\ Accountable(e, signer)
    BY <2>3, <2>4, InvAccountable
  <2>6. HasAttributes(signer)
    BY <2>1 DEF HasAttributes, NoAttributes
  <2> HIDE DEF signer
  <2>7. CASE Genuine(e, signer)
    <3>1. e.attrs.signingTime = times
      BY <2>7 DEF Genuine
    <3>2. e.attrs.signingTime = {u}
      BY <2>2, <2>5, <3>1 DEF EventOK
    <3> QED BY <2>5, <2>7, <3>2 DEF Accountable
  <2>8. CASE ShownAsAttributes(e, signer)
    <3>1. e.data.attributes = signer.authenticated
      BY <2>8 DEF ShownAsAttributes, Encoding
    <3> QED BY <2>2, <2>5, <2>8, <3>1 DEF Accountable
  <2> QED BY <2>5, <2>6, <2>7, <2>8 DEF Accountable, ShownAsContent
<1> QED BY <1>1, <1>2, <1>3, PTL DEF Spec

\* What a receiver and a key holder can do about the two roles: a content that is not
\* the encoding of attributes, accepted under a key that has signed no such encoding
\* without attributes, was signed by that key as it is, with the attributes it shows.
RolesKeptApart ==
  p7.present /\ VerifySignatures(p7, now) /\ p7.content \notin Encodings =>
    \A i \in 1 .. Len(p7.signers) :
      LET ee == CertOf(p7.signers[i])
      IN  (\A e \in signed : e.key = ee.key /\ e.attrs = NoAttributes => e.data \notin Encodings)
            => SignedBy(p7.signers[i], ee)

\* A message whose roles cannot be exchanged is signed as it is, whatever the transport
\* did to it.
THEOREM RolesHold == Spec => []RolesKeptApart
<1>1. Init => Inv
  BY InitInv
<1>2. Inv /\ [Next]_vars => Inv'
  BY NextInv
<1>3. Inv => RolesKeptApart
  <2> SUFFICES ASSUME Inv, p7.present, VerifySignatures(p7, now), p7.content \notin Encodings,
                      NEW i \in 1 .. Len(p7.signers),
                      \A e \in signed : e.key = CertOf(p7.signers[i]).key /\ e.attrs = NoAttributes
                                          => e.data \notin Encodings
               PROVE  SignedBy(p7.signers[i], CertOf(p7.signers[i]))
    BY DEF RolesKeptApart
  <2> DEFINE signer == p7.signers[i]
  <2>1. PICK opts, t : SignerVerifies(p7, signer, opts, t)
    BY VerifyChecksEverySigner
  <2>2. PICK e \in signed : EventOK(e) /\ Accountable(e, signer)
    BY <2>1, InvAccountable
  <2>3. e.attrs \in Attributes
    BY DEF Inv, SDInv, SDTypeOK
  <2>4. signer.authenticated \in Attributes
    <3>1. p7.signers \in Seq(SignerInfoRecord)
      BY DEF Inv, MessageRecord
    <3>2. signer \in SignerInfoRecord
      BY <3>1, ElementOfSeq
    <3> QED BY <3>2 DEF SignerInfoRecord
  <2>5. \A attrs \in Attributes : Encoding(attrs) \in Encodings
    BY DEF Encoding, Encodings
  <2>6. ~ShownAsContent(e, signer)
    BY <2>3, <2>5 DEF ShownAsContent
  <2>7. ~ShownAsAttributes(e, signer)
    BY <2>2, <2>4, <2>5 DEF ShownAsAttributes, Accountable
  <2> HIDE DEF signer
  <2>8. SignedBy(signer, CertOf(signer))
    BY <2>2, <2>6, <2>7 DEF Accountable, SignedBy
  <2> QED BY <2>8 DEF signer
<1> QED BY <1>1, <1>2, <1>3, PTL DEF Spec

(***************************************************************************)
(* A message made as the documentation says verifies.                      *)
(*                                                                         *)
(* Sound says that a SignerInfo is the outcome of one recorded call that   *)
(* should verify, and Carried that its certificate is in the message.      *)
(***************************************************************************)

Carried(c, cs) == \E j \in 1 .. Len(cs) : cs[j] = c

AlgorithmOf(si) == getSignatureAlgorithm(si.signatureAlgorithm, si.parameters, si.digestAlgorithm)

Sound(si, e) ==
  /\ e.signature = si.encryptedDigest /\ e.attrs = si.authenticated /\ e.data = data
  /\ e.key = e.ee.key /\ isCertMatchForIssuerAndSerial(e.ee, si)
  /\ CheckSignature(e.ee, AlgorithmOf(si), Message(si.authenticated, data), si.encryptedDigest)
  /\ si.authenticated # NoAttributes =>
       /\ getHashForOID(si.digestAlgorithm) # None
       /\ si.authenticated.messageDigest =
            {[hash |-> getHashForOID(si.digestAlgorithm), data |-> data]}
       /\ \A t \in si.authenticated.signingTime : ValidAt(e.ee, t)

\* The digest algorithm of a SignerInfo is that of its signature, and for ML-DSA the
\* one it is fixed to; its signature algorithm has no parameters.
Declared(si) ==
  LET s == si.encryptedDigest
  IN  /\ s.hash = IF s.scheme \in MLDSA \cup {"Ed25519"} THEN None
                  ELSE getHashForOID(si.digestAlgorithm)
      /\ s.scheme \in MLDSA => si.digestAlgorithm = "SHA512"
      /\ si.parameters = NoParameters

Delivers(s, cs) ==
  \A i \in 1 .. Len(s) :
    /\ Declared(s[i])
    /\ proper /\ ~removed => \E e \in signed : Sound(s[i], e) /\ Carried(e.ee, cs)

TripInv ==
  /\ Delivers(signerInfos, certs)
  /\ changes \in Nat
  /\ changes = 0 => Delivers(wire.signers, wire.certificates) /\ Delivers(p7.signers, p7.certificates)
  /\ ~wire.present => wire.signers = <<>> /\ p7.signers = <<>>

\* The tables agree: the algorithm that a signer of a supported key and digest is
\* verified with is the one it signed with.
LEMMA TablesAgree ==
  ASSUME NEW kind \in KeyKinds \ {"DSA"}, NEW d \in SHA, NEW configured,
         configured = None \/ (configured = "RSA" /\ kind = "RSA"),
         getCMSSignerAlgorithm(kind, d, configured).signature # None
  PROVE  LET a == getCMSSignerAlgorithm(kind, d, configured)
         IN  getSignatureAlgorithm(a.signature, NoParameters, a.digest) =
               [scheme |-> kind,
                hash |-> IF kind \in MLDSA \cup {"Ed25519"} THEN None ELSE getHashForOID(a.digest)]
<1>1. CASE kind = "RSA"
  BY <1>1 DEF getCMSSignerAlgorithm, getOIDForEncryptionAlgorithm, getSignatureAlgorithm,
              getHashForOID, SHA, MLDSA, None, RSAWith, ECDSAWith, NoParameters
<1>2. CASE kind = "ECDSA"
  BY <1>2 DEF getCMSSignerAlgorithm, getOIDForEncryptionAlgorithm, getSignatureAlgorithm,
              getHashForOID, SHA, MLDSA, None, RSAWith, ECDSAWith, NoParameters
<1>3. CASE kind = "Ed25519"
  BY <1>3 DEF getCMSSignerAlgorithm, getOIDForEncryptionAlgorithm, getSignatureAlgorithm,
              getHashForOID, SHA, MLDSA, None, RSAWith, ECDSAWith, NoParameters
<1>4. CASE kind \in MLDSA
  BY <1>4 DEF getCMSSignerAlgorithm, getOIDForEncryptionAlgorithm, getSignatureAlgorithm,
              getHashForOID, SHA, MLDSA, None, RSAWith, ECDSAWith, NoParameters,
              algorithmIdentifierParametersPresent
<1>5. CASE kind = "opaque"
  BY <1>5 DEF getCMSSignerAlgorithm, getOIDForEncryptionAlgorithm, MLDSA, None
<1> QED BY <1>1, <1>2, <1>3, <1>4, <1>5 DEF KeyKinds

\* What ML-DSA fixes.
LEMMA MLDSADigest ==
  ASSUME NEW kind \in MLDSA, NEW d, NEW configured
  PROVE  getCMSSignerAlgorithm(kind, d, configured).digest = "SHA512"
BY DEF getCMSSignerAlgorithm

\* A SignerInfo declares what its signature was made with.
LEMMA SigningDeclares ==
  ASSUME NEW ias, NEW key, NEW d, NEW configured, NEW attrs, NEW unsigned, NEW message,
         NEW algorithm, algorithm = getCMSSignerAlgorithm(key.kind, d, configured),
         NEW si, si = SignerInfo(ias, algorithm, attrs, unsigned,
                                 sign(key, message, getHashForOID(algorithm.digest)))
  PROVE  Declared(si)
<1> DEFINE sig == sign(key, message, getHashForOID(algorithm.digest))
<1>1. /\ si.encryptedDigest = sig /\ si.digestAlgorithm = algorithm.digest
      /\ si.parameters = NoParameters
  BY DEF SignerInfo
<1>2. /\ sig.scheme = key.kind
      /\ sig.hash = IF key.kind \in MLDSA \cup {"Ed25519"} THEN None
                    ELSE getHashForOID(algorithm.digest)
  BY DEF sign
<1> HIDE DEF sig
<1>3. key.kind \in MLDSA => algorithm.digest = "SHA512"
  BY MLDSADigest
<1> QED BY <1>1, <1>2, <1>3 DEF Declared

\* The call that added a SignerInfo, recorded with the same parts.
LEMMA EventParts ==
  ASSUME NEW ee, NEW key, NEW attrs, NEW signature
  PROVE  LET e == SigningEvent(ee, key, attrs, signature)
         IN  /\ e.ee = ee /\ e.key = key /\ e.attrs = attrs /\ e.data = data
             /\ e.signature = signature
BY DEF SigningEvent

\* A call with the certificate's key, a supported digest and a certificate that is valid
\* at the signing time makes a sound SignerInfo.
LEMMA SigningSound ==
  ASSUME NEW ee \in Certificate, NEW d \in SHA, NEW configured, NEW attrs, NEW unsigned,
         ee.key.kind # "DSA", configured = None \/ (configured = "RSA" /\ ee.key.kind = "RSA"),
         NEW algorithm, algorithm = getCMSSignerAlgorithm(ee.key.kind, d, configured),
         algorithm.signature # None,
         NEW hash, hash = getHashForOID(algorithm.digest), hash # None,
         attrs # NoAttributes =>
           /\ attrs.messageDigest = {[hash |-> hash, data |-> data]}
           /\ \A t \in attrs.signingTime : ValidAt(ee, t),
         NEW sig, sig = sign(ee.key, Message(attrs, data), hash),
         NEW ias, isCertMatchForIssuerAndSerial(ee, ias),
         NEW si, si = SignerInfo(ias, algorithm, attrs, unsigned, sig)
  PROVE  Sound(si, SigningEvent(ee, ee.key, attrs, sig))
<1> DEFINE e == SigningEvent(ee, ee.key, attrs, sig)
           alg == AlgorithmOf(si)
           h == IF ee.key.kind \in MLDSA \cup {"Ed25519"} THEN None ELSE hash
           msg == Message(attrs, data)
<1>1. e.ee = ee /\ e.key = ee.key /\ e.attrs = attrs /\ e.data = data /\ e.signature = sig
  BY EventParts
<1>2. /\ si.issuer = ias.issuer /\ si.serial = ias.serial /\ si.digestAlgorithm = algorithm.digest
      /\ si.authenticated = attrs /\ si.signatureAlgorithm = algorithm.signature
      /\ si.parameters = NoParameters /\ si.encryptedDigest = sig
  BY DEF SignerInfo
<1>3. ee.key.kind \in KeyKinds \ {"DSA"}
  BY DEF Certificate, Key
<1>4. alg = [scheme |-> ee.key.kind, hash |-> h]
  BY <1>2, <1>3, TablesAgree DEF AlgorithmOf
<1>5. sig = [key |-> ee.key, hash |-> h, scheme |-> ee.key.kind, message |-> msg]
  BY DEF sign
<1>6. ee.key.kind # None
  BY <1>3 DEF KeyKinds, MLDSA, None
<1> HIDE DEF h, msg, alg
<1>7. alg # NoAlgorithm
  BY <1>4, <1>6 DEF NoAlgorithm
<1>8. CheckSignature(ee, alg, msg, sig)
  BY <1>4, <1>5, <1>7 DEF CheckSignature
<1> HIDE DEF e
<1>9. isCertMatchForIssuerAndSerial(e.ee, si)
  BY <1>1, <1>2 DEF isCertMatchForIssuerAndSerial
<1>10. Sound(si, e)
  BY <1>1, <1>2, <1>8, <1>9 DEF Sound, msg, alg
<1> QED BY <1>10 DEF e

\* Certificates are only added.
LEMMA CertsGrow ==
  ASSUME NEW cs \in Seq(Certificate), NEW more \in Seq(Certificate), NEW c
  PROVE  /\ Carried(c, cs) => Carried(c, cs \o more)
         /\ Carried(c, more) => Carried(c, cs \o more)
<1> DEFINE n == Len(cs)
           m == Len(more)
           t == cs \o more
<1>1. n \in Nat /\ m \in Nat
  BY LenProperties
<1>2. Len(t) = n + m /\ \A j \in 1 .. n + m : t[j] = IF j <= n THEN cs[j] ELSE more[j - n]
  BY ConcatProperties
<1> HIDE DEF n, m, t
<1>3. ASSUME NEW j \in 1 .. n PROVE j \in 1 .. Len(t) /\ t[j] = cs[j]
  BY <1>1, <1>2
<1>4. ASSUME NEW j \in 1 .. m PROVE j + n \in 1 .. Len(t) /\ t[j + n] = more[j]
  <2>1. j + n \in 1 .. n + m /\ ~(j + n <= n) /\ (j + n) - n = j
    BY <1>1
  <2> QED BY <1>2, <2>1
<1>5. Carried(c, cs) => Carried(c, t)
  BY <1>3 DEF Carried, n
<1>6. Carried(c, more) => Carried(c, t)
  BY <1>4 DEF Carried, m
<1> QED BY <1>5, <1>6 DEF t

\* The signer's certificate follows those already there.
LEMMA CertCarried ==
  ASSUME NEW ee \in Certificate, certs \in Seq(Certificate), NEW parents \in Seq(Certificate)
  PROVE  Carried(ee, certs \o <<ee>> \o parents) /\ Carried(ee, Append(certs, ee))
<1>1. Carried(ee, Append(certs, ee))
  <2>1. /\ Append(certs, ee)[Len(certs) + 1] = ee /\ Len(certs) \in Nat
        /\ Len(Append(certs, ee)) = Len(certs) + 1
    OBVIOUS
  <2>2. Len(certs) + 1 \in 1 .. Len(Append(certs, ee))
    BY <2>1
  <2> QED BY <2>1, <2>2 DEF Carried
<1>2. <<ee>> \in Seq(Certificate) /\ Carried(ee, <<ee>>)
  BY DEF Carried
<1>3. certs \o <<ee>> \in Seq(Certificate) /\ Carried(ee, certs \o <<ee>>)
  BY <1>2, CertsGrow, ConcatProperties
<1>4. Carried(ee, (certs \o <<ee>>) \o parents)
  BY <1>3, CertsGrow
<1> QED BY <1>1, <1>4

\* What a signing call adds delivers what is promised of it.
LEMMA SigningDelivers ==
  ASSUME SDInv, SigningCall
  PROVE  \E si : /\ signerInfos' = Append(signerInfos, si) /\ Declared(si)
                 /\ proper' => \E e \in signed' : Sound(si, e) /\ Carried(e.ee, certs')
<1>0. /\ data \in Datas /\ contentType \in Types /\ now \in Nat /\ certs \in Seq(Certificate)
  BY DEF SDInv, SDTypeOK
<1>1. ASSUME NEW ee \in Certs, NEW key \in Keys, NEW parents \in Chains, NEW config \in Configs,
             AddSignerChainSucceeds(ee, key, parents, config)
      PROVE  \E si : /\ signerInfos' = Append(signerInfos, si) /\ Declared(si)
                     /\ proper' => \E e \in signed' : Sound(si, e) /\ Carried(e.ee, certs')
  <2> DEFINE algorithm == getCMSSignerAlgorithm(key.kind, digestOid, None)
             hash      == getHashForOID(algorithm.digest)
             attrs     == SignedAttributes(config, hash)
             message   == Message(attrs, data)
             signature == sign(key, message, hash)
             ias       == issuerAndSerial(ee, parents)
             si        == SignerInfo(ias, algorithm, attrs, config.extraUnsigned, signature)
  <2>1. /\ algorithm.signature # None /\ hash # None
        /\ signerInfos' = Append(signerInfos, si)
        /\ certs' = IF config.skipCertificates THEN certs ELSE certs \o <<ee>> \o parents
        /\ signed' = signed \cup {SigningEvent(ee, key, attrs, signature)}
        /\ proper' = (proper /\ ProperSigner(ee, key, parents, config))
    BY <1>1 DEF AddSignerChainSucceeds, AddSignerRefused
  <2>2. ee \in Certificate /\ parents \in Seq(Certificate) /\ config \in Config
    BY SignedDataAssumption
  <2>3. algorithm = getCMSSignerAlgorithm(key.kind, digestOid, None)
    OBVIOUS
  <2>4. si = SignerInfo(ias, algorithm, attrs, config.extraUnsigned,
                        sign(key, message, getHashForOID(algorithm.digest)))
    OBVIOUS
  <2>5. hash = getHashForOID(algorithm.digest)
    OBVIOUS
  <2>6. hash \in SHA
    BY <2>1, HashType
  <2>7. /\ attrs.messageDigest = {[hash |-> hash, data |-> data]}
        /\ attrs.signingTime = SigningTimes(config)
    BY DEF SignedAttributes
  <2>8. ias.issuer = (IF parents = <<>> THEN ee.issuer ELSE parents[1].subject) /\ ias.serial = ee.serial
    BY DEF issuerAndSerial
  <2>9. signature = sign(key, message, hash) /\ message = Message(attrs, data)
    OBVIOUS
  <2>10. si = SignerInfo(ias, algorithm, attrs, config.extraUnsigned, signature)
    OBVIOUS
  <2> HIDE DEF algorithm, hash, attrs, message, signature, ias, si
  <2>11. Declared(si)
    BY <2>3, <2>4, SigningDeclares
  <2>12. ASSUME proper'
         PROVE  \E e \in signed' : Sound(si, e) /\ Carried(e.ee, certs')
    <3> DEFINE e == SigningEvent(ee, key, attrs, signature)
    <3>1. /\ key = ee.key /\ digestOid \in SHA /\ key.kind # "DSA"
          /\ parents # <<>> => parents[1].subject = ee.issuer
          /\ ~config.skipCertificates
          /\ \A t \in SigningTimes(config) : ValidAt(ee, t)
      BY <2>1, <2>12 DEF ProperSigner
    <3>2. isCertMatchForIssuerAndSerial(ee, ias)
      BY <2>8, <3>1 DEF isCertMatchForIssuerAndSerial
    <3>3. attrs # NoAttributes =>
            /\ attrs.messageDigest = {[hash |-> hash, data |-> data]}
            /\ \A t \in attrs.signingTime : ValidAt(ee, t)
      BY <2>7, <3>1
    <3>4. signature = sign(ee.key, Message(attrs, data), hash)
      BY <2>9, <3>1
    <3>5. algorithm = getCMSSignerAlgorithm(ee.key.kind, digestOid, None)
      BY <2>3, <3>1
    <3>6. Sound(si, SigningEvent(ee, ee.key, attrs, signature))
      BY <2>1, <2>2, <2>5, <2>10, <3>1, <3>2, <3>3, <3>4, <3>5, SigningSound
    <3>7. Sound(si, e)
      BY <3>1, <3>6
    <3>8. e.ee = ee
      BY EventParts
    <3>9. e \in signed'
      BY <2>1
    <3> HIDE DEF e
    <3>10. Carried(ee, certs')
      BY <1>0, <2>1, <2>2, <3>1, CertCarried
    <3> QED BY <3>7, <3>8, <3>9, <3>10
  <2> QED BY <2>1, <2>11, <2>12
<1>2. ASSUME NEW ee \in Certs, NEW key \in Keys, SignWithoutAttrSucceeds(ee, key)
      PROVE  \E si : /\ signerInfos' = Append(signerInfos, si) /\ Declared(si)
                     /\ proper' => \E e \in signed' : Sound(si, e) /\ Carried(e.ee, certs')
  <2> DEFINE algorithm == getCMSSignerAlgorithm(key.kind, digestOid, encryptionOid)
             hash      == getHashForOID(algorithm.digest)
             message   == Message(NoAttributes, data)
             signature == sign(key, message, hash)
             ias       == issuerAndSerial(ee, <<>>)
             si        == SignerInfo(ias, algorithm, NoAttributes, {}, signature)
  <2>1. /\ algorithm.signature # None /\ hash # None
        /\ signerInfos' = Append(signerInfos, si)
        /\ certs' = Append(certs, ee)
        /\ signed' = signed \cup {SigningEvent(ee, key, NoAttributes, signature)}
        /\ proper' = (proper /\ ProperSignerWithoutAttr(ee, key))
    BY <1>2 DEF SignWithoutAttrSucceeds
  <2>2. ee \in Certificate
    BY SignedDataAssumption
  <2>3. algorithm = getCMSSignerAlgorithm(key.kind, digestOid, encryptionOid)
    OBVIOUS
  <2>4. si = SignerInfo(ias, algorithm, NoAttributes, {},
                        sign(key, message, getHashForOID(algorithm.digest)))
    OBVIOUS
  <2>5. hash = getHashForOID(algorithm.digest)
    OBVIOUS
  <2>8. isCertMatchForIssuerAndSerial(ee, ias)
    BY DEF issuerAndSerial, isCertMatchForIssuerAndSerial
  <2>9. signature = sign(key, message, hash) /\ message = Message(NoAttributes, data)
    OBVIOUS
  <2>10. si = SignerInfo(ias, algorithm, NoAttributes, {}, signature)
    OBVIOUS
  <2> HIDE DEF algorithm, hash, message, signature, ias, si
  <2>11. Declared(si)
    BY <2>3, <2>4, SigningDeclares
  <2>12. ASSUME proper'
         PROVE  \E e \in signed' : Sound(si, e) /\ Carried(e.ee, certs')
    <3> DEFINE e == SigningEvent(ee, key, NoAttributes, signature)
    <3>1. /\ key = ee.key /\ digestOid \in SHA /\ key.kind # "DSA"
          /\ encryptionOid = None \/ (encryptionOid = "RSA" /\ key.kind = "RSA")
      BY <2>1, <2>12 DEF ProperSignerWithoutAttr
    <3>4. signature = sign(ee.key, Message(NoAttributes, data), hash)
      BY <2>9, <3>1
    <3>5. /\ algorithm = getCMSSignerAlgorithm(ee.key.kind, digestOid, encryptionOid)
          /\ ee.key.kind # "DSA"
          /\ encryptionOid = None \/ (encryptionOid = "RSA" /\ ee.key.kind = "RSA")
      BY <2>3, <3>1
    <3>6. Sound(si, SigningEvent(ee, ee.key, NoAttributes, signature))
      BY <2>1, <2>2, <2>5, <2>8, <2>10, <3>1, <3>4, <3>5, SigningSound
    <3>7. Sound(si, e)
      BY <3>1, <3>6
    <3>8. e.ee = ee
      BY EventParts
    <3>9. e \in signed'
      BY <2>1
    <3> HIDE DEF e
    <3>10. Carried(ee, certs')
      BY <1>0, <2>1, <2>2, CertCarried, EmptySeq
    <3> QED BY <3>7, <3>8, <3>9, <3>10
  <2> QED BY <2>1, <2>11, <2>12
<1> QED BY <1>1, <1>2 DEF SigningCall

\* No method changes the data, makes an improper message proper or takes a signature, a
\* removal or a certificate back.
LEMMA HistoryGrows ==
  ASSUME SDInv, [SDNext]_sdVars
  PROVE  /\ data' = data /\ (proper' => proper) /\ (removed => removed')
         /\ signed \subseteq signed'
         /\ \A c : Carried(c, certs) => Carried(c, certs')
<1>0. certs \in Seq(Certificate)
  BY DEF SDInv, SDTypeOK
<1>1. signed \subseteq signed'
  BY SDNextInv DEF sdVars, history
<1>2. ASSUME NEW ee \in Certificate, NEW parents \in Seq(Certificate), NEW c, Carried(c, certs)
      PROVE  Carried(c, certs \o <<ee>> \o parents) /\ Carried(c, Append(certs, ee))
  <2>1. <<ee>> \in Seq(Certificate)
    OBVIOUS
  <2>2. certs \o <<ee>> \in Seq(Certificate) /\ Carried(c, certs \o <<ee>>)
    BY <1>0, <1>2, <2>1, CertsGrow, ConcatProperties
  <2>3. Carried(c, (certs \o <<ee>>) \o parents)
    BY <2>2, CertsGrow
  <2>4. Append(certs, ee) = certs \o <<ee>>
    BY <1>0, AppendIsConcat
  <2> QED BY <2>2, <2>3, <2>4
<1>3. CASE UNCHANGED sdVars
  BY <1>1, <1>3 DEF sdVars, builder, history
<1>4. ASSUME NEW ee \in Certs, NEW key \in Keys, NEW parents \in Chains, NEW config \in Configs,
             AddSignerChain(ee, key, parents, config)
      PROVE  /\ data' = data /\ (proper' => proper) /\ (removed => removed')
             /\ \A c : Carried(c, certs) => Carried(c, certs')
  <2>1. ee \in Certificate /\ parents \in Seq(Certificate)
    BY SignedDataAssumption
  <2>2. CASE AddSignerChainSucceeds(ee, key, parents, config)
    <3>1. /\ data' = data /\ (proper' => proper) /\ (removed => removed')
          /\ certs' = IF config.skipCertificates THEN certs ELSE certs \o <<ee>> \o parents
      BY <2>2 DEF AddSignerChainSucceeds
    <3> QED BY <1>2, <2>1, <3>1
  <2>3. CASE \E signerError \in BOOLEAN : AddSignerChainFails(ee, key, parents, config, signerError)
    BY <2>3 DEF AddSignerChainFails, history
  <2> QED BY <1>4, <2>2, <2>3 DEF AddSignerChain
<1>5. ASSUME NEW ee \in Certs, NEW key \in Keys, SignWithoutAttr(ee, key)
      PROVE  /\ data' = data /\ (proper' => proper) /\ (removed => removed')
             /\ \A c : Carried(c, certs) => Carried(c, certs')
  <2>1. ee \in Certificate
    BY SignedDataAssumption
  <2>2. CASE SignWithoutAttrSucceeds(ee, key)
    <3>1. /\ data' = data /\ (proper' => proper) /\ (removed => removed')
          /\ certs' = Append(certs, ee)
      BY <2>2 DEF SignWithoutAttrSucceeds
    <3> QED BY <1>2, <2>1, <3>1, EmptySeq
  <2>3. CASE \E signerError \in BOOLEAN : SignWithoutAttrFails(key, signerError)
    BY <2>3 DEF SignWithoutAttrFails, history
  <2> QED BY <1>5, <2>2, <2>3 DEF SignWithoutAttr
<1>6. ASSUME NEW cert \in Certs, AddCertificate(cert)
      PROVE  /\ data' = data /\ (proper' => proper) /\ (removed => removed')
             /\ \A c : Carried(c, certs) => Carried(c, certs')
  <2>1. cert \in Certificate
    BY SignedDataAssumption
  <2>2. /\ data' = data /\ proper' = proper /\ removed' = removed /\ certs' = Append(certs, cert)
    BY <1>6 DEF AddCertificate, history
  <2> QED BY <1>2, <2>1, <2>2, EmptySeq
<1>7. CASE \/ \E d \in DigestOids : SetDigestAlgorithm(d)
           \/ \E d \in EncryptionOids : SetEncryptionAlgorithm(d)
           \/ \E i \in 1 .. Len(signerInfos), attrs \in UnsignedLists :
                SetUnauthenticatedAttributes(i, attrs)
           \/ \E oid \in ContentTypes : SetContentType(oid)
           \/ Detach \/ RemoveAuthenticatedAttributes \/ RemoveUnauthenticatedAttributes \/ Tick
  <2>1. ASSUME NEW d, SetDigestAlgorithm(d) \/ SetEncryptionAlgorithm(d)
        PROVE  data' = data /\ (proper' => proper) /\ (removed => removed') /\ certs' = certs
    BY <2>1 DEF SetDigestAlgorithm, SetEncryptionAlgorithm, history
  <2>2. ASSUME NEW i, NEW attrs, SetUnauthenticatedAttributes(i, attrs)
        PROVE  data' = data /\ (proper' => proper) /\ (removed => removed') /\ certs' = certs
    BY <2>2 DEF SetUnauthenticatedAttributes, history
  <2>3. ASSUME NEW oid, SetContentType(oid)
        PROVE  data' = data /\ (proper' => proper) /\ (removed => removed') /\ certs' = certs
    BY <2>3 DEF SetContentType
  <2>4. ASSUME Detach \/ RemoveAuthenticatedAttributes \/ RemoveUnauthenticatedAttributes \/ Tick
        PROVE  data' = data /\ (proper' => proper) /\ (removed => removed') /\ certs' = certs
    BY <2>4 DEF Detach, RemoveAuthenticatedAttributes, RemoveUnauthenticatedAttributes, Tick,
                builder, history
  <2>5. data' = data /\ (proper' => proper) /\ (removed => removed') /\ certs' = certs
    BY <1>7, <2>1, <2>2, <2>3, <2>4
  <2> QED BY <1>1, <2>5
<1> QED BY <1>1, <1>3, <1>4, <1>5, <1>6, <1>7 DEF SDNext

\* A SignerInfo that differs in its unsigned attributes only is as good.
LEMMA SoundKept ==
  ASSUME NEW x, NEW si, NEW e, SameSigner(x, si)
  PROVE  /\ Declared(si) => Declared(x)
         /\ x.authenticated = si.authenticated /\ Sound(si, e) => Sound(x, e)
BY DEF SameSigner, Declared, Sound, AlgorithmOf, isCertMatchForIssuerAndSerial

\* No call takes back what is promised of the signers in the builder.
LEMMA DeliversStep ==
  ASSUME SDInv, SDInv', Delivers(signerInfos, certs), [SDNext]_sdVars
  PROVE  Delivers(signerInfos, certs)'
<1> DEFINE Good(si) ==
             /\ Declared(si)
             /\ proper' /\ ~removed' => \E e \in signed' : Sound(si, e) /\ Carried(e.ee, certs')
<1>0. signerInfos \in Seq(SignerInfoRecord) /\ Len(signerInfos) \in Nat
  BY LenProperties DEF SDInv, SDTypeOK
<1>1. /\ data' = data /\ (proper' => proper) /\ (removed => removed')
      /\ signed \subseteq signed'
      /\ \A c : Carried(c, certs) => Carried(c, certs')
  BY HistoryGrows
<1>2. ASSUME NEW i \in 1 .. Len(signerInfos), NEW x, SameSigner(x, signerInfos[i]),
             removed' \/ x.authenticated = signerInfos[i].authenticated
      PROVE  Good(x)
  <2>1. /\ Declared(signerInfos[i])
        /\ proper /\ ~removed => \E e \in signed : Sound(signerInfos[i], e) /\ Carried(e.ee, certs)
    BY DEF Delivers
  <2>2. Declared(x)
    BY <1>2, <2>1, SoundKept
  <2>3. ASSUME proper', ~removed'
        PROVE  \E e \in signed' : Sound(x, e) /\ Carried(e.ee, certs')
    <3>1. PICK e \in signed : Sound(signerInfos[i], e) /\ Carried(e.ee, certs)
      BY <1>1, <2>1, <2>3
    <3>2. Sound(x, e)
      BY <1>2, <2>3, <3>1, SoundKept
    <3> QED BY <1>1, <3>1, <3>2
  <2> QED BY <2>2, <2>3
<1>3. \A i \in 1 .. Len(signerInfos') : Good(signerInfos'[i])
  <2>1. CASE SignersKept
    BY <1>2, <2>1 DEF SignersKept
  <2>2. CASE SigningCall
    <3>1. PICK si : /\ signerInfos' = Append(signerInfos, si) /\ Declared(si)
                    /\ proper' => \E e \in signed' : Sound(si, e) /\ Carried(e.ee, certs')
      BY <2>2, SigningDelivers
    <3>2. /\ Len(signerInfos') = Len(signerInfos) + 1
          /\ signerInfos'[Len(signerInfos) + 1] = si
          /\ \A i \in 1 .. Len(signerInfos) : signerInfos'[i] = signerInfos[i]
      BY <1>0, <3>1
    <3>3. ASSUME NEW i \in 1 .. Len(signerInfos) PROVE Good(signerInfos'[i])
      <4>1. SameSigner(signerInfos[i], signerInfos[i])
        BY DEF SameSigner
      <4>2. Good(signerInfos[i])
        BY <1>2, <4>1
      <4> QED BY <3>2, <4>2
    <3>4. Good(signerInfos'[Len(signerInfos) + 1])
      BY <3>1, <3>2
    <3>5. \A i \in 1 .. Len(signerInfos') : i \in 1 .. Len(signerInfos) \/ i = Len(signerInfos) + 1
      BY <1>0, <3>2
    <3> HIDE DEF Good
    <3> QED BY <3>3, <3>4, <3>5
  <2> QED BY <2>1, <2>2, OthersKeep
<1>4. ASSUME NEW i \in 1 .. Len(signerInfos'), proper', ~removed'
      PROVE  \E e \in signed' : (Sound(signerInfos[i], e) /\ Carried(e.ee, certs))'
  <2>1. PICK e \in signed' : Sound(signerInfos'[i], e) /\ Carried(e.ee, certs')
    BY <1>3, <1>4
  <2>2. Sound(signerInfos[i], e)'
    BY <1>1, <2>1 DEF Sound
  <2>3. Carried(e.ee, certs)'
    BY <2>1 DEF Carried
  <2> QED BY <2>2, <2>3
<1>5. \A i \in 1 .. Len(signerInfos') : Declared(signerInfos[i])'
  BY <1>3 DEF Declared
<1> HIDE DEF Good
<1> QED BY <1>4, <1>5 DEF Delivers

\* What is promised of a list of signers is promised of the same list elsewhere, as long
\* as no method is called.
LEMMA DeliversElsewhere ==
  ASSUME NEW s, NEW cs, Delivers(s, cs), data' = data, UNCHANGED history
  PROVE  /\ signerInfos' = s /\ certs' = cs => Delivers(signerInfos, certs)'
         /\ wire'.signers = s /\ wire'.certificates = cs => Delivers(wire.signers, wire.certificates)'
         /\ p7'.signers = s /\ p7'.certificates = cs => Delivers(p7.signers, p7.certificates)'
<1>1. signed' = signed /\ proper' = proper /\ removed' = removed
  BY DEF history
<1>2. ASSUME signerInfos' = s, certs' = cs PROVE Delivers(signerInfos, certs)'
  BY <1>1, <1>2 DEF Delivers, Declared, Sound, Carried
<1>3. ASSUME wire'.signers = s, wire'.certificates = cs
      PROVE  Delivers(wire.signers, wire.certificates)'
  BY <1>1, <1>3 DEF Delivers, Declared, Sound, Carried
<1>4. ASSUME p7'.signers = s, p7'.certificates = cs
      PROVE  Delivers(p7.signers, p7.certificates)'
  BY <1>1, <1>4 DEF Delivers, Declared, Sound, Carried
<1> QED BY <1>2, <1>3, <1>4

\* Nothing is promised of no signers.
LEMMA NoSignersDeliver ==
  /\ wire'.signers = <<>> => Delivers(wire.signers, wire.certificates)'
  /\ p7'.signers = <<>> => Delivers(p7.signers, p7.certificates)'
BY DEF Delivers

\* Whatever order the signers are read back in.
LEMMA ParseDelivers ==
  ASSUME p7 \in MessageRecord, wire \in MessageRecord, Delivers(wire.signers, wire.certificates), Parse
  PROVE  Delivers(p7.signers, p7.certificates)'
<1> DEFINE s == wire.signers
<1>1. PICK order \in Orders(Len(s)) :
        p7' = [wire EXCEPT !.signers = [i \in 1 .. Len(s) |-> s[order[i]]]]
  BY DEF Parse
<1> DEFINE r == [i \in 1 .. Len(s) |-> s[order[i]]]
<1>2. s \in Seq(SignerInfoRecord) /\ Delivers(s, wire.certificates)
  BY DEF MessageRecord
<1>3. p7' = [wire EXCEPT !.signers = r] /\ data' = data /\ UNCHANGED history
  BY <1>1 DEF Parse, sdVars, builder
<1> HIDE DEF s
<1>4. \A i \in 1 .. Len(s) : order[i] \in 1 .. Len(s)
  BY DEF Orders
<1>5. Len(r) = Len(s) /\ \A i \in 1 .. Len(s) : r[i] = s[order[i]]
  BY <1>2
<1> HIDE DEF r
<1>6. Delivers(r, wire.certificates)
  BY <1>2, <1>4, <1>5 DEF Delivers
<1>7. p7'.signers = r /\ p7'.certificates = wire.certificates
  BY <1>3 DEF MessageRecord
<1> QED BY <1>3, <1>6, <1>7, DeliversElsewhere

\* No message yet.
LEMMA InitTripInv ==
  ASSUME Init
  PROVE  TripInv
<1>1. /\ signerInfos = <<>> /\ wire = NoMessage /\ p7 = NoMessage /\ changes = 0
  BY DEF Init, SDInit, NewSignedData
<1>2. NoMessage.signers = <<>>
  BY DEF NoMessage
<1> QED BY <1>1, <1>2 DEF TripInv, Delivers

\* The transport changes a message that is there.
LEMMA TamperPresent ==
  ASSUME wire \in MessageRecord, Tamper
  PROVE  wire'.present
<1>1. /\ wire.present
      /\ \E f \in {"content", "certificates", "signers"} : \E v : wire' = [wire EXCEPT ![f] = v]
  BY DEF Tamper
<1>2. PICK f \in {"content", "certificates", "signers"} : \E v : wire' = [wire EXCEPT ![f] = v]
  BY <1>1
<1> QED BY <1>1, <1>2 DEF MessageRecord

\* Every step keeps what is promised of the signers.
LEMMA NextTripInv ==
  ASSUME Inv, Inv', TripInv, [Next]_vars
  PROVE  TripInv'
<1>0. /\ SDInv /\ SDInv' /\ wire \in MessageRecord /\ p7 \in MessageRecord
      /\ Delivers(signerInfos, certs)
      /\ changes \in Nat
      /\ changes = 0 => Delivers(wire.signers, wire.certificates) /\ Delivers(p7.signers, p7.certificates)
      /\ ~wire.present => wire.signers = <<>> /\ p7.signers = <<>>
  BY DEF Inv, TripInv
<1>1. CASE ~wire.present /\ SDNext /\ UNCHANGED messageVars
  <2>1. Delivers(signerInfos, certs)'
    BY <1>0, <1>1, DeliversStep
  <2>2. /\ wire' = wire /\ p7' = p7 /\ wire'.signers = <<>> /\ p7'.signers = <<>>
        /\ changes' = changes
    BY <1>0, <1>1 DEF messageVars
  <2> QED BY <1>0, <1>1, <2>1, <2>2, NoSignersDeliver DEF TripInv
<1>2. CASE (Tick /\ UNCHANGED messageVars) \/ UNCHANGED vars
  <2>1. /\ data' = data /\ signerInfos' = signerInfos /\ certs' = certs /\ UNCHANGED history
        /\ wire' = wire /\ p7' = p7 /\ changes' = changes
    BY <1>2 DEF Tick, messageVars, vars, sdVars, builder
  <2> QED BY <1>0, <2>1, DeliversElsewhere DEF TripInv
<1>3. CASE Finish
  <2>1. /\ data' = data /\ signerInfos' = signerInfos /\ certs' = certs /\ UNCHANGED history
        /\ ~wire.present /\ p7' = p7 /\ changes' = changes
        /\ wire'.signers = signerInfos /\ wire'.certificates = certs /\ wire'.present
    BY <1>3 DEF Finish, builder
  <2>2. p7'.signers = <<>>
    BY <1>0, <2>1
  <2> QED BY <1>0, <2>1, <2>2, DeliversElsewhere, NoSignersDeliver DEF TripInv
<1>4. CASE \E chain \in Chains : DegenerateCertificate(chain)
  <2>1. /\ data' = data /\ signerInfos' = signerInfos /\ certs' = certs /\ UNCHANGED history
        /\ ~wire.present /\ p7' = p7 /\ changes' = changes
        /\ \E chain : wire' = [NoMessage EXCEPT !.present = TRUE, !.certificates = chain]
    BY <1>4 DEF DegenerateCertificate, builder
  <2>2. p7'.signers = <<>>
    BY <1>0, <2>1
  <2>3. wire'.signers = <<>> /\ wire'.present
    BY <2>1 DEF NoMessage
  <2> QED BY <1>0, <2>1, <2>2, <2>3, DeliversElsewhere, NoSignersDeliver DEF TripInv
<1>5. CASE Tamper
  <2>1. /\ data' = data /\ signerInfos' = signerInfos /\ certs' = certs /\ UNCHANGED history
        /\ changes' = changes + 1
    BY <1>5 DEF Tamper, sdVars, builder
  <2> QED BY <1>0, <1>5, <2>1, TamperPresent, DeliversElsewhere DEF TripInv
<1>6. CASE Parse
  <2>1. /\ data' = data /\ signerInfos' = signerInfos /\ certs' = certs /\ UNCHANGED history
        /\ wire' = wire /\ wire.present /\ changes' = changes
    BY <1>6 DEF Parse, sdVars, builder
  <2>2. changes = 0 => Delivers(p7.signers, p7.certificates)'
    BY <1>0, <1>6, ParseDelivers
  <2> QED BY <1>0, <2>1, <2>2, DeliversElsewhere DEF TripInv
<1>7. CASE \E b \in Known : SetContent(b)
  <2>1. /\ data' = data /\ signerInfos' = signerInfos /\ certs' = certs /\ UNCHANGED history
        /\ wire' = wire /\ changes' = changes
        /\ \E b : p7' = [p7 EXCEPT !.content = b]
    BY <1>7 DEF SetContent, sdVars, builder
  <2>2. p7'.signers = p7.signers /\ p7'.certificates = p7.certificates
    BY <1>0, <2>1 DEF MessageRecord
  <2> QED BY <1>0, <2>1, <2>2, DeliversElsewhere DEF TripInv
<1> QED BY <1>1, <1>2, <1>3, <1>4, <1>5, <1>6, <1>7 DEF Next

\* A certificate of the message is found by its issuer and serial number, if no other
\* certificate has the same.
LEMMA CertFound ==
  ASSUME NEW cs \in Seq(Certificate), UniqueNames(cs), NEW c, Carried(c, cs),
         NEW ias, isCertMatchForIssuerAndSerial(c, ias)
  PROVE  HasCert(cs, ias) /\ getCertFromCertsByIssuerAndSerial(cs, ias) = c
<1> DEFINE M == Matches(cs, ias)
           k == CHOOSE i \in M : \A j \in M : i <= j
<1>1. PICK j \in 1 .. Len(cs) : cs[j] = c
  BY DEF Carried
<1>2. j \in M /\ M \in SUBSET Nat
  BY <1>1 DEF Matches
<1>3. \E i \in M : \A l \in M : i <= l
  <2> HIDE DEF M
  <2> QED BY <1>2, FirstExists
<1>4. k \in M
  <2> HIDE DEF M
  <2> QED BY <1>3
<1>5. getCertFromCertsByIssuerAndSerial(cs, ias) = cs[k]
  BY DEF getCertFromCertsByIssuerAndSerial
<1> HIDE DEF k
<1>6. k \in 1 .. Len(cs) /\ isCertMatchForIssuerAndSerial(cs[k], ias)
  BY <1>4 DEF Matches
<1>7. isCertMatchForIssuerAndSerial(cs[k], cs[j])
  BY <1>1, <1>6 DEF isCertMatchForIssuerAndSerial
<1>8. cs[k] = c
  BY <1>1, <1>6, <1>7 DEF UniqueNames
<1> QED BY <1>2, <1>5, <1>8 DEF HasCert

\* A sound signer whose certificate is found passes its check, whenever it is made, if no
\* trust store is given.
LEMMA SoundVerifies ==
  ASSUME NEW m, NEW si, NEW e, Sound(si, e), m.content = data,
         HasCert(m.certificates, si),
         getCertFromCertsByIssuerAndSerial(m.certificates, si) = e.ee,
         NEW opts, opts.roots.nil, NEW t
  PROVE  SignerVerifies(m, si, opts, t)
<1>1. AttributesOK(m, si, e.ee)
  <2> SUFFICES ASSUME si.authenticated # NoAttributes
               PROVE  LET hash == getHashForOID(si.digestAlgorithm)
                      IN  /\ si.authenticated.messageDigest # {}
                          /\ hash # None
                          /\ FirstValue(si.authenticated.messageDigest) = [hash |-> hash, data |-> m.content]
                          /\ si.authenticated.signingTime # {} =>
                               ValidAt(e.ee, FirstValue(si.authenticated.signingTime))
    BY DEF AttributesOK, HasAttributes
  <2> DEFINE hash == getHashForOID(si.digestAlgorithm)
             digest == [hash |-> hash, data |-> data]
             times == si.authenticated.signingTime
  <2>1. /\ hash # None /\ si.authenticated.messageDigest = {digest}
        /\ \A u \in times : ValidAt(e.ee, u)
    BY DEF Sound
  <2> HIDE DEF digest, times
  <2>2. FirstValue({digest}) = digest
    BY DEF FirstValue
  <2>3. times # {} => FirstValue(times) \in times
    BY DEF FirstValue
  <2>4. digest = [hash |-> hash, data |-> m.content]
    BY DEF digest
  <2> HIDE DEF hash
  <2> QED BY <2>1, <2>2, <2>3, <2>4 DEF hash, times
<1>2. SignatureOK(m, si, e.ee)
  BY DEF SignatureOK, Sound, AlgorithmOf
<1> QED BY <1>1, <1>2 DEF SignerVerifies

\* The invariants give the property.
LEMMA InvRoundTrip ==
  ASSUME Inv, TripInv
  PROVE  RoundTrip
<1> SUFFICES ASSUME p7.present, changes = 0, proper, ~removed, p7.signers # <<>>,
                    p7.content = data, UniqueNames(p7.certificates)
             PROVE  /\ VerifySignatures(p7, now)
                    /\ Len(p7.signers) = 1 =>
                         \E e \in signed : /\ GetOnlySigner(p7) = {e.ee}
                                           /\ UnmarshalSigningTime(p7) = e.attrs.signingTime
  BY DEF RoundTrip
<1>1. p7.certificates \in Seq(Certificate)
  BY DEF Inv, MessageRecord
<1>2. ASSUME NEW i \in 1 .. Len(p7.signers)
      PROVE  \E e \in signed :
               /\ Sound(p7.signers[i], e)
               /\ HasCert(p7.certificates, p7.signers[i])
               /\ getCertFromCertsByIssuerAndSerial(p7.certificates, p7.signers[i]) = e.ee
  <2>1. PICK e \in signed : Sound(p7.signers[i], e) /\ Carried(e.ee, p7.certificates)
    BY DEF TripInv, Delivers
  <2>2. isCertMatchForIssuerAndSerial(e.ee, p7.signers[i])
    BY <2>1 DEF Sound
  <2> QED BY <1>1, <2>1, <2>2, CertFound
<1>3. VerifySignatures(p7, now)
  <2> DEFINE opts == [roots |-> NilPool, intermediates |-> Intermediates(p7), currentTime |-> 0]
  <2>1. opts.roots.nil /\ opts.currentTime = 0
    BY DEF NilPool
  <2>2. VerifySignatures(p7, now) = VerifyWithOpts(p7, opts, now)
    BY DEF VerifySignatures, VerifyWithChain
  <2> HIDE DEF opts
  <2>3. \A i \in 1 .. Len(p7.signers) : verifySignature(p7, p7.signers[i], opts, now)
    BY <1>2, <2>1, SoundVerifies DEF verifySignature
  <2> QED BY <2>1, <2>2, <2>3 DEF VerifyWithOpts
<1>4. ASSUME Len(p7.signers) = 1
      PROVE  \E e \in signed : /\ GetOnlySigner(p7) = {e.ee}
                               /\ UnmarshalSigningTime(p7) = e.attrs.signingTime
  <2>1. PICK e \in signed :
          /\ Sound(p7.signers[1], e)
          /\ HasCert(p7.certificates, p7.signers[1])
          /\ getCertFromCertsByIssuerAndSerial(p7.certificates, p7.signers[1]) = e.ee
    BY <1>2, <1>4
  <2>2. GetOnlySigner(p7) = {e.ee}
    BY <1>4, <2>1 DEF GetOnlySigner
  <2> DEFINE times == p7.signers[1].authenticated.signingTime
  <2>3. e.attrs.signingTime = times /\ \A t, u \in times : t = u
    BY <2>1 DEF Sound, Inv, SDInv, EventOK
  <2>4. UnmarshalSigningTime(p7) = IF times # {} THEN {FirstValue(times)} ELSE {}
    BY DEF UnmarshalSigningTime
  <2> HIDE DEF times
  <2>5. times # {} => FirstValue(times) \in times
    BY DEF FirstValue
  <2>6. UnmarshalSigningTime(p7) = times
    BY <2>3, <2>4, <2>5
  <2> QED BY <2>2, <2>3, <2>6
<1> QED BY <1>3, <1>4

\* A message made as the documentation says verifies at any later time, in whatever order
\* its signers are read back, and its only signer is the certificate given to AddSigner.
THEOREM RoundTripHolds == Spec => []RoundTrip
<1>1. Init => Inv /\ TripInv
  BY InitInv, InitTripInv
<1>2. Inv /\ TripInv /\ [Next]_vars => (Inv /\ TripInv)'
  BY NextInv, NextTripInv
<1>3. Inv /\ TripInv => RoundTrip
  BY InvRoundTrip
<1> QED BY <1>1, <1>2, <1>3, PTL DEF Spec

(***************************************************************************)
(* The tables agree on every message that verifies.                        *)
(*                                                                         *)
(* getHashForOID accepts OIDs of signature algorithms too, and             *)
(* SetDigestAlgorithm takes what it accepts: an ECDSA signer whose digest  *)
(* algorithm was set to ecdsa-with-SHA256 and whose signature OID was      *)
(* configured verifies, with a digest no table names.  The theorem is      *)
(* therefore about callers that set digest OIDs.                           *)
(***************************************************************************)

\* getHashForOID names a digest by its own OID.
LEMMA DigestOwnHash ==
  ASSUME NEW d \in SHA
  PROVE  getHashForOID(d) = d
BY DEF getHashForOID, SHA

\* Which algorithms a SignerInfo without algorithm parameters is checked with.
LEMMA AlgorithmCases ==
  ASSUME NEW oid, NEW d, NEW a, a = getSignatureAlgorithm(oid, NoParameters, d), a # NoAlgorithm
  PROVE  \/ a.scheme \in MLDSA
         \/ a.scheme = "Ed25519"
         \/ a.scheme = "RSA" /\ a.hash = d
         \/ a.scheme = "ECDSA" /\ (a.hash = d \/ a.hash \in SHA)
<1>1. getRSAPSSSignatureAlgorithm(NoParameters, d) = NoAlgorithm
  BY DEF getRSAPSSSignatureAlgorithm, NoParameters
<1>2. getECDSASignatureAlgorithm(d) \in {[scheme |-> "ECDSA", hash |-> d], NoAlgorithm}
  BY DEF getECDSASignatureAlgorithm
<1>3. \A h \in SHA : getHashForOID(ECDSAWith[h]) \in SHA
  BY DEF getHashForOID, SHA, ECDSAWith
<1> QED BY <1>1, <1>2, <1>3 DEF getSignatureAlgorithm

\* A signer of the builder's that passes its check names the digest it is checked with.
LEMMA DeclaredAgrees ==
  ASSUME \A d \in DigestOids : getHashForOID(d) \in {d, None},
         NEW si \in SignerInfoRecord, Declared(si),
         NEW cert, NEW message, NEW a, a = AlgorithmOf(si),
         CheckSignature(cert, a, message, si.encryptedDigest),
         a.scheme # "Ed25519"
  PROVE  GetDigestOIDForSignatureAlgorithm(a) = si.digestAlgorithm
<1> DEFINE d == si.digestAlgorithm
<1>1. /\ a = getSignatureAlgorithm(si.signatureAlgorithm, NoParameters, d) /\ a # NoAlgorithm
      /\ si.encryptedDigest.hash = a.hash /\ si.encryptedDigest.scheme = a.scheme
  BY DEF AlgorithmOf, Declared, CheckSignature
<1>2. d \in DigestOids \cup SHA
  BY DEF SignerInfoRecord
<1>3. /\ a.hash = IF a.scheme \in MLDSA \cup {"Ed25519"} THEN None ELSE getHashForOID(d)
      /\ a.scheme \in MLDSA => d = "SHA512"
  BY <1>1 DEF Declared
<1>4. getHashForOID(d) \in {d, None}
  BY <1>2, DigestOwnHash
<1> HIDE DEF d
<1>5. \/ a.scheme \in MLDSA
      \/ a.scheme = "RSA" /\ a.hash = d
      \/ a.scheme = "ECDSA" /\ (a.hash = d \/ a.hash \in SHA)
  BY <1>1, AlgorithmCases
<1>6. None \notin SHA /\ "RSA" \notin MLDSA /\ "ECDSA" \notin MLDSA
  BY DEF None, SHA, MLDSA
<1>7. CASE a.scheme \in MLDSA
  BY <1>3, <1>6, <1>7 DEF GetDigestOIDForSignatureAlgorithm, d
<1>8. CASE a.scheme \in {"RSA", "ECDSA"}
  <2>1. a.hash = d
    BY <1>3, <1>4, <1>5, <1>6, <1>8
  <2> QED BY <1>8, <2>1 DEF GetDigestOIDForSignatureAlgorithm, d
<1> QED BY <1>5, <1>7, <1>8

\* The digest that GetDigestOIDForSignatureAlgorithm gives for the algorithm a signer of an
\* unchanged message is verified with is the digest it was signed with, if callers
\* configured digests by their own OIDs or by OIDs that are refused.
THEOREM DigestsAgreeHolds ==
  ASSUME \A d \in DigestOids : getHashForOID(d) \in {d, None}
  PROVE  Spec => []DigestsAgree
<1>1. Init => Inv /\ TripInv
  BY InitInv, InitTripInv
<1>2. Inv /\ TripInv /\ [Next]_vars => (Inv /\ TripInv)'
  BY NextInv, NextTripInv
<1>3. Inv /\ TripInv => DigestsAgree
  <2> SUFFICES ASSUME Inv, TripInv, p7.present, changes = 0, VerifySignatures(p7, now),
                      NEW i \in 1 .. Len(p7.signers), AlgorithmOf(p7.signers[i]).scheme # "Ed25519"
               PROVE  GetDigestOIDForSignatureAlgorithm(AlgorithmOf(p7.signers[i]))
                        = p7.signers[i].digestAlgorithm
    BY DEF DigestsAgree, AlgorithmOf
  <2>1. p7.signers[i] \in SignerInfoRecord
    <3>1. p7.signers \in Seq(SignerInfoRecord)
      BY DEF Inv, MessageRecord
    <3> QED BY <3>1, ElementOfSeq
  <2>2. Declared(p7.signers[i])
    BY DEF TripInv, Delivers
  <2>3. PICK opts, u : SignerVerifies(p7, p7.signers[i], opts, u)
    BY VerifyChecksEverySigner
  <2>4. \E cert, message :
          CheckSignature(cert, AlgorithmOf(p7.signers[i]), message, p7.signers[i].encryptedDigest)
    BY <2>3 DEF SignerVerifies, SignatureOK, AlgorithmOf
  <2> QED BY <2>1, <2>2, <2>4, DeclaredAgrees
<1> QED BY <1>1, <1>2, <1>3, PTL DEF Spec

(***************************************************************************)
(* Signatures that outlive their certificates.                             *)
(***************************************************************************)

\* The time that a dated signer is checked at is its signing time, whatever the clock says.
LEMMA DatedTimeless ==
  ASSUME NEW m, \A i \in 1 .. Len(m.signers) : Dated(m.signers[i]), NEW pool, NEW t, NEW u,
         VerifyWithChain(m, pool, t)
  PROVE  VerifyWithChain(m, pool, u)
<1> DEFINE opts == [roots |-> pool, intermediates |-> Intermediates(m), currentTime |-> 0]
<1>1. /\ opts.currentTime = 0 /\ VerifyWithOpts(m, opts, t)
      /\ VerifyWithOpts(m, opts, u) => VerifyWithChain(m, pool, u)
  BY DEF VerifyWithChain
<1> HIDE DEF opts
<1>2. ASSUME NEW i \in 1 .. Len(m.signers)
      PROVE  verifySignature(m, m.signers[i], opts, u)
  <2>1. HasAttributes(m.signers[i]) /\ m.signers[i].authenticated.signingTime # {}
    BY DEF Dated, HasAttributes, NoAttributes
  <2>2. verifySignature(m, m.signers[i], opts, t)
    BY <1>1 DEF VerifyWithOpts
  <2> QED BY <2>1, <2>2 DEF verifySignature
<1> QED BY <1>1, <1>2 DEF VerifyWithOpts

\* What VerifyWithChain says of a message whose signers are all dated does not change as
\* time passes.
THEOREM LongTermHolds == Spec => LongTerm
<1>1. ASSUME p7.present, p7' = p7, \A i \in 1 .. Len(p7.signers) : Dated(p7.signers[i]),
             NEW pool \in Truststores
      PROVE  VerifyWithChain(p7, pool, now) = VerifyWithChain(p7, pool, now')
  <2>1. VerifyWithChain(p7, pool, now) <=> VerifyWithChain(p7, pool, now')
    BY <1>1, DatedTimeless
  <2>2. /\ VerifyWithChain(p7, pool, now) \in BOOLEAN
        /\ VerifyWithChain(p7, pool, now') \in BOOLEAN
    BY DEF VerifyWithChain, VerifyWithOpts
  <2> QED BY <2>1, <2>2
<1>2. [Next]_vars =>
        [p7.present /\ p7' = p7 /\ (\A i \in 1 .. Len(p7.signers) : Dated(p7.signers[i])) =>
           \A pool \in Truststores :
             VerifyWithChain(p7, pool, now) = VerifyWithChain(p7, pool, now')]_vars
  BY <1>1
<1> QED BY <1>2, PTL DEF Spec, LongTerm

=============================================================================
