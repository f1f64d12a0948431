-------------------------- MODULE SignedDataProofs --------------------------
(***************************************************************************)
(* Type correctness of the SignedData builder, and that every signature in *)
(* it was made by a signing call, for all constants.                       *)
(***************************************************************************)
EXTENDS SignedData, SequenceTheorems, FiniteSetTheorems, WellFoundedInduction, TLAPS

(***************************************************************************)
(* What the tables return.                                                 *)
(***************************************************************************)

\* getHashForOID returns one of the four hashes or an error.
LEMMA HashType ==
  ASSUME NEW oid
  PROVE  getHashForOID(oid) \in SHA \cup {None}
BY DEF getHashForOID, SHA, None

\* getOIDForEncryptionAlgorithm returns an OID of the package or an error.
LEMMA OIDType ==
  ASSUME NEW kind, NEW digest
  PROVE  getOIDForEncryptionAlgorithm(kind, digest) \in SignatureOids \cup {None}
BY DEF getOIDForEncryptionAlgorithm, SignatureOids

\* getCMSSignerAlgorithm, when it succeeds, returns OIDs for a SignerInfo.
LEMMA SignerAlgorithmType ==
  ASSUME NEW kind, NEW digest \in DigestOids \cup {"SHA1"},
         NEW configured \in EncryptionOids \cup {None},
         getCMSSignerAlgorithm(kind, digest, configured).signature # None
  PROVE  LET a == getCMSSignerAlgorithm(kind, digest, configured)
         IN  /\ a.digest \in DigestOids \cup SHA
             /\ a.signature \in EncryptionOids \cup SignatureOids
<1>1. getOIDForEncryptionAlgorithm(kind, digest) \in SignatureOids \cup {None}
  BY OIDType
<1>2. /\ "SHA512" \in SHA
      /\ "SHA1" \in SHA
  BY DEF SHA
<1> QED BY <1>1, <1>2 DEF getCMSSignerAlgorithm

(***************************************************************************)
(* What a signing call puts together.                                      *)
(***************************************************************************)

\* Every nonempty set of positions has a first.
LEMMA FirstExists ==
  ASSUME NEW S \in SUBSET Nat, S # {}
  PROVE  \E k \in S : \A l \in S : k <= l
<1> DEFINE R == OpToRel(<, Nat)
<1>1. IsWellFoundedOn(R, Nat)
  BY NatLessThanWellFounded
<1>2. \A x, y \in Nat : y < x => <<y, x>> \in R
  BY DEF OpToRel
<1> HIDE DEF R
<1>3. PICK x \in S : \A y \in S : ~(<<y, x>> \in R)
  BY <1>1, WFMin
<1>4. \A y \in S : x <= y
  <2> SUFFICES ASSUME NEW y \in S, y < x PROVE FALSE
    OBVIOUS
  <2>1. <<y, x>> \in R
    BY <1>2
  <2> QED BY <1>3, <2>1
<1> QED BY <1>4

\* The flag of the loop over the explicit attributes: unset before the loop, and set
\* after an iteration if it was set before it or if the entry is a signing time that
\* is not skipped.
LEMMA FlagStep ==
  ASSUME NEW config \in Config
  PROVE  LET flag == addedExplicitSigningTime(config)
             n == Len(config.extraSigned)
         IN  /\ n \in Nat
             /\ \A i \in 1 .. n :
                  flag[i] <=> flag[i - 1] \/ (i \in ExplicitTimes(config) /\ ~config.skipSigningTime)
<1> DEFINE n == Len(config.extraSigned)
           Sets(i) == i \in ExplicitTimes(config) /\ ~config.skipSigningTime
           Flag(f) == f = [i \in 0 .. n |-> IF i = 0 THEN FALSE ELSE f[i - 1] \/ Sets(i)]
           w == [i \in 0 .. n |-> \E j \in 1 .. i : Sets(j)]
<1>1. n \in Nat
  <2>1. config.extraSigned \in Seq(ExtraAttribute)
    BY DEF Config
  <2> QED BY <2>1, LenProperties
<1>2. addedExplicitSigningTime(config) = CHOOSE f : Flag(f)
  BY Zenon DEF addedExplicitSigningTime
<1> HIDE DEF n, Sets
<1>3. Flag(w)
  <2>1. ASSUME NEW i \in 0 .. n
        PROVE  (\E j \in 1 .. i : Sets(j))
                 = (IF i = 0 THEN FALSE ELSE w[i - 1] \/ Sets(i))
    <3>1. CASE i = 0
      BY <1>1, <3>1
    <3>2. CASE i # 0
      <4>1. i - 1 \in 0 .. n /\ 1 .. i = (1 .. i - 1) \cup {i}
        BY <1>1, <3>2
      <4>2. w[i - 1] = (\E j \in 1 .. i - 1 : Sets(j))
        BY <4>1
      <4>3. (\E j \in 1 .. i : Sets(j)) = ((\E j \in 1 .. i - 1 : Sets(j)) \/ Sets(i))
        BY <4>1, Zenon
      <4> QED BY <3>2, <4>2, <4>3, Zenon
    <3> QED BY <3>1, <3>2
  <2> QED BY <2>1, Zenon
<1>4. Flag(addedExplicitSigningTime(config))
  <2> HIDE DEF w, Flag
  <2> QED BY <1>2, <1>3, Zenon
<1>5. ASSUME NEW i \in 1 .. n
      PROVE  addedExplicitSigningTime(config)[i]
               <=> addedExplicitSigningTime(config)[i - 1] \/ Sets(i)
  <2>1. i \in 0 .. n /\ i # 0
    BY <1>1, <1>5
  <2> QED BY <1>4, <2>1, Zenon
<1> QED BY <1>1, <1>5 DEF n, Sets

\* Once set, the flag stays set.
LEMMA FlagStays ==
  ASSUME NEW config \in Config,
         NEW i \in 0 .. Len(config.extraSigned), NEW k \in 0 .. Len(config.extraSigned), i <= k,
         addedExplicitSigningTime(config)[i]
  PROVE  addedExplicitSigningTime(config)[k]
<1> DEFINE n == Len(config.extraSigned)
           flag == addedExplicitSigningTime(config)
           Unset == {l \in 0 .. n : i <= l /\ ~flag[l]}
<1>1. n \in Nat
  BY FlagStep
<1>2. \A l \in 1 .. n : flag[l - 1] => flag[l]
  BY FlagStep
<1> HIDE DEF n, flag
<1>3. Unset = {}
  <2> SUFFICES ASSUME Unset # {} PROVE FALSE
    OBVIOUS
  <2>1. Unset \in SUBSET Nat
    BY <1>1
  <2>2. PICK l \in Unset : \A x \in Unset : l <= x
    <3> HIDE DEF Unset
    <3> QED BY <2>1, FirstExists
  <2>3. i \in 0 .. n /\ flag[i]
    BY DEF n, flag
  <2>4. l # i
    BY <2>2, <2>3
  <2>5. l \in 1 .. n /\ l - 1 \in 0 .. n /\ i <= l - 1
    BY <1>1, <2>2, <2>3, <2>4
  <2>6. l - 1 \notin Unset
    <3> HIDE DEF Unset
    <3> QED BY <1>1, <2>2, <2>5
  <2>7. flag[l - 1]
    BY <2>5, <2>6
  <2>8. flag[l]
    BY <1>2, <2>5, <2>7
  <2> QED BY <2>2, <2>8
<1>4. k \notin Unset
  BY <1>3
<1> QED BY <1>4 DEF n, flag

\* The values of the explicit attributes are numbers.
LEMMA ExtraType ==
  ASSUME NEW config \in Config, NEW i \in 1 .. Len(config.extraSigned)
  PROVE  config.extraSigned[i].value \in Nat
<1>1. config.extraSigned \in Seq(ExtraAttribute)
  BY DEF Config
<1>2. config.extraSigned[i] \in ExtraAttribute
  BY <1>1, ElementOfSeq
<1> QED BY <1>2 DEF ExtraAttribute

\* The entries the loop adds are positions of the list.
LEMMA AddedType ==
  ASSUME NEW config
  PROVE  /\ AddedEntries(config) \subseteq 1 .. Len(config.extraSigned)
         /\ ExplicitTimes(config) \subseteq 1 .. Len(config.extraSigned)
BY DEF AddedEntries, ExplicitTimes

\* Signing times are times.
LEMMA SigningTimesType ==
  ASSUME NEW config \in Config, now \in Nat
  PROVE  SigningTimes(config) \subseteq Nat
<1>1. \A i \in AddedEntries(config) : config.extraSigned[i].value \in Nat
  BY ExtraType, AddedType
<1> QED BY <1>1 DEF SigningTimes

\* The loop adds at most one signing time: the one it adds sets the flag, which
\* stays set.
LEMMA AddedOnce ==
  ASSUME NEW config \in Config,
         NEW i \in AddedEntries(config) \cap ExplicitTimes(config),
         NEW j \in AddedEntries(config) \cap ExplicitTimes(config)
  PROVE  i >= j
<1> SUFFICES ASSUME i < j PROVE FALSE
  <2>1. i \in Int /\ j \in Int
    BY AddedType
  <2> QED BY <2>1
<1>1. Len(config.extraSigned) \in Nat
  BY FlagStep
<1>2. i \in 1 .. Len(config.extraSigned) /\ j \in 1 .. Len(config.extraSigned)
  BY AddedType
<1>3. ~config.skipSigningTime /\ ~addedExplicitSigningTime(config)[j - 1]
  BY DEF AddedEntries
<1>4. addedExplicitSigningTime(config)[i]
  BY <1>2, <1>3, FlagStep
<1>5. /\ i \in 0 .. Len(config.extraSigned)
      /\ j - 1 \in 0 .. Len(config.extraSigned)
      /\ i <= j - 1
  BY <1>1, <1>2
<1>6. addedExplicitSigningTime(config)[j - 1]
  BY <1>4, <1>5, FlagStays
<1> QED BY <1>3, <1>6

\* There is at most one: the clock's, or the first explicit one.
LEMMA SigningTimesUnique ==
  ASSUME NEW config \in Config, NEW t \in SigningTimes(config), NEW u \in SigningTimes(config)
  PROVE  t = u
<1>1. CASE ExplicitTimes(config) = {}
  BY <1>1 DEF SigningTimes
<1>2. CASE ExplicitTimes(config) # {}
  <2>1. PICK i \in AddedEntries(config) \cap ExplicitTimes(config) :
          t = config.extraSigned[i].value
    BY <1>2 DEF SigningTimes
  <2>2. PICK j \in AddedEntries(config) \cap ExplicitTimes(config) :
          u = config.extraSigned[j].value
    BY <1>2 DEF SigningTimes
  <2>3. i >= j /\ j >= i
    BY AddedOnce
  <2>4. i \in Int /\ j \in Int
    BY AddedType
  <2> QED BY <2>1, <2>2, <2>3, <2>4
<1> QED BY <1>1, <1>2

\* The attributes that AddSignerChain signs are well formed.
LEMMA SignedAttributesType ==
  ASSUME NEW config \in Config, NEW hash \in SHA,
         now \in Nat, data \in Datas, contentType \in Types
  PROVE  /\ SignedAttributes(config, hash) \in Attributes
         /\ SignedAttributes(config, hash).messageDigest = {[hash |-> hash, data |-> data]}
         /\ \A t, u \in SignedAttributes(config, hash).signingTime : t = u
<1>1. SigningTimes(config) \subseteq Nat
  BY SigningTimesType
<1>2. \A i \in AddedEntries(config) : config.extraSigned[i].value \in Nat
  BY ExtraType, AddedType
<1> DEFINE others == {config.extraSigned[i].value :
                        i \in AddedEntries(config) \ ExplicitTimes(config)}
           digests == {[hash |-> hash, data |-> data]}
<1>3. others \subseteq Nat
  BY <1>2
<1>4. digests \subseteq Digest
  BY DEF Digest, Contents
<1>5. SignedAttributes(config, hash) =
        [contentType |-> {contentType}, messageDigest |-> digests,
         signingTime |-> SigningTimes(config), other |-> others]
  BY DEF SignedAttributes
<1> HIDE DEF others, digests
<1>6. SignedAttributes(config, hash) \in Attributes
  BY <1>1, <1>3, <1>4, <1>5 DEF Attributes
<1>7. SignedAttributes(config, hash).messageDigest = digests
  BY <1>5
<1>8. SignedAttributes(config, hash).signingTime = SigningTimes(config)
  BY <1>5
<1> QED BY <1>6, <1>7, <1>8, SigningTimesUnique DEF digests

\* What is signed, with and without attributes.
LEMMA MessageType ==
  ASSUME NEW attrs \in Attributes, NEW d \in Datas
  PROVE  Message(attrs, d) \in Bytes
<1>1. CASE attrs = NoAttributes
  BY <1>1 DEF Message, Bytes, Contents
<1>2. CASE attrs # NoAttributes
  <2>1. Encoding(attrs) \in Encodings
    BY DEF Encoding, Encodings
  <2> QED BY <1>2, <2>1 DEF Message, Bytes
<1> QED BY <1>1, <1>2

\* A signature is well formed and names its key and its message.
LEMMA SignType ==
  ASSUME NEW key \in Keys, NEW hash \in SHA,
         NEW message \in Bytes
  PROVE  /\ sign(key, message, hash) \in Signature
         /\ sign(key, message, hash).key = key
         /\ sign(key, message, hash).message = message
<1>1. key.kind \in KeyKinds
  BY SignedDataAssumption DEF Key
<1> DEFINE h == IF key.kind \in MLDSA \cup {"Ed25519"} THEN None ELSE hash
<1>2. h \in SHA \cup {None}
  OBVIOUS
<1>3. sign(key, message, hash) =
        [key |-> key, hash |-> h, scheme |-> key.kind, message |-> message]
  BY DEF sign
<1> HIDE DEF h
<1> QED BY <1>1, <1>2, <1>3 DEF Signature

(***************************************************************************)
(* The invariant: types, and the tie between the signatures in the builder *)
(* and the signing calls.                                                  *)
(***************************************************************************)

Event == [ee : Certs, key : Keys, attrs : Attributes, data : Datas,
          signature : Signature]

\* A recorded call signed its data or its attributes, and attributes hold the
\* digest of its data and no other, and at most one signing time.
EventOK(e) ==
  /\ e.signature.key = e.key
  /\ e.signature.message = Message(e.attrs, e.data)
  /\ e.attrs # NoAttributes =>
       \E h \in SHA : e.attrs.messageDigest = {[hash |-> h, data |-> e.data]}
  /\ \A t, u \in e.attrs.signingTime : t = u

\* Every signature in a list of signers was made by one of the calls.
Made(signers, events) ==
  \A i \in 1 .. Len(signers) : \E e \in events : signers[i].encryptedDigest = e.signature

SDInv ==
  /\ SDTypeOK
  /\ \A e \in signed : EventOK(e)
  /\ Made(signerInfos, signed)

\* More calls do not unmake a signature.
LEMMA MadeMonotone ==
  ASSUME NEW signers, NEW events, NEW more, events \subseteq more, Made(signers, events)
  PROVE  Made(signers, more)
BY DEF Made

\* The SignerInfo a signing call adds is well formed.
LEMMA SignerInfoType ==
  ASSUME NEW ias, ias.issuer \in STRING, ias.serial \in Nat,
         NEW algorithm, algorithm.digest \in DigestOids \cup SHA,
         algorithm.signature \in EncryptionOids \cup SignatureOids,
         NEW attrs \in Attributes, NEW unsigned \in SUBSET Nat, NEW signature \in Signature
  PROVE  /\ SignerInfo(ias, algorithm, attrs, unsigned, signature) \in SignerInfoRecord
         /\ SignerInfo(ias, algorithm, attrs, unsigned, signature).encryptedDigest = signature
<1>1. NoParameters \in Parameters
  BY DEF NoParameters, Parameters
<1> QED BY <1>1 DEF SignerInfo, SignerInfoRecord

\* What both ways of signing do to the signers and to the history.
LEMMA SigningStep ==
  ASSUME SDInv, NEW ee \in Certs, NEW key \in Keys, NEW hash \in SHA,
         NEW attrs \in Attributes,
         attrs # NoAttributes => attrs.messageDigest = {[hash |-> hash, data |-> data]},
         \A t, u \in attrs.signingTime : t = u,
         NEW si \in SignerInfoRecord,
         si.encryptedDigest = sign(key, Message(attrs, data), hash),
         signerInfos' = Append(signerInfos, si),
         signed' = signed \cup
           {SigningEvent(ee, key, attrs, sign(key, Message(attrs, data), hash))}
  PROVE  /\ signerInfos' \in Seq(SignerInfoRecord)
         /\ signed' \subseteq Event
         /\ \A e \in signed' : EventOK(e)
         /\ Made(signerInfos', signed')
<1> DEFINE sig == sign(key, Message(attrs, data), hash)
           ev == SigningEvent(ee, key, attrs, sig)
<1>1. data \in Datas /\ encryptionOid \in EncryptionOids \cup {None}
      /\ signerInfos \in Seq(SignerInfoRecord) /\ signed \subseteq Event
  BY DEF SDInv, SDTypeOK, Event
<1>2. /\ sig \in Signature
      /\ sig.key = key
      /\ sig.message = Message(attrs, data)
  BY <1>1, MessageType, SignType
<1>3. si.encryptedDigest = sig /\ signed' = signed \cup {ev}
  OBVIOUS
<1> HIDE DEF sig
<1>4. ev = [ee |-> ee, key |-> key, attrs |-> attrs, data |-> data, signature |-> sig]
  BY DEF SigningEvent
<1> HIDE DEF ev
<1>5. ev \in Event
  BY <1>1, <1>2, <1>4 DEF Event
<1>6. ev.signature = sig /\ ev.key = key /\ ev.attrs = attrs /\ ev.data = data
  BY <1>4
<1>7. EventOK(ev)
  BY <1>2, <1>6 DEF EventOK
<1>8. /\ signerInfos' \in Seq(SignerInfoRecord)
      /\ Len(signerInfos') = Len(signerInfos) + 1
      /\ signerInfos'[Len(signerInfos) + 1] = si
      /\ \A i \in 1 .. Len(signerInfos) : signerInfos'[i] = signerInfos[i]
  BY <1>1, AppendProperties
<1>9. Made(signerInfos', signed')
  <2> SUFFICES ASSUME NEW i \in 1 .. Len(signerInfos')
               PROVE  \E e \in signed' : signerInfos'[i].encryptedDigest = e.signature
    BY DEF Made
  <2>1. CASE i = Len(signerInfos) + 1
    <3>1. signerInfos'[i].encryptedDigest = ev.signature
      BY <1>3, <1>6, <1>8, <2>1
    <3> QED BY <1>3, <3>1
  <2>2. CASE i # Len(signerInfos) + 1
    <3>1. i \in 1 .. Len(signerInfos)
      BY <1>1, <1>8, <2>2
    <3>2. \E e \in signed : signerInfos[i].encryptedDigest = e.signature
      BY <3>1 DEF SDInv, Made
    <3> QED BY <1>3, <1>8, <3>1, <3>2
  <2> QED BY <2>1, <2>2
<1> QED BY <1>1, <1>3, <1>5, <1>7, <1>8, <1>9 DEF SDInv

(***************************************************************************)
(* One lemma per method.                                                   *)
(***************************************************************************)

\* The chain callers pass, and the name and number taken from it.
LEMMA IssuerAndSerialType ==
  ASSUME NEW ee \in Certificate, NEW parents \in Seq(Certificate)
  PROVE  /\ issuerAndSerial(ee, parents).issuer \in STRING
         /\ issuerAndSerial(ee, parents).serial \in Nat
<1>1. ee.issuer \in STRING /\ ee.serial \in Nat
  BY DEF Certificate
<1>2. parents # <<>> => parents[1].subject \in STRING
  <2>1. parents # <<>> => 1 \in 1 .. Len(parents)
    OBVIOUS
  <2>2. parents # <<>> => parents[1] \in Certificate
    BY <2>1, ElementOfSeq
  <2> QED BY <2>2 DEF Certificate
<1> QED BY <1>1, <1>2 DEF issuerAndSerial

\* AddSignerChain that succeeds.
LEMMA AddSignerChainSucceedsStep ==
  ASSUME SDInv, NEW ee \in Certs, NEW key \in Keys, NEW parents \in Chains,
         NEW config \in Configs, AddSignerChainSucceeds(ee, key, parents, config)
  PROVE  SDInv'
<1> DEFINE algorithm == getCMSSignerAlgorithm(key.kind, digestOid, None)
           hash      == getHashForOID(algorithm.digest)
           attrs     == SignedAttributes(config, hash)
           signature == sign(key, Message(attrs, data), hash)
           si        == SignerInfo(issuerAndSerial(ee, parents), algorithm, attrs,
                                   config.extraUnsigned, signature)
<1>1. /\ data \in Datas /\ contentType \in Types /\ now \in Nat
      /\ digestOid \in DigestOids \cup {"SHA1"}
      /\ digestIds \in Seq(DigestOids \cup SHA) /\ certs \in Seq(Certificate)
      /\ proper \in BOOLEAN
  BY DEF SDInv, SDTypeOK
<1>2. /\ ee \in Certificate /\ parents \in Seq(Certificate) /\ config \in Config
  BY SignedDataAssumption
<1>3. /\ algorithm.signature # None /\ hash # None
      /\ digestIds' = Append(digestIds, algorithm.digest)
      /\ signerInfos' = Append(signerInfos, si)
      /\ certs' = IF config.skipCertificates THEN certs ELSE certs \o <<ee>> \o parents
      /\ signed' = signed \cup {SigningEvent(ee, key, attrs, signature)}
      /\ proper' = (proper /\ ProperSigner(ee, key, parents, config))
      /\ result' = "ok"
      /\ UNCHANGED <<data, contentType, content, digestOid, encryptionOid, now, removed>>
  BY DEF AddSignerChainSucceeds, AddSignerRefused
<1>4. /\ algorithm.digest \in DigestOids \cup SHA
      /\ algorithm.signature \in EncryptionOids \cup SignatureOids
  BY <1>1, <1>3, SignerAlgorithmType
<1> HIDE DEF algorithm
<1>5. hash \in SHA
  BY <1>3, HashType
<1> HIDE DEF hash
<1>6. /\ attrs \in Attributes /\ attrs.messageDigest = {[hash |-> hash, data |-> data]}
      /\ \A t, u \in attrs.signingTime : t = u
  BY <1>1, <1>2, <1>5, SignedAttributesType
<1> HIDE DEF attrs
<1>7. signature \in Signature
  BY <1>1, <1>5, <1>6, MessageType, SignType
<1>8. si \in SignerInfoRecord /\ si.encryptedDigest = signature
  <2>1. config.extraUnsigned \in SUBSET Nat
    BY <1>2 DEF Config
  <2>2. /\ issuerAndSerial(ee, parents).issuer \in STRING
        /\ issuerAndSerial(ee, parents).serial \in Nat
    BY <1>2, IssuerAndSerialType
  <2> HIDE DEF signature
  <2> QED BY <1>4, <1>6, <1>7, <2>1, <2>2, SignerInfoType
<1> HIDE DEF si
<1>9. /\ signerInfos' \in Seq(SignerInfoRecord)
      /\ signed' \subseteq Event
      /\ \A e \in signed' : EventOK(e)
      /\ Made(signerInfos', signed')
  BY <1>3, <1>5, <1>6, <1>8, SigningStep
<1>10. digestIds' \in Seq(DigestOids \cup SHA)
  BY <1>1, <1>3, <1>4
<1>11. certs' \in Seq(Certificate)
  BY <1>1, <1>2, <1>3
<1>12. proper' \in BOOLEAN
  BY <1>3, Zenon
<1> HIDE DEF signature
<1> QED BY <1>3, <1>9, <1>10, <1>11, <1>12 DEF SDInv, SDTypeOK, Event

\* A signing call that fails changes the list of digests at most.
LEMMA FailedSigningStep ==
  ASSUME SDInv, NEW d, d \in DigestOids \cup SHA,
         digestIds' = digestIds \/ digestIds' = Append(digestIds, d),
         result' = "error",
         UNCHANGED <<data, contentType, content, digestOid, encryptionOid, certs, signerInfos,
                     now, history>>
  PROVE  SDInv'
<1>1. digestIds' \in Seq(DigestOids \cup SHA)
  BY SMTT(30) DEF SDInv, SDTypeOK
<1> QED BY <1>1 DEF SDInv, SDTypeOK, history, EventOK, Made

\* AddSignerChain that fails.
LEMMA AddSignerChainFailsStep ==
  ASSUME SDInv, NEW ee \in Certs, NEW key \in Keys, NEW parents \in Chains,
         NEW config \in Configs, NEW signerError \in BOOLEAN,
         AddSignerChainFails(ee, key, parents, config, signerError)
  PROVE  SDInv'
<1> DEFINE algorithm == getCMSSignerAlgorithm(key.kind, digestOid, None)
<1>1. /\ \/ digestIds' = digestIds
         \/ algorithm.signature # None /\ digestIds' = Append(digestIds, algorithm.digest)
      /\ result' = "error"
      /\ UNCHANGED <<data, contentType, content, digestOid, encryptionOid, certs, signerInfos,
                     now, history>>
  BY DEF AddSignerChainFails, AddSignerRefused
<1>2. digestOid \in DigestOids \cup {"SHA1"}
  BY DEF SDInv, SDTypeOK
<1>3. CASE digestIds' = digestIds
  <2>1. "SHA1" \in DigestOids \cup SHA
    BY DEF SHA
  <2> QED BY <1>1, <1>3, <2>1, FailedSigningStep
<1>4. CASE algorithm.signature # None /\ digestIds' = Append(digestIds, algorithm.digest)
  <2>1. algorithm.digest \in DigestOids \cup SHA
    BY <1>2, <1>4, SignerAlgorithmType
  <2> QED BY <1>1, <1>4, <2>1, FailedSigningStep
<1> QED BY <1>1, <1>3, <1>4

\* SignWithoutAttr that succeeds.
LEMMA SignWithoutAttrSucceedsStep ==
  ASSUME SDInv, NEW ee \in Certs, NEW key \in Keys, SignWithoutAttrSucceeds(ee, key)
  PROVE  SDInv'
<1> DEFINE algorithm == getCMSSignerAlgorithm(key.kind, digestOid, encryptionOid)
           hash      == getHashForOID(algorithm.digest)
           signature == sign(key, Message(NoAttributes, data), hash)
           si        == SignerInfo(issuerAndSerial(ee, <<>>), algorithm, NoAttributes, {},
                                   signature)
<1>1. /\ data \in Datas
      /\ digestOid \in DigestOids \cup {"SHA1"}
      /\ encryptionOid \in EncryptionOids \cup {None}
      /\ digestIds \in Seq(DigestOids \cup SHA) /\ certs \in Seq(Certificate)
  BY DEF SDInv, SDTypeOK
<1>2. /\ algorithm.signature # None /\ hash # None
      /\ digestIds' = Append(digestIds, algorithm.digest)
      /\ signerInfos' = Append(signerInfos, si)
      /\ certs' = Append(certs, ee)
      /\ signed' = signed \cup {SigningEvent(ee, key, NoAttributes, signature)}
      /\ proper' = (proper /\ ProperSignerWithoutAttr(ee, key))
      /\ result' = "ok"
      /\ UNCHANGED <<data, contentType, content, digestOid, encryptionOid, now, removed>>
  BY DEF SignWithoutAttrSucceeds
<1>3. /\ algorithm.digest \in DigestOids \cup SHA
      /\ algorithm.signature \in EncryptionOids \cup SignatureOids
  BY <1>1, <1>2, SignerAlgorithmType
<1> HIDE DEF algorithm
<1>4. hash \in SHA
  BY <1>2, HashType
<1> HIDE DEF hash
<1>5. NoAttributes \in Attributes /\ NoAttributes.signingTime = {}
  BY DEF NoAttributes, Attributes
<1>6. signature \in Signature
  BY <1>1, <1>4, <1>5, MessageType, SignType
<1>7. ee \in Certificate
  BY SignedDataAssumption
<1>8. si \in SignerInfoRecord /\ si.encryptedDigest = signature
  <2>1. {} \in SUBSET Nat /\ <<>> \in Seq(Certificate)
    OBVIOUS
  <2>2. /\ issuerAndSerial(ee, <<>>).issuer \in STRING
        /\ issuerAndSerial(ee, <<>>).serial \in Nat
    BY <1>7, <2>1, IssuerAndSerialType
  <2> HIDE DEF signature
  <2> QED BY <1>3, <1>5, <1>6, <2>1, <2>2, SignerInfoType
<1> HIDE DEF si
<1>9. /\ signerInfos' \in Seq(SignerInfoRecord)
      /\ signed' \subseteq Event
      /\ \A e \in signed' : EventOK(e)
      /\ Made(signerInfos', signed')
  BY <1>2, <1>4, <1>5, <1>8, SigningStep
<1>10. digestIds' \in Seq(DigestOids \cup SHA)
  BY <1>1, <1>2, <1>3
<1>11. certs' \in Seq(Certificate)
  BY <1>1, <1>2, <1>7
<1>12. proper' \in BOOLEAN
  BY <1>2, Zenon
<1> HIDE DEF signature
<1> QED BY <1>2, <1>9, <1>10, <1>11, <1>12 DEF SDInv, SDTypeOK, Event

\* SignWithoutAttr that fails.
LEMMA SignWithoutAttrFailsStep ==
  ASSUME SDInv, NEW key \in Keys, NEW signerError \in BOOLEAN,
         SignWithoutAttrFails(key, signerError)
  PROVE  SDInv'
<1> DEFINE algorithm == getCMSSignerAlgorithm(key.kind, digestOid, encryptionOid)
<1>1. /\ \/ digestIds' = digestIds
         \/ algorithm.signature # None /\ digestIds' = Append(digestIds, algorithm.digest)
      /\ result' = "error"
      /\ UNCHANGED <<data, contentType, content, digestOid, encryptionOid, certs, signerInfos,
                     now, history>>
  BY DEF SignWithoutAttrFails
<1>2. digestOid \in DigestOids \cup {"SHA1"} /\ encryptionOid \in EncryptionOids \cup {None}
  BY DEF SDInv, SDTypeOK
<1>3. CASE digestIds' = digestIds
  <2>1. "SHA1" \in DigestOids \cup SHA
    BY DEF SHA
  <2> QED BY <1>1, <1>3, <2>1, FailedSigningStep
<1>4. CASE algorithm.signature # None /\ digestIds' = Append(digestIds, algorithm.digest)
  <2>1. algorithm.digest \in DigestOids \cup SHA
    BY <1>2, <1>4, SignerAlgorithmType
  <2> QED BY <1>1, <1>4, <2>1, FailedSigningStep
<1> QED BY <1>1, <1>3, <1>4

\* A list of n well-formed records is a list of SignerInfos with the signatures
\* it is given.
LEMMA SignersOf ==
  ASSUME NEW old \in Seq(SignerInfoRecord), NEW new,
         new = [i \in 1 .. Len(old) |-> new[i]],
         \A i \in 1 .. Len(old) : /\ new[i] \in SignerInfoRecord
                                  /\ new[i].encryptedDigest = old[i].encryptedDigest,
         NEW events, Made(old, events)
  PROVE  new \in Seq(SignerInfoRecord) /\ Made(new, events)
<1>1. new \in Seq(SignerInfoRecord) /\ Len(new) = Len(old)
  OBVIOUS
<1> QED BY <1>1 DEF Made

\* Replacing the attributes of a SignerInfo leaves its signature.
LEMMA AttributesReplaced ==
  ASSUME NEW si \in SignerInfoRecord, NEW attrs \in Attributes, NEW unsigned \in SUBSET Nat
  PROVE  /\ [si EXCEPT !.authenticated = attrs] \in SignerInfoRecord
         /\ [si EXCEPT !.authenticated = attrs].encryptedDigest = si.encryptedDigest
         /\ [si EXCEPT !.unauthenticated = unsigned] \in SignerInfoRecord
         /\ [si EXCEPT !.unauthenticated = unsigned].encryptedDigest = si.encryptedDigest
BY DEF SignerInfoRecord

\* A method that changes the SignerInfos and not their signatures.
LEMMA SignersReplacedStep ==
  ASSUME SDInv, signerInfos' \in Seq(SignerInfoRecord), Made(signerInfos', signed),
         result' \in {"ok", "error"}, removed' \in BOOLEAN,
         UNCHANGED <<data, contentType, content, digestOid, encryptionOid, digestIds, certs,
                     now, signed, proper>>
  PROVE  SDInv'
BY DEF SDInv, SDTypeOK, EventOK, Made

\* RemoveAuthenticatedAttributes.
LEMMA RemoveAuthenticatedAttributesStep ==
  ASSUME SDInv, RemoveAuthenticatedAttributes
  PROVE  SDInv'
<1> DEFINE f(i) == [signerInfos[i] EXCEPT !.authenticated = NoAttributes]
<1>1. signerInfos \in Seq(SignerInfoRecord) /\ Made(signerInfos, signed)
  BY DEF SDInv, SDTypeOK
<1>2. signerInfos' = [i \in 1 .. Len(signerInfos) |-> f(i)]
  BY DEF RemoveAuthenticatedAttributes
<1>3. NoAttributes \in Attributes /\ {} \in SUBSET Nat
  BY DEF NoAttributes, Attributes
<1>4. \A i \in 1 .. Len(signerInfos) :
        f(i) \in SignerInfoRecord /\ f(i).encryptedDigest = signerInfos[i].encryptedDigest
  BY <1>1, <1>3, ElementOfSeq, AttributesReplaced
<1> HIDE DEF f
<1>5. signerInfos' \in Seq(SignerInfoRecord) /\ Made(signerInfos', signed)
  <2>1. \A i \in 1 .. Len(signerInfos) : signerInfos'[i] = f(i)
    BY <1>2
  <2> QED BY <1>1, <1>2, <1>4, <2>1, SignersOf
<1>6. removed' \in BOOLEAN
  BY DEF RemoveAuthenticatedAttributes
<1> QED BY <1>5, <1>6, SignersReplacedStep DEF RemoveAuthenticatedAttributes

\* RemoveUnauthenticatedAttributes.
LEMMA RemoveUnauthenticatedAttributesStep ==
  ASSUME SDInv, RemoveUnauthenticatedAttributes
  PROVE  SDInv'
<1> DEFINE f(i) == [signerInfos[i] EXCEPT !.unauthenticated = {}]
<1>1. signerInfos \in Seq(SignerInfoRecord) /\ Made(signerInfos, signed)
  BY DEF SDInv, SDTypeOK
<1>2. signerInfos' = [i \in 1 .. Len(signerInfos) |-> f(i)]
  BY DEF RemoveUnauthenticatedAttributes
<1>3. NoAttributes \in Attributes /\ {} \in SUBSET Nat
  BY DEF NoAttributes, Attributes
<1>4. \A i \in 1 .. Len(signerInfos) :
        f(i) \in SignerInfoRecord /\ f(i).encryptedDigest = signerInfos[i].encryptedDigest
  BY <1>1, <1>3, ElementOfSeq, AttributesReplaced
<1> HIDE DEF f
<1>5. signerInfos' \in Seq(SignerInfoRecord) /\ Made(signerInfos', signed)
  <2>1. \A i \in 1 .. Len(signerInfos) : signerInfos'[i] = f(i)
    BY <1>2
  <2> QED BY <1>1, <1>2, <1>4, <2>1, SignersOf
<1>6. removed' \in BOOLEAN
  BY DEF RemoveUnauthenticatedAttributes, history, SDInv, SDTypeOK
<1> QED BY <1>5, <1>6, SignersReplacedStep DEF RemoveUnauthenticatedAttributes, history

\* SetUnauthenticatedAttributes, whether it succeeds or fails.
LEMMA SetUnauthenticatedAttributesStep ==
  ASSUME SDInv, NEW i \in 1 .. Len(signerInfos), NEW attrs \in UnsignedLists,
         SetUnauthenticatedAttributes(i, attrs)
  PROVE  SDInv'
<1>1. signerInfos \in Seq(SignerInfoRecord) /\ Made(signerInfos, signed)
      /\ removed \in BOOLEAN
  BY DEF SDInv, SDTypeOK
<1>2. attrs \in SUBSET Nat
  BY SignedDataAssumption DEF UnsignedLists, Config
<1>3. removed' \in BOOLEAN
  BY <1>1 DEF SetUnauthenticatedAttributes, history
<1>4. CASE UNCHANGED signerInfos /\ result' = "error"
  BY <1>1, <1>3, <1>4, SignersReplacedStep DEF SetUnauthenticatedAttributes, history
<1>5. CASE signerInfos' = [signerInfos EXCEPT ![i].unauthenticated = attrs] /\ result' = "ok"
  <2> DEFINE si == [signerInfos[i] EXCEPT !.unauthenticated = attrs]
  <2>1. signerInfos[i] \in SignerInfoRecord
    BY <1>1, ElementOfSeq
  <2>2. NoAttributes \in Attributes
    BY DEF NoAttributes, Attributes
  <2>3. si \in SignerInfoRecord /\ si.encryptedDigest = signerInfos[i].encryptedDigest
    BY <1>2, <2>1, <2>2, AttributesReplaced
  <2>4. signerInfos' = [signerInfos EXCEPT ![i] = si]
    BY <1>5
  <2> HIDE DEF si
  <2>5. /\ signerInfos' \in Seq(SignerInfoRecord)
        /\ Len(signerInfos') = Len(signerInfos)
        /\ \A j \in 1 .. Len(signerInfos) :
             signerInfos'[j] = IF j = i THEN si ELSE signerInfos[j]
    BY <1>1, <2>3, <2>4, ExceptSeq
  <2>6. Made(signerInfos', signed)
    BY <1>1, <2>3, <2>5 DEF Made
  <2> QED BY <1>3, <1>5, <2>5, <2>6, SignersReplacedStep DEF SetUnauthenticatedAttributes, history
<1> QED BY <1>4, <1>5 DEF SetUnauthenticatedAttributes

\* The methods that assign fields of the structure, and the clock.
LEMMA FieldStep ==
  ASSUME SDInv,
         \/ \E d \in DigestOids : SetDigestAlgorithm(d)
         \/ \E d \in EncryptionOids : SetEncryptionAlgorithm(d)
         \/ \E oid \in ContentTypes : SetContentType(oid)
         \/ Detach
  PROVE  SDInv'
<1>1. CASE \E d \in DigestOids : SetDigestAlgorithm(d)
  BY <1>1 DEF SetDigestAlgorithm, history, SDInv, SDTypeOK, EventOK, Made
<1>2. CASE \E d \in EncryptionOids : SetEncryptionAlgorithm(d)
  BY <1>2 DEF SetEncryptionAlgorithm, history, SDInv, SDTypeOK, EventOK, Made
<1>3. CASE \E oid \in ContentTypes : SetContentType(oid)
  <2>1. proper' \in BOOLEAN
    BY <1>3, Zenon DEF SetContentType
  <2> QED BY <1>3, <2>1 DEF SetContentType, SDInv, SDTypeOK, EventOK, Made, Types
<1>4. CASE Detach
  BY <1>4 DEF Detach, history, SDInv, SDTypeOK, EventOK, Made, Types
<1> QED BY <1>1, <1>2, <1>3, <1>4

\* The clock.
LEMMA TickStep ==
  ASSUME SDInv, Tick
  PROVE  SDInv'
BY DEF Tick, builder, history, SDInv, SDTypeOK, EventOK, Made

\* AddCertificate.
LEMMA AddCertificateStep ==
  ASSUME SDInv, NEW cert \in Certs, AddCertificate(cert)
  PROVE  SDInv'
<1>1. certs' \in Seq(Certificate)
  BY SignedDataAssumption DEF AddCertificate, SDInv, SDTypeOK
<1> QED BY <1>1 DEF AddCertificate, history, SDInv, SDTypeOK, EventOK, Made

(***************************************************************************)
(* The theorem.                                                            *)
(***************************************************************************)

\* A new builder satisfies the invariant.
LEMMA SDInitInv ==
  ASSUME SDInit
  PROVE  SDInv
<1>1. /\ digestIds \in Seq(DigestOids \cup SHA) /\ certs \in Seq(Certificate)
      /\ signerInfos \in Seq(SignerInfoRecord) /\ Len(signerInfos) = 0
  BY DEF SDInit, NewSignedData
<1>2. SDTypeOK
  BY <1>1 DEF SDInit, NewSignedData, SDTypeOK, Types
<1> QED BY <1>1, <1>2 DEF SDInit, SDInv, Made

\* Every method keeps it, and no method forgets a signing call.
LEMMA SDNextInv ==
  ASSUME SDInv, SDNext
  PROVE  SDInv' /\ signed \subseteq signed'
<1>1. CASE \E ee \in Certs, key \in Keys, parents \in Chains, config \in Configs :
             AddSignerChain(ee, key, parents, config)
  <2> PICK ee \in Certs, key \in Keys, parents \in Chains, config \in Configs :
             AddSignerChain(ee, key, parents, config)
    BY <1>1
  <2>1. CASE AddSignerChainSucceeds(ee, key, parents, config)
    <3>1. signed \subseteq signed'
      BY <2>1 DEF AddSignerChainSucceeds
    <3> QED BY <2>1, <3>1, AddSignerChainSucceedsStep
  <2>2. CASE \E signerError \in BOOLEAN :
               AddSignerChainFails(ee, key, parents, config, signerError)
    <3>1. signed \subseteq signed'
      BY <2>2 DEF AddSignerChainFails, history
    <3> QED BY <2>2, <3>1, AddSignerChainFailsStep
  <2> QED BY <2>1, <2>2 DEF AddSignerChain
<1>2. CASE \E ee \in Certs, key \in Keys : SignWithoutAttr(ee, key)
  <2> PICK ee \in Certs, key \in Keys : SignWithoutAttr(ee, key)
    BY <1>2
  <2>1. CASE SignWithoutAttrSucceeds(ee, key)
    <3>1. signed \subseteq signed'
      BY <2>1 DEF SignWithoutAttrSucceeds
    <3> QED BY <2>1, <3>1, SignWithoutAttrSucceedsStep
  <2>2. CASE \E signerError \in BOOLEAN : SignWithoutAttrFails(key, signerError)
    <3>1. signed \subseteq signed'
      BY <2>2 DEF SignWithoutAttrFails, history
    <3> QED BY <2>2, <3>1, SignWithoutAttrFailsStep
  <2> QED BY <2>1, <2>2 DEF SignWithoutAttr
<1>3. CASE \E i \in 1 .. Len(signerInfos), attrs \in UnsignedLists :
             SetUnauthenticatedAttributes(i, attrs)
  BY <1>3, SetUnauthenticatedAttributesStep DEF SetUnauthenticatedAttributes, history
<1>4. CASE \E cert \in Certs : AddCertificate(cert)
  BY <1>4, AddCertificateStep DEF AddCertificate, history
<1>5. CASE \/ \E d \in DigestOids : SetDigestAlgorithm(d)
           \/ \E d \in EncryptionOids : SetEncryptionAlgorithm(d)
           \/ \E oid \in ContentTypes : SetContentType(oid)
           \/ Detach
  <2>1. signed' = signed
    BY <1>5 DEF SetDigestAlgorithm, SetEncryptionAlgorithm, SetContentType, Detach, history
  <2> QED BY <1>5, <2>1, FieldStep
<1>6. CASE RemoveAuthenticatedAttributes
  BY <1>6, RemoveAuthenticatedAttributesStep DEF RemoveAuthenticatedAttributes
<1>7. CASE RemoveUnauthenticatedAttributes
  BY <1>7, RemoveUnauthenticatedAttributesStep DEF RemoveUnauthenticatedAttributes, history
<1>8. CASE Tick
  BY <1>8, TickStep DEF Tick, history
<1> QED BY <1>1, <1>2, <1>3, <1>4, <1>5, <1>6, <1>7, <1>8 DEF SDNext

\* A call that changes nothing.
LEMMA SDStutterInv ==
  ASSUME SDInv, UNCHANGED sdVars
  PROVE  SDInv'
BY DEF sdVars, builder, history, SDInv, SDTypeOK, EventOK, Made

\* Whatever sequence of its methods is called, with whatever arguments of the
\* right types, the builder holds SignerInfos, certificates and identifiers of
\* the types Finish encodes.
THEOREM BuilderTypeCorrect == SDSpec => []SDTypeOK
<1>1. SDInit => SDInv
  BY SDInitInv
<1>2. SDInv /\ [SDNext]_sdVars => SDInv'
  BY SDNextInv, SDStutterInv
<1>3. SDInv => SDTypeOK
  BY DEF SDInv
<1> QED BY <1>1, <1>2, <1>3, PTL DEF SDSpec

\* Steps of the builder that end in an error, or that leave an earlier error
\* standing, touch nothing Finish says about signers and content.
LEMMA ErrorStep ==
  ASSUME SDNext, result' = "error"
  PROVE  UNCHANGED <<signerInfos, certs, contentType, content>>
<1>1. ASSUME NEW ee \in Certs, NEW key \in Keys, NEW parents \in Chains, NEW config \in Configs,
             AddSignerChain(ee, key, parents, config)
      PROVE  UNCHANGED <<signerInfos, certs, contentType, content>>
  <2>1. ~AddSignerChainSucceeds(ee, key, parents, config)
    BY DEF AddSignerChainSucceeds
  <2> QED BY <1>1, <2>1 DEF AddSignerChain, AddSignerChainFails
<1>2. ASSUME NEW ee \in Certs, NEW key \in Keys, SignWithoutAttr(ee, key)
      PROVE  UNCHANGED <<signerInfos, certs, contentType, content>>
  <2>1. ~SignWithoutAttrSucceeds(ee, key)
    BY DEF SignWithoutAttrSucceeds
  <2> QED BY <1>2, <2>1 DEF SignWithoutAttr, SignWithoutAttrFails
<1>3. CASE \E i \in 1 .. Len(signerInfos), attrs \in UnsignedLists :
             SetUnauthenticatedAttributes(i, attrs)
  BY <1>3 DEF SetUnauthenticatedAttributes
<1>4. CASE Tick
  BY <1>4 DEF Tick, builder
<1>5. /\ ~\E d \in DigestOids : SetDigestAlgorithm(d)
      /\ ~\E d \in EncryptionOids : SetEncryptionAlgorithm(d)
      /\ ~\E cert \in Certs : AddCertificate(cert)
      /\ ~\E oid \in ContentTypes : SetContentType(oid)
      /\ ~Detach /\ ~RemoveAuthenticatedAttributes /\ ~RemoveUnauthenticatedAttributes
  BY DEF SetDigestAlgorithm, SetEncryptionAlgorithm, AddCertificate, SetContentType, Detach,
         RemoveAuthenticatedAttributes, RemoveUnauthenticatedAttributes
<1> QED BY <1>1, <1>2, <1>3, <1>4, <1>5 DEF SDNext

\* A call that returns an error leaves no SignerInfo and no certificate behind
\* and changes neither content nor content type.
THEOREM FailedCallHolds == SDSpec => FailedCallAddsNoSigner
<1>1. [SDNext]_sdVars =>
        [result' = "error" => UNCHANGED <<signerInfos, certs, contentType, content>>]_sdVars
  BY ErrorStep DEF sdVars, builder
<1> QED BY <1>1, PTL DEF SDSpec, FailedCallAddsNoSigner

(***************************************************************************)
(* The list of digest algorithms covers the signers.                       *)
(***************************************************************************)

UsesOf(s, d) == {i \in 1 .. Len(s) : s[i].digestAlgorithm = d}
ListsOf(l, d) == {j \in 1 .. Len(l) : l[j] = d}

\* Each digest is listed as often as signers use it, and no signer has two signing
\* times.
Covered == \A d \in DigestOids \cup SHA :
             Cardinality(UsesOf(signerInfos, d)) <= Cardinality(ListsOf(digestIds, d))
OneTime(si) == \A t, u \in si.authenticated.signingTime : t = u
Timed == \A i \in 1 .. Len(signerInfos) : OneTime(signerInfos[i])
ListInv == Covered /\ Timed

\* All of a SignerInfo but its attributes.
SameSigner(x, si) ==
  /\ x.issuer = si.issuer /\ x.serial = si.serial
  /\ x.digestAlgorithm = si.digestAlgorithm
  /\ x.signatureAlgorithm = si.signatureAlgorithm /\ x.parameters = si.parameters
  /\ x.encryptedDigest = si.encryptedDigest

\* What a method does to the signers that were there.
SignersKept ==
  /\ Len(signerInfos') = Len(signerInfos)
  /\ \A i \in 1 .. Len(signerInfos) :
       /\ SameSigner(signerInfos'[i], signerInfos[i])
       /\ \/ removed' /\ signerInfos'[i].authenticated.signingTime = {}
          \/ signerInfos'[i].authenticated = signerInfos[i].authenticated
  /\ digestIds' = digestIds \/ \E d \in DigestOids \cup SHA : digestIds' = Append(digestIds, d)

\* A method that signs.
SigningCall ==
  \/ \E ee \in Certs, key \in Keys, parents \in Chains, config \in Configs :
       AddSignerChainSucceeds(ee, key, parents, config)
  \/ \E ee \in Certs, key \in Keys : SignWithoutAttrSucceeds(ee, key)

\* What it adds.
SignerAdded ==
  \E si \in SignerInfoRecord :
    /\ signerInfos' = Append(signerInfos, si) /\ OneTime(si)
    /\ digestIds' = Append(digestIds, si.digestAlgorithm)

\* Positions of a list.
LEMMA PositionsFinite ==
  ASSUME NEW n \in Nat, NEW T, T \subseteq 1 .. n
  PROVE  IsFiniteSet(T) /\ Cardinality(T) \in Nat
<1>1. IsFiniteSet(1 .. n)
  BY FS_Interval
<1>2. IsFiniteSet(T)
  BY <1>1, FS_Subset
<1> QED BY <1>2, FS_CardinalityType

\* ... and of one with one more element.
LEMMA UsesAppend ==
  ASSUME NEW S, NEW s \in Seq(S), NEW x \in S, NEW d
  PROVE  /\ IsFiniteSet(UsesOf(s, d)) /\ Cardinality(UsesOf(s, d)) \in Nat
         /\ Cardinality(UsesOf(Append(s, x), d)) =
              IF x.digestAlgorithm = d THEN Cardinality(UsesOf(s, d)) + 1
              ELSE Cardinality(UsesOf(s, d))
<1> DEFINE n == Len(s)
           t == Append(s, x)
           old == UsesOf(s, d)
           new == UsesOf(t, d)
<1>1. /\ n \in Nat /\ Len(t) = n + 1 /\ t[n + 1] = x
      /\ \A i \in 1 .. n : t[i] = s[i]
  BY AppendProperties, LenProperties
<1> HIDE DEF t, n
<1>2. old \subseteq 1 .. n /\ n + 1 \notin old
  BY <1>1 DEF UsesOf, n
<1>3. IsFiniteSet(old) /\ Cardinality(old) \in Nat
  BY <1>1, <1>2, PositionsFinite
<1>4. new = IF x.digestAlgorithm = d THEN old \cup {n + 1} ELSE old
  BY <1>1 DEF UsesOf, n
<1> HIDE DEF old, new
<1>5. x.digestAlgorithm = d => Cardinality(new) = Cardinality(old) + 1
  BY <1>2, <1>3, <1>4, FS_AddElement
<1> QED BY <1>3, <1>4, <1>5 DEF old, new, t

LEMMA ListsAppend ==
  ASSUME NEW S, NEW s \in Seq(S), NEW x \in S, NEW d
  PROVE  /\ IsFiniteSet(ListsOf(s, d)) /\ Cardinality(ListsOf(s, d)) \in Nat
         /\ Cardinality(ListsOf(Append(s, x), d)) =
              IF x = d THEN Cardinality(ListsOf(s, d)) + 1 ELSE Cardinality(ListsOf(s, d))
<1> DEFINE n == Len(s)
           t == Append(s, x)
           old == ListsOf(s, d)
           new == ListsOf(t, d)
<1>1. /\ n \in Nat /\ Len(t) = n + 1 /\ t[n + 1] = x
      /\ \A i \in 1 .. n : t[i] = s[i]
  BY AppendProperties, LenProperties
<1> HIDE DEF t, n
<1>2. old \subseteq 1 .. n /\ n + 1 \notin old
  BY <1>1 DEF ListsOf, n
<1>3. IsFiniteSet(old) /\ Cardinality(old) \in Nat
  BY <1>1, <1>2, PositionsFinite
<1>4. new = IF x = d THEN old \cup {n + 1} ELSE old
  BY <1>1 DEF ListsOf, n
<1> HIDE DEF old, new
<1>5. x = d => Cardinality(new) = Cardinality(old) + 1
  BY <1>2, <1>3, <1>4, FS_AddElement
<1> QED BY <1>3, <1>4, <1>5 DEF old, new, t

LEMMA ListInvStep ==
  ASSUME SDInv, ListInv, SignersKept \/ SignerAdded
  PROVE  ListInv'
<1>0. signerInfos \in Seq(SignerInfoRecord) /\ digestIds \in Seq(DigestOids \cup SHA)
  BY DEF SDInv, SDTypeOK
<1>1. CASE SignersKept
  <2>1. Timed'
    BY <1>1 DEF SignersKept, ListInv, Timed, OneTime
  <2>2. ASSUME NEW d \in DigestOids \cup SHA
        PROVE  Cardinality(UsesOf(signerInfos', d)) <= Cardinality(ListsOf(digestIds', d))
    <3> DEFINE u == Cardinality(UsesOf(signerInfos, d))
               l == Cardinality(ListsOf(digestIds, d))
    <3>1. UsesOf(signerInfos', d) = UsesOf(signerInfos, d)
      BY <1>1 DEF SignersKept, SameSigner, UsesOf
    <3>2. u <= l
      BY <2>2 DEF ListInv, Covered
    <3>3. /\ \A x \in SignerInfoRecord : u \in Nat
          /\ \A x \in DigestOids \cup SHA : /\ l \in Nat
               /\ Cardinality(ListsOf(Append(digestIds, x), d)) = IF x = d THEN l + 1 ELSE l
      BY <1>0, UsesAppend, ListsAppend
    <3>4. u \in Nat /\ l \in Nat
      <4>1. UsesOf(signerInfos, d) \subseteq 1 .. Len(signerInfos) /\ Len(signerInfos) \in Nat
        BY <1>0, LenProperties DEF UsesOf
      <4>2. u \in Nat
        BY <4>1, PositionsFinite
      <4> QED BY <2>2, <3>3, <4>2
    <3> HIDE DEF u, l
    <3>5. Cardinality(ListsOf(digestIds', d)) \in {l, l + 1}
      BY <1>1, <3>3 DEF SignersKept, l
    <3>6. Cardinality(UsesOf(signerInfos', d)) = u
      BY <3>1 DEF u
    <3> QED BY <3>2, <3>4, <3>5, <3>6
  <2> QED BY <2>1, <2>2 DEF ListInv, Covered
<1>2. CASE SignerAdded
  <2>1. PICK si \in SignerInfoRecord :
          /\ signerInfos' = Append(signerInfos, si) /\ OneTime(si)
          /\ digestIds' = Append(digestIds, si.digestAlgorithm)
    BY <1>2 DEF SignerAdded
  <2>2. si.digestAlgorithm \in DigestOids \cup SHA
    BY DEF SignerInfoRecord
  <2>3. Timed'
    <3>1. /\ Len(signerInfos') = Len(signerInfos) + 1 /\ Len(signerInfos) \in Nat
          /\ signerInfos'[Len(signerInfos) + 1] = si
          /\ \A i \in 1 .. Len(signerInfos) : signerInfos'[i] = signerInfos[i]
      BY <1>0, <2>1, AppendProperties, LenProperties
    <3>2. ASSUME NEW i \in 1 .. Len(signerInfos') PROVE OneTime(signerInfos'[i])
      <4>1. CASE i = Len(signerInfos) + 1
        BY <2>1, <3>1, <4>1
      <4>2. CASE i \in 1 .. Len(signerInfos)
        BY <3>1, <4>2 DEF ListInv, Timed
      <4> QED BY <3>1, <4>1, <4>2
    <3> QED BY <3>2 DEF Timed, OneTime
  <2>4. ASSUME NEW d \in DigestOids \cup SHA
        PROVE  Cardinality(UsesOf(signerInfos', d)) <= Cardinality(ListsOf(digestIds', d))
    <3> DEFINE u == Cardinality(UsesOf(signerInfos, d))
               l == Cardinality(ListsOf(digestIds, d))
               a == si.digestAlgorithm
    <3>1. u \in Nat /\ Cardinality(UsesOf(signerInfos', d)) = IF a = d THEN u + 1 ELSE u
      BY <1>0, <2>1, UsesAppend
    <3>2. l \in Nat /\ Cardinality(ListsOf(digestIds', d)) = IF a = d THEN l + 1 ELSE l
      <4> DEFINE O == DigestOids \cup SHA
      <4>1. digestIds' = Append(digestIds, a) /\ a \in O /\ digestIds \in Seq(O)
        BY <1>0, <2>1, <2>2
      <4> HIDE DEF a, O
      <4> QED BY <4>1, ListsAppend
    <3>3. u <= l
      BY <2>4 DEF ListInv, Covered
    <3> HIDE DEF u, l
    <3> QED BY <3>1, <3>2, <3>3
  <2> QED BY <2>3, <2>4 DEF ListInv, Covered
<1> QED BY <1>1, <1>2

\* The parts of a SignerInfo that the list and the times are about.
LEMMA SignerInfoParts ==
  ASSUME NEW ias, NEW algorithm, NEW attrs, NEW unsigned, NEW signature
  PROVE  LET si == SignerInfo(ias, algorithm, attrs, unsigned, signature)
         IN  si.digestAlgorithm = algorithm.digest /\ si.authenticated = attrs
BY DEF SignerInfo

\* A signer that was appended to well-formed ones is well formed if the list is.
LEMMA AppendedElement ==
  ASSUME NEW S, NEW T, NEW s \in Seq(T), NEW x, Append(s, x) \in Seq(S)
  PROVE  x \in S
<1>1. Append(s, x)[Len(s) + 1] = x /\ Len(s) \in Nat /\ Len(Append(s, x)) = Len(s) + 1
  OBVIOUS
<1>2. Len(s) + 1 \in 1 .. Len(Append(s, x))
  BY <1>1
<1> QED BY <1>1, <1>2, ElementOfSeq

\* AddSignerChain and SignWithoutAttr list the digest of the signer that they add.
LEMMA SigningAdds ==
  ASSUME SDInv, SDInv', SigningCall
  PROVE  SignerAdded
<1>0. signerInfos \in Seq(SignerInfoRecord) /\ signerInfos' \in Seq(SignerInfoRecord)
  BY DEF SDInv, SDTypeOK
<1>1. ASSUME NEW ias, NEW algorithm, NEW attrs, NEW unsigned, NEW signature,
             \A t, u \in attrs.signingTime : t = u,
             signerInfos' = Append(signerInfos, SignerInfo(ias, algorithm, attrs, unsigned, signature)),
             digestIds' = Append(digestIds, algorithm.digest)
      PROVE  SignerAdded
  <2> DEFINE si == SignerInfo(ias, algorithm, attrs, unsigned, signature)
  <2>1. si.digestAlgorithm = algorithm.digest /\ si.authenticated = attrs
    BY SignerInfoParts
  <2>2. signerInfos' = Append(signerInfos, si)
    BY <1>1
  <2> HIDE DEF si
  <2>3. si \in SignerInfoRecord
    BY <1>0, <2>2, AppendedElement
  <2>4. OneTime(si)
    BY <1>1, <2>1 DEF OneTime
  <2> QED BY <1>1, <2>1, <2>2, <2>3, <2>4 DEF SignerAdded
<1>2. ASSUME NEW ee \in Certs, NEW key \in Keys, NEW parents \in Chains, NEW config \in Configs,
             AddSignerChainSucceeds(ee, key, parents, config)
      PROVE  SignerAdded
  <2> DEFINE algorithm == getCMSSignerAlgorithm(key.kind, digestOid, None)
             hash      == getHashForOID(algorithm.digest)
             attrs     == SignedAttributes(config, hash)
             signature == sign(key, Message(attrs, data), hash)
             ias       == issuerAndSerial(ee, parents)
  <2>1. /\ hash # None
        /\ signerInfos' = Append(signerInfos, SignerInfo(ias, algorithm, attrs, config.extraUnsigned,
                                                         signature))
        /\ digestIds' = Append(digestIds, algorithm.digest)
    BY <1>2 DEF AddSignerChainSucceeds
  <2>2. data \in Datas /\ contentType \in Types /\ now \in Nat /\ config \in Config
    BY SignedDataAssumption DEF SDInv, SDTypeOK
  <2>3. hash \in SHA
    BY <2>1, HashType
  <2> HIDE DEF hash, algorithm
  <2>4. \A t, u \in attrs.signingTime : t = u
    BY <2>2, <2>3, SignedAttributesType
  <2> HIDE DEF attrs, signature, ias
  <2> QED BY <1>1, <2>1, <2>4
<1>3. ASSUME NEW ee \in Certs, NEW key \in Keys, SignWithoutAttrSucceeds(ee, key)
      PROVE  SignerAdded
  <2> DEFINE algorithm == getCMSSignerAlgorithm(key.kind, digestOid, encryptionOid)
             hash      == getHashForOID(algorithm.digest)
             signature == sign(key, Message(NoAttributes, data), hash)
             ias       == issuerAndSerial(ee, <<>>)
  <2>1. /\ signerInfos' = Append(signerInfos, SignerInfo(ias, algorithm, NoAttributes, {}, signature))
        /\ digestIds' = Append(digestIds, algorithm.digest)
    BY <1>3 DEF SignWithoutAttrSucceeds
  <2>2. \A t, u \in NoAttributes.signingTime : t = u
    BY DEF NoAttributes
  <2> HIDE DEF algorithm, signature, ias
  <2> QED BY <1>1, <2>1, <2>2
<1> QED BY <1>2, <1>3 DEF SigningCall

\* The other methods keep the signers, their digests and their times, and unlist nothing.
LEMMA OthersKeep ==
  ASSUME SDInv, SDInv', [SDNext]_sdVars
  PROVE  SignersKept \/ SigningCall
<1>0. /\ signerInfos \in Seq(SignerInfoRecord) /\ signerInfos' \in Seq(SignerInfoRecord)
      /\ digestIds \in Seq(DigestOids \cup SHA) /\ digestIds' \in Seq(DigestOids \cup SHA)
  BY DEF SDInv, SDTypeOK
<1>1. ASSUME signerInfos' = signerInfos, digestIds' = digestIds \/ \E d : digestIds' = Append(digestIds, d)
      PROVE  SignersKept
  <2>1. digestIds' = digestIds \/ \E d \in DigestOids \cup SHA : digestIds' = Append(digestIds, d)
    BY <1>0, <1>1, AppendedElement
  <2> QED BY <1>1, <2>1 DEF SignersKept, SameSigner
<1>2. CASE \E ee \in Certs, key \in Keys, parents \in Chains, config \in Configs :
             AddSignerChain(ee, key, parents, config)
  <2> PICK ee \in Certs, key \in Keys, parents \in Chains, config \in Configs :
             AddSignerChain(ee, key, parents, config)
    BY <1>2
  <2>1. CASE AddSignerChainSucceeds(ee, key, parents, config)
    BY <2>1 DEF SigningCall
  <2>2. CASE \E signerError \in BOOLEAN :
               AddSignerChainFails(ee, key, parents, config, signerError)
    BY <1>1, <2>2 DEF AddSignerChainFails
  <2> QED BY <2>1, <2>2 DEF AddSignerChain
<1>3. CASE \E ee \in Certs, key \in Keys : SignWithoutAttr(ee, key)
  <2> PICK ee \in Certs, key \in Keys : SignWithoutAttr(ee, key)
    BY <1>3
  <2>1. CASE SignWithoutAttrSucceeds(ee, key)
    BY <2>1 DEF SigningCall
  <2>2. CASE \E signerError \in BOOLEAN : SignWithoutAttrFails(key, signerError)
    BY <1>1, <2>2 DEF SignWithoutAttrFails
  <2> QED BY <2>1, <2>2 DEF SignWithoutAttr
<1>4. ASSUME NEW si \in SignerInfoRecord, NEW attrs, NEW x,
             \/ removed' /\ x = [si EXCEPT !.authenticated = NoAttributes]
             \/ x = [si EXCEPT !.unauthenticated = attrs]
      PROVE  /\ SameSigner(x, si)
             /\ \/ removed' /\ x.authenticated.signingTime = {}
                \/ x.authenticated = si.authenticated
  BY <1>4 DEF SignerInfoRecord, NoAttributes, SameSigner
<1>5. CASE RemoveAuthenticatedAttributes \/ RemoveUnauthenticatedAttributes
  <2>1. /\ digestIds' = digestIds
        /\ \/ /\ removed'
              /\ signerInfos' = [i \in 1 .. Len(signerInfos) |->
                                   [signerInfos[i] EXCEPT !.authenticated = NoAttributes]]
           \/ signerInfos' = [i \in 1 .. Len(signerInfos) |->
                                [signerInfos[i] EXCEPT !.unauthenticated = {}]]
    BY <1>5 DEF RemoveAuthenticatedAttributes, RemoveUnauthenticatedAttributes
  <2>2. Len(signerInfos') = Len(signerInfos)
    <3>1. DOMAIN signerInfos' = 1 .. Len(signerInfos) /\ Len(signerInfos) \in Nat
      BY <1>0, <2>1, LenProperties
    <3> QED BY <1>0, <3>1, LenProperties
  <2>3. ASSUME NEW i \in 1 .. Len(signerInfos)
        PROVE  /\ SameSigner(signerInfos'[i], signerInfos[i])
               /\ \/ removed' /\ signerInfos'[i].authenticated.signingTime = {}
                  \/ signerInfos'[i].authenticated = signerInfos[i].authenticated
    <3> DEFINE si == signerInfos[i]
               x == signerInfos'[i]
    <3>1. si \in SignerInfoRecord
      BY <1>0, ElementOfSeq
    <3>2. \/ removed' /\ x = [si EXCEPT !.authenticated = NoAttributes]
          \/ x = [si EXCEPT !.unauthenticated = {}]
      BY <2>1
    <3> HIDE DEF si, x
    <3>3. /\ SameSigner(x, si)
          /\ \/ removed' /\ x.authenticated.signingTime = {}
             \/ x.authenticated = si.authenticated
      BY <1>4, <3>1, <3>2
    <3> QED BY <3>3 DEF si, x
  <2> QED BY <2>1, <2>2, <2>3 DEF SignersKept
<1>6. CASE \E i \in 1 .. Len(signerInfos), attrs \in UnsignedLists :
             SetUnauthenticatedAttributes(i, attrs)
  <2> PICK k \in 1 .. Len(signerInfos), attrs \in UnsignedLists :
             SetUnauthenticatedAttributes(k, attrs)
    BY <1>6
  <2>1. /\ digestIds' = digestIds
        /\ \/ signerInfos' = [signerInfos EXCEPT ![k].unauthenticated = attrs]
           \/ signerInfos' = signerInfos
    BY DEF SetUnauthenticatedAttributes
  <2>2. CASE signerInfos' = signerInfos
    BY <1>1, <2>1, <2>2
  <2>3. CASE signerInfos' = [signerInfos EXCEPT ![k].unauthenticated = attrs]
    <3> DEFINE si == signerInfos[k]
               x == [si EXCEPT !.unauthenticated = attrs]
    <3>1. si \in SignerInfoRecord /\ signerInfos' = [signerInfos EXCEPT ![k] = x]
      BY <1>0, <2>3, ElementOfSeq
    <3>2. /\ SameSigner(x, si)
          /\ \/ removed' /\ x.authenticated.signingTime = {}
             \/ x.authenticated = si.authenticated
      <4>1. x = [si EXCEPT !.unauthenticated = attrs]
        OBVIOUS
      <4> HIDE DEF x, si
      <4> QED BY <1>4, <3>1, <4>1
    <3> HIDE DEF x
    <3>3. /\ Len(signerInfos') = Len(signerInfos)
          /\ \A i \in 1 .. Len(signerInfos) : signerInfos'[i] = IF i = k THEN x ELSE signerInfos[i]
      <4>1. DOMAIN signerInfos' = 1 .. Len(signerInfos) /\ Len(signerInfos) \in Nat
        BY <1>0, <3>1, LenProperties
      <4>2. Len(signerInfos') = Len(signerInfos)
        BY <1>0, <4>1, LenProperties
      <4>3. DOMAIN signerInfos = 1 .. Len(signerInfos)
        BY <1>0, LenProperties
      <4> QED BY <3>1, <4>2, <4>3
    <3> QED BY <2>1, <3>2, <3>3 DEF SignersKept, SameSigner
  <2> QED BY <2>1, <2>2, <2>3
<1>7. CASE ~(\/ \E ee \in Certs, key \in Keys, parents \in Chains, config \in Configs :
                  AddSignerChain(ee, key, parents, config)
             \/ \E ee \in Certs, key \in Keys : SignWithoutAttr(ee, key)
             \/ RemoveAuthenticatedAttributes \/ RemoveUnauthenticatedAttributes
             \/ \E i \in 1 .. Len(signerInfos), attrs \in UnsignedLists :
                  SetUnauthenticatedAttributes(i, attrs))
  <2>1. signerInfos' = signerInfos /\ digestIds' = digestIds
    BY <1>7 DEF SDNext, sdVars, builder, SetDigestAlgorithm, SetEncryptionAlgorithm, AddCertificate,
                SetContentType, Detach, Tick
  <2> QED BY <1>1, <2>1
<1> QED BY <1>2, <1>3, <1>5, <1>6, <1>7

LEMMA ListInvHolds == SDSpec => []ListInv
<1>1. SDInit => SDInv
  BY SDInitInv
<1>2. SDInv /\ [SDNext]_sdVars => SDInv'
  BY SDNextInv, SDStutterInv
<1>3. SDInit => ListInv
  <2> SUFFICES ASSUME SDInit PROVE ListInv
    OBVIOUS
  <2>1. signerInfos = <<>> /\ digestIds = <<>>
    BY DEF SDInit, NewSignedData
  <2>2. \A d : UsesOf(signerInfos, d) = {} /\ ListsOf(digestIds, d) = {}
    BY <2>1 DEF UsesOf, ListsOf
  <2>3. Cardinality({}) = 0
    BY FS_EmptySet
  <2>4. Timed
    BY <2>1 DEF Timed
  <2> QED BY <2>2, <2>3, <2>4 DEF ListInv, Covered
<1>4. SDInv /\ SDInv' /\ ListInv /\ [SDNext]_sdVars => ListInv'
  BY OthersKeep, SigningAdds, ListInvStep
<1> QED BY <1>1, <1>2, <1>3, <1>4, PTL DEF SDSpec

\* Whatever signing calls failed in between, the list of digest algorithms that a
\* receiver hashes with names each signer's digest, once per signer.
THEOREM DigestsListedHolds == SDSpec => []DigestsListed
<1>1. SDSpec => []SDTypeOK
  BY BuilderTypeCorrect
<1>2. SDTypeOK /\ ListInv => DigestsListed
  <2> SUFFICES ASSUME SDTypeOK, ListInv, NEW i \in 1 .. Len(signerInfos)
               PROVE  LET d == signerInfos[i].digestAlgorithm
                          Uses(j) == signerInfos[j].digestAlgorithm = d
                          Lists(j) == digestIds[j] = d
                      IN  Count(Uses, Len(signerInfos)) <= Count(Lists, Len(digestIds))
    BY DEF DigestsListed
  <2> DEFINE d == signerInfos[i].digestAlgorithm
  <2>1. d \in DigestOids \cup SHA
    <3>1. signerInfos[i] \in SignerInfoRecord
      BY ElementOfSeq DEF SDTypeOK
    <3> QED BY <3>1 DEF SignerInfoRecord
  <2>2. Cardinality(UsesOf(signerInfos, d)) <= Cardinality(ListsOf(digestIds, d))
    BY <2>1 DEF ListInv, Covered
  <2> QED BY <2>2 DEF Count, UsesOf, ListsOf
<1> QED BY <1>1, <1>2, ListInvHolds, PTL

\* No combination of SkipSigningTime and of explicit signing times makes a signer with
\* two of them.
THEOREM SigningTimeUniqueHolds == SDSpec => []SigningTimeUnique
<1>1. ListInv => SigningTimeUnique
  <2> SUFFICES ASSUME ListInv, NEW i \in 1 .. Len(signerInfos)
               PROVE  Cardinality(signerInfos[i].authenticated.signingTime) <= 1
    BY DEF SigningTimeUnique
  <2> DEFINE T == signerInfos[i].authenticated.signingTime
  <2>1. \A t, u \in T : t = u
    BY DEF ListInv, Timed, OneTime
  <2> HIDE DEF T
  <2>2. CASE T = {}
    <3>1. Cardinality(T) = 0
      BY <2>2, FS_EmptySet
    <3> QED BY <3>1 DEF T
  <2>3. CASE T # {}
    <3>1. PICK t : t \in T
      BY <2>3
    <3>2. T = {t}
      BY <2>1, <3>1
    <3>3. Cardinality(T) = 1
      BY <3>2, FS_Singleton
    <3> QED BY <3>3 DEF T
  <2> QED BY <2>2, <2>3
<1> QED BY <1>1, ListInvHolds, PTL

=============================================================================
