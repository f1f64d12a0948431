----------------------------- MODULE SignedData -----------------------------
(***************************************************************************)
(* sign.go: the SignedData builder.  One action per method; a method that  *)
(* returns an error is the same action with result "error", so that what a *)
(* failed call leaves behind is part of the model.                         *)
(*                                                                         *)
(* Attributes.  attributes.ForMarshalling and the SET OF encoding sort, so *)
(* a list of signed attributes is a function of the set of its entries: it *)
(* is a record that maps each attribute type to the set of its values.  A  *)
(* digest is the record [hash, data], i.e. hashing is injective.           *)
(*                                                                         *)
(* Byte strings.  The DER of a set of attributes is the record             *)
(* [attributes |-> attrs]; any other byte string is another value, in the  *)
(* instances a record [text |-> name].  Nothing keeps the two apart where  *)
(* bytes are signed, checked or sent: the data that callers sign may be    *)
(* the encoding of attributes, and so may the content of a message.        *)
(***************************************************************************)
EXTENDS Certificates

CONSTANTS
  Datas,          \* byte strings that callers sign, encodings of attributes among them
  ContentTypes,   \* OIDs for SetContentType, "data" among them
  DigestOids,     \* OIDs for SetDigestAlgorithm
  EncryptionOids, \* OIDs for SetEncryptionAlgorithm
  Certs,          \* certificates callers sign with or add
  Keys,           \* private keys callers may pass
  Chains,         \* sequences of certificates callers may pass as parents
  Configs,        \* SignerInfoConfig values
  MaxTime,        \* bound on the clock
  MaxSigners,     \* bound on the signers of one message
  MaxCerts,       \* bound on the certificates of one message
  MaxDigests      \* bound on the listed digest algorithms

\* The empty byte string, which is also the content of a detached message.
Empty == [text |-> ""]

NoAttributes == [contentType |-> {}, messageDigest |-> {}, signingTime |-> {}, other |-> {}]

Contents == Datas \cup {Empty}
Types == ContentTypes \cup {"data"}

Digest == [hash : SHA, data : Contents]

Attributes == [contentType : SUBSET Types, messageDigest : SUBSET Digest,
               signingTime : SUBSET Nat, other : SUBSET Nat]

\* marshalAttributes: the DER of the SET OF attributes, which is untagged like any bytes.
Encoding(attrs) == [attributes |-> attrs]
Encodings == [attributes : Attributes]

\* Whatever can stand where a content does.
Bytes == Contents \cup Encodings

Signature == [key : Keys, hash : SHA \cup {None}, scheme : KeyKinds, message : Bytes]

\* An entry of ExtraSignedAttributes.  Callers who repeat the content type or the
\* message digest there are left out: the code would add them as they are.
ExtraAttribute == [type : {"signingTime", "other"}, value : Nat]

\* SignerInfoConfig; unmarshalable says that some extra attribute has a value
\* encoding/asn1 cannot encode.
Config == [extraSigned : Seq(ExtraAttribute), extraUnsigned : SUBSET Nat,
           skipCertificates : BOOLEAN, skipSigningTime : BOOLEAN, unmarshalable : BOOLEAN]

SignerInfoRecord ==
  [issuer : STRING, serial : Nat, digestAlgorithm : DigestOids \cup SHA,
   authenticated : Attributes, signatureAlgorithm : EncryptionOids \cup SignatureOids,
   parameters : Parameters, encryptedDigest : Signature, unauthenticated : SUBSET Nat]

ASSUME SignedDataAssumption ==
  /\ Certs \subseteq Certificate
  /\ Keys \subseteq Key
  /\ Chains \subseteq Seq(Certificate)
  /\ Configs \subseteq Config
  /\ MaxTime \in Nat
  /\ None \notin EncryptionOids

VARIABLES
  data,          \* SignedData.data
  contentType,   \* sd.ContentInfo.ContentType
  content,       \* sd.ContentInfo.Content: the data, or Empty once detached
  digestOid, encryptionOid,
  digestIds,     \* sd.DigestAlgorithmIdentifiers
  certs,
  signerInfos,   \* sd.SignerInfos
  now,           \* time.Now()
  result,        \* what the last call returned
  signed,        \* history: every signature a key made
  proper,        \* history: every signing call was one that should verify
  removed        \* history: RemoveAuthenticatedAttributes was called

builder == <<data, contentType, content, digestOid, encryptionOid, digestIds, certs, signerInfos>>
history == <<signed, proper, removed>>
sdVars == <<builder, now, result, history>>

(***************************************************************************)
(* NewSignedData.                                                          *)
(***************************************************************************)
NewSignedData(d) ==
  /\ data = d
  /\ contentType = "data"
  /\ content = d
  /\ digestOid = "SHA1"
  /\ encryptionOid = None
  /\ digestIds = <<>>
  /\ certs = <<>>
  /\ signerInfos = <<>>

SDInit ==
  /\ \E d \in Datas : NewSignedData(d)
  /\ now = 1
  /\ result = "ok"
  /\ signed = {}
  /\ proper = TRUE
  /\ removed = FALSE

SetDigestAlgorithm(d) ==
  /\ digestOid' = d
  /\ result' = "ok"
  /\ UNCHANGED <<data, contentType, content, encryptionOid, digestIds, certs, signerInfos,
                 now, history>>

\* The OID assigned to the field of the other setter.
SetEncryptionAlgorithmWrongField(d) ==
  /\ digestOid' = d
  /\ result' = "ok"
  /\ UNCHANGED <<data, contentType, content, encryptionOid, digestIds, certs, signerInfos,
                 now, history>>

SetEncryptionAlgorithm(d) ==
  /\ encryptionOid' = d
  /\ result' = "ok"
  /\ UNCHANGED <<data, contentType, content, digestOid, digestIds, certs, signerInfos,
                 now, history>>

(***************************************************************************)
(* AddSignerChain (AddSigner is the case parents = << >>).                 *)
(***************************************************************************)

\* Positions of the signing-time entries of config.ExtraSignedAttributes.
ExplicitTimes(config) ==
  {i \in 1 .. Len(config.extraSigned) : config.extraSigned[i].type = "signingTime"}

\* The flag is never set.
addedExplicitSigningTimeUnset(config) == [i \in 0 .. Len(config.extraSigned) |-> FALSE]

\* The loop over ExtraSignedAttributes: its flag before the loop (0) and after
\* each iteration.  A signing time that is not passed over sets it.
addedExplicitSigningTime(config) ==
  LET added[i \in 0 .. Len(config.extraSigned)] ==
        IF i = 0 THEN FALSE
        ELSE added[i - 1] \/ (i \in ExplicitTimes(config) /\ ~config.skipSigningTime)
  IN  added

\* The entries that the loop adds: it passes over ("continue") signing times that
\* are to be skipped or that find the flag set.
AddedEntries(config) ==
  {i \in 1 .. Len(config.extraSigned) :
     i \in ExplicitTimes(config) =>
       ~config.skipSigningTime /\ ~addedExplicitSigningTime(config)[i - 1]}

\* The signing times among the signed attributes: the clock's, before the loop,
\* if none is given and none is to be skipped; and those that the loop adds.
SigningTimes(config) ==
  {t \in {now} : ~config.skipSigningTime /\ ExplicitTimes(config) = {}}
    \cup {config.extraSigned[i].value : i \in AddedEntries(config) \cap ExplicitTimes(config)}

SignedAttributes(config, hash) ==
  [contentType   |-> {contentType},
   messageDigest |-> {[hash |-> hash, data |-> data]},
   signingTime   |-> SigningTimes(config),
   other         |-> {config.extraSigned[i].value :
                        i \in AddedEntries(config) \ ExplicitTimes(config)}]

\* The certificate's own subject in place of its issuer.
issuerAndSerialSubject(ee, parents) == [issuer |-> ee.subject, serial |-> ee.serial]

\* The name and serial number that identify the signer's certificate.
issuerAndSerial(ee, parents) ==
  [issuer |-> IF parents = <<>> THEN ee.issuer ELSE parents[1].subject,
   serial |-> ee.serial]

\* The bytes that are signed and checked: the encoded attributes, or the data when
\* there are none.  Nothing in the bytes says which of the two they are.
Message(attrs, d) == IF attrs = NoAttributes THEN d ELSE Encoding(attrs)

SignerInfo(ias, algorithm, attrs, unsigned, signature) ==
  [issuer |-> ias.issuer, serial |-> ias.serial,
   digestAlgorithm |-> algorithm.digest,
   authenticated   |-> attrs,
   signatureAlgorithm |-> algorithm.signature,
   parameters      |-> NoParameters,
   encryptedDigest |-> signature,
   unauthenticated |-> unsigned]

\* History of one signing call.
SigningEvent(ee, key, attrs, signature) ==
  [ee |-> ee, key |-> key, attrs |-> attrs, data |-> data, signature |-> signature]

\* A use of AddSignerChain that the documentation promises something for: the
\* key is the certificate's, digest and key are supported, the parents are the
\* certificate's issuers, the certificate goes into the message and it was
\* valid when the signature was made.
ProperSigner(ee, key, parents, config) ==
  /\ key = ee.key
  /\ digestOid \in SHA /\ key.kind # "DSA"
  /\ parents # <<>> => parents[1].subject = ee.issuer
  /\ ~config.skipCertificates
  /\ \A t \in SigningTimes(config) : ValidAt(ee, t)

\* The call fails before it changes anything.
AddSignerRefused(key, ee, parents) ==
  \/ getCMSSignerAlgorithm(key.kind, digestOid, None).signature = None
  \/ ~verifyPartialChain(ee, parents)

\* The certificates are added before the signature is made.
AddSignerChainFailsLate(ee, key, parents, config, signerError) ==
  /\ ~AddSignerRefused(key, ee, parents)
  /\ signerError
  /\ digestIds' = Append(digestIds, digestOid)
  /\ certs' = certs \o <<ee>> \o parents
  /\ result' = "error"
  /\ UNCHANGED <<data, contentType, content, digestOid, encryptionOid, signerInfos,
                 now, history>>

\* A failure after the digest algorithm was listed leaves it listed.
AddSignerChainFails(ee, key, parents, config, signerError) ==
  /\ LET algorithm == getCMSSignerAlgorithm(key.kind, digestOid, None)
     IN  \/ /\ AddSignerRefused(key, ee, parents)
            /\ UNCHANGED digestIds
         \/ /\ ~AddSignerRefused(key, ee, parents)
            /\ \/ getHashForOID(algorithm.digest) = None
               \/ config.unmarshalable
               \/ signerError
            /\ digestIds' = Append(digestIds, algorithm.digest)
  /\ result' = "error"
  /\ UNCHANGED <<data, contentType, content, digestOid, encryptionOid, certs, signerInfos,
                 now, history>>

\* A signer added without its digest algorithm.
AddSignerChainUnlisted(ee, key, parents, config) ==
  LET algorithm == getCMSSignerAlgorithm(key.kind, digestOid, None)
      hash      == getHashForOID(algorithm.digest)
      attrs     == SignedAttributes(config, hash)
      signature == sign(key, Message(attrs, data), hash)
  IN  /\ ~AddSignerRefused(key, ee, parents)
      /\ hash # None /\ ~config.unmarshalable
      /\ signerInfos' = Append(signerInfos,
           SignerInfo(issuerAndSerial(ee, parents), algorithm, attrs, config.extraUnsigned,
                      signature))
      /\ certs' = IF config.skipCertificates THEN certs ELSE certs \o <<ee>> \o parents
      /\ signed' = signed \cup {SigningEvent(ee, key, attrs, signature)}
      /\ proper' = (proper /\ ProperSigner(ee, key, parents, config))
      /\ result' = "ok"
      /\ UNCHANGED <<data, contentType, content, digestOid, encryptionOid, digestIds, now, removed>>

AddSignerChainSucceeds(ee, key, parents, config) ==
  LET algorithm == getCMSSignerAlgorithm(key.kind, digestOid, None)
      hash      == getHashForOID(algorithm.digest)
      attrs     == SignedAttributes(config, hash)
      signature == sign(key, Message(attrs, data), hash)
  IN  /\ ~AddSignerRefused(key, ee, parents)
      /\ hash # None /\ ~config.unmarshalable
      /\ digestIds' = Append(digestIds, algorithm.digest)
      /\ signerInfos' = Append(signerInfos,
           SignerInfo(issuerAndSerial(ee, parents), algorithm, attrs, config.extraUnsigned,
                      signature))
      /\ certs' = IF config.skipCertificates THEN certs ELSE certs \o <<ee>> \o parents
      /\ signed' = signed \cup {SigningEvent(ee, key, attrs, signature)}
      /\ proper' = (proper /\ ProperSigner(ee, key, parents, config))
      /\ result' = "ok"
      /\ UNCHANGED <<data, contentType, content, digestOid, encryptionOid, now, removed>>

AddSignerChain(ee, key, parents, config) ==
  \/ AddSignerChainSucceeds(ee, key, parents, config)
  \/ \E signerError \in BOOLEAN :
       AddSignerChainFails(ee, key, parents, config, signerError)

(***************************************************************************)
(* SignWithoutAttr: the data itself is signed, the configured signature    *)
(* OID is used, and the certificate is added whatever config says.         *)
(***************************************************************************)

ProperSignerWithoutAttr(ee, key) ==
  /\ key = ee.key
  /\ digestOid \in SHA /\ key.kind # "DSA"
  /\ encryptionOid = None \/ (encryptionOid = "RSA" /\ key.kind = "RSA")

SignWithoutAttrFails(key, signerError) ==
  /\ LET algorithm == getCMSSignerAlgorithm(key.kind, digestOid, encryptionOid)
     IN  \/ /\ algorithm.signature = None
            /\ UNCHANGED digestIds
         \/ /\ algorithm.signature # None
            /\ getHashForOID(algorithm.digest) = None \/ signerError
            /\ digestIds' = Append(digestIds, algorithm.digest)
  /\ result' = "error"
  /\ UNCHANGED <<data, contentType, content, digestOid, encryptionOid, certs, signerInfos,
                 now, history>>

SignWithoutAttrSucceeds(ee, key) ==
  LET algorithm == getCMSSignerAlgorithm(key.kind, digestOid, encryptionOid)
      hash      == getHashForOID(algorithm.digest)
      signature == sign(key, Message(NoAttributes, data), hash)
  IN  /\ algorithm.signature # None
      /\ hash # None
      /\ digestIds' = Append(digestIds, algorithm.digest)
      /\ signerInfos' = Append(signerInfos,
           SignerInfo(issuerAndSerial(ee, <<>>), algorithm, NoAttributes, {}, signature))
      /\ certs' = Append(certs, ee)
      /\ signed' = signed \cup {SigningEvent(ee, key, NoAttributes, signature)}
      /\ proper' = (proper /\ ProperSignerWithoutAttr(ee, key))
      /\ result' = "ok"
      /\ UNCHANGED <<data, contentType, content, digestOid, encryptionOid, now, removed>>

SignWithoutAttr(ee, key) ==
  \/ SignWithoutAttrSucceeds(ee, key)
  \/ \E signerError \in BOOLEAN : SignWithoutAttrFails(key, signerError)

(***************************************************************************)
(* The methods that change one part of the structure.                      *)
(***************************************************************************)

\* signerInfo.SetUnauthenticatedAttributes, reached through GetSignedData.  An
\* attribute that cannot be encoded leaves the old list in place.
SetUnauthenticatedAttributes(i, attrs) ==
  /\ \/ /\ signerInfos' = [signerInfos EXCEPT ![i].unauthenticated = attrs]
        /\ result' = "ok"
     \/ /\ UNCHANGED signerInfos
        /\ result' = "error"
  /\ UNCHANGED <<data, contentType, content, digestOid, encryptionOid, digestIds, certs,
                 now, history>>

AddCertificate(cert) ==
  /\ certs' = Append(certs, cert)
  /\ result' = "ok"
  /\ UNCHANGED <<data, contentType, content, digestOid, encryptionOid, digestIds, signerInfos,
                 now, history>>

\* Proper only before there are signers: they have signed the content type.
SetContentType(oid) ==
  /\ contentType' = oid
  /\ result' = "ok"
  /\ proper' = (proper /\ signerInfos = <<>>)
  /\ UNCHANGED <<data, content, digestOid, encryptionOid, digestIds, certs, signerInfos,
                 now, signed, removed>>

\* Detach replaces the whole ContentInfo, its content type included.
Detach ==
  /\ content' = Empty
  /\ contentType' = "data"
  /\ result' = "ok"
  /\ UNCHANGED <<data, digestOid, encryptionOid, digestIds, certs, signerInfos,
                 now, history>>

RemoveAuthenticatedAttributes ==
  /\ signerInfos' = [i \in 1 .. Len(signerInfos) |->
                       [signerInfos[i] EXCEPT !.authenticated = NoAttributes]]
  /\ result' = "ok"
  /\ removed' = TRUE
  /\ UNCHANGED <<data, contentType, content, digestOid, encryptionOid, digestIds, certs,
                 now, signed, proper>>

RemoveUnauthenticatedAttributes ==
  /\ signerInfos' = [i \in 1 .. Len(signerInfos) |->
                       [signerInfos[i] EXCEPT !.unauthenticated = {}]]
  /\ result' = "ok"
  /\ UNCHANGED <<data, contentType, content, digestOid, encryptionOid, digestIds, certs,
                 now, history>>

\* Time passes between calls.
Tick ==
  /\ now < MaxTime
  /\ now' = now + 1
  /\ UNCHANGED <<builder, result, history>>

\* Unsigned attribute lists callers may set.
UnsignedLists == {c.extraUnsigned : c \in Configs}

SDNext ==
  \/ \E d \in DigestOids : SetDigestAlgorithm(d)
  \/ \E d \in EncryptionOids : SetEncryptionAlgorithm(d)
  \/ /\ Len(signerInfos) < MaxSigners
     /\ Len(digestIds) < MaxDigests
     /\ \E ee \in Certs, key \in Keys, parents \in Chains, config \in Configs :
          /\ Len(certs) + 1 + Len(parents) <= MaxCerts
          /\ AddSignerChain(ee, key, parents, config)
  \/ /\ Len(signerInfos) < MaxSigners
     /\ Len(digestIds) < MaxDigests
     /\ Len(certs) < MaxCerts
     /\ \E ee \in Certs, key \in Keys : SignWithoutAttr(ee, key)
  \/ \E i \in 1 .. Len(signerInfos), attrs \in UnsignedLists :
       SetUnauthenticatedAttributes(i, attrs)
  \/ /\ Len(certs) < MaxCerts
     /\ \E cert \in Certs : AddCertificate(cert)
  \/ \E oid \in ContentTypes : SetContentType(oid)
  \/ Detach
  \/ RemoveAuthenticatedAttributes
  \/ RemoveUnauthenticatedAttributes
  \/ Tick

SDSpec == SDInit /\ [][SDNext]_sdVars

-----------------------------------------------------------------------------

\* The builder's fields keep their types, and the history agrees with them.
SDTypeOK ==
  /\ data \in Datas
  /\ contentType \in Types
  /\ content \in {data, Empty}
  /\ digestOid \in DigestOids \cup {"SHA1"}
  /\ encryptionOid \in EncryptionOids \cup {None}
  /\ digestIds \in Seq(DigestOids \cup SHA)
  /\ certs \in Seq(Certificate)
  /\ signerInfos \in Seq(SignerInfoRecord)
  /\ now \in Nat
  /\ result \in {"ok", "error"}
  /\ signed \subseteq [ee : Certs, key : Keys, attrs : Attributes, data : Datas,
                       signature : Signature]
  /\ proper \in BOOLEAN
  /\ removed \in BOOLEAN

Count(P(_), n) == Cardinality({i \in 1 .. n : P(i)})

\* The list of digest algorithms that a one-pass receiver hashes with covers
\* the signers, whatever calls failed in between: each signer's digest is
\* listed, once per signer that uses it.
DigestsListed ==
  \A i \in 1 .. Len(signerInfos) :
    LET d == signerInfos[i].digestAlgorithm
        Uses(j) == signerInfos[j].digestAlgorithm = d
        Lists(j) == digestIds[j] = d
    IN  Count(Uses, Len(signerInfos)) <= Count(Lists, Len(digestIds))

\* "SkipSigningTime omits the signing-time signed attribute ... Otherwise, the
\* first explicit signing-time entry replaces the default": no combination of
\* the option and of entries of ExtraSignedAttributes makes a signer with two
\* signing times, of which a receiver would take one.
SigningTimeUnique ==
  \A i \in 1 .. Len(signerInfos) :
    Cardinality(signerInfos[i].authenticated.signingTime) <= 1

\* A call that returns an error leaves nothing of a signer behind: neither a
\* SignerInfo nor certificates, so the message that Finish makes next says
\* about signers what it said before.
FailedCallAddsNoSigner ==
  [][result' = "error" => UNCHANGED <<signerInfos, certs, contentType, content>>]_sdVars

=============================================================================
