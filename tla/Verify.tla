------------------------------- MODULE Verify -------------------------------
(***************************************************************************)
(* verify.go: the checks a receiver makes on a parsed message.  They read  *)
(* the message, the options and the clock and change nothing, so they are  *)
(* operators; TRUE is a nil error.                                         *)
(*                                                                         *)
(* A parsed message p7 is a record [content, contentType, certificates,    *)
(* signers]; x509.VerifyOptions is a record [roots, intermediates,         *)
(* currentTime] with currentTime = 0 for the zero time.  A certificate     *)
(* pool is a record [nil, certs]: a nil pool turns chain checking off.     *)
(***************************************************************************)
EXTENDS SignedData

NilPool == [nil |-> TRUE, certs |-> {}]

HasAttributes(signer) == signer.authenticated # NoAttributes

\* unmarshalAttribute: the value of the first attribute of a type; which one is
\* first is decided by the encoding, that is by the set of values.
FirstValue(values) == CHOOSE v \in values : TRUE

\* The digest attribute is not compared with the content.
AttributesOKAnyDigest(p7, signer, ee) ==
  HasAttributes(signer) =>
    /\ signer.authenticated.messageDigest # {}
    /\ getHashForOID(signer.digestAlgorithm) # None
    /\ signer.authenticated.signingTime # {} =>
         ValidAt(ee, FirstValue(signer.authenticated.signingTime))

\* The part of a signer's check that is about its authenticated attributes.
AttributesOK(p7, signer, ee) ==
  HasAttributes(signer) =>
    LET hash == getHashForOID(signer.digestAlgorithm)
    IN  /\ signer.authenticated.messageDigest # {}
        /\ hash # None
        /\ FirstValue(signer.authenticated.messageDigest) = [hash |-> hash, data |-> p7.content]
        /\ signer.authenticated.signingTime # {} =>
             ValidAt(ee, FirstValue(signer.authenticated.signingTime))

\* The signature itself.
SignatureOK(p7, signer, ee) ==
  CheckSignature(ee,
                 getSignatureAlgorithm(signer.signatureAlgorithm, signer.parameters,
                                       signer.digestAlgorithm),
                 Message(signer.authenticated, p7.content),
                 signer.encryptedDigest)

\* Both functions: find the certificate, check the attributes, the chain at
\* chainTime if there are roots, and the signature.
SignerVerifies(p7, signer, opts, chainTime) ==
  /\ HasCert(p7.certificates, signer)
  /\ LET ee == getCertFromCertsByIssuerAndSerial(p7.certificates, signer)
     IN  /\ AttributesOK(p7, signer, ee)
         /\ ~opts.roots.nil =>
              ChainVerifies(ee, opts.roots.certs, opts.intermediates, chainTime)
         /\ SignatureOK(p7, signer, ee)

verifySignatureAtTime(p7, signer, opts) ==
  SignerVerifies(p7, signer, opts, opts.currentTime)

\* The chain is checked at the current time even if the message is dated.
verifySignatureNow(p7, signer, opts, t) == SignerVerifies(p7, signer, opts, t)

\* The chain is checked at the signing time, or now if there is none.
verifySignature(p7, signer, opts, t) ==
  SignerVerifies(p7, signer, opts,
                 IF HasAttributes(signer) /\ signer.authenticated.signingTime # {}
                 THEN FirstValue(signer.authenticated.signingTime) ELSE t)

\* One good signer is enough.
VerifyWithOptsAny(p7, opts, t) ==
  \E i \in 1 .. Len(p7.signers) :
    IF opts.currentTime = 0
    THEN verifySignature(p7, p7.signers[i], opts, t)
    ELSE verifySignatureAtTime(p7, p7.signers[i], opts)

VerifyWithOpts(p7, opts, t) ==
  /\ p7.signers # <<>>
  /\ \A i \in 1 .. Len(p7.signers) :
       IF opts.currentTime = 0
       THEN verifySignature(p7, p7.signers[i], opts, t)
       ELSE verifySignatureAtTime(p7, p7.signers[i], opts)

Intermediates(p7) == {p7.certificates[i] : i \in 1 .. Len(p7.certificates)}

VerifyWithChain(p7, truststore, t) ==
  VerifyWithOpts(p7, [roots |-> truststore, intermediates |-> Intermediates(p7),
                      currentTime |-> 0], t)

VerifyWithChainAtTime(p7, truststore, currentTime, t) ==
  VerifyWithOpts(p7, [roots |-> truststore, intermediates |-> Intermediates(p7),
                      currentTime |-> currentTime], t)

\* Verify, with a nil trust store.
VerifySignatures(p7, t) == VerifyWithChain(p7, NilPool, t)

\* GetOnlySigner, as the set of the certificate it returns, empty for nil.
GetOnlySigner(p7) ==
  IF Len(p7.signers) = 1 /\ HasCert(p7.certificates, p7.signers[1])
  THEN {getCertFromCertsByIssuerAndSerial(p7.certificates, p7.signers[1])}
  ELSE {}

\* The error for a missing attribute is dropped: the zero time is left in out.
UnmarshalSigningTimeUnset(p7) ==
  IF p7.signers # <<>> /\ p7.signers[1].authenticated.signingTime # {}
  THEN {FirstValue(p7.signers[1].authenticated.signingTime)}
  ELSE {0}

\* UnmarshalSignedAttribute for the signing time, as a set, empty for an error.
UnmarshalSigningTime(p7) ==
  IF p7.signers # <<>> /\ p7.signers[1].authenticated.signingTime # {}
  THEN {FirstValue(p7.signers[1].authenticated.signingTime)}
  ELSE {}

=============================================================================
