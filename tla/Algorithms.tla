----------------------------- MODULE Algorithms -----------------------------
(***************************************************************************)
(* The algorithm tables of pkcs7.go, sign.go and verify.go, and symbolic   *)
(* signatures.                                                             *)
(*                                                                         *)
(* An object identifier is a string named after its Go variable            *)
(* (OIDDigestAlgorithmSHA256 is "SHA256", OIDEncryptionAlgorithmRSASHA256  *)
(* is "RSASHA256", ...); OIDs the package does not know are any other      *)
(* string.  A private key is a record [id, kind] whose kind is the Go type *)
(* of its public half; "opaque" is a value that is no crypto.Signer.       *)
(* An x509.SignatureAlgorithm is a record [scheme, hash].                  *)
(***************************************************************************)
EXTENDS Integers

SHA == {"SHA1", "SHA256", "SHA384", "SHA512"}
MLDSA == {"MLDSA44", "MLDSA65", "MLDSA87"}
KeyKinds == {"RSA", "ECDSA", "Ed25519", "DSA", "opaque"} \cup MLDSA

\* Error returns of the tables.
None == "none"
NoAlgorithm == [scheme |-> None, hash |-> None]

\* getHashForOID; None is ErrUnsupportedAlgorithm.
getHashForOID(oid) ==
  IF oid \in {"SHA1", "ECDSASHA1", "DSA", "DSASHA1", "RSA"} THEN "SHA1"
  ELSE IF oid \in {"SHA256", "ECDSASHA256"} THEN "SHA256"
  ELSE IF oid \in {"SHA384", "ECDSASHA384"} THEN "SHA384"
  ELSE IF oid \in {"SHA512", "ECDSASHA512"} THEN "SHA512"
  ELSE None

\* ML-DSA falls through to the default digest.
GetDigestOIDForSignatureAlgorithmDefault(algorithm) ==
  IF algorithm.scheme \in {"RSA", "ECDSA"} THEN algorithm.hash ELSE "SHA256"

\* GetDigestOIDForSignatureAlgorithm, with which callers choose the digest for a
\* certificate; None is an error, for RSASSA-PSS too.
GetDigestOIDForSignatureAlgorithm(algorithm) ==
  IF algorithm.scheme \in {"RSA", "ECDSA"} THEN algorithm.hash
  ELSE IF algorithm.scheme \in {"Ed25519"} \cup MLDSA THEN "SHA512"
  ELSE None

(***************************************************************************)
(* Signing.                                                                *)
(***************************************************************************)

\* The signature OIDs of RSA and ECDSA keys under each digest.
RSAWith == [SHA1 |-> "RSASHA1", SHA256 |-> "RSASHA256",
            SHA384 |-> "RSASHA384", SHA512 |-> "RSASHA512"]
ECDSAWith == [SHA1 |-> "ECDSASHA1", SHA256 |-> "ECDSASHA256",
              SHA384 |-> "ECDSASHA384", SHA512 |-> "ECDSASHA512"]

\* The signature OIDs the package puts into a SignerInfo of its own accord.
SignatureOids == {"RSA", "DSA", "Ed25519"} \cup MLDSA
                   \cup {RSAWith[h] : h \in SHA} \cup {ECDSAWith[h] : h \in SHA}

\* getOIDForEncryptionAlgorithm: the signature OID of a key under a digest.  An
\* RSA key takes every digest, an ECDSA key only the plain SHA identifiers.
getOIDForEncryptionAlgorithm(kind, digest) ==
  IF kind = "RSA" THEN IF digest \in SHA THEN RSAWith[digest] ELSE "RSA"
  ELSE IF kind = "ECDSA" /\ digest \in SHA THEN ECDSAWith[digest]
  ELSE IF kind \in {"DSA", "Ed25519"} \cup MLDSA THEN kind  \* the OID of that name
  ELSE None

\* A signer whose digest does not follow the configured one.
getCMSSignerAlgorithmDefaultDigest(kind, digest, configured) ==
  [digest    |-> "SHA1",
   signature |-> getOIDForEncryptionAlgorithm(kind, digest)]

\* getCMSSignerAlgorithm: the digest and signature OIDs of a SignerInfo;
\* signature is None when the call fails.  ML-DSA fixes both, whatever the
\* caller configured; a DSA key ignores the configured OID.
getCMSSignerAlgorithm(kind, digest, configured) ==
  [digest    |-> IF kind \in MLDSA THEN "SHA512" ELSE digest,
   signature |-> IF kind \in MLDSA \cup {"DSA", "opaque"} \/ configured = None
                 THEN getOIDForEncryptionAlgorithm(kind, digest)
                 ELSE configured]

\* Every key signs a hash.
signPreHashed(key, message, hash) ==
  [key |-> key, hash |-> hash, scheme |-> key.kind, message |-> message]

\* cmsSignerAlgorithm.sign: an unforgeable symbolic signature.  Ed25519 and
\* ML-DSA sign the message itself, the other keys its hash.
sign(key, message, hash) ==
  [key     |-> key,
   hash    |-> IF key.kind \in MLDSA \cup {"Ed25519"} THEN None ELSE hash,
   scheme  |-> key.kind,
   message |-> message]

(***************************************************************************)
(* Verification.  The parameters of a signature AlgorithmIdentifier are a  *)
(* record whose form is "absent", "null", "pss" or "other"; the remaining  *)
(* fields are those of pssParameters, in which None is any OID that they   *)
(* do not support.                                                         *)
(***************************************************************************)

Parameters ==
  [form : {"absent", "null", "pss", "other"}, hash : SHA \cup {None}, mgf : {"MGF1", None},
   mgfHash : SHA \cup {None}, saltLength : Int, trailerField : Int]

NoParameters == [form |-> "absent", hash |-> None, mgf |-> None, mgfHash |-> None,
                 saltLength |-> 20, trailerField |-> 1]

algorithmIdentifierParametersPresent(p) == p.form # "absent"
algorithmIdentifierParametersAbsentOrNull(p) == p.form \in {"absent", "null"}

getECDSASignatureAlgorithm(digest) ==
  IF digest \in SHA THEN [scheme |-> "ECDSA", hash |-> digest] ELSE NoAlgorithm

HashSize == [SHA256 |-> 32, SHA384 |-> 48, SHA512 |-> 64]

\* getRSAPSSSignatureAlgorithm: the one profile of RSASSA-PSS that x509 checks.
getRSAPSSSignatureAlgorithm(p, digest) ==
  IF /\ p.form = "pss"
     /\ p.hash \in DOMAIN HashSize
     /\ p.mgf = "MGF1"
     /\ p.mgfHash = p.hash
     /\ p.saltLength = HashSize[p.hash]
     /\ p.trailerField = 1
     /\ digest = p.hash
  THEN [scheme |-> "RSAPSS", hash |-> p.hash]
  ELSE NoAlgorithm

\* getSignatureAlgorithm: the x509 algorithm a SignerInfo is checked with.
\* ECDSA OIDs carry their hash, RSA OIDs take the one of digestAlgorithm.
getSignatureAlgorithm(oid, p, digest) ==
  CASE oid \in MLDSA ->
         IF algorithmIdentifierParametersPresent(p)
         THEN NoAlgorithm ELSE [scheme |-> oid, hash |-> None]
    [] oid \in {ECDSAWith[h] : h \in SHA} ->
         [scheme |-> "ECDSA", hash |-> getHashForOID(oid)]
    [] oid = "EC" ->
         IF algorithmIdentifierParametersAbsentOrNull(p)
         THEN getECDSASignatureAlgorithm(digest) ELSE NoAlgorithm
    [] oid \in {"RSA"} \cup {RSAWith[h] : h \in SHA} ->
         IF digest \in SHA THEN [scheme |-> "RSA", hash |-> digest] ELSE NoAlgorithm
    [] oid \in {"ECDSAP256", "ECDSAP384", "ECDSAP521"} ->
         getECDSASignatureAlgorithm(digest)
    [] oid = "Ed25519" -> [scheme |-> "Ed25519", hash |-> None]
    [] oid = "RSAPSS" -> getRSAPSSSignatureAlgorithm(p, digest)
    [] OTHER -> NoAlgorithm   \* DSA included

\* x509.Certificate.CheckSignature, SHA-1 allowed: the signature was made by the
\* certificate's key, over this message, with this algorithm.
CheckSignature(cert, algorithm, message, signature) ==
  /\ algorithm # NoAlgorithm
  /\ signature = [key     |-> cert.key,
                  hash    |-> algorithm.hash,
                  scheme  |-> algorithm.scheme,
                  message |-> message]

=============================================================================
