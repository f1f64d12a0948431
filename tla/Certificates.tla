---------------------------- MODULE Certificates ----------------------------
(***************************************************************************)
(* Certificates as the package sees them, and the functions of crypto/x509 *)
(* it calls on them.  A certificate is a record                            *)
(*   [name, subject, issuer, serial, key, issuerKey, ca, notBefore,        *)
(*    notAfter]                                                            *)
(* where name stands for the certificate's other content, key for the pair *)
(* of the certified public key, and issuerKey for the pair that made the   *)
(* certificate's signature.  Times are naturals.                           *)
(***************************************************************************)
EXTENDS Algorithms, Sequences, FiniteSets

Key == [id : STRING, kind : KeyKinds]

Certificate ==
  [name : STRING, subject : STRING, issuer : STRING, serial : Nat,
   key : Key, issuerKey : Key, ca : BOOLEAN, notBefore : Nat, notAfter : Nat]

\* isCertMatchForIssuerAndSerial.
isCertMatchForIssuerAndSerial(cert, ias) ==
  cert.serial = ias.serial /\ cert.issuer = ias.issuer

\* getCertFromCertsByIssuerAndSerial: the positions of the certificates that
\* match, of which the function returns the first; nil when there is none.
Matches(certs, ias) == {i \in 1 .. Len(certs) : isCertMatchForIssuerAndSerial(certs[i], ias)}
HasCert(certs, ias) == Matches(certs, ias) # {}
getCertFromCertsByIssuerAndSerial(certs, ias) ==
  certs[CHOOSE i \in Matches(certs, ias) : \A j \in Matches(certs, ias) : i <= j]

\* x509 CheckSignatureFrom: a CA's key made the certificate's signature.  Names
\* are not compared.
CheckSignatureFrom(cert, parent) == parent.ca /\ cert.issuerKey = parent.key

\* verifyPartialChain: every certificate is signed by the next one.
verifyPartialChain(cert, parents) ==
  \A i \in 1 .. Len(parents) :
    CheckSignatureFrom(IF i = 1 THEN cert ELSE parents[i - 1], parents[i])

ValidAt(cert, t) == cert.notBefore <= t /\ t <= cert.notAfter

\* x509 Certificate.Verify: a chain of certificates that are all valid at t
\* leads through the intermediates to a root.
ChainVerifies(ee, roots, intermediates, t) ==
  LET pool == {ee} \cup roots \cup intermediates
      IsChain(path, n) ==
        /\ path[1] = ee
        /\ path[n] \in roots
        /\ \A i \in 2 .. n - 1 : path[i] \in intermediates
        /\ \A i \in 1 .. n : ValidAt(path[i], t)
        /\ \A i \in 1 .. n - 1 : /\ CheckSignatureFrom(path[i], path[i + 1])
                                 /\ path[i].issuer = path[i + 1].subject
  IN  \E n \in 1 .. Cardinality(pool) : \E path \in [1 .. n -> pool] : IsChain(path, n)

=============================================================================
