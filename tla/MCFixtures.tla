----------------------------- MODULE MCFixtures -----------------------------
(***************************************************************************)
(* Keys, certificates, signer configurations and certificate pools shared  *)
(* by the model-checking modules.  Times are 1, 2 and 3.                   *)
(***************************************************************************)
EXTENDS Naturals

\* A byte string that is not the encoding of attributes.
Text(name) == [text |-> name]
OneData == {Text("m")}

MCKey(id, kind) == [id |-> id, kind |-> kind]
CAKey   == MCKey("ca", "RSA")
RSAKey  == MCKey("rsa", "RSA")
ECKey   == MCKey("ec", "ECDSA")
EdKey   == MCKey("ed", "Ed25519")
PQKey   == MCKey("pq", "MLDSA65")
RawKey  == MCKey("raw", "opaque")

MCCert(name, subject, issuer, serial, key, issuerKey, ca, notBefore, notAfter) ==
  [name |-> name, subject |-> subject, issuer |-> issuer, serial |-> serial, key |-> key,
   issuerKey |-> issuerKey, ca |-> ca, notBefore |-> notBefore, notAfter |-> notAfter]

\* A root that becomes valid at time 2, after the leaves.
Root     == MCCert("root", "CN=ca", "CN=ca", 9, CAKey, CAKey, TRUE, 2, 3)
RSALeaf  == MCCert("rsa leaf", "CN=rsa", "CN=ca", 1, RSAKey, CAKey, FALSE, 1, 2)
ECLeaf   == MCCert("ec leaf", "CN=ec", "CN=ca", 2, ECKey, CAKey, FALSE, 1, 2)
PQLeaf   == MCCert("pq leaf", "CN=pq", "CN=ca", 3, PQKey, CAKey, FALSE, 1, 3)
EdSelf   == MCCert("ed self", "CN=ed", "CN=ed", 4, EdKey, EdKey, FALSE, 1, 3)
\* Another key under the name and serial number of RSALeaf.
Twin     == MCCert("twin", "CN=twin", "CN=ca", 1, ECKey, ECKey, FALSE, 1, 3)

MCConfig(extra, skipTime, skipCerts, unmarshalable) ==
  [extraSigned |-> extra, extraUnsigned |-> {}, skipCertificates |-> skipCerts,
   skipSigningTime |-> skipTime, unmarshalable |-> unmarshalable]

TimeAttr(t) == [type |-> "signingTime", value |-> t]
OtherAttr(v) == [type |-> "other", value |-> v]

RootPool   == [nil |-> FALSE, certs |-> {Root}]
EmptyPool  == [nil |-> FALSE, certs |-> {}]

=============================================================================
