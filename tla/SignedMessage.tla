---------------------------- MODULE SignedMessage ---------------------------
(***************************************************************************)
(* A signed message from the builder to the receiver: Finish or            *)
(* DegenerateCertificate puts it on the wire, it may be changed on its     *)
(* way, Parse reads it, the receiver may supply a detached content, and    *)
(* the functions of Verify judge it while time passes.                     *)
(*                                                                         *)
(* One builder makes one message: builder calls after Finish cannot change *)
(* it, so they are left out.                                               *)
(***************************************************************************)
EXTENDS Verify

CONSTANTS
  Truststores,          \* certificate pools receivers verify with, none of them nil
  SignatureParameters,  \* parameters a transport may give a signature algorithm
  MaxChanges            \* bound on the changes in transport

VARIABLES
  wire,    \* the encoded message
  p7,      \* what Parse returned
  changes  \* history: how often the message was changed on the wire

messageVars == <<wire, p7, changes>>
vars == <<sdVars, messageVars>>

ASSUME SignedMessageAssumption ==
  /\ \A pool \in Truststores : ~pool.nil /\ pool.certs \subseteq Certificate
  /\ SignatureParameters \subseteq Parameters
  /\ MaxChanges \in Nat

NoMessage == [present |-> FALSE, contentType |-> "data", content |-> Empty,
              certificates |-> <<>>, signers |-> <<>>]

Init ==
  /\ SDInit
  /\ wire = NoMessage
  /\ p7 = NoMessage
  /\ changes = 0

Finish ==
  /\ ~wire.present
  /\ wire' = [present |-> TRUE, contentType |-> contentType, content |-> content,
              certificates |-> certs, signers |-> signerInfos]
  /\ result' = "ok"
  /\ UNCHANGED <<builder, now, history, p7, changes>>

DegenerateCertificate(chain) ==
  /\ ~wire.present
  /\ wire' = [NoMessage EXCEPT !.present = TRUE, !.certificates = chain]
  /\ result' = "ok"
  /\ UNCHANGED <<builder, now, history, p7, changes>>

\* The byte strings that those who have no key may know: contents, and whatever
\* bytes were signed, encodings of attributes among them.
Known == Contents \cup {e.signature.message : e \in signed}

\* The attributes they may know: signed ones, and those that some data encodes.
KnownAttributes ==
  {NoAttributes} \cup {e.attrs : e \in signed} \cup {b.attributes : b \in Datas \cap Encodings}

\* What one change can make of the i-th of the signers: signatures and attributes can
\* be put anywhere, names, OIDs and single attributes replaced, but nothing signed.
ChangedSigners(signers, i) ==
  LET s == signers[i]
  IN  {[s EXCEPT !.encryptedDigest = signers[j].encryptedDigest] : j \in 1 .. Len(signers)}
        \cup {[s EXCEPT !.authenticated = attrs] : attrs \in KnownAttributes}
        \cup {[s EXCEPT !.authenticated.signingTime = {t}] : t \in 1 .. MaxTime}
        \cup {[s EXCEPT !.authenticated.messageDigest = {x}] : x \in [hash : SHA, data : Datas]}
        \cup {[s EXCEPT !.digestAlgorithm = d] : d \in DigestOids}
        \cup {[s EXCEPT !.signatureAlgorithm = a] : a \in EncryptionOids}
        \cup {[s EXCEPT !.parameters = q] : q \in SignatureParameters}
        \cup {[s EXCEPT !.issuer = c.issuer, !.serial = c.serial] : c \in Certs}

\* The transport changes one part of the message, up to MaxChanges times.  Contents
\* may be cut into segments, of which Parse reads the first: that is a changed
\* content.  The content type is not changed: Verify does not read it.
Tamper ==
  /\ wire.present /\ ~p7.present
  /\ changes < MaxChanges
  /\ \/ \E b \in Known : wire' = [wire EXCEPT !.content = b]
     \/ \E cs \in Chains : wire' = [wire EXCEPT !.certificates = cs]
     \/ \E i \in 1 .. Len(wire.signers) : \E s \in ChangedSigners(wire.signers, i) :
          wire' = [wire EXCEPT !.signers[i] = s]
  /\ wire' # wire
  /\ changes' = changes + 1
  /\ UNCHANGED <<sdVars, p7>>

\* The orders a SET OF n elements can be read back in: encoding/asn1 sorts the
\* encodings of the elements, so the order of the builder is lost.
Orders(n) == {f \in [1 .. n -> 1 .. n] : \A i, j \in 1 .. n : f[i] = f[j] => i = j}

\* Parse and parseSignedData: content that is absent is read as empty.
Parse ==
  /\ wire.present /\ ~p7.present
  /\ \E order \in Orders(Len(wire.signers)) :
       p7' = [wire EXCEPT !.signers =
                [i \in 1 .. Len(wire.signers) |-> wire.signers[order[i]]]]
  /\ UNCHANGED <<sdVars, wire, changes>>

\* The receiver of a detached signature sets p7.Content before verifying.
SetContent(b) ==
  /\ p7.present /\ p7.content = Empty
  /\ p7' = [p7 EXCEPT !.content = b]
  /\ UNCHANGED <<sdVars, wire, changes>>

Next ==
  \/ ~wire.present /\ SDNext /\ UNCHANGED messageVars
  \/ wire.present /\ Tick /\ UNCHANGED messageVars
  \/ Finish
  \* no builder is involved: explored from an unused one only
  \/ \E chain \in Chains : certs = <<>> /\ digestIds = <<>> /\ DegenerateCertificate(chain)
  \/ Tamper
  \/ Parse
  \/ \E b \in Known : SetContent(b)

Spec == Init /\ [][Next]_vars

-----------------------------------------------------------------------------

\* The certificate the receiver attributes a signer to.
CertOf(signer) == getCertFromCertsByIssuerAndSerial(p7.certificates, signer)

(***************************************************************************)
(* What a signature that verifies can be.  sign.go signs bytes (lines 222  *)
(* and 266) and verify.go checks bytes (lines 162 and 188), and neither    *)
(* marks them as a content or as the encoding of attributes.  A key holder *)
(* has therefore signed what the message says, or the same bytes in the    *)
(* other of the two roles.                                                 *)
(***************************************************************************)

\* Signing call e was about exactly this content, with exactly these attributes.
Genuine(e, signer) == e.data = p7.content /\ e.attrs = signer.authenticated

\* The attributes that e signed stand as the content of a signer without attributes.
ShownAsContent(e, signer) ==
  /\ e.attrs # NoAttributes /\ ~HasAttributes(signer)
  /\ p7.content = Encoding(e.attrs)

\* The data that e signed without attributes stand as attributes about this content.
ShownAsAttributes(e, signer) ==
  /\ e.attrs = NoAttributes /\ HasAttributes(signer)
  /\ e.data = Encoding(signer.authenticated)
  /\ \E x \in signer.authenticated.messageDigest : x.data = p7.content

\* The key of certificate ee signed content and attributes that this signer of the
\* parsed message carries.
SignedBy(signer, ee) == \E e \in signed : e.key = ee.key /\ Genuine(e, signer)

\* If Verify accepts a message, then for every one of its signers the key of the
\* certificate found for it did sign exactly this content with exactly these
\* attributes, or the same bytes in the other role: no more than these two roles can
\* be exchanged, whatever was changed on the wire, removed by the builder or supplied
\* as detached content.  So a content that encodes no attributes, under a key that never
\* signs encodings of attributes without attributes, was signed as it is.
Authentic ==
  p7.present /\ VerifySignatures(p7, now) =>
    \A i \in 1 .. Len(p7.signers) :
      LET signer == p7.signers[i]
      IN  \E e \in signed :
            /\ e.key = CertOf(signer).key
            /\ \/ Genuine(e, signer)
               \/ ShownAsContent(e, signer)
               \/ ShownAsAttributes(e, signer)

\* When a chain has to be valid: at the signing times, or now if there is none.
ChainTimes(attrs) == IF attrs.signingTime = {} THEN {now} ELSE attrs.signingTime

\* If VerifyWithChain accepts a message, every signer has a valid chain to a trusted
\* root at the time that its key holder stated when signing this content, now if it
\* stated none.  Of attributes that stand as a content, the signing time is not looked
\* at: the chain is valid now.  Data that stand as attributes give one of their times.
TrustedAtSigningTime ==
  p7.present =>
    \A pool \in Truststores : VerifyWithChain(p7, pool, now) =>
      \A i \in 1 .. Len(p7.signers) :
        LET signer == p7.signers[i]
            ee == CertOf(signer)
            TrustedAt(t) == ChainVerifies(ee, pool.certs, Intermediates(p7), t)
        IN  \E e \in signed :
              /\ e.key = ee.key
              /\ \/ Genuine(e, signer) /\ \A t \in ChainTimes(e.attrs) : TrustedAt(t)
                 \/ ShownAsContent(e, signer) /\ TrustedAt(now)
                 \/ /\ ShownAsAttributes(e, signer)
                    /\ \E t \in ChainTimes(e.data.attributes) : TrustedAt(t)

UniqueNames(cs) ==
  \A i, j \in 1 .. Len(cs) : isCertMatchForIssuerAndSerial(cs[i], cs[j]) => cs[i] = cs[j]

\* A message made as the documentation says verifies, in whatever order its
\* signers are read back, attached or detached, at any later time; and the
\* only signer of a message is the certificate that was given to AddSigner, with
\* the signing time that was signed.
RoundTrip ==
  /\ p7.present /\ changes = 0 /\ proper /\ ~removed
  /\ p7.signers # <<>>
  /\ p7.content = data
  /\ UniqueNames(p7.certificates)
  => /\ VerifySignatures(p7, now)
     /\ Len(p7.signers) = 1 => \E e \in signed : /\ GetOnlySigner(p7) = {e.ee}
                                                 /\ UnmarshalSigningTime(p7) = e.attrs.signingTime

\* The signing time that UnmarshalSignedAttribute takes from the signer whose
\* encoding happens to come first is, in a message that Verify accepts, the one that
\* this signer's key signed together with this content; or its key signed, without
\* attributes, data that read as attributes with that time.
SigningTimeSigned ==
  p7.present /\ VerifySignatures(p7, now) =>
    \A t \in UnmarshalSigningTime(p7) :
      LET signer == p7.signers[1]
      IN  \E e \in signed :
            /\ e.key = CertOf(signer).key
            /\ \/ Genuine(e, signer) /\ e.attrs.signingTime = {t}
               \/ ShownAsAttributes(e, signer) /\ t \in e.data.attributes.signingTime

\* The tables agree: the digest that GetDigestOIDForSignatureAlgorithm gives for the
\* algorithm a signer is verified with is the digest it was signed with.  Ed25519
\* is left out, it signs under any digest.
DigestsAgree ==
  p7.present /\ changes = 0 /\ VerifySignatures(p7, now) =>
    \A i \in 1 .. Len(p7.signers) :
      LET s == p7.signers[i]
          algorithm == getSignatureAlgorithm(s.signatureAlgorithm, s.parameters, s.digestAlgorithm)
      IN  algorithm.scheme # "Ed25519" =>
            GetDigestOIDForSignatureAlgorithm(algorithm) = s.digestAlgorithm

Dated(signer) == signer.authenticated.signingTime # {}

\* "When the PKCS7 object includes the signing time authenticated attr it
\* verifies the chain at that time": what VerifyWithChain says of a message
\* whose signers are all dated does not change as time passes and
\* certificates expire.
LongTerm ==
  [][p7.present /\ p7' = p7 /\ (\A i \in 1 .. Len(p7.signers) : Dated(p7.signers[i])) =>
       \A pool \in Truststores :
         VerifyWithChain(p7, pool, now) = VerifyWithChain(p7, pool, now')]_vars

=============================================================================
