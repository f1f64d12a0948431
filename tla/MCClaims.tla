------------------------------ MODULE MCClaims ------------------------------
(***************************************************************************)
(* What comments of sign.go and verify.go say, each checked by a run of    *)
(* its own that shows how the code differs.                                *)
(***************************************************************************)
EXTENDS SignedMessage, MCFixtures

MCKeys    == {RSAKey}
MCCerts   == {RSALeaf}
MCChains  == {<<>>}
MCConfigs == {MCConfig(<<>>, FALSE, FALSE, FALSE)}

LateConfigs   == {MCConfig(<<>>, FALSE, FALSE, FALSE), MCConfig(<<TimeAttr(3)>>, FALSE, FALSE, FALSE)}
MCTruststores == {RootPool}

\* sign.go:308 "SetContentType sets the content type of the SignedData" and
\* sign.go:314 "Detach removes content": detaching leaves the content type, and
\* with it the agreement with the content type every signer has signed.
ContentTypeAgrees ==
  proper =>
    \A i \in 1 .. Len(signerInfos) :
      signerInfos[i].authenticated # NoAttributes =>
        signerInfos[i].authenticated.contentType = {contentType}

\* verify.go:43-46 "it also verifies the chain of trust ... at currentTime. It does
\* not use the signing time authenticated attribute": a genuine message whose
\* chains are valid at currentTime is accepted.
AtTimeIgnoresSigningTime ==
  p7.present /\ p7.signers # <<>> =>
    \A pool \in Truststores, t \in 1 .. MaxTime :
      (\A i \in 1 .. Len(p7.signers) :
         LET signer == p7.signers[i]
         IN  /\ HasCert(p7.certificates, signer)
             /\ SignedBy(signer, CertOf(signer))
             /\ SignatureOK(p7, signer, CertOf(signer))
             /\ ChainVerifies(CertOf(signer), pool.certs, Intermediates(p7), t))
      => VerifyWithChainAtTime(p7, pool, t, now)

=============================================================================
