--------------------------- MODULE MCSignedMessage --------------------------
(***************************************************************************)
(* Messages from the builder to the receiver: one signer whose certificate *)
(* expires during the run and a certificate that shares its name and       *)
(* serial number; or two signers with keys of different kinds.  Some data  *)
(* are the encoding of attributes about another content.                   *)
(***************************************************************************)
EXTENDS SignedMessage, MCFixtures

\* Attributes about content "m", as data that callers may sign.
EncodedData(hash, time) ==
  Encoding([contentType |-> {"data"}, signingTime |-> {time}, other |-> {},
            messageDigest |-> {[hash |-> hash, data |-> Text("m")]}])

MCDatas  == {Text("m"), EncodedData("SHA1", 2)}
TwoDatas == {Text("m"), EncodedData("SHA512", 1)}

MCKeys   == {RSAKey, ECKey}
MCCerts  == {RSALeaf, Twin}
MCChains == {<<>>, <<Root>>}

MCConfigs ==
  {MCConfig(<<>>, FALSE, FALSE, FALSE),
   MCConfig(<<TimeAttr(3)>>, FALSE, FALSE, FALSE),
   MCConfig(<<>>, TRUE, TRUE, FALSE)}

\* Two signers with the other kinds of keys.
TwoKeys    == {ECKey, EdKey, PQKey}
TwoCerts   == {ECLeaf, EdSelf, PQLeaf}
TwoConfigs == {MCConfig(<<>>, FALSE, FALSE, FALSE)}
NoChain    == {<<>>}

NullParameters == {[NoParameters EXCEPT !.form = "null"]}

MCTruststores == {RootPool, EmptyPool}

=============================================================================
