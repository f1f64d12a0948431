---------------------------- MODULE MCSignedData ----------------------------
(***************************************************************************)
(* The builder alone, with every way to give signing times and to fail: a  *)
(* value that is no key, a digest that is refused after it was listed, a   *)
(* key with a digest of its own, attributes without encoding.              *)
(***************************************************************************)
EXTENDS SignedData, MCFixtures

MCKeys   == {RSAKey, PQKey, RawKey}
MCCerts  == {RSALeaf}
MCChains == {<<>>}

MCConfigs ==
  {[c EXCEPT !.extraUnsigned = {5}] :
     c \in {MCConfig(<<>>, FALSE, FALSE, FALSE),
            MCConfig(<<>>, FALSE, TRUE, TRUE),
            MCConfig(<<OtherAttr(7), TimeAttr(2), TimeAttr(1)>>, FALSE, FALSE, FALSE),
            MCConfig(<<OtherAttr(7), TimeAttr(2), TimeAttr(1)>>, TRUE, TRUE, FALSE)}}

=============================================================================
