\* Messages with two signers of any kind of key, parts of which may be exchanged on the wire.
CONSTANTS
  Datas <- TwoDatas
  ContentTypes = {"data"}
  DigestOids = {"SHA512"}
  EncryptionOids = {}
  Certs <- TwoCerts
  Keys <- TwoKeys
  Chains <- NoChain
  Configs <- TwoConfigs
  Truststores <- MCTruststores
  SignatureParameters <- NullParameters
  MaxChanges = 1
  MaxTime = 1
  MaxSigners = 2
  MaxCerts = 2
  MaxDigests = 2
SPECIFICATION Spec
INVARIANTS
  SigningTimeSigned
  Authentic
  RoundTrip
  DigestsAgree
CHECK_DEADLOCK FALSE
