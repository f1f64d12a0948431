\* One signer, attached or detached, up to two changes on the wire, over time.
CONSTANTS
  Datas <- MCDatas
  ContentTypes = {"data"}
  DigestOids = {"SHA1"}
  EncryptionOids = {"RSA"}
  Certs <- MCCerts
  Keys <- MCKeys
  Chains <- MCChains
  Configs <- MCConfigs
  Truststores <- MCTruststores
  SignatureParameters = {}
  MaxChanges = 2
  MaxTime = 3
  MaxSigners = 1
  MaxCerts = 2
  MaxDigests = 1
SPECIFICATION Spec
INVARIANTS
  Authentic
  TrustedAtSigningTime
  RoundTrip
PROPERTY
  LongTerm
CHECK_DEADLOCK FALSE
