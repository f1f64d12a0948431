\* Detach forgets the content type.
CONSTANTS
  Datas <- OneData
  ContentTypes = {"tst"}
  DigestOids = {"SHA256"}
  EncryptionOids = {"RSA"}
  Certs <- MCCerts
  Keys <- MCKeys
  Chains <- MCChains
  Configs <- MCConfigs
  Truststores <- MCTruststores
  SignatureParameters = {}
  MaxChanges = 1
  MaxTime = 2
  MaxSigners = 1
  MaxCerts = 2
  MaxDigests = 1
SPECIFICATION Spec
INVARIANT ContentTypeAgrees
CHECK_DEADLOCK FALSE
