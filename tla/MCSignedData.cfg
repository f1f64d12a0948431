\* The builder: failed calls, mixed digests, explicit and skipped signing times.
CONSTANTS
  Datas <- OneData
  ContentTypes = {"data"}
  DigestOids = {"SHA256", "MD5"}
  EncryptionOids = {"RSA"}
  Certs <- MCCerts
  Keys <- MCKeys
  Chains <- MCChains
  Configs <- MCConfigs
  MaxTime = 2
  MaxSigners = 2
  MaxCerts = 2
  MaxDigests = 3
SPECIFICATION SDSpec
INVARIANTS
  SDTypeOK
  DigestsListed
  SigningTimeUnique
PROPERTY
  FailedCallAddsNoSigner
