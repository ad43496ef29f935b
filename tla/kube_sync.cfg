SPECIFICATION FairSpec
CONSTANTS
  Absent = Absent
  Objects <- MCObjects
  Controllers <- MCControllers
  Tenants = {"client-a"}
  Versions = {1, 2}
  LabelKeys <- MCLabelKeys
  LabelValues <- MCLabelValues
  SecretNames <- MCSecretNames
  Specs <- Releases
  Issuable <- Names
  Issued <- NoNames
  Foreign <- MCForeign
  Disturbances <- Everything
  MaxDisturbances = 3
  MaxLag = 1
CHECK_DEADLOCK FALSE
INVARIANTS TypeOK SettledComponent PodsHaveSecrets
PROPERTIES RollsOut ConfigsCatchUp NothingLeft
