SPECIFICATION FairSpec
CONSTANTS
  Absent = Absent
  Objects <- MCObjects
  Controllers <- MCControllers
  Tenants = {"client-a", "client-b"}
  Versions = {1, 2}
  LabelKeys <- MCLabelKeys
  LabelValues <- MCLabelValues
  SecretNames <- MCSecretNames
  Specs <- Apart
  Issuable <- Names
  Issued <- Names
  Foreign <- MCForeign
  Disturbances <- Neighbours
  MaxDisturbances = 3
  MaxLag = 0
CHECK_DEADLOCK FALSE
INVARIANT SettledOwner
PROPERTY HandedOver
