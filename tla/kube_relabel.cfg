SPECIFICATION FairSpec
CONSTANTS
  Absent = Absent
  Objects <- MCObjects
  Controllers <- MCControllers
  Tenants = {"client-a"}
  Versions = {1, 2}
  LabelKeys <- MCLabelKeys
  LabelValues <- MCLabelValues
  SecretNames <- MCSecretNames
  Specs <- Relabelled
  Issuable <- Names
  Issued <- NoNames
  Foreign <- MCForeign
  Disturbances <- Edits
  MaxDisturbances = 2
  MaxLag = 1
CHECK_DEADLOCK FALSE
PROPERTY VersionSynced
