SPECIFICATION FairSpec
CONSTANTS
  Absent = Absent
  NoIP = NoIP
  NoIngress = NoIngress
  Objects <- MCObjects
  Controllers <- MCControllers
  Versions <- MCVersions
  LabelKeys <- MCLabelKeys
  LabelValues <- MCLabelValues
  ServiceNames = {"svc-a"}
  Addresses = {NoIP, ip1}
  Foreign <- MCForeign
  Specs <- Rollout
  Disturbances <- Upgrades
  MaxDisturbances = 4
CHECK_DEADLOCK FALSE
INVARIANT ApiServerUpgradesFirst
PROPERTY ImplementsLevelTriggered
