SPECIFICATION FairSpec
CONSTANTS
  Absent = Absent
  NoIP = NoIP
  NoIngress = NoIngress
  Objects <- MCObjects
  Controllers <- MCControllers
  Versions <- MCVersions
  LabelKeys <- MCLabelKeys
  LabelValues <- MCLabelValues
  ServiceNames = {"svc-a"}
  Addresses = {NoIP, ip1}
  Foreign <- MCForeign
  Specs <- Edits
  Disturbances <- Everything
  MaxDisturbances = 3
CHECK_DEADLOCK FALSE
INVARIANTS TypeOK SettledInSync
PROPERTY SchedulerCatchesUp
