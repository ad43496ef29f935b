SPECIFICATION Spec
CONSTANTS
  Absent = Absent
  NoIP = NoIP
  NoIngress = NoIngress
  Objects <- MCObjects
  Controllers <- MCControllers
  Versions <- MCVersions
  LabelKeys <- MCLabelKeys
  LabelValues <- MCLabelValues
  ServiceNames = {"svc-a"}
  Addresses = {NoIP, ip1}
  Foreign <- MCForeign
  Specs <- Releases
  Disturbances <- OnlyEdits
  MaxDisturbances = 3
CHECK_DEADLOCK FALSE
INVARIANT SettledSchedulerInSync
