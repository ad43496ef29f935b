SPECIFICATION FairSpec
CONSTANTS
  Absent = Absent
  NoIP = NoIP
  NoIngress = NoIngress
  Objects <- MCObjects
  Controllers <- MCControllers
  Versions = {0}
  LabelKeys <- MCLabelKeys
  LabelValues <- MCLabelValues
  ServiceNames = {"svc-a", "svc-b"}
  Addresses = {NoIP, ip1}
  Specs <- MCSpecs
  Disturbances <- Everything
  MaxDisturbances = 2
  MaxLag = 1
CHECK_DEADLOCK FALSE
INVARIANTS TypeOK SettledEndToEnd
PROPERTY ImplementsLevelTriggered
