SPECIFICATION Spec
CONSTANTS
  Absent = Absent
  NoIP = NoIP
  NoIngress = NoIngress
  Objects <- MCObjects
  Controllers <- MCControllers
  Versions = {0}
  LabelKeys <- MCLabelKeys
  LabelValues <- MCLabelValues
  ServiceNames = {"svc-a", "svc-b"}
  Addresses = {NoIP, ip1, ip2}
  Foreign <- MCForeign
  Specs <- MCSpecs
  Disturbances <- StatusFaults
  MaxDisturbances = 3
CHECK_DEADLOCK FALSE
INVARIANT PublishedAddress
