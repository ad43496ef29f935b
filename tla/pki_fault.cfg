SPECIFICATION Spec
CONSTANTS
  Absent = Absent
  NoIP = NoIP
  NoIngress = NoIngress
  Unsigned = Unsigned
  Objects <- MCObjects
  Controllers <- MCControllers
  Versions = {0}
  LabelKeys <- MCLabelKeys
  LabelValues <- MCLabelValues
  ServiceNames = {"svc-a"}
  Addresses = {NoIP, ip1}
  Disturbances <- Lossy
  MaxDisturbances = 3
  MaxLag = 0
  Tampered = {}
CHECK_DEADLOCK FALSE
INVARIANT SecretsMade
