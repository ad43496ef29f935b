SPECIFICATION FairSpec
CONSTANTS
  Absent = Absent
  NoIP = NoIP
  NoIngress = NoIngress
  Unsigned = Unsigned
  Objects <- MCObjects
  Controllers <- MCControllers
  Versions = {0}
  LabelKeys <- MCLabelKeys
  LabelValues <- MCLabelValues
  ServiceNames = {"svc-a"}
  Addresses = {NoIP, ip1}
  Disturbances <- Everything
  MaxDisturbances = 2
  MaxLag = 0
  Tampered <- MCTampered
CHECK_DEADLOCK FALSE
INVARIANTS TypeOK SettledPki
PROPERTIES AddressBeforeCertificate EverythingSigned AdminKubeconfigRenewed
