SPECIFICATION BootstrapSpec
CONSTANTS
  Absent = Absent
  NoIP = NoIP
  NoIngress = NoIngress
  Unsigned = Unsigned
  Objects <- MCObjects
  Controllers <- MCControllers
  Versions = {0}
  LabelKeys <- MCLabelKeys
  LabelValues <- MCLabelValues
  ServiceNames = {"svc-a"}
  Addresses = {NoIP, ip1}
  Disturbances <- Everything
  MaxDisturbances = 3
  MaxLag = 0
  Tampered = {}
  Tenants = {"client-a"}
  SecretOf <- MCSecretOf
  KubeSpecs <- MCKubeSpecs
  MaxBehind = 1
CHECK_DEADLOCK FALSE
INVARIANTS ServedWithAddress
PROPERTIES Served
