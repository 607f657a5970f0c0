SPECIFICATION Spec
CONSTANTS
  t1 = t1
  t2 = t2
  t3 = t3
  netmiko = netmiko
  paramiko = paramiko
  Nobody = Nobody
  Main = t1
  Threads = {t1, t2, t3}
  Loggers = {netmiko, paramiko}
  MaxSignals = 2
SYMMETRY Symmetric
INVARIANTS
  EchoWithheld
  LastOutRestores
