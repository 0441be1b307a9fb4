SPECIFICATION FairSpec
CONSTANTS
  a = a
  b = b
  Int8 = Int8
  int16 = int16
  Sockets = {a, b}
  Types = {Int8, int16}
  MaxBlocks = 3
  MaxBinds = 3
  MaxChanges = 2
INVARIANTS
  FirstServed
  AloneServedOnce
  AloneLosesLittle
PROPERTIES
  BackToDevice
