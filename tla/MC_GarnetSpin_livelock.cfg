CONSTANTS
  Rows = 2
  Cols = 2
  Routing = "ADAPTIVE"
  VNets = 1
  VcPerVnet = 1
  Depth = 1
  Flits <- MCFlits
  Src <- MCSrc
  Dst <- MCDst
  FlitVnet <- MCFlitVnet
  Ring <- MCRing
  Spin = TRUE
  SpinThrshld = 6
  SpinMult = 1
  DrainAllVc = 0
  LinkLatency = 1
  RandSpinBound = 0
  InjectEpochs = 1
  NULL = NULL
SPECIFICATION Spec
PROPERTIES
  EveryFlitEjected
