CONSTANTS
  Rows = 2
  Cols = 3
  Routing = "ADAPTIVE"
  VNets = 1
  VcPerVnet = 1
  Depth = 1
  Flits <- MC2x3Flits
  Src <- MC2x3Src
  Dst <- MC2x3Dst
  FlitVnet <- MC2x3FlitVnet
  Ring <- MC2x3Ring
  Spin = TRUE
  SpinThrshld = 6
  SpinMult = 1
  DrainAllVc = 0
  LinkLatency = 1
  RandSpinBound = 0
  InjectEpochs = 1
  NULL = NULL
SPECIFICATION Spec
PROPERTIES
  FabricSpec
