CONSTANTS
  t1 = t1
  t2 = t2
  t3 = t3
  Threads <- MCThreads
  InputShapes <- MCInputShapes
  NoiseShapes <- MCNoiseShapes
SPECIFICATION Spec
INVARIANT TypeOK
 
CHECK_DEADLOCK FALSE
