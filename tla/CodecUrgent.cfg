SPECIFICATION CodecSpec
CONSTANT
  Bodies <- ThreeBodies
INVARIANT
  UrgentWasSent
