SPECIFICATION Spec
CONSTANTS
  ByteBits = 4
  HuffMaxBits = 5
  EndSymbol = 16
  FixedLiteral <- MCFixedLiteral
  FixedDistance <- MCFixedDistance
  LenBase <- MCLenBase
  LenExtra <- MCLenExtra
  DistBase <- MCDistBase
  DistExtra <- MCDistExtra
  MaxHlit = 19
  MaxHdist = 3
  HlitBits = 2
  HdistBits = 2
  HclenBits = 3
  HclenMin = 2
  ClcOrder <- MCClcOrder
  ClcBits = 2
  Repeats <- MCRepeats
  MaxBlocks = 4
  Packages <- MCPackages
  Scratches = {0, 6, 16, 24}
  Headers <- MCHeaders
  Fields <- MCFields
  MaxScripts = 2
  MaxDepends = 2
  PkginfoMax = 4
  Samples <- MCSamples
  Lengths <- MCLengths
  Magics = {0, 267, 523}
  MaxFatSlices = 64
INVARIANTS InflateSound PackageExact PrefixStable
PROPERTY ReadingAdvances
CHECK_DEADLOCK FALSE
