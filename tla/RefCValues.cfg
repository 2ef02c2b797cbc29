CONSTANTS
  W8 = 2
  W16 = 3
  W32 = 4
  W64 = 6
  WInteger = 8
  Mantissa = 5
  SmallIntegers <- MCSmallIntegers
  CastIntegers <- MCCastIntegers
  CastHalves <- MCCastHalves
  Strings <- MCStrings
  BufferSize = 6
  BufferInts <- MCBufferInts
  BufferBytes <- MCBufferBytes
  BufferStrings <- MCBufferStrings
  MaxWrites = 4
SPECIFICATION Spec
INVARIANTS FixedAgreesWithInteger IntegerLaws CastsFactorThroughInteger TextRoundTrip StringsAreLists BufferReadsBack
CHECK_DEADLOCK FALSE
