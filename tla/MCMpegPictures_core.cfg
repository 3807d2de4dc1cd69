SPECIFICATION Spec
CONSTANTS
  Parameters <- AllParameters
  Coded <- CodedParameters
  Demands = {0, 55}
  Ends <- BeginOrCorner
  EndPairs <- OppositeCorners
INVARIANTS HeadersReadBack DecoderFollows PredictedAsSearched VectorsHaveCodes ChrominanceInPlace
CHECK_DEADLOCK FALSE
