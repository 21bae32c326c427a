CONSTANTS
  Numbers <- MCNumbers
  Cells <- MCCells
  Crs <- MCCrs
  NoCrs = "none"
  EpsgCrs <- MCEpsgCrs
  Wgs84 = "EPSG:4326"
  LowerOf <- MCLowerOf
  LongNames = {"attribute_1"}
  WideTexts = {"wide"}
  Projected <- MCEpsgCrs
  OriginOf <- MCOriginOf
  Planes <- MCPlanes
  TokensOf <- MCTokensOf
  Jobs <- MCJobs
  JobOf <- MCJobOf

SPECIFICATION Spec

CHECK_DEADLOCK FALSE

INVARIANTS TypeOK VerdictIsRight SameAnswerEitherWay LineageIsTrue GateHolds RunsAreRepeatable ConversionsSettle RoundTrips GpGivesTheRunsAnswer
