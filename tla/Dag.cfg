CONSTANTS
  Names <- MCNames
  NoRef <- Unset
  RawManifests <- MCRawManifests
SPECIFICATION FairSpec
INVARIANTS
  TypeOK
  VerdictIsRight
  AcceptedIsPlanned
  WavesAreReadySets
PROPERTY VerdictIsReached
