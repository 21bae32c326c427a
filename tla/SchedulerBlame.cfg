CONSTANTS
  Manifests <- ChainManifests
  MayFail <- AllNames
  ErrorNames <- ReadersNames
SPECIFICATION Spec
INVARIANT BlamedStepFailed
