CONSTANTS
  Manifests <- ChainManifests
  MayFail <- NoNames
  ErrorNames <- NoNames
SPECIFICATION Spec
INVARIANT JoinAvailable
