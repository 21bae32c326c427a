CONSTANTS
  Manifests <- AllManifests
  MayFail <- AllNames
  ErrorNames <- ReadersNames
SPECIFICATION FairSpec
INVARIANTS
  TypeOK
  InputsAvailable
  RoutedAsClassified
  SinksWaitForSources
  ReportMatchesExecution
  ReportedInDependencyOrder
  FailureIsBounded
PROPERTIES
  ImplementsDataflow
  Terminates
