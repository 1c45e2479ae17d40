\* All combinations of two small files and what is enabled.
SPECIFICATION FairSpec
CONSTANTS
  Configs <- MCConfigs
INVARIANTS
  NeverPartlyLoaded
  RacesEnd
PROPERTIES
  SignalEndsServer
