SPECIFICATION Spec
CONSTANTS
  NoLimit = NoLimit
  SimGasConfigs <- MCSimGasConfigs
INVARIANTS WiredOnSuccess NoKeeperUsedBeforeBuilt
