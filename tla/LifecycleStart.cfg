SPECIFICATION FairSpec
CONSTANTS
  SCHEMA <- MCSchema
  MIGRATE_V2 <- MCMigrate
  V1Tables <- MCV1Tables
  Setting = {"creds", "topics"}
  Required = {"creds", "topics"}
  Daemons = {d1, d2}
  Operators = {o1, o2}
  Names = {n1, n2}
  MaxKeys = 4
  Bounds <- MCBounds
INVARIANTS TypeOK SchemaComplete OneDaemon KeysKept SettingsKept
PROPERTIES ReplacedByForce StartComesUp
CHECK_DEADLOCK FALSE
