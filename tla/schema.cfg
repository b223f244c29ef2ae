\* A web server and a console that boot side by side on a new database or one of any older
\* version: a boot in all beside the restarts of the server, one more boot or a second
\* initialization, an error, a kill.  Once all are up the system rests.
CONSTANTS
  Services = {web}
  Commands = {console}
  MaxBoots = 2
  MaxErrors = 1
  MaxKills = 1
  Nobody = Nobody
SPECIFICATION SchemaSpec
INVARIANTS RecordedIsWhole UpIsMigrated FailureExplained
PROPERTIES ServerComesUp
CHECK_DEADLOCK FALSE
