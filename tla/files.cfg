\* Two exports of one label on one day; Part Studios of one name; one clean-up.
\* A web server, a command line and a worker: 3 requests, one load, a crash.
CONSTANTS
  e1 = e1
  e2 = e2
  twin1 = twin1
  twin2 = twin2
  Exports = {e1, e2}
  Docs = {"doc"}
  Items = {twin1, twin2}
  Base <- OneLabel
  DocOf <- OneDocument
  Name <- OneName
  MaxWorkers = 2
  MaxCleanups = 1
  NoFile = NoFile
  Web = "web"
  Cli = "cli"
  Worker = "worker"
  Labels = {"label"}
  Accounts = {"main"}
  Profiles = {"STL", "STEP"}
  Orgs = {"acme", "labs"}
  Creds = {"Primary"}
  Channels = {"mail"}
  Primary = "Primary"
  Default = "STL"
  Established <- OneOrg
  MaxEdits = 3
  MaxLoads = 1
  MaxCrashes = 1
  Torn = Torn
  Absent = Absent
SPECIFICATION FilesSpec
INVARIANTS ReportedOnDisk RowIsFinal FilesWhole MissingExplained WayBack
PROPERTY KeepsOthersFiles
