SPECIFICATION MCSpec
CONSTANTS
  Words <- MCWords
  Hosts <- MCHosts
  Addrs = {"127.0.0.1", "10.0.0.1", "8.8.8.8"}
  Names = {"", "nl"}
  Matches <- MCMatches
  Within <- MCWithin
  Lists <- MCLists
  Entries <- MCEntries
  FileNames <- MCNames
  Choices <- MCChoices
  Ctraffic <- MCCtraffic
  Ptraffic <- MCPtraffic
  Mappings <- MCMappings
  Ports = {1080}
  Logs = {"x.log"}
  UserEdits <- MCEdits
  MaxEdits = 2
  MaxFaults = 1
  Nil = Nil
  User = User
  None = None
  Broken = Broken
INVARIANTS RoutesAsAsked MappingsFit
PROPERTY FileAsAsked
