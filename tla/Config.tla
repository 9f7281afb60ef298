-------------------------------- MODULE Config --------------------------------
(***************************************************************************)
(* The rules a start writes and the file it writes them into, in one       *)
(* specification: in each behaviour Routing or ConfigJson runs, and the    *)
(* other rests in an initial state.                                        *)
(***************************************************************************)
EXTENDS Routing

CONSTANTS FileNames, Choices, Ctraffic, Ptraffic, Mappings, Ports, Logs,
          UserEdits, MaxEdits, MaxFaults, User, None, Broken  \* of ConfigJson

VARIABLES
  part,   \* "rules", "file"; anything else leaves both at rest
  file, filePc, start, before, faulted, edits, faults

fileVars == <<file, filePc, start, before, faulted, edits, faults>>

File == INSTANCE ConfigJson WITH Names <- FileNames, pc <- filePc

ASSUME FileAssumption == File!FileAssumption

RoutingRests ==
  /\ ctraffic = {} /\ ptraffic = {} /\ merge_subs = FALSE /\ name = "" /\ entry = {}
  /\ Init

ConfigInit ==
  \/ part = "rules" /\ Init /\ File!Init
  \/ part = "file" /\ RoutingRests /\ File!Init
ConfigNext ==
  \/ part = "rules" /\ Next /\ UNCHANGED <<part, fileVars>>
  \/ part = "file" /\ File!Next /\ UNCHANGED <<part, vars>>
ConfigSpec == ConfigInit /\ [][ConfigNext]_<<part, vars, fileVars>>

-----------------------------------------------------------------------------
\* Every rule of a running xray reaches an outbound, those for proxied traffic
\* the chosen server; no server of an earlier start gets what no rule is for;
\* xray listens, logs and resolves as this start wants it to; an update keeps
\* what the user put into the file; and over a readable file a start fails only
\* for what it cannot update in it (ConfigJson, protocol.rs:786).
FileAsAsked ==
  /\ [](File!TypeOK /\ File!RulesReach /\ File!NoStaleServer /\ File!AllWritten /\ File!FailsForAReason)
  /\ File!UserKept
=============================================================================
