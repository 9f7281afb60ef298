----------------------------- MODULE LogPreflight -----------------------------
(***************************************************************************)
(* Where xray's three logs go and whether it will be able to write them:   *)
(* run, build_xray_log_config, ensure_directories, xray_log_dirs,          *)
(* xray_log_preflight_targets and preflight_log_paths of src/src/main.rs,  *)
(* open_xray_log of src/src/config.rs.  Another xray may create one of the *)
(* files meanwhile.  What the opens do in detail is RestrictedFile.        *)
(***************************************************************************)
EXTENDS Naturals, Sequences

CONSTANTS
    XrayLog, AccessLog, ErrorLog,  \* corvex's own choices
    UserPaths,                     \* paths a user may name
    Worlds                         \* sets of what may be at a path to begin with

Chosen == {XrayLog, AccessLog, ErrorLog}
Paths == Chosen \cup UserPaths

AllShapes == {"absent",
              "file",      \* a file of this account's in a trusted directory
              "exposed",   \* one in a directory others can change
              "writable",  \* somebody else's, open to this account
              "foreign",   \* somebody else's
              "fifo", "readFifo", "dangling", "linked", "dir",
              "noParent", "noParentEver"}
ConstantsTyped == Worlds \subseteq SUBSET AllShapes
Special == "none"
Options == {"unset", Special} \cup UserPaths \cup {AccessLog}

VARIABLES
    fs,        \* what is at each path
    access, error,  \* log.xray.access and log.xray.error of the settings
    pc,        \* "dirs", "look", "open", "remove", "passed", "refused"
    probe,     \* the index of the target to probe
    existed,   \* existed_before
    errors,    \* targets reported
    before,    \* history: the tree when the probes began
    disturbed  \* history: another xray has created a file

vars == <<fs, access, error, pc, probe, existed, errors, before, disturbed>>

\* build_xray_log_config
Effective(option, default) == IF option = "unset" THEN default ELSE option
Access == Effective(access, AccessLog)
Error == Effective(error, ErrorLog)

\* run: xray_log follows log.xray.error, unless that names no file.
CapturedLog == IF error \in {"unset", Special} THEN XrayLog ELSE error

\* xray_log_preflight_targets
Named(value) == IF value = Special THEN <<>> ELSE <<value>>
FaultyCapturedOnly == <<CapturedLog>>
Targets == <<CapturedLog>> \o Named(Access) \o Named(Error)

\* xray_log_dirs: the targets whose directory is created.
LogDirs == {Targets[i] : i \in DOMAIN Targets}

Init ==
    /\ \E shapes \in Worlds : fs \in [Paths -> shapes]
    /\ access \in Options /\ error \in Options
    /\ pc = "dirs"
    /\ probe = 1
    /\ existed = FALSE
    /\ errors = {}
    /\ before = fs
    /\ disturbed = FALSE

\* ensure_directories: failures only warn.
EnsureDirectories ==
    /\ pc = "dirs"
    /\ fs' = [p \in Paths |-> IF p \in LogDirs /\ fs[p] = "noParent" THEN "absent" ELSE fs[p]]
    /\ before' = fs'
    /\ pc' = "look"
    /\ UNCHANGED <<access, error, probe, existed, errors, disturbed>>

-----------------------------------------------------------------------------
(* The opens *)

Nothing == {"absent", "noParent", "noParentEver"}

\* open_append_restricted after ensure_trusted_ancestry; open_append_nonblocking.
OpensStrictly(shape) == shape \in {"absent", "file"}
OpensLoosely(shape) ==
    shape \in {"absent", "file", "exposed", "writable", "readFifo", "dangling", "linked"}

\* open_xray_log, is_corvex_chosen_xray_log
Opens(p) == IF p \in Chosen THEN OpensStrictly(fs[p]) ELSE OpensLoosely(fs[p])

\* What O_CREAT leaves.
Opened(shape) == CASE shape = "absent" -> "file" [] shape = "dangling" -> "linked" [] OTHER -> shape

-----------------------------------------------------------------------------
(* preflight_log_paths *)

Target == Targets[probe]
Seen == {Targets[i] : i \in 1..(probe - 1)}

\* A path that was probed is not probed again.
Skip ==
    /\ pc = "look" /\ probe <= Len(Targets) /\ Target \in Seen
    /\ probe' = probe + 1
    /\ UNCHANGED <<fs, access, error, pc, existed, errors, before, disturbed>>

Conclude ==
    /\ pc = "look" /\ probe > Len(Targets)
    /\ pc' = IF errors = {} THEN "passed" ELSE "refused"
    /\ UNCHANGED <<fs, access, error, probe, existed, errors, before, disturbed>>

\* symlink_metadata
Look ==
    /\ pc = "look" /\ probe <= Len(Targets) /\ Target \notin Seen
    /\ existed' = (fs[Target] \notin Nothing)
    /\ pc' = "open"
    /\ UNCHANGED <<fs, access, error, probe, errors, before, disturbed>>

OpenFails ==
    /\ pc = "open" /\ ~Opens(Target)
    /\ errors' = errors \cup {Target}
    /\ probe' = probe + 1
    /\ pc' = "look"
    /\ UNCHANGED <<fs, access, error, existed, before, disturbed>>

OpenSucceeds ==
    /\ pc = "open" /\ Opens(Target)
    /\ fs' = [fs EXCEPT ![Target] = Opened(@)]
    /\ IF existed
       THEN probe' = probe + 1 /\ pc' = "look"
       ELSE pc' = "remove" /\ UNCHANGED probe
    /\ UNCHANGED <<access, error, existed, errors, before, disturbed>>

\* remove_file of what the probe has created, a failure of which is an error.
Unprobe ==
    /\ pc = "remove"
    /\ \/ fs' = [fs EXCEPT ![Target] = "absent"] /\ UNCHANGED errors
       \/ errors' = errors \cup {Target} /\ UNCHANGED fs
    /\ probe' = probe + 1
    /\ pc' = "look"
    /\ UNCHANGED <<access, error, existed, before, disturbed>>

\* Another xray opens a log that is not there.
Appear ==
    /\ pc \in {"look", "open"}
    /\ \E p \in Paths : fs[p] = "absent" /\ fs' = [fs EXCEPT ![p] = "file"]
    /\ disturbed' = TRUE
    /\ UNCHANGED <<access, error, pc, probe, existed, errors, before>>

Probe == EnsureDirectories \/ Skip \/ Look \/ OpenFails \/ OpenSucceeds \/ Unprobe \/ Conclude
Next == Probe \/ Appear
Spec == Init /\ [][Next]_vars

-----------------------------------------------------------------------------
(* Properties *)

TypeOK ==
    /\ fs \in [Paths -> AllShapes] /\ before \in [Paths -> AllShapes]
    /\ access \in Options /\ error \in Options
    /\ pc \in {"dirs", "look", "open", "remove", "passed", "refused"}
    /\ probe \in 1..(Len(Targets) + 1)
    /\ existed \in BOOLEAN /\ disturbed \in BOOLEAN
    /\ errors \subseteq Paths

\* What xray does with the values corvex puts into its configuration: it opens
\* by name, follows links, and hangs on a FIFO nobody reads.
XrayOpens(shape) == OpensLoosely(shape)

\* A start that gets past the preflight does not lose its xray to a log: the
\* file that takes its output opens, and so does every one it opens itself.
PassMeansOpens ==
    pc = "passed" => /\ Opens(CapturedLog)
                     /\ \A v \in {Access, Error} \ {Special} : XrayOpens(fs[v])

\* A path corvex has chosen, which xray will open by name, passes only where
\* nobody else can change what the name means.
ChosenAreSafe ==
    pc = "passed" => \A p \in LogDirs \cap Chosen : fs[p] \in {"absent", "file"}

\* Every target that cannot be opened is named in one go.
AllNamed ==
    (pc = "refused" /\ ~disturbed) =>
        {p \in LogDirs : ~Opens(p)} \subseteq errors

\* Nobody is sent after a file that is fine: a default that the user has not
\* named fails only for what is at it, not for a directory nobody has created.
NoFalseAlarm ==
    (pc = "refused" /\ ~disturbed) =>
        \A p \in errors : before[p] \notin {"noParent", "file"}

\* The probe leaves no trace: no new file, and no link of the user's gone.
\* (Through a dangling link of theirs it does create the file behind it.)
NoTrace ==
    (pc \in {"passed", "refused"} /\ ~disturbed) =>
        \A p \in Paths \ errors :
            fs[p] = before[p] \/ (before[p] = "dangling" /\ fs[p] = "linked")
=============================================================================
