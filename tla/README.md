# corvex in TLA+

corvex brings up a tunnel and points the operating system's proxy at it: it
picks a server, writes xray's `config.json`, starts xray, perhaps an AmneziaWG
tunnel before it, and switches the system proxy on. There is no daemon. Every
`corvex` command is a process of its own; what they share is files (`xray.pid`,
`config.json`, `corvex-awg.conf`, `corvex.log`), the process table and the proxy
settings, and nothing locks any of it. Each command may fail or be killed at
any of its steps, and the next one starts from what is left.

Paths below are those of the repository (`src/` is its source directory and
`README.md` its own README). Line numbers are those of the commit modelled.

## 1. Inventory

| Component | State | Operations | What makes it correct |
|---|---|---|---|
| xray lifecycle (`xray.rs`, `main.rs`) | `xray.pid`, process table | `start`, `stop`, `reload`, `is_running`, `preflight_pid_file`, `write_pid_file` | the PID file names the xray that runs; none runs untracked unless the user was told; no command brings down or forgets somebody else's |
| xray binary lookup (`xray.rs`) | what is installed | `resolve_binary`, `find_file_in_children` | what was found by the check is what is spawned |
| Process reports (`xray.rs`, `main.rs`) | none; reads `ps` and `xray.pid` | the orphan lines of `start`, `stop`, `status`; why a start may not go on | the user is sent after the right process, with the right command |
| System proxy (`platform/macos.rs`, `linux.rs`, `windows.rs`) | three proxies; `proxy.env` and desktop settings; registry and WinHTTP | `enable_proxy`, `disable_proxy`, `status` | on only at our address; all settings agree or there is an error; truthful reports |
| Command flow (`main.rs`) | all of the above and the tunnel | `start`, `restart`, `stop`, `reload` | a success leaves the parts agreeing, whatever was there before; refusals come before anything is taken down; the tunnel goes last |
| Source selection and health checks (`main.rs`, `health.rs`) | candidates, a temporary xray and its `config.json` | `choose_source`, `find_alive_params`, `check_tunnel` | the preferred working source is taken; a check leaves nothing behind; it ends |
| Subscriptions (`subscription.rs`) | lists of entries and links | requests, redirects, limits, decoding, messages | no secret of a URL is told; one failure costs no other's entries |
| Share links, outbounds (`protocol.rs`) | none | the parsers, `build_stream_settings`, `params_from_outbound` | a link is the account it was shared as, or refused; xray is told what was meant |
| Contents of `config.json` (`protocol.rs`, `main.rs`, `dns.rs`) | outbounds, rules, DNS servers, log, inbounds | `create_config`, `apply_to_config`, `update_routing_rules`, `sync_to_config`, `update_config_port` | rules name outbounds that exist; nothing is sent to the server of an earlier start; what the user put there stays |
| Routing rules (`traffic.rs`, `jsonsubs.rs`) | none | `build_routing_rules`, `harvest_direct_rules`, `merge_direct_domains` | the user's lists win over the subscription's; private addresses go direct |
| AmneziaWG engine (`engine/awg.rs`) | the `.conf`, the interface | `generate_conf`, `write_conf`, `start_tunnel`, `stop_awg_if_running` | the interface is the link's; nothing of an earlier link stays up |
| DNS discovery and diagnosis (`dns.rs`, `netdiag.rs`, `platform`) | a UDP socket | parsers of each platform, `discover_corporate_dns`, on-link arithmetic, the probe | a domain is mapped to a server the system has for it; no fault is invented |
| Restricted files (`config.rs`) | inodes, modes, ACLs, links, directories | `write_restricted`, `open_append_restricted`, `ensure_trusted_ancestry` | nothing written is readable by others, no path is followed that others can rearrange |
| corvex log (`main.rs`, `config.rs`) | `corvex.log`, `corvex.log.1` | `TeeWriter`, `prepare_log_file_at`, `rotate_if_oversized` | logging never fails a command; the file stays bounded |
| Log preflight (`main.rs`, `config.rs`) | xray's three logs | targets, probe, removal | a start that passes does not lose its xray to a log |
| File locations (`config.rs`) | environment | `config_base_dir`, `state_dir`, the paths | one home has one xray |
| Settings | `corvex.json` | serde with defaults | its outcome is an input of the models |
| Installer, workflows, examples, assets | - | - | not part of the running program |

Interactions: `cmd_start` downloads and selects a source, writes the
configuration, then drives tunnel, xray and proxy in that order; `cmd_stop`
takes xray, proxy and tunnel down in that order; `reload` validates
`config.json` and signals xray. xray itself, `networksetup`, `osascript`,
`gsettings`, `kwriteconfig`, `netsh`, `sudo`, `awg-quick` and `ps` are other
programs, called and judged by exit status and output. What is hard:
invocations that overlap, each look at a file separated from the act on it; a
process that dies while it is looked at; PIDs that are reused; leftovers of root
and of older versions; batches that fail half way; commands killed between two
steps; directories that other accounts rearrange during a walk; late answers on
a reused port; `start` and `stop` sequences that fail past the point of no
return. `PROJECT.json` lists these hazards one by one at their lines, each with
the properties that would show it going wrong.

## 2. Modules

`PROJECT.json` maps every definition to its lines. What follows says how state
and steps correspond.

### Processes and commands

**XrayLifecycle.** The PID file (`pidContent`, and in `pidPerm` who may read,
write and remove it), the process table (`state`, `owner`, `parent`) and any
number of invocations (`Clis`), each with a program counter and the locals of
the Rust functions: `site` says which caller of `is_running` waits for it,
`seen` is the text it read, `target` the PID it signals or has spawned. Each
system call on shared state is one action: reading the PID file
(`IsRunningRead`) is apart from judging and removing it (`IsRunningSome`,
`IsRunningNone`); the preflight is stat, open, unlink, read, judge, re-open; the
spawn, the truncation (`PidOpen`) and the write (`PidWrite`) are apart. The
twenty polls of `xray::stop` are abstracted to their two outcomes. A PID whose
process has exited stays a zombie while the corvex that spawned it lives,
because `start` drops the `Child` without waiting; `ZombieAnswers` says what
`ps` may print for it. `ps` may fail (`PsMayFail`); `Hazards` switches crashes,
kills, reboots and PID reuse on. The initial states are an empty machine, a
tracked xray, and three leftovers of a corvex run as root. Two variables are
history: `lost` collects the xrays that ran untracked with the user told or
with the corvex killed before it could write; `raced` is true from the moment
a start and another command are in progress together until none is. A PID file
that is a link or no regular file, which the preflight refuses by its shape
(`xray.rs` 598-600), is among no situation's leftovers. The Windows branches
(`tasklist`, `taskkill`) are not modelled.

**StartFlow.** One command after another, from end to end, with the tunnel,
`config.json` (reduced to whom its outbound and its rules are for, or
`Broken`), the running xray's copy of it and the proxy. Each fallible call of
`cmd_start`, `cmd_stop` and `cmd_reload` is an action with its failure; each
may be the last of a killed command; xray may crash and the machine restart.
`disturbed` is history: set by a failure past the point where something was
taken down or rewritten, by a kill or a crash, cleared by the success of a
later `start` or `stop`.

What is one step there has a module of its own:
**BinaryLookup** (the PATH, the fixed places and the package directories, asked
twice while installers run), **ProcessReport** (start, stop and status as single
steps; what is modelled step by step is reading the PID file and `ps` and
concluding whom to tell of), **AwgTunnel** (the containers of a vpn:// link, the
`.conf` line by line, `awg-quick` under sudo), **Locations** (paths from the
environment, for unix and for Windows with its reparse points and shared
fallback; start and stop are single steps there). **Flow** composes the five.

### Proxies

**ProxySwitch** is the promise of `Platform::enable_proxy` and `disable_proxy`
as the commands use it: a switch (`off`, `mixed`, `on`), moved step by step, and
a report that is true if the batch met no other. Three modules implement it,
with parameters in **ProxyAddresses**:

- **MacProxy**: six or three `networksetup` commands in order, each answering
  with an exit status and a text; the first that asks for administrator rights
  sends the whole batch through one prompt and then as a guarded chain. A
  command is assumed to take effect exactly when it exits well and prints no
  `** Error`: that is external.
- **LinuxProxy**: `proxy.env` opened and written or removed, then the commands
  for the desktop that `XDG_CURRENT_DESKTOP` names; GNOME's batch is given up at
  its first failure, KDE's goes on, and neither failure is reported. The switch
  is `proxy.env`. `Status` asks the desktop, or `proxy.env` where there is none
  to ask or gsettings fails; a gsettings that answers for the mode and fails for
  an address is left out.
- **WindowsProxy**: `ProxyEnable`, then `ProxyServer`, then `netsh winhttp`; the
  switch is the two registry values.

**Proxies** composes the three.

### Where a server comes from

**Subscription** works off the list of URLs: user agent and extra headers, up
to `MaxRedirects` redirects, a body cut at `MaxBody` items, its format; what is
said of a failure is a set of words, so that `NothingLeaks` can tell a word of
the URL from one of corvex's. **ShareLink** cuts links at their separators, in
the spellings other clients use; letters are not told apart. **Outbound** reads
an outbound of a JSON subscription into `ProxyParams` and writes one for xray,
key by key. **SourceSelect** is `choose_source`, `resolve_uri_flow` and the
health check, whose temporary `config.json` (`file`) and xray (`child`) are
state; the loop that parses URIs goes one by one into `parsed`; `health` is
what the world does and changes at any step in a run with `Unsteady`;
`rejected` is history. **Source** composes the four. Its assumptions
(`ConstantsTyped` of each part) say that what stands for no value is none, and
that a URL's host is not among its secrets, since `redact_url` prints it. Where
extra headers spell `User-Agent` in several ways, which one wins depends on the
order of the map: the model takes any, and `OneUserAgent` says one is sent.

### What a start writes

**TrafficRules** has the operators of `traffic.rs` and `jsonsubs.rs` and how
xray reads rules (external); **Routing** puts them together from
`corvex.json` to the outbound of a connection. **ConfigJson** is the file over
repeated starts: up to four steps, each a read, a change and a write of the
whole file, over what an earlier start, a killed start, a failing write or the
user left. `scalars` are the parts of the file (log, routing, dns, the first
inbound) that the user has made something other than objects: assigning into one
panics, and the start ends there (`WriteInto`). **Resolvers** is from the
systems' resolvers (`scutil`, `resolvectl`, adapters and policy rules) to the
mappings that a start writes and the list of `corvex dns`; **DnsReport** is that
report: route, interfaces, the on-link
judgement over addresses as sets of bits, and one query whose answer may be
late, foreign or missing; what `ip`, `route` and `ifconfig` print is a sequence
of tokens, in which the parsers look for keywords. **Config** composes Routing
and ConfigJson.

### Files

**RestrictedFile** is `write_restricted` and `open_append_restricted`, one
system call a step, from several processes, with inherited ACLs, directories in
which others may put files, staging and rename. **TrustedPath** is the walk of
`ensure_trusted_ancestry` while others move and replace what is theirs.
**LogPreflight** takes the paths of xray's logs to their probes and removals,
target by target with an index (`probe`).
**LogFile** is corvex's own log, with rotation, from several processes; **Logs**
composes the two.

### Compositions and MC modules

Several components share a run. In Source, Proxies, Flow, Logs and Config, and
in the MC modules that have more parts, a variable `part`, chosen at the start
and never changed, says which component runs; the others rest in one of their
initial states, which satisfy every property that is not about them. The state
space is the sum of the components' own, not their product. The compositions are
parameterised like their components and are what the theorems are about; the MC
modules over them give the constants values. A property of a component therefore
says the same there as in a run of the component alone; the components are
checked together wherever they interact in one module (StartFlow; ProxySwitch
under the three proxies; TrafficRules under Routing and ConfigJson).

## 3. Runs

Each property has a faulty variant of one definition (the `Faulty...`
definitions next to the code they vary, paired under "mutants" in
`PROJECT.json`) under which TLC finds it violated. A property of a composition
or an MC module that names several of one component (in parentheses below,
defined and explained in that component's module) is their conjunction, together
with the component's `TypeOK`.

| Run | Parts and instance | Shows |
|---|---|---|
| `lifecycle` | XrayLifecycle: commands no start of which overlaps another. In one part one after another (2 slots, 3 PIDs, 2 faults, all scenarios and hazards); in the other stops, reloads and reports that overlap (a PID less, 1 fault), of users and of root | one after another `NoneSilentlyOrphaned` and `PromisesKept` (`NoSilentOrphan` and `PromiseKept`); in both `TypeOK`, `TrackingKeptUnlessRaced`, `ProxyOutlivesXray`, `SpawnsUntrackedUnlessRaced`, `RootXrayUntouched` |
| `proxies` | MacProxy (2 callers, 2 addresses), LinuxProxy (2 callers, 1 address), WindowsProxy (2, 2) | `ImplementsProxySwitch` (MacProxy), `OthersImplement` (the other two); `SettingsAgree` (`LastWordsAgree`, `DesktopFollowsEnv`, `StatusFollowsEnv`, `AllAgree`); `NeverOnAtStale`, `HonestDenial` |
| `flow` | StartFlow (2 servers, tunnel, 2 faults), AwgTunnel (3 commands, links with one field amiss), ProcessReport (3 PIDs, 2 events), BinaryLookup (Windows; 2 places, packages of 2 entries), Locations for unix and Windows (2 xrays) | `TypeOK`, `Coherent`, `SpawnsResolved`, `TunnelOutlivesProxy` (StartFlow); `TunnelFollowsLink` (`TunnelIsLinks`, `ConfOutlivesRefusal`, `NoStaleTunnel`); `ReportsFit` (`AdviceFits`, `OrphansTold`, `BlockedByWhom`); `SpawnsWhatIsThere` (`SpawnsThePreferred`, `CheckHolds`); `PlacesFit` (`OneXrayPerHome`, `WrittenWhereMeant`, `NamedIsAccepted`) |
| `source` | SourceSelect (2 servers, an unparsable and a vpn:// entry, 2 subscriptions of up to 2 entries, unsteady health), Subscription (2 URLs, 2 redirects, bodies of up to 3 items of which 2 are read), ShareLink (passwords of 2 characters), Outbound | `SelectionHolds` (`Preference`, `GivesUpLast`, `NothingLeft`), `ChosenJustWorked`; `DownloadsHold` (`NothingLeaks`, `ReasonTold`, `NoneLost`, `CutOnlyLong`, `OneUserAgent`); `EachResolves`, liveness of both; `LinkIsAccount` (`NeverAnother`, `ReadsAll`); `OutboundIsMeant` (`MeansTheSame`, `RefusesTheRest`, `ReadsItsOwn`) |
| `restricted_file` | RestrictedFile: 2 processes, 3 inodes, 1 staging attempt, 2 chunks before and 1 written | `Private`, `RefusedUntouched`, `ArrivesWhole`; `DoneMeansDone` (`Done`, `LogKept`) |
| `logs` | LogFile (2 processes of 2 records, limit 1), LogPreflight (4 paths, all of shapes out of one of three sets of 4 or 5), TrustedPath (3 nodes, 7 modes, 3 of which "/" has) | `LogHolds` (`NoHoles`, `Durable`, `AtItsName`, `Bounded`), `OnePastGenerationKeptAlone`; `PreflightHolds` (`PassMeansOpens`, `ChosenAreSafe`, `AllNamed`, `NoFalseAlarm`, `NoTrace`); `WalkHolds` (`SameAsKernel`, `RefusalHasReason`, `VerdictLasts`, `EntriesStay`) |
| `config` | Routing (lists of up to 2 patterns, 1 subscription rule), ConfigJson (4 choices, 1 port, 12 kinds of edits of which 2 are made, 1 fault), Resolvers (up to 2 resolvers, links or adapters) | `RoutesAsAsked` (`PrivateDirect`, `OwnDirect`, `SubsOnlyWiden`, `DirectHasReason`); `FileAsAsked` (`RulesReach`, `NoStaleServer`, `AllWritten`, `FailsForAReason`, `UserKept`); `MappingsFit` (`MapsOwn`, `NoneMissed`, `ListsAll`, `ReportCoversStart`) |
| `ends` | with fairness and without symmetry: XrayLifecycle (1 slot, 2 PIDs, 1 fault), RestrictedFile (1 process, 2 inodes, 2 attempts, 3 chunks before and 2 written), TrustedPath (3 nodes that may be loops of links), DnsReport (addresses of 2 bits, 2 commands) | `EverythingEnds` (`EveryCommandEnds`, `Returns`, `WalkEnds`, `ReportEnds`); of the report `NoFaultInvented` (`FaultIffProven`, `OneWord`, `AnswerIsOurs`) |
| `lifecycle_race` | XrayLifecycle: 2 slots, no faults | violates `TrackingKept`, see findings |
| `lifecycle_zombie` | XrayLifecycle: 1 slot, no faults | violates `ReportedUpIsUp`, see findings |
| `config_merged` | Routing, lists in lower case | violates `ProxyTrafficWins`, see findings |
| `source_killed` | SourceSelect, steady servers | violates `CredentialsNeverPersist`, see findings |

**Bounds.** Two invocations or callers show every pairwise race; slots are
reused without limit. In `lifecycle` the `CONSTRAINT` of its cfg
keeps the commands one after another in the one part, and leaves starts out of
the other, whose behaviours keep a PID spare: a start that overlaps another
command breaks what `TrackingKept` says, which is `lifecycle_race`'s to show.
Three PIDs let an old xray, a new one and a
stranger coexist. `MaxFaults` bounds crashes, kills and reboots per behaviour:
two allow one in the middle of the repair of another. Two addresses tell an
enable from another's; Linux has one, because its desktop starts out at an
address that is nobody's (`Other`), which is what an enable that stops half way
leaves. One port tells the one a start writes from the one a user has put there
(1081), and a second edit may come on top of the first or after the start that
found it. Two servers allow a switch from one to the other and back, and a list of
two entries in each of two subscriptions has a first, a middle and a last
candidate. Two characters of a password put a separator before, after and beside
another. Two chunks in a file leave one behind if it is written from the start
and not truncated. Three nodes give a walk a directory, a link in it and what it
leads to; two bits give an on-link judgement every relation of two prefixes and
both their ends. A limit of one record is overrun by the second. What size an
integer has matters for ports (65536) and for alterIds, whose width `AlterIds`
is small so that one may exceed it. Symmetry is used for PIDs, slots, callers,
addresses, servers, inodes and processes that nothing orders, and never with
liveness.

Deadlock is not checked where the system may really stop: all PIDs may be taken
by strangers and zombies while no further command can begin, selections,
walks and reports end, and the number of records, links and commands is
bounded.

**Fairness.** All of it is weak fairness of corvex's own steps: the operating
system goes on scheduling a process, and no call that corvex makes blocks for
ever. For XrayLifecycle (`Work`) the waits for xray are bounded numbers of
polls; for RestrictedFile (`Step`) FIFOs are opened non-blocking
(`O_NONBLOCK`); for TrustedPath (`Walk`) each call concerns one name, and that
the walk ends in spite of links and of rearranging rests on its budget of
links; for DnsReport (`Step`) the receive has a time limit (`SO_RCVTIMEO`), so
that giving up is the fair step and an answer is not; for SourceSelect (`Work`)
and Subscription every connection and request has a timeout in the code. No
fairness is given to xray, which may ignore any signal, to other accounts, to
nameservers, or to the user.

## 4. Findings

1. *A dead xray is reported as up* (`lifecycle_zombie`). An xray that exits
   within its first second is a zombie of the corvex that asks about it;
   `kill(pid, 0)` and `ps` still answer for it. So `StartFailed`, which
   `xray.rs` 492-496 says "also fires on an invalid config, a missing geo
   asset, or an unwritable log", does not, and the proxy is switched on.
2. *A live xray's PID file can be removed* (`lifecycle_race`) when a start
   overlaps another command: every removal acts on a path looked at earlier.
   `xray.rs` 258-260 and 551-554 rule it out.
3. *Credentials of a killed check persist* (`source_killed`), against
   `health.rs` 50-51 and 78: a signal runs no destructor.
4. *proxy-traffic does not always win over a merged subscription*
   (`config_merged`), where `README.md` 235 says it does: direct rules come
   first, and `merge_direct_domains` leaves out only the domains that are spelled
   like an entry of proxy-traffic (`traffic.rs` 38-41). What the code does
   deliver is `DirectHasReason`: a domain of the subscription sends a connection
   out directly only in other words than proxy-traffic's.

Observations met while modelling that have no run of their own. The properties
are stated so as to hold in spite of them, and say so in their comments:

- The first acceptable server is taken, where `README.md` 179 says the fastest.
- `update_config_port` fails on a `config.json` without inbounds, after the
  earlier xray has been stopped (`FailsForAReason` lists it).
- A part of `config.json` that is there but is no object makes the update panic,
  in `apply_to_config` (log), `update_routing_rules` (routing), `sync_to_config`
  (dns) or `update_config_port` (the first inbound). `write_xray_config`, which
  by its comment (`main.rs` 788) creates anew what cannot be updated, does not
  get to it (`FailsForAReason` lists it).
- `sync_to_config` keeps servers that an earlier start wrote for a network the
  machine has left.
- The legacy form of an `ss` link whose plugin contains `@` is cut elsewhere.
- Two processes that rotate `corvex.log` at once lose one generation; without
  overlap none is (`OnePastGenerationKeptAlone`).
- The servers of a Windows policy rule (NRPT) are taken as one text, so a rule
  with several maps its domain to what xray takes for a name: that a mapping is
  to addresses, `MapsOwn` says of macOS and Linux only.
- `awg show` may be refused to an ordinary user, so a tunnel may look down:
  `NoStaleTunnel` is for root.
- A relative `XDG_CONFIG_HOME` makes the files depend on the working directory;
  `OneXrayPerHome` is about absolute ones.
- An IPv6 `hostName` is written into `Endpoint` without brackets (`awg.rs` 66).

## 5. Proofs

TLAPS checks 70 theorems and the lemmas they rest on, for every value of the
constants. The assumptions are those named in the modules: sentinel values are
not PIDs, ports or addresses, parameters are of the right kind, and there is a
caller (`CallersExist`; without one ProxySwitch could be left `mixed` by
nobody). TLC evaluates them in the runs.

Two techniques recur. What a module says of a sequence is stated by index, and
loops over sequences are steps with an index, so that no proof needs to know
what a fold computes. Where a recursive function or a `SelectInSeq` remains, it
is described by the least index with a property, which exists because `Nat` is
well founded (`Least`, from `WFMin`); that replaces the inductions the provers
cannot do. `UpTo` is the instance that is used most: what holds of the first
index, and of the next whenever of one, has no least exception.

The compositions Source, Proxies, Flow and Logs behave like each of their parts
(`PartsRun` in each), so that a theorem about a part holds of the composition;
the theorems named after a run's property are stated of the specification that
the run checks, up to the values of its constants.

*XrayLifecycleProofs.* `TypeCorrect` is inductive by itself: one lemma per kind
of step, `Work` split into its actions. Three strengthenings follow.

- `IInv` is what an invocation may conclude from what it has read, unless a
  start has met another command (`raced`): a start is then the only one in
  progress, and what it has seen is still in the file; any other may have seen
  what a command beside it has removed since (`Fresh`); and the file names no
  serving xray by the time one is about to be spawned and written (`Knows`).
  `Tracking` (`TrackingKeptUnlessRaced`) and `NoDuplicate`
  (`SpawnsUntrackedUnlessRaced`) follow, for any number of faults and of stops,
  reloads and reports that overlap.
- `HInv` is about an xray that other commands cannot harm: one of root's, or any
  where nobody starts another (`Shielded`). As long as it lives the file names
  it, and no invocation, however many overlap, has read anything else or stands
  at a step that removes the file (`Around`). It gives `StopsKeepTracking`
  (`TrackingKept`), `StopsOutlast` (`ProxyOutlivesXray`) and `RootXrayKept`
  (`RootXrayUntouched`). The first two assume that no command is a start, as
  in the part of `lifecycle` whose commands overlap: with one they are false
  (finding 2).
- `BInv` is about one command at a time after any history of crashes, kills
  and failures: each xray is named by the file or was reported (`Tracked`), and
  a command at its end has brought about what it promises (`Behind`). It gives
  `NoOrphans` (`NoneSilentlyOrphaned`), `Promises` (`PromisesKept`) and
  `LoneOutlasts`.

*ProxiesProofs.* The macOS batches are bound to the switch by what a batch that
is `alone` has established: every kind before its current command is as its
goal wants (`IInv`), and nothing has been applied while it has nothing to own
up to (`Pristine`). `Denial` gives `HonestDenial`, `Refinement` that every step
maps to a step of ProxySwitch or a stutter. `WInv` drops `alone`: if all who run
or have ended well want the same, each kind is as they want it or some batch has
yet to come to it (`Agreed`); behind its command to set a kind a batch never
leaves the address at a stale one (`Addressed`). From it follow `LastWords` and
`NeverStale` (`NeverOnAtStale`). For Linux and Windows a batch that has met no
other is the only one, and up to its first write the switch is as before, half
way after it, at its goal at the end; for Linux also that the settings before
the current command are as wanted, command by command of each desktop's list.
`Agree` (`SettingsAgree`), `OthersRefine` (`OthersImplement`) and `MacRefines`
are stated of the three together.

*FlowProofs.* StartFlow's `IInv` is the types, what a start has achieved by each
of its steps (`Progress`: it has a source; its file is whole from the DNS step
on; the tunnel is up; nothing runs when it spawns) and what has become of xray
and proxy at each (`Left`). `TypeCorrect`, `StaysCoherent`, `StartsResolved` and
`TunnelLast` follow, for any number of faults. `TunnelInv` says what a start has
parsed by each step, that a `.conf` is missing, cut or the text of some
configuration, and whose lines the interface runs with; that reading the text
gives back each field is a calculation over the fifteen lines (`FlattenOnes`
describes the text as a sequence, without a fold). `LookupInv` is that what the
check found is there until an installer runs; `ReportInv` that what was listed
is of one process table, and the tracked PID that of the file unless another
command has been at it; `PlaceInv` that every xray is tracked at the PID file of
its own start, no two at the same one, and that what was refused was needed. The
last one corrected the model: a start also needs the places of xray's logs,
which `NamedIsAccepted` now lists.

*LogsProofs.* A process that has not opened the log has left no trace
(`Fresh`), and what one that meets no other knows at each point (`Knows`): the
file it retires is full, the name is free when it renames. `LogAtItsName`,
`LogBounded` and `PastKept` follow. `RInv` adds that the records of a process
stand in one generation, in order and without a hole: a step appends one record
of one process (`Extends`) and moves nobody else's. `LogCorrect` is `LogHolds`.
For the preflight `CheckInv` has, of the targets before `probe`, that each
opens or is among the errors (`Verified`), and, undisturbed, that the tree is
as it was but for what stands in the errors or is about to be removed
(`Untraced`). `PreflightIsRight` is `PreflightHolds`.

*SourceProofs.* `SInv`: everybody before the candidate under test has been
turned down (`Passed`), the URIs have their turn after the JSON entries only
(`InOrder`), every parsable one among them is a candidate (`AllParsed`), and a
check's file and process exist between its steps only (`Clean`). The two steps
that all actions share, turning down and going on, are lemmas (`Rejects`,
`GoesOn`). `SelectionIsRight` and `ChosenWorks` follow. `DInv` is about the
downloads: no failure is told of before it is one, what is not taken yet has
yielded nothing, and the links that are not whole are finitely many, as
`CutOnlyLong` counts them. Reading a body adds what it yields to what is listed
(`ListedGrows`) and at most one cut link (`OneCut`, `CutsGrow`).
`DownloadsAreRight` (`DownloadsHold`) holds for any number of URLs, redirects
and items. For links and outbounds the invariants (`LInv`, `OInv`) say little
more than that what was read is the parser's result; the proof is about the
parsers. A link is cut at the last or the first place of a separator
(`LastPlaceOf`, `FirstPlaceOf`, `CutAt`), percent-encoding and base64 keep
separators out of what they encode (`EncodedIs`, `Base64Is`), and so each form,
over texts of every length, is read as the account it was written for
(`Sip002Is`, `LegacyIs`, `UrlIs`, `VmessIs`), but for the legacy form whose
plugin has an `@` (section 4). `LinksAreRead` (`LinkIsAccount`) sums up. An
outbound means the same before and after it is read (`ReadMeans`) and after it
is written again (`WrittenMeans`), key by key; reading again what was written
gives back the parameters (`SettingsAgain`, `StreamAgain`, `MeansAgain`).
`OutboundsAreMeant` is `OutboundIsMeant`.

*RestrictedFileProofs.* `Untouched` needs what a process has established about
the inode it holds open (`Vetted`): regular, single, its own, from the check on.
`Secret` needs that what a process writes is in inodes that no other account can
open any more (`Sealed`), for each process from the moment it has stripped the
ACL itself. `Arrives` (`ArrivesWhole`) adds how far a copy has come
(`CopiedAt`): what is staged is a prefix of its source, and all of it when the
rename comes. `CallsDo` (`DoneMeansDone`) is about a call that meets no other
(`Lone`): from its open on, the file at the path is the one it has vetted or has
staged, and holds what was there and as much of its own as it has written. The
steps of a process that has met nobody are `LoneSteps`; that what other accounts
do changes none of it is `OthersLeave`.

*DnsReportProofs.* `DnsInv` has three parts: what the walk holds of the path to
a nameserver (`PathInv`), that a nameserver that comes again is given the
verdict it has (`LinesInv`), and that a query is known by its identifier and is
of a nameserver reported or under way (`QueriesInv`). What the parsers find in
the tokens is `RouteRead` and `InetIs`, a prefix is a set of leading bits
(`SubnetIs`), and a fault is said only of a path that has it (`FaultFound`).
`NoFaultIsInvented` (`NoFaultInvented`) holds for addresses of any width, any
listing and any number of commands.

*ConfigProofs.* A route is the outbound of the first matching rule. Lemmas say
when a list of rules has a match and how appending rules changes it; the rules
of `build_routing_rules` are then taken one after another; `RoutesCorrect`
(`RoutesAsAsked`) sums up. The theorems hold for every set of words, hosts and
relations of matching.
Of config.json, `FileInv` says what is true of the file before each of a start's
writes. In every readable file, also a user's, `direct` is there, and where no
user has added a proxy at most one outbound stands before `direct` and `block`
(`OwnThere`): without that an update could leave an earlier server first. From
the first write on the chosen server has its outbound (`Sends`), the log is the
start's, and either nothing was there to update or what the user put there is
kept (`NoUpdate`, `Saves`); rules, DNS (`DnsWritten`) and port follow write by
write. `FileIsAsAsked` (`FileAsAsked`) follows; it assumes that no server that
corvex reads has the protocol of one of xray's own outbounds.

Only model-checked: all liveness (`EachResolves`, `EverythingEnds`: fairness is
beyond the prover); `WalkHolds`, whose reference, the kernel's walk, is a
recursive operator in TrustedPath; and `MappingsFit`, which compares five folds
over the lines that the systems' tools print with what these lines mean. The
library's facts about folds take an operator as a parameter, which the installed
provers cannot instantiate. A proof is conceivable with each fold written as a
function of its own and one induction per parser; it has not been carried
through, and for the parsers TLC's bounded inputs are what there is.

## 6. Not modelled

- *Settings*: deserialisation by serde with defaults; no state. Its outcome is
  an input of StartFlow, ConfigJson, LogFile, Resolvers and Routing.
- *Reading the proxy back on macOS and finding the network service*: parsing
  `networksetup` output; a network service that changes during a batch.
- *`tasklist` and `taskkill`*: the Windows branches of the lifecycle.
- *Ports of health checks*: that another program takes the port that
  `find_free_port` has just freed; what it would answer is not in the source.
- *HTTP, TLS, UDP and the file systems* are external, modelled by what corvex
  tells apart. That a DNS query never has the identifier of another that is
  still under way is assumed.
- *Files readable before corvex wrote them*: `Private` is about inodes whose
  ACL no other process has stripped meanwhile, and leaves out who holds a
  descriptor from a time when the mode allowed it.
- *Message texts, colours, layout*, the letters of names and of command output
  beyond what separates fields, the tail of `corvex logs`.
- *Installer, workflows, examples, assets*: packaging.
