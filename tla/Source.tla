-------------------------------- MODULE Source --------------------------------
(***************************************************************************)
(* Where a server comes from: SourceSelect side by side with what its      *)
(* steps stand for.  In each behaviour one of SourceSelect, Subscription,  *)
(* ShareLink and Outbound runs, and the others rest in an initial state.   *)
(***************************************************************************)
EXTENDS SourceSelect

CONSTANTS
  Nil, Failed, Refused, Absent,
  ServerWord, Urls, UserAgents, Headers, DefaultAgent, AgentNames,   \* of Subscription
  Bodies, MaxBody, MaxRedirects, MaxUrls,
  Colon, At, Hash, Question, Open, Close, Percent, Letters,          \* of ShareLink
  Method, Passwords, ServerNames, ServerHosts, LinkPorts, Plugins, Queries,
  Offers, Shares,                                                     \* of Outbound
  AlterIds

VARIABLES
  part,   \* "select", "download", "link", "outbound"
  urls, agent, headers, download, downloadPc, hops, sent, body,
  gotJson, gotUris, gotVpns, lines, got,
  account, link, linkParams,
  offered, params, written

downloadVars == <<urls, agent, headers, download, downloadPc, hops, sent, body,
                  gotJson, gotUris, gotVpns, lines, got>>
linkVars == <<account, link, linkParams>>
outboundVars == <<offered, params, written>>

-----------------------------------------------------------------------------
Downloads == INSTANCE Subscription WITH
  n <- download, pc <- downloadPc, json <- gotJson, uris <- gotUris, vpns <- gotVpns

Links == INSTANCE ShareLink WITH Ports <- LinkPorts, params <- linkParams

Out == INSTANCE Outbound

ASSUME ConstantsTyped ==
  Downloads!ConstantsTyped /\ Links!ConstantsTyped /\ Out!ConstantsTyped

-----------------------------------------------------------------------------
SelectRests == health = [s \in Servers |-> "down"] /\ Init
DownloadsRest ==
  /\ urls = <<CHOOSE url \in Urls : TRUE>> /\ agent = (CHOOSE a \in UserAgents : TRUE)
  /\ headers = (CHOOSE h \in Headers : TRUE) /\ Downloads!Init
LinksRest ==
  /\ account = (CHOOSE a \in Links!Accounts : TRUE)
  /\ link = (CHOOSE l \in Links!Links(account) : TRUE) /\ Links!Init
OutRests == offered = (CHOOSE o \in Offers : TRUE) /\ Out!Init

SourceInit ==
  \/ part = "select" /\ DownloadsRest /\ LinksRest /\ OutRests /\ Init
  \/ part = "download" /\ SelectRests /\ LinksRest /\ OutRests /\ Downloads!Init
  \/ part = "link" /\ SelectRests /\ DownloadsRest /\ OutRests /\ Links!Init
  \/ part = "outbound" /\ SelectRests /\ DownloadsRest /\ LinksRest /\ Out!Init

Select == part = "select" /\ Work /\ UNCHANGED <<part, downloadVars, linkVars, outboundVars>>
Elsewhere ==
  /\ part = "select" /\ (ProbeExits \/ ServerChanges \/ Kill)
  /\ UNCHANGED <<part, downloadVars, linkVars, outboundVars>>
Fetch == part = "download" /\ Downloads!Next /\ UNCHANGED <<part, vars, linkVars, outboundVars>>
ReadLink == part = "link" /\ Links!Next /\ UNCHANGED <<part, vars, downloadVars, outboundVars>>
Translate == part = "outbound" /\ Out!Next /\ UNCHANGED <<part, vars, downloadVars, linkVars>>
SourceNext == Select \/ Elsewhere \/ Fetch \/ ReadLink \/ Translate

everything == <<part, vars, downloadVars, linkVars, outboundVars>>
SourceSpec == SourceInit /\ [][SourceNext]_everything

-----------------------------------------------------------------------------
\* start finds a source or says that there is none, and every list of
\* subscriptions is worked off, however its servers answer.
EachResolves ==
  /\ part = "select" => Resolves
  /\ part = "download" => Downloads!DownloadsEnd

\* No line of a download holds a secret of a URL or a word of a server's;
\* every failed download says which it was, and nothing else fails; none takes
\* a candidate of another's; only a list longer than what is read of it yields
\* a cut link; and every request has one user agent, however the extra headers
\* spell it (Subscription, subscription.rs).
DownloadsHold ==
  /\ Downloads!TypeOK
  /\ Downloads!NothingLeaks /\ Downloads!ReasonTold
  /\ Downloads!NoneLost /\ Downloads!CutOnlyLong
  /\ Downloads!OneUserAgent

\* A link is read as the account that was shared, or refused; and every link of
\* another client with a port that is one is read (ShareLink).
LinkIsAccount == Links!TypeOK /\ Links!NeverAnother /\ Links!ReadsAll

\* xray is told what the panel meant, what ProxyParams cannot hold is refused,
\* and what corvex wrote it reads as it was (Outbound, protocol.rs:402-520).
OutboundIsMeant == Out!TypeOK /\ Out!MeansTheSame /\ Out!RefusesTheRest /\ Out!ReadsItsOwn
=============================================================================
