SPECIFICATION MCFairSpec
CONSTANTS
  Parts = {"select", "download", "link", "outbound"}
  Servers = {s1, s2}
  Unparsable = {bad}
  Vpn = {v1}
  None = none
  JsonBodies <- MCJsonBodies
  UriBodies <- MCUriBodies
  Subscriptions = 2
  Unsteady = TRUE
  Nil = Nil
  Failed = Failed
  Refused = Refused
  Absent = Absent
  ServerWord = "server"
  Urls <- MCUrls
  UserAgents = {"", "curl"}
  Headers <- MCHeaders
  DefaultAgent = "v2rayNG"
  AgentNames = {"User-Agent", "user-agent"}
  Bodies <- MCBodies
  MaxBody = 2
  MaxRedirects = 2
  MaxUrls = 2
  Colon = Colon
  At = At
  Hash = Hash
  Question = Question
  Open = Open
  Close = Close
  Percent = Percent
  Letters = {M, P, H, W}
  Method <- MCMethod
  Passwords <- MCPasswords
  ServerNames <- MCNames
  ServerHosts <- MCHosts
  LinkPorts = {443, 65536}
  Plugins <- MCPlugins
  Queries <- MCQueries
  Offers <- MCOffers
  Shares <- MCShares
  AlterIds <- MCAlterIds
  M = M
  P = P
  H = H
  W = W
CHECK_DEADLOCK FALSE
INVARIANTS SelectionHolds DownloadsHold LinkIsAccount OutboundIsMeant
PROPERTIES ChosenJustWorked EachResolves
