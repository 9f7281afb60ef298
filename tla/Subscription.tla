---------------------------- MODULE Subscription ----------------------------
(***************************************************************************)
(* Downloading the subscriptions (src/subscription.rs, and the loop over   *)
(* subs-url in src/main.rs cmd_start).  The URL of a subscription carries  *)
(* the user's token, a server may send back whatever it was asked, and     *)
(* every step of a download tells something to the terminal and the log.   *)
(* Text is the set of the words in it: corvex's own, the operating         *)
(* system's, those of the URL and those the server chose.                  *)
(***************************************************************************)
EXTENDS Naturals, Sequences, SequencesExt, FiniteSets

CONSTANTS
  Nil, Failed,
  ServerWord,    \* what a server writes into a text of its own
  Urls,          \* the URLs a user may configure
  UserAgents,    \* values of subs-user-agent, "" among them
  Headers,       \* the subs-headers a user may configure: spelling -> value
  DefaultAgent,  \* DEFAULT_SUBS_USER_AGENT
  AgentNames,    \* the spellings of "user-agent"
  Bodies,        \* what servers answer with
  MaxBody,       \* MAX_BODY_SIZE, in items of a body
  MaxRedirects,  \* how many redirects ureq follows
  MaxUrls        \* bound: how many URLs are configured

VARIABLES
  urls, agent, headers,  \* subs-url, subs-user-agent, subs-headers
  n,                     \* which of them is downloaded
  pc, hops, sent,        \* the download, its redirects, its headers
  body,                  \* what the server is sending
  json, uris, vpns,      \* what was collected
  lines,                 \* what was told: [n, step, words]
  got                    \* what every URL yielded: Nil, a reason, or a body

vars == <<urls, agent, headers, n, pc, hops, sent, body, json, uris, vpns, lines, got>>
config == <<urls, agent, headers>>
collected == <<json, uris, vpns>>

\* The words of a URL: url::Url's parts, of which some carry what is secret.
UrlWords(url) == {url.host} \cup url.secrets

\* An entry of a body, and what a server answers with: whole, until it is cut.
Kinds == {"vless", "vmess", "trojan", "ss", "vpn"}
Items == [kind : STRING \cup Kinds, whole : BOOLEAN]
Answers == [format : {"json", "base64", "other"}, items : Seq([kind : STRING \cup Kinds, whole : {TRUE}])]

\* redact_url: the host, or nothing of what cannot be parsed.
RedactUrl(url) ==
  IF ~url.parses \/ url.host = Nil THEN {"<redacted>"}
  ELSE {url.host} \cup (IF url.secrets = {} THEN {} ELSE {"<redacted>"})

\* download_subscription: what ureq would echo is refused before.
Fetchable(url) == url.parses /\ url.scheme \in {"http", "https"} /\ url.host # Nil

-----------------------------------------------------------------------------
Variants == {"HostNotFound", "ConnectionFailed", "Tls", "Timeout", "StatusCode",
             "TooManyRedirects", "Protocol", "BadUri", "Io"}
\* The words of corvex's own lines, and those that must not be in any of them.
Refusal == "not a fetchable subscription URL"
OwnWords == Variants \cup {Refusal, "os", "bytes", "<redacted>"}
Secrets == UNION {url.secrets : url \in Urls} \cup {ServerWord}

\* ureq's errors: the variant, what it displays, what it wraps.
Failure(variant, words) == [variant |-> variant, words |-> words, inner |-> Nil]
Wrapped(error) == [variant |-> "Io", words |-> error.words, inner |-> error]
Failures ==
  [variant : Variants, inner : {Nil},
   words : SUBSET ({"os", ServerWord} \cup UNION {UrlWords(url) : url \in Urls})]

ConstantsTyped ==
  /\ Bodies \subseteq Answers /\ MaxBody \in Nat \ {0}
  /\ MaxRedirects \in Nat /\ MaxUrls \in Nat
  /\ "User-Agent" \in AgentNames
  \* A secret is no word that is shown, and what stands for no value is none.
  /\ Secrets \cap (OwnWords \cup {url.host : url \in Urls}) = {}
  /\ Nil # Failed /\ {Nil, Failed} \cap Bodies = {} /\ Nil \notin Failures

\* describe_fetch_error, describe_io_error: corvex's words for every variant, and
\* of what they carry only what the OS or ureq chose.  The two call each other
\* down the chain of wrapped errors, here one deep.
Describe(error) ==
  CASE error.variant = "Io" /\ error.inner # Nil -> {error.inner.variant}
    [] error.variant = "Io" /\ error.inner = Nil -> {"Io"} \cup error.words
    [] OTHER -> {error.variant}

\* resolve_user_agent
Resolved == IF agent = "" THEN DefaultAgent ELSE agent

\* effective_user_agent and the loop over the extra headers: any spelling of
\* user-agent overrides, the first in the map's order, and none is sent again.
RequestHeaders ==
  LET overrides == DOMAIN headers \cap AgentNames
      first == IF "User-Agent" \in overrides THEN "User-Agent" ELSE CHOOSE h \in overrides : TRUE
      own == IF overrides = {} THEN Resolved ELSE headers[first]
  IN  {<<"User-Agent", own>>} \cup {<<h, headers[h]>> : h \in DOMAIN headers \ AgentNames}

Say(step, words) == lines' = lines \cup {[n |-> n, step |-> step, words |-> words]}

Init ==
  /\ urls \in UNION {[1..k -> Urls] : k \in 1..MaxUrls}
  /\ agent \in UserAgents /\ headers \in Headers
  /\ n = 1 /\ pc = "next" /\ hops = 0 /\ sent = {} /\ body = Nil
  /\ json = <<>> /\ uris = <<>> /\ vpns = <<>> /\ lines = {}
  /\ got = [k \in DOMAIN urls |-> Nil]

\* subscription_failure_message, over the whole chain of causes.
FailureMessage(url, reason) == RedactUrl(url) \cup reason

\* A subscription that fails is told of, and the next one is taken.
Fail(reason) ==
  /\ Say("failed", FailureMessage(urls[n], reason))
  /\ got' = [got EXCEPT ![n] = Failed]
  /\ n' = n + 1 /\ pc' = "next" /\ body' = Nil
  /\ UNCHANGED <<config, hops, sent, collected>>

Begin ==
  /\ pc = "next" /\ n <= Len(urls) /\ [n |-> n, step |-> "downloading",
                                       words |-> RedactUrl(urls[n])] \notin lines
  /\ Say("downloading", RedactUrl(urls[n]))
  /\ UNCHANGED <<config, n, pc, hops, sent, body, collected, got>>

Told == \E line \in lines : line.n = n /\ line.step = "downloading"

Refuse ==
  /\ pc = "next" /\ n <= Len(urls) /\ Told
  /\ ~Fetchable(urls[n])
  /\ Fail({Refusal})

Request ==
  /\ pc = "next" /\ n <= Len(urls) /\ Told
  /\ Fetchable(urls[n])
  /\ pc' = "request" /\ hops' = 0 /\ sent' = RequestHeaders
  /\ UNCHANGED <<config, n, body, collected, lines, got>>

\* What a server may put into a text: words of its own, and what it was asked.
ServerTexts == {{ServerWord}, UrlWords(urls[n]) \cup {ServerWord}}

\* The network fails, or 30 seconds have passed, or the server answers no 2xx.
NetworkFails ==
  /\ pc = "request"
  /\ \E variant \in {"HostNotFound", "ConnectionFailed", "Tls", "Timeout", "StatusCode"} :
       Fail(Describe(Failure(variant, {})))

IoFails ==
  /\ pc = "request"
  /\ Fail(Describe(Failure("Io", {"os"})))

\* A Location that is no URL, and one that ureq cannot fetch.
BadRedirect ==
  /\ pc = "request"
  /\ \E variant \in {"Protocol", "BadUri"}, text \in ServerTexts :
       Fail(Describe(Failure(variant, text)))

Redirect ==
  /\ pc = "request"
  /\ IF hops < MaxRedirects
     THEN hops' = hops + 1 /\ UNCHANGED <<config, n, pc, sent, body, collected, lines, got>>
     ELSE Fail(Describe(Failure("TooManyRedirects", {})))

Answer ==
  /\ pc = "request"
  /\ body' \in Bodies
  /\ pc' = "body"
  /\ UNCHANGED <<config, n, hops, sent, collected, lines, got>>

\* The connection ends, chunks are malformed (an io::Error around ureq's), the
\* time is over, or the text is no UTF-8: also where the cut is inside a character.
ReadFails ==
  /\ pc = "body"
  /\ \/ Fail(Describe(Failure("Io", {"os"})))
     \/ \E text \in ServerTexts : Fail(Describe(Wrapped(Failure("Protocol", text))))
     \/ Fail(Describe(Wrapped(Failure("Timeout", {}))))

\* take(MAX_BODY_SIZE): what is past it is not read.  A JSON text that is cut is
\* none; base64 that is cut decodes (the limit is a multiple of four), and its
\* last line may be part of a link.
Cut(b) ==
  IF Len(b.items) <= MaxBody THEN b
  ELSE IF b.format = "base64"
       THEN [b EXCEPT !.items = [SubSeq(@, 1, MaxBody) EXCEPT ![MaxBody].whole = FALSE]]
       ELSE [b EXCEPT !.format = "other"]

\* The entries of some kinds, in their order.
Of(items, kinds) ==
  FlattenSeq([i \in DOMAIN items |-> IF items[i].kind \in kinds THEN <<items[i]>> ELSE <<>>])
Supported == {"vless", "vmess", "trojan", "ss"}

\* The bug of taking any JSON or base64 for the end of the search.
FaultyCollect(b) ==
  /\ json' = IF b.format = "json" THEN json \o Of(b.items, Supported) ELSE json
  /\ uris' = IF b.format = "base64" THEN Of(b.items, Supported) ELSE uris
  /\ vpns' = IF b.format = "base64" THEN Of(b.items, {"vpn"}) ELSE vpns

\* parse_json_subscription, else decode_subscription and filter_supported; the
\* vpn:// links are kept apart.  What is neither is left out without a word.
Collect(b) ==
  /\ json' = IF b.format = "json" THEN json \o Of(b.items, Supported) ELSE json
  /\ uris' = IF b.format = "base64" THEN uris \o Of(b.items, Supported) ELSE uris
  /\ vpns' = IF b.format = "base64" THEN vpns \o Of(b.items, {"vpn"}) ELSE vpns

Read ==
  /\ pc = "body"
  /\ Collect(Cut(body))
  /\ Say("downloaded", RedactUrl(urls[n]) \cup {"bytes"})
  /\ got' = [got EXCEPT ![n] = body]
  /\ n' = n + 1 /\ pc' = "next" /\ body' = Nil
  /\ UNCHANGED <<config, hops, sent>>

\* The loop is over: "subscription candidates".
Finish ==
  /\ pc = "next" /\ n > Len(urls)
  /\ pc' = "done"
  /\ UNCHANGED <<config, n, hops, sent, body, collected, lines, got>>

Done == pc = "done" /\ UNCHANGED vars

Next ==
  \/ Begin \/ Refuse \/ Request \/ NetworkFails \/ IoFails \/ BadRedirect \/ Redirect
  \/ Answer \/ ReadFails \/ Read \/ Finish \/ Done

Spec == Init /\ [][Next]_vars

\* The loop goes on by itself; the global timeout ends what the server does not.
FairSpec == Spec /\ WF_vars(Next)

-----------------------------------------------------------------------------
TypeOK ==
  /\ n \in 1..Len(urls) + 1
  /\ pc \in {"next", "request", "body", "done"}
  /\ hops \in 0..MaxRedirects
  /\ body \in Bodies \cup {Nil}
  /\ pc = "body" <=> body # Nil
  /\ \A i \in DOMAIN json : json[i].whole

\* No line of a download holds a part of a URL that may carry the token, nor
\* anything the server chose, whatever it sends back and however ureq wraps it
\* ("the cause chain holds corvex's words and nothing the server wrote").
NothingLeaks ==
  \A line \in lines : \A word \in line.words :
    word \notin Secrets

\* Every failure says which it was, in a line of its own, and nothing else fails:
\* the reason is "the only part of a failed fetch worth reading".
ReasonTold ==
  \A k \in DOMAIN urls :
    got[k] = Failed <=>
      \E line \in lines :
        /\ line.n = k /\ line.step = "failed"
        /\ line.words \cap (Variants \cup {Refusal}) # {}

\* What every URL was found to list, in the order of the URLs.
Yield(k, format, kinds) ==
  IF got[k] \in {Nil, Failed} THEN <<>>
  ELSE IF got[k].format = format /\ Len(got[k].items) <= MaxBody THEN Of(got[k].items, kinds)
  ELSE <<>>
Listed(format, kinds) == FlattenSeq([k \in DOMAIN urls |-> Yield(k, format, kinds)])

SmallBodies == \A k \in DOMAIN urls : got[k] \in {Nil, Failed} \/ Len(got[k].items) <= MaxBody

\* The candidates are what the subscriptions list that could be read, in their
\* order: one that fails, or answers nonsense, takes none of another's.
NoneLost ==
  SmallBodies => /\ json = Listed("json", Supported)
                 /\ uris = Listed("base64", Supported)
                 /\ vpns = Listed("base64", {"vpn"})

\* The links that are not whole, and the lists that are longer than what is
\* read of them.
CutLinks ==
  {<<"uri", i>> : i \in {i \in DOMAIN uris : ~uris[i].whole}}
    \cup {<<"vpn", i>> : i \in {i \in DOMAIN vpns : ~vpns[i].whole}}
LongLists == {k \in DOMAIN urls : got[k] \notin {Nil, Failed} /\ Len(got[k].items) > MaxBody}

\* A link that is not whole comes from a list that is longer than what is read of
\* it, at most one from each.
CutOnlyLong == Cardinality(CutLinks) <= Cardinality(LongLists)

\* Every request has one user agent: the override of the extra headers in
\* whatever spelling, else the setting, else the default.
OneUserAgent ==
  pc = "request" =>
    LET overrides == DOMAIN headers \cap AgentNames
    IN  \E value \in IF overrides = {} THEN {Resolved} ELSE {headers[h] : h \in overrides} :
          {h \in sent : h[1] \in AgentNames} = {<<"User-Agent", value>>}

\* Every list of subscriptions is worked off, however its servers answer.
DownloadsEnd == <>(pc = "done")
=============================================================================
