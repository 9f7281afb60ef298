------------------------------- MODULE MCFlow -------------------------------
(* Flow on small instances, for TLC. *)
EXTENDS Flow, TLC

\* A good link, a second one behind another container, and links with one
\* field of another kind, or with a newline in it.
LinkFields == {"client_ip", "client_priv_key", "server_pub_key", "psk_key", "Jc", "Jmin", "Jmax",
               "S1", "S2", "H1", "H2", "H3", "H4", "hostName", "port"}
Value(kind, id, newline) == [kind |-> kind, id |-> id, newline |-> newline]
Plain == [f \in LinkFields |-> Value(IF f \in {"port", "Jc"} THEN "natural" ELSE "string", f, FALSE)]
With(f, v) == <<[name |-> "awg", awg |-> [Plain EXCEPT ![f] = v]]>>
MCIds == LinkFields \cup {"second", "third"}
MCLinks ==
  {<<[name |-> "openvpn", awg |-> Nil], [name |-> "awg", awg |-> Plain]>>,
   <<[name |-> "openvpn", awg |-> Nil]>>,
   <<[name |-> "awg", awg |-> Nil], [name |-> "awg", awg |-> Plain]>>}
    \cup {With(f, Value(k, "second", FALSE)) :
            f \in {"hostName", "port", "psk_key", "S1"}, k \in {"string", "negative", "missing"}}
    \cup {With(f, Value("string", "third", TRUE)) : f \in {"hostName", "client_priv_key", "H4"}}

\* Those a start leaves, of either user, those of others' names and configs.
MCPrograms ==
  [user : {"me", "root"}, binary : {"xray"}, config : {"own", "other"}]
    \cup {[user |-> "me", binary |-> "spaced", config |-> "own"],
          [user |-> "me", binary |-> "xray-like", config |-> "none"],
          [user |-> "me", binary |-> "editor", config |-> "own"]}

\* Two of the five fixed places, and every package directory of two entries.
PackageKinds == {"binary", "direct", "deep", "empty", "unreadable"}
MCPackages == UNION {[1..k -> PackageKinds] : k \in 0..2}

\* Two of the places of installers.
MCFixedPlaces == <<"ProgramFiles", "Programs">>

\* Variables that are set, empty or unset; on Windows a place in the temporary
\* directory that a variable names, and reparse points.
Home1 == <<"/", "home", "one">>
MCTemp == <<"/", "Temp">>
MCUnixPlaces ==
  [configs |-> {Nil, <<>>, Home1 \o <<".config">>}, states |-> {Nil, <<"/", "st">>},
   homes |-> {Nil, <<>>, Home1}, cwds |-> {<<"/", "work">>, <<"/", "other">>}]
MCWindowsPlaces ==
  [configs |-> {Nil, <<>>, <<"/", "Roaming">>, MCTemp \o <<"mine">>},
   states |-> {Nil, <<"/", "Local">>, MCTemp}, homes |-> {Nil, <<>>, Home1}, cwds |-> {<<"/", "work">>}]
MCReparse ==
  {<<"/", "Roaming", "xray", "corvex-awg.conf">>, <<"/", "Local", "xray", "xray.pid">>,
   Home1 \o <<"AppData", "Roaming", "xray", "config.json">>,
   Home1 \o <<"AppData", "Local", "xray", "error.log">>}

\* Servers are interchangeable, and no process id is told from another.
Symmetry == Permutations(Servers) \cup Permutations(Pids)
=============================================================================
