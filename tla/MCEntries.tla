------------------------------ MODULE MCEntries ------------------------------
(* What becomes of the entries of a feed: recognised and read, written and  *)
(* read again by other panels, stored, and served through the rules of the  *)
(* sources and the profile.  `part` chooses the component that moves, the   *)
(* others keep an initial state.                                            *)
EXTENDS Subscription, Republish, Payload

VARIABLE part

-----------------------------------------------------------------------------
(* Subscription: three hosts, two sources, one profile.                     *)
Path(v) == [key |-> "path", value |-> v]
Insecure == [key |-> "insecure", value |-> "1"]
Entry(scheme, name, host, params) ==
    [scheme |-> scheme, prefix |-> "", name |-> name, host |-> host, port |-> "443", params |-> params]

\* h1 with path b is what a rename can make of h2; "n1" and "N1" differ in case only.
NodeOne == Entry("vless", "n1", "h1", <<Path("b")>>)
NodeOther == Entry("vless", "N1", "h1", <<Path("b")>>)
NodeTwo == Entry("vless", "n2", "h2", <<Path("a"), Path("b")>>)
NodeThree == Entry("ss", "n3", "h3", <<Insecure>>)

MCPayloads == <<{<<NodeTwo, NodeOne>>, <<NodeOther, NodeThree>>}, {<<NodeThree, NodeTwo>>}>>
MCCollation == ("" :> 0) @@ ("n1" :> 1) @@ ("N1" :> 1) @@ ("n2" :> 2) @@ ("n3" :> 3) @@ ("DE" :> 4) @@ ("US" :> 5)
                 @@ ("h1" :> 6) @@ ("h2" :> 6) @@ ("h3" :> 6) @@ ("443" :> 7) @@ ("a" :> 8) @@ ("b" :> 8) @@ ("1" :> 8)
MCHits == ("n1" :> {"n1"}) @@ ("h1" :> {"h1"}) @@ ("h2" :> {"h2"}) @@ ("a" :> {"a"}) @@ ("" :> DOMAIN MCCollation)
MCGeo == ("h1" :> Some([country |-> "US", asn |-> Some(1)])) @@ ("h2" :> Some([country |-> "DE", asn |-> Some(2)]))
           @@ ("h3" :> None)
MCStatus == ("h1" :> "ready") @@ ("h2" :> "alive") @@ ("h3" :> "unknown")
MCLatency == ("h1" :> None) @@ ("h2" :> Some(20)) @@ ("h3" :> Some(10))
MCCountries == {{}, {"US"}}
Doc(sections) == [version |-> 1] @@ sections
Rule(match, replace, target) == [match |-> match, replace |-> replace, target |-> target]
Drops(match, target, asns) == [match |-> match, target |-> target, asns |-> asns]
Cap(n) == [typed |-> TRUE, count |-> Some(n)]
MCSourceDocs ==
    <<{Doc([drop |-> <<Drops("n1", "name", None), Drops("", "asn", Some({2}))>>]),
       Doc([rename |-> <<Rule("a", "b", "param"), Rule("h2", "h1", "host")>>,
            drop |-> <<Drops("h1", "host", None)>>]),
       Doc([sort |-> [by |-> "latency", desc |-> TRUE], limit |-> Cap(1)])},
      {Empty,
       Doc([drop |-> <<Drops("h2", "host", None)>>]),
       Doc([filter |-> [FilterDefaults EXCEPT !.exclude_asns = Some({1}), !.forbid_insecure = FALSE]]),
       Doc([limit |-> Cap(0)])}>>
MCProfileDocs ==
    {Empty,
     Doc([limit |-> Cap(2), sort |-> [by |-> "name", desc |-> TRUE], filter |-> [FilterDefaults EXCEPT !.forbid_insecure = FALSE]]),
     Doc([drop |-> << >>, rename |-> <<Rule("h2", "h1", "host"), Rule("a", "b", "param")>>,
          sort |-> [by |-> "country", desc |-> FALSE]]),
     Doc([limit |-> Cap(1)])}

-----------------------------------------------------------------------------
(* Republish, Payload: every combination of the TLS, transport and          *)
(* fingerprint fields each scheme carries in each dialect.                  *)
Cross(A, B) == {a @@ b : a \in A, b \in B}
Fields(scheme, dialect, given) ==
    {[scheme |-> scheme, dialect |-> dialect, params |-> Params(g), lost |-> FALSE,
      credential |-> IF scheme \in {"ss", "socks5"} THEN <<"user", "id">> ELSE <<"id">>] : g \in given}

Reality  == "security" :> "reality" @@ "pbk" :> "key" @@ "sid" :> "id"
Toggles  == {<< >>, "insecure" :> "1", "allowinsecure" :> "0"}
Names    == {<< >>, "sni" :> "s1"}
Hellos   == {<< >>, "fp" :> "chrome" @@ "alpn" :> "h2"}
Network(key) == {<< >>, key :> "ws" @@ "path" :> "/p" @@ "host" :> "h", key :> "ws",
                 key :> "grpc" @@ "servicename" :> "svc", key :> "h2" @@ "host" :> "h"}

UriFeeds ==
    Fields("vless", "uri", Cross(Cross({<< >>, "security" :> "tls", Reality, "pbk" :> "key" @@ "security" :> "reality"},
                                       Cross(Names, Toggles)),
                                 Cross(Hellos, Cross({<< >>, "flow" :> "vision"}, Network("type")))))
    \cup Fields("trojan", "uri", Cross(Cross({<< >>, Reality}, Toggles), Cross(Names, Network("type"))))
    \cup Fields("vmess", "uri", Cross(Cross({<< >>, "tls" :> "tls"}, Cross(Toggles, Hellos)),
                                      Cross({<< >>, "scy" :> "aes"},
                                            Network("net") \cup {"net" :> "grpc" @@ "path" :> "svc"})))
    \cup Fields("ss", "uri", {<< >>, "plugin" :> "obfs-local" @@ "plugin.options" :> "http", "plugin" :> "restls"})
    \cup Fields("hysteria2", "uri", Cross(Cross(Names, Toggles),
                                          {<< >>, "obfs" :> "salamander" @@ "obfs-password" :> "o"}))
    \cup Fields("socks5", "uri", Cross({<< >>, "tls" :> "true"}, Cross(Names, Toggles)))
    \cup Fields("anytls", "uri", Cross(Names, Toggles))
    \cup Fields("tuic", "uri", Names)

ClashTls  == {<< >>, "tls" :> "true", "tls" :> "false"}
ClashSkip == {<< >>, "skip-cert-verify" :> "true", "skip-cert-verify" :> "false"}
ClashKeysOf == {<< >>, "reality-opts.public-key" :> "key" @@ "reality-opts.short-id" :> "id"}
ClashNet  == {<< >>, "network" :> "ws" @@ "ws-opts.path" :> "/p" @@ "ws-opts.host" :> "h",
              "network" :> "grpc" @@ "grpc-opts.service" :> "svc", "network" :> "h2" @@ "h2-opts.host" :> "h"}
ClashHello == {<< >>, "client-fingerprint" :> "chrome"}

ClashFeeds ==
    Fields("vless", "clash", Cross(Cross(Cross(ClashTls, ClashSkip), Cross(ClashKeysOf, ClashHello)),
                                   Cross({<< >>, "servername" :> "s1"}, ClashNet)))
    \cup Fields("vmess", "clash", Cross(Cross(Cross(ClashTls, ClashSkip), ClashHello),
                                        Cross({<< >>, "cipher" :> "aes"}, ClashNet)))
    \cup Fields("trojan", "clash", Cross(Cross(ClashSkip, ClashKeysOf), Cross(Names, ClashNet)))
    \cup Fields("ss", "clash", {<< >>, "plugin" :> "obfs" @@ "plugin-opts" :> "http"})
    \cup Fields("hysteria2", "clash", Cross(ClashSkip, Names))

Hashed == {[e EXCEPT !.credential = IF e.scheme = "ss" THEN <<"m", "p#w">> ELSE <<"p#w">>] :
              e \in Fields("trojan", "clash", Names) \cup Fields("ss", "uri", {<< >>})}
Paired(scheme, pairs) ==
    {[e EXCEPT !.credential = clash_credential(scheme, c)] : e \in Fields(scheme, "clash", {<< >>}), c \in pairs}
    \cup {[e EXCEPT !.credential = c] :
              e \in Fields(scheme, "uri", {<< >>}), c \in {p \in pairs : scheme = "socks5" \/ p[1] # ""}}
Pairs == Paired("socks5", {<<"a", "b">>, <<"a", "">>, <<"", "b">>, <<"", "">>})
         \cup Paired("ss", {<<"a", "b">>, <<"", "b">>})

XrayStreams == [network : {"tcp", "ws", "grpc", "h2"}, security : {"", "tls", "reality"}, serverName : {"", "s1"},
                fingerprint : {"", "chrome"}, publicKey : {"key"}, allowInsecure : BOOLEAN, path : {"/p"}]
XrayFeeds == {[scheme |-> s, dialect |-> "singbox", credential |-> <<"id">>, lost |-> FALSE,
               params |-> xray_stream_params(s, stream)] : s \in {"vless", "vmess", "trojan"}, stream \in XrayStreams}

EveryEntry == UriFeeds \cup ClashFeeds \cup Hashed \cup Pairs \cup XrayFeeds

\* Every text of up to two lines, every one of three of the telling kinds, and
\* whole documents of more.
MCLineLists == UNION {[1..n -> LineKinds] : n \in 0..2}
               \cup [1..3 -> {"link", "heading", "bracketed", "blank", "proxies", "nested", "object"}]
               \cup {<<"heading", "key", "nested", "proxies", "item">>, <<"key", "item", "blank", "proxies", "comment", "nested">>,
                     <<"proxies", "item", "key", "nested", "note">>, <<"blank", "array", "json", "json">>,
                     <<"comment", "blank", "bracketed", "link", "heading", "link">>}

NamesShown == {<<"a">>, <<"a", 2>>, <<"a", 3>>, <<"b">>}
Endpoints(users) == [address : BOOLEAN, users : users]
XrayOutbounds ==
    LET lists(users) == UNION {[1..n -> Endpoints(users)] : n \in 0..2}
        many == {<< >>, <<"good">>, <<"bare", "good">>, <<"broken", "good">>, <<"broken">>}
        one == {<<u>> : u \in {"good", "bare", "broken"}}
    IN  [protocol : {"vless", "socks"}, endpoints : lists(many)] \cup [protocol : {"trojan"}, endpoints : lists(one)]

-----------------------------------------------------------------------------
Moving(p, inputs) == IF part = p THEN inputs ELSE {CHOOSE y \in inputs : TRUE}

Init ==
    /\ part \in {"serve", "republish", "text", "names", "xray"}
    /\ countries \in Moving("serve", CountryLists)
    /\ geo \in Moving("serve", {Inactive, GeoDatabase})
    /\ ServeInit
    /\ current \in Moving("republish", Feeds)
    /\ RepublishInit
    /\ outbound \in Moving("xray", Outbounds)
    /\ text \in Moving("text", Texts)
    /\ PayloadInit

Next ==
    \/ part = "serve" /\ ServeNext /\ UNCHANGED <<part, entryVars, payloadVars>>
    \/ part = "republish" /\ RepublishNext /\ UNCHANGED <<part, serveVars, payloadVars>>
    \/ part = "text" /\ Parse /\ UNCHANGED <<part, serveVars, entryVars>>
    \/ part = "names" /\ (\E name \in ShownNames : dedupe_name(name)) /\ UNCHANGED <<part, serveVars, entryVars>>
    \/ part = "xray" /\ Endpoint /\ UNCHANGED <<part, serveVars, entryVars>>
Spec == Init /\ [][Next]_<<part, serveVars, entryVars, payloadVars>>

(* Types of every part. *)
TypeOK == SubscriptionTypeOK /\ RepublishTypeOK /\ PayloadTypeOK
=============================================================================
