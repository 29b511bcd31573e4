------------------------------ MODULE Republish ------------------------------
(***************************************************************************)
(* One proxy on its way through panels that feed on each other: every hop  *)
(* writes the entry in a format and the next panel ingests that document.   *)
(* What a client of any of them connects to must be the proxy of the feed. *)
(***************************************************************************)
EXTENDS ProxyEntry

CONSTANTS Feeds,      \* the entries a feed may carry
          MaxHops     \* bound of the chain

\* An entry states every parameter, if only as absent.
IsEntry(e) == /\ DOMAIN e = {"scheme", "dialect", "credential", "params", "lost"}
              /\ DOMAIN e.params = ParamKeys
              /\ e.dialect \in {"uri", "clash", "singbox"}
ASSUME EntryAssumption == MaxHops \in Nat /\ \A e \in Feeds : IsEntry(e)

\* The words a scheme has in each vocabulary: what a URI line or a sing-box
\* outbound is read into, and the fields of a Clash item.
UriWords(scheme) ==
    CASE scheme \in TlsFamily ->
           {"security", "sni", "insecure", "allowinsecure", "type", "path", "host", "servicename", "fp", "pbk", "sid",
            "flow", "alpn"}
      [] scheme = "vmess" ->
           {"tls", "sni", "insecure", "allowinsecure", "net", "path", "host", "servicename", "fp", "pbk", "sid", "alpn", "scy"}
      [] scheme = "ss" -> {"plugin", "plugin.options", "plugin-opts"}
      [] scheme = "hysteria2" -> {"security", "sni", "insecure", "allowinsecure", "alpn", "obfs", "obfs-password"}
      [] scheme = "socks5" -> {"tls", "sni", "insecure", "allowinsecure"}
      [] scheme \in {"anytls", "tuic"} -> {"sni", "insecure", "allowinsecure"}
Blocks(net) ==
    CASE net = "ws" -> {"ws-opts.path", "ws-opts.host"} [] net = "grpc" -> {"grpc-opts.service"}
      [] net = "h2" -> {"h2-opts.path", "h2-opts.host"} [] net = "http" -> {"http-opts.path", "http-opts.host"}
BlockKeys == UNION {Blocks(net) : net \in {"ws", "grpc", "h2", "http"}}
ClashWords(scheme) ==
    {"skip-cert-verify"} \cup
    CASE scheme = "vless" -> {"tls", "servername", "network", "client-fingerprint", "flow", "alpn",
                              "reality-opts.public-key", "reality-opts.short-id"} \cup BlockKeys
      [] scheme = "vmess" -> {"tls", "servername", "network", "client-fingerprint", "cipher", "alpn"} \cup BlockKeys
      [] scheme = "trojan" -> {"sni", "network", "client-fingerprint", "flow", "alpn",
                               "reality-opts.public-key", "reality-opts.short-id"} \cup BlockKeys
      [] scheme = "ss" -> {"plugin", "plugin-opts"}
      [] scheme = "hysteria2" -> {"sni", "alpn", "obfs", "obfs-password"}
      [] scheme = "socks5" -> {"tls"}
      [] scheme \in {"anytls", "tuic"} -> {"sni"}

\* A feed that says what its proxy is in the words of its dialect, and no fact
\* against another: the public key of a REALITY node and of no other, the
\* block of its own network, a credential that is there.
Protocols == {"vless", "trojan", "vmess", "ss", "hysteria2", "socks5", "anytls", "tuic"}
InWords(e) ==
    \A k \in ParamKeys \ (IF e.dialect = "clash" THEN ClashWords(e.scheme) ELSE UriWords(e.scheme)) : e.params[k] = Absent
OneNetwork(e) ==
    /\ network_of(e) \in Networks
    /\ e.dialect = "clash" => \A net \in {"ws", "grpc", "h2", "http"} :
                                 e.params["network"] # net => \A k \in Blocks(net) : e.params[k] = Absent
OneSecurity(e) ==
    /\ (e.dialect # "clash" /\ e.scheme \in TlsFamily) => (e.params["pbk"] # Absent <=> SecurityIs(e.params, "reality"))
    /\ (e.scheme = "socks5" \/ (e.scheme = "vless" /\ e.dialect = "clash")) => e.params["tls"] # "tls"
WholeCredential(scheme, c) ==
    /\ c = << >> \/ c = <<c[1]>> \/ c = <<c[1], c[2]>>
    /\ scheme = "ss" => (c = << >> \/ c[1] # Absent)
    /\ scheme \notin {"ss", "socks5"} => (c = << >> \/ \E i \in DOMAIN c : c[i] # Absent)
Spelled(e) == e.scheme \in Protocols /\ InWords(e) /\ OneNetwork(e) /\ OneSecurity(e)
              /\ WholeCredential(e.scheme, e.credential)
ASSUME SpellingAssumption == \A e \in Feeds : Spelled(e)

VARIABLES current,    \* the proxy as the last panel stored it
          hop,        \* the format it was last written in
          hops

entryVars == <<current, hop, hops>>

RepublishInit == current \in Feeds /\ hop = "feed" /\ hops = 0

Serialized(format, e) ==
    CASE format = "url_list" -> via_uri(e)
      [] format = "clash" -> via_clash(e)
      [] format = "singbox" -> via_singbox(e)

Republished(format) ==
    /\ ~current.lost
    /\ hops < MaxHops
    /\ hops' = hops + 1
    /\ hop' = format
    /\ current' = Serialized(format, current)

RepublishNext == \E format \in {"url_list", "clash", "singbox"} : Republished(format)
RepublishSpec == RepublishInit /\ [][RepublishNext]_entryVars

-----------------------------------------------------------------------------
(* What a client connects to: the URI reading of the entry.                 *)

UriParams(e) == IF e.dialect = "uri" THEN e.params ELSE canonical_uri_entry(e).params

TlsOf(e) ==
    LET p == UriParams(e)
    IN  CASE e.scheme = "vless" -> IF SecurityIs(p, "reality") THEN "reality"
                                   ELSE IF wants_tls(p) THEN "tls" ELSE "none"
          [] e.scheme = "trojan" -> IF SecurityIs(p, "reality") THEN "reality" ELSE "tls"
          [] e.scheme \in {"vmess", "socks5"} -> IF TlsStated(p) THEN "tls" ELSE "none"
          [] e.scheme \in {"hysteria2", "anytls", "tuic"} -> "tls"
          [] e.scheme = "ss" -> "none"

NetworkOf(e) ==
    LET net == Or(UriParams(e)[network_key(e.scheme)], "tcp")
    IN  IF net = "h2" THEN "http" ELSE net

NodeOf(e) ==
    LET p == UriParams(e)
        net == NetworkOf(e)
        tls == TlsOf(e)
    IN  [scheme |-> e.scheme, credential |-> Split(e.scheme, e.credential), tls |-> tls, net |-> net,
         sni |-> If(tls # "none", p["sni"]), verify |-> tls = "none" \/ ~is_insecure(p),
         pbk |-> If(tls = "reality", p["pbk"]), sid |-> If(tls = "reality", p["sid"]),
         path |-> If(net \in {"ws", "http"}, p["path"]), host |-> If(net \in {"ws", "http"}, p["host"]),
         service |-> If(net = "grpc", Or(p["servicename"], If(e.scheme = "vmess", p["path"]))),
         fp |-> If(tls # "none", p["fp"]), alpn |-> If(tls # "none", p["alpn"]),
         flow |-> If(e.scheme = "vless", p["flow"]), cipher |-> If(e.scheme = "vmess", Or(p["scy"], "auto")),
         obfs |-> <<p["obfs"], If(p["obfs"] # Absent, p["obfs-password"])>>]

-----------------------------------------------------------------------------
(* Properties.                                                              *)

RepublishTypeOK ==
    /\ IsEntry(current) /\ (~current.lost => Spelled(current))
    /\ hops \in 0..MaxHops

\* What a format can say: the Clash writer does not deduce TLS from an SNI,
\* so a vless entry states it; the Clash items of socks5 and anytls carry no
\* ALPN or client hello, and the TLS toggles of socks5 do not come back;
\* sing-box has one `http` for the h2 and the plain HTTP of vmess.
Carries(format, e) ==
    /\ e.scheme = "vless" => (SecurityIs(UriParams(e), "tls") \/ TlsOf(e) # "tls")
    /\ (format = "clash" /\ e.scheme \in {"socks5", "anytls"}) =>
          (e.scheme = "socks5" => TlsOf(e) = "none") /\ UriParams(e)["fp"] = Absent /\ UriParams(e)["alpn"] = Absent
    /\ format = "singbox" => ~(e.scheme = "vmess" /\ NetworkOf(e) = "http")

\* formats/, parsers/: an entry in the URI vocabulary reaches the client of
\* every format as the same node, and a Clash item does through a URI list,
\* whose writer translates it.  The writers of the other two formats leave
\* out some of mihomo's own spellings (BothVocabularies).
HopKeepsNode ==
    [][ (Carries(hop', current) /\ (current.dialect # "clash" \/ hop' = "url_list") /\ ~current'.lost)
            => NodeOf(current') = NodeOf(current) ]_entryVars

\* formats/mod.rs is_insecure: "Output formats only ever reflect an entry's
\* own request": over any chain of formats certificate verification is never
\* switched off for a proxy whose feed left it on.
VerificationStaysOn == [][is_insecure(current'.params) => is_insecure(current.params)]_entryVars

\* parsers/mod.rs canonical_uri_entry: a REALITY node is never handed out as
\* a plain TLS one, by any chain, and keeps its keys.
RealityStays ==
    [][ (TlsOf(current) = "reality" /\ ~current'.lost)
            => /\ TlsOf(current') = "reality"
               /\ UriParams(current')["pbk"] = UriParams(current)["pbk"]
               /\ UriParams(current')["sid"] = UriParams(current)["sid"] ]_entryVars

\* The three promises of a republished entry: its node, its verification, its
\* REALITY keys.
RepublishingKeepsTheProxy == HopKeepsNode /\ VerificationStaysOn /\ RealityStays

\* fingerprint.rs: two entries under one fingerprint are one node, so a row
\* never stands for two proxies.  Outside is what the key leaves out, the
\* SIP003 plugin of ss and the gRPC and h2 blocks of a Clash item, and the
\* toggle of a Clash socks5 or tuic item, which the URI writer leaves out.
Keyed(e) == /\ e.scheme # "ss"
            /\ e.dialect = "clash" => NetworkOf(e) \notin {"grpc", "http"} /\ e.scheme \notin {"socks5", "tuic"}
Rows == LET stored == {<<fingerprint(e), NodeOf(e)>> : e \in {x \in Feeds : Keyed(x)}}
        IN  [key \in {row[1] : row \in stored} |-> {row[2] : row \in {x \in stored : x[1] = key}}]
RowsAreNodes ==
    (~current.lost /\ Keyed(current) /\ fingerprint(current) \in DOMAIN Rows) => Rows[fingerprint(current)] = {NodeOf(current)}

\* Not a property of this code (README, section 6).
\* parsers/mod.rs canonical_uri_entry: "the Clash/sing-box writers read both
\* vocabularies, so the stored parameters are deliberately not touched": a
\* Clash item and its URI translation become the same sing-box outbound.
BothVocabularies ==
    (current.dialect = "clash" /\ singbox_is_supported(current.scheme)) =>
        entry_to_outbound(current) = entry_to_outbound(canonical_uri_entry(current))

\* Not a property of this code (README, section 6).
\* fingerprint.rs SECURITY_PARAMS: "Lower-cased parameter keys that change how
\* a client must connect or authenticate ... everything else is cosmetic": two
\* entries of one dialect under one fingerprint become the same outbound.
OneOutboundPerRow ==
    \A e \in Feeds :
        (singbox_is_supported(e.scheme) /\ e.dialect = current.dialect /\ fingerprint(e) = fingerprint(current))
            => entry_to_outbound(e) = entry_to_outbound(current)

\* t1.rs check_kind, clash.rs carry_server_name: of every entry that may be
\* stored, however it was spelled, the reachability check handshakes exactly
\* where the tunnel does, and pinning an address leaves the certificate name
\* of the tunnel what it was, the host's own when the entry names none.
ServerNameOf(scheme, written) ==
    IF scheme \in {"vless", "vmess"} THEN written["servername"] ELSE written["sni"]
ProbeSeesTheNode ==
    LET written == entry_to_clash(current)
        pinned == entry_to_clash([current EXCEPT !.params = carry_server_name(current, "its-host")])
        named == \/ current.scheme \in {"trojan", "anytls", "hysteria2"}
                 \/ written["tls"] = "true" /\ current.scheme # "socks5"
    IN  (~current.lost /\ clash_is_supported(current.scheme)) =>
          /\ current.scheme \in {"vless", "vmess"} => (check_kind(current) = "tls" <=> written["tls"] = "true")
          /\ current.scheme \in {"trojan", "anytls"} => check_kind(current) = "tls"
          /\ named
                => ServerNameOf(current.scheme, pinned) = Or(ServerNameOf(current.scheme, written), "its-host")

\* A row of the database is one proxy, and both of its checks meet that proxy.
RowsAreCheckedAsTheyAre == RowsAreNodes /\ ProbeSeesTheNode
=============================================================================
