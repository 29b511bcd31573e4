------------------------------ MODULE ProxyEntry ------------------------------
(***************************************************************************)
(* A proxy as the feeds spell it.  One entry is read from a URI line, a    *)
(* Clash item or a sing-box outbound (fumox-core parsers/), stored under   *)
(* its fingerprint (fingerprint.rs) and written again in any of the three  *)
(* formats (formats/).  The writers translate between the URI vocabulary   *)
(* and mihomo's field names; what they leave out is lost for the client.   *)
(*                                                                         *)
(* Parameters are a function from lower-cased keys to values, Absent where *)
(* there is none; a structured block (ws-opts, reality-opts, ...) is one   *)
(* key per field of it.  A feed states no fact under two spellings, so the *)
(* order of the parameters decides nothing.                                *)
(***************************************************************************)
EXTENDS Naturals, Sequences, FiniteSets, Positions

UriKeys == {"security", "tls", "sni", "insecure", "allowinsecure", "type", "net", "path", "host",
            "servicename", "fp", "pbk", "sid", "flow", "alpn", "scy", "obfs", "obfs-password",
            "plugin", "plugin.options"}
ClashKeys == {"servername", "skip-cert-verify", "network", "client-fingerprint", "cipher",
              "ws-opts.path", "ws-opts.host", "grpc-opts.service", "h2-opts.path", "h2-opts.host",
              "http-opts.path", "http-opts.host",
              "reality-opts.public-key", "reality-opts.short-id", "plugin-opts"}
ParamKeys == UriKeys \cup ClashKeys

Absent == ""

\* Every parameter, absent where none is given.
Params(given) == [k \in ParamKeys |-> IF k \in DOMAIN given THEN given[k] ELSE Absent]
Or(a, b) == IF a # Absent THEN a ELSE b
If(cond, value) == IF cond THEN value ELSE Absent

is_truthy_toggle(v) == v \in {"1", "true", "yes", "on"}
is_falsy_toggle(v) == v \in {"0", "false", "no", "off"}
InsecureAliases == {"insecure", "allowinsecure", "skip-cert-verify"}
is_insecure(p) == \E k \in InsecureAliases : is_truthy_toggle(p[k])

TlsFamily == {"vless", "trojan"}
network_key(scheme) == IF scheme = "vmess" THEN "net" ELSE "type"
network_of(e) == Or(e.params[network_key(e.scheme)], e.params["network"])
reality_public_key(p) == Or(p["pbk"], p["reality-opts.public-key"])
reality_short_id(p) == Or(p["sid"], p["reality-opts.short-id"])
TlsStated(p) == is_truthy_toggle(p["tls"]) \/ p["tls"] = "tls"

-----------------------------------------------------------------------------
(* Credentials: the parts between the colons.  Clash has a field for each,  *)
(* Absent when the item leaves it out.                                      *)

\* socks5 keeps the slot of an absent user; a shadowsocks item without a
\* cipher stores its password alone.
\* Mutant: the slot is dropped for socks5 too.
clash_credential_shifts(scheme, fields) ==
    IF \A i \in DOMAIN fields : fields[i] = Absent THEN << >>
    ELSE IF Len(fields) = 2 /\ fields[1] = Absent THEN <<fields[2]>> ELSE fields

clash_credential(scheme, fields) ==
    IF \A i \in DOMAIN fields : fields[i] = Absent THEN << >>
    ELSE IF scheme = "ss" /\ fields[1] = Absent THEN <<fields[2]>> ELSE fields

\* The writers split at the colon: a bare shadowsocks password gets the
\* default method, a bare socks5 credential counts as none.
MethodAndPassword(c) == IF Len(c) = 1 THEN <<"chacha20-ietf-poly1305", c[1]>> ELSE c
UserAndPassword(c) == IF Len(c) = 2 THEN c ELSE <<Absent, Absent>>
Split(scheme, c) ==
    CASE scheme = "ss" -> MethodAndPassword(c) [] scheme = "socks5" -> UserAndPassword(c) [] OTHER -> c

-----------------------------------------------------------------------------
(* The fingerprint, the key a row is stored under.                          *)

\* Mutant: the cipher of a Clash vmess item is not folded.
canonical_key_drops_cipher(scheme, k) ==
    CASE k = "servername" -> "sni"
      [] k = "network" -> network_key(scheme)
      [] k = "client-fingerprint" -> "fp"
      [] k \in InsecureAliases -> "insecure"
      [] OTHER -> k

canonical_key(scheme, k) ==
    CASE k = "servername" -> "sni"
      [] k = "network" -> network_key(scheme)
      [] k = "client-fingerprint" -> "fp"
      [] k = "cipher" /\ scheme = "vmess" -> "scy"
      [] k \in InsecureAliases -> "insecure"
      [] OTHER -> k

SecurityParams ==
    {"security", "tls", "type", "net", "path", "host", "alpn", "pbk", "sid", "fp", "sni", "flow",
     "scy", "obfs", "obfs-password", "insecure", "servicename",
     "ws-opts.path", "ws-opts.host", "reality-opts.public-key", "reality-opts.short-id"}

\* A falsy insecure toggle counts as an absent one; every truthy one is the same.
fingerprint(e) ==
    LET stated == {k \in ParamKeys : e.params[k] # Absent /\ canonical_key(e.scheme, k) \in SecurityParams
                                /\ (k \in InsecureAliases => is_truthy_toggle(e.params[k]))}
        value(k) == IF k \in InsecureAliases THEN "1" ELSE e.params[k]
    IN  <<e.scheme, e.credential, {<<canonical_key(e.scheme, k), value(k)>> : k \in stated}>>

-----------------------------------------------------------------------------
(* The URI list.  An entry that came from a line keeps its parameters; one  *)
(* that did not is first translated onto the URI vocabulary.                *)

\* skip-cert-verify under the spelling the scheme's URI reads.
toggle_key(scheme) ==
    IF scheme \in TlsFamily \cup {"vmess"} THEN Maplet("allowinsecure", "1")
    ELSE IF scheme \in {"hysteria2", "anytls"} THEN Maplet("insecure", "1") ELSE << >>

\* Mutant: a present toggle counts, whatever it says.
translated_toggle_present(scheme, p) ==
    IF p["skip-cert-verify"] = Absent THEN << >> ELSE toggle_key(scheme)

translated_toggle(scheme, p) ==
    IF is_truthy_toggle(p["skip-cert-verify"]) THEN toggle_key(scheme) ELSE << >>

\* `tls: true` is security=tls in the URI family and tls=tls in vmess JSON; a
\* public key makes the node REALITY whatever was stated.
\* Mutant: the translation of `tls` stands, as before the key was forced.
translated_security_unforced(scheme, p) ==
    IF scheme \in TlsFamily
    THEN Maplet("security", Or(p["security"], If(TlsStated(p), "tls"))) ++ Maplet("tls", Absent)
    ELSE IF scheme = "vmess" THEN Maplet("tls", If(TlsStated(p), "tls")) ELSE << >>

translated_security(scheme, p) ==
    IF scheme \in TlsFamily
    THEN Maplet("tls", Absent) ++ Maplet("security", IF reality_public_key(p) # Absent THEN "reality"
                                           ELSE Or(p["security"], If(TlsStated(p), "tls")))
    ELSE IF scheme = "vmess" THEN Maplet("tls", If(TlsStated(p), "tls")) ELSE << >>

canonical_uri_entry(e) ==
    LET p == e.params
        flat == Maplet(network_key(e.scheme), network_of(e))
                ++ Maplet("sni", Or(p["sni"], p["servername"]))
                ++ Maplet("path", Or(p["path"], Or(p["ws-opts.path"], Or(p["h2-opts.path"], p["http-opts.path"]))))
                ++ Maplet("host", Or(p["host"], Or(p["ws-opts.host"], Or(p["h2-opts.host"], p["http-opts.host"]))))
                ++ Maplet("servicename", Or(p["servicename"], p["grpc-opts.service"]))
                ++ Maplet("fp", Or(p["fp"], p["client-fingerprint"]))
                ++ Maplet("pbk", reality_public_key(p)) ++ Maplet("sid", reality_short_id(p))
                ++ Maplet("scy", Or(p["scy"], If(e.scheme = "vmess", p["cipher"])))
        passed == [k \in {"plugin-opts"} |-> p[k]]
        kept == [k \in UriKeys |-> p[k]]
    IN  [e EXCEPT !.params = Params(translated_toggle(e.scheme, p) ++ translated_security(e.scheme, p)
                                    ++ flat ++ passed ++ kept)]

\* The credential stands verbatim in front of the `@`: a `#` or `?` in it
\* cuts the line short.  ss and vmess encode theirs.
LineParses(e) == e.scheme \in {"ss", "vmess"} \/ \A i \in DOMAIN e.credential : e.credential[i] # "p#w"

via_uri(e) == [(IF e.dialect = "uri" THEN e ELSE canonical_uri_entry(e))
                 EXCEPT !.dialect = "uri", !.lost = ~LineParses(e),
                        !.credential = IF e.scheme = "ss" THEN MethodAndPassword(@) ELSE @]

-----------------------------------------------------------------------------
(* Clash YAML.  parse_item keeps every field under its own name, so the     *)
(* parameters read back are the fields written.                             *)

SecurityIs(p, want) == p["security"] = want

\* The transport block of vless, vmess and trojan; mihomo may know a network
\* the panel does not.
Networks == {Absent, "tcp", "ws", "grpc", "http", "h2"}
put_transport(e) ==
    LET p == e.params
        net == network_of(e)
        service == Or(p["servicename"], Or(p["grpc-opts.service"], If(e.scheme = "vmess", p["path"])))
    IN  CASE net \in {Absent, "tcp"} -> << >>
          [] net = "ws" -> Maplet("network", "ws")
                           ++ Maplet("ws-opts.path", Or(p["path"], p["ws-opts.path"]))
                           ++ Maplet("ws-opts.host", Or(p["host"], p["ws-opts.host"]))
          [] net = "grpc" -> Maplet("network", "grpc") ++ Maplet("grpc-opts.service", service)
          [] net = "http" /\ e.scheme = "vmess" ->
               Maplet("network", "http") ++ Maplet("http-opts.path", p["path"]) ++ Maplet("http-opts.host", p["host"])
          [] net = "h2" \/ (net = "http" /\ e.scheme # "vmess") ->
                           Maplet("network", "h2")
                           ++ Maplet("h2-opts.path", Or(p["path"], p["h2-opts.path"]))
                           ++ Maplet("h2-opts.host", Or(p["host"], p["h2-opts.host"]))
          [] net \notin Networks -> Maplet("network", net)

put_reality_opts(p) == Maplet("reality-opts.public-key", reality_public_key(p))
                       ++ Maplet("reality-opts.short-id", reality_short_id(p))

\* A SIP003 value is the plugin's name and its options; mihomo takes a name and a block.
put_ss_plugin(p) ==
    IF p["plugin"] = "obfs-local" THEN Maplet("plugin", "obfs") ++ Maplet("plugin-opts", p["plugin.options"])
    ELSE Maplet("plugin", p["plugin"]) ++ Maplet("plugin-opts", p["plugin.options"])

clash_server(p, tls) == Maplet("tls", If(tls, "true")) ++ Maplet("servername", If(tls, Or(p["servername"], p["sni"])))

\* The fields of one item.
clash_vless(e) ==
    LET p == e.params
    IN  clash_server(p, SecurityIs(p, "tls") \/ SecurityIs(p, "reality") \/ is_truthy_toggle(p["tls"]))
        ++ Maplet("flow", p["flow"]) ++ Maplet("client-fingerprint", p["fp"]) ++ put_reality_opts(p)
        ++ Maplet("alpn", p["alpn"]) ++ put_transport(e)
clash_vmess(e) ==
    LET p == e.params
    IN  clash_server(p, TlsStated(p) \/ SecurityIs(p, "tls"))
        ++ Maplet("cipher", Or(p["scy"], Or(p["cipher"], "auto")))
        ++ Maplet("client-fingerprint", Or(p["client-fingerprint"], p["fp"]))
        ++ Maplet("alpn", p["alpn"]) ++ put_transport(e)
clash_trojan(e) ==
    LET p == e.params
    IN  Maplet("sni", p["sni"]) ++ Maplet("flow", p["flow"]) ++ Maplet("client-fingerprint", p["fp"])
        ++ put_reality_opts(p) ++ Maplet("alpn", p["alpn"]) ++ put_transport(e)
clash_hysteria2(p) == Maplet("sni", p["sni"]) ++ Maplet("obfs", p["obfs"]) ++ Maplet("obfs-password", p["obfs-password"])
                      ++ Maplet("alpn", p["alpn"])

entry_to_clash(e) ==
    LET p == e.params
        fields == CASE e.scheme = "vless" -> clash_vless(e)
                    [] e.scheme = "vmess" -> clash_vmess(e)
                    [] e.scheme = "trojan" -> clash_trojan(e)
                    [] e.scheme = "ss" -> put_ss_plugin(p)
                    [] e.scheme = "hysteria2" -> clash_hysteria2(p)
                    [] e.scheme = "socks5" -> Maplet("tls", If(is_truthy_toggle(p["tls"]), "true"))
                    [] e.scheme = "anytls" -> Maplet("sni", p["sni"])
    IN  Params(Maplet("skip-cert-verify", If(is_insecure(p), "true")) ++ fields)

singbox_is_supported(scheme) == scheme \in {"vless", "vmess", "trojan", "ss", "hysteria2", "socks5"}
clash_is_supported(scheme) == singbox_is_supported(scheme) \/ scheme = "anytls"

via_clash(e) ==
    [e EXCEPT !.params = IF clash_is_supported(e.scheme) THEN entry_to_clash(e) ELSE @,
              !.dialect = "clash", !.lost = ~clash_is_supported(e.scheme),
              !.credential = clash_credential(e.scheme, Split(e.scheme, @))]

-----------------------------------------------------------------------------
(* sing-box JSON.  The outbound is written from the entry and read back by  *)
(* the native dialect of the parser.                                        *)

sni_of(p) == Or(p["sni"], p["servername"])

\* An explicit toggle decides; without one an SNI or an insecure marker does.
wants_tls(p) ==
    IF TlsStated(p) THEN TRUE
    ELSE IF is_falsy_toggle(p["tls"]) THEN FALSE
    ELSE SecurityIs(p, "tls") \/ sni_of(p) # Absent \/ is_insecure(p)

NoTls == [on |-> FALSE]
tls_object(p, reality) ==
    [on |-> TRUE, sni |-> sni_of(p), insecure |-> is_insecure(p), alpn |-> p["alpn"], fp |-> p["fp"],
     pbk |-> If(reality, reality_public_key(p)), sid |-> If(reality, reality_short_id(p))]

transport_object(e) ==
    LET p == e.params
        net == network_of(e)
    IN  CASE net \in {Absent, "tcp"} \/ net \notin Networks -> [type |-> Absent]
          [] net = "ws" -> [type |-> "ws", path |-> p["path"], host |-> p["host"]]
          [] net \in {"h2", "http"} -> [type |-> "http", path |-> p["path"], host |-> p["host"]]
          [] net = "grpc" -> [type |-> "grpc",
                              service |-> Or(p["servicename"], If(e.scheme = "vmess", p["path"]))]

entry_to_outbound(e) ==
    LET p == e.params
        reality == SecurityIs(p, "reality") \/ reality_public_key(p) # Absent
        vmess_tls == TlsStated(p) \/ SecurityIs(p, "tls")
    IN  CASE e.scheme = "vless" ->
               [flow |-> p["flow"], transport |-> transport_object(e),
                tls |-> IF reality \/ wants_tls(p) THEN tls_object(p, reality) ELSE NoTls]
          [] e.scheme = "vmess" ->
               [cipher |-> Or(p["scy"], Or(p["cipher"], "auto")), transport |-> transport_object(e),
                tls |-> IF vmess_tls THEN tls_object(p, FALSE) ELSE NoTls]
          [] e.scheme = "trojan" ->
               [transport |-> transport_object(e), tls |-> tls_object(p, reality)]
          [] e.scheme = "ss" -> [plugin |-> p["plugin"], options |-> p["plugin.options"]]
          [] e.scheme = "hysteria2" ->
               [tls |-> tls_object(p, FALSE), obfs |-> p["obfs"],
                password |-> If(p["obfs"] # Absent, p["obfs-password"])]
          [] e.scheme = "socks5" ->
               [tls |-> IF is_truthy_toggle(p["tls"])
                        THEN [on |-> TRUE, sni |-> sni_of(p), insecure |-> is_insecure(p)] ELSE NoTls]

\* `security` is the parameter TLS is spelled through: security in the URI family, tls in vmess.
native_tls_params(tls, security) ==
    IF ~tls.on THEN << >>
    ELSE Maplet(security, IF (tls.pbk # Absent \/ tls.sid # Absent) /\ security = "security" THEN "reality" ELSE "tls")
         ++ Maplet("pbk", tls.pbk) ++ Maplet("sid", tls.sid) ++ Maplet("sni", tls.sni) ++ Maplet("alpn", tls.alpn)
         ++ Maplet("fp", tls.fp) ++ Maplet("insecure", If(tls.insecure, "true"))

native_transport_params(t, key) ==
    CASE t.type = Absent -> << >>
      [] t.type \in {"ws", "http"} -> Maplet(key, t.type) ++ Maplet("path", t.path) ++ Maplet("host", t.host)
      [] t.type = "grpc" -> Maplet(key, "grpc") ++ Maplet("servicename", t.service)

native_vless(o) == Maplet("flow", o.flow) ++ native_tls_params(o.tls, "security")
                   ++ native_transport_params(o.transport, "type")
native_vmess(o) == Maplet("scy", o.cipher) ++ native_tls_params(o.tls, "tls")
                   ++ native_transport_params(o.transport, "net")
native_trojan(o) == native_tls_params(o.tls, "security") ++ native_transport_params(o.transport, "type")
native_ss(o) == Maplet("plugin", o.plugin) ++ Maplet("plugin.options", o.options)
native_hysteria2(o) == native_tls_params(o.tls, "security")
                       ++ Maplet("obfs", o.obfs) ++ Maplet("obfs-password", o.password)
native_socks(o) ==
    IF o.tls.on
    THEN Maplet("tls", "true") ++ Maplet("sni", o.tls.sni) ++ Maplet("insecure", If(o.tls.insecure, "true"))
    ELSE << >>

parse_outbound(scheme, o) ==
    Params(CASE scheme = "vless" -> native_vless(o)
             [] scheme = "vmess" -> native_vmess(o)
             [] scheme = "trojan" -> native_trojan(o)
             [] scheme = "ss" -> native_ss(o)
             [] scheme = "hysteria2" -> native_hysteria2(o)
             [] scheme = "socks5" -> native_socks(o))

via_singbox(e) ==
    [e EXCEPT !.params = IF singbox_is_supported(e.scheme)
                         THEN parse_outbound(e.scheme, entry_to_outbound(e)) ELSE @,
              !.dialect = "singbox", !.lost = ~singbox_is_supported(e.scheme),
              !.credential = Split(e.scheme, @)]

-----------------------------------------------------------------------------
(* The Xray dialect, read only: streamSettings onto the same parameters.    *)

xray_stream_params(scheme, stream) ==
    LET security == IF scheme = "vmess" THEN "tls" ELSE "security"
        secured == stream.security # Absent
    IN  Params(
        Maplet(network_key(scheme), If(stream.network # "tcp", stream.network))
        ++ Maplet(security, IF ~secured THEN Absent ELSE IF scheme = "vmess" THEN "tls" ELSE stream.security)
        ++ Maplet("sni", If(secured, stream.serverName)) ++ Maplet("fp", If(secured, stream.fingerprint))
        ++ Maplet("pbk", If(stream.security = "reality", stream.publicKey))
        ++ Maplet("insecure", If(secured /\ stream.allowInsecure, "true"))
        ++ Maplet("path", If(stream.network \in {"ws", "h2"}, stream.path))
        ++ Maplet("servicename", If(stream.network = "grpc", stream.path)))
-----------------------------------------------------------------------------
(* The probe's reading of a stored entry: what the reachability check does, *)
(* and the entry written for the engine with an address in place of its     *)
(* host, whose name then has to travel as the TLS server name.              *)

\* Mutant: `security` alone decides.
params_enable_tls_uri_only(p) == SecurityIs(p, "tls") \/ SecurityIs(p, "reality")
params_enable_tls(p) == SecurityIs(p, "tls") \/ SecurityIs(p, "reality") \/ TlsStated(p)
check_kind(e) ==
    CASE e.scheme \in {"trojan", "anytls"} -> "tls"
      [] e.scheme \in {"vless", "vmess"} -> IF params_enable_tls(e.params) THEN "tls" ELSE "tcp"
      [] OTHER -> "tcp"

\* The key the Clash writer renders, and the keys it is taken from.
server_name_sources(scheme) ==
    CASE scheme \in {"vless", "vmess"} -> <<"servername", "sni">>
      [] scheme \in {"trojan", "hysteria2", "anytls"} -> <<"sni", "servername">>
      [] OTHER -> << >>
\* Mutant: the host before it was pinned, whatever the entry says.
carry_server_name_host(e, host) ==
    LET keys == server_name_sources(e.scheme)
    IN  IF keys = << >> THEN e.params
        ELSE Maplet(keys[1], host) ++ Maplet(keys[2], Absent) ++ e.params
carry_server_name(e, host) ==
    LET keys == server_name_sources(e.scheme)
    IN  IF keys = << >> THEN e.params
        ELSE Maplet(keys[1], Or(e.params[keys[1]], Or(e.params[keys[2]], host))) ++ Maplet(keys[2], Absent) ++ e.params

=============================================================================
