------------------------------ MODULE Settings ------------------------------
(***************************************************************************)
(* The settings screen of the admin panel and the configuration it edits:  *)
(* the registry of editable fields (admin/handlers/settings.rs), the       *)
(* loader both binaries start with (fumox-core/src/config.rs), the locked  *)
(* read-modify-write of app.toml (config_writer.rs) and the in-memory view *)
(* every handler reads (AdminState::live_config).                          *)
(*                                                                         *)
(* Two browser tabs post forms that carry every field; a post is applied   *)
(* and committed under the process-wide editor lock, the steps after it    *)
(* (session epoch, reload, swap of the live view) are not.  The server may *)
(* die between any two steps and starts again from the file.               *)
(***************************************************************************)
EXTENDS Integers, Sequences, FiniteSets, SequencesExt, TLC, Positions

CONSTANTS
  Tabs,          \* browser tabs that post settings
  Touches,       \* [Tabs -> set of keys a tab may change before posting]
  Omits,         \* keys whose field a post may lack
  Pads,          \* keys whose number a client may post with blanks around it
  FirstStarts,   \* pairs of a file and the FUMOX_* overrides the server
                 \* is first started with
  RenameWorks,   \* what a rename may come to: {FALSE} where the filesystem refuses it
  MaxPosts,      \* bound on the requests of each tab
  MaxCrashes     \* bound on the crashes

NoKeys == << >>                        \* the function with no key

(***************************************************************************)
(* Values.  A setting is a tagged record, so that the values of different  *)
(* kinds can be compared: a number, a string, a flag, a list, a rate.  The *)
(* numbers above i64::MAX are Above; every other bound is the source's.    *)
(***************************************************************************)
Num(n)     == [n |-> n]
Spaced(n)  == [n |-> n, padded |-> TRUE]   \* " 30": a client's, no browser's
Str(s)     == [s |-> s]
Flag(b)    == [b |-> b]
List(l)    == [l |-> l]
Junk       == Str("junk")              \* a text no field parses
I64Max     == 2000000000
Above      == I64Max + 1

(* A rate in the file is "N/unit" or a bare integer (unit "none"), in the  *)
(* configuration a count and a window, in the form a count and a unit.     *)
Written(n, u) == [n |-> n, u |-> u]
Window(u)  == CASE u \in {"s", "sec", "second"} -> 1
                [] u \in {"m", "min", "minute", "none"} -> 60
                [] u \in {"h", "hour"} -> 3600
                [] u \in {"d", "day"} -> 86400
                [] OTHER -> 0
Rate(n, w) == [n |-> n, w |-> w]

(* The field kinds of the registry, section by section. *)
Of(kind, keys) == [k \in keys |-> kind]
ServerFields == Of("bind", {"server.bind"}) @@ Of("cidrs", {"server.trust_proxy_ips"})
  @@ Of("list", {"server.allowed_hosts"})
  @@ Of("rate", {"server.rate_limit", "server.auth_fail_rate_limit"})
DatabaseFields == Of("string", {"database.path"})
  @@ Of("int", {"database.busy_timeout_ms", "database.max_connections"})
FetchFields == Of("string", {"fetch.user_agent"}) @@ Of("family", {"fetch.ip_family"})
  @@ Of("int", {"fetch.connect_timeout_secs", "fetch.read_timeout_secs",
                "fetch.max_response_bytes", "fetch.max_concurrency",
                "fetch.max_retries", "fetch.retry_base_backoff_ms"})
IngestFields == Of("int", {"ingest.refresh_check_limit"})
  @@ Of("bool", {"ingest.drop_gate", "ingest.removed_as_unknown"})
GeoFields == Of("bool", {"geo.enabled"}) @@ Of("string", {"geo.db_dir"})
  @@ Of("int", {"geo.cache_max_entries", "geo.dns_timeout_secs"})
AdminFields == Of("bind", {"admin.bind"}) @@ Of("token", {"admin.token"})
  @@ Of("bool", {"admin.enabled", "admin.allow_private_urls", "admin.secure_cookies"})
  @@ Of("int", {"admin.session_ttl_hours"}) @@ Of("string", {"admin.locales_dir"})
  @@ Of("rate", {"admin.rate_limit", "admin.login_rate_limit"})
  @@ Of("cidrs", {"admin.trust_proxy_ips"}) @@ Of("list", {"admin.allowed_hosts"})
ProbeFields == Of("ladder", {"probe.recheck_delays_secs"})
  @@ Of("bool", {"probe.allow_private_targets"})
  @@ Of("int", {"probe.fail_limit", "probe.second_chance_min_hours",
                "probe.second_chance_spread_hours", "probe.queue_stale_days",
                "probe.retention_interval_secs", "probe.cycle_interval_secs",
                "probe.sample_size", "probe.connect_timeout_secs",
                "probe.tls_timeout_secs", "probe.concurrency",
                "probe.heartbeat_interval_secs", "probe.backlog_target_drain_minutes"})
MeowFields == Of("string", {"meow.api_addr", "meow.config_path"})
  @@ Of("urls", {"meow.test_url"}) @@ Of("bool", {"meow.ipv6"})
  @@ Of("int", {"meow.timeout_secs", "meow.backoff_initial_secs", "meow.backoff_max_secs"})
RetentionFields == Of("int", {"retention.probe_results_days", "retention.fetch_log_days"})
LogFields == Of("level", {"log.server", "log.probe"})

Fields == ServerFields @@ DatabaseFields @@ FetchFields @@ IngestFields @@ GeoFields
            @@ AdminFields @@ ProbeFields @@ MeowFields @@ RetentionFields @@ LogFields
Keys   == DOMAIN Fields
LogLevels  == {"error", "warn", "info", "debug", "trace"}
IpFamilies == {"any", "ipv4", "ipv6"}

(* config::bounds: what the editor accepts for each number; Above stands   *)
(* for an open end.                                                        *)
RECHECK_MAX_STEPS      == 16
RECHECK_MAX_DELAY_SECS == 30 * 24 * 60 * 60
Day == 24 * 3600
Ranges ==
  Of(<<1, 600>>, {"fetch.connect_timeout_secs", "probe.connect_timeout_secs",
                  "probe.tls_timeout_secs", "meow.timeout_secs"})
  @@ Of(<<1, 1024>>, {"database.max_connections", "fetch.max_concurrency", "probe.concurrency"})
  @@ Of(<<1, Day>>, {"probe.cycle_interval_secs", "probe.heartbeat_interval_secs",
                     "meow.backoff_initial_secs", "meow.backoff_max_secs"})
  @@ Of(<<0, 24 * 365>>, {"probe.second_chance_min_hours", "probe.second_chance_spread_hours"})
  @@ Of(<<1, 3650>>, {"retention.probe_results_days", "retention.fetch_log_days"})
  @@ Of(<<1, 1000000>>, {k \in Keys : Fields[k] = "rate"})
  @@ "database.busy_timeout_ms" :> <<100, 60000>> @@ "fetch.read_timeout_secs" :> <<1, 3600>>
  @@ "fetch.max_response_bytes" :> <<1024, Above>> @@ "fetch.max_retries" :> <<0, 16>>
  @@ "fetch.retry_base_backoff_ms" :> <<0, 60000>>
  @@ "ingest.refresh_check_limit" :> <<0, 10000>>
  @@ "geo.cache_max_entries" :> <<0, 10000000>> @@ "geo.dns_timeout_secs" :> <<1, 60>>
  @@ "admin.session_ttl_hours" :> <<1, 24 * 365>> @@ "probe.fail_limit" :> <<1, 32>>
  @@ "probe.queue_stale_days" :> <<0, 365>> @@ "probe.sample_size" :> <<0, 100000>>
  @@ "probe.retention_interval_secs" :> <<60, 7 * Day>>
  @@ "probe.backlog_target_drain_minutes" :> <<5, 24 * 60>>
InRange(k, n) == Ranges[k][1] <= n /\ n <= Ranges[k][2]

(* The built-in defaults, in the configuration's own types. *)
DatabaseNumbers == "database.busy_timeout_ms" :> 5000 @@ "database.max_connections" :> 8
FetchNumbers == "fetch.connect_timeout_secs" :> 10 @@ "fetch.read_timeout_secs" :> 30
  @@ "fetch.max_response_bytes" :> 10485760 @@ "fetch.max_concurrency" :> 4
  @@ "fetch.max_retries" :> 2 @@ "fetch.retry_base_backoff_ms" :> 500
IngestNumbers == "ingest.refresh_check_limit" :> 50
GeoNumbers == "geo.cache_max_entries" :> 16384 @@ "geo.dns_timeout_secs" :> 5
AdminNumbers == "admin.session_ttl_hours" :> 168
ProbeNumbers == "probe.fail_limit" :> 3 @@ "probe.second_chance_min_hours" :> 12
  @@ "probe.second_chance_spread_hours" :> 4 @@ "probe.queue_stale_days" :> 7
  @@ "probe.retention_interval_secs" :> Day @@ "probe.cycle_interval_secs" :> 60
  @@ "probe.sample_size" :> 50 @@ "probe.connect_timeout_secs" :> 10
  @@ "probe.tls_timeout_secs" :> 10 @@ "probe.concurrency" :> 8
  @@ "probe.heartbeat_interval_secs" :> 30 @@ "probe.backlog_target_drain_minutes" :> 60
MeowNumbers == "meow.timeout_secs" :> 10 @@ "meow.backoff_initial_secs" :> 60
  @@ "meow.backoff_max_secs" :> 900
RetentionNumbers == "retention.probe_results_days" :> 14 @@ "retention.fetch_log_days" :> 30
DefaultNumbers == DatabaseNumbers @@ FetchNumbers @@ IngestNumbers @@ GeoNumbers @@ AdminNumbers
             @@ ProbeNumbers @@ MeowNumbers @@ RetentionNumbers
HitsPerMinute == "server.rate_limit" :> 300 @@ "server.auth_fail_rate_limit" :> 30
  @@ "admin.rate_limit" :> 120 @@ "admin.login_rate_limit" :> 5
Switched == {"geo.enabled", "admin.enabled", "admin.allow_private_urls"}
DefaultTexts == "server.bind" :> "0.0.0.0:8080" @@ "admin.bind" :> "127.0.0.1:8081"
  @@ "admin.token" :> "change-me" @@ "admin.locales_dir" :> "locales"
  @@ "database.path" :> "fumox.db" @@ "geo.db_dir" :> "config"
  @@ "fetch.user_agent" :> "fumox" @@ "fetch.ip_family" :> "any"
  @@ "meow.api_addr" :> "127.0.0.1:9090" @@ "meow.config_path" :> "config/meow.yaml"
  @@ Of("info", {"log.server", "log.probe"})
Defaults == [k \in Keys |-> CASE Fields[k] = "int"    -> Num(DefaultNumbers[k])
                              [] Fields[k] = "rate"   -> Rate(HitsPerMinute[k], 60)
                              [] Fields[k] = "bool"   -> Flag(k \in Switched)
                              [] Fields[k] = "ladder" -> List(<<900, 1800, 3600>>)
                              [] Fields[k] = "urls"   -> List(<<"u1", "u2">>)
                              [] Fields[k] \in {"cidrs", "list"} -> List(<< >>)
                              [] OTHER -> Str(DefaultTexts[k])]

(* What a value is made of, as a file or a form has it and as the           *)
(* configuration holds it: the loader reads no value of another type.      *)
WrittenShape(kind) == CASE kind = "int"  -> {"n"}
                        [] kind = "bool" -> {"b"}
                        [] kind = "rate" -> {"n", "u"}
                        [] kind \in {"cidrs", "list", "ladder", "urls"} -> {"l"}
                        [] OTHER -> {"s"}
ConfigShape(kind) == IF kind = "rate" THEN {"n", "w"} ELSE WrittenShape(kind)
IsWritten(doc) == /\ DOMAIN doc \subseteq Keys
                  /\ \A k \in DOMAIN doc : DOMAIN doc[k] = WrittenShape(Fields[k])

ASSUME SettingsAssumption ==
  /\ \A start \in FirstStarts : /\ start[1].st \in {"absent", "ok", "torn"}
                                /\ IsWritten(start[1].doc) /\ IsWritten(start[2])
  /\ \A o \in Tabs : Touches[o] \subseteq Keys
  /\ RenameWorks \in SUBSET BOOLEAN /\ RenameWorks # {}

(***************************************************************************)
(* The loader.  A document maps the keys the file sets to what is written  *)
(* there; the items of meow.test_url are sequences, since each is split at *)
(* its commas.                                                             *)
(***************************************************************************)
LadderLoads(v) == /\ Len(v.l) <= RECHECK_MAX_STEPS
                  /\ \A i \in DOMAIN v.l : v.l[i] \in 1 .. RECHECK_MAX_DELAY_SECS

ValueLoads(k, v) ==
  CASE Fields[k] = "ladder" -> LadderLoads(v)
    [] Fields[k] = "urls"   -> FlattenSeq(v.l) # << >>
    [] Fields[k] = "rate"   -> Window(v.u) # 0
    [] Fields[k] = "level"  -> v.s \in LogLevels
    [] Fields[k] = "family" -> v.s \in IpFamilies
    [] Fields[k] = "int"    -> v.n \in 0 .. I64Max
    [] OTHER -> TRUE

Loaded_as_written(k, v) == IF Fields[k] = "urls" THEN List(FlattenSeq(v.l)) ELSE v
Loaded(k, v) == CASE Fields[k] = "urls" -> List(FlattenSeq(v.l))
                  [] Fields[k] = "rate" -> Rate(v.n, Window(v.u))
                  [] OTHER -> v

(* Defaults, then the file, then the environment. *)
Layers(doc, env) == env ++ doc
merged(doc, env) ==
  LET set == Layers(doc, env)
  IN  [k \in Keys |-> IF k \in DOMAIN set THEN Loaded(k, set[k]) ELSE Defaults[k]]

validate(c) == c["meow.backoff_max_secs"].n >= c["meow.backoff_initial_secs"].n

load_config(doc, env) == LET set == Layers(doc, env)
                         IN  /\ \A k \in DOMAIN set : ValueLoads(k, set[k])
                             /\ validate(merged(doc, env))

(***************************************************************************)
(* The form: what raw_from_config renders and what the field parsers make  *)
(* of a posted value.                                                      *)
(***************************************************************************)
UnitOf_minute_off(w) == CASE w \in 1 .. 60 -> "sec" [] w \in 61 .. 3599 -> "min"
                          [] w \in 3600 .. 86399 -> "hour" [] OTHER -> "day"
UnitOf(w) == CASE w \in 1 .. 59 -> "sec" [] w \in 60 .. 3599 -> "min"
               [] w \in 3600 .. 86399 -> "hour" [] OTHER -> "day"

raw_from_config(c) ==
  [k \in Keys |-> CASE Fields[k] = "token" -> Str("")
                    [] Fields[k] = "rate"  -> Written(c[k].n, UnitOf(c[k].w))
                    [] Fields[k] = "urls"  -> List([i \in DOMAIN c[k].l |-> <<c[k].l[i]>>])
                    [] OTHER -> c[k]]

CidrParses(entry) == entry # "junk"
unit_for_secs(w) == CASE w = 1 -> "s" [] w = 60 -> "min" [] w = 3600 -> "h" [] OTHER -> "day"

(* The posted value is refused with a message under its field. *)
Refused(k, v) ==
  CASE Fields[k] \in {"bind", "bool"} -> v = Junk
    [] Fields[k] = "string" -> v = Str("")
    [] Fields[k] = "int"    -> v = Junk \/ ~InRange(k, v.n) \/ v.n > I64Max
    [] Fields[k] = "rate"   -> \/ v = Junk \/ ~InRange(k, v.n)
                               \/ v.u \notin {"sec", "min", "hour", "day"}
    [] Fields[k] = "level"  -> v.s \notin LogLevels
    [] Fields[k] = "family" -> v.s \notin IpFamilies
    [] Fields[k] = "cidrs"  -> \E i \in DOMAIN v.l : ~CidrParses(v.l[i])
    [] Fields[k] = "ladder" -> v = Junk \/ v.l = << >> \/ ~LadderLoads(v)
    [] OTHER -> FALSE

(* What an accepted value writes; a number is trimmed before it is parsed. *)
StoredAs(k, v) == CASE Fields[k] = "rate" -> Written(v.n, unit_for_secs(Window(v.u)))
                    [] Fields[k] = "int"  -> Num(v.n)
                    [] OTHER -> v

(* An absent checkbox is FALSE, any other absent field is skipped; an      *)
(* empty token keeps the one on disk.                                      *)
Unticked == [k \in {q \in Keys : Fields[q] = "bool"} |-> Flag(FALSE)]
Carried(raw) == raw ++ Unticked
KeysWritten(all) == {k \in DOMAIN all : ~(Fields[k] = "token" /\ all[k] = Str(""))}

\* The two ends of the meow backoff are compared when both parse as they are,
\* untrimmed.
\* Mutant: they are not compared.
BackoffInverted_unchecked(raw) == FALSE
BackoffEnds == {"meow.backoff_initial_secs", "meow.backoff_max_secs"}
BackoffInverted(raw) ==
  /\ BackoffEnds \subseteq DOMAIN raw
  /\ \A k \in BackoffEnds : raw[k] # Junk /\ raw[k] = Num(raw[k].n)
  /\ raw["meow.backoff_max_secs"].n < raw["meow.backoff_initial_secs"].n

apply_errors(raw) == LET all == Carried(raw)
                     IN  (\E k \in DOMAIN all : Refused(k, all[k])) \/ BackoffInverted(raw)
apply_all(raw, doc) == LET all == Carried(raw)
                       IN  [k \in KeysWritten(all) |-> StoredAs(k, all[k])] ++ doc

(***************************************************************************)
(* The processes.                                                          *)
(***************************************************************************)
VARIABLES
  app_toml,     \* [st, doc]: the file, absent, whole or torn
  env,          \* the overrides of the running server
  up,           \* the server runs
  writable,     \* AdminState::config_writable, fixed at startup
  live_config,  \* the merged configuration every handler reads
  tab,          \* [pc, raw, doc, held] per tab
  epoch,        \* the session epoch stored in the database
  posts, crashes

settingsVars == <<app_toml, env, up, writable, live_config, tab, epoch, posts, crashes>>

Absent == [st |-> "absent", doc |-> NoKeys]
Torn   == [st |-> "torn", doc |-> NoKeys]
Whole(doc) == [st |-> "ok", doc |-> doc]
IdleTab == [pc |-> "idle", raw |-> NoKeys, doc |-> NoKeys, held |-> NoKeys]

(* config/app.toml as shipped, written by Create: every key is set.  The   *)
(* values that differ from the defaults do so within the same ranges.      *)
REFERENCE_CONFIG ==
  [k \in Keys |-> CASE Fields[k] = "rate" -> Written(Defaults[k].n, "min")
                    [] Fields[k] = "urls" -> List(<< <<"u3">> >>)
                    [] Fields[k] = "ladder" -> List(<<900>>)
                    [] OTHER -> Defaults[k]]

(* config::load of the file by its explicit path: a missing file is an     *)
(* error, a torn one does not parse.                                       *)
FileLoads(f, e) == f.st = "ok" /\ load_config(f.doc, e)

(* The startup load reaches the default location, which may be absent. *)
StartupLoads(f, e) == FileLoads(f, e) \/ (f.st = "absent" /\ load_config(NoKeys, e))

SettingsInit ==
  /\ \E start \in FirstStarts : app_toml = start[1] /\ env = start[2]
  /\ StartupLoads(app_toml, env)
  /\ up = TRUE
  /\ writable \in BOOLEAN
  /\ live_config = merged(app_toml.doc, env)
  /\ tab = [o \in Tabs |-> IdleTab]
  /\ epoch = 0 /\ posts = [o \in Tabs |-> 0] /\ crashes = 0

(* GET /admin/settings/edit renders the file with the overrides on top,    *)
(* and the live view when the file does not load.                          *)
settings_edit(o) ==
  /\ up /\ tab[o].pc = "idle" /\ posts[o] < MaxPosts
  /\ LET c == IF FileLoads(app_toml, env) THEN merged(app_toml.doc, env) ELSE live_config
     IN  tab' = [tab EXCEPT ![o] = [IdleTab EXCEPT !.pc = "form", !.raw = raw_from_config(c)]]
  /\ UNCHANGED <<app_toml, env, up, writable, live_config, epoch, posts, crashes>>

LockFree_always == TRUE

(* The EDITOR_LOCK is held from EditableConfig::load to the end of save. *)
LockFree == \A o \in Tabs : tab[o].pc \notin {"save", "direct"}

(* What the operator may put in one field before posting. *)
Inputs(k) ==
  CASE Fields[k] = "int"    -> {Num(n) : n \in {Ranges[k][1] - 1, Ranges[k][1], Ranges[k][2],
                                                Ranges[k][2] + 1} \cap 0 .. Above} \cup {Junk}
                               \cup IF k \in Pads THEN {Spaced(Ranges[k][1])} ELSE {}
    [] Fields[k] = "rate"   -> {Written(0, "min"), Written(7, "sec"), Written(7, "fortnight"), Junk}
    [] Fields[k] = "bool"   -> {Flag(TRUE), Flag(FALSE), Junk}
    [] Fields[k] = "token"  -> {Str("t1")}
    [] Fields[k] = "ladder" -> {List(<< >>), List(<<60>>), List(<<60, 0>>),
                                List([i \in 1 .. RECHECK_MAX_STEPS + 1 |-> 60]), Junk}
    [] Fields[k] = "urls"   -> {List(<< >>), List(<< <<"u1">>, <<"u2", "u3">> >>)}
    [] Fields[k] \in {"cidrs", "list"} -> {List(<< >>), List(<<"10.0.0.1">>), List(<<"junk">>)}
    [] Fields[k] \in {"level", "family"} -> {Str("debug"), Str("ipv6"), Junk}
    [] OTHER -> {Str(""), Str("other"), Junk}

(* The form as rendered, with one field changed or left out. *)
Changed(raw, keys) == UNION {{Maplet(k, v) ++ raw : v \in Inputs(k)} : k \in keys}
Lacking(raw, keys) == {[q \in Keys \ {k} |-> raw[q]] : k \in keys}
Submissions(o) == {tab[o].raw} \cup Changed(tab[o].raw, Touches[o])
                    \cup Lacking(tab[o].raw, Touches[o] \cap Omits)

(* What the request still needs of the form after the save. *)
TokenOf(raw) == [k \in {"admin.token"} \cap DOMAIN raw |-> raw[k]]

(* POST /admin/settings/edit up to the save: lock, load, apply every       *)
(* field.  A torn file, a refused field and a read-only deployment end the *)
(* request with nothing written.                                           *)
settings_update(o) ==
  /\ up /\ tab[o].pc = "form" /\ LockFree
  /\ posts' = [posts EXCEPT ![o] = @ + 1]
  /\ \E raw \in Submissions(o) :
       IF ~writable \/ app_toml.st = "torn" \/ apply_errors(raw)
       THEN tab' = [tab EXCEPT ![o] = IdleTab]
       ELSE tab' = [tab EXCEPT ![o] = [IdleTab EXCEPT !.pc = "save", !.raw = TokenOf(raw),
                                         !.doc = apply_all(raw, app_toml.doc)]]
  /\ UNCHANGED <<app_toml, env, up, writable, live_config, epoch, crashes>>

(* The request goes on with the document committed. *)
Finish(o) == tab' = [tab EXCEPT ![o] = [@ EXCEPT !.pc = "revoke", !.doc = NoKeys]]

(* EditableConfig::save: temporary file, fsync, rename.  A temporary file  *)
(* that cannot be written ends the request with a 500; a refused rename    *)
(* falls back to writing the file in place.                                *)
save(o) ==
  /\ up /\ tab[o].pc = "save"
  /\ \/ TRUE \in RenameWorks /\ app_toml' = Whole(tab[o].doc) /\ Finish(o)
     \/ FALSE \in RenameWorks /\ app_toml' = Torn /\ tab' = [tab EXCEPT ![o].pc = "direct"]
     \/ app_toml' = app_toml /\ tab' = [tab EXCEPT ![o] = IdleTab]
  /\ UNCHANGED <<env, up, writable, live_config, epoch, posts, crashes>>

direct_write(o) ==
  /\ up /\ tab[o].pc = "direct"
  /\ \/ app_toml' = Whole(tab[o].doc) /\ Finish(o)
     \/ app_toml' = app_toml /\ tab' = [tab EXCEPT ![o] = IdleTab]
  /\ UNCHANGED <<env, up, writable, live_config, epoch, posts, crashes>>

(* A posted token that differs from the live one bumps the session epoch;  *)
(* the bump may fail, which is logged.                                     *)
Rotates(o) == /\ "admin.token" \in DOMAIN tab[o].raw
              /\ tab[o].raw["admin.token"] # Str("")
              /\ tab[o].raw["admin.token"] # live_config["admin.token"]

revoke_all_sessions(o) ==
  /\ up /\ tab[o].pc = "revoke"
  /\ epoch' \in IF Rotates(o) THEN {epoch, epoch + 1} ELSE {epoch}
  /\ tab' = [tab EXCEPT ![o] = [IdleTab EXCEPT !.pc = "refresh"]]
  /\ UNCHANGED <<app_toml, env, up, writable, live_config, posts, crashes>>

(* refresh_live_config reads the file, then takes the write lock; a file   *)
(* that does not load leaves the live view as it was.                      *)
refresh_live_config(o) ==
  /\ up /\ tab[o].pc = "refresh"
  /\ tab' = [tab EXCEPT ![o] = IF FileLoads(app_toml, env)
                               THEN [IdleTab EXCEPT !.pc = "swap", !.held = merged(app_toml.doc, env)]
                               ELSE IdleTab]
  /\ UNCHANGED <<app_toml, env, up, writable, live_config, epoch, posts, crashes>>

swap_live_config(o) ==
  /\ up /\ tab[o].pc = "swap"
  /\ live_config' = tab[o].held
  /\ tab' = [tab EXCEPT ![o] = IdleTab]
  /\ UNCHANGED <<app_toml, env, up, writable, epoch, posts, crashes>>

(* POST /admin/settings/create: nothing when the file exists; otherwise    *)
(* the reference copy is written in place, outside the editor lock.        *)
settings_create(o) ==
  /\ up /\ tab[o].pc = "idle" /\ posts[o] < MaxPosts
  /\ app_toml.st = "absent" /\ writable
  /\ posts' = [posts EXCEPT ![o] = @ + 1]
  /\ tab' = [tab EXCEPT ![o].pc = "create"]
  /\ UNCHANGED <<app_toml, env, up, writable, live_config, epoch, crashes>>

create_write(o) ==
  /\ up /\ tab[o].pc = "create"
  /\ \/ app_toml' = Whole(REFERENCE_CONFIG) /\ tab' = [tab EXCEPT ![o].pc = "refresh"]
     \/ app_toml' \in {app_toml, Torn} /\ tab' = [tab EXCEPT ![o] = IdleTab]
  /\ UNCHANGED <<env, up, writable, live_config, epoch, posts, crashes>>

Crash == /\ up /\ crashes < MaxCrashes
         /\ up' = FALSE /\ crashes' = crashes + 1
         /\ tab' = [o \in Tabs |-> IdleTab]
         /\ UNCHANGED <<app_toml, env, writable, live_config, epoch, posts>>

(* A start that cannot load the configuration ends at once. *)
Start == /\ ~up /\ StartupLoads(app_toml, env)
         /\ up' = TRUE
         /\ live_config' = merged(app_toml.doc, env)
         /\ writable' \in BOOLEAN
         /\ UNCHANGED <<app_toml, env, tab, epoch, posts, crashes>>

SettingsNext ==
  \/ \E o \in Tabs : \/ settings_edit(o) \/ settings_update(o) \/ save(o)
                     \/ direct_write(o) \/ revoke_all_sessions(o)
                     \/ refresh_live_config(o) \/ swap_live_config(o)
                     \/ settings_create(o) \/ create_write(o)
  \/ Crash \/ Start

SettingsSpec == SettingsInit /\ [][SettingsNext]_settingsVars
-----------------------------------------------------------------------------
(* The file holds registered keys only, the live view every key in the     *)
(* configuration's own type, and every tab is in a known step.             *)
SettingsTypeOK ==
  /\ app_toml.st \in {"absent", "ok", "torn"} /\ DOMAIN app_toml.doc \subseteq Keys
  /\ DOMAIN live_config = Keys /\ epoch \in Nat /\ up \in BOOLEAN
  /\ \A k \in Keys : DOMAIN live_config[k] = DOMAIN Defaults[k]
  /\ \A o \in Tabs : tab[o].pc \in {"idle", "form", "save", "direct", "revoke", "refresh",
                                    "swap", "create"}

(* An untouched form changes nothing: posting what the edit page rendered  *)
(* is refused, or writes a file that loads to the same configuration under *)
(* the same overrides.  (raw_from_config against apply_all and the loader.)*)
UntouchedFormIsIdentity ==
  FileLoads(app_toml, env) =>
    LET raw == raw_from_config(merged(app_toml.doc, env))
        doc == apply_all(raw, app_toml.doc)
    IN  ~apply_errors(raw) => /\ load_config(doc, env)
                              /\ merged(doc, env) = merged(app_toml.doc, env)

(* A save never turns a configuration the next start accepts into one that *)
(* aborts both binaries, neither by the file it puts in place nor by the   *)
(* one it goes on to write over a file whose rename was refused.           *)
(* (settings.rs: "it must refuse exactly what that parser refuses".)       *)
SavesStayLoadable ==
  [][StartupLoads(app_toml, env) =>
       /\ app_toml'.st = "ok" => FileLoads(app_toml', env)
       /\ \A o \in Tabs : tab[o].pc = "save" /\ tab'[o].pc = "direct" => load_config(tab[o].doc, env)]_app_toml

(* From the load of a document to its commit the file changes by that      *)
(* request alone, so that the keys a form does not carry keep what an      *)
(* earlier save wrote; Create is the one writer outside the lock.          *)
(* (EditableConfig holds EDITOR_LOCK from load to drop.)                   *)
SavesReplaceWhatTheyRead ==
  [][\A o \in Tabs : tab[o].pc \in {"save", "direct"} =>
       \/ tab'[o].pc # tab[o].pc
       \/ \E p \in Tabs : tab[p].pc = "create" /\ tab'[p].pc # "create"]_app_toml

(* What the settings page does to app.toml: it stays loadable, no writer    *)
(* overwrites another unread, and a form nobody touched changes nothing.    *)
SettingsAreSafeToSave ==
  SavesStayLoadable /\ SavesReplaceWhatTheyRead /\ []UntouchedFormIsIdentity

(* Not a property of this code (README, section 6).                        *)
(* Once no request is under way, the handlers read what the file says.     *)
(* (AdminState::live_config: "Refreshed after every successful             *)
(* settings_update".)                                                      *)
LiveFollowsFile ==
  (up /\ (\A o \in Tabs : tab[o].pc \in {"idle", "form"}) /\ FileLoads(app_toml, env))
    => live_config = merged(app_toml.doc, env)
=============================================================================
