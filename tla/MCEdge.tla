-------------------------------- MODULE MCEdge --------------------------------
(* What crosses the border of the two processes: the requests that come in  *)
(* and the connections they open.  The parts share no state; `part` chooses *)
(* the one that moves, the others keep an initial state.                    *)
EXTENDS PublicGate, WarnLog, AdminLimiter, AdminSession, AliveExport,
        Fetcher, EngineBatch, GeoFacts, GeoDownload, TargetDial

VARIABLE part

\* Requests.
Host(name, spelled) == [name |-> name, spelled |-> spelled]
HostsAsked == {Host("panel", "with port"), Host("other", "plain"), Host("panel", "with userinfo"), Host("", "missing")}
HostsAllowed == {Host("panel", "upper case")}

\* Connections.
Url(scheme, host, port) == [scheme |-> scheme, host |-> host, port |-> port, long |-> FALSE]
Urls == {Url("https", "feed", 443), Url("http", "feed", 80), Url("https", "moving", 443), Url("ftp", "feed", 21),
         [Url("https", "feed", 443) EXCEPT !.long = TRUE]}
Addr(form, range) == [form |-> form, range |-> range]
V4 == Addr("v4", "public")
V6 == Addr("native", "public")
LookupsOf == [feed |-> {<<V6, V4>>, << >>},
              moving |-> {<<V4>>, <<Addr("nat64", "private"), V6>>, <<Addr("teredo", "private")>>, <<Addr("native", "unique-local")>>}]
RetriesSet == {0, 9}

\* Lists longer than the short list, with one family behind the other.
DialLookups == {<<V6, Addr("6to4", "public"), V4>>, <<V4, V6>>, << >>, <<V4, Addr("mapped", "loopback")>>,
                <<V4, V4, V6>>, <<Addr("compatible", "public"), V6, V4, Addr("v4", "public, another")>>}

Batch == 1..4
RowHost == [r \in Batch |-> IF r <= 2 THEN "shared" ELSE IF r = 3 THEN "own" ELSE "odd"]
RowAnswers == [shared |-> {<<V6, V4>>, <<V4, Addr("v4", "private")>>}, own |-> {<<V6>>}, odd |-> {<<V4>>}]
OddRows == {4}

Databases == [known |-> {{"country", "city"}, {"asn"}}, quiet |-> {{}}]
FactsAtFirst == <<{"country"}, {}, {"asn"}>>
GeoRowsSet == {[r \in 1..3 |-> [host |-> IF r = 2 THEN "quiet" ELSE "known", facts |-> FactsAtFirst[r]]]}

-----------------------------------------------------------------------------
Parts == {"public", "warn", "limiter", "session", "export", "fetch", "engine", "geo", "download", "dial"}
Moving(p, inputs) == IF part = p THEN inputs ELSE {CHOOSE x \in inputs : TRUE}

Init ==
    /\ part \in Parts
    /\ fileToken = CHOOSE t \in Tokens : TRUE
    /\ opened \in IF part = "geo" THEN {{"city", "asn"}, {"asn"}} ELSE {{}}
    /\ installed \in {[k \in {"City", "ASN"} |-> IF k = "City" THEN c ELSE AbsentFile] : c \in Moving("download", FirstFiles)}
    /\ liveAllow \in Moving("fetch", BOOLEAN)
    /\ reachable \in LET all == UNION {{a[i] : i \in DOMAIN a} : a \in DialLookups}
                     IN  IF part = "dial" THEN SUBSET all ELSE {{}}
    /\ PublicInit /\ LogInit /\ LimiterInit /\ AdminInit /\ ExportInit
    /\ FetchInit /\ EngineInit /\ GeoInit /\ DownloadInit /\ DialInit

requestVars == <<publicVars, logVars, limiterVars, adminVars, exportVars>>
outboundVars == <<fetchVars, engineVars, geoVars, downloadVars, dialVars>>

Requests ==
    \/ part = "public" /\ PublicNext /\ UNCHANGED <<logVars, limiterVars, adminVars, exportVars>>
    \/ part = "warn" /\ LogNext /\ UNCHANGED <<publicVars, limiterVars, adminVars, exportVars>>
    \/ part = "limiter" /\ LimiterNext /\ UNCHANGED <<publicVars, logVars, adminVars, exportVars>>
    \/ part = "session" /\ AdminNext /\ UNCHANGED <<publicVars, logVars, limiterVars, exportVars>>
    \/ part = "export" /\ ExportNext /\ UNCHANGED <<publicVars, logVars, limiterVars, adminVars>>
Connections ==
    \/ part = "fetch" /\ FetchNext /\ UNCHANGED <<engineVars, geoVars, downloadVars, dialVars>>
    \/ part = "engine" /\ EngineNext /\ UNCHANGED <<fetchVars, geoVars, downloadVars, dialVars>>
    \/ part = "geo" /\ GeoNext /\ UNCHANGED <<fetchVars, engineVars, downloadVars, dialVars>>
    \/ part = "download" /\ DownloadNext /\ UNCHANGED <<fetchVars, engineVars, geoVars, dialVars>>
    \/ part = "dial" /\ DialNext /\ UNCHANGED <<fetchVars, engineVars, geoVars, downloadVars>>

Next ==
    \/ Requests /\ UNCHANGED <<part, outboundVars>>
    \/ Connections /\ UNCHANGED <<part, requestVars>>
Spec == Init /\ [][Next]_<<part, requestVars, outboundVars>>
-----------------------------------------------------------------------------
(* Types of every part. *)
TypeOK ==
    /\ PublicTypeOK /\ LogTypeOK /\ LimiterTypeOK /\ AdminTypeOK /\ ExportTypeOK
    /\ FetchTypeOK /\ EngineTypeOK

(* The windows of the public and the admin side count honestly: a request   *)
(* against nobody but its sender, a refund in its own window, a foreign     *)
(* page against nobody, and a suppressed warning is never forgotten.        *)
LimitsAreFair ==
    NeverAThirdParty /\ NoPhantomHits /\ WindowBudget /\ OwnHitsOnly /\ SilenceIsEarned

(* Whoever opens a connection, fetcher, tunnel or reachability check, dials *)
(* only what the gate let through in that lane (ssrf.rs, HostGate).         *)
OnlyVettedAreDialled == DialsAreVetted /\ TunnelsAreVetted /\ FirstOfEachFamilyIsDialled
=============================================================================
