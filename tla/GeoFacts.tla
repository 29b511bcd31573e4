------------------------------- MODULE GeoFacts -------------------------------
(***************************************************************************)
(* The geo columns of the proxies (fumox-core geo.rs and repo/proxies.rs,  *)
(* fumox-server geo_backfill.rs): ingestion stamps what the resolver       *)
(* knows, a backfill pass walks the rows that still miss a fact, and the   *)
(* proxy card refreshes its own row.  A row is the set of facts it holds,  *)
(* an answer of the resolver the set of facts it found.                    *)
(***************************************************************************)
EXTENDS Naturals, Sequences, FiniteSets, Functions, Positions

CONSTANTS FirstGeoRows,  \* the rows the table may hold at first
          MaxGeoId,      \* bound: row ids
          MaxTouches,    \* bound: what happens besides the passes
          GeoHosts,      \* hosts of the rows
          Found,         \* host -> what its address may have in the databases
          GeoBatch,      \* BATCH of geo_backfill.rs
          MaxPasses      \* bound: backfill passes

Facts == {"country", "city", "asn"}
\* Ids are given in order, and a first table holds the first of them.
ASSUME GeoAssumption ==
    /\ {MaxGeoId, MaxTouches, MaxPasses} \subseteq Nat /\ GeoBatch \in Nat \ {0}
    /\ FirstGeoRows \subseteq UNION {[1..n -> [host : GeoHosts, facts : SUBSET Facts]] : n \in 0..MaxGeoId}
    /\ Found \in [GeoHosts -> SUBSET SUBSET Facts]

VARIABLES opened,   \* the databases the resolver opened, of {"city", "asn"}
          georow,   \* id -> [host, facts], the rows of the table
          cache,    \* host -> facts: the resolver's cache, misses included
          pass,     \* who runs it -> the backfill pass
          geoids    \* the last id given; bounds: the touches and the passes so far

geoVars == <<opened, georow, cache, pass, geoids>>

\* The pass of the start and the one of the scheduler's tick; only the latter
\* is kept from overlapping itself.
Passes == {"startup", "tick"}
NoPass == [at |-> "none", cursor |-> 0, page |-> << >>, stamps |-> << >>, full |-> FALSE, late |-> FALSE,
           due |-> {}, asked |-> << >>]
GeoInit ==
    /\ opened \in SUBSET {"city", "asn"}
    /\ georow \in FirstGeoRows /\ cache = << >> /\ pass = [p \in Passes |-> NoPass]
    /\ geoids = [last |-> Cardinality(DOMAIN georow), touches |-> 0, passes |-> 0]

-----------------------------------------------------------------------------
(* The resolver.                                                            *)

is_active == opened # {}
\* The facts a row may still be asked for.
fact_mask == (IF "city" \in opened THEN {"country"} ELSE {}) \cup (opened \cap {"asn"})
resolve_uncached(host) ==
    {f \cap ((IF "city" \in opened THEN {"country", "city"} ELSE {}) \cup (opened \cap {"asn"})) : f \in Found[host] \cup {{}}}
\* A cached answer, a miss as well, is the answer until it expires.
resolve(host) == IF host \in DOMAIN cache THEN {cache[host]} ELSE resolve_uncached(host)
Touched == geoids.touches < MaxTouches /\ geoids' = [geoids EXCEPT !.touches = @ + 1]
CacheExpires ==
    /\ Touched
    /\ \E h \in DOMAIN cache : cache' = Restrict(cache, DOMAIN cache \ {h})
    /\ UNCHANGED <<opened, georow, pass>>

missing_geo_criterion(r) == ~(fact_mask \subseteq georow[r].facts)
list_missing_geo(after, limit) ==
    Ascending(Firsts({r \in DOMAIN georow : r > after /\ missing_geo_criterion(r)}, limit))

\* COALESCE: a fact the stamp is silent about stays.
\* Mutant: the stamp is written as it is.
update_geo_plain(r, stamp) == [georow EXCEPT ![r].facts = stamp]
update_geo(r, stamp) == [georow EXCEPT ![r].facts = @ \cup stamp]

-----------------------------------------------------------------------------
(* Ingestion, removal and the card.                                         *)

Remembered(host, facts) ==
    cache' = IF is_active THEN [h \in DOMAIN cache \cup {host} |-> IF h = host THEN facts ELSE cache[h]] ELSE cache

\* With no resolver there is no stamp.
resolve_geo_stamps(host) == IF is_active THEN resolve(host) ELSE {{}}
NewRow ==
    /\ geoids.last < MaxGeoId /\ geoids.touches < MaxTouches
    /\ \E host \in GeoHosts : \E stamp \in resolve_geo_stamps(host) :
          /\ Remembered(host, stamp)
          /\ georow' = [r \in DOMAIN georow \cup {geoids.last + 1} |->
                          IF r = geoids.last + 1 THEN [host |-> host, facts |-> stamp] ELSE georow[r]]
    /\ geoids' = [geoids EXCEPT !.last = @ + 1, !.touches = @ + 1]
    /\ UNCHANGED <<opened, pass>>
Ingested(r) ==
    /\ Touched
    /\ \E stamp \in resolve_geo_stamps(georow[r].host) :
          Remembered(georow[r].host, stamp) /\ georow' = update_geo(r, stamp)
    /\ UNCHANGED <<opened, pass>>
RowGone(r) ==
    /\ Touched
    /\ georow' = Restrict(georow, DOMAIN georow \ {r})
    /\ UNCHANGED <<opened, cache, pass>>
\* The card's resolver has a cache of its own, and reads the databases even
\* when enrichment is off.
refresh_geo(r) ==
    /\ is_active /\ Touched
    /\ \E stamp \in resolve_uncached(georow[r].host) : georow' = update_geo(r, stamp)
    /\ UNCHANGED <<opened, cache, pass>>

-----------------------------------------------------------------------------
(* The pass.                                                                *)

PassBegins(p) ==
    /\ is_active /\ geoids.passes < MaxPasses
    /\ pass[p].at \in IF p = "tick" THEN {"none", "ended"} ELSE {"none"}
    /\ pass' = [pass EXCEPT ![p] = [NoPass EXCEPT !.at = "list", !.due = {r \in DOMAIN georow : missing_geo_criterion(r)},
                                                  !.asked = [r \in 1..MaxGeoId |-> 0]]]
    /\ geoids' = [geoids EXCEPT !.passes = @ + 1]
    /\ UNCHANGED <<opened, georow, cache>>

\* The budget is spent or the table cannot be read, or a page comes after the
\* cursor; the lookups of a page run together and those the
\* budget does not reach, a tail of it, come back empty.
PassLists(p) ==
    /\ pass[p].at = "list"
    /\ \/ pass' = [pass EXCEPT ![p].at = "ended", ![p].cursor = 0, ![p].late = TRUE] /\ UNCHANGED cache
       \/ LET page == list_missing_geo(pass[p].cursor, GeoBatch)
          IN  IF page = << >> THEN pass' = [pass EXCEPT ![p].at = "ended", ![p].cursor = 0] /\ UNCHANGED cache
              ELSE \E reached \in 0..Len(page) :
                   \E stamps \in [1..reached -> UNION {resolve(georow[r].host) : r \in DOMAIN georow}] :
                      /\ \A i \in 1..reached : stamps[i] \in resolve(georow[page[i]].host)
                      /\ cache' = [h \in DOMAIN cache \cup {georow[page[i]].host : i \in 1..reached} |->
                            IF h \in DOMAIN cache THEN cache[h]
                            ELSE stamps[CHOOSE i \in 1..reached : georow[page[i]].host = h]]
                      /\ pass' = [pass EXCEPT ![p].at = "write", ![p].page = page,
                            ![p].stamps = [i \in DOMAIN page |-> IF i <= reached THEN stamps[i] ELSE {}],
                            ![p].full = Len(page) = GeoBatch, ![p].late = @ \/ reached < Len(page),
                            ![p].asked = [r \in DOMAIN @ |-> @[r] + Cardinality({i \in 1..reached : page[i] = r})]]
    /\ UNCHANGED <<opened, georow, geoids>>

\* Mutant: the cursor follows the rows that were filled.
CursorAfter_filled(cursor, r, stamp) == IF stamp = {} THEN cursor ELSE r
CursorAfter(cursor, r, stamp) == IF r > cursor THEN r ELSE cursor
\* A write that fails only leaves its row as it was.
PassWrites(p) ==
    /\ pass[p].at = "write"
    /\ LET r == Head(pass[p].page)
           stamp == Head(pass[p].stamps)
           last == Len(pass[p].page) = 1
       IN  /\ \/ georow' = (IF r \in DOMAIN georow THEN update_geo(r, stamp) ELSE georow) /\ UNCHANGED geoids
              \/ UNCHANGED georow /\ Touched
           /\ pass' = [pass EXCEPT ![p].cursor = IF last /\ ~pass[p].full THEN 0 ELSE CursorAfter(@, r, stamp),
                                   ![p].page = Tail(@), ![p].stamps = Tail(@),
                                   ![p].at = IF ~last THEN "write" ELSE IF pass[p].full THEN "list" ELSE "ended"]
    /\ UNCHANGED <<opened, cache>>

GeoNext ==
    \/ CacheExpires \/ NewRow
    \/ \E r \in DOMAIN georow : Ingested(r) \/ RowGone(r) \/ refresh_geo(r)
    \/ \E p \in Passes : PassBegins(p) \/ PassLists(p) \/ PassWrites(p)
GeoSpec == GeoInit /\ [][GeoNext]_geoVars

-----------------------------------------------------------------------------
(* Properties.                                                              *)

\* proxies.rs update_geo: "None means unknown, never erase"; no order of
\* lookups, whole, partial or failed, takes a fact from a row.
FactsNeverVanish ==
    [][\A r \in DOMAIN georow \cap DOMAIN georow' : georow[r].facts \subseteq georow'[r].facts]_geoVars

\* geo_backfill.rs run_backfill: a pass the budget did not cut has asked for
\* every row that missed a fact when it began and misses it still, and no
\* pass asks for a row twice, whatever ingestion, removals, the card and the
\* other pass do meanwhile.
PassAsksOnce ==
    \A p \in Passes :
        /\ \A r \in DOMAIN pass[p].asked : pass[p].asked[r] <= 1
        /\ pass[p].at = "ended" /\ ~pass[p].late =>
              \A r \in pass[p].due \cap DOMAIN georow : missing_geo_criterion(r) => pass[p].asked[r] = 1

\* A row only gains facts, and every row that misses one is asked for once a
\* pass.
FactsAreCollected == FactsNeverVanish /\ []PassAsksOnce
=============================================================================
