----------------------------- MODULE Subscription -----------------------------
(***************************************************************************)
(* From feed to subscription: an ingest applies a source's drop rules and  *)
(* stores what is left with its geo facts (ingest.rs, repo/proxies.rs),    *)
(* and render_sub (serve.rs) runs every member's merged pipeline over the  *)
(* stored rows, merges, and finalizes.  Configurations are saved through   *)
(* the forms in between, and the geo database may be loaded later.         *)
(*                                                                         *)
(* Members are numbered by their position in the profile, and are enabled. *)
(* What the probe found out about an address is given.                     *)
(***************************************************************************)
EXTENDS PipelineRules

CONSTANTS Sources,        \* 1 .. n: the members of the profile, by position
          SourceDocs,     \* [source -> documents its form may post]
          ProfileDocs,    \* documents a profile form may post
          CountryLists,   \* the profile's country allowlists: {} is no filter
          MemberFeeds,          \* [source -> payloads: sequences of entries]
          StatusOf,       \* [host -> status]
          LatencyOf,      \* [host -> None or Some(milliseconds)]
          GeoDatabase,    \* [host -> None or Some([country, asn])]
          DropGate        \* [ingest].drop_gate

\* Every text has a rank in the order names are sorted in.
Values == DOMAIN Collation
ParsedEntry == [scheme : STRING, prefix : Values, name : Values, host : Values, port : Values,
                params : Seq([key : STRING, value : Values])]
FeedEntries == UNION {Ranged(f) : f \in UNION Ranged(MemberFeeds)}
Documented == (UNION Ranged(SourceDocs)) \cup ProfileDocs
IsOption(o) == \A x, y \in o : x = y

ASSUME SourceAssumption == IsFiniteSet(Sources) /\ Sources = 1 .. Cardinality(Sources)
ASSUME DropGateAssumption == DropGate \in BOOLEAN
ASSUME GeoAssumption == \A h \in DOMAIN GeoDatabase : IsOption(GeoDatabase[h]) /\
                            \A g \in GeoDatabase[h] : g.country \in Values /\ g.asn \in SUBSET Nat
ASSUME FeedAssumption ==
    /\ "" \in Values
    /\ DOMAIN MemberFeeds = Sources /\ \A s \in Sources : MemberFeeds[s] \in SUBSET Seq(ParsedEntry)
    /\ \A e \in FeedEntries : e.host \in DOMAIN LatencyOf
ASSUME LatencyAssumption == \A h \in DOMAIN LatencyOf : LatencyOf[h] = None \/ Value(LatencyOf[h]) \in Nat
\* serde's types: a cap is a number, a rule rewrites to a text.
ASSUME DocumentAssumption ==
    /\ DOMAIN SourceDocs = Sources
    /\ \A d \in Documented :
          /\ (Has(d, "limit") /\ d.limit.typed) => IsOption(d.limit.count) /\ d.limit.count \subseteq Nat
          /\ Has(d, "rename") => d.rename \in Seq([match : STRING, replace : Values, target : STRING])

VARIABLES pipelines,  \* sources.pipeline
          profile,    \* profiles.pipeline
          countries,  \* profiles.countries
          table,      \* proxies, in id order
          links,      \* proxy_source_links: the fingerprints each source is linked to
          geo         \* what GeoResolver answers

serveVars == <<pipelines, profile, countries, table, links, geo>>

-----------------------------------------------------------------------------
Row == [entry : FeedEntries, stamp : SUBSET (UNION Ranged(GeoDatabase))]
Documents == {None} \cup {Some(d) : d \in Documented}
RowsOf == Ranged(table)
IdOf(fp) == CHOOSE i \in DOMAIN table : fingerprint_of(table[i].entry) = fp

SubscriptionTypeOK ==
    /\ pipelines \in [Sources -> Documents] /\ profile \in Documents
    /\ countries \in CountryLists
    /\ table \in Seq(Row)
    /\ \A i, j \in DOMAIN table : fingerprint_of(table[i].entry) = fingerprint_of(table[j].entry) => i = j
    /\ links \in [Sources -> SUBSET {fingerprint_of(r.entry) : r \in RowsOf}]
    /\ geo \in {Inactive, GeoDatabase}

ServeInit ==
    /\ pipelines = [s \in Sources |-> None] /\ profile = None /\ countries \in CountryLists
    /\ table = << >> /\ links = [s \in Sources |-> {}] /\ geo \in {Inactive, GeoDatabase}

\* The forms store what validates, {} included, and NULL for an empty field.
save_source(s) ==
    /\ \E d \in {None} \cup {Some(x) : x \in SourceDocs[s]} :
          Accepts(d) /\ pipelines' = [pipelines EXCEPT ![s] = d]
    /\ UNCHANGED <<profile, countries, table, links, geo>>

save_profile ==
    /\ \E d \in {None} \cup {Some(x) : x \in ProfileDocs} : Accepts(d) /\ profile' = d
    /\ UNCHANGED <<pipelines, countries, table, links, geo>>

load_geo ==
    /\ geo' = GeoDatabase /\ geo # GeoDatabase
    /\ UNCHANGED <<pipelines, profile, countries, table, links>>

\* An inactive resolver gives no stamps at all.
resolve_geo_stamps(entries) ==
    IF geo = Inactive THEN << >> ELSE [i \in DOMAIN entries |-> resolve(geo, entries[i].host)]

\* Mutant: a name change makes a new row.
Upserted_by_name(rows, entry, stamp) ==
    LET known == {i \in DOMAIN rows : rows[i].entry = entry}
    IN  IF known = {} THEN Append(rows, [entry |-> entry, stamp |-> stamp]) ELSE rows

\* One upsert: a known fingerprint keeps its id and the facts the new row lacks.
Upserted(rows, entry, stamp) ==
    LET known == {i \in DOMAIN rows : fingerprint_of(rows[i].entry) = fingerprint_of(entry)}
    IN  IF known = {} THEN Append(rows, [entry |-> entry, stamp |-> stamp])
        ELSE [rows EXCEPT ![Value(known)] =
                 [entry |-> entry, stamp |-> IF stamp = None THEN @.stamp ELSE stamp]]

Stored(rows, entries, stamps) ==
    LET after[k \in 0 .. Len(entries)] ==
            IF k = 0 THEN rows ELSE Upserted(after[k - 1], entries[k], StampOf(stamps, k))
    IN  after[Len(entries)]

\* A live row that left the feed keeps its link, unless the gate and drop rules say otherwise.
Lingering(s) ==
    IF DropGate /\ from_json(pipelines[s]).drop # << >> THEN {}
    ELSE {fp \in links[s] : StatusOf[table[IdOf(fp)].entry.host] \in {"alive", "ready"}}

ingest_source(s, feed) ==
    LET kept == drop_entries_with_geo(from_json(pipelines[s]).drop, feed, resolve_geo_stamps(feed))
    IN  /\ table' = Stored(table, kept.entries, kept.stamps)
        /\ links' = [links EXCEPT ![s] =
                        {fingerprint_of(e) : e \in Ranged(kept.entries)} \cup Lingering(s)]
        /\ UNCHANGED <<pipelines, profile, countries, geo>>

ServeNext ==
    \/ \E s \in Sources : save_source(s) \/ \E f \in MemberFeeds[s] : ingest_source(s, f)
    \/ save_profile
    \/ load_geo

ServeSpec == ServeInit /\ [][ServeNext]_serveVars

-----------------------------------------------------------------------------
(* render_sub: what /sub/{token} answers in this state. *)

Merged(s) == merge_configs(pipelines[s], profile)

rows_to_candidates(s) ==
    LET linked == {i \in DOMAIN table : fingerprint_of(table[i].entry) \in links[s]}
        candidate(row) ==
            [entry |-> row.entry, position |-> s,
             status |-> StatusOf[row.entry.host], latency |-> LatencyOf[row.entry.host],
             country |-> IF row.stamp = None THEN "" ELSE Value(row.stamp).country,
             asn |-> StampedAsn(row.stamp)]
    IN  [k \in 1 .. Cardinality(linked) |-> candidate(Entries(table, linked)[k])]

\* Only confirmed countries pass an allowlist.
Allowed(candidates) ==
    IF countries = {} THEN candidates
    ELSE Entries(candidates, {i \in DOMAIN candidates : candidates[i].country \in countries})

Contribution(s) == apply(from_json(Merged(s)), Allowed(rows_to_candidates(s)), geo)

\* The sort of the first member that has one, unless the profile has its own.
Sorting == {s \in Sources : SortExplicit(Merged(s))}
source_sort ==
    IF SortExplicit(profile) \/ Sorting = {} THEN None
    ELSE LET first == CHOOSE s \in Sorting : \A t \in Sorting : s <= t
         IN  IF SortExplicit(pipelines[first]) THEN Some(Value(pipelines[first]).sort) ELSE None

\* The profile's document with that sort put in; {} stays without a version.
finalize_config ==
    LET base == IF profile = None THEN [version |-> 1] ELSE Value(profile)
    IN  Some([k \in DOMAIN base \cup {x \in {"sort"} : source_sort # None} |->
                 IF k = "sort" /\ source_sort # None THEN Value(source_sort) ELSE base[k]])

Corrupted == ~Accepts(finalize_config) \/ ~Accepts(profile) \/ \E s \in Sources : ~Accepts(Merged(s))

Concatenated ==
    LET upto[n \in 0 .. Cardinality(Sources)] ==
            IF n = 0 THEN << >> ELSE upto[n - 1] \o Contribution(n)
    IN  upto[Cardinality(Sources)]

render_sub == finalize(from_json(finalize_config), Concatenated)

\* Mutant: the source's pipeline is not asked.
render_src_plain(s) ==
    Entries(rows_to_candidates(s), {i \in DOMAIN rows_to_candidates(s) :
                                  rows_to_candidates(s)[i].status \in {"alive", "ready"}})

\* /src/{id}: the live rows of one source, under its own pipeline.
render_src(s) ==
    LET all == rows_to_candidates(s)
        live == {i \in DOMAIN all : all[i].status \in {"alive", "ready"}}
    IN  apply(from_json(pipelines[s]), Entries(all, live), geo)

-----------------------------------------------------------------------------
(* What must hold. *)

\* Dropping entries before they are stored never shifts the geo facts of the others onto
\* another host (pipeline.rs drop_entries_with_geo, ingest.rs apply_drop_rules).
StampsBelongToHosts == \A r \in RowsOf : r.stamp \subseteq resolve(GeoDatabase, r.entry.host)

\* The list /sub answers is what its members contribute: no fingerprint twice, the earliest
\* member's version of it, ordered by the winning sort, cut by the profile's cap alone, and a
\* cut leaves nothing out that sorts before something kept (serve.rs render_sub, pipeline.rs
\* finalize).
Offered == UNION {Ranged(Contribution(s)) : s \in Sources}
Prints(candidates) == {fingerprint_of(c.entry) : c \in candidates}
Outranks(sort, c, d) ==
    IF sort.desc /\ sort.by # "latency" THEN SortKey(sort, c) > SortKey(sort, d)
    ELSE SortKey(sort, c) < SortKey(sort, d)

OutputMatchesMembers ==
    LET out == render_sub
        pipe == from_json(finalize_config)
        offered == Offered
        winners == {c \in offered : \A d \in offered :
                        fingerprint_of(d.entry) = fingerprint_of(c.entry) => c.position <= d.position}
    IN  ~Corrupted =>
        /\ Cardinality(Prints(Ranged(out))) = Len(out)
        /\ Ranged(out) \subseteq winners
        /\ \/ Len(out) = Cardinality(Prints(offered))
           \/ Some(Len(out)) = pipe.limit.count /\ Len(out) < Cardinality(Prints(offered))
        /\ \A i, j \in DOMAIN out : i < j => ~Outranks(pipe.sort, out[j], out[i])
        /\ \A c \in winners \ Ranged(out) : \A d \in Ranged(out) : ~Outranks(pipe.sort, c, d)

\* The two endpoints agree: while no cap and no profile rule is set, what /src lists of a source
\* is in the subscription too, whichever candidate stands for it there (serve.rs render_src).
SrcIsWithinSub ==
    profile = None /\ countries = {} /\ (\A s \in Sources : from_json(pipelines[s]).limit.count = None) =>
        \A s \in Sources : Prints(Ranged(render_src(s))) \subseteq Prints(Ranged(render_sub))

\* Both endpoints answer what the members contribute, under the facts of each entry's own host.
SubscriptionMatchesMembers == StampsBelongToHosts /\ OutputMatchesMembers /\ SrcIsWithinSub

\* What an ingest links is what serving delivers under the same drop rules, whatever the
\* renames make of it afterwards: both sides judge the values of the feed.
Delivered(pipe, row, facts) ==
    apply_per_source([Default EXCEPT !.drop = pipe.drop, !.rename = pipe.rename, !.health = << >>,
                                     !.filter.forbid_insecure = FALSE],
                     <<[entry |-> row.entry, position |-> 1, status |-> "alive", latency |-> None,
                        country |-> "", asn |-> StampedAsn(row.stamp)]>>,
                     facts) # << >>

\* Whatever an ingest adds to a source's links, serving that source under the
\* same document delivers (ingest.rs drop rules, apply_per_source).
IngestAgreesWithServing ==
    [][\A s \in Sources : \A fp \in links'[s] \ links[s] :
          \E r \in Ranged(table') : fingerprint_of(r.entry) = fp /\ Delivered(from_json(pipelines[s]), r, geo)]_serveVars

\* Not a property of this code (README, section 6).
\* pipeline.rs from_json: "NULL and {} mean pass-through with defaults"; what
\* the forms accepted is served, never answered as a corrupted pipeline (serve.rs corrupted_pipeline).
SavedConfigsServe == ~Corrupted
=============================================================================
