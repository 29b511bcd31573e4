---------------------------- MODULE PipelineRules ----------------------------
(***************************************************************************)
(* The processing pipeline of fumox-server (pipeline.rs): what a stored    *)
(* configuration must look like, what it compiles to, how a profile's      *)
(* configuration overrides a source's, and what the compiled steps do to   *)
(* the proxies of one source.                                              *)
(*                                                                         *)
(* A JSON document is a record whose fields are the keys it has; an        *)
(* optional value is None or Some(value).  Texts are members of small      *)
(* sets: a pattern stands for the values it matches, and replacing what it *)
(* matches gives the replacement.                                          *)
(***************************************************************************)
EXTENDS Integers, Sequences, FiniteSets, Positions

CONSTANTS Hits,       \* [pattern -> the values it matches]; the rest do not compile
          Collation,  \* [value -> rank of its lower-case form]
          HostNames,  \* values that may stand in a URI as a host
          Ports       \* values that parse as a port

ASSUME PatternAssumption == \A p \in DOMAIN Hits : Hits[p] \subseteq DOMAIN Collation
ASSUME CollationAssumption == \A v \in DOMAIN Collation : Collation[v] \in Nat

None == {}
Some(v) == {v}
Value(o) == CHOOSE v \in o : TRUE
Ranged(list) == {list[i] : i \in DOMAIN list}

NoText == ""
Schemes == {"vless", "ss"}
SortBy == {"source", "name", "country", "latency"}
AllStatuses == <<"unknown", "alive", "ready", "quarantine", "removed">>
default_exclude_statuses == <<"quarantine", "removed">>
DefaultTemplate == "{flag} {country} · {name}"

-----------------------------------------------------------------------------
(* Configurations. *)

Sections == {"filter", "rename", "drop", "geo", "health", "dedup", "sort", "limit"}
Empty == [k \in {} |-> None]
Has(doc, section) == section \in DOMAIN doc

FilterDefaults == [protocols |-> None, exclude_protocols |-> None, asns |-> None,
                   exclude_asns |-> None, forbid_insecure |-> TRUE]
GeoDefaults == [enabled |-> TRUE, template |-> DefaultTemplate]
SortDefaults == [by |-> "source", desc |-> FALSE]
NoCap == [typed |-> TRUE, count |-> None]

\* What serde accepts: known keys, a version, and a cap that is a number or null.
Structured(doc) ==
    /\ DOMAIN doc \subseteq Sections \cup {"version"}
    /\ Has(doc, "version")
    /\ Has(doc, "limit") => doc.limit.typed
    /\ Has(doc, "sort") => doc.sort.by \in SortBy

RenameTargets == {"name", "host", "port", "param"}

\* A rule selects by a pattern that compiles, on a target it knows.
RuleCompiles(rule) == rule.match \in DOMAIN Hits /\ rule.target \in RenameTargets

Listed(option) == IF option = None THEN {} ELSE Value(option)
AsnsParse(option) == \A a \in Listed(option) : a \in Nat

DropCompiles(rule) ==
    IF rule.target = "asn"
    THEN rule.match = NoText /\ Listed(rule.asns) # {} /\ AsnsParse(rule.asns)
    ELSE rule.asns = None /\ RuleCompiles(rule)

\* The sections a field-level issue is reported for.
Issues(doc) ==
    {k \in DOMAIN doc :
        CASE k = "version" -> doc.version # 1
          [] k = "filter" -> \/ ~(Listed(doc.filter.protocols) \subseteq Schemes)
                             \/ ~(Listed(doc.filter.exclude_protocols) \subseteq Schemes)
                             \/ ~AsnsParse(doc.filter.asns) \/ ~AsnsParse(doc.filter.exclude_asns)
          [] k = "rename" -> \E r \in Ranged(doc.rename) : ~RuleCompiles(r)
          [] k = "drop" -> \E r \in Ranged(doc.drop) : ~DropCompiles(r)
          [] k = "geo" -> doc.geo.template = NoText
          [] k = "health" -> ~(Ranged(doc.health) \subseteq Ranged(AllStatuses))
          [] k = "dedup" -> doc.dedup # "fingerprint"
          [] k = "limit" -> doc.limit.count # None /\ Value(doc.limit.count) < 1
          [] OTHER -> FALSE}

\* NULL and {} are pass-through; everything else is validated.
Accepts(option) ==
    \A doc \in option : doc = Empty \/ (Structured(doc) /\ Issues(doc) = {})

Default == [filter |-> FilterDefaults, rename |-> << >>, drop |-> << >>, geo |-> GeoDefaults,
            health |-> default_exclude_statuses, sort |-> SortDefaults, limit |-> NoCap]

\* A compiled pipeline: each section of an accepted document, or its default.
from_json(option) ==
    [k \in DOMAIN Default |->
        IF option # None /\ Has(Value(option), k) THEN Value(option)[k] ELSE Default[k]]

SortExplicit(option) == option # None /\ Has(Value(option), "sort")

\* The profile's sections replace the source's.
merge_configs(source, profile) ==
    IF source = None THEN profile
    ELSE IF profile = None THEN source
    ELSE LET s == Value(source)
             p == Value(profile)
         IN  Some([k \in DOMAIN s \cup DOMAIN p |-> IF Has(p, k) THEN p[k] ELSE s[k]])

-----------------------------------------------------------------------------
(* The steps.  A candidate is one stored row: its entry, its place in the  *)
(* profile, its status, latency and stored geo facts.  Parameters are kept *)
(* in order; `key` is compared without case in the code.                   *)

\* geo: what the resolver answers, [host -> None or Some([country, asn])].
Inactive == [h \in {} |-> None]
resolve(geo, host) == IF host \in DOMAIN geo THEN geo[host] ELSE None

IsInsecure(entry) == \E p \in Ranged(entry.params) : p.key = "insecure" /\ p.value = "1"

\* What a rule's target reads: of the parameters, any with the key.
Targeted(entry, target) ==
    CASE target = "name" -> {entry.name}
      [] target = "host" -> {entry.host}
      [] target = "port" -> {entry.port}
      [] target = "param" -> {p.value : p \in {q \in Ranged(entry.params) : q.key = "path"}}

matches_target(entry, rule) == Targeted(entry, rule.target) \cap Hits[rule.match] # {}

DropHits(rule, entry, asn) ==
    IF rule.target = "asn" THEN asn \cap Value(rule.asns) # {} ELSE matches_target(entry, rule)

Dropped(drop, entry, asn) == \E r \in Ranged(drop) : DropHits(r, entry, asn)

\* Stamps may be fewer than entries; an entry without one keeps its ASN rules unapplied.
StampOf(stamps, i) == IF i \in DOMAIN stamps THEN stamps[i] ELSE None
StampedAsn(stamp) == UNION {g.asn : g \in stamp}

drop_survivors(drop, entries, stamps) ==
    {i \in DOMAIN entries : ~Dropped(drop, entries[i], StampedAsn(StampOf(stamps, i)))}

\* Mutant: the stamps stay behind.
drop_entries_with_geo_alone(drop, entries, stamps) ==
    [entries |-> Entries(entries, drop_survivors(drop, entries, stamps)), stamps |-> stamps]

\* Entries and stamps leave together: reconcile pairs them by index.
drop_entries_with_geo(drop, entries, stamps) ==
    IF drop = << >> THEN [entries |-> entries, stamps |-> stamps]
    ELSE LET kept == drop_survivors(drop, entries, stamps)
         IN  [entries |-> Entries(entries, kept),
              stamps |-> Entries([i \in DOMAIN entries |-> StampOf(stamps, i)], kept)]

Rewritten(rule, value) == IF value \in Hits[rule.match] THEN rule.replace ELSE value

\* The first parameter with the key is the one rewritten.
FirstParam(entry) ==
    {i \in DOMAIN entry.params : /\ entry.params[i].key = "path"
                                 /\ \A j \in 1 .. i - 1 : entry.params[j].key # "path"}

RewrittenParams(entry, rule) ==
    [i \in DOMAIN entry.params |->
        IF i \in FirstParam(entry) THEN [entry.params[i] EXCEPT !.value = Rewritten(rule, @)]
        ELSE entry.params[i]]

\* A rewrite that would break the address is skipped.
apply_rename_rule(entry, rule) ==
    CASE rule.target = "name" -> [entry EXCEPT !.name = Rewritten(rule, @)]
      [] rule.target = "host" ->
            [entry EXCEPT !.host = IF Rewritten(rule, @) \in HostNames THEN Rewritten(rule, @) ELSE @]
      [] rule.target = "port" ->
            [entry EXCEPT !.port = IF Rewritten(rule, @) \in Ports THEN Rewritten(rule, @) ELSE @]
      [] rule.target = "param" -> [entry EXCEPT !.params = RewrittenParams(entry, rule)]

\* The rules apply in order.
Renamed(rules, entry) ==
    LET after[k \in 0 .. Len(rules)] ==
            IF k = 0 THEN entry ELSE apply_rename_rule(after[k - 1], rules[k])
    IN  after[Len(rules)]

KeptByFilter(filter, c) ==
    /\ filter.protocols # None => c.entry.scheme \in Value(filter.protocols)
    /\ c.entry.scheme \notin Listed(filter.exclude_protocols)

\* A stored ASN is never overwritten; a missing one is asked for.
fill_missing_asns(c, geo) ==
    IF c.asn # None THEN c ELSE [c EXCEPT !.asn = StampedAsn(resolve(geo, c.entry.host))]

\* An allowlist needs a confirmed number, an exclusion only removes confirmed ones.
KeptByAsn(filter, c) ==
    /\ filter.asns # None => c.asn \cap Value(filter.asns) # {}
    /\ c.asn \cap Listed(filter.exclude_asns) = {}

\* The template puts the country before whatever name the renames left, for the host they left.
Enriched(pipe, c, geo) ==
    IF ~pipe.geo.enabled \/ resolve(geo, c.entry.host) = None THEN c
    ELSE LET info == Value(resolve(geo, c.entry.host))
         IN  [c EXCEPT !.entry.prefix = info.country, !.country = info.country]

\* The steps every candidate passes, in the code's order: filter, ASN, insecure, drop; then
\* rename and enrich; then health.
Survives(pipe, c) ==
    /\ KeptByFilter(pipe.filter, c) /\ KeptByAsn(pipe.filter, c)
    /\ pipe.filter.forbid_insecure => ~IsInsecure(c.entry)
    /\ ~Dropped(pipe.drop, c.entry, c.asn)
    /\ c.status \notin Ranged(pipe.health)

\* Mutant: the rules see renamed values.
apply_per_source_renames_first(pipe, candidates, geo) ==
    LET renamed == [i \in DOMAIN candidates |-> [candidates[i] EXCEPT !.entry = Renamed(pipe.rename, @)]]
        kept == {i \in DOMAIN renamed : Survives(pipe, fill_missing_asns(renamed[i], geo))}
    IN  Entries(renamed, kept)

apply_per_source(pipe, candidates, geo) ==
    LET filled == [i \in DOMAIN candidates |-> fill_missing_asns(candidates[i], geo)]
        kept == {i \in DOMAIN filled : Survives(pipe, filled[i])}
        renamed(c) == [c EXCEPT !.entry = Renamed(pipe.rename, @)]
    IN  [k \in 1 .. Cardinality(kept) |-> Enriched(pipe, renamed(Entries(filled, kept)[k]), geo)]

\* The entry without its name: what deduplication compares.
fingerprint_of(entry) == <<entry.scheme, entry.host, entry.port, Ranged(entry.params)>>

\* Mutant: the last occurrence wins.
Dedup_last(s) ==
    Entries(s, {i \in DOMAIN s : \A j \in i + 1 .. Len(s) : fingerprint_of(s[j].entry) # fingerprint_of(s[i].entry)})

\* The first occurrence wins.
Dedup(s) ==
    Entries(s, {i \in DOMAIN s : \A j \in 1 .. i - 1 : fingerprint_of(s[j].entry) # fingerprint_of(s[i].entry)})

\* A large number: rows without a latency sort after every row with one.
Unmeasured == 1000
NameRank(entry) == 100 * Collation[entry.prefix] + Collation[entry.name]

SortKey(sort, c) ==
    CASE sort.by = "source" -> c.position
      [] sort.by = "name" -> NameRank(c.entry)
      [] sort.by = "country" -> Collation[c.country]
      [] sort.by = "latency" -> IF c.latency = None THEN Unmeasured
                                ELSE IF sort.desc THEN - Value(c.latency) ELSE Value(c.latency)

\* The stable order by key.
Sorted(s, key) ==
    LET Before(i, j) == key[i] < key[j] \/ (key[i] = key[j] /\ i < j)
    IN  [k \in DOMAIN s |->
            s[CHOOSE i \in DOMAIN s : Cardinality({j \in DOMAIN s : Before(j, i)}) = k - 1]]

Reversed(s) == [i \in DOMAIN s |-> s[Len(s) + 1 - i]]

\* A descending order is the ascending one turned round, except by latency.
SortedBy(sort, s) ==
    LET ordered == Sorted(s, [i \in DOMAIN s |-> SortKey(sort, s[i])])
    IN  IF sort.desc /\ sort.by # "latency" THEN Reversed(ordered) ELSE ordered

Truncated(limit, s) ==
    IF limit.count = None \/ Len(s) <= Value(limit.count) THEN s
    ELSE SubSeq(s, 1, Value(limit.count))

finalize(pipe, s) == Truncated(pipe.limit, SortedBy(pipe.sort, Dedup(s)))

apply(pipe, candidates, geo) == finalize(pipe, apply_per_source(pipe, candidates, geo))
=============================================================================
