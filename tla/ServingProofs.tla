----------------------------- MODULE ServingProofs -----------------------------
(***************************************************************************)
(* What is proved of Subscription, for every profile, feed, configuration  *)
(* and geo database.                                                       *)
(*                                                                         *)
(* ServeInv says that the table is keyed by fingerprint, that a row's      *)
(* stamp is what the database says of its own host (and nothing before the *)
(* database is loaded), that links name rows and that what the forms saved *)
(* validates.  It is kept by an ingest because the loop over a feed keeps  *)
(* it upsert by upsert (StoredKeeps), which needs that dropping entries    *)
(* takes their stamps along (DropKeepsPairs).                              *)
(*                                                                         *)
(* From it follow, by what each step of a render makes of a list, the      *)
(* answers of /sub and /src.                                               *)
(***************************************************************************)
EXTENDS MCEntries, PositionsProofs

-----------------------------------------------------------------------------
(* Ingest: what one upsert, and a feed of them, make of the table.          *)

\* A row whose stamp is what the database says of its host, and which has
\* none while nothing was ever resolved.
LawfulRow(g) == {r \in Row : r.stamp \subseteq resolve(GeoDatabase, r.entry.host) /\ (g = Inactive => r.stamp = None)}

\* No fingerprint stands in the table twice.
KeyedRows(rows) == \A i, j \in DOMAIN rows :
                  fingerprint_of(rows[i].entry) = fingerprint_of(rows[j].entry) => i = j

\* Value opens an option that is not empty.
LEMMA ValueOf == /\ \A o : o # {} => Value(o) \in o
                 /\ \A x : Value({x}) = x
BY DEF Value

\* An entry and its stamp under the resolver g.
LawfulPair(e, stamp, g) == /\ e \in FeedEntries
                           /\ stamp = resolve(g, e.host)
                           /\ g \in {Inactive, GeoDatabase}

\* Nothing is resolved while the resolver is inactive.
LEMMA InactiveResolvesNothing == \A h : resolve(Inactive, h) = None
BY DEF resolve, Inactive

\* What a resolver answers is what the database says, or nothing.
LEMMA ResolvedIsFact ==
  ASSUME NEW g \in {Inactive, GeoDatabase}, NEW h
  PROVE  /\ resolve(g, h) \subseteq resolve(GeoDatabase, h)
         /\ resolve(g, h) \in SUBSET (UNION Ranged(GeoDatabase))
         /\ IsOption(resolve(g, h))
         /\ \A x \in resolve(g, h) : x.country \in Values /\ x.asn \in SUBSET Nat
<1>1. resolve(Inactive, h) = {}
  BY InactiveResolvesNothing DEF None
<1>2. ASSUME h \in DOMAIN GeoDatabase
      PROVE  /\ resolve(GeoDatabase, h) = GeoDatabase[h]
             /\ GeoDatabase[h] \in SUBSET (UNION Ranged(GeoDatabase))
             /\ IsOption(GeoDatabase[h])
             /\ \A x \in GeoDatabase[h] : x.country \in Values /\ x.asn \in SUBSET Nat
  <2>1. GeoDatabase[h] \in Ranged(GeoDatabase)
    BY <1>2 DEF Ranged
  <2> QED  BY <1>2, <2>1, GeoAssumption DEF resolve
<1>3. ASSUME h \notin DOMAIN GeoDatabase
      PROVE  resolve(GeoDatabase, h) = {}
  BY <1>3 DEF resolve, None
<1> QED  BY <1>1, <1>2, <1>3 DEF IsOption

\* One upsert keeps the table keyed and lawful, puts the entry into it and
\* leaves the rows of other fingerprints alone.
LEMMA UpsertKeeps ==
  ASSUME NEW g, NEW rows \in Seq(LawfulRow(g)), NEW e, NEW stamp, LawfulPair(e, stamp, g)
  PROVE  LET new == Upserted(rows, e, stamp)
         IN  /\ new \in Seq(LawfulRow(g))
             /\ \A r \in Ranged(rows) : \E q \in Ranged(new) : fingerprint_of(q.entry) = fingerprint_of(r.entry)
             /\ \E q \in Ranged(new) : fingerprint_of(q.entry) = fingerprint_of(e)
             /\ KeyedRows(rows) =>
                   /\ KeyedRows(new)
                   /\ \A q \in Ranged(new) : q.entry = e \/ (q \in Ranged(rows) /\ fingerprint_of(q.entry) # fingerprint_of(e))
<1> DEFINE new == Upserted(rows, e, stamp)
           known == {i \in DOMAIN rows : fingerprint_of(rows[i].entry) = fingerprint_of(e)}
           L == LawfulRow(g)
           fp(r) == fingerprint_of(r.entry)
<1>0. /\ Len(rows) \in Nat /\ DOMAIN rows = 1..Len(rows)
      /\ \A i \in 1..Len(rows) : rows[i] \in L
  OBVIOUS
<1>1. [entry |-> e, stamp |-> stamp] \in L
  <2>1. stamp \subseteq resolve(GeoDatabase, e.host) /\ stamp \in SUBSET (UNION Ranged(GeoDatabase))
    BY ResolvedIsFact DEF LawfulPair
  <2>2. g = Inactive => stamp = None
    BY InactiveResolvesNothing DEF LawfulPair
  <2>3. e \in FeedEntries
    BY DEF LawfulPair
  <2> QED  BY <2>1, <2>2, <2>3 DEF LawfulRow, Row
<1>2. CASE known = {}
  <2>1. new = Append(rows, [entry |-> e, stamp |-> stamp])
    BY <1>2 DEF Upserted, None
  <2> DEFINE row == [entry |-> e, stamp |-> stamp]
  <2>2. row \in L /\ row.entry = e
    BY <1>1
  <2> HIDE DEF row, L
  <2>3. /\ new \in Seq(L) /\ Len(new) = Len(rows) + 1 /\ DOMAIN new = 1..(Len(rows) + 1)
        /\ \A i \in 1..Len(rows) : new[i] = rows[i]
        /\ new[Len(rows) + 1] = row
    BY <2>1, <2>2, <1>0 DEF row
  <2>4. \A r \in Ranged(rows) : r \in Ranged(new)
    BY <1>0, <2>3 DEF Ranged
  <2>5. row \in Ranged(new)
    BY <1>0, <2>3 DEF Ranged
  <2>6. \A q \in Ranged(new) : q = row \/ q \in Ranged(rows)
    BY <1>0, <2>3 DEF Ranged
  <2>7. \A r \in Ranged(rows) : fp(r) # fingerprint_of(e)
    BY <1>2 DEF Ranged
  <2>8. KeyedRows(rows) => KeyedRows(new)
    <3> SUFFICES ASSUME KeyedRows(rows), NEW i \in DOMAIN new, NEW j \in DOMAIN new, fp(new[i]) = fp(new[j])
                 PROVE  i = j
      BY DEF KeyedRows
    <3>1. \A k \in 1..Len(rows) : fp(new[k]) # fingerprint_of(e)
      BY <1>0, <2>3, <2>7 DEF Ranged
    <3>2. fp(new[Len(rows) + 1]) = fingerprint_of(e)
      BY <2>2, <2>3
    <3>3. i \in 1..Len(rows) <=> j \in 1..Len(rows)
      BY <1>0, <2>3, <3>1, <3>2
    <3> QED  BY <1>0, <2>3, <3>3 DEF KeyedRows
  <2> QED  BY <2>2, <2>3, <2>4, <2>5, <2>6, <2>7, <2>8 DEF L
<1>3. CASE known # {}
  <2> DEFINE at == Value(known)
             row == [entry |-> e, stamp |-> IF stamp = None THEN rows[at].stamp ELSE stamp]
  <2>1. at \in 1..Len(rows) /\ fp(rows[at]) = fingerprint_of(e)
    BY <1>0, <1>3, ValueOf
  <2>2. new = [rows EXCEPT ![at] = row]
    BY <1>3 DEF Upserted, None
  <2>3. row \in L
    <3>1. rows[at] \in L /\ rows[at].entry.host = e.host
      <4>1. rows[at] \in L
        BY <1>0, <2>1
      <4> QED  BY <2>1, <4>1 DEF fingerprint_of
    <3> HIDE DEF at
    <3>2. CASE stamp = None
      BY <1>1, <3>1, <3>2 DEF LawfulRow, Row
    <3>3. CASE stamp # None
      BY <1>1, <3>3
    <3> QED  BY <3>2, <3>3
  <2>3a. row.entry = e
    OBVIOUS
  <2> HIDE DEF at, row, L, known
  <2>4. /\ new \in Seq(L) /\ DOMAIN new = 1..Len(rows)
        /\ \A i \in 1..Len(rows) : i # at => new[i] = rows[i]
        /\ new[at] = row
    BY <1>0, <2>1, <2>2, <2>3
  <2>5. \A i \in 1..Len(rows) : fp(new[i]) = fp(rows[i])
    BY <2>1, <2>3a, <2>4
  <2>6. \A r \in Ranged(rows) : \E q \in Ranged(new) : fp(q) = fp(r)
    BY <1>0, <2>4, <2>5 DEF Ranged
  <2>7. row \in Ranged(new) /\ fp(row) = fingerprint_of(e)
    BY <2>1, <2>3a, <2>4 DEF Ranged
  <2>8. KeyedRows(rows) => KeyedRows(new)
    BY <1>0, <2>4, <2>5 DEF KeyedRows
  <2>9. ASSUME KeyedRows(rows), NEW q \in Ranged(new)
        PROVE  q.entry = e \/ (q \in Ranged(rows) /\ fp(q) # fingerprint_of(e))
    <3>1. PICK i \in 1..Len(rows) : q = new[i]
      BY <2>4, <2>9 DEF Ranged
    <3>2. CASE i = at
      BY <2>3a, <2>4, <3>1, <3>2
    <3>3. CASE i # at
      <4>1. q = rows[i] /\ q \in Ranged(rows)
        BY <1>0, <2>4, <3>1, <3>3 DEF Ranged
      <4> QED  BY <1>0, <2>1, <2>9, <3>3, <4>1 DEF KeyedRows
    <3> QED  BY <3>2, <3>3
  <2> QED  BY <2>4, <2>6, <2>7, <2>8, <2>9 DEF L
<1> QED  BY <1>2, <1>3

\* The loop over a feed runs to its end.
LEMMA StoredRun ==
  ASSUME NEW g, NEW rows \in Seq(LawfulRow(g)), NEW S, NEW entries \in Seq(S), NEW stamps,
         \A k \in 1..Len(entries) : LawfulPair(entries[k], StampOf(stamps, k), g)
  PROVE  \E f \in [0..Len(entries) -> Seq(LawfulRow(g))] :
            /\ f[0] = rows
            /\ \A k \in 1..Len(entries) : f[k] = Upserted(f[k - 1], entries[k], StampOf(stamps, k))
            /\ Stored(rows, entries, stamps) = f[Len(entries)]
<1> DEFINE n == Len(entries)
           T == Seq(LawfulRow(g))
           Up(k, x) == Upserted(x, entries[k], StampOf(stamps, k))
           step == [k \in 1..n |-> [x \in T |-> Up(k, x)]]
           Whole(f) == f = [k \in 0..n |-> IF k = 0 THEN rows
                                           ELSE Upserted(f[k - 1], entries[k], StampOf(stamps, k))]
<1>0. n \in Nat
  OBVIOUS
<1>1. ASSUME NEW k \in 1..n, NEW x \in T
      PROVE  Up(k, x) \in T
  BY UpsertKeeps
<1> HIDE DEF T, Up
<1>2. step \in LoopBodies(n, T)
  BY <1>1 DEF LoopBodies
<1>3. PICK f \in [0..n -> T] : f[0] = rows /\ \A k \in 1..n : f[k] = step[k][f[k - 1]]
  <2>1. rows \in T
    BY DEF T
  <2> HIDE DEF step, n
  <2>2. PICK f : f \in Runs(n, T, rows, step)
    BY <1>0, <1>2, <2>1, RunExists
  <2> QED  BY <2>2 DEF Runs
<1>4. \A k \in 1..n : f[k - 1] \in T /\ f[k] = Up(k, f[k - 1])
  <2>1. \A k \in 1..n : k - 1 \in 0..n
    BY <1>0
  <2> QED  BY <1>3, <2>1
<1>5. f = [k \in 0..n |-> IF k = 0 THEN rows ELSE Up(k, f[k - 1])]
  <2>1. \A k \in 0..n : k = 0 \/ k \in 1..n
    BY <1>0
  <2> HIDE DEF n
  <2>2. \A k \in 0..n : f[k] = IF k = 0 THEN rows ELSE Up(k, f[k - 1])
    BY <1>3, <1>4, <2>1
  <2> QED  BY <1>3, <2>2
<1> DEFINE after == CHOOSE f_1 : Whole(f_1)
<1>6. Whole(after)
  <2>1. Whole(f)
    BY <1>5 DEF Up
  <2> HIDE DEF Whole
  <2> QED  BY <2>1, Zenon
<1>7. Stored(rows, entries, stamps) = after[n]
  BY Zenon DEF Stored
<1> HIDE DEF after
<1>8. after[0] = rows /\ \A k \in 1..n : after[k] = Up(k, after[k - 1])
  <2>1. 0 \in 0..n /\ \A k \in 1..n : k \in 0..n /\ k # 0
    BY <1>0
  <2> HIDE DEF n
  <2> QED  BY <1>6, <2>1 DEF Up
<1>9. \A k \in 0..n : after[k] \in T
  <2> DEFINE S0 == {k \in 0..n : after[k] \in T}
  <2>1. 0 \in S0
    BY <1>0, <1>8 DEF T
  <2>2. ASSUME NEW k \in 1..n, k - 1 \in S0
        PROVE  k \in S0
    BY <1>0, <1>1, <1>8, <2>2
  <2> HIDE DEF S0
  <2>3. \A k \in 0..n : k \in S0
    BY <1>0, <2>1, <2>2, SetInduction
  <2> QED  BY <2>3 DEF S0
<1>10. after \in [0..n -> T]
  <2> HIDE DEF n
  <2> QED  BY <1>6, <1>9
<1> QED  BY <1>7, <1>8, <1>10 DEF T, Up

\* What a feed makes of the table: it stays keyed and lawful, loses no
\* fingerprint, has every entry's fingerprint, and the row of such a
\* fingerprint shows an entry of the feed.
LEMMA StoredKeeps ==
  ASSUME NEW g, NEW rows \in Seq(LawfulRow(g)), NEW S, NEW entries \in Seq(S), NEW stamps, KeyedRows(rows),
         \A k \in 1..Len(entries) : LawfulPair(entries[k], StampOf(stamps, k), g)
  PROVE  LET new == Stored(rows, entries, stamps)
         IN  /\ new \in Seq(LawfulRow(g))
             /\ KeyedRows(new)
             /\ \A r \in Ranged(rows) : \E q \in Ranged(new) : fingerprint_of(q.entry) = fingerprint_of(r.entry)
             /\ \A k \in 1..Len(entries) : \E q \in Ranged(new) :
                   fingerprint_of(q.entry) = fingerprint_of(entries[k]) /\ \E j \in 1..Len(entries) : q.entry = entries[j]
<1> DEFINE n == Len(entries)
           fp(r) == fingerprint_of(r.entry)
<1>1. PICK f \in [0..n -> Seq(LawfulRow(g))] :
          /\ f[0] = rows
          /\ \A k \in 1..n : f[k] = Upserted(f[k - 1], entries[k], StampOf(stamps, k))
          /\ Stored(rows, entries, stamps) = f[n]
  BY StoredRun
<1> DEFINE HasPrint(k, x) == \E q \in Ranged(f[k]) : fp(q) = x
           P(k) == /\ KeyedRows(f[k])
                   /\ \A r \in Ranged(rows) : HasPrint(k, fp(r))
                   /\ \A j \in 1..k : HasPrint(k, fingerprint_of(entries[j]))
                   /\ \A q \in Ranged(f[k]) : \A j \in 1..k :
                         fp(q) = fingerprint_of(entries[j]) => \E i \in 1..k : q.entry = entries[i]
           S0 == {k \in 0..n : P(k)}
<1>0. n \in Nat
  OBVIOUS
<1> HIDE DEF n
<1>2. 0 \in S0
  <2>1. \A r \in Ranged(rows) : HasPrint(0, fp(r))
    BY <1>1
  <2>2. 1..0 = {} /\ 0 \in 0..n
    BY <1>0
  <2>3. KeyedRows(f[0])
    BY <1>1
  <2> HIDE DEF HasPrint, fp
  <2>4. P(0)
    BY <2>1, <2>2, <2>3
  <2> HIDE DEF P
  <2> QED  BY <2>2, <2>4
<1>3. ASSUME NEW k \in 1..n, k - 1 \in S0
      PROVE  k \in S0
  <2> DEFINE old == f[k - 1]
             new == f[k]
             e == entries[k]
  <2>1. k - 1 \in 0..n /\ k \in 0..n /\ P(k - 1) /\ old \in Seq(LawfulRow(g))
    <3> HIDE DEF P
    <3>1. k - 1 \in 0..n /\ k \in 0..n
      BY <1>0
    <3> QED  BY <1>1, <1>3, <3>1
  <2>2. LawfulPair(e, StampOf(stamps, k), g) /\ new = Upserted(old, e, StampOf(stamps, k))
    BY <1>1 DEF n
  <2>3. /\ \A r \in Ranged(old) : \E q \in Ranged(new) : fp(q) = fp(r)
        /\ \E q \in Ranged(new) : fp(q) = fingerprint_of(e)
        /\ KeyedRows(new)
        /\ \A q \in Ranged(new) : q.entry = e \/ (q \in Ranged(old) /\ fp(q) # fingerprint_of(e))
    BY <2>1, <2>2, UpsertKeeps
  <2>4. \A x : HasPrint(k - 1, x) => HasPrint(k, x)
    BY <2>3
  <2>5. \A j \in 1..k : j = k \/ j \in 1..(k - 1)
    BY <1>0
  <2>6. \A j \in 1..(k - 1) : j \in 1..k
    BY <1>0
  <2>7. \A j \in 1..k : HasPrint(k, fingerprint_of(entries[j]))
    BY <2>1, <2>3, <2>4, <2>5
  <2>8. ASSUME NEW q \in Ranged(new), NEW j \in 1..k, fp(q) = fingerprint_of(entries[j])
        PROVE  \E i \in 1..k : q.entry = entries[i]
    <3>0. k \in 1..k
      BY <1>0
    <3>1. CASE q.entry = e
      BY <3>0, <3>1
    <3>2. CASE q \in Ranged(old) /\ fp(q) # fingerprint_of(e)
      <4>1. j \in 1..(k - 1)
        BY <2>5, <2>8, <3>2
      <4>2. \E i \in 1..(k - 1) : q.entry = entries[i]
        BY <2>1, <2>8, <3>2, <4>1
      <4> QED  BY <2>6, <4>2
    <3> QED  BY <2>3, <3>1, <3>2
  <2>9. \A r \in Ranged(rows) : HasPrint(k, fp(r))
    BY <2>1, <2>4
  <2> HIDE DEF HasPrint
  <2> QED  BY <2>1, <2>3, <2>7, <2>8, <2>9
<1>4. \A k \in 0..n : k \in S0
  <2> HIDE DEF S0
  <2> QED  BY <1>0, <1>2, <1>3, SetInduction
<1>5. n \in 0..n
  BY <1>0
<1>6. P(n) /\ f[n] \in Seq(LawfulRow(g))
  BY <1>1, <1>4, <1>5
<1>7. ASSUME NEW k \in 1..n
      PROVE  \E q \in Ranged(f[n]) : fp(q) = fingerprint_of(entries[k]) /\ \E j \in 1..n : q.entry = entries[j]
  <2>1. PICK q \in Ranged(f[n]) : fp(q) = fingerprint_of(entries[k])
    BY <1>6
  <2>2. \E j \in 1..n : q.entry = entries[j]
    BY <1>6, <2>1
  <2> QED  BY <2>1, <2>2
<1> HIDE DEF S0
<1> QED  BY <1>1, <1>6, <1>7 DEF n

-----------------------------------------------------------------------------
(* The drop rules at ingest.                                                *)

\* The stamps of a feed are what the resolver answers for each host.
LEMMA StampsAreResolved ==
  ASSUME NEW feed, NEW i \in DOMAIN feed
  PROVE  StampOf(resolve_geo_stamps(feed), i) = resolve(geo, feed[i].host)
BY InactiveResolvesNothing DEF StampOf, resolve_geo_stamps

\* What the drop rules leave are entries of the feed, each with its own
\* stamp, that no rule hits under the facts of its host.
LEMMA DropKeepsPairs ==
  ASSUME NEW S, NEW feed \in Seq(S), NEW drop
  PROVE  LET kept == drop_entries_with_geo(drop, feed, resolve_geo_stamps(feed))
         IN  /\ kept.entries \in Seq(S)
             /\ \A k \in 1..Len(kept.entries) : \E i \in DOMAIN feed :
                   /\ kept.entries[k] = feed[i]
                   /\ StampOf(kept.stamps, k) = resolve(geo, feed[i].host)
                   /\ ~Dropped(drop, feed[i], StampedAsn(resolve(geo, feed[i].host)))
<1> DEFINE stamps == resolve_geo_stamps(feed)
           kept == drop_entries_with_geo(drop, feed, stamps)
           I == drop_survivors(drop, feed, stamps)
           facts == [i \in DOMAIN feed |-> StampOf(stamps, i)]
<1>0. /\ Len(feed) \in Nat /\ DOMAIN feed = 1..Len(feed) /\ feed \in [1..Len(feed) -> S]
      /\ \A i \in DOMAIN feed : StampOf(stamps, i) = resolve(geo, feed[i].host)
  BY StampsAreResolved
<1>1. CASE drop = << >>
  <2>1. kept.entries = feed /\ kept.stamps = stamps
    BY <1>1 DEF drop_entries_with_geo
  <2>2. \A e, asn : ~Dropped(drop, e, asn)
    BY <1>1 DEF Dropped, Ranged
  <2>3. kept.entries \in Seq(S) /\ \A k \in 1..Len(kept.entries) : k \in DOMAIN feed
    BY <1>0, <2>1
  <2> HIDE DEF kept, stamps
  <2> QED  BY <1>0, <2>1, <2>2, <2>3 DEF kept, stamps
<1>2. CASE drop # << >>
  <2>1. kept.entries = Entries(feed, I) /\ kept.stamps = Entries(facts, I)
    BY <1>2 DEF drop_entries_with_geo
  <2>2. I \in SUBSET DOMAIN feed /\ \A i \in I : ~Dropped(drop, feed[i], StampedAsn(resolve(geo, feed[i].host)))
    BY <1>0 DEF drop_survivors
  <2> DEFINE F == {facts[i] : i \in DOMAIN feed}
  <2>3. facts \in Seq(F) /\ DOMAIN facts = DOMAIN feed
    <3>1. facts \in [1..Len(feed) -> F]
      BY <1>0
    <3> HIDE DEF facts, F
    <3> QED  BY <1>0, <3>1
  <2>4. \A i \in DOMAIN feed : facts[i] = resolve(geo, feed[i].host)
    BY <1>0
  <2> HIDE DEF I, F, facts, stamps
  <2>5. /\ Cardinality(I) \in Nat
        /\ Entries(feed, I) \in Seq(S) /\ Len(Entries(feed, I)) = Cardinality(I)
        /\ \A k \in 1..Cardinality(I) : Entries(feed, I)[k] = feed[Ascending(I)[k]] /\ Ascending(I)[k] \in I
    BY <2>2, EntriesAreEntries
  <2>6. /\ Entries(facts, I) \in Seq(F) /\ Len(Entries(facts, I)) = Cardinality(I)
        /\ \A k \in 1..Cardinality(I) : Entries(facts, I)[k] = facts[Ascending(I)[k]]
    BY <2>2, <2>3, EntriesAreEntries
  <2>7. \A k \in 1..Cardinality(I) : StampOf(Entries(facts, I), k) = facts[Ascending(I)[k]]
    BY <2>5, <2>6 DEF StampOf
  <2>8. \A k \in 1..Cardinality(I) : Ascending(I)[k] \in DOMAIN feed
    BY <2>2, <2>5
  <2> HIDE DEF kept
  <2>9. ASSUME NEW k \in 1..Cardinality(I)
        PROVE  \E i \in DOMAIN feed :
                   /\ kept.entries[k] = feed[i]
                   /\ StampOf(kept.stamps, k) = resolve(geo, feed[i].host)
                   /\ ~Dropped(drop, feed[i], StampedAsn(resolve(geo, feed[i].host)))
    <3>1. Ascending(I)[k] \in DOMAIN feed /\ Ascending(I)[k] \in I
      BY <2>5, <2>8
    <3> QED  BY <2>1, <2>2, <2>4, <2>5, <2>7, <3>1
  <2> QED  BY <2>1, <2>5, <2>9 DEF kept, stamps
<1> QED  BY <1>1, <1>2

-----------------------------------------------------------------------------
(* The table and its links.                                                 *)

TableInv == table \in Seq(LawfulRow(geo)) /\ KeyedRows(table)

\* The entries of the feeds are what a parser gives.
LEMMA FeedEntriesParse == FeedEntries \subseteq ParsedEntry
<1> SUFFICES ASSUME NEW e \in FeedEntries PROVE e \in ParsedEntry
  OBVIOUS
<1>1. PICK fs \in Ranged(MemberFeeds) : \E h \in fs : e \in Ranged(h)
  BY DEF FeedEntries
<1>2. PICK h \in fs : e \in Ranged(h)
  BY <1>1
<1>3. PICK t \in Sources : fs = MemberFeeds[t]
  BY <1>1, FeedAssumption DEF Ranged
<1>4. h \in Seq(ParsedEntry)
  BY <1>2, <1>3, FeedAssumption
<1> QED  BY <1>2, <1>4 DEF Ranged

\* The entries of a payload are entries of the feeds.
LEMMA PayloadEntries ==
  ASSUME NEW s \in Sources, NEW f \in MemberFeeds[s]
  PROVE  f \in Seq(FeedEntries) /\ FeedEntries \subseteq ParsedEntry
<1>1. MemberFeeds[s] \in Ranged(MemberFeeds)
  BY FeedAssumption DEF Ranged
<1>2. \A i \in DOMAIN f : f[i] \in FeedEntries
  BY <1>1 DEF FeedEntries, Ranged
<1>3. f \in Seq(ParsedEntry)
  BY FeedAssumption
<1>4. FeedEntries \subseteq ParsedEntry
  BY FeedEntriesParse
<1>5. Len(f) \in Nat /\ DOMAIN f = 1..Len(f) /\ f = [i \in 1..Len(f) |-> f[i]]
  BY <1>3
<1>6. f \in [1..Len(f) -> FeedEntries]
  BY <1>2, <1>5
<1> QED  BY <1>4, <1>5, <1>6

\* One ingest: the new table, and where the new links come from.
LEMMA IngestKeeps ==
  ASSUME TableInv, geo \in {Inactive, GeoDatabase}, NEW s \in Sources, NEW f \in MemberFeeds[s], ingest_source(s, f)
  PROVE  /\ TableInv'
         /\ \A r \in Ranged(table) : \E q \in Ranged(table') : fingerprint_of(q.entry) = fingerprint_of(r.entry)
         /\ \E linked : links' = [links EXCEPT ![s] = linked \cup Lingering(s)] /\
               \A fp \in linked : \E q \in Ranged(table') :
                  /\ fingerprint_of(q.entry) = fp
                  /\ ~Dropped(from_json(pipelines[s]).drop, q.entry, StampedAsn(resolve(geo, q.entry.host)))
<1> DEFINE drop == from_json(pipelines[s]).drop
           kept == drop_entries_with_geo(drop, f, resolve_geo_stamps(f))
           linked == {fingerprint_of(e) : e \in Ranged(kept.entries)}
<1>1. /\ table' = Stored(table, kept.entries, kept.stamps)
      /\ links' = [links EXCEPT ![s] = linked \cup Lingering(s)]
      /\ geo' = geo
  BY DEF ingest_source
<1>2. f \in Seq(FeedEntries)
  BY PayloadEntries
<1>3. /\ kept.entries \in Seq(FeedEntries)
      /\ \A k \in 1..Len(kept.entries) : \E i \in DOMAIN f :
            /\ kept.entries[k] = f[i]
            /\ StampOf(kept.stamps, k) = resolve(geo, f[i].host)
            /\ ~Dropped(drop, f[i], StampedAsn(resolve(geo, f[i].host)))
  BY <1>2, DropKeepsPairs
<1> DEFINE entries == kept.entries
           stamps == kept.stamps
<1> HIDE DEF kept, drop
<1>4. \A k \in 1..Len(entries) : entries[k] \in FeedEntries
  BY <1>3
<1>5. \A k \in 1..Len(entries) :
         /\ LawfulPair(entries[k], StampOf(stamps, k), geo)
         /\ ~Dropped(drop, entries[k], StampedAsn(resolve(geo, entries[k].host)))
  BY <1>3, <1>4 DEF LawfulPair
<1> HIDE DEF entries, stamps
<1>6. /\ table' \in Seq(LawfulRow(geo))
      /\ KeyedRows(table')
      /\ \A r \in Ranged(table) : \E q \in Ranged(table') : fingerprint_of(q.entry) = fingerprint_of(r.entry)
      /\ \A k \in 1..Len(entries) : \E q \in Ranged(table') :
            fingerprint_of(q.entry) = fingerprint_of(entries[k]) /\ \E j \in 1..Len(entries) : q.entry = entries[j]
  <2>1. table' = Stored(table, entries, stamps) /\ entries \in Seq(FeedEntries)
    BY <1>1, <1>3 DEF entries, stamps
  <2>2. table \in Seq(LawfulRow(geo)) /\ KeyedRows(table)
    BY DEF TableInv
  <2> QED  BY <1>5, <2>1, <2>2, StoredKeeps
<1>7. TableInv'
  BY <1>1, <1>6 DEF TableInv, KeyedRows, LawfulRow
<1>8. ASSUME NEW fp \in linked
      PROVE  \E q \in Ranged(table') :
                  /\ fingerprint_of(q.entry) = fp
                  /\ ~Dropped(drop, q.entry, StampedAsn(resolve(geo, q.entry.host)))
  <2>1. entries \in Seq(FeedEntries)
    BY <1>3 DEF entries
  <2>2. PICK k \in 1..Len(entries) : fp = fingerprint_of(entries[k])
    BY <2>1 DEF Ranged, entries
  <2>3. PICK q \in Ranged(table') :
            fingerprint_of(q.entry) = fingerprint_of(entries[k]) /\ \E j \in 1..Len(entries) : q.entry = entries[j]
    BY <1>6
  <2> QED  BY <1>5, <2>2, <2>3
<1> HIDE DEF linked
<1> QED  BY <1>1, <1>6, <1>7, <1>8 DEF drop

\* Everything the proofs about serving use of a reachable state.
SavedAccepted == Accepts(profile) /\ \A s \in Sources : Accepts(pipelines[s])
ServeInv == SubscriptionTypeOK /\ TableInv /\ SavedAccepted

LEMMA ServeInitInv == ServeInit => ServeInv
<1> SUFFICES ASSUME ServeInit PROVE ServeInv
  OBVIOUS
<1>1. table = << >> /\ Ranged(table) = {} /\ table \in Seq(LawfulRow(geo)) /\ table \in Seq(Row)
  BY DEF ServeInit, Ranged
<1>2. \A s \in Sources : pipelines[s] = None
  BY DEF ServeInit
<1>3. pipelines \in [Sources -> Documents] /\ links \in [Sources -> SUBSET {fingerprint_of(r.entry) : r \in RowsOf}]
  <2>1. None \in Documents
    BY DEF Documents
  <2> QED  BY <2>1 DEF ServeInit
<1> QED  BY <1>1, <1>2, <1>3
     DEF ServeInit, ServeInv, SubscriptionTypeOK, TableInv, SavedAccepted, Accepts, None, KeyedRows, Documents

LEMMA ServeStepInv == ServeInv /\ [ServeNext]_serveVars => ServeInv'
<1> SUFFICES ASSUME ServeInv, [ServeNext]_serveVars PROVE ServeInv'
  OBVIOUS
<1> USE DEF ServeInv
<1>1. ASSUME NEW s \in Sources, save_source(s)
      PROVE  ServeInv'
  <2>1. PICK d \in {None} \cup {Some(x) : x \in SourceDocs[s]} : Accepts(d) /\ pipelines' = [pipelines EXCEPT ![s] = d]
    BY <1>1 DEF save_source
  <2>2. d \in Documents
    BY <2>1, DocumentAssumption DEF Documents, Documented, Ranged
  <2>3. UNCHANGED <<profile, countries, table, links, geo>>
    BY <1>1 DEF save_source
  <2>4. pipelines' \in [Sources -> Documents] /\ \A t \in Sources : Accepts(pipelines'[t])
    BY <2>1, <2>2 DEF SubscriptionTypeOK, SavedAccepted
  <2> QED  BY <2>3, <2>4 DEF SubscriptionTypeOK, TableInv, SavedAccepted, RowsOf
<1>2. CASE save_profile
  <2>1. PICK d \in {None} \cup {Some(x) : x \in ProfileDocs} : Accepts(d) /\ profile' = d
    BY <1>2 DEF save_profile
  <2>2. d \in Documents
    <3>1. CASE d = None
      BY <3>1 DEF Documents
    <3>2. CASE \E x \in ProfileDocs : d = Some(x)
      <4>1. PICK x \in ProfileDocs : d = Some(x)
        BY <3>2
      <4>2. x \in Documented
        BY <4>1 DEF Documented
      <4> QED  BY <4>1, <4>2 DEF Documents
    <3>3. d = None \/ \E x \in ProfileDocs : d = Some(x)
      BY <2>1, Zenon
    <3> QED  BY <3>1, <3>2, <3>3
  <2>3. UNCHANGED <<pipelines, countries, table, links, geo>>
    BY <1>2 DEF save_profile
  <2> QED  BY <2>1, <2>2, <2>3 DEF SubscriptionTypeOK, TableInv, SavedAccepted, RowsOf
<1>3. CASE load_geo
  <2>1. geo' = GeoDatabase /\ geo = Inactive /\ geo' # Inactive /\ UNCHANGED <<pipelines, profile, countries, table, links>>
    BY <1>3 DEF load_geo, SubscriptionTypeOK
  <2>2. LawfulRow(geo) \subseteq LawfulRow(geo')
    BY <2>1 DEF LawfulRow
  <2>3. table' \in Seq(LawfulRow(geo'))
    <3>1. Len(table) \in Nat /\ \A i \in 1..Len(table) : table[i] \in LawfulRow(geo)
      BY DEF TableInv
    <3>2. table \in [1..Len(table) -> LawfulRow(geo')]
      <4>1. table = [i \in 1..Len(table) |-> table[i]]
        BY DEF TableInv
      <4> QED  BY <2>2, <3>1, <4>1
    <3> QED  BY <2>1, <3>1, <3>2
  <2> QED  BY <2>1, <2>3 DEF SubscriptionTypeOK, TableInv, SavedAccepted, RowsOf
<1>4. ASSUME NEW s \in Sources, NEW f \in MemberFeeds[s], ingest_source(s, f)
      PROVE  ServeInv'
  <2>1. UNCHANGED <<pipelines, profile, countries, geo>>
    BY <1>4 DEF ingest_source
  <2>2. /\ TableInv'
        /\ \A r \in Ranged(table) : \E q \in Ranged(table') : fingerprint_of(q.entry) = fingerprint_of(r.entry)
    BY <1>4, IngestKeeps DEF SubscriptionTypeOK
  <2>3. PICK linked : links' = [links EXCEPT ![s] = linked \cup Lingering(s)] /\
           \A fp \in linked : \E q \in Ranged(table') :
              /\ fingerprint_of(q.entry) = fp
              /\ ~Dropped(from_json(pipelines[s]).drop, q.entry, StampedAsn(resolve(geo, q.entry.host)))
    BY <1>4, IngestKeeps DEF SubscriptionTypeOK
  <2> DEFINE prints == {fingerprint_of(r.entry) : r \in RowsOf}
             prints_1 == {fingerprint_of(r.entry) : r \in Ranged(table')}
  <2>4. prints \subseteq prints_1 /\ linked \subseteq prints_1
    BY <2>2, <2>3 DEF RowsOf
  <2>5. Lingering(s) \subseteq links[s]
    BY DEF Lingering
  <2>6. links \in [Sources -> SUBSET prints]
    BY DEF SubscriptionTypeOK
  <2>7. links' \in [Sources -> SUBSET prints_1]
    <3> HIDE DEF prints, prints_1
    <3> QED  BY <2>3, <2>4, <2>5, <2>6
  <2>8. table' \in Seq(Row)
    <3>1. table' \in Seq(LawfulRow(geo'))
      BY <2>2 DEF TableInv
    <3>2. LawfulRow(geo') \subseteq Row
      BY DEF LawfulRow
    <3>3. Len(table') \in Nat /\ table' \in [1..Len(table') -> Row]
      <4>1. table' = [i \in 1..Len(table') |-> table'[i]] /\ \A i \in 1..Len(table') : table'[i] \in LawfulRow(geo')
        BY <3>1
      <4> QED  BY <3>1, <3>2, <4>1
    <3> QED  BY <3>3
  <2>9. \A i, j \in DOMAIN table' : fingerprint_of(table'[i].entry) = fingerprint_of(table'[j].entry) => i = j
    BY <2>2 DEF TableInv, KeyedRows
  <2> QED  BY <2>1, <2>2, <2>7, <2>8, <2>9 DEF SubscriptionTypeOK, SavedAccepted, RowsOf
<1>5. CASE UNCHANGED serveVars
  BY <1>5 DEF serveVars, SubscriptionTypeOK, TableInv, SavedAccepted, RowsOf
<1> QED  BY <1>1, <1>2, <1>3, <1>4, <1>5 DEF ServeNext

\* The invariant, and with it the types: links name rows of the table, no
\* fingerprint has two rows, saved documents validate, and stamps are facts.
THEOREM ServeInvariant == ServeSpec => []ServeInv
BY ServeInitInv, ServeStepInv, PTL DEF ServeSpec

\* A row that no rule hits under the facts of its host is delivered: what its
\* stamp lacks is resolved again, what it has is never overwritten.
LEMMA UnhitIsDelivered ==
  ASSUME geo \in {Inactive, GeoDatabase}, NEW row \in LawfulRow(geo), NEW pipe,
         ~Dropped(pipe.drop, row.entry, StampedAsn(resolve(geo, row.entry.host)))
  PROVE  Delivered(pipe, row, geo)
<1> DEFINE P == [Default EXCEPT !.drop = pipe.drop, !.rename = pipe.rename, !.health = << >>,
                                !.filter.forbid_insecure = FALSE]
           c == [entry |-> row.entry, position |-> 1, status |-> "alive", latency |-> None,
                 country |-> "", asn |-> StampedAsn(row.stamp)]
           facts == StampedAsn(resolve(geo, row.entry.host))
           d == fill_missing_asns(c, geo)
           filled == [i \in DOMAIN <<c>> |-> fill_missing_asns(<<c>>[i], geo)]
           kept == {i \in DOMAIN filled : Survives(P, filled[i])}
<1>1. d.asn = facts /\ d.entry = row.entry /\ d.status = "alive"
  <2>1. CASE row.stamp = {}
    BY <2>1 DEF fill_missing_asns, StampedAsn, None
  <2>2. CASE row.stamp # {}
    <3>1. geo = GeoDatabase /\ row.stamp \subseteq resolve(GeoDatabase, row.entry.host)
      BY <2>2 DEF LawfulRow, None
    <3>2. IsOption(resolve(GeoDatabase, row.entry.host))
      BY ResolvedIsFact
    <3>3. row.stamp = resolve(GeoDatabase, row.entry.host)
      BY <2>2, <3>1, <3>2 DEF IsOption
    <3> QED  BY <3>1, <3>3 DEF fill_missing_asns
  <2> QED  BY <2>1, <2>2
<1>2. /\ P.drop = pipe.drop /\ P.health = << >>
      /\ P.filter.protocols = None /\ P.filter.exclude_protocols = None
      /\ P.filter.asns = None /\ P.filter.exclude_asns = None /\ P.filter.forbid_insecure = FALSE
  BY DEF Default, FilterDefaults
<1> HIDE DEF P, d
<1>3. Survives(P, d)
  BY <1>1, <1>2 DEF Survives, KeptByFilter, KeptByAsn, Listed, Ranged, None
<1>4. DOMAIN filled = {1} /\ filled[1] = d
  <2>1. DOMAIN <<c>> = {1} /\ <<c>>[1] = c
    <3> HIDE DEF c
    <3> QED  OBVIOUS
  <2> HIDE DEF c
  <2> QED  BY <2>1 DEF d
<1>5. kept = {1}
  BY <1>3, <1>4
<1>6. Cardinality(kept) = 1
  BY <1>5, FS_Singleton
<1>7. DOMAIN apply_per_source(P, <<c>>, geo) = 1..1
  BY <1>6, Zenon DEF apply_per_source
<1>8. apply_per_source(P, <<c>>, geo) # << >>
  <2> DEFINE out == apply_per_source(P, <<c>>, geo)
  <2>0. DOMAIN out = 1..1
    BY <1>7, Zenon
  <2> HIDE DEF out
  <2>1. 1 \in DOMAIN out
    BY <2>0
  <2>2. out # << >>
    BY <2>1
  <2> QED  BY <2>2 DEF out
<1> HIDE DEF c
<1>9. P = [Default EXCEPT !.drop = pipe.drop, !.rename = pipe.rename, !.health = << >>,
                          !.filter.forbid_insecure = FALSE]
  BY DEF P
<1>10. c = [entry |-> row.entry, position |-> 1, status |-> "alive", latency |-> None,
            country |-> "", asn |-> StampedAsn(row.stamp)]
  BY DEF c
<1> QED  BY <1>8, <1>9, <1>10, Zenon DEF Delivered

\* What a step of the panel adds to a source's links, serving delivers.
LEMMA NewLinksAreDelivered ==
  ASSUME ServeInv, [ServeNext]_serveVars, NEW s \in Sources, NEW fp \in links'[s] \ links[s]
  PROVE  \E r \in Ranged(table') : fingerprint_of(r.entry) = fp /\ Delivered(from_json(pipelines[s]), r, geo)
<1>1. links' # links
  OBVIOUS
<1>2. PICK t \in Sources : \E f \in MemberFeeds[t] : ingest_source(t, f)
  BY <1>1 DEF ServeNext, serveVars, save_source, save_profile, load_geo
<1>3. TableInv /\ geo \in {Inactive, GeoDatabase} /\ links \in [Sources -> SUBSET {fingerprint_of(r.entry) : r \in RowsOf}]
  BY DEF ServeInv, SubscriptionTypeOK
<1>4. TableInv' /\ geo' = geo
  BY <1>2, <1>3, IngestKeeps DEF ingest_source
<1>5. PICK linked : links' = [links EXCEPT ![t] = linked \cup Lingering(t)] /\
         \A x \in linked : \E q \in Ranged(table') :
            /\ fingerprint_of(q.entry) = x
            /\ ~Dropped(from_json(pipelines[t]).drop, q.entry, StampedAsn(resolve(geo, q.entry.host)))
  BY <1>2, <1>3, IngestKeeps
<1>6. s = t /\ fp \in linked
  <2>1. Lingering(t) \subseteq links[t]
    BY DEF Lingering
  <2> QED  BY <1>3, <1>5, <2>1
<1>7. PICK q \in Ranged(table') :
         /\ fingerprint_of(q.entry) = fp
         /\ ~Dropped(from_json(pipelines[s]).drop, q.entry, StampedAsn(resolve(geo, q.entry.host)))
  BY <1>5, <1>6
<1>8. q \in LawfulRow(geo)
  BY <1>4, <1>7 DEF TableInv, Ranged
<1>9. Delivered(from_json(pipelines[s]), q, geo)
  BY <1>3, <1>7, <1>8, UnhitIsDelivered
<1> QED  BY <1>7, <1>9

\* Whatever an ingest adds to a source's links, serving that source under the
\* same document delivers (ingest.rs drop rules, apply_per_source).
THEOREM IngestServesAlike == ServeSpec => IngestAgreesWithServing
<1>1. ServeInv /\ [ServeNext]_serveVars =>
        [\A s \in Sources : \A fp \in links'[s] \ links[s] :
            \E r \in Ranged(table') : fingerprint_of(r.entry) = fp /\ Delivered(from_json(pipelines[s]), r, geo)]_serveVars
  BY NewLinksAreDelivered
<1> QED  BY <1>1, ServeInvariant, PTL DEF ServeSpec, IngestAgreesWithServing

-----------------------------------------------------------------------------
(* Lists of candidates: deduplication, order and cap.                       *)

Candidate == [entry : ParsedEntry, position : Sources, status : {StatusOf[h] : h \in DOMAIN LatencyOf},
              latency : {LatencyOf[h] : h \in DOMAIN LatencyOf}, country : Values, asn : SUBSET Nat]

\* What a sort and a cap must be for a list to be ordered and cut by them.
SortOK(sort) == sort.by \in SortBy
LimitOK(limit) == limit.count = None \/ \E n \in Nat : limit.count = Some(n)

\* No fingerprint is in a list twice.
Distinct(s) == \A i, j \in DOMAIN s : fingerprint_of(s[i].entry) = fingerprint_of(s[j].entry) => i = j

\* Deduplication keeps of every fingerprint the first candidate, and no other.
LEMMA DedupKeepsFirsts ==
  ASSUME NEW s \in Seq(Candidate)
  PROVE  /\ Dedup(s) \in Seq(Candidate)
         /\ Distinct(Dedup(s))
         /\ Ranged(Dedup(s)) \subseteq Ranged(s)
         /\ Prints(Ranged(Dedup(s))) = Prints(Ranged(s))
         /\ \A c \in Ranged(Dedup(s)) : \E i \in DOMAIN s :
               c = s[i] /\ \A j \in DOMAIN s : fingerprint_of(s[j].entry) = fingerprint_of(c.entry) => i <= j
<1> DEFINE fp(i) == fingerprint_of(s[i].entry)
           D == DOMAIN s
           I == {i \in D : \A j \in 1 .. i - 1 : fp(j) # fp(i)}
           d == Dedup(s)
           m == Cardinality(I)
<1>1. Len(s) \in Nat /\ D = 1..Len(s) /\ D \subseteq Nat
  OBVIOUS
<1>2. d = Entries(s, I)
  BY DEF Dedup
<1>3. I \in SUBSET DOMAIN s
  OBVIOUS
<1>4. \A i \in I : \A j \in D : fp(j) = fp(i) => i <= j
  <2>1. \A i \in I, j \in D : i <= j \/ j \in 1 .. i - 1
    BY <1>1
  <2> QED  BY <2>1
<1> HIDE DEF d, I
<1>5. /\ IsFiniteSet(I) /\ m \in Nat /\ d \in Seq(Candidate) /\ Len(d) = m
      /\ \A k \in 1..m : d[k] = s[Ascending(I)[k]] /\ Ascending(I)[k] \in I
      /\ \A i \in I : Rank(I, i) \in 1..m /\ d[Rank(I, i)] = s[i]
  BY <1>2, <1>3, EntriesAreEntries
<1>5a. \A k, l \in 1..m : k < l => Ascending(I)[k] < Ascending(I)[l]
  BY <1>1, <1>3, <1>5, AscendingLists
<1> HIDE DEF m
<1>6. DOMAIN d = 1..m
  BY <1>5
<1>7. \A k, l \in 1..m : k < l => fingerprint_of(d[k].entry) # fingerprint_of(d[l].entry)
  <2> SUFFICES ASSUME NEW k \in 1..m, NEW l \in 1..m, k < l,
                      fingerprint_of(d[k].entry) = fingerprint_of(d[l].entry)
               PROVE  FALSE
    OBVIOUS
  <2> DEFINE i == Ascending(I)[k]
             j == Ascending(I)[l]
  <2>1. i \in I /\ j \in I /\ i < j /\ fp(i) = fp(j)
    BY <1>5, <1>5a
  <2> HIDE DEF i, j
  <2>2. j <= i /\ i \in Nat /\ j \in Nat
    BY <1>1, <1>3, <1>4, <2>1
  <2> QED  BY <2>1, <2>2
<1>8. Distinct(d)
  <2>1. \A k, l \in 1..m : k = l \/ k < l \/ l < k
    BY <1>5
  <2> QED  BY <1>6, <1>7, <2>1 DEF Distinct
<1>9. \A c \in Ranged(d) : \E i \in I : c = s[i]
  BY <1>5, <1>6 DEF Ranged
<1>10. \A i \in I : s[i] \in Ranged(d)
  BY <1>5, <1>6 DEF Ranged
<1>11. \A j \in D : \E i \in I : fp(i) = fp(j)
  <2> SUFFICES ASSUME NEW j \in D PROVE \E i \in I : fp(i) = fp(j)
    OBVIOUS
  <2> DEFINE T == {i \in D : fp(i) = fp(j)}
  <2>1. T \in SUBSET Nat /\ T # {}
    BY <1>1
  <2>2. PICK i \in T : \A x \in T : i <= x
    BY <2>1, LeastNat
  <2>3. \A x \in 1 .. i - 1 : x \in D /\ ~(i <= x)
    BY <1>1, <2>2
  <2>4. i \in I
    BY <2>2, <2>3 DEF I
  <2> QED  BY <2>2, <2>4
<1>12. Ranged(d) \subseteq Ranged(s)
  BY <1>3, <1>9 DEF Ranged
<1>13. Prints(Ranged(d)) = Prints(Ranged(s))
  <2>1. \A j \in D : \E c \in Ranged(d) : fingerprint_of(c.entry) = fp(j)
    BY <1>10, <1>11
  <2>2. \A c \in Ranged(s) : \E e \in Ranged(d) : fingerprint_of(e.entry) = fingerprint_of(c.entry)
    BY <2>1 DEF Ranged
  <2> QED  BY <1>12, <2>2 DEF Prints
<1>14. \A c \in Ranged(d) : \E i \in DOMAIN s :
               c = s[i] /\ \A j \in DOMAIN s : fingerprint_of(s[j].entry) = fingerprint_of(c.entry) => i <= j
  BY <1>3, <1>4, <1>9
<1> QED  BY <1>5, <1>8, <1>12, <1>13, <1>14 DEF d

\* A list with distinct fingerprints has as many as it has entries.
LEMMA DistinctPrints ==
  ASSUME NEW s \in Seq(Candidate), Distinct(s)
  PROVE  IsFiniteSet(Prints(Ranged(s))) /\ Cardinality(Prints(Ranged(s))) = Len(s)
<1> DEFINE n == Len(s)
           f == [i \in 1..n |-> fingerprint_of(s[i].entry)]
           P == Prints(Ranged(s))
<1>1. n \in Nat /\ DOMAIN s = 1..n
  OBVIOUS
<1> HIDE DEF n
<1>2. P = {fingerprint_of(s[i].entry) : i \in 1..n}
  BY <1>1 DEF Prints, Ranged
<1> HIDE DEF P
<1>3. f \in Bijection(1..n, P)
  <2>1. f \in [1..n -> P] /\ \A i, j \in 1..n : f[i] = f[j] => i = j
    BY <1>1, <1>2 DEF Distinct
  <2>2. \A p \in P : \E i \in 1..n : f[i] = p
    BY <1>2
  <2> HIDE DEF f
  <2> QED  BY <2>1, <2>2 DEF Bijection, Injection, Surjection, IsInjective
<1>4. IsFiniteSet(1..n) /\ Cardinality(1..n) = n
  BY <1>1, FS_Interval
<1>5. IsFiniteSet(P) /\ Cardinality(P) = n
  <2>1. ExistsBijection(1..n, P)
    BY <1>3, Zenon DEF ExistsBijection
  <2> QED  BY <1>4, <2>1, FS_Bijection
<1> QED  BY <1>5 DEF P, n

\* Every key a list is sorted by is a number.
LEMMA KeysAreNumbers ==
  ASSUME NEW sort, SortOK(sort), NEW c \in Candidate
  PROVE  SortKey(sort, c) \in Int
<1>1. c.position \in Int
  <2>1. c.position \in Sources
    BY DEF Candidate
  <2>2. \A n : 1..n \subseteq Int
    OBVIOUS
  <2> QED  BY <2>1, <2>2, SourceAssumption
<1>2. \A v \in Values : Collation[v] \in Int
  BY CollationAssumption DEF Values
<1>3. c.country \in Values /\ c.entry.prefix \in Values /\ c.entry.name \in Values
  BY DEF Candidate, ParsedEntry
<1>4. NameRank(c.entry) \in Int
  <2>1. Collation[c.entry.prefix] \in Int /\ Collation[c.entry.name] \in Int
    BY <1>2, <1>3
  <2>2. \A x, y \in Int : 100 * x + y \in Int
    OBVIOUS
  <2> QED  BY <2>1, <2>2 DEF NameRank
<1>5. c.latency = None \/ Value(c.latency) \in Int
  <2>1. PICK h \in DOMAIN LatencyOf : c.latency = LatencyOf[h]
    BY DEF Candidate
  <2> QED  BY <2>1, LatencyAssumption
<1>6. \A x \in Int : - x \in Int
  OBVIOUS
<1>7. CASE sort.by = "source"
  BY <1>1, <1>7 DEF SortKey
<1>8. CASE sort.by = "name"
  BY <1>4, <1>8 DEF SortKey
<1>9. CASE sort.by = "country"
  <2>1. Collation[c.country] \in Int
    BY <1>2, <1>3
  <2> QED  BY <1>9, <2>1 DEF SortKey
<1>10. CASE sort.by = "latency"
  <2>1. CASE c.latency = None
    BY <1>10, <2>1 DEF SortKey, Unmeasured
  <2>2. CASE c.latency # None
    <3>1. Value(c.latency) \in Int /\ - Value(c.latency) \in Int
      BY <1>5, <1>6, <2>2
    <3> QED  BY <1>10, <2>2, <3>1 DEF SortKey
  <2> QED  BY <2>1, <2>2
<1> QED  BY <1>7, <1>8, <1>9, <1>10 DEF SortOK, SortBy

\* The stable order is a permutation in the order of the keys.
LEMMA SortedPermutes ==
  ASSUME NEW S, NEW s \in Seq(S), NEW key \in [DOMAIN s -> Int]
  PROVE  \E p \in [DOMAIN s -> DOMAIN s] :
            /\ Sorted(s, key) = [k \in DOMAIN s |-> s[p[k]]]
            /\ \A i, j \in DOMAIN s : p[i] = p[j] => i = j
            /\ \A i \in DOMAIN s : \E k \in DOMAIN s : p[k] = i
            /\ \A k, l \in DOMAIN s : k < l => key[p[k]] <= key[p[l]]
<1> DEFINE D == DOMAIN s
           n == Len(s)
           Before(i, j) == key[i] < key[j] \/ (key[i] = key[j] /\ i < j)
           R == {r \in D \X D : Before(r[1], r[2])}
           at(k) == CHOOSE i \in D : Cardinality({j \in D : Before(j, i)}) = k - 1
           p == [k \in D |-> at(k)]
<1>1. n \in Nat /\ D = 1..n /\ D \subseteq Int /\ \A i \in D : key[i] \in Int
  OBVIOUS
<1>2. IsFiniteSet(D) /\ Cardinality(D) = n
  <2> HIDE DEF D, n
  <2>1. IsFiniteSet(1..n) /\ Cardinality(1..n) = n
    BY <1>1, FS_Interval
  <2> QED  BY <1>1, <2>1
<1>3. \A i, j \in D : <<i, j>> \in R <=> Before(i, j)
  OBVIOUS
<1>4. IsStrictOrder(R, D)
  <2>1. /\ \A i \in D : ~Before(i, i)
        /\ \A i, j, k \in D : Before(i, j) /\ Before(j, k) => Before(i, k)
        /\ \A i, j \in D : i = j \/ Before(i, j) \/ Before(j, i)
    <3> HIDE DEF D
    <3>1. \A i \in D : i \in Int /\ key[i] \in Int
      BY <1>1
    <3> QED  BY <3>1
  <2> HIDE DEF R, Before
  <2> QED  BY <1>3, <2>1 DEF IsStrictOrder
<1>5. \A i \in D : {j \in D : Before(j, i)} = Below(R, D, i)
  <2> HIDE DEF R, Before
  <2> QED  BY <1>3 DEF Below
<1>6. /\ \A i \in D : Cardinality(Below(R, D, i)) \in 0..(n - 1)
      /\ \A i, j \in D : Cardinality(Below(R, D, i)) = Cardinality(Below(R, D, j)) => i = j
      /\ \A k \in 0..(n - 1) : \E i \in D : Cardinality(Below(R, D, i)) = k
  <2> HIDE DEF R, D, n
  <2> QED  BY <1>2, <1>4, OrderRanks
<1>7. Sorted(s, key) = [k \in D |-> s[at(k)]]
  BY Zenon DEF Sorted
<1>8. \A k \in D : at(k) \in D /\ Cardinality(Below(R, D, at(k))) = k - 1
  <2> SUFFICES ASSUME NEW k \in D PROVE at(k) \in D /\ Cardinality(Below(R, D, at(k))) = k - 1
    OBVIOUS
  <2>1. k - 1 \in 0..(n - 1)
    BY <1>1
  <2> HIDE DEF R, Before, n, D
  <2>2. \E i \in D : Cardinality({j \in D : Before(j, i)}) = k - 1
    BY <1>5, <1>6, <2>1
  <2>3. at(k) \in D /\ Cardinality({j \in D : Before(j, at(k))}) = k - 1
    BY <2>2
  <2> QED  BY <1>5, <2>3
<1> HIDE DEF R, D, n, at
<1>9. /\ p \in [D -> D]
      /\ \A k \in D : p[k] \in D /\ Cardinality(Below(R, D, p[k])) = k - 1
      /\ Sorted(s, key) = [k \in D |-> s[p[k]]]
  BY <1>7, <1>8
<1> HIDE DEF p
<1>10. \A i, j \in D : p[i] = p[j] => i = j
  <2> SUFFICES ASSUME NEW i \in D, NEW j \in D, p[i] = p[j] PROVE i = j
    OBVIOUS
  <2>1. i - 1 = j - 1 /\ i \in Int /\ j \in Int
    BY <1>1, <1>9
  <2> QED  BY <2>1
<1>11. ASSUME NEW i \in D
       PROVE  \E k \in D : p[k] = i
  <2> DEFINE k == Cardinality(Below(R, D, i)) + 1
  <2>1. k \in D /\ k - 1 = Cardinality(Below(R, D, i))
    <3>1. Cardinality(Below(R, D, i)) \in 0..(n - 1)
      BY <1>6
    <3> QED  BY <1>1, <3>1
  <2> HIDE DEF k
  <2> QED  BY <1>6, <1>9, <2>1
<1>12. ASSUME NEW k \in D, NEW l \in D, k < l
       PROVE  key[p[k]] <= key[p[l]]
  <2>0. key[p[l]] \in Int /\ key[p[k]] \in Int
    BY <1>1, <1>9
  <2>1. SUFFICES ASSUME key[p[l]] < key[p[k]] PROVE FALSE
    BY <2>0
  <2>2. <<p[l], p[k]>> \in R
    BY <1>3, <1>9, <2>1
  <2>3. Cardinality(Below(R, D, p[l])) < Cardinality(Below(R, D, p[k]))
    BY <1>2, <1>4, <1>9, <2>2, EarlierHasFewerBelow
  <2>4. l - 1 < k - 1 /\ k \in Int /\ l \in Int
    BY <1>1, <1>9, <2>3
  <2> QED  BY <1>12, <2>4
<1> QED  BY <1>9, <1>10, <1>11, <1>12 DEF D

\* Sorting a list of candidates, either way, leaves nobody before one who
\* outranks them, and only moves entries.
LEMMA SortedByOrders ==
  ASSUME NEW sort, SortOK(sort), NEW s \in Seq(Candidate)
  PROVE  LET t == SortedBy(sort, s)
         IN  /\ t \in Seq(Candidate) /\ Len(t) = Len(s) /\ Ranged(t) = Ranged(s)
             /\ Distinct(s) => Distinct(t)
             /\ \A i, j \in DOMAIN t : i < j => ~Outranks(sort, t[j], t[i])
<1> DEFINE n == Len(s)
           D == DOMAIN s
           key == [i \in D |-> SortKey(sort, s[i])]
           ordered == Sorted(s, key)
           turned == sort.desc /\ sort.by # "latency"
           t == SortedBy(sort, s)
<1>1. n \in Nat /\ D = 1..n /\ \A i \in D : s[i] \in Candidate
  OBVIOUS
<1>2. key \in [D -> Int]
  BY <1>1, KeysAreNumbers
<1> HIDE DEF key
<1>3. PICK p \in [D -> D] :
          /\ ordered = [k \in D |-> s[p[k]]]
          /\ \A i, j \in D : p[i] = p[j] => i = j
          /\ \A i \in D : \E k \in D : p[k] = i
          /\ \A k, l \in D : k < l => key[p[k]] <= key[p[l]]
  BY <1>2, SortedPermutes
<1>4. t = IF turned THEN Reversed(ordered) ELSE ordered
  BY Zenon DEF SortedBy, key
<1> HIDE DEF t, ordered, turned, D, n
<1>5. ordered \in Seq(Candidate) /\ Len(ordered) = n
  <2>1. ordered \in [1..n -> Candidate]
    BY <1>1, <1>3
  <2> QED  BY <1>1, <2>1
<1> DEFINE q == [k \in D |-> IF turned THEN p[n + 1 - k] ELSE p[k]]
<1>6. \A k \in D : n + 1 - k \in D
  BY <1>1
<1>7. /\ q \in [D -> D] /\ t = [k \in D |-> s[q[k]]]
      /\ \A i, j \in D : q[i] = q[j] => i = j
      /\ \A i \in D : \E k \in D : q[k] = i
      /\ turned => \A k, l \in D : k < l => key[q[l]] <= key[q[k]]
      /\ ~turned => \A k, l \in D : k < l => key[q[k]] <= key[q[l]]
  <2>1. CASE turned
    <3>1. DOMAIN ordered = D /\ Len(ordered) = n
      BY <1>3, <1>5
    <3>2. t = [k \in D |-> s[p[n + 1 - k]]]
      BY <1>3, <1>4, <1>6, <2>1, <3>1 DEF Reversed
    <3>3. \A k \in D : q[k] = p[n + 1 - k] /\ q[k] \in D
      BY <1>6, <2>1
    <3>4. \A k, l \in D : k < l => n + 1 - l < n + 1 - k
      BY <1>1
    <3>5. \A k, l \in D : n + 1 - k = n + 1 - l => k = l
      BY <1>1
    <3>6. \A k \in D : n + 1 - (n + 1 - k) = k
      BY <1>1
    <3>7. q \in [D -> D]
      BY <3>3
    <3> HIDE DEF q
    <3>8. t = [k \in D |-> s[q[k]]]
      BY <3>2, <3>3
    <3>9. \A i \in D : \E k \in D : q[k] = i
      <4> SUFFICES ASSUME NEW i \in D PROVE \E k \in D : q[k] = i
        OBVIOUS
      <4>1. PICK k \in D : p[k] = i
        BY <1>3
      <4> QED  BY <1>6, <3>3, <3>6, <4>1
    <3>10. \A i, j \in D : q[i] = q[j] => i = j
      BY <1>3, <1>6, <3>3, <3>5
    <3>11. \A k, l \in D : k < l => key[q[l]] <= key[q[k]]
      BY <1>3, <1>6, <3>3, <3>4
    <3> QED  BY <2>1, <3>7, <3>8, <3>9, <3>10, <3>11
  <2>2. CASE ~turned
    <3>1. q = p /\ t = ordered
      BY <1>3, <1>4, <2>2
    <3> QED  BY <1>3, <2>2, <3>1
  <2> QED  BY <2>1, <2>2
<1> HIDE DEF q
<1>8. t \in Seq(Candidate) /\ Len(t) = n /\ DOMAIN t = D /\ \A k \in D : t[k] = s[q[k]] /\ q[k] \in D
  <2>1. /\ t = [k \in D |-> s[q[k]]]
        /\ \A k \in D : q[k] \in D /\ s[q[k]] \in Candidate
    BY <1>1, <1>7
  <2>2. DOMAIN t = D /\ \A k \in D : t[k] = s[q[k]] /\ q[k] \in D
    BY <2>1
  <2>3. t \in [1..n -> Candidate]
    BY <1>1, <2>1
  <2>4. t \in Seq(Candidate) /\ Len(t) = n
    BY <1>1, <2>3
  <2> QED  BY <2>2, <2>4
<1>9. Ranged(t) = Ranged(s)
  <2>1. ASSUME NEW x \in Ranged(t)
        PROVE  x \in Ranged(s)
    <3>1. PICK k \in D : x = t[k]
      BY <1>8 DEF Ranged
    <3>2. x = s[q[k]] /\ q[k] \in DOMAIN s
      BY <1>8, <3>1 DEF D
    <3> QED  BY <3>2 DEF Ranged
  <2>2. ASSUME NEW x \in Ranged(s)
        PROVE  x \in Ranged(t)
    <3>1. PICK i \in D : x = s[i]
      BY DEF Ranged, D
    <3>2. PICK k \in D : q[k] = i
      BY <1>7
    <3> QED  BY <1>8, <3>1, <3>2 DEF Ranged
  <2> QED  BY <2>1, <2>2
<1>10. Distinct(s) => Distinct(t)
  BY <1>7, <1>8 DEF Distinct, D
<1>11. ASSUME NEW i \in D, NEW j \in D, i < j
       PROVE  ~Outranks(sort, t[j], t[i])
  <2>1. /\ key[q[i]] = SortKey(sort, t[i]) /\ key[q[i]] \in Int
        /\ key[q[j]] = SortKey(sort, t[j]) /\ key[q[j]] \in Int
    BY <1>2, <1>8 DEF key
  <2>2. CASE turned
    <3>1. key[q[j]] <= key[q[i]]
      BY <1>7, <1>11, <2>2
    <3>2. ~(SortKey(sort, t[j]) > SortKey(sort, t[i]))
      BY <2>1, <3>1
    <3> QED  BY <2>2, <3>2 DEF Outranks, turned
  <2>3. CASE ~turned
    <3>1. key[q[i]] <= key[q[j]]
      BY <1>7, <1>11, <2>3
    <3>2. ~(SortKey(sort, t[j]) < SortKey(sort, t[i]))
      BY <2>1, <3>1
    <3> QED  BY <2>3, <3>2 DEF Outranks, turned
  <2> QED  BY <2>2, <2>3
<1> QED  BY <1>8, <1>9, <1>10, <1>11 DEF t, n, D

\* A cap keeps a beginning of the list: all of it, or as many as it says.
LEMMA TruncatedIsBeginning ==
  ASSUME NEW limit, LimitOK(limit), NEW s \in Seq(Candidate)
  PROVE  LET t == Truncated(limit, s)
         IN  /\ t \in Seq(Candidate) /\ Len(t) <= Len(s) /\ \A i \in 1..Len(t) : t[i] = s[i]
             /\ \/ t = s
                \/ Some(Len(t)) = limit.count /\ Len(t) < Len(s)
             /\ limit.count = None => t = s
<1> DEFINE t == Truncated(limit, s)
<1>1. Len(s) \in Nat
  OBVIOUS
<1>2. CASE limit.count = None \/ Len(s) <= Value(limit.count)
  <2>1. t = s
    BY <1>2 DEF Truncated
  <2> HIDE DEF t
  <2> QED  BY <1>1, <2>1 DEF t
<1>3. CASE ~(limit.count = None \/ Len(s) <= Value(limit.count))
  <2>1. PICK n \in Nat : limit.count = Some(n)
    BY <1>3 DEF LimitOK
  <2>2. Value(limit.count) = n
    BY <2>1, ValueOf DEF Some
  <2>3. n < Len(s)
    BY <1>1, <1>3, <2>2
  <2>4. t = SubSeq(s, 1, n)
    BY <1>3, <2>2 DEF Truncated
  <2> HIDE DEF t
  <2>5. t \in Seq(Candidate) /\ Len(t) = n /\ \A i \in 1..n : t[i] = s[i]
    BY <2>3, <2>4
  <2> QED  BY <1>1, <1>3, <2>1, <2>3, <2>5 DEF t
<1> QED  BY <1>2, <1>3

\* What a list of candidates is finalized to.
LEMMA FinalizeAnswers ==
  ASSUME NEW pipe, SortOK(pipe.sort), LimitOK(pipe.limit), NEW s \in Seq(Candidate)
  PROVE  LET out == finalize(pipe, s)
         IN  /\ out \in Seq(Candidate) /\ Distinct(out) /\ Ranged(out) \subseteq Ranged(Dedup(s))
             /\ \/ Len(out) = Len(Dedup(s))
                \/ Some(Len(out)) = pipe.limit.count /\ Len(out) < Len(Dedup(s))
             /\ pipe.limit.count = None => Ranged(out) = Ranged(Dedup(s))
             /\ \A i, j \in DOMAIN out : i < j => ~Outranks(pipe.sort, out[j], out[i])
             /\ \A c \in Ranged(Dedup(s)) \ Ranged(out) : \A d \in Ranged(out) : ~Outranks(pipe.sort, c, d)
<1> DEFINE u == Dedup(s)
           t == SortedBy(pipe.sort, u)
           out == Truncated(pipe.limit, t)
<1>1. u \in Seq(Candidate) /\ Distinct(u)
  BY DedupKeepsFirsts
<1> HIDE DEF u
<1>2. /\ t \in Seq(Candidate) /\ Len(t) = Len(u) /\ Ranged(t) = Ranged(u) /\ Distinct(t)
      /\ \A i, j \in DOMAIN t : i < j => ~Outranks(pipe.sort, t[j], t[i])
  BY <1>1, SortedByOrders
<1> HIDE DEF t
<1>3. /\ out \in Seq(Candidate) /\ Len(out) <= Len(t) /\ \A i \in 1..Len(out) : out[i] = t[i]
      /\ \/ out = t
         \/ Some(Len(out)) = pipe.limit.count /\ Len(out) < Len(t)
      /\ pipe.limit.count = None => out = t
  BY <1>2, TruncatedIsBeginning
<1> HIDE DEF out
<1>4. Len(out) \in Nat /\ Len(t) \in Nat /\ DOMAIN out = 1..Len(out) /\ DOMAIN t = 1..Len(t)
  BY <1>2, <1>3
<1>5. \A i \in 1..Len(out) : i \in 1..Len(t)
  BY <1>3, <1>4
<1>6. Distinct(out)
  BY <1>2, <1>3, <1>4, <1>5 DEF Distinct
<1>7. Ranged(out) \subseteq Ranged(u)
  <2>1. Ranged(out) \subseteq Ranged(t)
    BY <1>3, <1>4, <1>5 DEF Ranged
  <2> QED  BY <1>2, <2>1
<1>8. \A i, j \in DOMAIN out : i < j => ~Outranks(pipe.sort, out[j], out[i])
  BY <1>2, <1>3, <1>4, <1>5
<1>9. ASSUME NEW c \in Ranged(u) \ Ranged(out), NEW d \in Ranged(out)
      PROVE  ~Outranks(pipe.sort, c, d)
  <2>1. PICK j \in 1..Len(t) : c = t[j]
    BY <1>2, <1>4 DEF Ranged
  <2>2. PICK i \in 1..Len(out) : d = out[i]
    BY <1>4 DEF Ranged
  <2>3. j \notin 1..Len(out)
    BY <1>3, <1>4, <2>1 DEF Ranged
  <2>4. i < j /\ i \in 1..Len(t) /\ d = t[i]
    BY <1>3, <1>4, <1>5, <2>2, <2>3
  <2> QED  BY <1>2, <1>4, <2>1, <2>4
<1>10. finalize(pipe, s) = out
  BY DEF finalize, out, t, u
<1>11. \/ Len(out) = Len(u)
       \/ Some(Len(out)) = pipe.limit.count /\ Len(out) < Len(u)
  BY <1>2, <1>3
<1>12. pipe.limit.count = None => Ranged(out) = Ranged(u)
  BY <1>2, <1>3
<1> QED  BY <1>3, <1>6, <1>7, <1>8, <1>9, <1>10, <1>11, <1>12 DEF u

-----------------------------------------------------------------------------
(* The steps one source's candidates pass.                                  *)

RenameRule == [match : STRING, replace : Values, target : RenameTargets]

\* A rename leaves an entry an entry.
LEMMA RenameKeepsEntries ==
  ASSUME NEW e \in ParsedEntry, NEW rule \in RenameRule
  PROVE  apply_rename_rule(e, rule) \in ParsedEntry
<1> DEFINE Param == [key : STRING, value : Values]
<1>0. rule.target \in RenameTargets /\ rule.replace \in Values
  BY DEF RenameRule
<1>1. \A v \in Values : Rewritten(rule, v) \in Values
  BY <1>0 DEF Rewritten
<1>2. e.name \in Values /\ e.host \in Values /\ e.port \in Values /\ e.params \in Seq(Param)
  BY DEF ParsedEntry
<1>3. CASE rule.target = "name"
  <2>1. apply_rename_rule(e, rule) = [e EXCEPT !.name = Rewritten(rule, e.name)]
    BY <1>3 DEF apply_rename_rule
  <2>2. Rewritten(rule, e.name) \in Values
    BY <1>1, <1>2
  <2> QED  BY <2>1, <2>2 DEF ParsedEntry
<1>4. CASE rule.target = "host"
  <2> DEFINE v == IF Rewritten(rule, e.host) \in HostNames THEN Rewritten(rule, e.host) ELSE e.host
  <2>1. apply_rename_rule(e, rule) = [e EXCEPT !.host = v]
    BY <1>4 DEF apply_rename_rule
  <2>2. v \in Values
    BY <1>1, <1>2
  <2> HIDE DEF v
  <2> QED  BY <2>1, <2>2 DEF ParsedEntry
<1>5. CASE rule.target = "port"
  <2> DEFINE v == IF Rewritten(rule, e.port) \in Ports THEN Rewritten(rule, e.port) ELSE e.port
  <2>1. apply_rename_rule(e, rule) = [e EXCEPT !.port = v]
    BY <1>5 DEF apply_rename_rule
  <2>2. v \in Values
    BY <1>1, <1>2
  <2> HIDE DEF v
  <2> QED  BY <2>1, <2>2 DEF ParsedEntry
<1>6. CASE rule.target = "param"
  <2> DEFINE ps == e.params
             v(i) == IF i \in FirstParam(e) THEN [ps[i] EXCEPT !.value = Rewritten(rule, ps[i].value)] ELSE ps[i]
             new == [i \in DOMAIN ps |-> v(i)]
  <2>1. apply_rename_rule(e, rule) = [e EXCEPT !.params = new]
    <3>1. apply_rename_rule(e, rule) = [e EXCEPT !.params = RewrittenParams(e, rule)]
      BY <1>6 DEF apply_rename_rule
    <3>2. RewrittenParams(e, rule) = new
      BY Zenon DEF RewrittenParams
    <3> QED  BY <3>1, <3>2, Zenon
  <2>2. ps \in Seq(Param)
    BY <1>2
  <2> HIDE DEF ps, Param
  <2>3. Len(ps) \in Nat /\ DOMAIN ps = 1..Len(ps) /\ \A i \in DOMAIN ps : ps[i] \in Param
    BY <2>2
  <2>4. ASSUME NEW i \in DOMAIN ps
        PROVE  v(i) \in Param
    <3> DEFINE q == ps[i]
    <3>1. q \in [key : STRING, value : Values]
      BY <2>3 DEF Param
    <3> HIDE DEF q
    <3>2. Rewritten(rule, q.value) \in Values
      BY <1>1, <3>1
    <3>3. [q EXCEPT !.value = Rewritten(rule, q.value)] \in [key : STRING, value : Values]
      BY <3>1, <3>2
    <3> QED  BY <3>1, <3>3 DEF q, Param
  <2> HIDE DEF v
  <2>5. new \in Seq(Param)
    <3>1. new \in [1..Len(ps) -> Param]
      BY <2>3, <2>4
    <3> HIDE DEF new
    <3> QED  BY <2>3, <3>1
  <2> HIDE DEF new
  <2> QED  BY <2>1, <2>5 DEF ParsedEntry, Param
<1> QED  BY <1>0, <1>3, <1>4, <1>5, <1>6 DEF RenameTargets

\* So does a list of them.
LEMMA RenamedIsEntry ==
  ASSUME NEW rules \in Seq(RenameRule), NEW e \in ParsedEntry
  PROVE  Renamed(rules, e) \in ParsedEntry
<1> DEFINE n == Len(rules)
           T == ParsedEntry
           One(k, x) == apply_rename_rule(x, rules[k])
           step == [k \in 1..n |-> [x \in T |-> One(k, x)]]
           Whole(f) == f = [k \in 0..n |-> IF k = 0 THEN e ELSE apply_rename_rule(f[k - 1], rules[k])]
<1>0. n \in Nat
  OBVIOUS
<1>1. ASSUME NEW k \in 1..n, NEW x \in T
      PROVE  One(k, x) \in T
  <2>1. rules[k] \in RenameRule
    OBVIOUS
  <2> QED  BY <2>1, RenameKeepsEntries
<1> HIDE DEF T, One
<1>2. step \in LoopBodies(n, T)
  BY <1>1 DEF LoopBodies
<1>3. PICK f \in [0..n -> T] : f[0] = e /\ \A k \in 1..n : f[k] = step[k][f[k - 1]]
  <2>1. e \in T
    BY DEF T
  <2> HIDE DEF step, n
  <2>2. PICK f : f \in Runs(n, T, e, step)
    BY <1>0, <1>2, <2>1, RunExists
  <2> QED  BY <2>2 DEF Runs
<1>4. \A k \in 1..n : f[k - 1] \in T /\ f[k] = One(k, f[k - 1])
  <2>1. \A k \in 1..n : k - 1 \in 0..n
    BY <1>0
  <2> QED  BY <1>3, <2>1
<1>5. f = [k \in 0..n |-> IF k = 0 THEN e ELSE One(k, f[k - 1])]
  <2>1. \A k \in 0..n : k = 0 \/ k \in 1..n
    BY <1>0
  <2> HIDE DEF n
  <2>2. \A k \in 0..n : f[k] = IF k = 0 THEN e ELSE One(k, f[k - 1])
    BY <1>3, <1>4, <2>1
  <2> QED  BY <1>3, <2>2
<1> DEFINE after == CHOOSE f_1 : Whole(f_1)
<1>6. Whole(after)
  <2>1. Whole(f)
    BY <1>5 DEF One
  <2> HIDE DEF Whole
  <2> QED  BY <2>1, Zenon
<1>7. Renamed(rules, e) = after[n]
  BY Zenon DEF Renamed
<1> HIDE DEF after
<1>8. after[0] = e /\ \A k \in 1..n : after[k] = One(k, after[k - 1])
  <2>1. 0 \in 0..n /\ \A k \in 1..n : k \in 0..n /\ k # 0
    BY <1>0
  <2> HIDE DEF n
  <2> QED  BY <1>6, <2>1 DEF One
<1>9. \A k \in 0..n : after[k] \in T
  <2> DEFINE S0 == {k \in 0..n : after[k] \in T}
  <2>1. 0 \in S0
    BY <1>0, <1>8 DEF T
  <2>2. ASSUME NEW k \in 1..n, k - 1 \in S0
        PROVE  k \in S0
    BY <1>0, <1>1, <1>8, <2>2
  <2> HIDE DEF S0
  <2>3. \A k \in 0..n : k \in S0
    BY <1>0, <2>1, <2>2, SetInduction
  <2> QED  BY <2>3 DEF S0
<1>10. n \in 0..n
  BY <1>0
<1> QED  BY <1>7, <1>9, <1>10 DEF T

\* What the steps make of a candidate they keep.
Outcome(pipe, c, g) == Enriched(pipe, [fill_missing_asns(c, g) EXCEPT !.entry = Renamed(pipe.rename, @)], g)

\* It is a candidate at the same place.
LEMMA OutcomeIsCandidate ==
  ASSUME NEW g \in {Inactive, GeoDatabase}, NEW pipe, pipe.rename \in Seq(RenameRule), NEW c \in Candidate
  PROVE  Outcome(pipe, c, g) \in Candidate /\ Outcome(pipe, c, g).position = c.position
<1> DEFINE filled == fill_missing_asns(c, g)
           named == [filled EXCEPT !.entry = Renamed(pipe.rename, filled.entry)]
           found == resolve(g, named.entry.host)
           info == Value(found)
<1>1. filled \in Candidate /\ filled.position = c.position
  <2>1. CASE c.asn # None
    BY <2>1 DEF fill_missing_asns
  <2>2. CASE c.asn = None
    <3> DEFINE asn == StampedAsn(resolve(g, c.entry.host))
    <3>1. asn \in SUBSET Nat
      BY ResolvedIsFact DEF StampedAsn
    <3>2. filled = [c EXCEPT !.asn = asn]
      BY <2>2 DEF fill_missing_asns
    <3> HIDE DEF asn, filled
    <3> QED  BY <3>1, <3>2 DEF Candidate
  <2> QED  BY <2>1, <2>2
<1> HIDE DEF filled
<1>2. named \in Candidate /\ named.position = c.position
  <2>1. filled.entry \in ParsedEntry
    BY <1>1 DEF Candidate
  <2>2. Renamed(pipe.rename, filled.entry) \in ParsedEntry
    BY <2>1, RenamedIsEntry
  <2> QED  BY <1>1, <2>2 DEF Candidate
<1> HIDE DEF named
<1>3. CASE ~pipe.geo.enabled \/ found = None
  <2>1. Enriched(pipe, named, g) = named
    BY <1>3 DEF Enriched
  <2> QED  BY <1>2, <2>1 DEF Outcome, named, filled
<1>4. CASE ~(~pipe.geo.enabled \/ found = None)
  <2>1. info.country \in Values
    <3>1. info \in found
      BY <1>4, ValueOf DEF None
    <3> QED  BY <3>1, ResolvedIsFact
  <2>2. Enriched(pipe, named, g) = [named EXCEPT !.entry.prefix = info.country, !.country = info.country]
    BY <1>4 DEF Enriched
  <2> DEFINE country == info.country
  <2>3. country \in Values
    BY <2>1
  <2> HIDE DEF country
  <2>4. named.entry \in ParsedEntry
    BY <1>2 DEF Candidate
  <2>5. [named.entry EXCEPT !.prefix = country] \in ParsedEntry
    BY <2>3, <2>4 DEF ParsedEntry
  <2>6. [named EXCEPT !.entry.prefix = country, !.country = country]
           = [named EXCEPT !.entry = [named.entry EXCEPT !.prefix = country], !.country = country]
    BY <1>2 DEF Candidate
  <2> DEFINE entry == [named.entry EXCEPT !.prefix = country]
  <2>7. entry \in ParsedEntry
    BY <2>5
  <2> HIDE DEF entry
  <2>8. [named EXCEPT !.entry = entry, !.country = country] \in Candidate
    BY <1>2, <2>3, <2>7 DEF Candidate
  <2>9. [named EXCEPT !.entry = entry, !.country = country].position = c.position
    BY <1>2 DEF Candidate
  <2> QED  BY <2>2, <2>6, <2>8, <2>9 DEF Outcome, named, filled, entry, country
<1> QED  BY <1>3, <1>4

\* The steps keep exactly the outcomes of those that survive the rules.
LEMMA ApplyKeepsSurvivors ==
  ASSUME NEW g \in {Inactive, GeoDatabase}, NEW pipe, pipe.rename \in Seq(RenameRule), NEW cs \in Seq(Candidate)
  PROVE  LET out == apply_per_source(pipe, cs, g)
         IN  /\ out \in Seq(Candidate)
             /\ \A x : x \in Ranged(out) <=> \E c \in Ranged(cs) :
                   Survives(pipe, fill_missing_asns(c, g)) /\ x = Outcome(pipe, c, g)
<1> DEFINE D == DOMAIN cs
           fill(i) == fill_missing_asns(cs[i], g)
           filled == [i \in D |-> fill(i)]
           kept == {i \in DOMAIN filled : Survives(pipe, filled[i])}
           m == Cardinality(kept)
           Finish(c) == Enriched(pipe, [c EXCEPT !.entry = Renamed(pipe.rename, @)], g)
           out == apply_per_source(pipe, cs, g)
<1>1. D = 1..Len(cs) /\ Len(cs) \in Nat /\ \A i \in D : cs[i] \in Candidate
  OBVIOUS
<1>2. out = [k \in 1..m |-> Finish(Entries(filled, kept)[k])]
  BY Zenon DEF apply_per_source
<1>3. \A c : Finish(fill_missing_asns(c, g)) = Outcome(pipe, c, g)
  BY Zenon DEF Outcome
<1> HIDE DEF Finish, out
<1>4. kept = {i \in D : Survives(pipe, fill(i))} /\ kept \in SUBSET D
  OBVIOUS
<1> HIDE DEF kept, fill, D
<1>5. kept \in SUBSET Nat /\ IsFiniteSet(kept) /\ m \in Nat
  <2>1. IsFiniteSet(D)
    BY <1>1, FS_Interval
  <2> QED  BY <1>1, <1>4, <2>1, FS_Subset, FS_CardinalityType
<1>6. /\ \A k \in 1..m : Ascending(kept)[k] \in kept
      /\ \A i \in kept : \E k \in 1..m : Ascending(kept)[k] = i
  BY <1>5, AscendingLists
<1>7. \A k \in 1..m : Entries(filled, kept)[k] = fill(Ascending(kept)[k])
  BY <1>4, <1>6 DEF Entries
<1> HIDE DEF m
<1>8. \A k \in 1..m : out[k] = Outcome(pipe, cs[Ascending(kept)[k]], g)
  BY <1>2, <1>3, <1>7 DEF fill
<1>9. \A k \in 1..m : out[k] \in Candidate
  <2>1. \A k \in 1..m : cs[Ascending(kept)[k]] \in Candidate
    BY <1>1, <1>4, <1>6
  <2>2. \A c \in Candidate : Outcome(pipe, c, g) \in Candidate
    BY OutcomeIsCandidate
  <2> QED  BY <1>8, <2>1, <2>2
<1>10. out \in Seq(Candidate) /\ DOMAIN out = 1..m
  <2>1. DOMAIN out = 1..m
    BY <1>2
  <2>2. out \in [1..m -> Candidate]
    BY <1>2, <1>9
  <2> QED  BY <1>5, <2>1, <2>2
<1>11. ASSUME NEW x \in Ranged(out)
       PROVE  \E c \in Ranged(cs) : Survives(pipe, fill_missing_asns(c, g)) /\ x = Outcome(pipe, c, g)
  <2>1. PICK k \in 1..m : x = out[k]
    BY <1>10 DEF Ranged
  <2>2. cs[Ascending(kept)[k]] \in Ranged(cs) /\ Survives(pipe, fill_missing_asns(cs[Ascending(kept)[k]], g))
    BY <1>4, <1>6 DEF Ranged, fill, D
  <2> QED  BY <1>8, <2>1, <2>2
<1>12. ASSUME NEW c \in Ranged(cs), Survives(pipe, fill_missing_asns(c, g))
       PROVE  Outcome(pipe, c, g) \in Ranged(out)
  <2>1. PICK i \in D : c = cs[i]
    BY DEF Ranged, D
  <2>2. i \in kept
    BY <1>4, <1>12, <2>1 DEF fill
  <2>3. PICK k \in 1..m : Ascending(kept)[k] = i
    BY <1>6, <2>2
  <2> QED  BY <1>8, <1>10, <2>1, <2>3 DEF Ranged
<1> QED  BY <1>10, <1>11, <1>12 DEF out

-----------------------------------------------------------------------------
(* Configurations: whatever the forms saved, a merged or finalized document *)
(* is made of their sections, and one that validates compiles to a pipeline *)
(* whose sort, cap and renames are what the steps expect.                   *)

Assembled(option) ==
    /\ IsOption(option)
    /\ \A doc \in option : \A k \in DOMAIN doc : k = "version" \/ \E d \in Documented : Has(d, k) /\ doc[k] = d[k]

PipeOK(pipe) == SortOK(pipe.sort) /\ LimitOK(pipe.limit) /\ pipe.rename \in Seq(RenameRule)

\* What a section of an open document, or its absence, gives.
LEMMA SectionOf ==
  ASSUME NEW option, NEW k \in {"sort", "limit", "rename"}
  PROVE  /\ option # None /\ Has(Value(option), k) => from_json(option)[k] = Value(option)[k]
         /\ ~(option # None /\ Has(Value(option), k)) => from_json(option)[k] = Default[k]
<1>1. k \in DOMAIN Default
  BY DEF Default
<1> QED  BY <1>1 DEF from_json

LEMMA AcceptedPipesAreOK ==
  ASSUME NEW option, Assembled(option), Accepts(option)
  PROVE  PipeOK(from_json(option))
<1> DEFINE doc == Value(option)
<1>1. /\ Default.sort = SortDefaults /\ Default.limit = NoCap /\ Default.rename = << >>
  BY DEF Default
<1>2. ASSUME NEW k \in {"sort", "limit", "rename"}, option # None, Has(doc, k)
      PROVE  /\ Structured(doc) /\ Issues(doc) = {}
             /\ \E d \in Documented : Has(d, k) /\ doc[k] = d[k]
  <2>1. doc \in option
    BY <1>2, ValueOf DEF None
  <2>2. doc # Empty
    BY <1>2 DEF Has, Empty
  <2>3. k \in DOMAIN doc /\ k # "version"
    BY <1>2 DEF Has
  <2> HIDE DEF doc
  <2> QED  BY <2>1, <2>2, <2>3 DEF Accepts, Assembled
<1> HIDE DEF doc
<1>3. SortOK(from_json(option).sort)
  <2>1. CASE option # None /\ Has(doc, "sort")
    <3>1. from_json(option).sort = doc.sort
      BY <2>1, SectionOf DEF doc
    <3>2. doc.sort.by \in SortBy
      BY <1>2, <2>1 DEF Structured
    <3> QED  BY <3>1, <3>2 DEF SortOK
  <2>2. CASE ~(option # None /\ Has(doc, "sort"))
    <3>1. from_json(option).sort = SortDefaults
      BY <1>1, <2>2, SectionOf DEF doc
    <3> QED  BY <3>1 DEF SortOK, SortDefaults, SortBy
  <2> QED  BY <2>1, <2>2
<1>4. LimitOK(from_json(option).limit)
  <2>1. CASE option # None /\ Has(doc, "limit")
    <3>1. from_json(option).limit = doc.limit
      BY <2>1, SectionOf DEF doc
    <3>2. PICK d \in Documented : Has(d, "limit") /\ doc.limit = d.limit
      BY <1>2, <2>1
    <3>3. doc.limit.typed
      BY <1>2, <2>1 DEF Structured
    <3>4. IsOption(doc.limit.count) /\ doc.limit.count \subseteq Nat
      BY <3>2, <3>3, DocumentAssumption
    <3> DEFINE count == doc.limit.count
    <3>5. IsOption(count) /\ count \subseteq Nat
      BY <3>4
    <3> HIDE DEF count
    <3>6. count = {} \/ \E n \in Nat : count = {n}
      BY <3>5 DEF IsOption
    <3> QED  BY <3>1, <3>6 DEF LimitOK, None, Some, count
  <2>2. CASE ~(option # None /\ Has(doc, "limit"))
    <3>1. from_json(option).limit = NoCap
      BY <1>1, <2>2, SectionOf DEF doc
    <3> QED  BY <3>1 DEF LimitOK, NoCap
  <2> QED  BY <2>1, <2>2
<1>5. from_json(option).rename \in Seq(RenameRule)
  <2>1. CASE option # None /\ Has(doc, "rename")
    <3> DEFINE rules == doc.rename
               Posted == [match : STRING, replace : Values, target : STRING]
    <3>1. from_json(option).rename = rules
      BY <2>1, SectionOf DEF doc
    <3>2. PICK d \in Documented : Has(d, "rename") /\ rules = d.rename
      BY <1>2, <2>1
    <3>3. rules \in Seq(Posted)
      BY <3>2, DocumentAssumption
    <3>4. "rename" \notin Issues(doc) /\ "rename" \in DOMAIN doc
      BY <1>2, <2>1 DEF Has
    <3>5. \A r \in Ranged(rules) : RuleCompiles(r)
      BY <3>4 DEF Issues
    <3> HIDE DEF rules, Posted
    <3>6. Len(rules) \in Nat /\ DOMAIN rules = 1..Len(rules)
      BY <3>3
    <3>7. ASSUME NEW i \in 1..Len(rules)
          PROVE  rules[i] \in RenameRule
      <4>1. rules[i] \in Posted
        BY <3>3
      <4>2. rules[i].target \in RenameTargets
        BY <3>5, <3>6 DEF Ranged, RuleCompiles
      <4> DEFINE q == rules[i]
      <4>3. q \in [match : STRING, replace : Values, target : STRING] /\ q.target \in RenameTargets
        BY <4>1, <4>2 DEF Posted
      <4> HIDE DEF q
      <4>4. q \in RenameRule
        BY <4>3 DEF RenameRule
      <4> QED  BY <4>4 DEF q
    <3>8. rules \in Seq(RenameRule)
      <4>1. rules \in [1..Len(rules) -> RenameRule]
        <5>1. rules = [i \in 1..Len(rules) |-> rules[i]]
          BY <3>3, <3>6
        <5> QED  BY <3>7, <5>1
      <4> QED  BY <3>6, <4>1
    <3> QED  BY <3>1, <3>8
  <2>2. CASE ~(option # None /\ Has(doc, "rename"))
    <3>1. from_json(option).rename = << >>
      BY <1>1, <2>2, SectionOf DEF doc
    <3> QED  BY <3>1
  <2> QED  BY <2>1, <2>2
<1> QED  BY <1>3, <1>4, <1>5 DEF PipeOK

\* What the forms saved is made of what the forms may post.
LEMMA SavedIsAssembled ==
  ASSUME NEW option \in Documents
  PROVE  Assembled(option)
<1>1. option = None \/ \E d \in Documented : option = Some(d)
  BY Zenon DEF Documents
<1>2. CASE option = None
  BY <1>2 DEF Assembled, IsOption, None
<1>3. CASE \E d \in Documented : option = Some(d)
  <2>1. PICK d \in Documented : option = Some(d)
    BY <1>3
  <2>2. \A k \in DOMAIN d : Has(d, k) /\ d[k] = d[k]
    BY DEF Has
  <2> QED  BY <2>1, <2>2 DEF Assembled, IsOption, Some
<1> QED  BY <1>1, <1>2, <1>3

\* A merge takes every section from one of the two.
LEMMA MergedIsAssembled ==
  ASSUME NEW a, Assembled(a), NEW b, Assembled(b)
  PROVE  Assembled(merge_configs(a, b))
<1>1. CASE a = None
  BY <1>1 DEF merge_configs
<1>2. CASE a # None /\ b = None
  BY <1>2 DEF merge_configs
<1>3. CASE a # None /\ b # None
  <2> DEFINE s == Value(a)
             p == Value(b)
             doc == [k \in DOMAIN s \cup DOMAIN p |-> IF Has(p, k) THEN p[k] ELSE s[k]]
  <2>1. merge_configs(a, b) = Some(doc)
    BY <1>3, Zenon DEF merge_configs
  <2>2. s \in a /\ p \in b
    BY <1>3, ValueOf DEF None
  <2> HIDE DEF s, p
  <2>3. DOMAIN doc = DOMAIN s \cup DOMAIN p
    OBVIOUS
  <2>4. ASSUME NEW k \in DOMAIN doc, k # "version"
        PROVE  \E d \in Documented : Has(d, k) /\ doc[k] = d[k]
    <3>1. CASE Has(p, k)
      <4>1. k \in DOMAIN p /\ doc[k] = p[k]
        BY <3>1 DEF Has
      <4> HIDE DEF doc
      <4> QED  BY <2>2, <2>4, <4>1 DEF Assembled
    <3>2. CASE ~Has(p, k)
      <4>1. k \in DOMAIN s /\ doc[k] = s[k]
        BY <3>2 DEF Has
      <4> HIDE DEF doc
      <4> QED  BY <2>2, <2>4, <4>1 DEF Assembled
    <3> QED  BY <3>1, <3>2
  <2> HIDE DEF doc
  <2> QED  BY <2>1, <2>4 DEF Assembled, IsOption, Some
<1> QED  BY <1>1, <1>2, <1>3

\* So does the profile's document with the sort of a member put in.
LEMMA FinalizedIsAssembled ==
  ASSUME ServeInv
  PROVE  Assembled(finalize_config)
<1>1. pipelines \in [Sources -> Documents] /\ profile \in Documents
  BY DEF ServeInv, SubscriptionTypeOK
<1>2. source_sort = None \/ \E v : source_sort = Some(v) /\ \E d \in Documented : Has(d, "sort") /\ v = d.sort
  <2> DEFINE first == CHOOSE s \in Sorting : \A t \in Sorting : s <= t
  <2>1. CASE SortExplicit(profile) \/ Sorting = {}
    BY <2>1 DEF source_sort
  <2>2. CASE ~(SortExplicit(profile) \/ Sorting = {})
    <3>1. Sorting \in SUBSET Nat /\ Sorting \subseteq Sources
      <4>1. \A n : 1..n \subseteq Nat
        OBVIOUS
      <4> QED  BY <4>1, SourceAssumption DEF Sorting
    <3>2. \E s \in Sorting : \A t \in Sorting : s <= t
      BY <2>2, <3>1, LeastNat
    <3>3. first \in Sources
      BY <3>1, <3>2
    <3>4. source_sort = IF SortExplicit(pipelines[first]) THEN Some(Value(pipelines[first]).sort) ELSE None
      BY <2>2, Zenon DEF source_sort
    <3> HIDE DEF first
    <3>5. CASE SortExplicit(pipelines[first])
      <4> DEFINE option == pipelines[first]
                 doc == Value(option)
      <4>1. option \in Documents /\ option # None /\ Has(doc, "sort")
        BY <1>1, <3>3, <3>5 DEF SortExplicit
      <4>2. Assembled(option) /\ doc \in option
        BY <4>1, SavedIsAssembled, ValueOf DEF None
      <4>3. source_sort = Some(doc.sort)
        BY <3>4, <3>5
      <4> HIDE DEF doc, option
      <4>4. \E d \in Documented : Has(d, "sort") /\ doc.sort = d.sort
        BY <4>1, <4>2 DEF Assembled, Has
      <4> QED  BY <4>3, <4>4
    <3>6. CASE ~SortExplicit(pipelines[first])
      BY <3>4, <3>6
    <3> QED  BY <3>5, <3>6
  <2> QED  BY <2>1, <2>2
<1> DEFINE base == IF profile = None THEN [version |-> 1] ELSE Value(profile)
           keys == DOMAIN base \cup {x \in {"sort"} : source_sort # None}
           doc == [k \in keys |-> IF k = "sort" /\ source_sort # None THEN Value(source_sort) ELSE base[k]]
<1>3. finalize_config = Some(doc)
  BY Zenon DEF finalize_config
<1>4. \A k \in DOMAIN base : k = "version" \/ \E d \in Documented : Has(d, k) /\ base[k] = d[k]
  <2>1. CASE profile = None
    BY <2>1
  <2>2. CASE profile # None
    <3>1. base \in profile
      BY <2>2, ValueOf DEF None
    <3> HIDE DEF base
    <3> QED  BY <1>1, <3>1, SavedIsAssembled DEF Assembled
  <2> QED  BY <2>1, <2>2
<1> HIDE DEF base
<1>5. ASSUME NEW k \in DOMAIN doc
      PROVE  k = "version" \/ \E d \in Documented : Has(d, k) /\ doc[k] = d[k]
  <2>1. CASE k = "sort" /\ source_sort # None
    <3>1. doc[k] = Value(source_sort)
      BY <2>1
    <3> HIDE DEF doc
    <3> QED  BY <1>2, <2>1, <3>1, ValueOf DEF Some
  <2>2. CASE ~(k = "sort" /\ source_sort # None)
    <3>1. k \in DOMAIN base /\ doc[k] = base[k]
      BY <2>2
    <3> HIDE DEF doc
    <3> QED  BY <1>4, <3>1
  <2> QED  BY <2>1, <2>2
<1> HIDE DEF doc
<1> QED  BY <1>3, <1>5 DEF Assembled, IsOption, Some

-----------------------------------------------------------------------------
(* From rows to contributions, and their concatenation.                     *)

\* A selection of a list is a list of some of it.
LEMMA SelectionKeeps ==
  ASSUME NEW cs \in Seq(Candidate), NEW I \in SUBSET DOMAIN cs
  PROVE  Entries(cs, I) \in Seq(Candidate) /\ Ranged(Entries(cs, I)) \subseteq Ranged(cs)
<1> DEFINE m == Cardinality(I)
           out == Entries(cs, I)
<1>1. /\ m \in Nat /\ out \in Seq(Candidate) /\ Len(out) = m
      /\ \A k \in 1..m : out[k] = cs[Ascending(I)[k]] /\ Ascending(I)[k] \in I
  BY EntriesAreEntries
<1> HIDE DEF m, out
<1>2. DOMAIN out = 1..m
  BY <1>1
<1>3. Ranged(out) \subseteq Ranged(cs)
  BY <1>1, <1>2 DEF Ranged
<1> QED  BY <1>1, <1>3 DEF out

\* A stored row is a candidate at its source's place.
LEMMA RowsAreCandidates ==
  ASSUME ServeInv, NEW s \in Sources
  PROVE  /\ rows_to_candidates(s) \in Seq(Candidate)
         /\ \A c \in Ranged(rows_to_candidates(s)) : c.position = s
<1> DEFINE linked == {i \in DOMAIN table : fingerprint_of(table[i].entry) \in links[s]}
           m == Cardinality(linked)
           rows == Entries(table, linked)
           country(row) == IF row.stamp = None THEN "" ELSE Value(row.stamp).country
           candidate(row) == [entry |-> row.entry, position |-> s,
                              status |-> StatusOf[row.entry.host], latency |-> LatencyOf[row.entry.host],
                              country |-> country(row), asn |-> StampedAsn(row.stamp)]
           out == rows_to_candidates(s)
<1>1. out = [k \in 1..m |-> candidate(rows[k])]
  BY Zenon DEF rows_to_candidates
<1>2. table \in Seq(LawfulRow(geo)) /\ geo \in {Inactive, GeoDatabase}
  BY DEF ServeInv, TableInv, SubscriptionTypeOK
<1>3. linked \in SUBSET DOMAIN table
  OBVIOUS
<1> HIDE DEF out, linked
<1>4. m \in Nat /\ rows \in Seq(LawfulRow(geo)) /\ Len(rows) = m
  BY <1>2, <1>3, EntriesAreEntries
<1>5. ASSUME NEW row \in LawfulRow(geo)
      PROVE  candidate(row) \in Candidate /\ candidate(row).position = s
  <2>1. row.entry \in FeedEntries /\ row.stamp \subseteq resolve(GeoDatabase, row.entry.host)
    BY DEF LawfulRow, Row
  <2>2. row.entry \in ParsedEntry /\ row.entry.host \in DOMAIN LatencyOf
    BY <2>1, FeedAssumption, FeedEntriesParse
  <2>3. \A x \in row.stamp : x.country \in Values /\ x.asn \in SUBSET Nat
    BY <2>1, ResolvedIsFact
  <2>4. country(row) \in Values
    <3>1. CASE row.stamp = None
      BY <3>1, FeedAssumption
    <3>2. CASE row.stamp # None
      BY <2>3, <3>2, ValueOf DEF None
    <3> QED  BY <3>1, <3>2
  <2>5. StampedAsn(row.stamp) \in SUBSET Nat
    BY <2>3 DEF StampedAsn
  <2> HIDE DEF country
  <2> QED  BY <2>2, <2>4, <2>5 DEF Candidate
<1> HIDE DEF candidate, m, rows
<1>6. \A k \in 1..m : rows[k] \in LawfulRow(geo)
  BY <1>4
<1>7. DOMAIN out = 1..m /\ \A k \in 1..m : out[k] \in Candidate /\ out[k].position = s
  BY <1>1, <1>5, <1>6
<1>8. out \in Seq(Candidate)
  <2>1. out \in [1..m -> Candidate]
    BY <1>1, <1>7
  <2> QED  BY <1>4, <2>1
<1> QED  BY <1>7, <1>8 DEF out, Ranged

\* What a pipeline makes of one source's candidates: distinct, at their
\* place, and without a cap one of every fingerprint that survived.
LEMMA ApplyAnswers ==
  ASSUME NEW g \in {Inactive, GeoDatabase}, NEW pipe, PipeOK(pipe), NEW cs \in Seq(Candidate),
         NEW s, \A c \in Ranged(cs) : c.position = s
  PROVE  LET out == apply(pipe, cs, g)
         IN  /\ out \in Seq(Candidate) /\ Distinct(out)
             /\ \A c \in Ranged(out) : c.position = s
             /\ pipe.limit.count = None => Prints(Ranged(out)) = Prints(Ranged(apply_per_source(pipe, cs, g)))
<1> DEFINE kept == apply_per_source(pipe, cs, g)
           out == finalize(pipe, kept)
<1>1. /\ kept \in Seq(Candidate)
      /\ \A x : x \in Ranged(kept) <=> \E c \in Ranged(cs) :
            Survives(pipe, fill_missing_asns(c, g)) /\ x = Outcome(pipe, c, g)
  BY ApplyKeepsSurvivors DEF PipeOK
<1>2. \A c \in Ranged(cs) : c \in Candidate
  BY DEF Ranged
<1>3. \A x \in Ranged(kept) : x.position = s
  <2> SUFFICES ASSUME NEW x \in Ranged(kept) PROVE x.position = s
    OBVIOUS
  <2>1. PICK c \in Ranged(cs) : x = Outcome(pipe, c, g)
    BY <1>1
  <2>2. x.position = c.position
    BY <1>2, <2>1, OutcomeIsCandidate DEF PipeOK
  <2> QED  BY <2>1, <2>2
<1> HIDE DEF kept
<1>4. /\ out \in Seq(Candidate) /\ Distinct(out) /\ Ranged(out) \subseteq Ranged(Dedup(kept))
      /\ pipe.limit.count = None => Ranged(out) = Ranged(Dedup(kept))
  BY <1>1, FinalizeAnswers DEF PipeOK
<1>5. Ranged(Dedup(kept)) \subseteq Ranged(kept) /\ Prints(Ranged(Dedup(kept))) = Prints(Ranged(kept))
  BY <1>1, DedupKeepsFirsts
<1> HIDE DEF out
<1>6. apply(pipe, cs, g) = out
  BY DEF apply, out, kept
<1>7. \A c \in Ranged(out) : c.position = s
  BY <1>3, <1>4, <1>5
<1>8. pipe.limit.count = None => Prints(Ranged(out)) = Prints(Ranged(kept))
  BY <1>4, <1>5
<1> QED  BY <1>4, <1>6, <1>7, <1>8 DEF kept

\* The allowlist only takes candidates away.
LEMMA AllowedKeeps ==
  ASSUME NEW cs \in Seq(Candidate)
  PROVE  Allowed(cs) \in Seq(Candidate) /\ Ranged(Allowed(cs)) \subseteq Ranged(cs)
<1>1. CASE countries = {}
  BY <1>1 DEF Allowed
<1>2. CASE countries # {}
  <2> DEFINE I == {i \in DOMAIN cs : cs[i].country \in countries}
  <2>1. I \in SUBSET DOMAIN cs
    OBVIOUS
  <2>2. Allowed(cs) = Entries(cs, I)
    BY <1>2 DEF Allowed
  <2> HIDE DEF I
  <2> QED  BY <2>1, <2>2, SelectionKeeps
<1> QED  BY <1>1, <1>2

\* A member contributes no fingerprint twice, at its own place.
LEMMA ContributionIsOrderly ==
  ASSUME ServeInv, NEW s \in Sources, PipeOK(from_json(Merged(s)))
  PROVE  /\ Contribution(s) \in Seq(Candidate) /\ Distinct(Contribution(s))
         /\ \A c \in Ranged(Contribution(s)) : c.position = s
<1> DEFINE all == rows_to_candidates(s)
<1>1. all \in Seq(Candidate) /\ \A c \in Ranged(all) : c.position = s
  BY RowsAreCandidates
<1> HIDE DEF all
<1>2. Allowed(all) \in Seq(Candidate) /\ \A c \in Ranged(Allowed(all)) : c.position = s
  BY <1>1, AllowedKeeps
<1>3. geo \in {Inactive, GeoDatabase}
  BY DEF ServeInv, SubscriptionTypeOK
<1> QED  BY <1>2, <1>3, ApplyAnswers DEF Contribution, all

\* What a concatenation holds, and where.
LEMMA ConcatHolds ==
  ASSUME NEW S, NEW x \in Seq(S), NEW y \in Seq(S)
  PROVE  /\ x \o y \in Seq(S) /\ DOMAIN (x \o y) = 1..(Len(x) + Len(y))
         /\ \A i \in 1..Len(x) : i \in DOMAIN (x \o y) /\ (x \o y)[i] = x[i]
         /\ \A i \in 1..Len(y) : Len(x) + i \in DOMAIN (x \o y) /\ (x \o y)[Len(x) + i] = y[i]
         /\ \A i \in DOMAIN (x \o y) : i \in 1..Len(x) \/ (i - Len(x) \in 1..Len(y) /\ Len(x) < i /\ (x \o y)[i] = y[i - Len(x)])
         /\ Ranged(x \o y) = Ranged(x) \cup Ranged(y)
<1> DEFINE z == x \o y
           m == Len(x)
           n == Len(y)
<1>1. /\ m \in Nat /\ n \in Nat /\ z \in Seq(S) /\ DOMAIN z = 1..(m + n)
      /\ \A i \in 1..(m + n) : z[i] = IF i <= m THEN x[i] ELSE y[i - m]
      /\ DOMAIN x = 1..m /\ DOMAIN y = 1..n
  OBVIOUS
<1> HIDE DEF z, m, n
<1>2. \A i \in 1..m : i \in DOMAIN z /\ z[i] = x[i]
  BY <1>1
<1>3. \A i \in 1..n : m + i \in DOMAIN z /\ z[m + i] = y[i]
  <2> SUFFICES ASSUME NEW i \in 1..n PROVE m + i \in DOMAIN z /\ z[m + i] = y[i]
    OBVIOUS
  <2>1. m + i \in 1..(m + n) /\ ~(m + i <= m) /\ (m + i) - m = i
    BY <1>1
  <2> QED  BY <1>1, <2>1
<1>4. \A i \in DOMAIN z : i \in 1..m \/ (i - m \in 1..n /\ m < i /\ z[i] = y[i - m])
  BY <1>1
<1>5. Ranged(z) = Ranged(x) \cup Ranged(y)
  <2>1. ASSUME NEW v \in Ranged(z)
        PROVE  v \in Ranged(x) \cup Ranged(y)
    <3>1. PICK i \in DOMAIN z : v = z[i]
      BY DEF Ranged
    <3> QED  BY <1>1, <1>2, <1>4, <3>1 DEF Ranged
  <2>2. ASSUME NEW v \in Ranged(x) \cup Ranged(y)
        PROVE  v \in Ranged(z)
    BY <1>1, <1>2, <1>3 DEF Ranged
  <2> QED  BY <2>1, <2>2
<1> QED  BY <1>1, <1>2, <1>3, <1>4, <1>5 DEF z, m, n

\* The members' contributions stand one after the other, by place.
LEMMA ConcatenatedOffers ==
  ASSUME ServeInv, \A s \in Sources : PipeOK(from_json(Merged(s)))
  PROVE  /\ Concatenated \in Seq(Candidate)
         /\ Ranged(Concatenated) = Offered
         /\ \A i, j \in DOMAIN Concatenated : i <= j => Concatenated[i].position <= Concatenated[j].position
<1> DEFINE n == Cardinality(Sources)
           T == Seq(Candidate)
           One(k, x) == x \o Contribution(k)
           step == [k \in 1..n |-> [x \in T |-> One(k, x)]]
           Whole(f) == f = [k \in 0..n |-> IF k = 0 THEN << >> ELSE f[k - 1] \o Contribution(k)]
<1>0. n \in Nat /\ Sources = 1..n
  BY SourceAssumption, FS_CardinalityType
<1>1. \A k \in 1..n : /\ Contribution(k) \in T
                      /\ \A c \in Ranged(Contribution(k)) : c.position = k
  BY <1>0, ContributionIsOrderly
<1>2. ASSUME NEW k \in 1..n, NEW x \in T
      PROVE  One(k, x) \in T
  BY <1>1
<1> HIDE DEF T, One, n
<1>3. step \in LoopBodies(n, T)
  BY <1>2 DEF LoopBodies
<1>4. PICK f \in [0..n -> T] : f[0] = << >> /\ \A k \in 1..n : f[k] = step[k][f[k - 1]]
  <2>1. << >> \in T
    BY DEF T
  <2> HIDE DEF step
  <2>2. PICK f : f \in Runs(n, T, << >>, step)
    BY <1>0, <1>3, <2>1, RunExists
  <2> QED  BY <2>2 DEF Runs
<1>5. \A k \in 1..n : f[k - 1] \in T /\ f[k] = One(k, f[k - 1])
  <2>1. \A k \in 1..n : k - 1 \in 0..n
    BY <1>0
  <2> QED  BY <1>4, <2>1
<1>6. f = [k \in 0..n |-> IF k = 0 THEN << >> ELSE One(k, f[k - 1])]
  <2>1. \A k \in 0..n : k = 0 \/ k \in 1..n
    BY <1>0
  <2>2. \A k \in 0..n : f[k] = IF k = 0 THEN << >> ELSE One(k, f[k - 1])
    BY <1>4, <1>5, <2>1
  <2> QED  BY <1>4, <2>2
<1> DEFINE upto == CHOOSE f_1 : Whole(f_1)
<1>7. Whole(upto)
  <2>1. Whole(f)
    BY <1>6 DEF One
  <2> HIDE DEF Whole
  <2> QED  BY <2>1, Zenon
<1>8. Concatenated = upto[n]
  BY Zenon DEF Concatenated, n
<1> HIDE DEF upto
<1>9. upto[0] = << >> /\ \A k \in 1..n : upto[k] = One(k, upto[k - 1])
  <2>1. 0 \in 0..n /\ \A k \in 1..n : k \in 0..n /\ k # 0
    BY <1>0
  <2> QED  BY <1>7, <2>1 DEF One
<1> DEFINE offered(k) == UNION {Ranged(Contribution(i)) : i \in 1..k}
           P(k) == /\ upto[k] \in T /\ Ranged(upto[k]) = offered(k)
                   /\ \A i, j \in DOMAIN upto[k] : i <= j => upto[k][i].position <= upto[k][j].position
                   /\ \A i \in DOMAIN upto[k] : upto[k][i].position <= k
           S0 == {k \in 0..n : P(k)}
<1>10. 0 \in S0
  <2>1. Ranged(<< >>) = {} /\ DOMAIN << >> = {} /\ << >> \in T
    BY DEF Ranged, T
  <2>2. offered(0) = {}
    OBVIOUS
  <2>3. 0 \in 0..n
    BY <1>0
  <2> HIDE DEF offered
  <2> QED  BY <1>9, <2>1, <2>2, <2>3
<1>11. ASSUME NEW k \in 1..n, k - 1 \in S0
       PROVE  k \in S0
  <2> DEFINE x == upto[k - 1]
             y == Contribution(k)
             z == upto[k]
  <2>1. k \in 0..n /\ k \in Nat /\ k - 1 \in Nat /\ P(k - 1)
    BY <1>0, <1>11
  <2>2. x \in Seq(Candidate) /\ y \in Seq(Candidate) /\ z = x \o y /\ \A c \in Ranged(y) : c.position = k
    BY <1>1, <1>9, <2>1 DEF T, One
  <2>3. offered(k) = offered(k - 1) \cup Ranged(y)
    <3>1. \A i : i \in 1..k <=> i \in 1..(k - 1) \/ i = k
      BY <2>1
    <3> QED  BY <3>1, Zenon
  <2>4. /\ Ranged(x) = offered(k - 1)
        /\ \A i, j \in DOMAIN x : i <= j => x[i].position <= x[j].position
        /\ \A i \in DOMAIN x : x[i].position <= k - 1
    BY <2>1
  <2> HIDE DEF offered, x, y, z
  <2>5. /\ z \in Seq(Candidate)
        /\ \A i \in 1..Len(x) : z[i] = x[i]
        /\ \A i \in DOMAIN z : i \in 1..Len(x) \/ (i - Len(x) \in 1..Len(y) /\ Len(x) < i /\ z[i] = y[i - Len(x)])
        /\ Ranged(z) = Ranged(x) \cup Ranged(y)
    BY <2>2, ConcatHolds
  <2>6. DOMAIN x = 1..Len(x) /\ DOMAIN y = 1..Len(y) /\ Len(x) \in Nat /\ Len(y) \in Nat /\ DOMAIN z \subseteq Nat
    BY <2>2, <2>5
  <2>7. \A i \in 1..Len(y) : y[i].position = k
    BY <2>2, <2>6 DEF Ranged
  <2>8. \A i \in DOMAIN x : x[i].position \in Nat
    <3>1. \A i \in DOMAIN x : x[i] \in Candidate
      BY <2>2
    <3>2. \A m : 1..m \subseteq Nat
      OBVIOUS
    <3> QED  BY <1>0, <3>1, <3>2 DEF Candidate
  <2>9. \A i \in DOMAIN z : z[i].position <= k
    BY <2>1, <2>4, <2>5, <2>6, <2>7, <2>8
  <2>10. ASSUME NEW i \in DOMAIN z, NEW j \in DOMAIN z, i <= j
         PROVE  z[i].position <= z[j].position
    <3>1. CASE j \in 1..Len(x)
      <4>1. i \in 1..Len(x)
        BY <2>5, <2>6, <2>10, <3>1
      <4>2. z[i] = x[i] /\ z[j] = x[j]
        BY <2>5, <3>1, <4>1
      <4>3. x[i].position <= x[j].position
        BY <2>4, <2>6, <2>10, <3>1, <4>1
      <4> QED  BY <4>2, <4>3
    <3>2. CASE j \notin 1..Len(x)
      <4>1. z[j].position = k
        BY <2>5, <2>7, <3>2
      <4> QED  BY <2>9, <4>1
    <3> QED  BY <3>1, <3>2
  <2>11. Ranged(z) = offered(k)
    BY <2>3, <2>4, <2>5
  <2>12. P(k)
    BY <2>5, <2>9, <2>10, <2>11 DEF z, T
  <2> HIDE DEF P
  <2> QED  BY <2>1, <2>12
<1>12. P(n)
  <2> HIDE DEF P
  <2>1. \A k \in 0..n : k \in S0
    <3> HIDE DEF S0
    <3> QED  BY <1>0, <1>10, <1>11, SetInduction
  <2>2. n \in 0..n
    BY <1>0
  <2> QED  BY <2>1, <2>2
<1>13. offered(n) = Offered
  BY <1>0 DEF Offered
<1> HIDE DEF offered
<1> QED  BY <1>8, <1>12, <1>13 DEF T

-----------------------------------------------------------------------------
(* What /sub answers.                                                       *)

\* While nothing is answered as corrupted, every pipeline a render compiles
\* is one the steps expect.
LEMMA RenderedPipesAreOK ==
  ASSUME ServeInv, ~Corrupted
  PROVE  PipeOK(from_json(finalize_config)) /\ \A s \in Sources : PipeOK(from_json(Merged(s)))
<1>1. Accepts(finalize_config) /\ \A s \in Sources : Accepts(Merged(s))
  BY DEF Corrupted
<1>2. PipeOK(from_json(finalize_config))
  BY <1>1, FinalizedIsAssembled, AcceptedPipesAreOK
<1>3. ASSUME NEW s \in Sources
      PROVE  PipeOK(from_json(Merged(s)))
  <2>1. pipelines[s] \in Documents /\ profile \in Documents
    BY DEF ServeInv, SubscriptionTypeOK
  <2>2. Assembled(Merged(s))
    BY <2>1, SavedIsAssembled, MergedIsAssembled DEF Merged
  <2> QED  BY <1>1, <2>2, AcceptedPipesAreOK
<1> QED  BY <1>2, <1>3

\* The earliest member's version of each fingerprint is what deduplication
\* keeps, and it keeps nothing else.
LEMMA DedupKeepsWinners ==
  ASSUME ServeInv, \A s \in Sources : PipeOK(from_json(Merged(s)))
  PROVE  Ranged(Dedup(Concatenated)) =
            {c \in Offered : \A d \in Offered :
                fingerprint_of(d.entry) = fingerprint_of(c.entry) => c.position <= d.position}
<1> DEFINE all == Concatenated
           fp(c) == fingerprint_of(c.entry)
           winners == {c \in Offered : \A d \in Offered : fp(d) = fp(c) => c.position <= d.position}
<1>1. /\ all \in Seq(Candidate) /\ Ranged(all) = Offered
      /\ \A i, j \in DOMAIN all : i <= j => all[i].position <= all[j].position
  BY ConcatenatedOffers
<1> HIDE DEF all
<1>2. /\ Ranged(Dedup(all)) \subseteq Offered
      /\ Prints(Ranged(Dedup(all))) = Prints(Offered)
      /\ \A c \in Ranged(Dedup(all)) : \E i \in DOMAIN all :
            c = all[i] /\ \A j \in DOMAIN all : fp(all[j]) = fp(c) => i <= j
  BY <1>1, DedupKeepsFirsts
<1>3. ASSUME NEW c \in Ranged(Dedup(all))
      PROVE  c \in winners
  <2>1. PICK i \in DOMAIN all : c = all[i] /\ \A j \in DOMAIN all : fp(all[j]) = fp(c) => i <= j
    BY <1>2
  <2>2. ASSUME NEW d \in Offered, fp(d) = fp(c)
        PROVE  c.position <= d.position
    <3>1. PICK j \in DOMAIN all : d = all[j]
      BY <1>1 DEF Ranged
    <3>2. i <= j
      BY <2>1, <2>2, <3>1
    <3> QED  BY <1>1, <2>1, <3>1, <3>2
  <2> QED  BY <1>2, <2>2
<1>4. ASSUME NEW c \in winners
      PROVE  c \in Ranged(Dedup(all))
  <2>1. c \in Offered /\ \A d \in Offered : fp(d) = fp(c) => c.position <= d.position
    OBVIOUS
  <2> HIDE DEF winners
  <2>2. PICK d \in Ranged(Dedup(all)) : fp(d) = fp(c)
    <3>1. fp(c) \in Prints(Ranged(Dedup(all)))
      BY <1>2, <2>1 DEF Prints
    <3> QED  BY <3>1 DEF Prints
  <2>3. d \in winners
    BY <1>3
  <2>4. d \in Offered /\ c.position <= d.position /\ d.position <= c.position
    BY <2>1, <2>2, <2>3 DEF winners
  <2>5. PICK s \in Sources : c \in Ranged(Contribution(s))
    BY <2>1 DEF Offered
  <2>6. PICK t \in Sources : d \in Ranged(Contribution(t))
    BY <2>4 DEF Offered
  <2>7. c.position = s /\ d.position = t /\ Distinct(Contribution(s))
    BY <2>5, <2>6, ContributionIsOrderly
  <2>8. s = t
    <3>1. s \in Int /\ t \in Int
      <4>1. \A n : 1..n \subseteq Int
        OBVIOUS
      <4> QED  BY <4>1, SourceAssumption
    <3> QED  BY <2>4, <2>7, <3>1
  <2>9. c = d
    BY <2>2, <2>5, <2>6, <2>7, <2>8 DEF Ranged, Distinct
  <2> QED  BY <2>9
<1> QED  BY <1>3, <1>4 DEF all

LEMMA OutputMatches == ServeInv => OutputMatchesMembers
<1> SUFFICES ASSUME ServeInv, ~Corrupted PROVE OutputMatchesMembers
  BY DEF OutputMatchesMembers
<1> DEFINE all == Concatenated
           pipe == from_json(finalize_config)
           out == finalize(pipe, all)
           winners == {c \in Offered : \A d \in Offered :
                          fingerprint_of(d.entry) = fingerprint_of(c.entry) => c.position <= d.position}
<1>1. PipeOK(pipe) /\ \A s \in Sources : PipeOK(from_json(Merged(s)))
  BY RenderedPipesAreOK
<1>2. all \in Seq(Candidate) /\ Ranged(all) = Offered /\ Ranged(Dedup(all)) = winners
  BY <1>1, ConcatenatedOffers, DedupKeepsWinners
<1> HIDE DEF all, pipe, winners
<1>3. /\ Dedup(all) \in Seq(Candidate) /\ Distinct(Dedup(all))
      /\ Prints(Ranged(Dedup(all))) = Prints(Ranged(all))
  BY <1>2, DedupKeepsFirsts
<1>4. Len(Dedup(all)) = Cardinality(Prints(Offered))
  BY <1>2, <1>3, DistinctPrints
<1>5. /\ out \in Seq(Candidate) /\ Distinct(out) /\ Ranged(out) \subseteq Ranged(Dedup(all))
      /\ \/ Len(out) = Len(Dedup(all))
         \/ Some(Len(out)) = pipe.limit.count /\ Len(out) < Len(Dedup(all))
      /\ \A i, j \in DOMAIN out : i < j => ~Outranks(pipe.sort, out[j], out[i])
      /\ \A c \in Ranged(Dedup(all)) \ Ranged(out) : \A d \in Ranged(out) : ~Outranks(pipe.sort, c, d)
  BY <1>1, <1>2, FinalizeAnswers DEF PipeOK
<1> HIDE DEF out
<1>6. Cardinality(Prints(Ranged(out))) = Len(out)
  BY <1>5, DistinctPrints
<1>7. /\ Ranged(out) \subseteq winners
      /\ \/ Len(out) = Cardinality(Prints(Offered))
         \/ Some(Len(out)) = pipe.limit.count /\ Len(out) < Cardinality(Prints(Offered))
      /\ \A i, j \in DOMAIN out : i < j => ~Outranks(pipe.sort, out[j], out[i])
      /\ \A c \in winners \ Ranged(out) : \A d \in Ranged(out) : ~Outranks(pipe.sort, c, d)
  BY <1>2, <1>4, <1>5
<1>8. render_sub = out
  BY DEF render_sub, out, pipe, all
<1> QED  BY <1>6, <1>7, <1>8, Zenon DEF OutputMatchesMembers, pipe, winners

-----------------------------------------------------------------------------
(* What /src answers is in /sub.                                            *)

LEMMA SourceIsWithin == ServeInv => SrcIsWithinSub
<1> SUFFICES ASSUME ServeInv, profile = None, countries = {},
                    \A s \in Sources : from_json(pipelines[s]).limit.count = None,
                    NEW s \in Sources
             PROVE  Prints(Ranged(render_src(s))) \subseteq Prints(Ranged(render_sub))
  BY DEF SrcIsWithinSub
<1> DEFINE pipe(t) == from_json(pipelines[t])
<1>1. \A t \in Sources : Merged(t) = pipelines[t] /\ PipeOK(pipe(t))
  <2> SUFFICES ASSUME NEW t \in Sources PROVE Merged(t) = pipelines[t] /\ PipeOK(pipe(t))
    OBVIOUS
  <2>1. Merged(t) = pipelines[t]
    BY DEF Merged, merge_configs
  <2>2. pipelines[t] \in Documents /\ Accepts(pipelines[t])
    BY DEF ServeInv, SubscriptionTypeOK, SavedAccepted
  <2> QED  BY <2>1, <2>2, SavedIsAssembled, AcceptedPipesAreOK
<1>2. geo \in {Inactive, GeoDatabase}
  BY DEF ServeInv, SubscriptionTypeOK
<1> DEFINE all == rows_to_candidates(s)
           live == {i \in DOMAIN all : all[i].status \in {"alive", "ready"}}
           some == Entries(all, live)
<1>3. all \in Seq(Candidate) /\ \A c \in Ranged(all) : c.position = s
  BY RowsAreCandidates
<1>4. live \in SUBSET DOMAIN all
  OBVIOUS
<1>5. render_src(s) = apply(pipe(s), some, geo) /\ Contribution(s) = apply(pipe(s), all, geo)
  BY <1>1, Zenon DEF render_src, Contribution, Allowed
<1> HIDE DEF all, live
<1>6. some \in Seq(Candidate) /\ Ranged(some) \subseteq Ranged(all)
  BY <1>3, <1>4, SelectionKeeps
<1> HIDE DEF some
<1>7. Ranged(apply_per_source(pipe(s), some, geo)) \subseteq Ranged(apply_per_source(pipe(s), all, geo))
  <2>1. \A cs \in {some, all} : \A x : x \in Ranged(apply_per_source(pipe(s), cs, geo)) <=>
           \E c \in Ranged(cs) : Survives(pipe(s), fill_missing_asns(c, geo)) /\ x = Outcome(pipe(s), c, geo)
    BY <1>1, <1>2, <1>3, <1>6, ApplyKeepsSurvivors DEF PipeOK
  <2> QED  BY <1>6, <2>1
<1>8. Prints(Ranged(render_src(s))) \subseteq Prints(Ranged(Contribution(s)))
  <2>1. \A c \in Ranged(some) : c.position = s
    BY <1>3, <1>6
  <2>2. /\ Prints(Ranged(render_src(s))) = Prints(Ranged(apply_per_source(pipe(s), some, geo)))
        /\ Prints(Ranged(Contribution(s))) = Prints(Ranged(apply_per_source(pipe(s), all, geo)))
    BY <1>1, <1>2, <1>3, <1>5, <1>6, <2>1, ApplyAnswers
  <2> QED  BY <1>7, <2>2 DEF Prints
<1>9. Contribution(s) \in Seq(Candidate) /\ Prints(Ranged(Contribution(s))) \subseteq Prints(Offered)
  <2>1. Ranged(Contribution(s)) \subseteq Offered
    BY DEF Offered
  <2> QED  BY <1>1, <2>1, ContributionIsOrderly DEF Prints
<1> DEFINE final == from_json(finalize_config)
<1>10. PipeOK(final) /\ final.limit.count = None
  <2> DEFINE doc == Value(finalize_config)
             keys == {"version"} \cup {x \in {"sort"} : source_sort # None}
  <2>1. ~SortExplicit(profile)
    BY DEF SortExplicit
  <2> DEFINE put == [k \in keys |-> IF k = "sort" /\ source_sort # None THEN Value(source_sort) ELSE [version |-> 1][k]]
             base == IF profile = None THEN [version |-> 1] ELSE Value(profile)
             full == [k \in DOMAIN base \cup {x \in {"sort"} : source_sort # None} |->
                         IF k = "sort" /\ source_sort # None THEN Value(source_sort) ELSE base[k]]
  <2>2. finalize_config = Some(put)
    <3>1. finalize_config = Some(full)
      BY Zenon DEF finalize_config
    <3>2. base = [version |-> 1] /\ DOMAIN base = {"version"}
      OBVIOUS
    <3> HIDE DEF base
    <3>3. full = put
      BY <3>2
    <3> QED  BY <3>1, <3>3
  <2>3. finalize_config # None /\ doc = put /\ DOMAIN put = keys
    BY <2>2, ValueOf DEF Some, None
  <2> HIDE DEF doc, put
  <2>4. ~Has(doc, "limit") /\ ~Has(doc, "rename")
    BY <2>3 DEF Has
  <2>5. final.limit = Default.limit /\ final.rename = Default.rename
    BY <2>4, SectionOf DEF doc
  <2>6. Default.limit = NoCap /\ Default.rename = << >> /\ Default.sort = SortDefaults
    BY DEF Default
  <2>7. SortOK(final.sort)
    <3>1. CASE source_sort = None
      <4>1. ~Has(doc, "sort")
        BY <2>3, <3>1 DEF Has
      <4>2. final.sort = SortDefaults
        BY <2>6, <4>1, SectionOf DEF doc
      <4> QED  BY <4>2 DEF SortOK, SortDefaults, SortBy
    <3>2. CASE source_sort # None
      <4> DEFINE first == CHOOSE t \in Sorting : \A u \in Sorting : t <= u
                 option == pipelines[first]
      <4>1. Sorting # {}
        BY <3>2 DEF source_sort
      <4>2. Sorting \in SUBSET Nat /\ Sorting \subseteq Sources
        <5>1. \A n : 1..n \subseteq Nat
          OBVIOUS
        <5> QED  BY <5>1, SourceAssumption DEF Sorting
      <4>3. first \in Sources
        <5>1. \E t \in Sorting : \A u \in Sorting : t <= u
          BY <4>1, <4>2, LeastNat
        <5> QED  BY <4>2, <5>1
      <4>4. source_sort = IF SortExplicit(option) THEN Some(Value(option).sort) ELSE None
        BY <2>1, <4>1, Zenon DEF source_sort
      <4> HIDE DEF first
      <4>5. SortExplicit(option) /\ source_sort = Some(Value(option).sort)
        BY <3>2, <4>4
      <4>6. PipeOK(from_json(option))
        BY <1>1, <4>3
      <4> HIDE DEF option
      <4>7. from_json(option).sort = Value(option).sort
        BY <4>5, SectionOf DEF SortExplicit
      <4>8. Has(doc, "sort") /\ doc.sort = Value(option).sort
        <5>1. "sort" \in keys
          BY <3>2
        <5>2. put.sort = Value(source_sort)
          BY <3>2, <5>1 DEF put
        <5> QED  BY <2>3, <4>5, <5>1, <5>2, ValueOf DEF Has, Some
      <4>9. final.sort = doc.sort
        BY <2>3, <4>8, SectionOf DEF doc
      <4> QED  BY <4>6, <4>7, <4>8, <4>9 DEF PipeOK
    <3> QED  BY <3>1, <3>2
  <2> HIDE DEF final
  <2> QED  BY <2>5, <2>6, <2>7 DEF PipeOK, LimitOK, NoCap
<1>11. /\ Concatenated \in Seq(Candidate) /\ Ranged(Concatenated) = Offered
  BY <1>1, ConcatenatedOffers
<1> HIDE DEF final
<1>12. Prints(Ranged(finalize(final, Concatenated))) = Prints(Offered)
  <2>1. Ranged(finalize(final, Concatenated)) = Ranged(Dedup(Concatenated))
    BY <1>10, <1>11, FinalizeAnswers DEF PipeOK
  <2> QED  BY <1>11, <2>1, DedupKeepsFirsts
<1>13. render_sub = finalize(final, Concatenated)
  BY DEF render_sub, final
<1> QED  BY <1>8, <1>9, <1>12, <1>13

\* No entry wears another host's facts.
LEMMA StampsBelong == ServeInv => StampsBelongToHosts
<1> SUFFICES ASSUME ServeInv, NEW r \in RowsOf PROVE r.stamp \subseteq resolve(GeoDatabase, r.entry.host)
  BY DEF StampsBelongToHosts
<1>1. table \in Seq(LawfulRow(geo))
  BY DEF ServeInv, TableInv
<1>2. r \in LawfulRow(geo)
  BY <1>1 DEF RowsOf, Ranged
<1> QED  BY <1>2 DEF LawfulRow

\* Both endpoints answer what the members contribute, each entry under the
\* facts of its own host (serve.rs render_sub and render_src, pipeline.rs
\* finalize): for every profile, feed and configuration.
THEOREM SubscriptionMatches == ServeSpec => []SubscriptionMatchesMembers
<1>1. ServeInv => SubscriptionMatchesMembers
  BY OutputMatches, SourceIsWithin, StampsBelong DEF SubscriptionMatchesMembers
<1> QED  BY <1>1, ServeInvariant, PTL
=============================================================================
