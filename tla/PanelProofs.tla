------------------------------ MODULE PanelProofs ------------------------------
(***************************************************************************)
(* Proofs about Panel for every database, every number of operators and     *)
(* every chain of their requests: the tables stay related, no form writes a *)
(* mask in place of a secret, an import that nobody disturbs is never       *)
(* stopped by what its file says, and a backup restores all it was taken of.*)
(* And about PipelineEditor, for every document and every chain of edits: a *)
(* form keeps what a configuration means.                                   *)
(* About Settings: values keep their kind from form to file to live view,   *)
(* and one save at most is between load and commit.                         *)
(***************************************************************************)
EXTENDS MCPanel, PositionsProofs

Sound(d) == IsDatabase(d) /\ Related(d)

(* The statements of the repositories keep a sound database sound.          *)

\* Ids start at 1, so a row to be created has no id yet that it could be told by.
LEMMA SlugOfNewRow ==
  ASSUME NEW rows, NEW slug, 0 \notin DOMAIN rows, SlugFree(rows, 0, slug)
  PROVE  slug = NoSlug \/ \A id \in DOMAIN rows : rows[id].slug # slug
  BY DEF SlugFree

\* A table whose slugs are unique, after one row was written.
Unique(rows) == \A id \in DOMAIN rows : SlugFree(rows, id, rows[id].slug)
LEMMA UniqueAfterWrite ==
  ASSUME NEW rows, NEW id, NEW row, Unique(rows), SlugFree(rows, id, row.slug)
  PROVE  /\ Unique(With(rows, id, row))
         /\ id \in DOMAIN rows => Unique([rows EXCEPT ![id] = row])
<1>1. Unique(With(rows, id, row))
  BY DEF Unique, SlugFree, With
<1>2. id \in DOMAIN rows => Unique([rows EXCEPT ![id] = row])
  BY DEF Unique, SlugFree
<1> QED  BY <1>1, <1>2

\* create_source.
LEMMA CreatedSource ==
  ASSUME NEW d, Sound(d), NEW row, IsSource(row), SlugFree(d.sources, 0, row.slug)
  PROVE  Sound(create_source(d, row))
<1> DEFINE new == create_source(d, row)
<1>0. /\ DOMAIN d = {"sources", "profiles", "composition", "next"} /\ d.next \in Nat \ {0}
      /\ \A id \in DOMAIN d.sources \cup DOMAIN d.profiles : id \in 1..d.next - 1
      /\ Unique(d.sources) /\ Unique(d.profiles)
  BY DEF Sound, IsDatabase, Related, Unique
<1>1. /\ DOMAIN new = DOMAIN d /\ new.next = d.next + 1 /\ new.sources = With(d.sources, d.next, row)
      /\ new.profiles = d.profiles /\ new.composition = d.composition
  BY <1>0 DEF create_source
<1> HIDE DEF new
<1>2. d.next \notin DOMAIN d.sources /\ d.next \notin DOMAIN d.profiles /\ 0 \notin DOMAIN d.sources
  BY <1>0
<1>3. SlugFree(d.sources, d.next, row.slug)
  BY <1>2, SlugOfNewRow DEF SlugFree
<1>4. Unique(new.sources)
  <2>1. Unique(With(d.sources, d.next, row))
    BY <1>0, <1>3, UniqueAfterWrite
  <2> QED  BY <1>1, <2>1
<1>5. /\ DOMAIN new.sources = DOMAIN d.sources \cup {d.next}
      /\ \A id \in DOMAIN d.sources : new.sources[id] = d.sources[id]
      /\ new.sources[d.next] = row
  BY <1>1, <1>2 DEF With
<1>6. IsDatabase(new)
  BY <1>0, <1>1, <1>5 DEF Sound, IsDatabase
<1>7. \A id \in DOMAIN new.sources \cup DOMAIN new.profiles : id \in 1..new.next - 1
  BY <1>0, <1>1, <1>5
<1>8. DOMAIN new.sources \cap DOMAIN new.profiles = {}
  BY <1>1, <1>2, <1>5 DEF Sound, Related
<1>9. \A p \in DOMAIN new.profiles : DOMAIN new.composition[p] \subseteq DOMAIN new.sources
  BY <1>1, <1>5 DEF Sound, Related
<1>10. Related(new)
  BY <1>0, <1>1, <1>4, <1>7, <1>8, <1>9 DEF Sound, Related, Unique
<1> QED  BY <1>6, <1>10 DEF Sound, new

\* create_profile.
LEMMA CreatedProfile ==
  ASSUME NEW d, Sound(d), NEW row, IsProfile(row), ~IsMask(row.token), SlugFree(d.profiles, 0, row.slug)
  PROVE  Sound(create_profile(d, row)) /\ d.next \in DOMAIN create_profile(d, row).profiles
<1> DEFINE new == create_profile(d, row)
<1>0. /\ DOMAIN d = {"sources", "profiles", "composition", "next"} /\ d.next \in Nat \ {0}
      /\ \A id \in DOMAIN d.sources \cup DOMAIN d.profiles : id \in 1..d.next - 1
      /\ Unique(d.sources) /\ Unique(d.profiles) /\ DOMAIN d.composition = DOMAIN d.profiles
  BY DEF Sound, IsDatabase, Related, Unique
<1>1. /\ DOMAIN new = DOMAIN d /\ new.next = d.next + 1 /\ new.profiles = With(d.profiles, d.next, row)
      /\ new.composition = With(d.composition, d.next, << >>) /\ new.sources = d.sources
  BY <1>0 DEF create_profile
<1> HIDE DEF new
<1>2. d.next \notin DOMAIN d.sources /\ d.next \notin DOMAIN d.profiles /\ 0 \notin DOMAIN d.profiles
  BY <1>0
<1>3. SlugFree(d.profiles, d.next, row.slug)
  BY <1>2, SlugOfNewRow DEF SlugFree
<1>4. Unique(new.profiles)
  <2>1. Unique(With(d.profiles, d.next, row))
    BY <1>0, <1>3, UniqueAfterWrite
  <2> QED  BY <1>1, <2>1
<1>5. /\ DOMAIN new.profiles = DOMAIN d.profiles \cup {d.next}
      /\ \A id \in DOMAIN d.profiles : new.profiles[id] = d.profiles[id]
      /\ new.profiles[d.next] = row
  BY <1>1, <1>2 DEF With
<1>6. /\ DOMAIN new.composition = DOMAIN d.profiles \cup {d.next}
      /\ \A id \in DOMAIN d.profiles : new.composition[id] = d.composition[id]
      /\ new.composition[d.next] = << >>
  BY <1>0, <1>1, <1>2 DEF With
<1>7. IsDatabase(new)
  <2>1. DOMAIN << >> = {}
    OBVIOUS
  <2> QED  BY <1>0, <1>1, <1>5, <1>6, <2>1 DEF Sound, IsDatabase
<1>8. \A id \in DOMAIN new.sources \cup DOMAIN new.profiles : id \in 1..new.next - 1
  BY <1>0, <1>1, <1>5
<1>9. DOMAIN new.sources \cap DOMAIN new.profiles = {}
  BY <1>1, <1>2, <1>5 DEF Sound, Related
<1>10. \A p \in DOMAIN new.profiles : DOMAIN new.composition[p] \subseteq DOMAIN new.sources
  <2>1. DOMAIN << >> = {}
    OBVIOUS
  <2> QED  BY <1>1, <1>5, <1>6, <2>1 DEF Sound, Related
<1>11. Related(new)
  BY <1>0, <1>1, <1>4, <1>5, <1>6, <1>8, <1>9, <1>10 DEF Sound, Related, Unique
<1> QED  BY <1>5, <1>7, <1>11 DEF Sound, new

\* update_source and update_profile.
LEMMA UpdatedSource ==
  ASSUME NEW d, Sound(d), NEW id \in DOMAIN d.sources, NEW row, IsSource(row), SlugFree(d.sources, id, row.slug)
  PROVE  Sound(update_source(d, id, row))
<1> DEFINE new == update_source(d, id, row)
<1>1. /\ DOMAIN new = DOMAIN d /\ new.next = d.next /\ new.sources = [d.sources EXCEPT ![id] = row]
      /\ new.profiles = d.profiles /\ new.composition = d.composition
  BY DEF update_source, Sound, IsDatabase
<1> HIDE DEF new
<1>2. Unique(new.sources)
  <2>1. Unique(d.sources)
    BY DEF Sound, Related, Unique
  <2>2. Unique([d.sources EXCEPT ![id] = row])
    BY <2>1, UniqueAfterWrite
  <2> QED  BY <1>1, <2>2
<1>3. IsDatabase(new)
  BY <1>1 DEF Sound, IsDatabase
<1>4. Related(new)
  BY <1>1, <1>2 DEF Sound, Related, Unique
<1> QED  BY <1>3, <1>4 DEF Sound, new

LEMMA UpdatedProfile ==
  ASSUME NEW d, Sound(d), NEW id \in DOMAIN d.profiles, NEW row, IsProfile(row), ~IsMask(row.token),
         SlugFree(d.profiles, id, row.slug)
  PROVE  Sound(update_profile(d, id, row))
<1> DEFINE new == update_profile(d, id, row)
<1>1. /\ DOMAIN new = DOMAIN d /\ new.next = d.next /\ new.profiles = [d.profiles EXCEPT ![id] = row]
      /\ new.sources = d.sources /\ new.composition = d.composition
  BY DEF update_profile, Sound, IsDatabase
<1> HIDE DEF new
<1>2. Unique(new.profiles)
  <2>1. Unique(d.profiles)
    BY DEF Sound, Related, Unique
  <2>2. Unique([d.profiles EXCEPT ![id] = row])
    BY <2>1, UniqueAfterWrite
  <2> QED  BY <1>1, <2>2
<1>3. IsDatabase(new)
  BY <1>1 DEF Sound, IsDatabase
<1>4. Related(new)
  BY <1>1, <1>2 DEF Sound, Related, Unique
<1> QED  BY <1>3, <1>4 DEF Sound, new

\* set_sources, under the constraints of profile_sources.
LEMMA ComposedProfile ==
  ASSUME NEW d, Sound(d), NEW id, NEW members, Composable(d, id, members),
         \A i \in DOMAIN members : members[i].position \in Nat
  PROVE  Sound(set_sources(d, id, members))
<1> DEFINE new == set_sources(d, id, members)
           placed == {members[i].source : i \in DOMAIN members}
<1>1. /\ DOMAIN new = DOMAIN d /\ new.next = d.next /\ new.profiles = d.profiles /\ new.sources = d.sources
      /\ DOMAIN new.composition = DOMAIN d.composition
      /\ \A p \in DOMAIN d.composition : p # id => new.composition[p] = d.composition[p]
      /\ id \in DOMAIN d.composition =>
            /\ DOMAIN new.composition[id] = placed
            /\ \A s \in placed : \E i \in DOMAIN members : new.composition[id][s] = members[i].position
  BY DEF set_sources, Sound, IsDatabase
<1> HIDE DEF new
<1>2. placed \subseteq DOMAIN d.sources
  BY DEF Composable
<1> HIDE DEF placed
<1>3. IsDatabase(new)
  BY <1>1 DEF Sound, IsDatabase
<1>4. \A p \in DOMAIN new.profiles : DOMAIN new.composition[p] \subseteq DOMAIN new.sources
  BY <1>1, <1>2 DEF Sound, Related
<1>5. Related(new)
  BY <1>1, <1>4 DEF Sound, Related
<1> QED  BY <1>3, <1>5 DEF Sound, new

\* delete_source takes its memberships along, delete_profile its composition.
LEMMA DeletedSource ==
  ASSUME NEW d, Sound(d), NEW id
  PROVE  Sound(delete_source(d, id))
<1> DEFINE new == delete_source(d, id)
<1>1. /\ DOMAIN new = DOMAIN d /\ new.next = d.next /\ new.profiles = d.profiles
      /\ DOMAIN new.sources = DOMAIN d.sources \ {id}
      /\ \A s \in DOMAIN new.sources : new.sources[s] = d.sources[s]
      /\ DOMAIN new.composition = DOMAIN d.composition
      /\ \A p \in DOMAIN d.composition :
            /\ DOMAIN new.composition[p] = DOMAIN d.composition[p] \ {id}
            /\ \A s \in DOMAIN new.composition[p] : new.composition[p][s] = d.composition[p][s]
  BY DEF delete_source, Restrict, Sound, IsDatabase
<1> HIDE DEF new
<1>2. IsDatabase(new)
  BY <1>1 DEF Sound, IsDatabase
<1>3. Related(new)
  BY <1>1 DEF Sound, Related, SlugFree
<1> QED  BY <1>2, <1>3 DEF Sound, new

LEMMA DeletedProfile ==
  ASSUME NEW d, Sound(d), NEW id
  PROVE  Sound(delete_profile(d, id))
<1> DEFINE new == delete_profile(d, id)
<1>1. /\ DOMAIN new = DOMAIN d /\ new.next = d.next /\ new.sources = d.sources
      /\ DOMAIN new.profiles = DOMAIN d.profiles \ {id}
      /\ \A p \in DOMAIN new.profiles : new.profiles[p] = d.profiles[p]
      /\ DOMAIN new.composition = DOMAIN d.composition \ {id}
      /\ \A p \in DOMAIN new.composition : new.composition[p] = d.composition[p]
  BY DEF delete_profile, Restrict, Sound, IsDatabase
<1> HIDE DEF new
<1>2. IsDatabase(new)
  BY <1>1 DEF Sound, IsDatabase
<1>3. Related(new)
  BY <1>1 DEF Sound, Related, SlugFree
<1> QED  BY <1>2, <1>3 DEF Sound, new

-----------------------------------------------------------------------------
(* The header lines of a source form.                                       *)

\* Every line that stands for an opened header shows its mask.
Shown(opened, lines, from) ==
    /\ IsFiniteSet(DOMAIN lines)
    /\ DOMAIN from = DOMAIN lines
    /\ \A k \in DOMAIN lines : \A h \in from[k] : h \in DOMAIN opened /\ lines[k] = mask_secret(opened[h])

\* source_edit_form.
LEMMA OpenedLines ==
  ASSUME NEW opened, IsFiniteSet(DOMAIN opened)
  PROVE  Shown(opened, MaskedHeaders(opened), [k \in DOMAIN opened |-> {k}])
  BY DEF Shown, MaskedHeaders

\* One edit: a line dropped, renamed or retyped.
LEMMA EditedLines ==
  ASSUME NEW opened, NEW lines, NEW from, Shown(opened, lines, from), NEW edit \in HeaderEdits(lines, from)
  PROVE  Shown(opened, edit.lines, edit.from)
<1> DEFINE keys == DOMAIN lines
<1>0. /\ IsFiniteSet(keys) /\ DOMAIN from = keys
      /\ \A k \in keys : \A h \in from[k] : h \in DOMAIN opened /\ lines[k] = mask_secret(opened[h])
  BY DEF Shown
<1>1. CASE edit = [lines |-> lines, from |-> from]
  BY <1>1
<1>2. ASSUME NEW k \in keys, edit = [lines |-> Restrict(lines, keys \ {k}), from |-> Restrict(from, keys \ {k})]
      PROVE  Shown(opened, edit.lines, edit.from)
  <2>1. IsFiniteSet(keys \ {k})
    BY <1>0, FS_RemoveElement
  <2> QED  BY <1>0, <1>2, <2>1 DEF Shown, Restrict
<1>3. ASSUME NEW old \in keys, NEW new, edit = [lines |-> RenamedLine(lines, old, new), from |-> RenamedLine(from, old, new)]
      PROVE  Shown(opened, edit.lines, edit.from)
  <2>1. IsFiniteSet((keys \ {old}) \cup {new})
    BY <1>0, FS_RemoveElement, FS_AddElement
  <2>2. \A n \in (keys \ {old}) \cup {new} : (IF n = new THEN old ELSE n) \in keys
    OBVIOUS
  <2> QED  BY <1>0, <1>3, <2>1, <2>2 DEF Shown, RenamedLine
<1>4. ASSUME NEW k \in keys, NEW v \in Typed,
             edit = [lines |-> [lines EXCEPT ![k] = v], from |-> [from EXCEPT ![k] = {}]]
      PROVE  Shown(opened, edit.lines, edit.from)
  BY <1>0, <1>4 DEF Shown
<1>5. \/ edit = [lines |-> lines, from |-> from]
      \/ \E k \in keys : edit = [lines |-> Restrict(lines, keys \ {k}), from |-> Restrict(from, keys \ {k})]
      \/ \E k \in keys, new \in keys \cup {FreshKey} :
            edit = [lines |-> RenamedLine(lines, k, new), from |-> RenamedLine(from, k, new)]
      \/ \E k \in keys, v \in Typed : edit = [lines |-> [lines EXCEPT ![k] = v], from |-> [from EXCEPT ![k] = {}]]
  BY DEF HeaderEdits
<1> QED  BY <1>1, <1>2, <1>3, <1>4, <1>5

\* restore_masked_headers: with the headers stored as they were opened, a line
\* gets its secret back, or stays a mask that more than one secret has.
LEMMA RestoredLines ==
  ASSUME NEW opened, NEW lines, NEW from, Shown(opened, lines, from),
         NEW stored, IsFiniteSet(DOMAIN stored)
  PROVE  LET headers == restore_masked_headers(lines, stored)
         IN  /\ IsFiniteSet(DOMAIN headers)
             /\ stored = opened => KeptSecrets(opened, headers, from)
<1> DEFINE headers == restore_masked_headers(lines, stored)
           under(mask) == {s \in Range(stored) : mask_secret(s) = mask}
<1>0. /\ IsFiniteSet(DOMAIN lines) /\ DOMAIN from = DOMAIN lines
      /\ \A k \in DOMAIN lines : \A h \in from[k] : h \in DOMAIN opened /\ lines[k] = mask_secret(opened[h])
  BY DEF Shown
<1>1. ASSUME NEW mask
      PROVE  /\ OnlySecret(stored, mask) => /\ (CHOOSE s \in Range(stored) : mask_secret(s) = mask) \in under(mask)
                                            /\ \A s, t \in under(mask) : s = t
             /\ under(mask) # {} /\ ~OnlySecret(stored, mask) => \E s, t \in under(mask) : s # t
  <2>1. IsFiniteSet(under(mask))
    <3>1. [k \in DOMAIN stored |-> stored[k]] \in Surjection(DOMAIN stored, Range(stored))
      BY DEF Surjection, Range
    <3>2. IsFiniteSet(Range(stored))
      BY <1>0, <3>1, FS_Surjection
    <3> QED  BY <3>2, FS_Subset
  <2>2. OnlySecret(stored, mask) <=> \E s : under(mask) = {s}
    BY <2>1, FS_Singleton DEF OnlySecret
  <2>3. under(mask) \subseteq Range(stored) /\ \A s \in Range(stored) : mask_secret(s) = mask <=> s \in under(mask)
    OBVIOUS
  <2> HIDE DEF under
  <2>4. ASSUME OnlySecret(stored, mask)
        PROVE  (CHOOSE s \in Range(stored) : mask_secret(s) = mask) \in under(mask)
    <3>1. \E s \in Range(stored) : mask_secret(s) = mask
      BY <2>2, <2>3, <2>4
    <3> QED  BY <2>3, <3>1
  <2>5. ASSUME under(mask) # {}, ~OnlySecret(stored, mask)
        PROVE  \E s, t \in under(mask) : s # t
    <3>1. PICK s : s \in under(mask)
      BY <2>5
    <3>2. under(mask) # {s}
      BY <2>2, <2>5
    <3> QED  BY <3>1, <3>2
  <2>6. OnlySecret(stored, mask) => \A s, t \in under(mask) : s = t
    BY <2>2
  <2> QED  BY <2>4, <2>5, <2>6
<1>2. ASSUME NEW k \in DOMAIN lines
      PROVE  \/ k \in DOMAIN stored /\ lines[k] = mask_secret(stored[k]) /\ headers[k] = stored[k]
             \/ /\ ~(k \in DOMAIN stored /\ lines[k] = mask_secret(stored[k]))
                /\ OnlySecret(stored, lines[k])
                /\ headers[k] = CHOOSE s \in Range(stored) : mask_secret(s) = lines[k]
             \/ /\ ~(k \in DOMAIN stored /\ lines[k] = mask_secret(stored[k]))
                /\ ~OnlySecret(stored, lines[k]) /\ headers[k] = lines[k]
  BY DEF restore_masked_headers
<1>3. DOMAIN headers = DOMAIN lines
  BY DEF restore_masked_headers
<1>4. \A mask, s : s \in under(mask) <=> s \in Range(stored) /\ mask_secret(s) = mask
  OBVIOUS
<1> HIDE DEF headers, under
<1>5. ASSUME stored = opened, NEW k \in DOMAIN from, NEW h \in from[k]
      PROVE  /\ h = k => headers[k] = opened[k]
             /\ h # k /\ k \notin DOMAIN opened =>
                   \/ headers[k] = opened[h]
                   \/ headers[k] = mask_secret(opened[h])
                      /\ \E g \in DOMAIN opened : opened[g] # opened[h] /\ mask_secret(opened[g]) = mask_secret(opened[h])
  <2>1. h \in DOMAIN opened /\ lines[k] = mask_secret(opened[h]) /\ k \in DOMAIN lines
    BY <1>0, <1>5
  <2>2. opened[h] \in under(lines[k])
    BY <1>4, <1>5, <2>1 DEF Range
  <2>3. h = k => headers[k] = opened[k]
    BY <1>2, <1>5, <2>1
  <2>4. CASE OnlySecret(stored, lines[k])
    BY <1>1, <1>2, <1>5, <2>1, <2>2, <2>3, <2>4
  <2>5. CASE ~OnlySecret(stored, lines[k])
    <3>1. PICK s \in under(lines[k]) : s # opened[h]
      BY <1>1, <2>2, <2>5
    <3>2. PICK g \in DOMAIN opened : opened[g] = s
      BY <1>4, <1>5, <3>1 DEF Range
    <3>3. mask_secret(opened[g]) = mask_secret(opened[h])
      BY <1>4, <2>1, <3>1, <3>2
    <3> QED  BY <1>2, <1>5, <2>1, <2>3, <2>5, <3>1, <3>2, <3>3
  <2> QED  BY <2>4, <2>5
<1> QED  BY <1>0, <1>3, <1>5 DEF KeptSecrets, headers

-----------------------------------------------------------------------------
(* Import.                                                                  *)

\* What is left of a list after its head.
LEMMA TailOf ==
  ASSUME NEW s, IsList(s), s # << >>
  PROVE  /\ 1 \in DOMAIN s /\ Head(s) = s[1] /\ IsList(Tail(s))
         /\ \A i \in DOMAIN Tail(s) : i + 1 \in DOMAIN s /\ Tail(s)[i] = s[i + 1]
<1> DEFINE S == Range(s)
<1>1. s \in Seq(S) /\ Len(s) \in Nat \ {0} /\ DOMAIN s = 1..Len(s)
  BY DEF IsList
<1> HIDE DEF S
<1>2. Tail(s) \in Seq(S) /\ Len(Tail(s)) = Len(s) - 1
  BY <1>1
<1>3. \A i \in DOMAIN Tail(s) : i + 1 \in DOMAIN s /\ Tail(s)[i] = s[i + 1]
  BY <1>1, <1>2
<1>4. Tail(s) \in Seq(Range(Tail(s)))
  <2> DEFINE t == Tail(s)
             T == Range(t)
  <2>1. t \in Seq(S) /\ DOMAIN t = 1..Len(t)
    BY <1>2
  <2> HIDE DEF t
  <2>2. \A i \in 1..Len(t) : t[i] \in T
    BY <2>1 DEF Range
  <2> HIDE DEF T
  <2>3. t \in Seq(T)
    BY <2>1, <2>2
  <2> QED  BY <2>3 DEF t, T
<1> QED  BY <1>1, <1>3, <1>4 DEF IsList

\* A listing by rank is a list.
LEMMA ListingIsList ==
  ASSUME NEW f, NEW n \in Nat, f = [k \in 1..n |-> f[k]]
  PROVE  IsList(f)
<1>1. \A k \in 1..n : f[k] \in Range(f)
  BY DEF Range
<1> QED  BY <1>1 DEF IsList

\* What a job still has to write.
JobOK(job) ==
    /\ DOMAIN job = {"sources", "profiles", "id", "pending", "sourceSlugs", "profileSlugs"}
    /\ IsFile(job)
    /\ \A i \in DOMAIN job.profiles : ~IsMask(job.profiles[i].row.token)
    /\ job.pending # << >> => \A i \in DOMAIN job.pending[1].members : job.pending[1].members[i].position \in Nat

\* What the job of an import that nobody disturbed knows of the database.
JobFits(d, job) ==
    /\ SlugsOf(d.sources) \subseteq job.sourceSlugs
    /\ SlugsOf(d.profiles) \subseteq job.profileSlugs
    /\ \A r \in DOMAIN job.id : job.id[r] \in DOMAIN d.sources
    /\ \A q, r \in DOMAIN job.id : job.id[q] = job.id[r] => q = r
    /\ job.pending # << >> => Composable(d, job.pending[1].id, job.pending[1].members)

\* The ids of a sound database are finitely many.
LEMMA TablesAreFinite ==
  ASSUME NEW d, Sound(d)
  PROVE  /\ IsFiniteSet(DOMAIN d.sources) /\ DOMAIN d.sources \in SUBSET Nat
         /\ IsFiniteSet(DOMAIN d.profiles) /\ DOMAIN d.profiles \in SUBSET Nat
         /\ \A p \in DOMAIN d.profiles : IsFiniteSet(DOMAIN d.composition[p])
<1>1. d.next \in Nat \ {0} /\ \A id \in DOMAIN d.sources \cup DOMAIN d.profiles : id \in 1..d.next - 1
  BY DEF Sound, IsDatabase, Related
<1>2. IsFiniteSet(1..d.next - 1)
  <2>1. d.next - 1 \in Int
    BY <1>1
  <2> QED  BY <2>1, FS_Interval
<1>3. IsFiniteSet(DOMAIN d.sources) /\ IsFiniteSet(DOMAIN d.profiles)
  BY <1>1, <1>2, FS_Subset
<1>4. \A p \in DOMAIN d.profiles : DOMAIN d.composition[p] \subseteq DOMAIN d.sources
  BY DEF Sound, Related
<1> QED  BY <1>1, <1>3, <1>4, FS_Subset

\* The lists are those of the ids, each once.
LEMMA IdsInOrder ==
  ASSUME NEW d, Sound(d)
  PROVE  /\ Cardinality(DOMAIN d.sources) \in Nat /\ Cardinality(DOMAIN d.profiles) \in Nat
         /\ DOMAIN InOrder(d.sources) = 1..Cardinality(DOMAIN d.sources)
         /\ \A k \in DOMAIN InOrder(d.sources) : InOrder(d.sources)[k] \in DOMAIN d.sources
         /\ \A id \in DOMAIN d.sources : \E k \in DOMAIN InOrder(d.sources) : InOrder(d.sources)[k] = id
         /\ DOMAIN InOrder(d.profiles) = 1..Cardinality(DOMAIN d.profiles)
         /\ \A k \in DOMAIN InOrder(d.profiles) : InOrder(d.profiles)[k] \in DOMAIN d.profiles
         /\ \A id \in DOMAIN d.profiles : \E k \in DOMAIN InOrder(d.profiles) : InOrder(d.profiles)[k] = id
<1>1. /\ IsFiniteSet(DOMAIN d.sources) /\ DOMAIN d.sources \in SUBSET Nat
      /\ IsFiniteSet(DOMAIN d.profiles) /\ DOMAIN d.profiles \in SUBSET Nat
  BY TablesAreFinite
<1>2. ASSUME NEW I \in SUBSET Nat, IsFiniteSet(I)
      PROVE  /\ Cardinality(I) \in Nat /\ DOMAIN Ascending(I) = 1..Cardinality(I)
             /\ \A k \in DOMAIN Ascending(I) : Ascending(I)[k] \in I
             /\ \A id \in I : \E k \in DOMAIN Ascending(I) : Ascending(I)[k] = id
  <2>1. /\ DOMAIN Ascending(I) = 1..Cardinality(I)
        /\ \A k \in 1..Cardinality(I) : Ascending(I)[k] \in I
        /\ \A i \in I : Rank(I, i) \in 1..Cardinality(I) /\ Ascending(I)[Rank(I, i)] = i
    BY <1>2, AscendingLists
  <2> QED  BY <1>2, <2>1, FS_CardinalityType
<1> QED  BY <1>1, <1>2 DEF InOrder

\* The members of a profile are a list.
LEMMA MembersAreList ==
  ASSUME NEW d, Sound(d), NEW p \in DOMAIN d.profiles
  PROVE  IsList(get_sources(d, p))
<1>1. Cardinality(DOMAIN d.composition[p]) \in Nat
  BY TablesAreFinite, FS_CardinalityType
<1>2. get_sources(d, p) = [k \in 1..Cardinality(DOMAIN d.composition[p]) |-> get_sources(d, p)[k]]
  BY DEF get_sources, MergeOrder
<1> QED  BY <1>1, <1>2, ListingIsList

\* The two listings of export_config have every row.
LEMMA SourcesListed ==
  ASSUME NEW d, Sound(d)
  PROVE  LET list == ExportedSources(d)
         IN  /\ IsList(list) /\ \A i \in DOMAIN list : IsSource(list[i].row)
             /\ \A id \in DOMAIN d.sources : [ref |-> id, row |-> d.sources[id]] \in Range(list)
<1> DEFINE ids == InOrder(d.sources)
           list == ExportedSources(d)
<1>1. /\ Cardinality(DOMAIN d.sources) \in Nat /\ DOMAIN ids = 1..Cardinality(DOMAIN d.sources)
      /\ \A k \in DOMAIN ids : ids[k] \in DOMAIN d.sources
      /\ \A id \in DOMAIN d.sources : \E k \in DOMAIN ids : ids[k] = id
  BY IdsInOrder
<1>2. /\ list = [k \in 1..Cardinality(DOMAIN d.sources) |-> list[k]] /\ DOMAIN list = DOMAIN ids
      /\ \A k \in DOMAIN ids : list[k] = [ref |-> ids[k], row |-> d.sources[ids[k]]]
  BY <1>1 DEF ExportedSources
<1> HIDE DEF ids, list
<1>3. IsList(list)
  BY <1>1, <1>2, ListingIsList
<1>4. \A i \in DOMAIN list : IsSource(list[i].row)
  BY <1>1, <1>2 DEF Sound, IsDatabase
<1>5. ASSUME NEW id \in DOMAIN d.sources PROVE [ref |-> id, row |-> d.sources[id]] \in Range(list)
  <2>1. PICK k \in DOMAIN ids : ids[k] = id
    BY <1>1
  <2>2. k \in DOMAIN list /\ list[k] = [ref |-> id, row |-> d.sources[id]]
    BY <1>2, <2>1
  <2> QED  BY <2>2 DEF Range
<1> QED  BY <1>3, <1>4, <1>5 DEF list

LEMMA ProfilesListed ==
  ASSUME NEW d, Sound(d)
  PROVE  LET list == ListedProfiles(d)
         IN  /\ IsList(list) /\ DOMAIN list = DOMAIN InOrder(d.profiles)
             /\ \A i \in DOMAIN list : /\ list[i].id = InOrder(d.profiles)[i] /\ list[i].id \in DOMAIN d.profiles
                                       /\ list[i].row = d.profiles[list[i].id] /\ IsProfile(list[i].row)
             /\ \A p \in DOMAIN d.profiles : \E i \in DOMAIN list : list[i] = [id |-> p, row |-> d.profiles[p]]
<1> DEFINE ids == InOrder(d.profiles)
           list == ListedProfiles(d)
<1>1. /\ Cardinality(DOMAIN d.profiles) \in Nat /\ DOMAIN ids = 1..Cardinality(DOMAIN d.profiles)
      /\ \A k \in DOMAIN ids : ids[k] \in DOMAIN d.profiles
      /\ \A id \in DOMAIN d.profiles : \E k \in DOMAIN ids : ids[k] = id
  BY IdsInOrder
<1>2. /\ list = [k \in 1..Cardinality(DOMAIN d.profiles) |-> list[k]] /\ DOMAIN list = DOMAIN ids
      /\ \A k \in DOMAIN ids : list[k] = [id |-> ids[k], row |-> d.profiles[ids[k]]]
  BY <1>1 DEF ListedProfiles
<1> HIDE DEF ids, list
<1>3. IsList(list)
  BY <1>1, <1>2, ListingIsList
<1>4. \A i \in DOMAIN list : /\ list[i].id = ids[i] /\ list[i].id \in DOMAIN d.profiles
                             /\ list[i].row = d.profiles[list[i].id] /\ IsProfile(list[i].row)
  BY <1>1, <1>2 DEF Sound, IsDatabase
<1>5. \A p \in DOMAIN d.profiles : \E i \in DOMAIN list : list[i] = [id |-> p, row |-> d.profiles[p]]
  BY <1>1, <1>2
<1> QED  BY <1>2, <1>3, <1>4, <1>5 DEF ids, list

\* Databases that differ in nothing list the same.
LEMMA ListedAlike ==
  ASSUME NEW d, Sound(d), NEW e, Sound(e), Differences(d, e) = {}
  PROVE  ExportedSources(e) = ExportedSources(d) /\ ListedProfiles(e) = ListedProfiles(d)
<1>1. /\ DOMAIN e.sources = DOMAIN d.sources /\ \A id \in DOMAIN d.sources : e.sources[id] = d.sources[id]
      /\ DOMAIN e.profiles = DOMAIN d.profiles /\ \A id \in DOMAIN d.profiles : e.profiles[id] = d.profiles[id]
  BY DEF Differences, Differ
<1>2. InOrder(e.sources) = InOrder(d.sources) /\ InOrder(e.profiles) = InOrder(d.profiles)
  BY <1>1 DEF InOrder
<1>3. /\ \A k \in DOMAIN InOrder(d.sources) : InOrder(d.sources)[k] \in DOMAIN d.sources
      /\ \A k \in DOMAIN InOrder(d.profiles) : InOrder(d.profiles)[k] \in DOMAIN d.profiles
  BY IdsInOrder
<1> QED  BY <1>1, <1>2, <1>3 DEF ExportedSources, ListedProfiles

\* What an export hands out when nobody writes meanwhile: the rows as they are.
WholeExport(d) ==
    [sources |-> ExportedSources(d),
     profiles |-> [i \in DOMAIN InOrder(d.profiles) |->
                     [refs |-> get_sources(d, InOrder(d.profiles)[i]), row |-> d.profiles[InOrder(d.profiles)[i]]]]]
LEMMA ExportIsFile ==
  ASSUME NEW d, Sound(d)
  PROVE  IsFile(WholeExport(d))
<1> DEFINE file == WholeExport(d)
           P == DOMAIN d.profiles
           ids == InOrder(d.profiles)
<1>1. Cardinality(P) \in Nat /\ DOMAIN ids = 1..Cardinality(P) /\ \A k \in DOMAIN ids : ids[k] \in P
  BY IdsInOrder
<1>2. /\ file.sources = ExportedSources(d) /\ file.profiles = [k \in 1..Cardinality(P) |-> file.profiles[k]]
      /\ \A k \in DOMAIN ids : file.profiles[k].row = d.profiles[ids[k]] /\ file.profiles[k].refs = get_sources(d, ids[k])
      /\ DOMAIN file.profiles = DOMAIN ids
  BY <1>1 DEF WholeExport
<1> HIDE DEF file, ids
<1>3. IsList(file.sources) /\ \A i \in DOMAIN file.sources : IsSource(file.sources[i].row)
  BY <1>2, SourcesListed
<1>4. IsList(file.profiles)
  BY <1>1, <1>2, ListingIsList
<1>5. \A i \in DOMAIN file.profiles : IsProfile(file.profiles[i].row) /\ IsList(file.profiles[i].refs)
  BY <1>1, <1>2, MembersAreList DEF Sound, IsDatabase
<1> QED  BY <1>3, <1>4, <1>5 DEF IsFile, file

\* import_submit.
LEMMA StartedJob ==
  ASSUME NEW d, NEW file, IsFile(file), validate_import(file)
  PROVE  JobOK(ImportJob(d, file)) /\ JobFits(d, ImportJob(d, file))
<1> DEFINE job == ImportJob(d, file)
<1>1. /\ DOMAIN job = {"sources", "profiles", "id", "pending", "sourceSlugs", "profileSlugs"}
      /\ job.sources = file.sources /\ job.profiles = file.profiles
      /\ job.id = << >> /\ job.pending = << >>
      /\ job.sourceSlugs = SlugsOf(d.sources) /\ job.profileSlugs = SlugsOf(d.profiles)
  BY DEF ImportJob
<1> HIDE DEF job
<1>2. \A i \in DOMAIN file.profiles : TokenAccepted(file.profiles[i].row.token)
  BY DEF validate_import
<1>3. ~IsMask(NoToken)
  BY DEF IsMask, NoToken
<1>4. \A i \in DOMAIN file.profiles : ~IsMask(file.profiles[i].row.token)
  BY <1>2, <1>3 DEF TokenAccepted
<1>5. DOMAIN job.id = {}
  BY <1>1
<1> QED  BY <1>1, <1>4, <1>5 DEF JobOK, JobFits, IsFile, job

\* remapped: the references of a profile to the ids they became, each once.
LEMMA RemappedFits ==
  ASSUME NEW d, NEW p \in DOMAIN d.profiles, NEW refs, IsList(refs), NEW id,
         \A r \in DOMAIN id : id[r] \in DOMAIN d.sources,
         \A q, r \in DOMAIN id : id[q] = id[r] => q = r
  PROVE  Composable(d, p, remapped(refs, id))
<1> DEFINE I == {i \in DOMAIN refs : refs[i] \in DOMAIN id /\ FirstMention(refs, i)}
           members == remapped(refs, id)
<1>1. Len(refs) \in Nat /\ DOMAIN refs = 1..Len(refs)
  BY DEF IsList
<1>2. I \in SUBSET Nat /\ IsFiniteSet(I)
  <2>1. IsFiniteSet(1..Len(refs))
    BY <1>1, FS_Interval
  <2> QED  BY <1>1, <2>1, FS_Subset
<1>3. /\ DOMAIN Ascending(I) = 1..Cardinality(I)
      /\ \A k \in 1..Cardinality(I) : Ascending(I)[k] \in I
      /\ \A k, l \in 1..Cardinality(I) : k < l => Ascending(I)[k] < Ascending(I)[l]
  BY <1>2, AscendingLists
<1>4. DOMAIN members = 1..Cardinality(I) /\ \A k \in 1..Cardinality(I) : members[k].source = id[refs[Ascending(I)[k]]]
  BY <1>3 DEF remapped
<1>5. \A i, j \in I : refs[i] = refs[j] => i = j
  BY <1>1 DEF FirstMention
<1>6. Cardinality(I) \in Nat
  BY <1>2, FS_CardinalityType
<1>7. \A i \in I : refs[i] \in DOMAIN id
  OBVIOUS
<1> HIDE DEF I, members
<1>8. ASSUME NEW k \in 1..Cardinality(I), NEW l \in 1..Cardinality(I), members[k].source = members[l].source
      PROVE  k = l
  <2>1. Ascending(I)[k] = Ascending(I)[l]
    BY <1>3, <1>4, <1>5, <1>7, <1>8
  <2>2. Ascending(I)[k] \in Nat
    BY <1>2, <1>3
  <2> QED  BY <1>3, <1>6, <2>1, <2>2
<1>9. \A k \in 1..Cardinality(I) : members[k].source \in DOMAIN d.sources
  BY <1>3, <1>4, <1>7
<1> QED  BY <1>4, <1>8, <1>9 DEF Composable, members

\* remapped counts a profile's references from 0.
LEMMA RemappedPositions ==
  ASSUME NEW refs, IsList(refs), NEW id
  PROVE  \A k \in DOMAIN remapped(refs, id) : remapped(refs, id)[k].position \in Nat
<1> DEFINE I == {i \in DOMAIN refs : refs[i] \in DOMAIN id /\ FirstMention(refs, i)}
<1>1. Len(refs) \in Nat /\ DOMAIN refs = 1..Len(refs)
  BY DEF IsList
<1>2. I \in SUBSET Nat /\ IsFiniteSet(I)
  <2>1. IsFiniteSet(1..Len(refs))
    BY <1>1, FS_Interval
  <2> QED  BY <1>1, <2>1, FS_Subset
<1>3. DOMAIN Ascending(I) = 1..Cardinality(I) /\ \A k \in 1..Cardinality(I) : Ascending(I)[k] \in I
  BY <1>2, AscendingLists
<1>4. \A i \in I : i - 1 \in Nat
  BY <1>1
<1>5. DOMAIN remapped(refs, id) = 1..Cardinality(I)
      /\ \A k \in 1..Cardinality(I) : remapped(refs, id)[k].position = Ascending(I)[k] - 1
  BY <1>3 DEF remapped
<1> QED  BY <1>3, <1>4, <1>5

\* The row the next write creates.
LEMMA NextRowIsRow ==
  ASSUME NEW job, JobOK(job)
  PROVE  /\ job.sources # << >> => IsSource(NextRow(job))
         /\ job.sources = << >> /\ job.profiles # << >> =>
               IsProfile(NextRow(job)) /\ ~IsMask(NextRow(job).token)
<1>1. ASSUME job.sources # << >>
      PROVE  IsSource(NextRow(job))
  <2>1. 1 \in DOMAIN job.sources /\ Head(job.sources) = job.sources[1]
    BY <1>1, TailOf DEF JobOK, IsFile
  <2>2. IsSource(Head(job.sources).row)
    BY <2>1 DEF JobOK, IsFile
  <2> QED  BY <1>1, <2>2 DEF NextRow, IsSource
<1>2. ASSUME job.sources = << >>, job.profiles # << >>
      PROVE  IsProfile(NextRow(job)) /\ ~IsMask(NextRow(job).token)
  <2>1. 1 \in DOMAIN job.profiles /\ Head(job.profiles) = job.profiles[1]
    BY <1>2, TailOf DEF JobOK, IsFile
  <2>2. IsProfile(Head(job.profiles).row) /\ ~IsMask(Head(job.profiles).row.token)
    BY <2>1 DEF JobOK, IsFile
  <2> QED  BY <1>2, <2>2 DEF NextRow, IsProfile
<1> QED  BY <1>1, <1>2

\* One write of an import keeps the database sound and the job a job.
LEMMA ImportStepKeeps ==
  ASSUME NEW d, Sound(d), NEW job, JobOK(job), ~ImportDone(job), ImportStepFits(d, job)
  PROVE  Sound(ImportStepDb(d, job)) /\ JobOK(ImportStepJob(d, job))
<1> DEFINE new == ImportStepJob(d, job)
<1>0. /\ DOMAIN job = {"sources", "profiles", "id", "pending", "sourceSlugs", "profileSlugs"}
      /\ IsList(job.sources) /\ \A i \in DOMAIN job.sources : IsSource(job.sources[i].row)
      /\ IsList(job.profiles)
      /\ \A i \in DOMAIN job.profiles : /\ IsProfile(job.profiles[i].row) /\ IsList(job.profiles[i].refs)
                                        /\ ~IsMask(job.profiles[i].row.token)
  BY DEF JobOK, IsFile
<1>1. CASE job.pending # << >>
  <2>1. Sound(ImportStepDb(d, job))
    BY <1>1, ComposedProfile DEF ImportStepDb, ImportStepFits, JobOK
  <2>2. /\ DOMAIN new = DOMAIN job /\ new.sources = job.sources /\ new.profiles = job.profiles
        /\ new.pending = << >>
    BY <1>0, <1>1 DEF ImportStepJob
  <2> HIDE DEF new
  <2> QED  BY <1>0, <2>1, <2>2 DEF JobOK, IsFile, new
<1>2. CASE job.pending = << >> /\ job.sources # << >>
  <2>1. Sound(ImportStepDb(d, job))
    BY <1>2, NextRowIsRow, CreatedSource DEF ImportStepDb, ImportStepFits
  <2>2. /\ DOMAIN new = DOMAIN job /\ new.sources = Tail(job.sources) /\ new.profiles = job.profiles
        /\ new.pending = << >>
    BY <1>0, <1>2 DEF ImportStepJob
  <2>3. /\ IsList(Tail(job.sources))
        /\ \A i \in DOMAIN Tail(job.sources) : i + 1 \in DOMAIN job.sources /\ Tail(job.sources)[i] = job.sources[i + 1]
    BY <1>0, <1>2, TailOf
  <2> HIDE DEF new
  <2> QED  BY <1>0, <2>1, <2>2, <2>3 DEF JobOK, IsFile, new
<1>3. CASE job.pending = << >> /\ job.sources = << >>
  <2>0. job.profiles # << >>
    BY <1>3 DEF ImportDone
  <2>1. Sound(ImportStepDb(d, job))
    BY <1>3, <2>0, NextRowIsRow, CreatedProfile DEF ImportStepDb, ImportStepFits
  <2> DEFINE members == remapped(Head(job.profiles).refs, job.id)
  <2>2. /\ DOMAIN new = DOMAIN job /\ new.sources = job.sources /\ new.profiles = Tail(job.profiles)
        /\ new.pending[1].members = members
    BY <1>0, <1>3 DEF ImportStepJob
  <2>3. /\ IsList(Tail(job.profiles))
        /\ \A i \in DOMAIN Tail(job.profiles) : i + 1 \in DOMAIN job.profiles /\ Tail(job.profiles)[i] = job.profiles[i + 1]
    BY <1>0, <2>0, TailOf
  <2>4. \A i \in DOMAIN members : members[i].position \in Nat
    <3>1. 1 \in DOMAIN job.profiles /\ Head(job.profiles) = job.profiles[1]
      BY <1>0, <2>0, TailOf
    <3>2. IsList(Head(job.profiles).refs)
      BY <1>0, <3>1
    <3> QED  BY <3>2, RemappedPositions
  <2> HIDE DEF new, members
  <2> QED  BY <1>0, <2>1, <2>2, <2>3, <2>4 DEF JobOK, IsFile, new
<1> QED  BY <1>1, <1>2, <1>3

\* The slugs of a table after a row was created.
LEMMA SlugsAfterCreate ==
  ASSUME NEW rows, NEW id, NEW row
  PROVE  SlugsOf(With(rows, id, row)) \subseteq SlugsOf(rows) \cup ({row.slug} \ {NoSlug})
  BY DEF SlugsOf, With

\* A slug that was not seen is free.
LEMMA ClaimedSlugIsFree ==
  ASSUME NEW rows, NEW taken, SlugsOf(rows) \subseteq taken, NEW slug
  PROVE  SlugFree(rows, 0, claim_slug(slug, taken))
  BY DEF SlugFree, SlugsOf, claim_slug

\* apply_import: what an undisturbed job knows is what its next write needs,
\* and still holds after that write.
LEMMA ImportStepFitsAlone ==
  ASSUME NEW d, Sound(d), NEW job, JobOK(job), JobFits(d, job), ~ImportDone(job)
  PROVE  ImportStepFits(d, job)
<1>1. CASE job.pending # << >>
  BY <1>1 DEF ImportStepFits, JobFits
<1>2. CASE job.pending = << >> /\ job.sources # << >>
  <2>1. 1 \in DOMAIN job.sources /\ Head(job.sources) = job.sources[1]
    BY <1>2, TailOf DEF JobOK, IsFile
  <2>2. NextRow(job).slug = claim_slug(Head(job.sources).row.slug, job.sourceSlugs)
    BY <1>2, <2>1 DEF NextRow, JobOK, IsFile, IsSource
  <2> QED  BY <1>2, <2>2, ClaimedSlugIsFree DEF ImportStepFits, JobFits
<1>3. CASE job.pending = << >> /\ job.sources = << >>
  <2>1. 1 \in DOMAIN job.profiles /\ Head(job.profiles) = job.profiles[1]
    BY <1>3, TailOf DEF JobOK, IsFile, ImportDone
  <2>2. NextRow(job).slug = claim_slug(Head(job.profiles).row.slug, job.profileSlugs)
    BY <1>3, <2>1 DEF NextRow, JobOK, IsFile, IsProfile
  <2> QED  BY <1>3, <2>2, ClaimedSlugIsFree DEF ImportStepFits, JobFits
<1> QED  BY <1>1, <1>2, <1>3

LEMMA ImportStepKeepsFitting ==
  ASSUME NEW d, Sound(d), NEW job, JobOK(job), JobFits(d, job), ~ImportDone(job)
  PROVE  JobFits(ImportStepDb(d, job), ImportStepJob(d, job))
<1> DEFINE new == ImportStepJob(d, job)
           e == ImportStepDb(d, job)
<1>0. /\ DOMAIN job = {"sources", "profiles", "id", "pending", "sourceSlugs", "profileSlugs"}
      /\ DOMAIN d = {"sources", "profiles", "composition", "next"}
      /\ d.next \notin DOMAIN d.sources
  BY DEF JobOK, Sound, IsDatabase, Related
<1>1. CASE job.pending # << >>
  <2>1. /\ e.sources = d.sources /\ e.profiles = d.profiles
        /\ new.id = job.id /\ new.pending = << >>
        /\ new.sourceSlugs = job.sourceSlugs /\ new.profileSlugs = job.profileSlugs
    BY <1>0, <1>1 DEF ImportStepDb, ImportStepJob, set_sources
  <2> HIDE DEF new, e
  <2> QED  BY <2>1 DEF JobFits, new, e
<1>2. CASE job.pending = << >> /\ job.sources # << >>
  <2> DEFINE ref == Head(job.sources).ref
  <2>1. /\ e.sources = With(d.sources, d.next, NextRow(job)) /\ e.profiles = d.profiles
        /\ new.id = With(job.id, ref, d.next) /\ new.pending = << >>
        /\ new.sourceSlugs = job.sourceSlugs \cup ({NextRow(job).slug} \ {NoSlug})
        /\ new.profileSlugs = job.profileSlugs
    BY <1>0, <1>2 DEF ImportStepDb, ImportStepJob, create_source
  <2> HIDE DEF new, e, ref
  <2>2. SlugsOf(With(d.sources, d.next, NextRow(job))) \subseteq new.sourceSlugs
    BY <2>1, SlugsAfterCreate DEF JobFits
  <2>3. /\ DOMAIN e.sources = DOMAIN d.sources \cup {d.next}
        /\ DOMAIN new.id = DOMAIN job.id \cup {ref} /\ new.id[ref] = d.next
        /\ \A r \in DOMAIN job.id : r # ref => new.id[r] = job.id[r] /\ job.id[r] \in DOMAIN d.sources
    BY <2>1 DEF With, JobFits
  <2>4. \A q, r \in DOMAIN new.id : new.id[q] = new.id[r] => q = r
    BY <1>0, <2>3 DEF JobFits
  <2>5. \A r \in DOMAIN new.id : new.id[r] \in DOMAIN e.sources
    BY <2>3
  <2> QED  BY <2>1, <2>2, <2>4, <2>5 DEF JobFits, new, e
<1>3. CASE job.pending = << >> /\ job.sources = << >>
  <2> DEFINE members == remapped(Head(job.profiles).refs, job.id)
  <2>0. /\ 1 \in DOMAIN job.profiles /\ Head(job.profiles) = job.profiles[1]
        /\ IsProfile(NextRow(job)) /\ ~IsMask(NextRow(job).token)
    BY <1>3, TailOf, NextRowIsRow DEF JobOK, IsFile, ImportDone
  <2>1. /\ e.profiles = With(d.profiles, d.next, NextRow(job)) /\ e.sources = d.sources
        /\ new.id = job.id /\ new.pending = <<[id |-> d.next, members |-> members]>>
        /\ new.profileSlugs = job.profileSlugs \cup ({NextRow(job).slug} \ {NoSlug})
        /\ new.sourceSlugs = job.sourceSlugs
    BY <1>0, <1>3 DEF ImportStepDb, ImportStepJob, create_profile
  <2> HIDE DEF new, e
  <2>2. SlugsOf(With(d.profiles, d.next, NextRow(job))) \subseteq new.profileSlugs
    BY <2>1, SlugsAfterCreate DEF JobFits
  <2>3. d.next \in DOMAIN e.profiles
    BY <2>1 DEF With
  <2>4. IsList(Head(job.profiles).refs)
    BY <2>0 DEF JobOK, IsFile
  <2>5. Composable(e, d.next, members)
    BY <2>1, <2>3, <2>4, RemappedFits DEF JobFits
  <2>6. new.pending[1].id = d.next /\ new.pending[1].members = members
    BY <2>1
  <2> QED  BY <2>1, <2>2, <2>5, <2>6 DEF JobFits, new, e
<1> QED  BY <1>1, <1>2, <1>3

-----------------------------------------------------------------------------
(* Operators at work.                                                       *)

\* What a request in progress knows.  Only an import and an export depend on
\* the database: the one as long as nobody else wrote, the other for what
\* nobody else touched.
SourceWorkOK(w) ==
    /\ w.at = "source_form" =>
          /\ DOMAIN w = {"at", "id", "opened", "row", "from", "unchanged"}
          /\ IsSource(w.row) /\ Shown(w.opened.headers, w.row.headers, w.from)
    /\ w.at = "source_row" =>
          IsSource(w.row) /\ (w.unchanged => KeptSecrets(w.opened.headers, w.row.headers, w.from))
ProfileWorkOK(w) ==
    /\ w.at \in {"profile_form", "profile_row"} => DOMAIN w = {"at", "id", "checked", "row"} /\ IsProfile(w.row)
    /\ w.at \in {"profile_row", "toggle"} => IsProfile(w.row) /\ ~IsMask(w.row.token)
ImportOK(d, w) ==
    w.at = "import" => DOMAIN w = {"at", "job", "alone"} /\ JobOK(w.job) /\ (w.alone => JobFits(d, w.job))
ReadLists(w) ==
    /\ DOMAIN w = {"at", "sources", "rows", "refs", "touched"}
    /\ IsList(w.sources) /\ \A i \in DOMAIN w.sources : IsSource(w.sources[i].row)
    /\ IsList(w.rows) /\ \A i \in DOMAIN w.rows : IsProfile(w.rows[i].row)
    /\ IsList(w.refs) /\ Len(w.refs) <= Len(w.rows) /\ \A i \in DOMAIN w.refs : IsList(w.refs[i])
SourcesRead(d, w) ==
    /\ \A s \in DOMAIN d.sources \ w.touched : [ref |-> s, row |-> d.sources[s]] \in Range(w.sources)
    /\ \A p \in DOMAIN d.profiles \ w.touched : \A s \in DOMAIN d.composition[p] :
           \E i \in DOMAIN w.sources : w.sources[i].ref = s
    /\ w.touched = {} => w.sources = ExportedSources(d)
ProfilesRead(d, w) ==
    /\ \A p \in DOMAIN d.profiles \ w.touched :
           \E i \in DOMAIN w.rows : w.rows[i] = [id |-> p, row |-> d.profiles[p]]
    /\ \A i \in DOMAIN w.refs : w.rows[i].id \in DOMAIN d.profiles \ w.touched => w.refs[i] = get_sources(d, w.rows[i].id)
    /\ w.touched = {} => w.rows = ListedProfiles(d)
ExportOK(d, w) ==
    /\ w.at \in Exporting => ReadLists(w) /\ SourcesRead(d, w)
    /\ w.at = "export" => w.refs = << >>
    /\ w.at = "compositions" => ProfilesRead(d, w)
WorkOK(d, w) == SourceWorkOK(w) /\ ProfileWorkOK(w) /\ ImportOK(d, w) /\ ExportOK(d, w)

PanelInv ==
    /\ Sound(db)
    /\ \A o \in Operators : WorkOK(db, work[o])

\* What an export knows of the rows it has not to take as touched.
LEMMA ExportGoesOn ==
  ASSUME NEW d, Sound(d), NEW e, Sound(e), NEW w, ExportOK(d, w), w.at \in Exporting,
         NEW v, v = [w EXCEPT !.touched = @ \cup Differences(d, e)]
  PROVE  ExportOK(e, v)
<1>1. /\ ReadLists(w) /\ SourcesRead(d, w) /\ (w.at = "compositions" => ProfilesRead(d, w))
      /\ w.at = "export" => w.refs = << >>
  BY DEF ExportOK
<1>2. /\ DOMAIN v = DOMAIN w /\ v.at = w.at /\ v.sources = w.sources /\ v.rows = w.rows /\ v.refs = w.refs
      /\ v.touched = w.touched \cup Differences(d, e)
  BY <1>1 DEF ReadLists
<1>3. /\ \A s \in DOMAIN e.sources \ v.touched : s \in DOMAIN d.sources \ w.touched /\ e.sources[s] = d.sources[s]
      /\ \A p \in DOMAIN e.profiles \ v.touched : p \in DOMAIN d.profiles \ w.touched /\ e.profiles[p] = d.profiles[p]
      /\ \A p \in DOMAIN e.composition \ v.touched : e.composition[p] = d.composition[p]
  BY <1>2 DEF Differences, Differ
<1>4. DOMAIN e.composition = DOMAIN e.profiles
  BY DEF Sound, Related
<1>5. v.touched = {} => w.touched = {} /\ ExportedSources(e) = ExportedSources(d) /\ ListedProfiles(e) = ListedProfiles(d)
  BY <1>2, ListedAlike
<1>6. ReadLists(v)
  BY <1>1, <1>2 DEF ReadLists
<1>7. SourcesRead(e, v)
  BY <1>1, <1>2, <1>3, <1>4, <1>5 DEF SourcesRead
<1>8. ASSUME ProfilesRead(d, w) PROVE ProfilesRead(e, v)
  <2>1. \A p \in DOMAIN e.profiles \ v.touched : get_sources(e, p) = get_sources(d, p)
    BY <1>3, <1>4 DEF get_sources
  <2> QED  BY <1>2, <1>3, <1>5, <1>8, <2>1 DEF ProfilesRead
<1> QED  BY <1>1, <1>2, <1>6, <1>7, <1>8 DEF ExportOK

\* One operator's task changes; a write tells the imports and exports of the others.
LEMMA OthersGoOn ==
  ASSUME PanelInv, NEW o \in Operators, NEW task, Doing(o, task, db'), Sound(db'), WorkOK(db', task)
  PROVE  PanelInv'
<1>1. work' = [x \in Operators |-> IF x = o THEN task ELSE Beside(work[x], db')]
  BY DEF Doing
<1>2. ASSUME NEW x \in Operators
      PROVE  WorkOK(db', work'[x])
  <2> DEFINE w == work[x]
             v == work'[x]
  <2>0. WorkOK(db, w)
    BY DEF PanelInv
  <2>1. CASE x = o
    BY <1>1, <2>1
  <2>2. CASE x # o /\ db' # db /\ w.at = "import"
    <3>1. v = [w EXCEPT !.alone = FALSE]
      BY <1>1, <2>2 DEF Beside
    <3>2. DOMAIN w = {"at", "job", "alone"} /\ JobOK(w.job)
      BY <2>0, <2>2 DEF WorkOK, ImportOK
    <3>3. DOMAIN v = {"at", "job", "alone"} /\ v.job = w.job /\ v.at = "import" /\ v.alone = FALSE
      BY <2>2, <3>1, <3>2
    <3> HIDE DEF v, w
    <3>4. WorkOK(db', v)
      BY <3>2, <3>3 DEF WorkOK, ImportOK, SourceWorkOK, ProfileWorkOK, ExportOK, Exporting
    <3> QED  BY <3>4 DEF v
  <2>3. CASE x # o /\ db' # db /\ w.at \in Exporting
    <3>1. v = [w EXCEPT !.touched = @ \cup Differences(db, db')]
      BY <1>1, <2>3 DEF Beside, Exporting
    <3>2. ReadLists(w) /\ ExportOK(db, w)
      BY <2>0, <2>3 DEF WorkOK, ExportOK
    <3>3. v.at = w.at
      BY <3>1, <3>2 DEF ReadLists
    <3> HIDE DEF v, w
    <3>4. ExportOK(db', v)
      BY <2>3, <3>1, <3>2, ExportGoesOn DEF PanelInv
    <3>5. WorkOK(db', v)
      BY <2>3, <3>3, <3>4 DEF WorkOK, ImportOK, SourceWorkOK, ProfileWorkOK, Exporting
    <3> QED  BY <3>5 DEF v
  <2>4. CASE x # o /\ db' # db /\ w.at # "import" /\ w.at \notin Exporting
    <3>1. v = w
      BY <1>1, <2>4 DEF Beside
    <3> HIDE DEF v, w
    <3>2. ImportOK(db', v) /\ ExportOK(db', v)
      BY <2>4, <3>1 DEF ImportOK, ExportOK, Exporting
    <3>3. WorkOK(db', v)
      BY <2>0, <3>1, <3>2 DEF WorkOK
    <3> QED  BY <3>3 DEF v
  <2>5. CASE x # o /\ db' = db
    <3>1. v = w
      BY <1>1, <2>5 DEF Beside
    <3> QED  BY <2>0, <2>5, <3>1
  <2> QED  BY <2>1, <2>2, <2>3, <2>4, <2>5
<1> QED  BY <1>2 DEF PanelInv

\* A request that only reads, one that ends, and one that writes.
LEMMA Reading ==
  ASSUME PanelInv, NEW o \in Operators, NEW task, Doing(o, task, db), UNCHANGED db, WorkOK(db, task)
  PROVE  PanelInv'
<1>1. Sound(db') /\ db' = db /\ WorkOK(db', task) /\ Doing(o, task, db')
  BY DEF PanelInv
<1> QED  BY <1>1, OthersGoOn

LEMMA Answering ==
  ASSUME PanelInv, NEW o \in Operators, Answers(o)
  PROVE  PanelInv'
<1>1. WorkOK(db, Idle)
  BY DEF WorkOK, SourceWorkOK, ProfileWorkOK, ImportOK, ExportOK, Exporting, Idle
<1> QED  BY <1>1, Reading DEF Answers

LEMMA Writing ==
  ASSUME PanelInv, NEW o \in Operators, NEW new, NEW task, Writes(o, new, task), Sound(new), WorkOK(new, task)
  PROVE  PanelInv'
<1>1. Sound(db') /\ WorkOK(db', task) /\ Doing(o, task, db')
  BY DEF Writes
<1> QED  BY <1>1, OthersGoOn

LEMMA WritingIdle ==
  ASSUME PanelInv, NEW o \in Operators, NEW new, Writes(o, new, Idle), Sound(new)
  PROVE  PanelInv'
<1>1. WorkOK(new, Idle)
  BY DEF WorkOK, SourceWorkOK, ProfileWorkOK, ImportOK, ExportOK, Exporting, Idle
<1> QED  BY <1>1, Writing

-----------------------------------------------------------------------------
(* Every handler keeps the invariant.                                       *)

\* Sources.
LEMMA source_edit_form_Keeps ==
  ASSUME PanelInv, NEW o \in Operators, source_edit_form(o)
  PROVE  PanelInv'
<1>1. PICK id \in DOMAIN db.sources :
        Doing(o, [at |-> "source_form", id |-> id, opened |-> db.sources[id],
                  row |-> [db.sources[id] EXCEPT !.headers = MaskedHeaders(@)],
                  from |-> [k \in DOMAIN db.sources[id].headers |-> {k}], unchanged |-> FALSE], db)
  BY DEF source_edit_form
<1> DEFINE row == db.sources[id]
           task == [at |-> "source_form", id |-> id, opened |-> row,
                    row |-> [row EXCEPT !.headers = MaskedHeaders(@)],
                    from |-> [k \in DOMAIN row.headers |-> {k}], unchanged |-> FALSE]
<1>2. IsSource(row)
  BY DEF PanelInv, Sound, IsDatabase
<1>3. Shown(row.headers, MaskedHeaders(row.headers), [k \in DOMAIN row.headers |-> {k}])
  BY <1>2, OpenedLines DEF IsSource
<1>4. /\ DOMAIN task = {"at", "id", "opened", "row", "from", "unchanged"} /\ task.at = "source_form"
      /\ task.opened = row /\ task.from = [k \in DOMAIN row.headers |-> {k}]
      /\ DOMAIN task.row = DOMAIN row /\ task.row.headers = MaskedHeaders(row.headers)
  BY <1>2 DEF IsSource
<1> HIDE DEF task
<1>5. IsFiniteSet(DOMAIN task.row.headers)
  BY <1>3, <1>4 DEF Shown
<1>6. WorkOK(db, task)
  BY <1>2, <1>3, <1>4, <1>5 DEF WorkOK, SourceWorkOK, ProfileWorkOK, ImportOK, ExportOK, Exporting, IsSource
<1> QED  BY <1>1, <1>6, Reading DEF source_edit_form, task

LEMMA source_update_validated_Keeps ==
  ASSUME PanelInv, NEW o \in Operators, source_update_validated(o)
  PROVE  PanelInv'
<1> DEFINE w == work[o]
           stored == IF w.id \in DOMAIN db.sources THEN db.sources[w.id].headers ELSE << >>
           task(slug, edit) == [w EXCEPT !.at = "source_row", !.from = edit.from,
                                         !.unchanged = (stored = w.opened.headers),
                                         !.row = [@ EXCEPT !.slug = slug,
                                                           !.headers = restore_masked_headers(edit.lines, stored)]]
<1>1. /\ DOMAIN w = {"at", "id", "opened", "row", "from", "unchanged"}
      /\ IsSource(w.row) /\ Shown(w.opened.headers, w.row.headers, w.from)
  BY DEF PanelInv, WorkOK, SourceWorkOK, source_update_validated
<1>2. IsFiniteSet(DOMAIN stored)
  <2>1. IsFiniteSet(DOMAIN << >>)
    BY FS_EmptySet
  <2> QED  BY <2>1 DEF PanelInv, Sound, IsDatabase, IsSource
<1>3. ASSUME NEW slug, NEW edit \in HeaderEdits(w.row.headers, w.from)
      PROVE  WorkOK(db, task(slug, edit))
  <2> DEFINE headers == restore_masked_headers(edit.lines, stored)
             t == task(slug, edit)
  <2>1. Shown(w.opened.headers, edit.lines, edit.from)
    BY <1>1, EditedLines
  <2> HIDE DEF stored
  <2>2. /\ IsFiniteSet(DOMAIN headers)
        /\ stored = w.opened.headers => KeptSecrets(w.opened.headers, headers, edit.from)
    BY <1>2, <2>1, RestoredLines
  <2>3. /\ t.at = "source_row" /\ t.from = edit.from /\ t.unchanged = (stored = w.opened.headers)
        /\ t.opened = w.opened /\ DOMAIN t.row = DOMAIN w.row /\ t.row.headers = headers
    BY <1>1 DEF IsSource
  <2> HIDE DEF t, headers
  <2>4. WorkOK(db, t)
    BY <1>1, <2>2, <2>3 DEF WorkOK, SourceWorkOK, ProfileWorkOK, ImportOK, ExportOK, Exporting, IsSource
  <2> QED  BY <2>4 DEF t
<1>4. PICK slug \in {w.row.slug} \cup Slugs, edit \in HeaderEdits(w.row.headers, w.from) :
        IF ~SlugFree(db.sources, w.id, slug) THEN Answers(o)
        ELSE Doing(o, task(slug, edit), db) /\ UNCHANGED db
  BY Zenon DEF source_update_validated
<1> HIDE DEF task, w, stored
<1>5. CASE Answers(o)
  BY <1>5, Answering
<1>6. CASE Doing(o, task(slug, edit), db) /\ UNCHANGED db
  BY <1>3, <1>6, Reading
<1> QED  BY <1>4, <1>5, <1>6

LEMMA source_written_Keeps ==
  ASSUME PanelInv, NEW o \in Operators, source_written(o)
  PROVE  PanelInv'
<1>1. CASE Answers(o)
  BY <1>1, Answering
<1>2. CASE /\ work[o].id \in DOMAIN db.sources /\ SlugFree(db.sources, work[o].id, work[o].row.slug)
           /\ Writes(o, update_source(db, work[o].id, work[o].row), Idle)
  <2>1. Sound(db) /\ IsSource(work[o].row)
    BY DEF PanelInv, WorkOK, SourceWorkOK, source_written
  <2>2. Sound(update_source(db, work[o].id, work[o].row))
    BY <1>2, <2>1, UpdatedSource
  <2> QED  BY <1>2, <2>2, WritingIdle
<1> QED  BY <1>1, <1>2 DEF source_written

LEMMA source_create_Keeps ==
  ASSUME PanelInv, NEW o \in Operators, source_create(o)
  PROVE  PanelInv'
<1>1. PICK slug \in {NoSlug} \cup Slugs :
        /\ SlugFree(db.sources, 0, slug)
        /\ Writes(o, create_source(db, [slug |-> slug, enabled |-> TRUE, headers |-> << >>]), Idle)
  BY DEF source_create
<1> DEFINE row == [slug |-> slug, enabled |-> TRUE, headers |-> << >>]
<1>2. IsSource(row) /\ row.slug = slug
  <2>1. IsFiniteSet(DOMAIN << >>)
    BY FS_EmptySet
  <2> QED  BY <2>1 DEF IsSource
<1> HIDE DEF row
<1>3. Sound(create_source(db, row))
  BY <1>1, <1>2, CreatedSource DEF PanelInv
<1> QED  BY <1>1, <1>3, WritingIdle DEF row

LEMMA source_toggle_Keeps ==
  ASSUME PanelInv, NEW o \in Operators, source_toggle(o)
  PROVE  PanelInv'
<1>1. PICK id \in DOMAIN db.sources :
        Doing(o, [at |-> "source_row", id |-> id, opened |-> db.sources[id], unchanged |-> TRUE,
                  from |-> [k \in DOMAIN db.sources[id].headers |-> {k}],
                  row |-> [db.sources[id] EXCEPT !.enabled = ~@]], db)
  BY DEF source_toggle
<1> DEFINE row == db.sources[id]
           task == [at |-> "source_row", id |-> id, opened |-> row, unchanged |-> TRUE,
                    from |-> [k \in DOMAIN row.headers |-> {k}], row |-> [row EXCEPT !.enabled = ~@]]
<1>2. IsSource(row)
  BY DEF PanelInv, Sound, IsDatabase
<1>3. /\ task.at = "source_row" /\ task.opened = row /\ task.from = [k \in DOMAIN row.headers |-> {k}]
      /\ DOMAIN task.row = DOMAIN row /\ task.row.headers = row.headers
  BY <1>2 DEF IsSource
<1> HIDE DEF task, row
<1>4. KeptSecrets(task.opened.headers, task.row.headers, task.from)
  BY <1>3 DEF KeptSecrets
<1>5. WorkOK(db, task)
  BY <1>2, <1>3, <1>4 DEF WorkOK, SourceWorkOK, ProfileWorkOK, ImportOK, ExportOK, Exporting, IsSource
<1> QED  BY <1>1, <1>5, Reading DEF source_toggle, task, row

LEMMA source_delete_Keeps ==
  ASSUME PanelInv, NEW o \in Operators, source_delete(o)
  PROVE  PanelInv'
<1>1. PICK id \in DOMAIN db.sources : Writes(o, delete_source(db, id), Idle)
  BY DEF source_delete
<1>2. Sound(delete_source(db, id))
  BY DeletedSource DEF PanelInv
<1> QED  BY <1>1, <1>2, WritingIdle

\* Profiles.
LEMMA profile_edit_form_Keeps ==
  ASSUME PanelInv, NEW o \in Operators, profile_edit_form(o)
  PROVE  PanelInv'
<1>1. PICK id \in DOMAIN db.profiles :
        Doing(o, [at |-> "profile_form", id |-> id, checked |-> db.composition[id],
                  row |-> [db.profiles[id] EXCEPT !.token = IF @ = NoToken THEN @ ELSE mask_secret(@)]], db)
  BY DEF profile_edit_form
<1> DEFINE task == [at |-> "profile_form", id |-> id, checked |-> db.composition[id],
                    row |-> [db.profiles[id] EXCEPT !.token = IF @ = NoToken THEN @ ELSE mask_secret(@)]]
<1>2. IsProfile(db.profiles[id])
  BY DEF PanelInv, Sound, IsDatabase
<1>3. /\ DOMAIN task = {"at", "id", "checked", "row"} /\ task.at = "profile_form"
      /\ DOMAIN task.row = DOMAIN db.profiles[id]
  OBVIOUS
<1> HIDE DEF task
<1>4. WorkOK(db, task)
  BY <1>2, <1>3 DEF WorkOK, SourceWorkOK, ProfileWorkOK, ImportOK, ExportOK, Exporting, IsProfile
<1> QED  BY <1>1, <1>4, Reading DEF profile_edit_form, task

\* A token that is accepted is no mask.
LEMMA AcceptedToken ==
  ASSUME NEW token, TokenAccepted(token)
  PROVE  ~IsMask(token)
<1>1. ~IsMask(NoToken)
  BY DEF IsMask, NoToken
<1> QED  BY <1>1 DEF TokenAccepted

LEMMA profile_update_validated_Keeps ==
  ASSUME PanelInv, NEW o \in Operators, profile_update_validated(o)
  PROVE  PanelInv'
<1> DEFINE w == work[o]
           task(token, checked, slug) == [w EXCEPT !.at = "profile_row", !.checked = checked,
                                                   !.row = [@ EXCEPT !.slug = slug, !.token = token]]
<1>1. DOMAIN w = {"at", "id", "checked", "row"} /\ IsProfile(w.row)
  BY DEF PanelInv, WorkOK, ProfileWorkOK, profile_update_validated
<1>2. PICK typed, checked, slug : ProfileValidated(o, typed, checked, slug)
  BY DEF profile_update_validated
<1> DEFINE token == access_token(typed, IF w.id \in DOMAIN db.profiles THEN db.profiles[w.id].token ELSE NoToken)
<1>3. \/ Answers(o)
      \/ TokenAccepted(token) /\ Doing(o, task(token, checked, slug), db) /\ UNCHANGED db
  BY <1>2 DEF ProfileValidated
<1>4. CASE Answers(o)
  BY <1>4, Answering
<1>5. CASE TokenAccepted(token) /\ Doing(o, task(token, checked, slug), db) /\ UNCHANGED db
  <2> DEFINE t == task(token, checked, slug)
  <2>1. /\ DOMAIN t = DOMAIN w /\ t.at = "profile_row"
        /\ DOMAIN t.row = DOMAIN w.row /\ t.row.token = token
    BY <1>1 DEF IsProfile
  <2>2. ~IsMask(token)
    BY <1>5, AcceptedToken
  <2> HIDE DEF t, token
  <2>3. WorkOK(db, t)
    BY <1>1, <2>1, <2>2 DEF WorkOK, SourceWorkOK, ProfileWorkOK, ImportOK, ExportOK, Exporting, IsProfile
  <2> QED  BY <1>5, <2>3, Reading DEF t
<1> QED  BY <1>3, <1>4, <1>5

LEMMA profile_written_Keeps ==
  ASSUME PanelInv, NEW o \in Operators, profile_written(o)
  PROVE  PanelInv'
<1> DEFINE w == work[o]
           task == [w EXCEPT !.at = "composition"]
<1>1. CASE Answers(o)
  BY <1>1, Answering
<1>2. CASE /\ w.id \in DOMAIN db.profiles /\ SlugFree(db.profiles, w.id, w.row.slug)
           /\ Writes(o, update_profile(db, w.id, w.row), task)
  <2>1. Sound(db) /\ IsProfile(w.row) /\ ~IsMask(w.row.token) /\ DOMAIN w = {"at", "id", "checked", "row"}
    BY DEF PanelInv, WorkOK, ProfileWorkOK, profile_written
  <2>2. Sound(update_profile(db, w.id, w.row))
    BY <1>2, <2>1, UpdatedProfile
  <2>3. task.at = "composition"
    BY <2>1
  <2> HIDE DEF task
  <2>4. WorkOK(update_profile(db, w.id, w.row), task)
    BY <2>3 DEF WorkOK, SourceWorkOK, ProfileWorkOK, ImportOK, ExportOK, Exporting
  <2> QED  BY <1>2, <2>2, <2>4, Writing
<1> QED  BY <1>1, <1>2 DEF profile_written

LEMMA composition_written_Keeps ==
  ASSUME PanelInv, NEW o \in Operators, composition_written(o)
  PROVE  PanelInv'
<1> DEFINE members == composition_from_form(work[o].checked)
<1>1. CASE Answers(o)
  BY <1>1, Answering
<1>2. CASE Composable(db, work[o].id, members) /\ Writes(o, set_sources(db, work[o].id, members), Idle)
  <2>0. \A i \in DOMAIN members : members[i].position \in Nat
    BY DEF composition_from_form, MergeOrder
  <2> HIDE DEF members
  <2>1. Sound(set_sources(db, work[o].id, members))
    BY <1>2, <2>0, ComposedProfile DEF PanelInv
  <2> QED  BY <1>2, <2>1, WritingIdle
<1> QED  BY <1>1, <1>2 DEF composition_written

LEMMA profile_create_Keeps ==
  ASSUME PanelInv, NEW o \in Operators, profile_create(o)
  PROVE  PanelInv'
<1>1. PICK slug, token, members :
        LET row == [slug |-> slug, token |-> token, enabled |-> TRUE]
        IN  /\ SlugFree(db.profiles, 0, slug)
            /\ TokenAccepted(token)
            /\ Writes(o, create_profile(db, row),
                      [at |-> "composition", id |-> db.next, row |-> row, checked |-> [s \in members |-> 0]])
  BY DEF profile_create
<1> DEFINE row == [slug |-> slug, token |-> token, enabled |-> TRUE]
           task == [at |-> "composition", id |-> db.next, row |-> row, checked |-> [s \in members |-> 0]]
<1>2. IsProfile(row) /\ row.slug = slug /\ row.token = token
  BY DEF IsProfile
<1>3. ~IsMask(token)
  BY <1>1, AcceptedToken
<1>4. task.at = "composition"
  OBVIOUS
<1>5. SlugFree(db.profiles, 0, slug) /\ Writes(o, create_profile(db, row), task)
  BY <1>1
<1> HIDE DEF row, task
<1>6. Sound(create_profile(db, row))
  BY <1>2, <1>3, <1>5, CreatedProfile DEF PanelInv
<1>7. WorkOK(create_profile(db, row), task)
  BY <1>4 DEF WorkOK, SourceWorkOK, ProfileWorkOK, ImportOK, ExportOK, Exporting
<1> QED  BY <1>5, <1>6, <1>7, Writing

LEMMA profile_toggle_Keeps ==
  ASSUME PanelInv, NEW o \in Operators, profile_toggle(o)
  PROVE  PanelInv'
<1>1. PICK id \in DOMAIN db.profiles :
        Doing(o, [at |-> "toggle", id |-> id, row |-> [db.profiles[id] EXCEPT !.enabled = ~@]], db)
  BY DEF profile_toggle
<1> DEFINE row == db.profiles[id]
           task == [at |-> "toggle", id |-> id, row |-> [row EXCEPT !.enabled = ~@]]
<1>2. IsProfile(row) /\ ~IsMask(row.token)
  BY DEF PanelInv, Sound, IsDatabase
<1>3. task.at = "toggle" /\ DOMAIN task.row = DOMAIN row /\ task.row.token = row.token
  BY <1>2 DEF IsProfile
<1> HIDE DEF task, row
<1>4. WorkOK(db, task)
  BY <1>2, <1>3 DEF WorkOK, SourceWorkOK, ProfileWorkOK, ImportOK, ExportOK, Exporting, IsProfile
<1> QED  BY <1>1, <1>4, Reading DEF profile_toggle, task, row

LEMMA profile_toggled_Keeps ==
  ASSUME PanelInv, NEW o \in Operators, profile_toggled(o)
  PROVE  PanelInv'
<1>1. CASE Answers(o)
  BY <1>1, Answering
<1>2. CASE /\ work[o].id \in DOMAIN db.profiles /\ SlugFree(db.profiles, work[o].id, work[o].row.slug)
           /\ Writes(o, update_profile(db, work[o].id, work[o].row), Idle)
  <2>1. Sound(db) /\ IsProfile(work[o].row) /\ ~IsMask(work[o].row.token)
    BY DEF PanelInv, WorkOK, ProfileWorkOK, profile_toggled
  <2>2. Sound(update_profile(db, work[o].id, work[o].row))
    BY <1>2, <2>1, UpdatedProfile
  <2> QED  BY <1>2, <2>2, WritingIdle
<1> QED  BY <1>1, <1>2 DEF profile_toggled

LEMMA profile_delete_Keeps ==
  ASSUME PanelInv, NEW o \in Operators, profile_delete(o)
  PROVE  PanelInv'
<1>1. PICK id \in DOMAIN db.profiles : Writes(o, delete_profile(db, id), Idle)
  BY DEF profile_delete
<1>2. Sound(delete_profile(db, id))
  BY DeletedProfile DEF PanelInv
<1> QED  BY <1>1, <1>2, WritingIdle

\* Exports.
LEMMA export_config_Keeps ==
  ASSUME PanelInv, NEW o \in Operators, export_config(o)
  PROVE  PanelInv'
<1> DEFINE task == [at |-> "export", sources |-> ExportedSources(db), rows |-> << >>, refs |-> << >>, touched |-> {}]
<1>1. Doing(o, task, db) /\ UNCHANGED db
  BY DEF export_config
<1>2. Sound(db)
  BY DEF PanelInv
<1>3. /\ DOMAIN task = {"at", "sources", "rows", "refs", "touched"} /\ task.at = "export" /\ task.touched = {}
      /\ task.sources = ExportedSources(db) /\ task.rows = << >> /\ task.refs = << >>
  OBVIOUS
<1> HIDE DEF task
<1>4. IsList(<< >>) /\ DOMAIN << >> = {} /\ Len(<< >>) = 0
  <2>1. << >> = [k \in 1..0 |-> << >>[k]] /\ DOMAIN << >> = {} /\ Len(<< >>) = 0
    OBVIOUS
  <2> QED  BY <2>1, ListingIsList
<1>5. ReadLists(task)
  BY <1>2, <1>3, <1>4, SourcesListed DEF ReadLists
<1>6. SourcesRead(db, task)
  <2>1. \A id \in DOMAIN db.sources : [ref |-> id, row |-> db.sources[id]] \in Range(task.sources)
    BY <1>2, <1>3, SourcesListed
  <2>2. ASSUME NEW id \in DOMAIN db.sources PROVE \E i \in DOMAIN task.sources : task.sources[i].ref = id
    <3>1. PICK i \in DOMAIN task.sources : task.sources[i] = [ref |-> id, row |-> db.sources[id]]
      BY <2>1 DEF Range
    <3>2. task.sources[i].ref = id
      BY <3>1
    <3> QED  BY <3>2
  <2>3. \A p \in DOMAIN db.profiles : DOMAIN db.composition[p] \subseteq DOMAIN db.sources
    BY <1>2 DEF Sound, Related
  <2> QED  BY <1>3, <2>1, <2>2, <2>3 DEF SourcesRead
<1>7. WorkOK(db, task)
  BY <1>3, <1>5, <1>6 DEF WorkOK, SourceWorkOK, ProfileWorkOK, ImportOK, ExportOK, Exporting
<1> QED  BY <1>1, <1>7, Reading

LEMMA profiles_listed_Keeps ==
  ASSUME PanelInv, NEW o \in Operators, profiles_listed(o)
  PROVE  PanelInv'
<1> DEFINE w == work[o]
           task == [w EXCEPT !.at = "compositions", !.rows = ListedProfiles(db)]
<1>1. Doing(o, task, db) /\ UNCHANGED db /\ w.at = "export"
  BY DEF profiles_listed
<1>2. Sound(db) /\ ReadLists(w) /\ SourcesRead(db, w) /\ w.refs = << >>
  BY <1>1 DEF PanelInv, WorkOK, ExportOK, Exporting
<1>3. /\ DOMAIN task = DOMAIN w /\ task.at = "compositions" /\ task.touched = w.touched
      /\ task.sources = w.sources /\ task.rows = ListedProfiles(db) /\ task.refs = << >>
  BY <1>2 DEF ReadLists
<1> HIDE DEF task, w
<1>4. IsList(<< >>) /\ DOMAIN << >> = {} /\ Len(<< >>) = 0
  <2>1. << >> = [k \in 1..0 |-> << >>[k]] /\ DOMAIN << >> = {} /\ Len(<< >>) = 0
    OBVIOUS
  <2> QED  BY <2>1, ListingIsList
<1>5. ReadLists(task)
  <2>1. IsList(ListedProfiles(db)) /\ \A i \in DOMAIN ListedProfiles(db) : IsProfile(ListedProfiles(db)[i].row)
    BY <1>2, ProfilesListed
  <2>2. Len(ListedProfiles(db)) >= 0
    BY <2>1 DEF IsList
  <2> QED  BY <1>2, <1>3, <1>4, <2>1, <2>2 DEF ReadLists
<1>6. SourcesRead(db, task)
  BY <1>2, <1>3 DEF SourcesRead
<1>7. ProfilesRead(db, task)
  <2>1. \A p \in DOMAIN db.profiles : \E i \in DOMAIN task.rows : task.rows[i] = [id |-> p, row |-> db.profiles[p]]
    BY <1>2, <1>3, ProfilesListed
  <2> QED  BY <1>3, <1>4, <2>1 DEF ProfilesRead
<1>8. WorkOK(db, task)
  BY <1>3, <1>5, <1>6, <1>7 DEF WorkOK, SourceWorkOK, ProfileWorkOK, ImportOK, ExportOK, Exporting
<1> QED  BY <1>1, <1>8, Reading

\* One list of members more.
LEMMA MembersAppended ==
  ASSUME NEW list, IsList(list), NEW x
  PROVE  LET longer == Append(list, x)
         IN  /\ IsList(longer) /\ Len(longer) = Len(list) + 1 /\ DOMAIN longer = 1..Len(list) + 1
             /\ Len(list) \in Nat /\ DOMAIN list = 1..Len(list)
             /\ \A i \in 1..Len(list) : longer[i] = list[i]
             /\ longer[Len(list) + 1] = x
<1> DEFINE longer == Append(list, x)
<1>1. list \in Seq(Range(list) \cup {x})
  BY DEF IsList
<1>2. /\ Len(list) \in Nat /\ DOMAIN list = 1..Len(list)
      /\ longer \in Seq(Range(list) \cup {x}) /\ Len(longer) = Len(list) + 1
      /\ \A i \in 1..Len(list) : longer[i] = list[i]
      /\ longer[Len(list) + 1] = x
  BY <1>1
<1> HIDE DEF longer
<1>3. DOMAIN longer = 1..Len(list) + 1 /\ longer = [k \in 1..Len(list) + 1 |-> longer[k]]
  <2>1. longer = [k \in 1..Len(longer) |-> longer[k]]
    BY <1>2
  <2> QED  BY <1>2, <2>1
<1>4. IsList(longer)
  BY <1>2, <1>3, ListingIsList
<1> QED  BY <1>2, <1>3, <1>4 DEF longer

LEMMA composition_read_Keeps ==
  ASSUME PanelInv, NEW o \in Operators, composition_read(o)
  PROVE  PanelInv'
<1> DEFINE w == work[o]
           n == Len(w.refs)
           members == MembersOf(db, w.rows[n + 1].id)
           task == [w EXCEPT !.refs = Append(@, members)]
<1>1. Doing(o, task, db) /\ UNCHANGED db /\ w.at = "compositions" /\ n # Len(w.rows)
  BY DEF composition_read, Exported
<1>2. Sound(db) /\ ReadLists(w) /\ SourcesRead(db, w) /\ ProfilesRead(db, w)
  BY <1>1 DEF PanelInv, WorkOK, ExportOK, Exporting
<1>3. /\ DOMAIN task = DOMAIN w /\ task.at = "compositions" /\ task.touched = w.touched
      /\ task.sources = w.sources /\ task.rows = w.rows /\ task.refs = Append(w.refs, members)
  BY <1>1, <1>2 DEF ReadLists
<1>4. IsList(members)
  <2>1. << >> = [k \in 1..0 |-> << >>[k]]
    OBVIOUS
  <2>2. IsList(<< >>)
    BY <2>1, ListingIsList
  <2> QED  BY <1>2, <2>2, MembersAreList DEF MembersOf
<1>5. w.rows[n + 1].id \in DOMAIN db.profiles => members = get_sources(db, w.rows[n + 1].id)
  BY DEF MembersOf
<1> HIDE DEF task, members, w
<1>6. /\ IsList(task.refs) /\ Len(task.refs) = n + 1 /\ DOMAIN task.refs = 1..n + 1
      /\ n \in Nat /\ DOMAIN w.refs = 1..n
      /\ (\A i \in 1..n : task.refs[i] = w.refs[i]) /\ task.refs[n + 1] = members
  BY <1>2, <1>3, MembersAppended DEF ReadLists
<1>7. n + 1 <= Len(w.rows)
  <2>1. Len(w.rows) \in Nat /\ n <= Len(w.rows)
    BY <1>2 DEF ReadLists, IsList
  <2> QED  BY <1>1, <1>6, <2>1
<1> HIDE DEF n
<1>8. \A i \in DOMAIN task.refs : i \in DOMAIN w.refs \/ i = n + 1
  BY <1>6
<1>9. ReadLists(task)
  BY <1>2, <1>3, <1>4, <1>6, <1>7, <1>8 DEF ReadLists
<1>10. SourcesRead(db, task)
  BY <1>2, <1>3 DEF SourcesRead
<1>11. ProfilesRead(db, task)
  BY <1>2, <1>3, <1>5, <1>6, <1>8 DEF ProfilesRead
<1>12. WorkOK(db, task)
  BY <1>3, <1>9, <1>10, <1>11 DEF WorkOK, SourceWorkOK, ProfileWorkOK, ImportOK, ExportOK, Exporting
<1> QED  BY <1>1, <1>12, Reading

\* What is handed out is a file, torn or not.
LEMMA BackupIsFile ==
  ASSUME NEW w, ReadLists(w), Len(w.refs) = Len(w.rows)
  PROVE  IsFile(BackupFile(w))
<1> DEFINE file == BackupFile(w)
<1>1. DOMAIN w.refs = 1..Len(w.refs) /\ DOMAIN w.rows = 1..Len(w.rows) /\ Len(w.rows) \in Nat
  BY DEF ReadLists, IsList
<1>2. /\ file.sources = w.sources /\ DOMAIN file.profiles = DOMAIN w.rows
      /\ file.profiles = [k \in 1..Len(w.rows) |-> file.profiles[k]]
      /\ \A i \in DOMAIN w.rows : file.profiles[i].refs = w.refs[i] /\ file.profiles[i].row = w.rows[i].row
  BY <1>1 DEF BackupFile
<1> HIDE DEF file
<1>3. IsList(file.profiles)
  BY <1>1, <1>2, ListingIsList
<1> QED  BY <1>1, <1>2, <1>3 DEF ReadLists, IsFile, file

\* Imports.
LEMMA import_submit_Keeps ==
  ASSUME PanelInv, NEW o \in Operators, import_submit(o)
  PROVE  PanelInv'
<1>1. PICK file \in IF Exported(work[o]) THEN {BackupFile(work[o])} ELSE Files :
        /\ validate_import(file)
        /\ Doing(o, [at |-> "import", job |-> ImportJob(db, file), alone |-> TRUE], db)
  BY DEF import_submit
<1>2. IsFile(file)
  <2>1. CASE Exported(work[o])
    <3>1. file = BackupFile(work[o])
      BY <1>1, <2>1
    <3>2. ReadLists(work[o]) /\ Len(work[o].refs) = Len(work[o].rows)
      BY <2>1 DEF Exported, PanelInv, WorkOK, ExportOK, Exporting
    <3> QED  BY <3>1, <3>2, BackupIsFile
  <2>2. CASE ~Exported(work[o])
    BY <1>1, <2>2, PanelAssumption
  <2> QED  BY <2>1, <2>2
<1>3. JobOK(ImportJob(db, file)) /\ JobFits(db, ImportJob(db, file))
  BY <1>1, <1>2, StartedJob
<1> DEFINE task == [at |-> "import", job |-> ImportJob(db, file), alone |-> TRUE]
<1>4. DOMAIN task = {"at", "job", "alone"} /\ task.at = "import" /\ task.job = ImportJob(db, file)
  OBVIOUS
<1> HIDE DEF task
<1>5. WorkOK(db, task)
  BY <1>3, <1>4 DEF WorkOK, SourceWorkOK, ProfileWorkOK, ImportOK, ExportOK, Exporting
<1> QED  BY <1>1, <1>5, Reading DEF import_submit, task

LEMMA apply_import_Keeps ==
  ASSUME PanelInv, NEW o \in Operators, apply_import(o)
  PROVE  PanelInv'
<1> DEFINE w == work[o]
           new == ImportStepDb(db, w.job)
           task == [w EXCEPT !.job = ImportStepJob(db, w.job)]
<1>1. CASE Answers(o)
  BY <1>1, Answering
<1>2. CASE ~ImportDone(w.job) /\ ImportStepFits(db, w.job) /\ Writes(o, new, task)
  <2>1. /\ Sound(db) /\ DOMAIN w = {"at", "job", "alone"} /\ JobOK(w.job) /\ w.at = "import"
        /\ w.alone => JobFits(db, w.job)
    BY DEF PanelInv, WorkOK, ImportOK, apply_import
  <2>2. Sound(new) /\ JobOK(ImportStepJob(db, w.job))
    BY <1>2, <2>1, ImportStepKeeps
  <2>3. w.alone => JobFits(new, ImportStepJob(db, w.job))
    BY <1>2, <2>1, ImportStepKeepsFitting
  <2>4. /\ DOMAIN task = DOMAIN w /\ task.at = "import" /\ task.alone = w.alone
        /\ task.job = ImportStepJob(db, w.job)
    BY <2>1
  <2> HIDE DEF task, new
  <2>5. WorkOK(new, task)
    BY <2>1, <2>2, <2>3, <2>4 DEF WorkOK, SourceWorkOK, ProfileWorkOK, ImportOK, ExportOK, Exporting
  <2> QED  BY <1>2, <2>2, <2>5, Writing
<1> QED  BY <1>1, <1>2 DEF apply_import

-----------------------------------------------------------------------------
(* Backups: an import read as a run of its writes, and what it leaves.      *)

\* An interval in order.
LEMMA AscendingInterval ==
  ASSUME NEW a \in Nat, NEW n \in Nat
  PROVE  Ascending(a..a + n - 1) = [k \in 1..n |-> a + k - 1]
<1> DEFINE I == a..a + n - 1
<1>1. I \in SUBSET Nat /\ IsFiniteSet(I) /\ Cardinality(I) = n
  <2>1. a + n - 1 \in Int /\ a \in Int /\ (a > a + n - 1 => n = 0)
    OBVIOUS
  <2>2. IsFiniteSet(I) /\ Cardinality(I) = IF a > a + n - 1 THEN 0 ELSE (a + n - 1) - a + 1
    BY <2>1, FS_Interval
  <2>3. I \in SUBSET Nat
    OBVIOUS
  <2> HIDE DEF I
  <2> QED  BY <2>1, <2>2, <2>3
<1>2. ASSUME NEW k \in 1..n
      PROVE  a + k - 1 \in I /\ Rank(I, a + k - 1) = k
  <2>1. {j \in I : j <= a + k - 1} = a..a + k - 1
    OBVIOUS
  <2>2. Cardinality(a..a + k - 1) = k
    <3>1. a + k - 1 \in Int /\ a \in Int /\ ~(a > a + k - 1)
      OBVIOUS
    <3>2. Cardinality(a..a + k - 1) = (a + k - 1) - a + 1
      BY <3>1, FS_Interval
    <3> QED  BY <3>2
  <2>3. a + k - 1 \in I
    OBVIOUS
  <2>4. Rank(I, a + k - 1) = Cardinality(a..a + k - 1)
    <3>1. Rank(I, a + k - 1) = Cardinality({j \in I : j <= a + k - 1})
      BY DEF Rank
    <3> QED  BY <2>1, <3>1
  <2> QED  BY <2>2, <2>3, <2>4
<1> HIDE DEF I
<1>3. \A k \in 1..n : Ascending(I)[k] = a + k - 1
  BY <1>1, <1>2, AscendingLists, RankInjective
<1>4. Ascending(I) = [k \in 1..n |-> Ascending(I)[k]]
  BY <1>1 DEF Ascending
<1> QED  BY <1>3, <1>4 DEF I

\* The first n numbers are n.
LEMMA Counting == \A n \in Nat : IsFiniteSet(1..n) /\ Cardinality(1..n) = n
<1> TAKE n \in Nat
<1>1. 1 \in Int /\ n \in Int /\ (1 > n => n = 0) /\ n - 1 + 1 = n
  OBVIOUS
<1> QED  BY <1>1, FS_Interval

\* A list as a function from its positions.
IsListing(list, n) == list = [k \in 1..n |-> list[k]]

\* A checklist whose positions count up a list is read back as that list.
CountsUp(at, list, n) ==
    /\ \A k \in 1..n : list[k] \in Nat
    /\ \A k, l \in 1..n : list[k] = list[l] => k = l
    /\ DOMAIN at = {list[k] : k \in 1..n} /\ \A k \in 1..n : at[list[k]] = k - 1
LEMMA MergeOrderOf ==
  ASSUME NEW n \in Nat, NEW list, IsListing(list, n), NEW at, CountsUp(at, list, n)
  PROVE  MergeOrder(at) = list
<1> USE DEF CountsUp
<1>0. list = [k \in 1..n |-> list[k]]
  BY DEF IsListing
<1>1. ASSUME NEW k \in 1..n
      PROVE  MergeRank(at, list[k]) = k
  <2>0. \A j \in 1..k : j \in 1..n
    OBVIOUS
  <2> DEFINE early == {r \in DOMAIN at : at[r] < at[list[k]] \/ (at[r] = at[list[k]] /\ r <= list[k])}
             f == [j \in 1..k |-> list[j]]
  <2>1. \A j \in 1..n : (at[list[j]] < at[list[k]] \/ (at[list[j]] = at[list[k]] /\ list[j] <= list[k])) <=> j <= k
    <3> TAKE j \in 1..n
    <3>1. at[list[j]] = j - 1 /\ at[list[k]] = k - 1
      OBVIOUS
    <3>2. list[k] <= list[k]
      OBVIOUS
    <3>3. j - 1 = k - 1 => j = k
      OBVIOUS
    <3>4. j <= k <=> j - 1 < k - 1 \/ j - 1 = k - 1
      OBVIOUS
    <3> QED  BY <3>1, <3>2, <3>3, <3>4
  <2>2. \A r \in early : \E j \in 1..k : list[j] = r
    <3> TAKE r \in early
    <3>1. PICK j \in 1..n : list[j] = r
      OBVIOUS
    <3>2. j <= k
      BY <2>1, <3>1
    <3> QED  BY <3>1, <3>2
  <2>3. \A j \in 1..k : list[j] \in early
    <3> TAKE j \in 1..k
    <3>1. j \in 1..n /\ j <= k
      OBVIOUS
    <3> QED  BY <2>1, <3>1
  <2> HIDE DEF early
  <2>4. f \in Bijection(1..k, early)
    <3>1. f \in [1..k -> early] /\ \A i, j \in 1..k : f[i] = f[j] => i = j
      BY <2>0, <2>3
    <3>2. \A r \in early : \E j \in 1..k : f[j] = r
      BY <2>2
    <3> HIDE DEF f
    <3> QED  BY <3>1, <3>2 DEF Bijection, Injection, IsInjective, Surjection
  <2>5. IsFiniteSet(1..k) /\ Cardinality(1..k) = k
    BY Counting
  <2>6. Cardinality(early) = k
    BY <2>4, <2>5, FS_Bijection DEF ExistsBijection
  <2> QED  BY <2>6 DEF MergeRank, early
<1>2. Cardinality(DOMAIN at) = n
  <2> DEFINE T == {list[k] : k \in 1..n}
  <2>1. list \in Bijection(1..n, T)
    <3>1. list \in [1..n -> T] /\ \A i, j \in 1..n : list[i] = list[j] => i = j
      BY <1>0
    <3>2. \A r \in T : \E j \in 1..n : list[j] = r
      OBVIOUS
    <3> HIDE DEF T
    <3> QED  BY <3>1, <3>2 DEF Bijection, Injection, IsInjective, Surjection
  <2>2. IsFiniteSet(1..n) /\ Cardinality(1..n) = n
    BY Counting
  <2> QED  BY <2>1, <2>2, FS_Bijection DEF ExistsBijection
<1>3. ASSUME NEW k \in 1..n
      PROVE  (CHOOSE s \in DOMAIN at : MergeRank(at, s) = k) = list[k]
  <2>1. list[k] \in DOMAIN at
    OBVIOUS
  <2>2. \A s \in DOMAIN at : MergeRank(at, s) = k => s = list[k]
    BY <1>1
  <2>3. MergeRank(at, list[k]) = k
    BY <1>1
  <2> QED  BY <2>1, <2>2, <2>3
<1> QED  BY <1>0, <1>2, <1>3 DEF MergeOrder

\* References that are all known, each once, keep their places.
AllKnown(refs, n, id) ==
    /\ \A k \in 1..n : refs[k] \in DOMAIN id
    /\ \A k, l \in 1..n : refs[k] = refs[l] => k = l
LEMMA RemappedKnown ==
  ASSUME NEW n \in Nat, NEW refs, IsListing(refs, n), NEW id, AllKnown(refs, n, id)
  PROVE  /\ DOMAIN remapped(refs, id) = 1..n
         /\ \A k \in 1..n : remapped(refs, id)[k].source = id[refs[k]] /\ remapped(refs, id)[k].position = k - 1
<1> DEFINE I == {i \in DOMAIN refs : refs[i] \in DOMAIN id /\ FirstMention(refs, i)}
<1>1. DOMAIN refs = 1..n
  BY DEF IsListing
<1>2. \A i, j \in 1..n : j < i => refs[j] # refs[i]
  BY DEF AllKnown
<1>3. I = 1..n
  BY <1>1, <1>2 DEF FirstMention, AllKnown
<1>4. 1..n = 1..1 + n - 1
  OBVIOUS
<1>5. Ascending(I) = [k \in 1..n |-> 1 + k - 1]
  <2>1. Ascending(1..1 + n - 1) = [k \in 1..n |-> 1 + k - 1]
    BY AscendingInterval
  <2> QED  BY <1>3, <1>4, <2>1
<1>6. \A k \in 1..n : 1 + k - 1 = k
  OBVIOUS
<1>7. Ascending(I) = [k \in 1..n |-> k]
  BY <1>5, <1>6
<1> HIDE DEF I
<1>8. remapped(refs, id) = [k \in DOMAIN Ascending(I) |->
                              [source |-> id[refs[Ascending(I)[k]]], position |-> Ascending(I)[k] - 1]]
  BY DEF remapped, I
<1> QED  BY <1>7, <1>8

\* A checklist is read as a list of its members, each once.
LEMMA MergeOrderLists ==
  ASSUME NEW at, IsFiniteSet(DOMAIN at), DOMAIN at \in SUBSET Nat, \A s \in DOMAIN at : at[s] \in Nat
  PROVE  /\ \A k \in DOMAIN MergeOrder(at) : MergeOrder(at)[k] \in DOMAIN at
         /\ \A k, l \in DOMAIN MergeOrder(at) : MergeOrder(at)[k] = MergeOrder(at)[l] => k = l
<1> DEFINE S == DOMAIN at
           R == {pair \in S \X S : at[pair[1]] < at[pair[2]] \/ (at[pair[1]] = at[pair[2]] /\ pair[1] < pair[2])}
           n == Cardinality(S)
<1>1. \A i, j : <<i, j>> \in R <=> i \in S /\ j \in S /\ (at[i] < at[j] \/ (at[i] = at[j] /\ i < j))
  OBVIOUS
<1>2. \A i \in S : i \in Nat /\ at[i] \in Nat
  OBVIOUS
<1>3. n \in Nat
  BY FS_CardinalityType
<1> HIDE DEF R
<1>4. IsStrictOrder(R, S)
  BY <1>1, <1>2 DEF IsStrictOrder
<1>5. ASSUME NEW s \in S
      PROVE  MergeRank(at, s) = Cardinality(Below(R, S, s)) + 1
  <2>1. {r \in S : at[r] < at[s] \/ (at[r] = at[s] /\ r <= s)} = Below(R, S, s) \cup {s}
    BY <1>1, <1>2 DEF Below
  <2>2. s \notin Below(R, S, s) /\ IsFiniteSet(Below(R, S, s))
    <3>1. Below(R, S, s) \in SUBSET S
      BY DEF Below
    <3>2. IsFiniteSet(Below(R, S, s))
      BY <3>1, FS_Subset
    <3>3. <<s, s>> \notin R
      BY <1>1, <1>2
    <3> QED  BY <3>2, <3>3 DEF Below
  <2>3. Cardinality(Below(R, S, s) \cup {s}) = Cardinality(Below(R, S, s)) + 1
    BY <2>2, FS_AddElement
  <2> QED  BY <2>1, <2>3 DEF MergeRank
<1>6. \A k \in 1..n : \E s \in S : MergeRank(at, s) = k
  <2> TAKE k \in 1..n
  <2>1. k - 1 \in 0..(n - 1) /\ (k - 1) + 1 = k
    BY <1>3
  <2>2. PICK s \in S : Cardinality(Below(R, S, s)) = k - 1
    BY <1>4, <2>1, OrderRanks
  <2> QED  BY <1>5, <2>1, <2>2
<1>7. \A k \in 1..n : MergeOrder(at)[k] \in S /\ MergeRank(at, MergeOrder(at)[k]) = k
  BY <1>6 DEF MergeOrder
<1>8. DOMAIN MergeOrder(at) = 1..n
  BY DEF MergeOrder
<1> QED  BY <1>7, <1>8

\* The states an import passes through.
ImportRun(n, first, f) == f = [k \in 0..n |-> IF k = 0 THEN first ELSE ImportStep(f[k - 1])]
LEMMA ImportRuns ==
  ASSUME NEW n \in Nat, NEW first
  PROVE  \E f : ImportRun(n, first, f)
<1> DEFINE Run(m, f) == f = [k \in 0..m |-> IF k = 0 THEN first ELSE ImportStep(f[k - 1])]
           S == {m \in 0..n : \E f : Run(m, f)}
<1>1. 0 \in S
  <2> DEFINE g == [k \in 0..0 |-> first]
  <2>1. \A k \in 0..0 : k = 0
    OBVIOUS
  <2>2. Run(0, g)
    BY <2>1
  <2>3. 0 \in 0..n
    OBVIOUS
  <2> HIDE DEF Run
  <2> QED  BY <2>2, <2>3
<1>2. ASSUME NEW m \in 1..n, m - 1 \in S
      PROVE  m \in S
  <2>1. PICK f : Run(m - 1, f)
    BY <1>2
  <2> DEFINE last == ImportStep(f[m - 1])
             g == [k \in 0..m |-> IF k = m THEN last ELSE f[k]]
  <2>2. m \in Nat \ {0} /\ m \in 0..n /\ m - 1 \in 0..m /\ m - 1 # m
    OBVIOUS
  <2> HIDE DEF last
  <2>3. ASSUME NEW k \in 0..m
        PROVE  g[k] = IF k = 0 THEN first ELSE ImportStep(g[k - 1])
    <3>1. CASE k = m
      <4>1. g[k] = last /\ g[k - 1] = f[m - 1] /\ k # 0
        BY <2>2, <3>1
      <4> QED  BY <4>1 DEF last
    <3>2. CASE k # m
      <4>1. k \in 0..(m - 1) /\ g[k] = f[k]
        BY <3>2
      <4>2. f[k] = IF k = 0 THEN first ELSE ImportStep(f[k - 1])
        BY <2>1, <4>1
      <4>3. k # 0 => k - 1 \in 0..m /\ k - 1 # m
        BY <3>2
      <4>4. k # 0 => g[k - 1] = f[k - 1]
        BY <4>3
      <4> QED  BY <4>1, <4>2, <4>4
    <3> QED  BY <3>1, <3>2
  <2>4. g = [k \in 0..m |-> g[k]]
    OBVIOUS
  <2> HIDE DEF g
  <2>5. Run(m, g)
    BY <2>3, <2>4
  <2> HIDE DEF Run
  <2> QED  BY <2>2, <2>5
<1>3. \A k \in 0..n : k \in S
  <2> HIDE DEF S
  <2> QED  BY <1>1, <1>2, SetInduction
<1>4. \E f : Run(n, f)
  BY <1>3
<1> QED  BY <1>4 DEF ImportRun

\* Restored is where the run of the import ends.
LEMMA RestoredByRun ==
  ASSUME NEW t, NEW file, IsFile(file)
  PROVE  /\ ImportWrites(file) \in Nat
         /\ \E f : /\ f[0] = [db |-> t, job |-> ImportJob(t, file)]
                   /\ \A k \in 1..ImportWrites(file) : f[k] = ImportStep(f[k - 1])
                   /\ Restored(t, file) = f[ImportWrites(file)].db
<1> DEFINE n == ImportWrites(file)
           first == [db |-> t, job |-> ImportJob(t, file)]
<1>1. n \in Nat
  <2>1. Len(file.sources) \in Nat /\ Len(file.profiles) \in Nat
    BY DEF IsFile, IsList
  <2>2. \A a, b \in Nat : a + 2 * b \in Nat
    OBVIOUS
  <2> QED  BY <2>1, <2>2 DEF ImportWrites
<1> DEFINE f == CHOOSE g : g = [k \in 0..n |-> IF k = 0 THEN first ELSE ImportStep(g[k - 1])]
<1>2. Restored(t, file) = f[n].db
  BY DEF Restored
<1> HIDE DEF n, first
<1>3. f = [k \in 0..n |-> IF k = 0 THEN first ELSE ImportStep(f[k - 1])]
  <2>1. \E g : ImportRun(n, first, g)
    BY <1>1, ImportRuns
  <2>2. f = CHOOSE g : ImportRun(n, first, g)
    BY DEF ImportRun
  <2> HIDE DEF f
  <2>3. ImportRun(n, first, f)
    BY <2>1, <2>2
  <2> QED  BY <2>3 DEF ImportRun
<1> HIDE DEF f
<1>4. f[0] = first
  BY <1>1, <1>3
<1>5. \A k \in 1..n : f[k] = ImportStep(f[k - 1])
  <2>1. \A k \in 1..n : k \in 0..n /\ k # 0
    OBVIOUS
  <2> QED  BY <1>3, <2>1
<1> QED  BY <1>1, <1>2, <1>4, <1>5 DEF n, first

\* What of a list is left after its first n entries.
Left(rest, list, n) == IsList(rest) /\ Len(rest) = Len(list) - n /\ \A k \in 1..Len(rest) : rest[k] = list[n + k]

\* What Sequences says of the lists of a file.
LEMMA ListDomain ==
  ASSUME NEW list, IsList(list)
  PROVE  /\ Len(list) \in Nat /\ DOMAIN list = 1..Len(list) /\ list = [k \in 1..Len(list) |-> list[k]]
         /\ Len(list) = 0 => list = << >>
         /\ list # << >> => Len(Tail(list)) = Len(list) - 1
<1> DEFINE S == Range(list)
<1>1. list \in Seq(S)
  BY DEF IsList
<1> HIDE DEF S
<1> QED  BY <1>1

\* The next entry of a list is the head of what is left.
LEMMA LeftHead ==
  ASSUME NEW list, IsList(list), NEW n \in Nat, n < Len(list), NEW rest, Left(rest, list, n)
  PROVE  n + 1 \in DOMAIN list /\ rest # << >> /\ Head(rest) = list[n + 1] /\ Left(Tail(rest), list, n + 1)
<1> DEFINE m == Len(list)
           r == Len(rest)
<1>1. m \in Nat /\ DOMAIN list = 1..m
  BY ListDomain
<1>2. r \in Nat /\ DOMAIN rest = 1..r /\ r = m - n
  BY ListDomain DEF Left
<1>3. n < m
  OBVIOUS
<1>4. rest # << >> => Len(Tail(rest)) = r - 1
  BY ListDomain DEF Left
<1>5. \A k \in 1..r : rest[k] = list[n + k]
  BY DEF Left
<1> HIDE DEF m, r
<1>6. r # 0 /\ 1 \in 1..r /\ n + 1 \in 1..m
  BY <1>1, <1>2, <1>3
<1>7. rest # << >>
  BY <1>2, <1>6
<1>8. /\ Head(rest) = rest[1] /\ IsList(Tail(rest))
      /\ \A i \in DOMAIN Tail(rest) : Tail(rest)[i] = rest[i + 1]
  BY <1>7, TailOf DEF Left
<1>9. Len(Tail(rest)) = m - (n + 1) /\ DOMAIN Tail(rest) = 1..r - 1
  BY <1>1, <1>2, <1>4, <1>7, <1>8, ListDomain
<1>10. ASSUME NEW k \in 1..r - 1
       PROVE  Tail(rest)[k] = list[n + 1 + k]
  <2>1. k + 1 \in 1..r /\ n + (k + 1) = n + 1 + k
    BY <1>2
  <2>2. Tail(rest)[k] = rest[k + 1]
    BY <1>8, <1>9
  <2> QED  BY <1>5, <2>1, <2>2
<1>11. Left(Tail(rest), list, n + 1)
  BY <1>1, <1>2, <1>4, <1>7, <1>8, <1>9, <1>10 DEF Left, m
<1> QED  BY <1>1, <1>5, <1>6, <1>7, <1>8, <1>11

\* Nothing is left after the last entry.
LEMMA LeftEnds ==
  ASSUME NEW list, IsList(list)
  PROVE  /\ Left(list, list, 0)
         /\ \A rest : Left(rest, list, Len(list)) => rest = << >>
<1>1. Len(list) \in Nat
  BY ListDomain
<1>2. Left(list, list, 0)
  BY <1>1 DEF Left
<1>3. ASSUME NEW rest, Left(rest, list, Len(list))
      PROVE  rest = << >>
  <2>1. IsList(rest) /\ Len(rest) = 0
    BY <1>1, <1>3 DEF Left
  <2> QED  BY <2>1, ListDomain
<1> QED  BY <1>2, <1>3

\* What an import writes of a row: all of it where no slug is taken, all but
\* the slug where every slug is.
Stored(row, keep) == [row EXCEPT !.slug = IF keep THEN @ ELSE NoSlug]
Apart(list) == \A i, j \in DOMAIN list : list[i].row.slug = list[j].row.slug => i = j \/ list[i].row.slug = NoSlug
Claims(list, n, taken, keep) ==
    \A i \in DOMAIN list : i > n => claim_slug(list[i].row.slug, taken) = IF keep THEN list[i].row.slug ELSE NoSlug

\* The next row gets the slug it should, and the rows after it still will.
LEMMA NextClaims ==
  ASSUME NEW list, IsList(list), Apart(list), NEW keep \in BOOLEAN, NEW taken, NEW n \in Nat, n < Len(list),
         Claims(list, n, taken, keep), NEW slug, slug = claim_slug(list[n + 1].row.slug, taken)
  PROVE  slug = (IF keep THEN list[n + 1].row.slug ELSE NoSlug) /\ Claims(list, n + 1, taken \cup ({slug} \ {NoSlug}), keep)
<1>1. Len(list) \in Nat /\ DOMAIN list = 1..Len(list) /\ n + 1 \in DOMAIN list /\ n + 1 > n
  BY ListDomain
<1>2. slug = IF keep THEN list[n + 1].row.slug ELSE NoSlug
  BY <1>1 DEF Claims
<1>3. ASSUME NEW i \in DOMAIN list, i > n + 1
      PROVE  claim_slug(list[i].row.slug, taken \cup ({slug} \ {NoSlug})) = IF keep THEN list[i].row.slug ELSE NoSlug
  <2>1. i > n /\ i # n + 1
    BY <1>1, <1>3
  <2>2. claim_slug(list[i].row.slug, taken) = IF keep THEN list[i].row.slug ELSE NoSlug
    BY <2>1 DEF Claims
  <2>3. list[i].row.slug = list[n + 1].row.slug => list[i].row.slug = NoSlug
    BY <1>1, <2>1 DEF Apart
  <2> QED  BY <1>2, <2>2, <2>3 DEF claim_slug
<1> QED  BY <1>2, <1>3 DEF Claims

\* A file that refers to its own sources, each once.
IsBackup(file) ==
    /\ IsFile(file) /\ Apart(file.sources) /\ Apart(file.profiles)
    /\ \A i, j \in DOMAIN file.sources : file.sources[i].ref = file.sources[j].ref => i = j
    /\ \A p \in DOMAIN file.profiles :
          LET refs == file.profiles[p].refs
          IN  /\ \A k \in DOMAIN refs : \E i \in DOMAIN file.sources : refs[k] = file.sources[i].ref
              /\ \A k, l \in DOMAIN refs : refs[k] = refs[l] => k = l

\* After n sources of the file: rows and ids from `first` on are the file's.
NumberedFrom(rows, first) == {id \in DOMAIN rows : id > first - 1}
DbFields == {"sources", "profiles", "composition", "next"}
JobFields == {"sources", "profiles", "id", "pending", "sourceSlugs", "profileSlugs"}
SourcesIn(s, file, first, n, keep) ==
    /\ DOMAIN s.db = DbFields /\ DOMAIN s.job = JobFields
    /\ s.db.next = first + n
    /\ NumberedFrom(s.db.sources, first) = first..first + n - 1 /\ NumberedFrom(s.db.profiles, first) = {}
    /\ \A i \in 1..n : s.db.sources[first + i - 1] = Stored(file.sources[i].row, keep)
    /\ Left(s.job.sources, file.sources, n) /\ s.job.profiles = file.profiles /\ s.job.pending = << >>
    /\ DOMAIN s.job.id = {file.sources[i].ref : i \in 1..n}
    /\ \A i \in 1..n : s.job.id[file.sources[i].ref] = first + i - 1
    /\ Claims(file.sources, n, s.job.sourceSlugs, keep) /\ Claims(file.profiles, 0, s.job.profileSlugs, keep)

\* One more source: the step writes its row and gives its reference the id.
LEMMA SourceImported ==
  ASSUME NEW file, IsBackup(file), NEW first \in Nat \ {0}, NEW keep \in BOOLEAN,
         NEW n \in Nat, n < Len(file.sources), NEW s, SourcesIn(s, file, first, n, keep)
  PROVE  SourcesIn(ImportStep(s), file, first, n + 1, keep)
<1> DEFINE e == ImportStep(s)
           row == NextRow(s.job)
           entry == file.sources[n + 1]
<1>0. n \in Nat /\ n + 1 \in 1..n + 1 /\ first + n > first - 1 /\ first + (n + 1) - 1 = first + n
  OBVIOUS
<1>1. IsList(file.sources) /\ \A i \in DOMAIN file.sources : IsSource(file.sources[i].row)
  BY DEF IsBackup, IsFile
<1>2. /\ n + 1 \in DOMAIN file.sources /\ s.job.sources # << >> /\ Head(s.job.sources) = entry
      /\ Left(Tail(s.job.sources), file.sources, n + 1)
  BY <1>1, LeftHead DEF SourcesIn
<1>3. row = [entry.row EXCEPT !.slug = claim_slug(@, s.job.sourceSlugs)]
  BY <1>2 DEF NextRow
<1>4. DOMAIN entry.row = {"slug", "enabled", "headers"}
  BY <1>1, <1>2 DEF IsSource
<1> HIDE DEF row, entry
<1>5. row.slug = claim_slug(entry.row.slug, s.job.sourceSlugs)
  BY <1>3, <1>4
<1>6. /\ row.slug = (IF keep THEN entry.row.slug ELSE NoSlug)
      /\ Claims(file.sources, n + 1, s.job.sourceSlugs \cup ({row.slug} \ {NoSlug}), keep)
  <2>1. Apart(file.sources) /\ Claims(file.sources, n, s.job.sourceSlugs, keep)
    BY DEF IsBackup, SourcesIn
  <2>2. row.slug = claim_slug(file.sources[n + 1].row.slug, s.job.sourceSlugs)
    BY <1>5 DEF entry
  <2> DEFINE list == file.sources
             taken == s.job.sourceSlugs
             slug == row.slug
  <2>3. IsList(list) /\ Apart(list) /\ n < Len(list) /\ Claims(list, n, taken, keep)
    BY <1>1, <2>1
  <2> HIDE DEF list, taken, slug
  <2>4. slug = claim_slug(list[n + 1].row.slug, taken)
    BY <2>2 DEF list, taken, slug
  <2>5. slug = (IF keep THEN list[n + 1].row.slug ELSE NoSlug) /\ Claims(list, n + 1, taken \cup ({slug} \ {NoSlug}), keep)
    BY <2>3, <2>4, NextClaims
  <2> QED  BY <2>5 DEF entry, list, taken, slug
<1>7. row = Stored(entry.row, keep)
  BY <1>3, <1>5, <1>6 DEF Stored
<1>8. /\ e.db = create_source(s.db, row)
      /\ e.job = [s.job EXCEPT !.sources = Tail(@), !.id = With(@, entry.ref, s.db.next),
                               !.sourceSlugs = @ \cup ({row.slug} \ {NoSlug})]
  BY <1>2 DEF ImportStep, ImportStepDb, ImportStepJob, SourcesIn, row
<1> HIDE DEF e
<1>9. /\ DOMAIN e.db = DbFields /\ e.db.next = s.db.next + 1 /\ e.db.profiles = s.db.profiles
      /\ e.db.sources = With(s.db.sources, s.db.next, row)
  BY <1>8 DEF create_source, SourcesIn, DbFields
<1>10. /\ DOMAIN e.job = JobFields /\ e.job.sources = Tail(s.job.sources) /\ e.job.profiles = file.profiles
       /\ e.job.pending = << >> /\ e.job.id = With(s.job.id, entry.ref, s.db.next)
       /\ e.job.sourceSlugs = s.job.sourceSlugs \cup ({row.slug} \ {NoSlug})
       /\ e.job.profileSlugs = s.job.profileSlugs
  BY <1>8 DEF SourcesIn, JobFields
<1>11. s.db.next = first + n
  BY DEF SourcesIn
<1>12. NumberedFrom(e.db.sources, first) = first..first + (n + 1) - 1 /\ NumberedFrom(e.db.profiles, first) = {}
  <2>1. NumberedFrom(e.db.sources, first) = NumberedFrom(s.db.sources, first) \cup {first + n}
    BY <1>0, <1>9, <1>11 DEF NumberedFrom, With
  <2>2. (first..first + n - 1) \cup {first + n} = first..first + (n + 1) - 1
    BY <1>0
  <2> QED  BY <1>9, <2>1, <2>2 DEF SourcesIn
<1>13. ASSUME NEW i \in 1..n + 1
       PROVE  e.db.sources[first + i - 1] = Stored(file.sources[i].row, keep)
  <2>1. CASE i = n + 1
    BY <1>0, <1>7, <1>9, <1>11, <2>1 DEF With, entry
  <2>2. CASE i # n + 1
    <3>1. i \in 1..n /\ first + i - 1 \in first..first + n - 1 /\ first + i - 1 # first + n
      BY <1>0, <2>2
    <3>2. first + i - 1 \in DOMAIN s.db.sources
      BY <3>1 DEF SourcesIn, NumberedFrom
    <3> QED  BY <1>9, <1>11, <3>1, <3>2 DEF With, SourcesIn
  <2> QED  BY <2>1, <2>2
<1>14. DOMAIN e.job.id = {file.sources[i].ref : i \in 1..n + 1}
  <2>1. DOMAIN e.job.id = DOMAIN s.job.id \cup {entry.ref}
    BY <1>10 DEF With
  <2>2. \A i : i \in 1..n + 1 <=> i \in 1..n \/ i = n + 1
    BY <1>0
  <2>3. \A x : x \in {file.sources[i].ref : i \in 1..n + 1} <=> x \in {file.sources[i].ref : i \in 1..n} \/ x = entry.ref
    BY <2>2 DEF entry
  <2> QED  BY <2>1, <2>3 DEF SourcesIn
<1>15. ASSUME NEW i \in 1..n + 1
       PROVE  e.job.id[file.sources[i].ref] = first + i - 1
  <2>1. CASE i = n + 1
    BY <1>0, <1>10, <1>11, <2>1 DEF With, entry
  <2>2. CASE i # n + 1
    <3>1. i \in 1..n /\ i \in DOMAIN file.sources
      BY <1>0, <1>1, <2>2, ListDomain
    <3>2. file.sources[i].ref # entry.ref
      BY <1>2, <2>2, <3>1 DEF IsBackup, entry
    <3>3. file.sources[i].ref \in DOMAIN s.job.id
      BY <3>1 DEF SourcesIn
    <3> QED  BY <1>10, <3>1, <3>2, <3>3 DEF With, SourcesIn
  <2> QED  BY <2>1, <2>2
<1>16. e.db.next = first + (n + 1)
  BY <1>0, <1>9, <1>11
<1>17. Claims(file.profiles, 0, e.job.profileSlugs, keep)
  BY <1>10 DEF SourcesIn
<1> QED  BY <1>2, <1>6, <1>9, <1>10, <1>12, <1>13, <1>14, <1>15, <1>16, <1>17 DEF SourcesIn, e

\* A file is imported from its first source on.
LEMMA ImportBegins ==
  ASSUME NEW t, Sound(t), NEW file, IsBackup(file), NEW keep \in BOOLEAN,
         Claims(file.sources, 0, SlugsOf(t.sources), keep), Claims(file.profiles, 0, SlugsOf(t.profiles), keep)
  PROVE  SourcesIn([db |-> t, job |-> ImportJob(t, file)], file, t.next, 0, keep)
<1> DEFINE s == [db |-> t, job |-> ImportJob(t, file)]
<1>1. /\ s.db = t /\ DOMAIN s.job = JobFields
      /\ s.job.sources = file.sources /\ s.job.profiles = file.profiles /\ s.job.pending = << >> /\ s.job.id = << >>
      /\ s.job.sourceSlugs = SlugsOf(t.sources) /\ s.job.profileSlugs = SlugsOf(t.profiles)
  BY DEF ImportJob, JobFields
<1> HIDE DEF s
<1>2. /\ DOMAIN t = DbFields /\ t.next \in Nat
      /\ \A id \in DOMAIN t.sources \cup DOMAIN t.profiles : id \in 1..t.next - 1
  BY DEF Sound, IsDatabase, Related, DbFields
<1>3. \A id \in 1..t.next - 1 : ~(id > t.next - 1)
  BY <1>2
<1>4. NumberedFrom(t.sources, t.next) = {} /\ NumberedFrom(t.profiles, t.next) = {}
  BY <1>2, <1>3 DEF NumberedFrom
<1>5. t.next..t.next + 0 - 1 = {} /\ t.next + 0 = t.next
  BY <1>2
<1>6. DOMAIN << >> = {} /\ \A i : i \notin 1..0
  OBVIOUS
<1>7. {file.sources[i].ref : i \in 1..0} = {}
  BY <1>6
<1>8. Left(file.sources, file.sources, 0)
  BY LeftEnds DEF IsBackup, IsFile
<1> QED  BY <1>1, <1>2, <1>4, <1>5, <1>6, <1>7, <1>8 DEF SourcesIn, s

\* Every source has its new id, in the order of the file.
GivenIds(id, file, first) ==
    /\ DOMAIN id = {file.sources[i].ref : i \in DOMAIN file.sources}
    /\ \A i \in DOMAIN file.sources : id[file.sources[i].ref] = first + i - 1

\* The composition a profile is given lists its members as the file does.
Placed(members) ==
    [s \in {members[i].source : i \in DOMAIN members} |->
        members[CHOOSE i \in DOMAIN members : members[i].source = s].position]
ReadsBack(refs, id) == MergeOrder(Placed(remapped(refs, id))) = [k \in 1..Len(refs) |-> id[refs[k]]]
LEMMA MembersReadBack ==
  ASSUME NEW file, IsBackup(file), NEW first \in Nat, NEW id, GivenIds(id, file, first), NEW p \in DOMAIN file.profiles
  PROVE  ReadsBack(file.profiles[p].refs, id)
<1> DEFINE refs == file.profiles[p].refs
           n == Len(refs)
           members == remapped(refs, id)
           list == [k \in 1..n |-> id[refs[k]]]
           at == Placed(members)
<1>1. n \in Nat /\ DOMAIN refs = 1..n /\ IsListing(refs, n)
  BY ListDomain DEF IsBackup, IsFile, IsListing
<1>2. /\ \A k \in 1..n : \E i \in DOMAIN file.sources : refs[k] = file.sources[i].ref
      /\ \A k, l \in 1..n : refs[k] = refs[l] => k = l
  BY <1>1 DEF IsBackup
<1> HIDE DEF refs, n
<1>3. \A i \in DOMAIN file.sources : i \in Nat \ {0}
  BY ListDomain DEF IsBackup, IsFile
<1>4. \A k \in 1..n : refs[k] \in DOMAIN id /\ id[refs[k]] \in Nat
  <2> TAKE k \in 1..n
  <2>1. PICK i \in DOMAIN file.sources : refs[k] = file.sources[i].ref
    BY <1>2
  <2>2. first + i - 1 \in Nat
    BY <1>3
  <2> QED  BY <2>1, <2>2 DEF GivenIds
<1>5. \A k, l \in 1..n : id[refs[k]] = id[refs[l]] => k = l
  <2> TAKE k, l \in 1..n
  <2>1. PICK i \in DOMAIN file.sources : refs[k] = file.sources[i].ref
    BY <1>2
  <2>2. PICK j \in DOMAIN file.sources : refs[l] = file.sources[j].ref
    BY <1>2
  <2>3. id[refs[k]] = first + i - 1 /\ id[refs[l]] = first + j - 1
    BY <2>1, <2>2 DEF GivenIds
  <2>4. first + i - 1 = first + j - 1 => i = j
    BY <1>3
  <2> QED  BY <1>2, <2>1, <2>2, <2>3, <2>4
<1>7. DOMAIN members = 1..n /\ \A k \in 1..n : members[k].source = id[refs[k]] /\ members[k].position = k - 1
  <2>1. AllKnown(refs, n, id)
    BY <1>2, <1>4 DEF AllKnown
  <2> QED  BY <1>1, <2>1, RemappedKnown
<1> HIDE DEF members
<1>8. DOMAIN at = {id[refs[k]] : k \in 1..n}
  <2>1. DOMAIN at = {members[i].source : i \in DOMAIN members}
    BY DEF Placed
  <2> QED  BY <1>7, <2>1
<1>9. ASSUME NEW k \in 1..n
      PROVE  at[id[refs[k]]] = k - 1
  <2>1. (CHOOSE i \in DOMAIN members : members[i].source = id[refs[k]]) = k
    BY <1>5, <1>7
  <2>2. id[refs[k]] \in DOMAIN at
    BY <1>8
  <2>3. at[id[refs[k]]] = members[CHOOSE i \in DOMAIN members : members[i].source = id[refs[k]]].position
    BY <2>2 DEF Placed
  <2> QED  BY <1>7, <2>1, <2>3
<1> HIDE DEF at
<1>10. IsListing(list, n) /\ \A k \in 1..n : list[k] = id[refs[k]]
  BY DEF IsListing
<1>11. DOMAIN at = {list[k] : k \in 1..n}
  BY <1>8, <1>10
<1> HIDE DEF list
<1>12. \A k \in 1..n : list[k] \in Nat
  BY <1>4, <1>10
<1>13. \A k, l \in 1..n : list[k] = list[l] => k = l
  BY <1>5, <1>10
<1>14. \A k \in 1..n : at[list[k]] = k - 1
  BY <1>9, <1>10
<1>15. MergeOrder(at) = list
  <2>1. CountsUp(at, list, n)
    BY <1>11, <1>12, <1>13, <1>14 DEF CountsUp
  <2> QED  BY <1>1, <1>10, <2>1, MergeOrderOf
<1> QED  BY <1>15 DEF list, at, members, refs, n, ReadsBack

\* After all sources and m profiles of the file.
NewProfile(file, first, i) == first + Len(file.sources) + i - 1
ProfilesIn(s, file, first, id, m, keep) ==
    /\ DOMAIN s.db = DbFields /\ DOMAIN s.job = JobFields
    /\ s.db.next = first + Len(file.sources) + m
    /\ NumberedFrom(s.db.sources, first) = first..first + Len(file.sources) - 1
    /\ NumberedFrom(s.db.profiles, first) = first + Len(file.sources)..first + Len(file.sources) + m - 1
    /\ \A i \in DOMAIN file.sources : s.db.sources[first + i - 1] = Stored(file.sources[i].row, keep)
    /\ \A i \in 1..m : LET p == NewProfile(file, first, i)
                           refs == file.profiles[i].refs
                       IN  /\ p \in DOMAIN s.db.composition /\ s.db.profiles[p] = Stored(file.profiles[i].row, keep)
                           /\ MergeOrder(s.db.composition[p]) = [k \in 1..Len(refs) |-> id[refs[k]]]
    /\ s.job.sources = << >> /\ Left(s.job.profiles, file.profiles, m) /\ s.job.pending = << >> /\ s.job.id = id
    /\ Claims(file.profiles, m, s.job.profileSlugs, keep)

\* After the last source no profile is written yet.
LEMMA SourcesDone ==
  ASSUME NEW file, IsBackup(file), NEW first \in Nat \ {0}, NEW keep \in BOOLEAN,
         NEW s, SourcesIn(s, file, first, Len(file.sources), keep)
  PROVE  GivenIds(s.job.id, file, first) /\ ProfilesIn(s, file, first, s.job.id, 0, keep)
<1> DEFINE n == Len(file.sources)
<1>1. n \in Nat /\ DOMAIN file.sources = 1..n
  BY ListDomain DEF IsBackup, IsFile
<1>2. s.job.sources = << >> /\ Left(file.profiles, file.profiles, 0)
  BY LeftEnds DEF IsBackup, IsFile, SourcesIn
<1> HIDE DEF n
<1>3. first + n + 0 = first + n /\ first + n..first + n + 0 - 1 = {} /\ \A i : i \notin 1..0
  BY <1>1
<1>4. SourcesIn(s, file, first, n, keep)
  BY DEF n
<1>5. GivenIds(s.job.id, file, first)
  BY <1>1, <1>4 DEF GivenIds, SourcesIn
<1>6. \A i \in DOMAIN file.sources : s.db.sources[first + i - 1] = Stored(file.sources[i].row, keep)
  BY <1>1, <1>4 DEF SourcesIn
<1> QED  BY <1>2, <1>3, <1>4, <1>5, <1>6 DEF SourcesIn, ProfilesIn, n

\* The row of a profile, then its composition.
LEMMA ProfileImported ==
  ASSUME NEW file, IsBackup(file), NEW first \in Nat \ {0}, NEW keep \in BOOLEAN, NEW id, GivenIds(id, file, first),
         NEW m \in Nat, m < Len(file.profiles), NEW s, ProfilesIn(s, file, first, id, m, keep)
  PROVE  ProfilesIn(ImportStep(ImportStep(s)), file, first, id, m + 1, keep)
<1> DEFINE u == ImportStep(s)
           e == ImportStep(u)
           row == NextRow(s.job)
           entry == file.profiles[m + 1]
           base == first + Len(file.sources)
           p == base + m
           members == remapped(entry.refs, id)
<1>0. base \in Nat \ {0} /\ p \in Nat /\ p > first - 1 /\ NewProfile(file, first, m + 1) = p /\ p + 1 = base + (m + 1)
      /\ base + (m + 1) - 1 = p
  <2>1. Len(file.sources) \in Nat
    BY ListDomain DEF IsBackup, IsFile
  <2>2. \A n \in Nat : /\ first + n \in Nat \ {0} /\ first + n + m \in Nat /\ first + n + m > first - 1
                       /\ first + n + (m + 1) - 1 = first + n + m /\ first + n + m + 1 = first + n + (m + 1)
    OBVIOUS
  <2> QED  BY <2>1, <2>2 DEF NewProfile
<1>1. IsList(file.profiles) /\ \A i \in DOMAIN file.profiles : IsProfile(file.profiles[i].row)
  BY DEF IsBackup, IsFile
<1>2. /\ m + 1 \in DOMAIN file.profiles /\ s.job.profiles # << >> /\ Head(s.job.profiles) = entry
      /\ Left(Tail(s.job.profiles), file.profiles, m + 1)
  BY <1>1, LeftHead DEF ProfilesIn
<1>3. s.job.sources = << >> /\ s.job.pending = << >> /\ s.job.id = id /\ s.db.next = p
  BY DEF ProfilesIn
<1>4. row = [entry.row EXCEPT !.slug = claim_slug(@, s.job.profileSlugs)]
  BY <1>2, <1>3 DEF NextRow
<1>5. DOMAIN entry.row = {"slug", "enabled", "token"}
  BY <1>1, <1>2 DEF IsProfile
<1>6. MergeOrder(Placed(members)) = [k \in 1..Len(entry.refs) |-> id[entry.refs[k]]]
  BY <1>2, MembersReadBack DEF ReadsBack
<1> HIDE DEF row, entry, members, base, p
<1>7. row.slug = claim_slug(entry.row.slug, s.job.profileSlugs)
  BY <1>4, <1>5
<1>8. /\ row.slug = (IF keep THEN entry.row.slug ELSE NoSlug)
      /\ Claims(file.profiles, m + 1, s.job.profileSlugs \cup ({row.slug} \ {NoSlug}), keep)
  <2>1. Apart(file.profiles) /\ Claims(file.profiles, m, s.job.profileSlugs, keep)
    BY DEF IsBackup, ProfilesIn
  <2>2. row.slug = claim_slug(file.profiles[m + 1].row.slug, s.job.profileSlugs)
    BY <1>7 DEF entry
  <2> DEFINE list == file.profiles
             taken == s.job.profileSlugs
             slug == row.slug
  <2>3. IsList(list) /\ Apart(list) /\ m < Len(list) /\ Claims(list, m, taken, keep)
    BY <1>1, <2>1
  <2> HIDE DEF list, taken, slug
  <2>4. slug = claim_slug(list[m + 1].row.slug, taken)
    BY <2>2 DEF list, taken, slug
  <2>5. slug = (IF keep THEN list[m + 1].row.slug ELSE NoSlug) /\ Claims(list, m + 1, taken \cup ({slug} \ {NoSlug}), keep)
    BY <2>3, <2>4, NextClaims
  <2> QED  BY <2>5 DEF entry, list, taken, slug
<1>9. row = Stored(entry.row, keep)
  BY <1>4, <1>7, <1>8 DEF Stored
<1>10. /\ u.db = create_profile(s.db, row)
       /\ u.job = [s.job EXCEPT !.profiles = Tail(@), !.pending = <<[id |-> p, members |-> members]>>,
                                !.profileSlugs = @ \cup ({row.slug} \ {NoSlug})]
  BY <1>2, <1>3 DEF ImportStep, ImportStepDb, ImportStepJob, row, members
<1>11. /\ DOMAIN u.db = DbFields /\ u.db.next = p + 1 /\ u.db.sources = s.db.sources
       /\ u.db.profiles = With(s.db.profiles, p, row) /\ u.db.composition = With(s.db.composition, p, << >>)
  BY <1>3, <1>10 DEF create_profile, ProfilesIn, DbFields
<1>12. /\ DOMAIN u.job = JobFields /\ u.job.sources = << >> /\ u.job.profiles = Tail(s.job.profiles) /\ u.job.id = id
       /\ u.job.pending = <<[id |-> p, members |-> members]>>
       /\ u.job.profileSlugs = s.job.profileSlugs \cup ({row.slug} \ {NoSlug})
  BY <1>3, <1>10 DEF ProfilesIn, JobFields
<1> HIDE DEF u
<1>13. u.job.pending # << >> /\ u.job.pending[1].id = p /\ u.job.pending[1].members = members
  BY <1>12
<1>14. e.db = set_sources(u.db, p, members) /\ e.job = [u.job EXCEPT !.pending = << >>]
  BY <1>13 DEF ImportStep, ImportStepDb, ImportStepJob
<1> HIDE DEF e
<1>15. /\ DOMAIN e.db = DbFields /\ e.db.next = p + 1 /\ e.db.sources = s.db.sources
       /\ e.db.profiles = With(s.db.profiles, p, row)
       /\ e.db.composition = [u.db.composition EXCEPT ![p] = Placed(members)]
  BY <1>11, <1>14 DEF set_sources, Placed, DbFields
<1>16. /\ DOMAIN e.job = JobFields /\ e.job.sources = << >> /\ e.job.profiles = Tail(s.job.profiles) /\ e.job.id = id
       /\ e.job.pending = << >> /\ e.job.profileSlugs = s.job.profileSlugs \cup ({row.slug} \ {NoSlug})
  BY <1>12, <1>14 DEF JobFields
<1>17. /\ DOMAIN e.db.composition = DOMAIN s.db.composition \cup {p}
       /\ e.db.composition[p] = Placed(members)
       /\ \A q \in DOMAIN s.db.composition : q # p => e.db.composition[q] = s.db.composition[q]
  BY <1>11, <1>15 DEF With
<1>18. NumberedFrom(e.db.profiles, first) = base..base + (m + 1) - 1
  <2>1. NumberedFrom(e.db.profiles, first) = NumberedFrom(s.db.profiles, first) \cup {p}
    BY <1>0, <1>15 DEF NumberedFrom, With
  <2>2. (base..base + m - 1) \cup {base + m} = base..base + (m + 1) - 1
    BY <1>0
  <2>3. NumberedFrom(s.db.profiles, first) = base..base + m - 1
    BY DEF ProfilesIn, base
  <2> QED  BY <2>1, <2>2, <2>3 DEF p
<1>19. ASSUME NEW i \in 1..m + 1
       PROVE  LET q == NewProfile(file, first, i)
                  refs == file.profiles[i].refs
              IN  /\ q \in DOMAIN e.db.composition /\ e.db.profiles[q] = Stored(file.profiles[i].row, keep)
                  /\ MergeOrder(e.db.composition[q]) = [k \in 1..Len(refs) |-> id[refs[k]]]
  <2>1. CASE i = m + 1
    <3>1. p \in DOMAIN e.db.composition /\ e.db.profiles[p] = Stored(entry.row, keep)
      BY <1>9, <1>15, <1>17 DEF With
    <3>2. MergeOrder(e.db.composition[p]) = [k \in 1..Len(entry.refs) |-> id[entry.refs[k]]]
      BY <1>6, <1>17
    <3> QED  BY <1>0, <2>1, <3>1, <3>2 DEF entry
  <2>2. CASE i # m + 1
    <3> DEFINE q == NewProfile(file, first, i)
               refs == file.profiles[i].refs
    <3>1. i \in 1..m /\ q # p /\ q \in base..base + m - 1
      BY <1>0, <2>2 DEF NewProfile, p, base
    <3>2. q \in DOMAIN s.db.profiles
      <4>1. NumberedFrom(s.db.profiles, first) = base..base + m - 1
        BY DEF ProfilesIn, base
      <4> QED  BY <3>1, <4>1 DEF NumberedFrom
    <3>3. /\ q \in DOMAIN s.db.composition /\ s.db.profiles[q] = Stored(file.profiles[i].row, keep)
          /\ MergeOrder(s.db.composition[q]) = [k \in 1..Len(refs) |-> id[refs[k]]]
      BY <3>1 DEF ProfilesIn
    <3> HIDE DEF q, refs
    <3>4. e.db.profiles[q] = s.db.profiles[q] /\ e.db.composition[q] = s.db.composition[q] /\ q \in DOMAIN e.db.composition
      BY <1>15, <1>17, <3>1, <3>2, <3>3 DEF With
    <3>5. MergeOrder(e.db.composition[q]) = [k \in 1..Len(refs) |-> id[refs[k]]]
      BY <3>3, <3>4
    <3> QED  BY <3>3, <3>4, <3>5 DEF q, refs
  <2> QED  BY <2>1, <2>2
<1>20. /\ NumberedFrom(e.db.sources, first) = first..first + Len(file.sources) - 1
       /\ \A i \in DOMAIN file.sources : e.db.sources[first + i - 1] = Stored(file.sources[i].row, keep)
  BY <1>15 DEF ProfilesIn
<1>21. e.db.next = base + (m + 1)
  BY <1>0, <1>15
<1> QED  BY <1>2, <1>8, <1>15, <1>16, <1>18, <1>19, <1>20, <1>21 DEF ProfilesIn, base, e, u

\* The whole run: the file is in the database, in its own order.
LEMMA ImportCompletes ==
  ASSUME NEW t, Sound(t), NEW file, IsBackup(file), NEW keep \in BOOLEAN,
         Claims(file.sources, 0, SlugsOf(t.sources), keep), Claims(file.profiles, 0, SlugsOf(t.profiles), keep)
  PROVE  \E s, id : /\ s.db = Restored(t, file) /\ GivenIds(id, file, t.next)
                    /\ ProfilesIn(s, file, t.next, id, Len(file.profiles), keep)
<1> DEFINE first == t.next
           n == Len(file.sources)
           k == Len(file.profiles)
<1>1. n \in Nat /\ k \in Nat
  BY ListDomain DEF IsBackup, IsFile
<1>2. first \in Nat \ {0}
  BY DEF Sound, IsDatabase
<1>3. IsFile(file) /\ ImportWrites(file) = n + 2 * k
  BY DEF IsBackup, ImportWrites
<1> HIDE DEF first, n, k
<1>4. PICK f : /\ f[0] = [db |-> t, job |-> ImportJob(t, file)]
               /\ \A i \in 1..ImportWrites(file) : f[i] = ImportStep(f[i - 1])
               /\ Restored(t, file) = f[ImportWrites(file)].db
  BY <1>3, RestoredByRun
<1> DEFINE S == {i \in 0..n : SourcesIn(f[i], file, first, i, keep)}
<1>5. \A i \in 0..n : i \in S
  <2>1. 0 \in S
    <3>1. SourcesIn(f[0], file, first, 0, keep)
      BY <1>4, ImportBegins DEF first
    <3>2. 0 \in 0..n
      BY <1>1
    <3> QED  BY <3>1, <3>2
  <2>2. ASSUME NEW i \in 1..n, i - 1 \in S
        PROVE  i \in S
    <3>1. i - 1 \in Nat /\ i - 1 < n /\ i \in 1..n + 2 * k /\ (i - 1) + 1 = i /\ i \in 0..n
      BY <1>1
    <3>2. SourcesIn(ImportStep(f[i - 1]), file, first, (i - 1) + 1, keep)
      <4>1. SourcesIn(f[i - 1], file, first, i - 1, keep)
        BY <2>2
      <4> QED  BY <1>2, <3>1, <4>1, SourceImported DEF n
    <3>3. f[i] = ImportStep(f[i - 1])
      BY <1>3, <1>4, <3>1
    <3> QED  BY <3>1, <3>2, <3>3
  <2> HIDE DEF S
  <2> QED  BY <1>1, <2>1, <2>2, SetInduction
<1> DEFINE id == f[n].job.id
<1>6. GivenIds(id, file, first) /\ ProfilesIn(f[n], file, first, id, 0, keep)
  <2>1. n \in 0..n
    BY <1>1
  <2>2. SourcesIn(f[n], file, first, Len(file.sources), keep)
    BY <1>5, <2>1 DEF n
  <2> QED  BY <1>2, <2>2, SourcesDone DEF n
<1> HIDE DEF id
<1> DEFINE P == {m \in 0..k : ProfilesIn(f[n + 2 * m], file, first, id, m, keep)}
<1>7. \A m \in 0..k : m \in P
  <2>1. 0 \in P
    <3>1. n + 2 * 0 = n /\ 0 \in 0..k
      BY <1>1
    <3> QED  BY <1>6, <3>1
  <2>2. ASSUME NEW m \in 1..k, m - 1 \in P
        PROVE  m \in P
    <3> DEFINE j == n + 2 * (m - 1)
    <3>1. /\ m - 1 \in Nat /\ m - 1 < k /\ (m - 1) + 1 = m /\ m \in 0..k
          /\ j + 1 \in 1..n + 2 * k /\ j + 2 \in 1..n + 2 * k /\ (j + 1) - 1 = j /\ (j + 2) - 1 = j + 1
          /\ n + 2 * m = j + 2
      BY <1>1
    <3> HIDE DEF j
    <3>2. f[j + 1] = ImportStep(f[j]) /\ f[j + 2] = ImportStep(f[j + 1])
      BY <1>3, <1>4, <3>1
    <3>3. ProfilesIn(f[j], file, first, id, m - 1, keep)
      BY <2>2 DEF j
    <3>4. ProfilesIn(ImportStep(ImportStep(f[j])), file, first, id, (m - 1) + 1, keep)
      BY <1>2, <1>6, <3>1, <3>3, ProfileImported DEF k
    <3> QED  BY <3>1, <3>2, <3>4
  <2> HIDE DEF P
  <2> QED  BY <1>1, <2>1, <2>2, SetInduction
<1>8. ProfilesIn(f[n + 2 * k], file, first, id, k, keep)
  <2>1. k \in 0..k
    BY <1>1
  <2> QED  BY <1>7, <2>1
<1>9. f[n + 2 * k].db = Restored(t, file)
  BY <1>3, <1>4
<1> QED  BY <1>6, <1>8, <1>9 DEF first, k

\* What the export of a sound database is: `own` and `profiles` are the ids of
\* its rows, in order.
IsExport(file, own, profiles, d) ==
    /\ DOMAIN file.sources = 1..Len(file.sources) /\ DOMAIN own = DOMAIN file.sources
    /\ DOMAIN file.profiles = 1..Len(file.profiles) /\ DOMAIN profiles = DOMAIN file.profiles
    /\ \A i \in DOMAIN own : own[i] \in DOMAIN d.sources /\ file.sources[i].ref = own[i]
                             /\ file.sources[i].row = d.sources[own[i]]
    /\ \A i, j \in DOMAIN own : own[i] = own[j] => i = j
    /\ \A i \in DOMAIN profiles : profiles[i] \in DOMAIN d.profiles /\ file.profiles[i].row = d.profiles[profiles[i]]
                                  /\ file.profiles[i].refs = get_sources(d, profiles[i])

LEMMA ExportIsBackup ==
  ASSUME NEW d, Sound(d), validate_import(WholeExport(d))
  PROVE  /\ IsBackup(WholeExport(d))
         /\ IsExport(WholeExport(d), InOrder(d.sources), InOrder(d.profiles), d)
<1> DEFINE file == WholeExport(d)
           own == InOrder(d.sources)
           profiles == InOrder(d.profiles)
<1>1. IsFile(file)
  BY ExportIsFile
<1>2. /\ IsFiniteSet(DOMAIN d.sources) /\ DOMAIN d.sources \in SUBSET Nat
      /\ IsFiniteSet(DOMAIN d.profiles) /\ DOMAIN d.profiles \in SUBSET Nat
      /\ \A p \in DOMAIN d.profiles : IsFiniteSet(DOMAIN d.composition[p])
  BY TablesAreFinite
<1>3. /\ \A i \in DOMAIN own : own[i] \in DOMAIN d.sources
      /\ \A i \in DOMAIN profiles : profiles[i] \in DOMAIN d.profiles
      /\ \A s \in DOMAIN d.sources : \E i \in DOMAIN own : own[i] = s
      /\ \A i, j \in DOMAIN own : own[i] = own[j] => i = j
      /\ \A i, j \in DOMAIN profiles : profiles[i] = profiles[j] => i = j
  <2>1. ASSUME NEW I \in SUBSET Nat, IsFiniteSet(I)
        PROVE  LET list == Ascending(I)
               IN  /\ \A i \in DOMAIN list : list[i] \in I
                   /\ \A s \in I : \E i \in DOMAIN list : list[i] = s
                   /\ \A i, j \in DOMAIN list : list[i] = list[j] => i = j
    <3>1. /\ DOMAIN Ascending(I) = 1..Cardinality(I)
          /\ \A k \in 1..Cardinality(I) : Ascending(I)[k] \in I /\ Rank(I, Ascending(I)[k]) = k
          /\ \A i \in I : Rank(I, i) \in 1..Cardinality(I) /\ Ascending(I)[Rank(I, i)] = i
      BY <2>1, AscendingLists
    <3>2. \A k, l \in 1..Cardinality(I) : Ascending(I)[k] = Ascending(I)[l] => k = l
      BY <3>1, Zenon
    <3> QED  BY <3>1, <3>2
  <2> QED  BY <1>2, <2>1 DEF InOrder
<1>4. /\ DOMAIN file.sources = DOMAIN own /\ DOMAIN file.profiles = DOMAIN profiles
      /\ \A i \in DOMAIN own : file.sources[i].ref = own[i] /\ file.sources[i].row = d.sources[own[i]]
      /\ \A i \in DOMAIN profiles : file.profiles[i].row = d.profiles[profiles[i]]
                                    /\ file.profiles[i].refs = get_sources(d, profiles[i])
  BY DEF WholeExport, ExportedSources
<1> HIDE DEF file, own, profiles
<1>5. DOMAIN file.sources = 1..Len(file.sources) /\ DOMAIN file.profiles = 1..Len(file.profiles)
  BY <1>1, ListDomain DEF IsFile
<1>6. Unique(d.sources) /\ Unique(d.profiles)
  BY DEF Sound, Related, Unique
<1>7. Apart(file.sources)
  <2> SUFFICES ASSUME NEW i \in DOMAIN own, NEW j \in DOMAIN own, own[i] # own[j], d.sources[own[i]].slug = d.sources[own[j]].slug
               PROVE  d.sources[own[i]].slug = NoSlug
    BY <1>3, <1>4 DEF Apart
  <2> QED  BY <1>3, <1>6 DEF Unique, SlugFree
<1>8. Apart(file.profiles)
  <2> SUFFICES ASSUME NEW i \in DOMAIN profiles, NEW j \in DOMAIN profiles, profiles[i] # profiles[j],
                      d.profiles[profiles[i]].slug = d.profiles[profiles[j]].slug
               PROVE  d.profiles[profiles[i]].slug = NoSlug
    BY <1>3, <1>4 DEF Apart
  <2> QED  BY <1>3, <1>6 DEF Unique, SlugFree
<1>9. \A i, j \in DOMAIN file.sources : file.sources[i].ref = file.sources[j].ref => i = j
  BY <1>3, <1>4
<1>10. ASSUME NEW i \in DOMAIN file.profiles
       PROVE  LET refs == file.profiles[i].refs
              IN  /\ \A k \in DOMAIN refs : \E j \in DOMAIN file.sources : refs[k] = file.sources[j].ref
                  /\ \A k, l \in DOMAIN refs : refs[k] = refs[l] => k = l
  <2> DEFINE p == profiles[i]
             at == d.composition[p]
  <2>1. p \in DOMAIN d.profiles /\ IsFiniteSet(DOMAIN at) /\ DOMAIN at \subseteq DOMAIN d.sources
        /\ file.profiles[i].refs = MergeOrder(at)
    BY <1>2, <1>3, <1>4 DEF get_sources, Sound, Related
  <2>2. DOMAIN at \in SUBSET Nat /\ \A s \in DOMAIN at : at[s] \in Nat
    BY <1>2, <2>1 DEF Sound, Related, IsDatabase
  <2> HIDE DEF at
  <2>3. /\ \A k \in DOMAIN MergeOrder(at) : MergeOrder(at)[k] \in DOMAIN at
        /\ \A k, l \in DOMAIN MergeOrder(at) : MergeOrder(at)[k] = MergeOrder(at)[l] => k = l
    BY <2>1, <2>2, MergeOrderLists
  <2> QED  BY <1>3, <1>4, <2>1, <2>3
<1>11. IsBackup(file)
  BY <1>1, <1>7, <1>8, <1>9, <1>10 DEF IsBackup
<1>12. IsExport(file, own, profiles, d)
  BY <1>3, <1>4, <1>5 DEF IsExport
<1> QED  BY <1>11, <1>12 DEF file, own, profiles

\* Content, with the lists of ids given.
IdsAbove(rows, above) == {id \in DOMAIN rows : id > above}
Places(own, ids) == [j \in DOMAIN ids |-> CHOOSE i \in DOMAIN own : own[i] = ids[j]]
ShownAs(d, own, profiles, slugs) ==
    [sources |-> [i \in DOMAIN own |-> Stored(d.sources[own[i]], slugs)],
     profiles |-> [i \in DOMAIN profiles |-> [row |-> Stored(d.profiles[profiles[i]], slugs),
                                              members |-> Places(own, get_sources(d, profiles[i]))]]]
LEMMA ContentOf ==
  \A d, above, slugs : Content(d, above, slugs) =
      ShownAs(d, Ascending(IdsAbove(d.sources, above)), Ascending(IdsAbove(d.profiles, above)), slugs)
  BY DEF Content, ShownAs, Stored, Places, IdsAbove

\* A row that was written as it is kept is shown as it is.
LEMMA KeptTwice == \A row, keep : Stored(Stored(row, keep), TRUE) = Stored(row, keep)
  BY DEF Stored

\* Two databases whose listed rows and members agree show the same.
Alike(e, newOwn, newProfiles, d, own, profiles, keep) ==
    /\ DOMAIN newOwn = DOMAIN own /\ DOMAIN newProfiles = DOMAIN profiles
    /\ \A i \in DOMAIN own : e.sources[newOwn[i]] = Stored(d.sources[own[i]], keep)
    /\ \A i \in DOMAIN profiles :
          /\ e.profiles[newProfiles[i]] = Stored(d.profiles[profiles[i]], keep)
          /\ Places(newOwn, get_sources(e, newProfiles[i])) = Places(own, get_sources(d, profiles[i]))
SameShown(e, newOwn, newProfiles, d, own, profiles, keep) ==
    ShownAs(e, newOwn, newProfiles, TRUE) = ShownAs(d, own, profiles, keep)
LEMMA ShownAlike ==
  ASSUME NEW e, NEW newOwn, NEW newProfiles, NEW d, NEW own, NEW profiles, NEW keep \in BOOLEAN,
         Alike(e, newOwn, newProfiles, d, own, profiles, keep)
  PROVE  SameShown(e, newOwn, newProfiles, d, own, profiles, keep)
<1>1. \A i \in DOMAIN own : Stored(e.sources[newOwn[i]], TRUE) = Stored(d.sources[own[i]], keep)
  BY KeptTwice DEF Alike
<1>2. \A i \in DOMAIN profiles : Stored(e.profiles[newProfiles[i]], TRUE) = Stored(d.profiles[profiles[i]], keep)
  BY KeptTwice DEF Alike
<1>3. [i \in DOMAIN newOwn |-> Stored(e.sources[newOwn[i]], TRUE)] = [i \in DOMAIN own |-> Stored(d.sources[own[i]], keep)]
  BY <1>1 DEF Alike
<1>4. [i \in DOMAIN newProfiles |-> [row |-> Stored(e.profiles[newProfiles[i]], TRUE),
                                     members |-> Places(newOwn, get_sources(e, newProfiles[i]))]]
      = [i \in DOMAIN profiles |-> [row |-> Stored(d.profiles[profiles[i]], keep),
                                    members |-> Places(own, get_sources(d, profiles[i]))]]
  BY <1>2 DEF Alike
<1> QED  BY <1>3, <1>4 DEF ShownAs, SameShown

\* The list of the members of a new profile takes their places among the new
\* sources as the list in the file does among the old.
NewIds(first, n) == [i \in 1..n |-> first + i - 1]
Renumbered(newOwn, own, id) ==
    /\ DOMAIN newOwn = DOMAIN own /\ \A i \in DOMAIN own : newOwn[i] = id[own[i]]
    /\ \A i, j \in DOMAIN own : own[i] = own[j] \/ newOwn[i] = newOwn[j] => i = j
Among(refs, own) == \A k \in DOMAIN refs : \E j \in DOMAIN own : refs[k] = own[j]
ReadAs(new, refs, id) == DOMAIN new = DOMAIN refs /\ \A k \in DOMAIN refs : new[k] = id[refs[k]]
LEMMA PlacesAlike ==
  ASSUME NEW own, NEW newOwn, NEW id, Renumbered(newOwn, own, id),
         NEW refs, Among(refs, own), NEW new, ReadAs(new, refs, id)
  PROVE  Places(newOwn, new) = Places(own, refs)
<1>1. ASSUME NEW k \in DOMAIN refs
      PROVE  (CHOOSE j \in DOMAIN newOwn : newOwn[j] = new[k]) = (CHOOSE j \in DOMAIN own : own[j] = refs[k])
  <2>1. PICK j \in DOMAIN own : refs[k] = own[j]
    BY DEF Among
  <2>2. new[k] = newOwn[j]
    BY <2>1 DEF ReadAs, Renumbered
  <2>3. /\ \A l \in DOMAIN newOwn : newOwn[l] = new[k] <=> l = j
        /\ \A l \in DOMAIN own : own[l] = refs[k] <=> l = j
    BY <2>1, <2>2 DEF Renumbered
  <2>4. (CHOOSE l \in DOMAIN newOwn : newOwn[l] = new[k]) = j
    BY <2>1, <2>3 DEF Renumbered
  <2>5. (CHOOSE l \in DOMAIN own : own[l] = refs[k]) = j
    BY <2>3
  <2> QED  BY <2>4, <2>5
<1> QED  BY <1>1 DEF Places, ReadAs

\* The database after the run shows its new rows as the file's database its own.
LEMMA RestoredShows ==
  ASSUME NEW d, NEW file, IsBackup(file), NEW own, NEW profiles, IsExport(file, own, profiles, d),
         NEW first \in Nat \ {0}, NEW s, NEW id, GivenIds(id, file, first), NEW keep \in BOOLEAN,
         ProfilesIn(s, file, first, id, Len(file.profiles), keep)
  PROVE  SameShown(s.db, NewIds(first, Len(file.sources)), NewIds(first + Len(file.sources), Len(file.profiles)),
                   d, own, profiles, keep)
<1> DEFINE e == s.db
           n == Len(file.sources)
           m == Len(file.profiles)
           newOwn == NewIds(first, n)
           newProfiles == NewIds(first + n, m)
<1>1. n \in Nat /\ m \in Nat
  BY ListDomain DEF IsBackup, IsFile
<1>2. /\ DOMAIN file.sources = 1..n /\ DOMAIN own = 1..n /\ DOMAIN file.profiles = 1..m /\ DOMAIN profiles = 1..m
      /\ \A i \in 1..n : file.sources[i].ref = own[i] /\ file.sources[i].row = d.sources[own[i]]
      /\ \A i, j \in 1..n : own[i] = own[j] => i = j
  BY DEF IsExport
<1>3. \A i \in 1..m : file.profiles[i].row = d.profiles[profiles[i]] /\ file.profiles[i].refs = get_sources(d, profiles[i])
  BY DEF IsExport
<1>4. /\ DOMAIN newOwn = 1..n /\ \A i \in 1..n : newOwn[i] = first + i - 1
      /\ DOMAIN newProfiles = 1..m /\ \A i \in 1..m : newProfiles[i] = NewProfile(file, first, i)
  BY DEF NewProfile, NewIds
<1>5. \A i \in DOMAIN file.sources : e.sources[first + i - 1] = Stored(file.sources[i].row, keep)
  BY DEF ProfilesIn
<1>6. \A i \in 1..m :
         /\ e.profiles[NewProfile(file, first, i)] = Stored(file.profiles[i].row, keep)
         /\ MergeOrder(e.composition[NewProfile(file, first, i)]) = [k \in 1..Len(file.profiles[i].refs) |-> id[file.profiles[i].refs[k]]]
  BY DEF ProfilesIn
<1> HIDE DEF e, n, m, newOwn, newProfiles
<1>7. \A i \in 1..n : e.sources[newOwn[i]] = Stored(d.sources[own[i]], keep)
  BY <1>2, <1>4, <1>5
<1>8. Renumbered(newOwn, own, id)
  <2>1. \A i \in 1..n : id[own[i]] = first + i - 1
    BY <1>2 DEF GivenIds
  <2>2. \A i, j \in 1..n : first + i - 1 = first + j - 1 => i = j
    BY <1>1
  <2> QED  BY <1>2, <1>4, <2>1, <2>2 DEF Renumbered
<1>9. ASSUME NEW i \in 1..m
      PROVE  /\ e.profiles[newProfiles[i]] = Stored(d.profiles[profiles[i]], keep)
             /\ Places(newOwn, get_sources(e, newProfiles[i])) = Places(own, get_sources(d, profiles[i]))
  <2> DEFINE refs == file.profiles[i].refs
             new == get_sources(e, newProfiles[i])
  <2>1. e.profiles[newProfiles[i]] = Stored(d.profiles[profiles[i]], keep)
    BY <1>3, <1>4, <1>6
  <2>2. new = [k \in 1..Len(refs) |-> id[refs[k]]]
    BY <1>4, <1>6 DEF get_sources
  <2>3. IsList(refs) /\ \A k \in DOMAIN refs : \E j \in DOMAIN file.sources : refs[k] = file.sources[j].ref
    BY <1>2 DEF IsBackup, IsFile
  <2>4. refs = get_sources(d, profiles[i])
    BY <1>3
  <2> HIDE DEF refs, new
  <2>5. Among(refs, own)
    BY <1>2, <2>3 DEF Among
  <2>6. ReadAs(new, refs, id)
    BY <2>2, <2>3, ListDomain DEF ReadAs
  <2>7. Places(newOwn, new) = Places(own, refs)
    BY <1>8, <2>5, <2>6, PlacesAlike
  <2> QED  BY <2>1, <2>4, <2>7 DEF new
<1>10. Alike(e, newOwn, newProfiles, d, own, profiles, keep)
  BY <1>2, <1>4, <1>7, <1>9 DEF Alike
<1>11. SameShown(e, newOwn, newProfiles, d, own, profiles, keep)
  BY <1>10, ShownAlike
<1> QED  BY <1>11 DEF e, n, m, newOwn, newProfiles

\* An import into a sound database shows, from its first new id on, what was exported.
LEMMA RestoredContent ==
  ASSUME NEW d, Sound(d), validate_import(WholeExport(d)), NEW t, Sound(t), NEW keep \in BOOLEAN,
         Claims(WholeExport(d).sources, 0, SlugsOf(t.sources), keep),
         Claims(WholeExport(d).profiles, 0, SlugsOf(t.profiles), keep)
  PROVE  Content(Restored(t, WholeExport(d)), t.next - 1, TRUE) = Content(d, 0, keep)
<1> DEFINE file == WholeExport(d)
           first == t.next
           n == Len(file.sources)
           m == Len(file.profiles)
<1>1. IsBackup(file) /\ IsExport(file, InOrder(d.sources), InOrder(d.profiles), d)
  BY ExportIsBackup
<1>2. n \in Nat /\ m \in Nat /\ first \in Nat \ {0}
  BY <1>1, ListDomain DEF IsBackup, IsFile, Sound, IsDatabase
<1>3. PICK s, id : /\ s.db = Restored(t, file) /\ GivenIds(id, file, first) /\ ProfilesIn(s, file, first, id, m, keep)
  BY <1>1, ImportCompletes
<1>4. IdsAbove(d.sources, 0) = DOMAIN d.sources /\ IdsAbove(d.profiles, 0) = DOMAIN d.profiles
  <2>1. \A i \in DOMAIN d.sources \cup DOMAIN d.profiles : i > 0
    BY DEF Sound, Related, IsDatabase
  <2> QED  BY <2>1 DEF IdsAbove
<1>5. Content(d, 0, keep) = ShownAs(d, InOrder(d.sources), InOrder(d.profiles), keep)
  BY <1>4, ContentOf DEF InOrder
<1> HIDE DEF file, first, n, m
<1>6. IdsAbove(s.db.sources, first - 1) = first..first + n - 1 /\ IdsAbove(s.db.profiles, first - 1) = first + n..first + n + m - 1
  BY <1>3 DEF ProfilesIn, NumberedFrom, IdsAbove, n, m
<1>7. Ascending(first..first + n - 1) = NewIds(first, n)
  BY <1>2, AscendingInterval DEF NewIds
<1>8. Ascending(first + n..first + n + m - 1) = NewIds(first + n, m)
  <2>1. first + n \in Nat
    BY <1>2
  <2> QED  BY <1>2, <2>1, AscendingInterval DEF NewIds
<1>9. Content(s.db, first - 1, TRUE) = ShownAs(s.db, NewIds(first, n), NewIds(first + n, m), TRUE)
  BY <1>6, <1>7, <1>8, ContentOf
<1>10. ShownAs(s.db, NewIds(first, n), NewIds(first + n, m), TRUE)
         = ShownAs(d, InOrder(d.sources), InOrder(d.profiles), keep)
  <2>1. ProfilesIn(s, file, first, id, Len(file.profiles), keep)
    BY <1>3 DEF m
  <2>2. GivenIds(id, file, first)
    BY <1>3
  <2>3. SameShown(s.db, NewIds(first, Len(file.sources)), NewIds(first + Len(file.sources), Len(file.profiles)),
                  d, InOrder(d.sources), InOrder(d.profiles), keep)
    BY <1>1, <1>2, <2>1, <2>2, RestoredShows
  <2> QED  BY <2>3 DEF n, m, SameShown
<1> QED  BY <1>3, <1>5, <1>9, <1>10 DEF file, first

\* Nothing is taken in an empty database, everything in the file's own.
LEMMA SlugsClaimed ==
  ASSUME NEW rows, NEW list, \A i \in DOMAIN list : \E id \in DOMAIN rows : list[i].row = rows[id]
  PROVE  Claims(list, 0, {}, TRUE) /\ Claims(list, 0, SlugsOf(rows), FALSE)
  BY DEF Claims, claim_slug, SlugsOf

\* Both halves of BackupRestores, of any sound database.
LEMMA BackupIsWhole ==
  ASSUME NEW d, Sound(d), validate_import(WholeExport(d))
  PROVE  /\ Content(Restored(EmptyDb, WholeExport(d)), 0, TRUE) = Content(d, 0, TRUE)
         /\ Content(Restored(d, WholeExport(d)), d.next - 1, TRUE) = Content(d, 0, FALSE)
<1> DEFINE file == WholeExport(d)
           sources == file.sources
           profiles == file.profiles
<1>1. /\ \A i \in DOMAIN sources : \E id \in DOMAIN d.sources : sources[i].row = d.sources[id]
      /\ \A i \in DOMAIN profiles : \E id \in DOMAIN d.profiles : profiles[i].row = d.profiles[id]
  BY ExportIsBackup DEF IsExport
<1> HIDE DEF sources, profiles
<1>2. Claims(sources, 0, {}, TRUE) /\ Claims(sources, 0, SlugsOf(d.sources), FALSE)
  BY <1>1, SlugsClaimed
<1>3. Claims(profiles, 0, {}, TRUE) /\ Claims(profiles, 0, SlugsOf(d.profiles), FALSE)
  BY <1>1, SlugsClaimed
<1>4. /\ EmptyDb.next = 1 /\ EmptyDb.sources = << >> /\ EmptyDb.profiles = << >> /\ EmptyDb.composition = << >>
      /\ DOMAIN EmptyDb = {"sources", "profiles", "composition", "next"}
  BY DEF EmptyDb
<1>5. DOMAIN << >> = {} /\ 1 - 1 = 0
  OBVIOUS
<1>6. Sound(EmptyDb)
  BY <1>4, <1>5 DEF Sound, IsDatabase, Related
<1>7. SlugsOf(EmptyDb.sources) = {} /\ SlugsOf(EmptyDb.profiles) = {}
  BY <1>4, <1>5 DEF SlugsOf
<1>8. Content(Restored(EmptyDb, file), EmptyDb.next - 1, TRUE) = Content(d, 0, TRUE)
  BY <1>2, <1>3, <1>6, <1>7, RestoredContent DEF sources, profiles
<1>9. Content(Restored(d, file), d.next - 1, TRUE) = Content(d, 0, FALSE)
  BY <1>2, <1>3, RestoredContent DEF sources, profiles
<1> QED  BY <1>4, <1>5, <1>8, <1>9

\* An export nobody wrote beside hands out the whole database.
LEMMA WholeBackup ==
  ASSUME NEW d, Sound(d), NEW w, WorkOK(d, w), Exported(w), w.touched = {}
  PROVE  BackupFile(w) = WholeExport(d)
<1>1. ReadLists(w) /\ w.sources = ExportedSources(d) /\ w.rows = ListedProfiles(d)
      /\ \A i \in DOMAIN w.refs : w.rows[i].id \in DOMAIN d.profiles => w.refs[i] = get_sources(d, w.rows[i].id)
  BY DEF WorkOK, ExportOK, Exporting, Exported, SourcesRead, ProfilesRead
<1>2. DOMAIN w.refs = DOMAIN w.rows
  BY <1>1 DEF ReadLists, IsList, Exported
<1>3. /\ DOMAIN w.rows = DOMAIN InOrder(d.profiles)
      /\ \A i \in DOMAIN w.rows : /\ w.rows[i].id = InOrder(d.profiles)[i] /\ w.rows[i].id \in DOMAIN d.profiles
                                  /\ w.rows[i].row = d.profiles[w.rows[i].id]
  BY <1>1, ProfilesListed
<1>4. \A i \in DOMAIN InOrder(d.profiles) : /\ w.refs[i] = get_sources(d, InOrder(d.profiles)[i])
                                           /\ w.rows[i].row = d.profiles[InOrder(d.profiles)[i]]
  BY <1>1, <1>2, <1>3
<1> QED  BY <1>1, <1>3, <1>4 DEF BackupFile, WholeExport

\* And in any case what nobody touched.
LEMMA UntouchedRead ==
  ASSUME NEW d, Sound(d), NEW w, WorkOK(d, w), Exported(w)
  PROVE  LET file == BackupFile(w)
         IN  /\ \A s \in DOMAIN d.sources \ w.touched : [ref |-> s, row |-> d.sources[s]] \in Range(file.sources)
             /\ \A p \in DOMAIN d.profiles \ w.touched : InBackup(d, file, p)
<1> DEFINE file == BackupFile(w)
<1>1. ReadLists(w) /\ SourcesRead(d, w) /\ ProfilesRead(d, w)
  BY DEF WorkOK, ExportOK, Exporting, Exported
<1>2. DOMAIN w.refs = DOMAIN w.rows
  BY <1>1 DEF ReadLists, IsList, Exported
<1>3. /\ file.sources = w.sources /\ DOMAIN file.profiles = DOMAIN w.rows
      /\ \A i \in DOMAIN w.rows : file.profiles[i] = [refs |-> w.refs[i], row |-> w.rows[i].row]
  BY DEF BackupFile
<1> HIDE DEF file
<1>4. \A s \in DOMAIN d.sources \ w.touched : [ref |-> s, row |-> d.sources[s]] \in Range(file.sources)
  BY <1>1, <1>3 DEF SourcesRead
<1>5. ASSUME NEW p \in DOMAIN d.profiles \ w.touched
      PROVE  InBackup(d, file, p)
  <2> DEFINE members == get_sources(d, p)
             refs == RefsIn(file)
             at == d.composition[p]
  <2>1. PICK i \in DOMAIN w.rows : w.rows[i] = [id |-> p, row |-> d.profiles[p]]
    BY <1>1 DEF ProfilesRead
  <2>2. w.rows[i].id = p /\ w.rows[i].row = d.profiles[p] /\ w.refs[i] = members
    BY <1>1, <1>2, <2>1 DEF ProfilesRead
  <2>3. file.profiles[i] = [refs |-> members, row |-> d.profiles[p]] /\ file.profiles[i].refs = members
    BY <1>3, <2>2
  <2>4. \A s \in DOMAIN at : s \in refs
    BY <1>1, <1>3 DEF SourcesRead, RefsIn
  <2>5. members = MergeOrder(at)
    BY DEF get_sources
  <2>6. IsFiniteSet(DOMAIN at) /\ DOMAIN at \in SUBSET Nat /\ \A s \in DOMAIN at : at[s] \in Nat
    BY TablesAreFinite DEF Sound, Related, IsDatabase
  <2> HIDE DEF members, refs, at
  <2>7. \A k \in DOMAIN members : members[k] \in DOMAIN at
    BY <2>5, <2>6, MergeOrderLists
  <2>8. Range(members) \subseteq refs
    BY <2>4, <2>7 DEF Range
  <2> QED  BY <1>3, <2>1, <2>3, <2>8 DEF members, refs, InBackup
<1> QED  BY <1>4, <1>5 DEF file

-----------------------------------------------------------------------------
(* The editor of rules: lists of lines.                                     *)

\* What Sequences says of the lines of a document or of a page.
LEMMA LinesAre ==
  ASSUME NEW list, IsLines(list)
  PROVE  /\ Len(list) \in Nat /\ DOMAIN list = 1..Len(list) /\ list = [k \in 1..Len(list) |-> list[k]]
         /\ list # << >> <=> 1 \in DOMAIN list
         /\ \A i \in DOMAIN list : list[i] \in Ranged(list)
<1> DEFINE S == Ranged(list)
<1>1. list \in Seq(S)
  BY DEF IsLines
<1>2. \A i \in DOMAIN list : list[i] \in S
  BY DEF Ranged
<1> HIDE DEF S
<1>3. /\ Len(list) \in Nat /\ DOMAIN list = 1..Len(list) /\ list = [k \in 1..Len(list) |-> list[k]]
      /\ list # << >> <=> 1 \in DOMAIN list
  BY <1>1
<1> QED  BY <1>2, <1>3 DEF S

\* A function on the first n numbers is a list of n lines.
LEMMA FunctionLists ==
  ASSUME NEW n \in Nat, NEW list, IsListing(list, n)
  PROVE  IsLines(list) /\ Len(list) = n /\ Ranged(list) = {list[k] : k \in 1..n}
<1> DEFINE S == {list[k] : k \in 1..n}
<1>1. list = [k \in 1..n |-> list[k]] /\ DOMAIN list = 1..n
  BY DEF IsListing
<1>2. \A k \in 1..n : list[k] \in S
  OBVIOUS
<1>3. Ranged(list) = S
  BY <1>1 DEF Ranged
<1> HIDE DEF S
<1>4. list \in [1..n -> S]
  BY <1>1, <1>2
<1>5. list \in Seq(S) /\ Len(list) = n
  BY <1>4
<1> QED  BY <1>3, <1>5 DEF IsLines, S

\* Entries, of any list.
LEMMA EntriesList ==
  ASSUME NEW list, IsLines(list), NEW I \in SUBSET DOMAIN list
  PROVE  /\ IsListing(Entries(list, I), Cardinality(I)) /\ Cardinality(I) \in Nat
         /\ IsLines(Entries(list, I)) /\ Ranged(Entries(list, I)) = {list[i] : i \in I}
<1> DEFINE S == Ranged(list)
           new == Entries(list, I)
           n == Cardinality(I)
<1>1. list \in Seq(S)
  BY DEF IsLines
<1> HIDE DEF S
<1>2. /\ n \in Nat /\ \A k \in 1..n : new[k] = list[Ascending(I)[k]] /\ Ascending(I)[k] \in I
      /\ \A i \in I : Rank(I, i) \in 1..n /\ new[Rank(I, i)] = list[i]
  BY <1>1, EntriesAreEntries
<1>3. IsListing(new, n)
  BY DEF Entries, IsListing
<1>4. IsLines(new) /\ Ranged(new) = {new[k] : k \in 1..n}
  BY <1>2, <1>3, FunctionLists
<1> HIDE DEF new, n
<1>5. {new[k] : k \in 1..n} = {list[i] : i \in I}
  BY <1>2
<1> QED  BY <1>2, <1>3, <1>4, <1>5 DEF new, n

\* Consecutive entries, taken out of a list.
LEMMA EntriesInterval ==
  ASSUME NEW list, NEW a \in Nat, NEW n \in Nat, NEW slice, IsListing(slice, n),
         \A k \in 1..n : slice[k] = list[a + k - 1]
  PROVE  Entries(list, a..a + n - 1) = slice
<1> DEFINE I == a..a + n - 1
<1>1. Ascending(I) = [k \in 1..n |-> a + k - 1]
  BY AscendingInterval
<1>2. Cardinality(I) = n
  <2>1. a \in Int /\ a + n - 1 \in Int /\ (a > a + n - 1 => n = 0) /\ (a + n - 1) - a + 1 = n
    OBVIOUS
  <2>2. Cardinality(I) = IF a > a + n - 1 THEN 0 ELSE (a + n - 1) - a + 1
    BY <2>1, FS_Interval
  <2> HIDE DEF I
  <2> QED  BY <2>1, <2>2
<1> HIDE DEF I
<1>3. Entries(list, I) = [k \in 1..n |-> list[a + k - 1]]
  BY <1>1, <1>2 DEF Entries
<1>4. slice = [k \in 1..n |-> slice[k]]
  BY DEF IsListing
<1>5. [k \in 1..n |-> list[a + k - 1]] = [k \in 1..n |-> slice[k]]
  OBVIOUS
<1> QED  BY <1>3, <1>4, <1>5 DEF I

\* The lines that satisfy a condition.
LEMMA WhereLists ==
  ASSUME NEW list, IsLines(list), NEW good
  PROVE  IsLines(Where(list, good)) /\ Ranged(Where(list, good)) = Ranged(list) \cap good
<1> DEFINE I == {i \in DOMAIN list : list[i] \in good}
<1>1. I \in SUBSET DOMAIN list
  OBVIOUS
<1>2. Where(list, good) = Entries(list, I)
  BY DEF Where
<1>3. {list[i] : i \in I} = Ranged(list) \cap good
  BY DEF Ranged
<1> HIDE DEF I
<1> QED  BY <1>1, <1>2, <1>3, EntriesList

\* All of them.
LEMMA WhereAll ==
  ASSUME NEW list, IsLines(list), NEW good, Ranged(list) \subseteq good
  PROVE  Where(list, good) = list
<1> DEFINE n == Len(list)
<1>1. n \in Nat /\ DOMAIN list = 1..n /\ IsListing(list, n)
  BY LinesAre DEF IsListing
<1> HIDE DEF n
<1>2. {i \in DOMAIN list : list[i] \in good} = 1..1 + n - 1
  BY <1>1 DEF Ranged
<1>3. \A k \in 1..n : list[k] = list[1 + k - 1]
  <2>1. \A k \in 1..n : 1 + k - 1 = k
    OBVIOUS
  <2> QED  BY <2>1
<1>4. Entries(list, 1..1 + n - 1) = list
  BY <1>1, <1>3, EntriesInterval
<1> QED  BY <1>2, <1>4 DEF Where

\* None of them.
LEMMA NoEntries == \A list : Entries(list, {}) = << >>
<1>1. Cardinality({}) = 0
  BY FS_EmptySet
<1>2. \A list : [k \in 1..0 |-> list[Ascending({})[k]]] = << >>
  OBVIOUS
<1> QED  BY <1>1, <1>2 DEF Entries

\* No line satisfies the condition.
LEMMA WhereNone ==
  ASSUME NEW list, NEW good, Ranged(list) \cap good = {}
  PROVE  Where(list, good) = << >>
<1>1. {i \in DOMAIN list : list[i] \in good} = {}
  BY DEF Ranged
<1> QED  BY <1>1, NoEntries DEF Where

\* A line that does not satisfy it makes no difference.
LEMMA WhereAppend ==
  ASSUME NEW list, IsLines(list), NEW x, NEW good, x \notin good
  PROVE  Where(Append(list, x), good) = Where(list, good)
<1> DEFINE n == Len(list)
           longer == Append(list, x)
           I == {i \in DOMAIN list : list[i] \in good}
<1>1. n \in Nat /\ DOMAIN list = 1..n
  BY LinesAre
<1>2. DOMAIN longer = 1..n + 1 /\ longer[n + 1] = x /\ \A i \in 1..n : longer[i] = list[i]
  <2>1. list \in Seq(Ranged(list))
    BY DEF IsLines
  <2>2. list \in Seq(Ranged(list) \cup {x})
    BY <2>1
  <2> QED  BY <2>2
<1> HIDE DEF longer, n
<1>3. \A i : i \in 1..n + 1 <=> i \in 1..n \/ i = n + 1
  BY <1>1
<1>4. {i \in DOMAIN longer : longer[i] \in good} = I
  BY <1>1, <1>2, <1>3
<1>5. IsFiniteSet(I) /\ I \in SUBSET Nat
  <2>1. IsFiniteSet(1..n)
    BY <1>1, Counting
  <2> QED  BY <1>1, <2>1, FS_Subset
<1>6. \A k \in 1..Cardinality(I) : Ascending(I)[k] \in I
  <2> HIDE DEF I
  <2> QED  BY <1>5, AscendingLists
<1>7. \A k \in 1..Cardinality(I) : longer[Ascending(I)[k]] = list[Ascending(I)[k]]
  BY <1>1, <1>2, <1>6
<1>8. Entries(longer, I) = Entries(list, I)
  <2> HIDE DEF I
  <2> QED  BY <1>7 DEF Entries
<1> QED  BY <1>4, <1>8 DEF Where, longer

\* The entries of two lists one after the other.
LEMMA JoinedLists ==
  ASSUME NEW S, NEW a \in Seq(S), NEW b \in Seq(S)
  PROVE  \A i \in 1..Len(a) + Len(b) : (a \o b)[i] = IF i <= Len(a) THEN a[i] ELSE b[i - Len(a)]
<1> TAKE i \in 1..Len(a) + Len(b)
<1> QED  OBVIOUS

\* Where two lists follow each other and only the second satisfies it.
LEMMA WhereSecond ==
  ASSUME NEW a, IsLines(a), NEW b, IsLines(b), NEW good, Ranged(a) \cap good = {}, Ranged(b) \subseteq good
  PROVE  /\ IsLines(a \o b) /\ Ranged(a \o b) = Ranged(a) \cup Ranged(b)
         /\ Where(a \o b, good) = b
<1> DEFINE m == Len(a)
           n == Len(b)
           both == a \o b
<1>1. m \in Nat /\ DOMAIN a = 1..m /\ n \in Nat /\ DOMAIN b = 1..n /\ IsListing(b, n)
  BY LinesAre DEF IsListing
<1>2. /\ Len(both) = m + n /\ DOMAIN both = 1..m + n /\ both = [i \in 1..m + n |-> both[i]]
      /\ \A i \in 1..m + n : both[i] = IF i <= m THEN a[i] ELSE b[i - m]
  <2>1. \E S : a \in Seq(S) /\ b \in Seq(S)
    <3>1. a \in Seq(Ranged(a)) /\ b \in Seq(Ranged(b))
      BY DEF IsLines
    <3>2. a \in Seq(Ranged(a) \cup Ranged(b)) /\ b \in Seq(Ranged(a) \cup Ranged(b))
      BY <3>1
    <3> QED  BY <3>2
  <2>2. PICK S : a \in Seq(S) /\ b \in Seq(S)
    BY <2>1
  <2>3. both \in Seq(S) /\ Len(both) = m + n
    BY <2>2
  <2> HIDE DEF both, m, n
  <2>4. DOMAIN both = 1..m + n /\ both = [i \in 1..m + n |-> both[i]]
    BY <2>3
  <2>5. \A i \in 1..Len(a) + Len(b) : (a \o b)[i] = IF i <= Len(a) THEN a[i] ELSE b[i - Len(a)]
    BY <2>2, JoinedLists
  <2> QED  BY <2>3, <2>4, <2>5 DEF both, m, n
<1> HIDE DEF both, m, n
<1>3. /\ \A i \in 1..m : i \in 1..m + n /\ both[i] = a[i]
      /\ \A i \in 1..n : m + i \in 1..m + n /\ both[m + i] = b[i]
      /\ \A i \in 1..m + n : i \in 1..m \/ \E j \in 1..n : i = m + j
  <2>1. ASSUME NEW i \in 1..m PROVE i \in 1..m + n /\ both[i] = a[i]
    <3>1. i \in 1..m + n /\ i <= m
      BY <1>1
    <3> QED  BY <1>2, <3>1
  <2>2. ASSUME NEW i \in 1..n PROVE m + i \in 1..m + n /\ both[m + i] = b[i]
    <3> DEFINE j == m + i
    <3>1. j \in 1..m + n /\ ~(j <= m) /\ j - m = i
      BY <1>1
    <3> HIDE DEF j
    <3>2. both[j] = b[i]
      BY <1>2, <3>1
    <3> QED  BY <3>1, <3>2 DEF j
  <2>3. \A i \in 1..m + n : i \in 1..m \/ (i - m \in 1..n /\ i = m + (i - m))
    BY <1>1
  <2>4. \A i \in 1..m + n : i \in 1..m \/ \E j \in 1..n : i = m + j
    BY <2>3
  <2> QED  BY <2>1, <2>2, <2>4
<1>4. m + n \in Nat /\ IsListing(both, m + n)
  BY <1>1, <1>2 DEF IsListing
<1>5. IsLines(both) /\ Ranged(both) = {both[i] : i \in 1..m + n}
  BY <1>4, FunctionLists
<1>6. Ranged(both) = Ranged(a) \cup Ranged(b)
  <2>1. Ranged(a) = {a[i] : i \in 1..m} /\ Ranged(b) = {b[i] : i \in 1..n}
    BY <1>1 DEF Ranged
  <2>2. \A i \in 1..m + n : both[i] \in Ranged(a) \/ both[i] \in Ranged(b)
    <3> TAKE i \in 1..m + n
    <3>1. CASE i \in 1..m
      BY <1>3, <2>1, <3>1
    <3>2. CASE i \notin 1..m
      <4>1. PICK j \in 1..n : i = m + j
        BY <1>3, <3>2
      <4> QED  BY <1>3, <2>1, <4>1
    <3> QED  BY <3>1, <3>2
  <2>3. \A i \in 1..m : a[i] \in Ranged(both)
    BY <1>3, <1>5
  <2>4. \A i \in 1..n : b[i] \in Ranged(both)
    BY <1>3, <1>5
  <2>5. \A x \in Ranged(both) : x \in Ranged(a) \cup Ranged(b)
    BY <1>5, <2>2
  <2>6. \A x \in Ranged(a) \cup Ranged(b) : x \in Ranged(both)
    BY <2>1, <2>3, <2>4
  <2> QED  BY <2>5, <2>6
<1>7. {i \in DOMAIN both : both[i] \in good} = m + 1..(m + 1) + n - 1
  <2>1. \A i \in 1..m : a[i] \notin good
    BY <1>1 DEF Ranged
  <2>2. \A i \in 1..n : b[i] \in good
    BY <1>1 DEF Ranged
  <2>3. ASSUME NEW i \in 1..m + n
        PROVE  both[i] \in good <=> i > m
    <3>1. CASE i \in 1..m
      BY <1>1, <1>3, <2>1, <3>1
    <3>2. CASE i \notin 1..m
      <4>1. PICK j \in 1..n : i = m + j
        BY <1>3, <3>2
      <4>2. i > m
        BY <1>1, <4>1
      <4> QED  BY <1>3, <2>2, <4>1, <4>2
    <3> QED  BY <3>1, <3>2
  <2>4. {i \in DOMAIN both : both[i] \in good} = {i \in 1..m + n : i > m}
    BY <1>2, <2>3
  <2>5. {i \in 1..m + n : i > m} = m + 1..(m + 1) + n - 1
    BY <1>1
  <2> QED  BY <2>4, <2>5
<1>8. \A k \in 1..n : b[k] = both[(m + 1) + k - 1]
  <2>1. \A k \in 1..n : (m + 1) + k - 1 = m + k
    BY <1>1
  <2> QED  BY <1>3, <2>1
<1>9. Entries(both, m + 1..(m + 1) + n - 1) = b
  <2>1. m + 1 \in Nat
    BY <1>1
  <2> QED  BY <1>1, <1>8, <2>1, EntriesInterval
<1> QED  BY <1>5, <1>6, <1>7, <1>9 DEF Where, both

\* The order of the schema: the known statuses in it, the others after them.
LEMMA SchemaOrder ==
  ASSUME NEW h, IsLines(h)
  PROVE  /\ IsLines(InSchemaOrder(h)) /\ Ranged(InSchemaOrder(h)) = Ranged(h)
         /\ InSchemaOrder(InSchemaOrder(h)) = InSchemaOrder(h)
<1> DEFINE All == Ranged(AllStatuses)
           others == Ranged(h) \ All
           a == Where(AllStatuses, Ranged(h))
           b == Where(h, others)
           new == InSchemaOrder(h)
<1>1. IsLines(AllStatuses)
  <2> DEFINE S == Ranged(AllStatuses)
  <2>1. \A i \in 1..5 : AllStatuses[i] \in S
    BY DEF Ranged, AllStatuses
  <2>2. AllStatuses \in Seq({"unknown", "alive", "ready", "quarantine", "removed"})
    BY DEF AllStatuses
  <2>3. Len(AllStatuses) = 5 /\ AllStatuses = [i \in 1..5 |-> AllStatuses[i]]
    BY DEF AllStatuses
  <2> HIDE DEF S
  <2>4. AllStatuses \in Seq(S)
    BY <2>1, <2>2, <2>3
  <2> QED  BY <2>4 DEF IsLines, S
<1>2. IsLines(a) /\ Ranged(a) = All \cap Ranged(h)
  BY <1>1, WhereLists
<1>3. IsLines(b) /\ Ranged(b) = others
  BY WhereLists
<1>4. new = a \o b
  BY DEF InSchemaOrder
<1> HIDE DEF a, b, new, All
<1>5. Ranged(a) \cap others = {} /\ Ranged(b) \subseteq others
  BY <1>2, <1>3
<1>6. IsLines(new) /\ Ranged(new) = Ranged(a) \cup Ranged(b) /\ Where(new, others) = b
  <2> HIDE DEF others
  <2> QED  BY <1>2, <1>3, <1>4, <1>5, WhereSecond
<1>7. Ranged(new) = Ranged(h)
  BY <1>2, <1>3, <1>6
<1>8. InSchemaOrder(new) = Where(AllStatuses, Ranged(h)) \o Where(new, Ranged(h) \ All)
  BY <1>7 DEF InSchemaOrder, All
<1>9. InSchemaOrder(new) = a \o b
  BY <1>6, <1>8 DEF a
<1> QED  BY <1>4, <1>6, <1>7, <1>9 DEF new

-----------------------------------------------------------------------------
(* What a page makes of its lines, and what it contributes to a document.   *)

\* The sections of a page.
Controls == {"filter", "rename", "drop", "geo", "health", "sort", "limit"}
IsPage(s) == DOMAIN s = Controls /\ \A k \in Controls : IsField(k, s[k])

\* A section depends on its own fields.
LEMMA EmittedAlike ==
  \A a, b, k : DOMAIN a = DOMAIN b /\ (k \in DOMAIN a => a[k] = b[k]) => Emitted(a, k) = Emitted(b, k)
  BY DEF Emitted

\* A document depends on what its sections contribute.
LEMMA EmitAlike ==
  ASSUME NEW a, NEW b, \A k \in Sections : Emitted(a, k) = Emitted(b, k)
  PROVE  emit(a) = emit(b)
<1> DEFINE S == {k \in Sections : Emitted(a, k) # None}
<1>1. S = {k \in Sections : Emitted(b, k) # None}
  OBVIOUS
<1>2. "version" \notin Sections
  BY DEF Sections
<1>3. \A k \in S \cup {"version"} : (IF k = "version" THEN 1 ELSE Value(Emitted(a, k))) = IF k = "version" THEN 1 ELSE Value(Emitted(b, k))
  OBVIOUS
<1>4. [k \in S \cup {"version"} |-> IF k = "version" THEN 1 ELSE Value(Emitted(a, k))]
      = [k \in S \cup {"version"} |-> IF k = "version" THEN 1 ELSE Value(Emitted(b, k))]
  BY <1>3
<1> HIDE DEF S
<1>5. emit(a) = IF S = {} THEN None ELSE Some([k \in S \cup {"version"} |-> IF k = "version" THEN 1 ELSE Value(Emitted(a, k))])
  BY DEF emit, S
<1>6. emit(b) = IF S = {} THEN None ELSE Some([k \in S \cup {"version"} |-> IF k = "version" THEN 1 ELSE Value(Emitted(b, k))])
  BY <1>1 DEF emit
<1> QED  BY <1>4, <1>5, <1>6

\* Trimming.
LEMMA TrimmedOnce == \A v : Trimmed(v) \notin DOMAIN Trim /\ (v \notin DOMAIN Trim => Trimmed(v) = v)
  BY FormAssumption DEF Trimmed

AreTidyRenames(rows) ==
    IsRenames(rows) /\ \A r \in Ranged(rows) : r.match \notin DOMAIN Trim /\ r.replace \notin DOMAIN Trim
AreTidyDrops(rows) == IsDrops(rows) /\ \A r \in Ranged(rows) : r.match \notin DOMAIN Trim

\* Lines that are written one by one.
LEMMA MappedLines ==
  ASSUME NEW list, IsLines(list), NEW new, DOMAIN new = DOMAIN list, new = [i \in DOMAIN list |-> new[i]]
  PROVE  IsLines(new) /\ \A r \in Ranged(new) : \E i \in DOMAIN list : r = new[i]
<1> DEFINE n == Len(list)
<1>1. n \in Nat /\ DOMAIN list = 1..n
  BY LinesAre
<1> HIDE DEF n
<1>2. IsListing(new, n)
  BY <1>1 DEF IsListing
<1> QED  BY <1>1, <1>2, FunctionLists

\* A list without lines gets a blank one.
LEMMA PaddedLines ==
  ASSUME NEW rows, IsLines(rows), NEW blank
  PROVE  /\ IsLines(Padded(rows, blank)) /\ Padded(rows, blank) # << >>
         /\ Ranged(Padded(rows, blank)) \subseteq Ranged(rows) \cup {blank}
<1>1. CASE rows = << >>
  <2>1. Padded(rows, blank) = <<blank>>
    BY <1>1 DEF Padded
  <2>2. IsListing(<<blank>>, 1) /\ <<blank>> # << >> /\ \A k \in 1..1 : <<blank>>[k] = blank
    BY DEF IsListing
  <2> QED  BY <2>1, <2>2, FunctionLists
<1>2. CASE rows # << >>
  BY <1>2 DEF Padded
<1> QED  BY <1>1, <1>2

\* What is posted of the rename rules is trimmed.
LEMMA RenamesAreTidied ==
  ASSUME NEW rows, IsRenames(rows)
  PROVE  AreTidyRenames(TidyRenames(rows))
<1> DEFINE padded == Padded(rows, BlankRename)
           trimmed == TrimmedRules(rows, BlankRename)
           new == TidyRenames(rows)
<1>1. IsLines(padded) /\ Ranged(padded) \subseteq Ranged(rows) \cup {BlankRename}
  BY PaddedLines DEF IsRenames
<1>2. \A r \in Ranged(padded) : r = [match |-> r.match, replace |-> r.replace, target |-> r.target]
  BY <1>1 DEF IsRenames, BlankRename
<1>3. \A i \in DOMAIN padded : padded[i] \in Ranged(padded)
  BY DEF Ranged
<1>4. \A i \in DOMAIN padded : trimmed[i] = [padded[i] EXCEPT !.match = Trimmed(@)]
  BY DEF TrimmedRules
<1>5. DOMAIN new = DOMAIN padded /\ new = [i \in DOMAIN padded |-> new[i]]
      /\ \A i \in DOMAIN padded : new[i] = [trimmed[i] EXCEPT !.replace = Trimmed(@)]
  BY DEF TidyRenames
<1> HIDE DEF padded, trimmed, new
<1>6. \A i \in DOMAIN padded :
         new[i] = [match |-> Trimmed(padded[i].match), replace |-> Trimmed(padded[i].replace), target |-> padded[i].target]
  <2> TAKE i \in DOMAIN padded
  <2> DEFINE r == padded[i]
             t == trimmed[i]
  <2>1. r = [match |-> r.match, replace |-> r.replace, target |-> r.target] /\ t = [r EXCEPT !.match = Trimmed(@)]
    BY <1>2, <1>3, <1>4
  <2>2. new[i] = [t EXCEPT !.replace = Trimmed(@)]
    BY <1>5
  <2> HIDE DEF r, t
  <2>3. t = [match |-> Trimmed(r.match), replace |-> r.replace, target |-> r.target]
    BY <2>1
  <2>4. new[i] = [match |-> Trimmed(r.match), replace |-> Trimmed(r.replace), target |-> r.target]
    BY <2>2, <2>3
  <2> QED  BY <2>4 DEF r
<1>7. IsLines(new) /\ \A r \in Ranged(new) : \E i \in DOMAIN padded : r = new[i]
  BY <1>1, <1>5, MappedLines
<1>8. ASSUME NEW r \in Ranged(new)
      PROVE  /\ r = [match |-> r.match, replace |-> r.replace, target |-> r.target]
             /\ r.match \notin DOMAIN Trim /\ r.replace \notin DOMAIN Trim
  <2>1. PICK i \in DOMAIN padded : r = new[i]
    BY <1>7
  <2>2. r = [match |-> Trimmed(padded[i].match), replace |-> Trimmed(padded[i].replace), target |-> padded[i].target]
    BY <1>6, <2>1
  <2>3. r.match = Trimmed(padded[i].match) /\ r.replace = Trimmed(padded[i].replace) /\ r.target = padded[i].target
    BY <2>2
  <2> QED  BY <2>2, <2>3, TrimmedOnce
<1> QED  BY <1>7, <1>8 DEF AreTidyRenames, IsRenames, new

\* What is posted of the drop rules is trimmed.
LEMMA DropsAreTidied ==
  ASSUME NEW rows, IsDrops(rows)
  PROVE  AreTidyDrops(TidyDrops(rows))
<1> DEFINE padded == Padded(rows, BlankDrop)
           new == TidyDrops(rows)
<1>1. IsLines(padded) /\ Ranged(padded) \subseteq Ranged(rows) \cup {BlankDrop}
  BY PaddedLines DEF IsDrops
<1>2. IsOption(None)
  BY DEF IsOption
<1>3. \A r \in Ranged(padded) : r = [match |-> r.match, target |-> r.target, asns |-> r.asns] /\ IsOption(r.asns)
  BY <1>1, <1>2 DEF IsDrops, BlankDrop
<1>4. \A i \in DOMAIN padded : padded[i] \in Ranged(padded)
  BY DEF Ranged
<1>5. DOMAIN new = DOMAIN padded /\ new = [i \in DOMAIN padded |-> new[i]]
      /\ \A i \in DOMAIN padded : new[i] = [padded[i] EXCEPT !.match = Trimmed(@)]
  BY DEF TidyDrops, TrimmedRules
<1> HIDE DEF padded, new
<1>6. \A i \in DOMAIN padded :
         new[i] = [match |-> Trimmed(padded[i].match), target |-> padded[i].target, asns |-> padded[i].asns]
  BY <1>3, <1>4, <1>5
<1>7. IsLines(new) /\ \A r \in Ranged(new) : \E i \in DOMAIN padded : r = new[i]
  BY <1>1, <1>5, MappedLines
<1>8. ASSUME NEW r \in Ranged(new)
      PROVE  /\ r = [match |-> r.match, target |-> r.target, asns |-> r.asns] /\ IsOption(r.asns)
             /\ r.match \notin DOMAIN Trim
  <2>1. PICK i \in DOMAIN padded : r = new[i]
    BY <1>7
  <2>2. r = [match |-> Trimmed(padded[i].match), target |-> padded[i].target, asns |-> padded[i].asns]
    BY <1>6, <2>1
  <2>3. r.match = Trimmed(padded[i].match) /\ r.target = padded[i].target /\ r.asns = padded[i].asns
    BY <2>2
  <2> QED  BY <1>3, <1>4, <2>2, <2>3, TrimmedOnce
<1> QED  BY <1>7, <1>8 DEF AreTidyDrops, IsDrops, new

\* The value of an option that has one.
LEMMA ValueOfSome == \A v : Value(Some(v)) = v /\ Some(v) # None
  BY DEF Value, Some, None

\* What the handlers read of a posted page.
LEMMA FromForm ==
  ASSUME NEW s, IsPage(s), NEW c
  PROVE  LET p == from_form(s, c)
         IN  /\ DOMAIN p = Controls
             /\ p["rename"] = [mode |-> RuleMode(s["rename"].mode, c), rows |-> TidyRenames(s["rename"].rows)]
             /\ p["drop"] = [mode |-> RuleMode(s["drop"].mode, c), rows |-> TidyDrops(s["drop"].rows)]
             /\ p["health"] = [mode |-> s["health"].mode, statuses |-> InSchemaOrder(s["health"].statuses)]
             /\ \A k \in {"filter", "geo", "sort", "limit"} : p[k] = s[k]
<1>1. DOMAIN s = Controls
  BY DEF IsPage
<1>2. s["health"] = [mode |-> s["health"].mode, statuses |-> s["health"].statuses]
  <2>1. IsField("health", s["health"])
    BY DEF IsPage, Controls
  <2> QED  BY <2>1 DEF IsField
<1> QED  BY <1>1, <1>2 DEF from_form, Controls

\* It is a page again, its rules trimmed, its statuses in order.
LEMMA FromFormIsPage ==
  ASSUME NEW s, IsPage(s), NEW c
  PROVE  /\ IsPage(from_form(s, c))
         /\ AreTidyRenames(from_form(s, c)["rename"].rows) /\ AreTidyDrops(from_form(s, c)["drop"].rows)
         /\ InSchemaOrder(from_form(s, c)["health"].statuses) = from_form(s, c)["health"].statuses
<1> DEFINE p == from_form(s, c)
<1>1. /\ IsRenames(s["rename"].rows) /\ IsDrops(s["drop"].rows) /\ IsLines(s["health"].statuses)
      /\ \A k \in Controls : IsField(k, s[k])
  <2>1. IsField("rename", s["rename"]) /\ IsField("drop", s["drop"]) /\ IsField("health", s["health"])
    BY DEF IsPage, Controls
  <2> QED  BY <2>1 DEF IsField, IsPage
<1>2. AreTidyRenames(TidyRenames(s["rename"].rows)) /\ AreTidyDrops(TidyDrops(s["drop"].rows))
  BY <1>1, RenamesAreTidied, DropsAreTidied
<1>3. LET t == InSchemaOrder(s["health"].statuses) IN IsLines(t) /\ InSchemaOrder(t) = t
  BY <1>1, SchemaOrder
<1>4. /\ DOMAIN p = Controls
      /\ p["rename"] = [mode |-> RuleMode(s["rename"].mode, c), rows |-> TidyRenames(s["rename"].rows)]
      /\ p["drop"] = [mode |-> RuleMode(s["drop"].mode, c), rows |-> TidyDrops(s["drop"].rows)]
      /\ p["health"] = [mode |-> s["health"].mode, statuses |-> InSchemaOrder(s["health"].statuses)]
      /\ \A k \in {"filter", "geo", "sort", "limit"} : p[k] = s[k]
  BY FromForm
<1> HIDE DEF p
<1>5. IsField("rename", p["rename"])
  BY <1>2, <1>4 DEF IsField, AreTidyRenames
<1>6. IsField("drop", p["drop"])
  BY <1>2, <1>4 DEF IsField, AreTidyDrops
<1>7. IsField("health", p["health"])
  BY <1>3, <1>4 DEF IsField
<1>8. \A k \in {"filter", "geo", "sort", "limit"} : IsField(k, p[k])
  BY <1>1, <1>4 DEF Controls
<1>9. IsPage(p)
  BY <1>4, <1>5, <1>6, <1>7, <1>8 DEF IsPage, Controls
<1> QED  BY <1>2, <1>3, <1>4, <1>9 DEF p

\* What a document says in a section, if anything.
Says(option, k) == IF option # None /\ Has(Value(option), k) THEN Some(Value(option)[k]) ELSE None

\* A section contributes one value or none.
LEMMA EmittedOptions == \A k, f : k \in Controls => IsOption(Contribution(k, f))
<1> SUFFICES ASSUME NEW k \in Controls, NEW f PROVE IsOption(Contribution(k, f))
  OBVIOUS
<1>1. \A v : IsOption(Some(v)) /\ IsOption(None)
  BY ValueOfSome DEF IsOption
<1>2. CASE k = "filter"
  BY <1>1, <1>2 DEF Contribution
<1>3. CASE k \in {"rename", "drop"}
  <2>1. k # "filter"
    BY <1>3
  <2> QED  BY <1>1, <1>3, <2>1 DEF Contribution
<1>4. CASE k = "geo"
  BY <1>1, <1>4 DEF Contribution
<1>5. CASE k = "health"
  BY <1>1, <1>5 DEF Contribution
<1>6. CASE k = "sort"
  BY <1>1, <1>6 DEF Contribution
<1>7. CASE k = "limit"
  BY <1>1, <1>7 DEF Contribution
<1> QED  BY <1>2, <1>3, <1>4, <1>5, <1>6, <1>7 DEF Controls

\* The document says exactly what the sections contribute.
LEMMA EmitSays ==
  ASSUME NEW s, DOMAIN s = Controls
  PROVE  /\ \A k \in Controls : Says(emit(s), k) = Contribution(k, s[k])
         /\ emit(s) # None =>
               LET doc == Value(emit(s))
               IN  /\ emit(s) = Some(doc) /\ doc["version"] = 1 /\ "version" \in DOMAIN doc
                   /\ DOMAIN doc \subseteq Controls \cup {"version"}
                   /\ \A k \in DOMAIN doc \ {"version"} : Contribution(k, s[k]) = Some(doc[k])
<1> DEFINE present == {k \in Sections : Emitted(s, k) # None}
           doc == [k \in present \cup {"version"} |-> IF k = "version" THEN 1 ELSE Value(Emitted(s, k))]
<1>1. /\ "version" \notin Sections /\ "version" \notin Controls /\ Controls \subseteq Sections
  BY DEF Sections, Controls
<1>2. /\ \A k \in Controls : Emitted(s, k) = Contribution(k, s[k])
      /\ \A k : k \notin Controls => Emitted(s, k) = None
  BY DEF Emitted
<1>3. present \subseteq Controls
  BY <1>2
<1>4. \A k \in present : Emitted(s, k) = Some(Value(Emitted(s, k)))
  BY <1>2, <1>3, EmittedOptions DEF IsOption
<1>5. /\ DOMAIN doc = present \cup {"version"} /\ doc["version"] = 1
      /\ \A k \in present : k # "version" /\ doc[k] = Value(Emitted(s, k))
  BY <1>1, <1>3
<1>6. emit(s) = IF present = {} THEN None ELSE Some(doc)
  BY DEF emit
<1>7. \A k \in Controls : k \in present <=> Emitted(s, k) # None
  BY <1>1
<1> HIDE DEF present, doc
<1>8. ASSUME NEW k \in Controls
      PROVE  Says(emit(s), k) = Contribution(k, s[k])
  <2>1. CASE k \in present
    BY <1>2, <1>4, <1>5, <1>6, <2>1, ValueOfSome DEF Says, Has
  <2>2. CASE k \notin present
    <3>1. Contribution(k, s[k]) = None
      BY <1>2, <1>7, <2>2
    <3>2. k \notin DOMAIN doc
      BY <1>1, <1>5, <2>2
    <3> QED  BY <1>6, <3>1, <3>2, ValueOfSome DEF Says, Has
  <2> QED  BY <2>1, <2>2
<1>9. emit(s) # None => emit(s) = Some(doc) /\ Value(emit(s)) = doc
  BY <1>6, ValueOfSome
<1>10. \A k \in DOMAIN doc \ {"version"} : Contribution(k, s[k]) = Some(doc[k])
  BY <1>2, <1>3, <1>4, <1>5
<1> QED  BY <1>3, <1>5, <1>8, <1>9, <1>10

\* The lines of rules that are typed in.
GoodDrops(rows) == {r \in Ranged(rows) : IF r.target = "asn" THEN r.asns # None ELSE r.match # NoText}
ClearedDrop(r) == IF r.target = "asn" THEN [r EXCEPT !.match = NoText] ELSE [r EXCEPT !.asns = None]

\* The rules that are sent are the lines typed in, each without the other kind's field.
LEMMA TypedDropsAre ==
  \A rows : TypedDrops(rows) = [i \in DOMAIN Where(rows, GoodDrops(rows)) |-> ClearedDrop(Where(rows, GoodDrops(rows))[i])]
  BY DEF TypedDrops, GoodDrops, ClearedDrop

\* They are rules of the page.
LEMMA TypedRenameLines ==
  ASSUME NEW rows, IsRenames(rows)
  PROVE  LET typed == TypedRenames(rows)
         IN  IsRenames(typed) /\ Ranged(typed) \subseteq Ranged(rows)
<1> DEFINE good == {r \in Ranged(rows) : r.match # NoText}
<1>1. IsLines(Where(rows, good)) /\ Ranged(Where(rows, good)) = Ranged(rows) \cap good
  <2> HIDE DEF good
  <2> QED  BY WhereLists DEF IsRenames
<1>2. TypedRenames(rows) = Where(rows, good)
  BY DEF TypedRenames
<1> HIDE DEF good
<1> QED  BY <1>1, <1>2 DEF IsRenames

\* The same for drop rules, but for a pattern cleared.
LEMMA TypedDropLines ==
  ASSUME NEW rows, IsDrops(rows)
  PROVE  LET typed == TypedDrops(rows)
         IN  IsDrops(typed) /\ \A r \in Ranged(typed) : \E q \in Ranged(rows) : r.match \in {NoText, q.match}
<1> DEFINE good == GoodDrops(rows)
           typed == Where(rows, good)
           new == TypedDrops(rows)
<1>1. IsLines(typed) /\ Ranged(typed) \subseteq Ranged(rows)
  <2> HIDE DEF good
  <2> QED  BY WhereLists DEF IsDrops
<1>2. new = [i \in DOMAIN typed |-> ClearedDrop(typed[i])]
  BY TypedDropsAre
<1>3. \A i \in DOMAIN typed : typed[i] \in Ranged(rows)
  BY <1>1 DEF Ranged
<1> HIDE DEF good, typed, new
<1>4. DOMAIN new = DOMAIN typed /\ new = [i \in DOMAIN typed |-> new[i]] /\ \A i \in DOMAIN typed : new[i] = ClearedDrop(typed[i])
  BY <1>2
<1>5. IsLines(new) /\ \A r \in Ranged(new) : \E i \in DOMAIN typed : r = new[i]
  BY <1>1, <1>4, MappedLines
<1>6. ASSUME NEW r \in Ranged(new)
      PROVE  /\ r = [match |-> r.match, target |-> r.target, asns |-> r.asns] /\ IsOption(r.asns)
             /\ \E q \in Ranged(rows) : r.match \in {NoText, q.match}
  <2>1. PICK i \in DOMAIN typed : r = new[i]
    BY <1>5
  <2>2. PICK q \in Ranged(rows) : r = ClearedDrop(q)
    BY <1>3, <1>4, <2>1
  <2>3. q = [match |-> q.match, target |-> q.target, asns |-> q.asns] /\ IsOption(q.asns) /\ IsOption(None)
    BY DEF IsDrops, IsOption
  <2>4. CASE q.target = "asn"
    <3>1. r = [match |-> NoText, target |-> q.target, asns |-> q.asns]
      BY <2>2, <2>3, <2>4 DEF ClearedDrop
    <3> QED  BY <2>3, <3>1
  <2>5. CASE q.target # "asn"
    <3>1. r = [match |-> q.match, target |-> q.target, asns |-> None]
      BY <2>2, <2>3, <2>5 DEF ClearedDrop
    <3> QED  BY <2>3, <3>1
  <2> QED  BY <2>4, <2>5
<1> QED  BY <1>5, <1>6 DEF IsDrops, new

\* Tidied lines stay as they are; a page without lines gets a blank one, which says nothing.
LEMMA BlanksSayNothing ==
  /\ TypedRenames(<< >>) = << >> /\ TypedRenames(TidyRenames(<< >>)) = << >>
  /\ TypedDrops(<< >>) = << >> /\ TypedDrops(TidyDrops(<< >>)) = << >>
<1>1. Trimmed(NoText) = NoText
  BY TrimmedOnce, FormAssumption
<1>2. ASSUME NEW b
      PROVE  LET p == Padded(<< >>, b) IN DOMAIN p = {1} /\ p[1] = b
  BY DEF Padded
<1>3. Ranged(<< >>) = {}
  BY DEF Ranged
<1>4. Ranged(TidyRenames(<< >>)) = {BlankRename}
  <2> DEFINE t == TrimmedRules(<< >>, BlankRename)
             new == TidyRenames(<< >>)
             p == Padded(<< >>, BlankRename)
  <2>1. DOMAIN p = {1} /\ p[1] = BlankRename
    BY <1>2
  <2>2. t = [i \in DOMAIN p |-> [p[i] EXCEPT !.match = Trimmed(@)]]
    BY DEF TrimmedRules
  <2>3. new = [i \in DOMAIN p |-> [t[i] EXCEPT !.replace = Trimmed(@)]]
    BY DEF TidyRenames
  <2> HIDE DEF p, t, new
  <2>4. t[1] = BlankRename
    BY <1>1, <2>1, <2>2 DEF BlankRename
  <2>5. DOMAIN new = {1} /\ new[1] = BlankRename
    BY <1>1, <2>1, <2>3, <2>4 DEF BlankRename
  <2> QED  BY <2>5 DEF Ranged, new
<1>5. Ranged(TidyDrops(<< >>)) = {BlankDrop}
  <2> DEFINE new == TidyDrops(<< >>)
             p == Padded(<< >>, BlankDrop)
  <2>1. DOMAIN p = {1} /\ p[1] = BlankDrop
    BY <1>2
  <2>2. new = [i \in DOMAIN p |-> [p[i] EXCEPT !.match = Trimmed(@)]]
    BY DEF TrimmedRules, TidyDrops
  <2> HIDE DEF p, new
  <2>3. DOMAIN new = {1} /\ new[1] = BlankDrop
    BY <1>1, <2>1, <2>2 DEF BlankDrop
  <2> QED  BY <2>3 DEF Ranged, new
<1>6. \A rows : Ranged(rows) \subseteq {BlankRename} => TypedRenames(rows) = << >>
  <2> TAKE rows
  <2> HAVE Ranged(rows) \subseteq {BlankRename}
  <2>1. Ranged(rows) \cap {r \in Ranged(rows) : r.match # NoText} = {}
    BY DEF BlankRename
  <2> QED  BY <2>1, WhereNone DEF TypedRenames
<1>7. \A rows : Ranged(rows) \subseteq {BlankDrop} => TypedDrops(rows) = << >>
  <2> TAKE rows
  <2> HAVE Ranged(rows) \subseteq {BlankDrop}
  <2>1. BlankDrop.target # "asn" /\ BlankDrop.match = NoText
    BY DEF BlankDrop
  <2>2. Ranged(rows) \cap GoodDrops(rows) = {}
    BY <2>1 DEF GoodDrops
  <2>3. Where(rows, GoodDrops(rows)) = << >>
    BY <2>2, WhereNone
  <2> QED  BY <2>3, TypedDropsAre
<1> QED  BY <1>3, <1>4, <1>5, <1>6, <1>7

\* Lines that are tidy and not empty come back as they are.
LEMMA TidyLinesStay ==
  ASSUME NEW rows, rows # << >>
  PROVE  /\ AreTidyRenames(rows) => TidyRenames(rows) = rows
         /\ AreTidyDrops(rows) => TidyDrops(rows) = rows
<1>1. \A b : Padded(rows, b) = rows
  BY DEF Padded
<1>2. ASSUME AreTidyRenames(rows) PROVE TidyRenames(rows) = rows
  <2> DEFINE t == TrimmedRules(rows, BlankRename)
             new == TidyRenames(rows)
  <2>1. t = [i \in DOMAIN rows |-> [rows[i] EXCEPT !.match = Trimmed(@)]]
    BY <1>1 DEF TrimmedRules
  <2>2. new = [i \in DOMAIN rows |-> [t[i] EXCEPT !.replace = Trimmed(@)]]
    BY <1>1 DEF TidyRenames
  <2>3. rows = [i \in DOMAIN rows |-> rows[i]]
    BY <1>2, LinesAre DEF AreTidyRenames, IsRenames
  <2> HIDE DEF t, new
  <2>4. ASSUME NEW i \in DOMAIN rows PROVE [t[i] EXCEPT !.replace = Trimmed(@)] = rows[i]
    <3> DEFINE r == rows[i]
    <3>1. r \in Ranged(rows)
      BY DEF Ranged
    <3>2. r = [match |-> r.match, replace |-> r.replace, target |-> r.target] /\ r.match \notin DOMAIN Trim /\ r.replace \notin DOMAIN Trim
      BY <1>2, <3>1 DEF AreTidyRenames, IsRenames
    <3>3. t[i] = [r EXCEPT !.match = Trimmed(@)]
      BY <2>1
    <3> HIDE DEF r
    <3>4. t[i] = r
      BY <3>2, <3>3, TrimmedOnce
    <3>5. [r EXCEPT !.replace = Trimmed(@)] = r
      BY <3>2, TrimmedOnce
    <3> QED  BY <3>4, <3>5 DEF r
  <2> QED  BY <2>2, <2>3, <2>4 DEF new
<1>3. ASSUME AreTidyDrops(rows) PROVE TidyDrops(rows) = rows
  <2> DEFINE new == TidyDrops(rows)
  <2>1. new = [i \in DOMAIN rows |-> [rows[i] EXCEPT !.match = Trimmed(@)]]
    BY <1>1 DEF TrimmedRules, TidyDrops
  <2>2. rows = [i \in DOMAIN rows |-> rows[i]]
    BY <1>3, LinesAre DEF AreTidyDrops, IsDrops
  <2> HIDE DEF new
  <2>3. ASSUME NEW i \in DOMAIN rows PROVE [rows[i] EXCEPT !.match = Trimmed(@)] = rows[i]
    <3> DEFINE r == rows[i]
    <3>1. r \in Ranged(rows)
      BY DEF Ranged
    <3>2. r = [match |-> r.match, target |-> r.target, asns |-> r.asns] /\ r.match \notin DOMAIN Trim
      BY <1>3, <3>1 DEF AreTidyDrops, IsDrops
    <3> HIDE DEF r
    <3>3. [r EXCEPT !.match = Trimmed(@)] = r
      BY <3>2, TrimmedOnce
    <3> QED  BY <3>3 DEF r
  <2> QED  BY <2>1, <2>2, <2>3 DEF new
<1> QED  BY <1>2, <1>3

\* Tidying lines that are tidy changes no rule of theirs.
LEMMA TidiedTwice ==
  ASSUME NEW rows
  PROVE  /\ AreTidyRenames(rows) => TypedRenames(TidyRenames(rows)) = TypedRenames(rows)
         /\ AreTidyDrops(rows) => TypedDrops(TidyDrops(rows)) = TypedDrops(rows)
  BY BlanksSayNothing, TidyLinesStay

\* What each section contributes, spelled out.
LEMMA FilterContributes ==
  \A f : Contribution("filter", f) = IF f.mode = "defaults" THEN Some(FilterDefaults)
                                     ELSE IF f.mode = "set" /\ FilterSection(f) # FilterDefaults THEN Some(FilterSection(f))
                                     ELSE None
  BY DEF Contribution
LEMMA RenameContributes ==
  \A f : Contribution("rename", f) = IF f.mode = "defaults" THEN Some(<< >>)
                                     ELSE IF f.mode = "set" /\ TypedRenames(f.rows) # << >> THEN Some(TypedRenames(f.rows))
                                     ELSE None
  BY DEF Contribution
LEMMA DropContributes ==
  \A f : Contribution("drop", f) = IF f.mode = "defaults" THEN Some(<< >>)
                                   ELSE IF f.mode = "set" /\ TypedDrops(f.rows) # << >> THEN Some(TypedDrops(f.rows))
                                   ELSE None
  BY DEF Contribution
LEMMA HealthContributes ==
  \A f : Contribution("health", f) = IF f.mode = "defaults" THEN Some(default_exclude_statuses)
                                     ELSE IF f.mode = "set" /\ f.statuses # default_exclude_statuses THEN Some(f.statuses)
                                     ELSE None
  BY DEF Contribution
SortSection(f) == [by |-> f.by, desc |-> f.desc]
LEMMA SortContributes ==
  \A f : Contribution("sort", f) = IF f.mode = "defaults" THEN Some(SortDefaults)
                                   ELSE IF f.mode = "set" /\ SortSection(f) # SortDefaults THEN Some(SortSection(f))
                                   ELSE None
  BY DEF Contribution, SortSection
LEMMA LimitContributes ==
  \A f : Contribution("limit", f) = IF f.mode = "defaults" THEN Some(NoCap)
                                    ELSE IF f.mode = "set" /\ (~f.typed \/ f.count # None)
                                         THEN Some([typed |-> f.typed, count |-> f.count])
                                    ELSE None
  BY DEF Contribution
GeoSection(f) == [enabled |-> f.enabled, template |-> IF f.template = NoText THEN DefaultTemplate ELSE f.template]
\* The country section, whose template may be left empty.
LEMMA GeoContributes ==
  \A f : Contribution("geo", f) = IF f.mode = "defaults" THEN Some(GeoDefaults)
                                  ELSE IF f.mode = "set" /\ GeoSection(f) # GeoDefaults THEN Some(GeoSection(f))
                                  ELSE None
  BY DEF Contribution, GeoSection

\* The explicit defaults are lists of lines.
LEMMA ShortLists ==
  /\ IsLines(<< >>) /\ Ranged(<< >>) = {}
  /\ IsLines(default_exclude_statuses) /\ Ranged(default_exclude_statuses) = {"quarantine", "removed"}
  /\ default_exclude_statuses # << >>
<1>1. \A k \in 1..0 : TRUE
  OBVIOUS
<1>2. IsListing(<< >>, 0)
  BY DEF IsListing
<1>3. IsListing(default_exclude_statuses, 2)
  BY DEF IsListing, default_exclude_statuses
<1>4. Ranged(<< >>) = {} /\ IsLines(<< >>)
  BY <1>2, FunctionLists DEF Ranged
<1>5. IsLines(default_exclude_statuses)
  BY <1>3, FunctionLists
<1>6. Ranged(default_exclude_statuses) = {"quarantine", "removed"} /\ default_exclude_statuses # << >>
  BY DEF Ranged, default_exclude_statuses
<1> QED  BY <1>4, <1>5, <1>6

\* What fields contribute is a section of a document.
LEMMA ContributionIsSection ==
  ASSUME NEW k \in Controls, NEW f, IsField(k, f), Contribution(k, f) # None
  PROVE  IsSection(k, Value(Contribution(k, f)))
<1>0. IsOption(None) /\ \A v : IsOption(Some(v))
  BY ValueOfSome DEF IsOption
<1>1. CASE k = "filter"
  <2>1. IsSection("filter", FilterDefaults)
    BY <1>0 DEF IsSection, FilterDefaults
  <2>2. IsOption(NonEmpty(f.protocols)) /\ IsOption(NonEmpty(f.exclude_protocols))
    BY <1>0 DEF NonEmpty
  <2>3. IsOption(f.asns) /\ IsOption(f.exclude_asns)
    BY <1>1 DEF IsField
  <2>4. IsSection("filter", FilterSection(f))
    BY <2>2, <2>3 DEF IsSection, FilterSection
  <2> QED  BY <1>1, <2>1, <2>4, FilterContributes, ValueOfSome
<1>2. CASE k = "rename"
  <2>1. IsRenames(f.rows)
    BY <1>2 DEF IsField
  <2>2. IsRenames(TypedRenames(f.rows)) /\ IsRenames(<< >>)
    BY <2>1, TypedRenameLines, ShortLists DEF IsRenames
  <2>3. IsSection("rename", TypedRenames(f.rows)) /\ IsSection("rename", << >>)
    BY <2>2 DEF IsSection
  <2> QED  BY <1>2, <2>3, RenameContributes, ValueOfSome
<1>3. CASE k = "drop"
  <2>1. IsDrops(f.rows)
    BY <1>3 DEF IsField
  <2>2. IsDrops(TypedDrops(f.rows)) /\ IsDrops(<< >>)
    BY <2>1, TypedDropLines, ShortLists DEF IsDrops
  <2>3. IsSection("drop", TypedDrops(f.rows)) /\ IsSection("drop", << >>)
    BY <2>2 DEF IsSection
  <2> QED  BY <1>3, <2>3, DropContributes, ValueOfSome
<1>4. CASE k = "geo"
  <2>1. f.enabled \in BOOLEAN
    BY <1>4 DEF IsField
  <2>2. IsSection("geo", GeoSection(f)) /\ IsSection("geo", GeoDefaults)
    BY <2>1 DEF IsSection, GeoSection, GeoDefaults
  <2> QED  BY <1>4, <2>2, GeoContributes, ValueOfSome
<1>5. CASE k = "health"
  <2>1. IsLines(f.statuses)
    BY <1>5 DEF IsField
  <2>2. IsSection("health", f.statuses) /\ IsSection("health", default_exclude_statuses)
    BY <2>1, ShortLists DEF IsSection
  <2> QED  BY <1>5, <2>2, HealthContributes, ValueOfSome
<1>6. CASE k = "sort"
  <2>1. IsSection("sort", SortSection(f)) /\ IsSection("sort", SortDefaults)
    BY DEF IsSection, SortDefaults, SortSection
  <2> QED  BY <1>6, <2>1, SortContributes, ValueOfSome
<1>7. CASE k = "limit"
  <2>1. f.typed \in BOOLEAN /\ IsOption(f.count)
    BY <1>7 DEF IsField
  <2>2. IsSection("limit", [typed |-> f.typed, count |-> f.count]) /\ IsSection("limit", NoCap)
    BY <1>0, <2>1 DEF IsSection, NoCap
  <2> QED  BY <1>7, <2>2, LimitContributes, ValueOfSome
<1> QED  BY <1>1, <1>2, <1>3, <1>4, <1>5, <1>6, <1>7 DEF Controls

\* What a page emits is a document.
LEMMA EmitIsDocument ==
  ASSUME NEW s, IsPage(s)
  PROVE  IsDocument(emit(s))
<1>0. DOMAIN s = Controls
  BY DEF IsPage
<1>1. CASE emit(s) = None
  BY <1>1 DEF IsDocument, IsOption, None
<1>2. CASE emit(s) # None
  <2> DEFINE doc == Value(emit(s))
  <2>1. /\ emit(s) = Some(doc) /\ DOMAIN doc \subseteq Controls \cup {"version"}
        /\ \A k \in DOMAIN doc \ {"version"} : Contribution(k, s[k]) = Some(doc[k])
    BY <1>0, <1>2, EmitSays
  <2> HIDE DEF doc
  <2>2. ASSUME NEW k \in DOMAIN doc PROVE IsSection(k, doc[k])
    <3>1. CASE k = "version"
      BY <3>1 DEF IsSection
    <3>2. CASE k # "version"
      <4>1. k \in Controls /\ Contribution(k, s[k]) = Some(doc[k]) /\ IsField(k, s[k])
        BY <2>1, <3>2 DEF IsPage
      <4> QED  BY <4>1, ContributionIsSection, ValueOfSome
    <3> QED  BY <3>1, <3>2
  <2>3. IsOption(emit(s))
    BY <2>1, ValueOfSome DEF IsOption
  <2>4. \A d \in emit(s) : d = doc
    BY <2>1 DEF Some
  <2> QED  BY <2>2, <2>3, <2>4 DEF IsDocument
<1> QED  BY <1>1, <1>2

\* Where a section of rules or of statuses comes from.
LEMMA SectionComesFrom ==
  ASSUME NEW f, NEW v
  PROVE  /\ Contribution("rename", f) = Some(v) => v \in {<< >>, TypedRenames(f.rows)}
         /\ Contribution("drop", f) = Some(v) => v \in {<< >>, TypedDrops(f.rows)}
         /\ Contribution("health", f) = Some(v) => v \in {default_exclude_statuses, f.statuses}
<1>0. Value(Some(v)) = v /\ Some(v) # None
  BY ValueOfSome
<1>1. \A w : Some(w) = Some(v) => w = v
  BY DEF Some
<1>2. ASSUME Contribution("rename", f) = Some(v) PROVE v \in {<< >>, TypedRenames(f.rows)}
  <2>1. Contribution("rename", f) \in {Some(<< >>), Some(TypedRenames(f.rows)), None}
    BY RenameContributes
  <2> QED  BY <1>0, <1>1, <1>2, <2>1
<1>3. ASSUME Contribution("drop", f) = Some(v) PROVE v \in {<< >>, TypedDrops(f.rows)}
  <2>1. Contribution("drop", f) \in {Some(<< >>), Some(TypedDrops(f.rows)), None}
    BY DropContributes
  <2> QED  BY <1>0, <1>1, <1>3, <2>1
<1>4. ASSUME Contribution("health", f) = Some(v) PROVE v \in {default_exclude_statuses, f.statuses}
  <2>1. Contribution("health", f) \in {Some(default_exclude_statuses), Some(f.statuses), None}
    BY HealthContributes
  <2> QED  BY <1>0, <1>1, <1>4, <2>1
<1> QED  BY <1>2, <1>3, <1>4

\* A posted page emits what a page can show.
LEMMA PostedShows ==
  ASSUME NEW s, IsPage(s), AreTidyRenames(s["rename"].rows), AreTidyDrops(s["drop"].rows),
         InSchemaOrder(s["health"].statuses) = s["health"].statuses
  PROVE  \A d \in emit(s) : ~Unshowable(d)
<1>0. DOMAIN s = Controls
  BY DEF IsPage
<1>1. SUFFICES ASSUME NEW d \in emit(s) PROVE ~Unshowable(d)
  OBVIOUS
<1>2. emit(s) # None
  BY <1>1 DEF None
<1>3. /\ d = Value(emit(s))
      /\ \A k \in DOMAIN d \ {"version"} : Contribution(k, s[k]) = Some(d[k])
  BY <1>0, <1>2, EmitSays DEF Some
<1>4. ASSUME Has(d, "rename")
      PROVE  (Texts(d.rename) \cup {r.replace : r \in Ranged(d.rename)}) \cap DOMAIN Trim = {}
  <2>1. Some(d.rename) = Contribution("rename", s["rename"])
    BY <1>3, <1>4 DEF Has
  <2>2. d.rename \in {<< >>, TypedRenames(s["rename"].rows)}
    BY <2>1, SectionComesFrom
  <2>3. Ranged(d.rename) \subseteq Ranged(s["rename"].rows)
    BY <2>2, ShortLists, TypedRenameLines DEF AreTidyRenames
  <2> QED  BY <2>3 DEF Texts, AreTidyRenames
<1>5. ASSUME Has(d, "drop")
      PROVE  Texts(d.drop) \cap DOMAIN Trim = {}
  <2>1. Some(d.drop) = Contribution("drop", s["drop"])
    BY <1>3, <1>5 DEF Has
  <2>2. d.drop \in {<< >>, TypedDrops(s["drop"].rows)}
    BY <2>1, SectionComesFrom
  <2>3. \A r \in Ranged(d.drop) : \E q \in Ranged(s["drop"].rows) : r.match \in {NoText, q.match}
    BY <2>2, ShortLists, TypedDropLines DEF AreTidyDrops
  <2>4. \A r \in Ranged(d.drop) : r.match \notin DOMAIN Trim
    BY <2>3, FormAssumption DEF AreTidyDrops
  <2> QED  BY <2>4 DEF Texts
<1>6. ASSUME Has(d, "health"), d.health # default_exclude_statuses
      PROVE  InSchemaOrder(d.health) # default_exclude_statuses
  <2>1. Some(d.health) = Contribution("health", s["health"])
    BY <1>3, <1>6 DEF Has
  <2>2. d.health = s["health"].statuses
    BY <1>6, <2>1, SectionComesFrom
  <2> QED  BY <1>6, <2>2
<1> QED  BY <1>4, <1>5, <1>6 DEF Unshowable

\* Reading the fields of a settled page gives what is on it.
LEMMA EmitSettled ==
  ASSUME NEW s, IsPage(s), AreTidyRenames(s["rename"].rows), AreTidyDrops(s["drop"].rows),
         InSchemaOrder(s["health"].statuses) = s["health"].statuses,
         NEW c, RuleMode(s["rename"].mode, c) = s["rename"].mode, RuleMode(s["drop"].mode, c) = s["drop"].mode
  PROVE  emit(from_form(s, c)) = emit(s)
<1> DEFINE p == from_form(s, c)
<1>1. /\ DOMAIN p = Controls
      /\ p["rename"] = [mode |-> RuleMode(s["rename"].mode, c), rows |-> TidyRenames(s["rename"].rows)]
      /\ p["drop"] = [mode |-> RuleMode(s["drop"].mode, c), rows |-> TidyDrops(s["drop"].rows)]
      /\ p["health"] = [mode |-> s["health"].mode, statuses |-> InSchemaOrder(s["health"].statuses)]
      /\ \A k \in {"filter", "geo", "sort", "limit"} : p[k] = s[k]
  BY FromForm
<1>2. DOMAIN s = Controls
  BY DEF IsPage
<1>3. /\ TypedRenames(TidyRenames(s["rename"].rows)) = TypedRenames(s["rename"].rows)
      /\ TypedDrops(TidyDrops(s["drop"].rows)) = TypedDrops(s["drop"].rows)
  BY TidiedTwice
<1> HIDE DEF p
<1>4. Contribution("rename", p["rename"]) = Contribution("rename", s["rename"])
  <2>1. p["rename"].mode = s["rename"].mode /\ TypedRenames(p["rename"].rows) = TypedRenames(s["rename"].rows)
    BY <1>1, <1>3
  <2> QED  BY <2>1, RenameContributes
<1>5. Contribution("drop", p["drop"]) = Contribution("drop", s["drop"])
  <2>1. p["drop"].mode = s["drop"].mode /\ TypedDrops(p["drop"].rows) = TypedDrops(s["drop"].rows)
    BY <1>1, <1>3
  <2> QED  BY <2>1, DropContributes
<1>6. Contribution("health", p["health"]) = Contribution("health", s["health"])
  <2>1. p["health"].mode = s["health"].mode /\ p["health"].statuses = s["health"].statuses
    BY <1>1
  <2> QED  BY <2>1, HealthContributes
<1>7. \A k \in Controls : Contribution(k, p[k]) = Contribution(k, s[k])
  BY <1>1, <1>4, <1>5, <1>6 DEF Controls
<1>8. \A k \in Sections : Emitted(p, k) = Emitted(s, k)
  BY <1>1, <1>2, <1>7 DEF Emitted
<1> QED  BY <1>8, EmitAlike DEF p

-----------------------------------------------------------------------------
(* Documents that say the same.                                             *)

\* Two documents that say the same in every section, as far as it has an effect.
SameSection(k, v, w) ==
    CASE k = "filter" -> /\ v.protocols = w.protocols /\ v.asns = w.asns /\ v.forbid_insecure = w.forbid_insecure
                         /\ Listed(v.exclude_protocols) = Listed(w.exclude_protocols)
                         /\ Listed(v.exclude_asns) = Listed(w.exclude_asns)
      [] k = "health" -> Ranged(v) = Ranged(w)
      [] OTHER -> v = w
SaysTheSame(k, x, y) ==
    \/ x = None /\ y = None
    \/ x # None /\ y # None /\ SameSection(k, Value(x), Value(y))
SaysAlike(a, b) == \A k \in Controls : SaysTheSame(k, Says(a, k), Says(b, k))

ReadOver(option, base) == [k \in Controls |-> IF Says(option, k) # None THEN Value(Says(option, k)) ELSE base[k]]

EffectiveFilter(v) ==
    [protocols |-> v.protocols, exclude_protocols |-> Listed(v.exclude_protocols),
     asns |-> v.asns, exclude_asns |-> Listed(v.exclude_asns), forbid_insecure |-> v.forbid_insecure]
\* What EXCEPT makes of a filter.
LEMMA FilterEffect ==
  ASSUME NEW v, v = [protocols |-> v.protocols, exclude_protocols |-> v.exclude_protocols,
                     asns |-> v.asns, exclude_asns |-> v.exclude_asns, forbid_insecure |-> v.forbid_insecure]
  PROVE  [v EXCEPT !.exclude_protocols = Listed(@), !.exclude_asns = Listed(@)] = EffectiveFilter(v)
<1>1. DOMAIN v = {"protocols", "exclude_protocols", "asns", "exclude_asns", "forbid_insecure"}
  OBVIOUS
<1> DEFINE x == [v EXCEPT !.exclude_protocols = Listed(@), !.exclude_asns = Listed(@)]
           dom == {"protocols", "exclude_protocols", "asns", "exclude_asns", "forbid_insecure"}
<1>2. /\ x["protocols"] = v.protocols /\ x["exclude_protocols"] = Listed(v.exclude_protocols)
      /\ x["asns"] = v.asns /\ x["exclude_asns"] = Listed(v.exclude_asns) /\ x["forbid_insecure"] = v.forbid_insecure
  BY <1>1
<1>3. x = [n \in dom |-> x[n]]
  BY <1>1
<1>4. LET e == EffectiveFilter(v)
      IN  /\ e = [n \in dom |-> e[n]]
          /\ e["protocols"] = v.protocols /\ e["exclude_protocols"] = Listed(v.exclude_protocols)
          /\ e["asns"] = v.asns /\ e["exclude_asns"] = Listed(v.exclude_asns) /\ e["forbid_insecure"] = v.forbid_insecure
  BY DEF EffectiveFilter
<1> HIDE DEF x
<1>5. \A n \in dom : x[n] = EffectiveFilter(v)[n]
  BY <1>2, <1>4
<1> QED  BY <1>3, <1>4, <1>5 DEF x

\* Read over the same base, they have the same effect.
LEMMA ReadOverAlike ==
  ASSUME NEW a, NEW b, SaysAlike(a, b), NEW base, IsSection("filter", base["filter"]),
         Says(a, "filter") # None => IsSection("filter", Value(Says(a, "filter"))),
         Says(b, "filter") # None => IsSection("filter", Value(Says(b, "filter")))
  PROVE  Effect(ReadOver(a, base)) = Effect(ReadOver(b, base))
<1> DEFINE p == ReadOver(a, base)
           q == ReadOver(b, base)
           Part(pipe, k) == IF k = "health" THEN Ranged(pipe[k])
                            ELSE IF k = "filter" THEN [pipe[k] EXCEPT !.exclude_protocols = Listed(@), !.exclude_asns = Listed(@)]
                            ELSE pipe[k]
<1>1. \A k \in Controls : SameSection(k, p[k], q[k])
  <2> TAKE k \in Controls
  <2>1. p[k] = (IF Says(a, k) # None THEN Value(Says(a, k)) ELSE base[k])
        /\ q[k] = (IF Says(b, k) # None THEN Value(Says(b, k)) ELSE base[k])
    BY DEF ReadOver
  <2>2. SaysTheSame(k, Says(a, k), Says(b, k))
    BY DEF SaysAlike
  <2>3. SameSection(k, base[k], base[k])
    BY DEF SameSection
  <2> HIDE DEF p, q
  <2> QED  BY <2>1, <2>2, <2>3 DEF SaysTheSame
<1>2. IsSection("filter", p["filter"]) /\ IsSection("filter", q["filter"])
  BY DEF ReadOver, Controls
<1>3. DOMAIN p = Controls /\ DOMAIN q = Controls
  BY DEF ReadOver
<1> HIDE DEF p, q
<1>4. Effect(p) = [k \in Controls |-> Part(p, k)] /\ Effect(q) = [k \in Controls |-> Part(q, k)]
  BY <1>3 DEF Effect, Controls
<1>5. ASSUME NEW k \in Controls PROVE Part(p, k) = Part(q, k)
  <2>1. CASE k = "filter"
    <3> DEFINE v == p["filter"]
               w == q["filter"]
    <3>1. /\ v.protocols = w.protocols /\ v.asns = w.asns /\ v.forbid_insecure = w.forbid_insecure
          /\ Listed(v.exclude_protocols) = Listed(w.exclude_protocols) /\ Listed(v.exclude_asns) = Listed(w.exclude_asns)
      BY <1>1, <2>1 DEF SameSection
    <3>2. /\ v = [protocols |-> v.protocols, exclude_protocols |-> v.exclude_protocols,
                  asns |-> v.asns, exclude_asns |-> v.exclude_asns, forbid_insecure |-> v.forbid_insecure]
          /\ w = [protocols |-> w.protocols, exclude_protocols |-> w.exclude_protocols,
                  asns |-> w.asns, exclude_asns |-> w.exclude_asns, forbid_insecure |-> w.forbid_insecure]
      BY <1>2 DEF IsSection
    <3> HIDE DEF v, w
    <3>3. /\ [v EXCEPT !.exclude_protocols = Listed(@), !.exclude_asns = Listed(@)] = EffectiveFilter(v)
          /\ [w EXCEPT !.exclude_protocols = Listed(@), !.exclude_asns = Listed(@)] = EffectiveFilter(w)
      BY <3>2, FilterEffect
    <3>4. [v EXCEPT !.exclude_protocols = Listed(@), !.exclude_asns = Listed(@)]
          = [w EXCEPT !.exclude_protocols = Listed(@), !.exclude_asns = Listed(@)]
      BY <3>1, <3>3 DEF EffectiveFilter
    <3> QED  BY <2>1, <3>4 DEF v, w
  <2>2. CASE k = "health"
    BY <1>1, <2>2 DEF SameSection
  <2>3. CASE k \notin {"filter", "health"}
    BY <1>1, <2>3 DEF SameSection
  <2> QED  BY <2>1, <2>2, <2>3
<1> HIDE DEF Part
<1> QED  BY <1>4, <1>5 DEF p, q

\* What is read of a configuration, alone or over another one, is what it says there.
LEMMA ReadsAs ==
  \A option : /\ from_json(option) = ReadOver(option, Default)
              /\ from_json(merge_configs(Some(Opinionated), option)) = ReadOver(option, Opinionated)
              /\ SortExplicit(option) <=> Says(option, "sort") # None
<1> TAKE option
<1>1. DOMAIN Default = Controls
  BY DEF Default, Controls
<1>2. ASSUME NEW k PROVE /\ Says(option, k) # None <=> option # None /\ Has(Value(option), k)
                         /\ Says(option, k) # None => Value(Says(option, k)) = Value(option)[k]
  BY ValueOfSome DEF Says
<1>3. from_json(option) = ReadOver(option, Default)
  BY <1>1, <1>2 DEF from_json, ReadOver
<1>4. SortExplicit(option) <=> Says(option, "sort") # None
  BY <1>2 DEF SortExplicit
<1>5. Controls \subseteq DOMAIN Opinionated
  BY DEF Opinionated, Controls
<1>6. from_json(merge_configs(Some(Opinionated), option)) = ReadOver(option, Opinionated)
  <2> DEFINE m == merge_configs(Some(Opinionated), option)
  <2>1. Some(Opinionated) # None /\ Value(Some(Opinionated)) = Opinionated
    BY ValueOfSome
  <2>2. CASE option = None
    <3>1. m = Some(Opinionated)
      BY <2>1, <2>2 DEF merge_configs
    <3> HIDE DEF m
    <3>2. \A k \in Controls : m # None /\ Has(Value(m), k) /\ Value(m)[k] = Opinionated[k]
      BY <1>5, <2>1, <3>1 DEF Has
    <3>3. \A k : Says(option, k) = None
      BY <2>2 DEF Says
    <3> QED  BY <1>1, <3>2, <3>3 DEF from_json, ReadOver, m
  <2>3. CASE option # None
    <3> DEFINE d == Value(option)
               doc == [k \in DOMAIN Opinionated \cup DOMAIN d |-> IF Has(d, k) THEN d[k] ELSE Opinionated[k]]
    <3>1. m = Some(doc)
      BY <2>1, <2>3 DEF merge_configs
    <3>2. m # None /\ Value(m) = doc
      BY <3>1, ValueOfSome
    <3>3. \A k \in Controls : k \in DOMAIN doc /\ doc[k] = IF Has(d, k) THEN d[k] ELSE Opinionated[k]
      BY <1>5
    <3> HIDE DEF m, doc
    <3>4. \A k \in Controls : m # None /\ Has(Value(m), k) /\ Value(m)[k] = IF Has(d, k) THEN d[k] ELSE Opinionated[k]
      BY <3>2, <3>3 DEF Has
    <3>5. \A k : /\ Says(option, k) # None <=> Has(d, k)
                 /\ Says(option, k) # None => Value(Says(option, k)) = d[k]
      BY <1>2, <2>3
    <3> HIDE DEF d
    <3> QED  BY <1>1, <3>4, <3>5 DEF from_json, ReadOver, m
  <2> QED  BY <2>2, <2>3
<1> QED  BY <1>3, <1>4, <1>6

\* Where a document says something, it is a section of it.
LEMMA SaysSection ==
  ASSUME NEW o, IsDocument(o), NEW k, Says(o, k) # None
  PROVE  LET d == Value(o)
         IN  /\ o = Some(d) /\ d \in o /\ k \in DOMAIN d /\ d # Empty
             /\ Says(o, k) = Some(d[k]) /\ Value(Says(o, k)) = d[k] /\ IsSection(k, d[k])
<1>1. o # None /\ Has(Value(o), k) /\ Says(o, k) = Some(Value(o)[k])
  BY DEF Says
<1>2. o = Some(Value(o))
  BY <1>1 DEF IsDocument, IsOption
<1>3. Value(o) \in o
  BY <1>2 DEF Some
<1>4. DOMAIN Empty = {}
  BY DEF Empty
<1> QED  BY <1>1, <1>2, <1>3, <1>4, ValueOfSome DEF Has, IsDocument

\* They mean the same.
LEMMA AlikeMeans ==
  ASSUME NEW a, IsDocument(a), NEW b, IsDocument(b), SaysAlike(a, b)
  PROVE  Meaning(a) = Meaning(b)
<1>1. /\ Says(a, "filter") # None => IsSection("filter", Value(Says(a, "filter")))
      /\ Says(b, "filter") # None => IsSection("filter", Value(Says(b, "filter")))
  BY SaysSection
<1>2. IsSection("filter", Default["filter"]) /\ IsSection("filter", Opinionated["filter"])
  <2>1. IsOption(None) /\ IsOption(Some({"ss"}))
    BY ValueOfSome DEF IsOption
  <2>2. IsSection("filter", FilterDefaults) /\ Default["filter"] = FilterDefaults
    BY <2>1 DEF IsSection, FilterDefaults, Default
  <2>3. Opinionated["filter"] = [FilterDefaults EXCEPT !.exclude_protocols = Some({"ss"})]
    BY DEF Opinionated
  <2>4. [FilterDefaults EXCEPT !.exclude_protocols = Some({"ss"})]
        = [protocols |-> None, exclude_protocols |-> Some({"ss"}), asns |-> None, exclude_asns |-> None, forbid_insecure |-> TRUE]
    <3> DEFINE f == FilterDefaults
               x == [f EXCEPT !.exclude_protocols = Some({"ss"})]
               y == [protocols |-> None, exclude_protocols |-> Some({"ss"}), asns |-> None, exclude_asns |-> None, forbid_insecure |-> TRUE]
               dom == {"protocols", "exclude_protocols", "asns", "exclude_asns", "forbid_insecure"}
    <3>1. /\ DOMAIN f = dom /\ f["protocols"] = None /\ f["asns"] = None /\ f["exclude_asns"] = None
          /\ f["forbid_insecure"] = TRUE
      BY DEF FilterDefaults
    <3> HIDE DEF f
    <3>2. /\ x = [n \in dom |-> x[n]]
          /\ x["protocols"] = None /\ x["exclude_protocols"] = Some({"ss"})
          /\ x["asns"] = None /\ x["exclude_asns"] = None /\ x["forbid_insecure"] = TRUE
      BY <3>1
    <3>3. /\ y = [n \in dom |-> y[n]]
          /\ y["protocols"] = None /\ y["exclude_protocols"] = Some({"ss"})
          /\ y["asns"] = None /\ y["exclude_asns"] = None /\ y["forbid_insecure"] = TRUE
      OBVIOUS
    <3> HIDE DEF x, y
    <3>4. \A n \in dom : x[n] = y[n]
      BY <3>2, <3>3
    <3>5. x = y
      BY <3>2, <3>3, <3>4
    <3> QED  BY <3>5 DEF x, y, f
  <2>5. IsSection("filter", Opinionated["filter"])
    BY <2>1, <2>3, <2>4 DEF IsSection
  <2> QED  BY <2>2, <2>5
<1>3. Effect(ReadOver(a, Default)) = Effect(ReadOver(b, Default))
  BY <1>1, <1>2, ReadOverAlike
<1>4. Effect(ReadOver(a, Opinionated)) = Effect(ReadOver(b, Opinionated))
  BY <1>1, <1>2, ReadOverAlike
<1>5. SortExplicit(a) = SortExplicit(b)
  <2>1. SaysTheSame("sort", Says(a, "sort"), Says(b, "sort"))
    BY DEF SaysAlike, Controls
  <2>2. SortExplicit(a) <=> SortExplicit(b)
    BY <2>1, ReadsAs DEF SaysTheSame
  <2>3. SortExplicit(a) \in BOOLEAN /\ SortExplicit(b) \in BOOLEAN
    BY DEF SortExplicit, Has
  <2> QED  BY <2>2, <2>3
<1> QED  BY <1>3, <1>4, <1>5, ReadsAs DEF Meaning

\* What validation says of one section.
SectionIssue(k, v) ==
    CASE k = "filter" -> \/ ~(Listed(v.protocols) \subseteq Schemes)
                         \/ ~(Listed(v.exclude_protocols) \subseteq Schemes)
                         \/ ~AsnsParse(v.asns) \/ ~AsnsParse(v.exclude_asns)
      [] k = "rename" -> \E r \in Ranged(v) : ~RuleCompiles(r)
      [] k = "drop" -> \E r \in Ranged(v) : ~DropCompiles(r)
      [] k = "geo" -> v.template = NoText
      [] k = "health" -> ~(Ranged(v) \subseteq Ranged(AllStatuses))
      [] k = "limit" -> ~v.typed \/ (v.count # None /\ Value(v.count) < 1)
      [] k = "sort" -> v.by \notin SortBy

\* The sections of a valid document have no issue.
LEMMA AcceptedSections ==
  ASSUME NEW d, Structured(d), Issues(d) = {}, NEW k \in Controls, k \in DOMAIN d
  PROVE  ~SectionIssue(k, d[k])
<1>1. k \notin Issues(d)
  OBVIOUS
<1>2. CASE k = "filter"
  BY <1>1, <1>2 DEF Issues, SectionIssue
<1>3. CASE k = "rename"
  BY <1>1, <1>3 DEF Issues, SectionIssue
<1>4. CASE k = "drop"
  BY <1>1, <1>4 DEF Issues, SectionIssue
<1>5. CASE k = "geo"
  BY <1>1, <1>5 DEF Issues, SectionIssue
<1>6. CASE k = "health"
  BY <1>1, <1>6 DEF Issues, SectionIssue
<1>7. CASE k = "limit"
  BY <1>1, <1>7 DEF Issues, SectionIssue, Structured, Has
<1>8. CASE k = "sort"
  BY <1>8 DEF Structured, SectionIssue, Has
<1> QED  BY <1>2, <1>3, <1>4, <1>5, <1>6, <1>7, <1>8 DEF Controls

\* A document of sections without an issue is valid.
LEMMA SectionsAccepted ==
  ASSUME NEW d, DOMAIN d \subseteq Controls \cup {"version"}, "version" \in DOMAIN d, d["version"] = 1,
         \A k \in DOMAIN d \cap Controls : ~SectionIssue(k, d[k])
  PROVE  Structured(d) /\ Issues(d) = {}
<1>1. Controls \subseteq Sections
  BY DEF Controls, Sections
<1>2. "limit" \in DOMAIN d => d["limit"].typed
  <2>1. "limit" \in DOMAIN d => ~SectionIssue("limit", d["limit"])
    BY DEF Controls
  <2> QED  BY <2>1 DEF SectionIssue
<1>3. "sort" \in DOMAIN d => d["sort"].by \in SortBy
  <2>1. "sort" \in DOMAIN d => ~SectionIssue("sort", d["sort"])
    BY DEF Controls
  <2> QED  BY <2>1 DEF SectionIssue
<1>4. Structured(d)
  BY <1>1, <1>2, <1>3 DEF Structured, Has
<1>5. ASSUME NEW k \in DOMAIN d PROVE k \notin Issues(d)
  <2>0. k \in Controls => ~SectionIssue(k, d[k])
    OBVIOUS
  <2>1. CASE k = "filter"
    BY <2>0, <2>1 DEF Issues, SectionIssue, Controls
  <2>2. CASE k = "rename"
    BY <2>0, <2>2 DEF Issues, SectionIssue, Controls
  <2>3. CASE k = "drop"
    BY <2>0, <2>3 DEF Issues, SectionIssue, Controls
  <2>4. CASE k = "geo"
    BY <2>0, <2>4 DEF Issues, SectionIssue, Controls
  <2>5. CASE k = "health"
    BY <2>0, <2>5 DEF Issues, SectionIssue, Controls
  <2>6. CASE k = "limit"
    BY <2>0, <2>6 DEF Issues, SectionIssue, Controls
  <2>7. CASE k = "sort"
    BY <2>7 DEF Issues
  <2>8. CASE k = "version"
    BY <2>8 DEF Issues
  <2> QED  BY <2>1, <2>2, <2>3, <2>4, <2>5, <2>6, <2>7, <2>8 DEF Controls
<1>6. Issues(d) \subseteq DOMAIN d
  BY DEF Issues
<1> QED  BY <1>4, <1>5, <1>6

\* Sections with the same effect have the same issues.
LEMMA SameIssue ==
  ASSUME NEW k \in Controls, NEW v, NEW w, SameSection(k, v, w), ~SectionIssue(k, v)
  PROVE  ~SectionIssue(k, w)
<1>1. CASE k = "filter"
  BY <1>1 DEF SameSection, SectionIssue, AsnsParse
<1>2. CASE k = "health"
  BY <1>2 DEF SameSection, SectionIssue
<1>3. CASE k \notin {"filter", "health"}
  <2>1. v = w
    BY <1>3 DEF SameSection
  <2> QED  BY <2>1
<1> QED  BY <1>1, <1>2, <1>3

\* They are valid together, when the second came from a page.
LEMMA AlikeAccepted ==
  ASSUME NEW a, IsDocument(a), Accepts(a), NEW s, DOMAIN s = Controls, SaysAlike(a, emit(s))
  PROVE  Accepts(emit(s))
<1>1. CASE emit(s) = None
  BY <1>1 DEF Accepts, None
<1>2. CASE emit(s) # None
  <2> DEFINE d == Value(emit(s))
  <2>1. /\ emit(s) = Some(d) /\ d["version"] = 1 /\ "version" \in DOMAIN d
        /\ DOMAIN d \subseteq Controls \cup {"version"}
    BY <1>2, EmitSays
  <2>2. ASSUME NEW k \in DOMAIN d \cap Controls PROVE ~SectionIssue(k, d[k])
    <3>1. Says(emit(s), k) = Some(d[k]) /\ Says(emit(s), k) # None /\ Value(Says(emit(s), k)) = d[k]
      BY <1>2, ValueOfSome DEF Says, Has
    <3> HIDE DEF d
    <3>2. Says(a, k) # None /\ SameSection(k, Value(Says(a, k)), d[k])
      BY <3>1 DEF SaysAlike, SaysTheSame
    <3> DEFINE c == Value(a)
    <3>3. c \in a /\ k \in DOMAIN c /\ c # Empty /\ Value(Says(a, k)) = c[k]
      BY <3>2, SaysSection
    <3>4. Structured(c) /\ Issues(c) = {}
      BY <3>3 DEF Accepts
    <3> HIDE DEF c
    <3>5. ~SectionIssue(k, c[k])
      BY <3>3, <3>4, AcceptedSections
    <3> QED  BY <3>2, <3>3, <3>5, SameIssue
  <2> HIDE DEF d
  <2>3. Structured(d) /\ Issues(d) = {}
    BY <2>1, <2>2, SectionsAccepted
  <2> QED  BY <2>1, <2>3 DEF Accepts, Some
<1> QED  BY <1>1, <1>2

-----------------------------------------------------------------------------
(* A form opened on a document says what the document says.                 *)

\* A list of a section, shown in a text field and read back.
LEMMA OptionsRead ==
  ASSUME NEW o, IsOption(o)
  PROVE  /\ Listed(NonEmpty(Listed(o))) = Listed(o) /\ Listed(Spelled(o)) = Listed(o)
         /\ o # Some({}) => NonEmpty(Listed(o)) = o /\ Spelled(o) = o
         /\ IsOption(NonEmpty(Listed(o))) /\ IsOption(Spelled(o))
<1>1. CASE o = None
  BY <1>1, ValueOfSome DEF Listed, NonEmpty, Spelled, IsOption
<1>2. CASE o # None
  <2> DEFINE x == Value(o)
  <2>1. o = Some(x) /\ Listed(o) = x
    BY <1>2 DEF IsOption, Listed
  <2> HIDE DEF x
  <2>2. CASE x = {}
    <3>1. NonEmpty(Listed(o)) = None /\ Spelled(o) = None /\ Listed(None) = {} /\ IsOption(None)
      BY <2>1, <2>2 DEF NonEmpty, Spelled, Listed, IsOption
    <3> QED  BY <2>1, <2>2, <3>1
  <2>3. CASE x # {}
    <3>1. NonEmpty(Listed(o)) = o /\ Spelled(o) = o
      BY <2>1, <2>3 DEF NonEmpty, Spelled
    <3> QED  BY <2>1, <3>1
  <2> QED  BY <2>2, <2>3
<1> QED  BY <1>1, <1>2

\* Section by section: what a showable document says is what the fields made of it contribute.
ShownFilter(v) == [mode |-> "set", protocols |-> Listed(v.protocols), exclude_protocols |-> Listed(v.exclude_protocols),
                   asns |-> Spelled(v.asns), exclude_asns |-> Spelled(v.exclude_asns), forbid_insecure |-> v.forbid_insecure]
NewFilter(m) == [mode |-> m, protocols |-> {}, exclude_protocols |-> {}, asns |-> None, exclude_asns |-> None, forbid_insecure |-> TRUE]

\* The fields made of a filter.
LEMMA IngestedFilter ==
  ASSUME NEW d, Has(d, "filter")
  PROVE  Ingested(d, "filter") = IF ShownFilter(d["filter"]) = NewFilter("set") THEN NewFilter("defaults")
                                 ELSE ShownFilter(d["filter"])
<1>1. NewState["filter"] = NewFilter("skip")
  BY DEF NewState, NewFilter
<1>2. \A m : [NewFilter("skip") EXCEPT !.mode = m] = NewFilter(m)
  <2> TAKE m
  <2> DEFINE f == NewFilter("skip")
             x == [f EXCEPT !.mode = m]
             y == NewFilter(m)
             dom == {"mode", "protocols", "exclude_protocols", "asns", "exclude_asns", "forbid_insecure"}
  <2>1. DOMAIN f = dom /\ \A n \in dom \ {"mode"} : f[n] = y[n]
    <3>1. /\ DOMAIN f = dom /\ f["protocols"] = {} /\ f["exclude_protocols"] = {} /\ f["asns"] = None
          /\ f["exclude_asns"] = None /\ f["forbid_insecure"] = TRUE
      BY DEF NewFilter
    <3>2. /\ y["protocols"] = {} /\ y["exclude_protocols"] = {} /\ y["asns"] = None
          /\ y["exclude_asns"] = None /\ y["forbid_insecure"] = TRUE
      BY DEF NewFilter
    <3> HIDE DEF f, y
    <3> QED  BY <3>1, <3>2
  <2>2. y = [n \in dom |-> y[n]] /\ y["mode"] = m
    BY DEF NewFilter
  <2> HIDE DEF f, y
  <2>3. x = [n \in dom |-> x[n]] /\ x["mode"] = m /\ \A n \in dom \ {"mode"} : x[n] = f[n]
    BY <2>1
  <2> HIDE DEF x
  <2>4. \A n \in dom : x[n] = y[n]
    BY <2>1, <2>2, <2>3
  <2>5. x = y
    BY <2>2, <2>3, <2>4
  <2> QED  BY <2>5 DEF x, y, f
<1> DEFINE v == d["filter"]
<1>3. Ingested(d, "filter") = IF ShownFilter(v) = [NewState["filter"] EXCEPT !.mode = "set"]
                              THEN [NewState["filter"] EXCEPT !.mode = "defaults"] ELSE ShownFilter(v)
  BY DEF Ingested, ShownFilter
<1> HIDE DEF v
<1> QED  BY <1>1, <1>2, <1>3 DEF v

\* A filter whose lists are not present but empty.
LEMMA FilterRoundTrip ==
  ASSUME NEW d, Has(d, "filter"), IsSection("filter", d["filter"]),
         d["filter"].protocols # Some({}), d["filter"].asns # Some({})
  PROVE  SaysTheSame("filter", Some(d["filter"]), Contribution("filter", Ingested(d, "filter")))
<1> DEFINE v == d["filter"]
           f == Ingested(d, "filter")
<1>1. /\ IsOption(v.protocols) /\ IsOption(v.exclude_protocols) /\ IsOption(v.asns) /\ IsOption(v.exclude_asns)
  BY DEF IsSection
<1>2. f = IF ShownFilter(v) = NewFilter("set") THEN NewFilter("defaults") ELSE ShownFilter(v)
  BY IngestedFilter
<1>3. v.protocols # Some({}) /\ v.asns # Some({})
  OBVIOUS
<1> HIDE DEF v, f
<1>4. /\ NonEmpty(Listed(v.protocols)) = v.protocols /\ Spelled(v.asns) = v.asns
      /\ Listed(NonEmpty(Listed(v.exclude_protocols))) = Listed(v.exclude_protocols)
      /\ Listed(Spelled(v.exclude_asns)) = Listed(v.exclude_asns)
      /\ IsOption(Spelled(v.asns)) /\ IsOption(Spelled(v.exclude_asns))
  BY <1>1, <1>3, OptionsRead
<1> DEFINE sec == FilterSection(ShownFilter(v))
<1>5. sec = [protocols |-> v.protocols, exclude_protocols |-> NonEmpty(Listed(v.exclude_protocols)),
             asns |-> v.asns, exclude_asns |-> Spelled(v.exclude_asns), forbid_insecure |-> v.forbid_insecure]
  BY <1>4 DEF FilterSection, ShownFilter
<1>6. SameSection("filter", v, sec)
  <2> HIDE DEF sec
  <2>1. /\ sec.protocols = v.protocols /\ sec.exclude_protocols = NonEmpty(Listed(v.exclude_protocols))
        /\ sec.asns = v.asns /\ sec.exclude_asns = Spelled(v.exclude_asns) /\ sec.forbid_insecure = v.forbid_insecure
    BY <1>5
  <2> QED  BY <1>4, <2>1 DEF SameSection
<1>7. CASE ShownFilter(v) = NewFilter("set")
  <2>1. sec = FilterSection(NewFilter("set"))
    BY <1>7
  <2>2. FilterSection(NewFilter("set")) = FilterDefaults
    BY DEF FilterSection, NewFilter, FilterDefaults, NonEmpty
  <2>3. f = NewFilter("defaults") /\ f.mode = "defaults"
    BY <1>2, <1>7 DEF NewFilter
  <2>4. Contribution("filter", f) = Some(FilterDefaults)
    BY <2>3, FilterContributes
  <2> HIDE DEF sec
  <2> QED  BY <1>6, <2>1, <2>2, <2>4, ValueOfSome DEF SaysTheSame, v, f
<1>8. CASE ShownFilter(v) # NewFilter("set")
  <2>1. f = ShownFilter(v) /\ f.mode = "set" /\ f.asns = Spelled(v.asns) /\ f.exclude_asns = Spelled(v.exclude_asns)
    BY <1>2, <1>8 DEF ShownFilter
  <2>2. sec # FilterDefaults
    <3> SUFFICES ASSUME sec = FilterDefaults PROVE FALSE
      OBVIOUS
    <3>1. /\ v.protocols = None /\ NonEmpty(Listed(v.exclude_protocols)) = None /\ v.asns = None
          /\ Spelled(v.exclude_asns) = None /\ v.forbid_insecure = TRUE
      <4> HIDE DEF sec
      <4>1. /\ sec.protocols = v.protocols /\ sec.exclude_protocols = NonEmpty(Listed(v.exclude_protocols))
            /\ sec.asns = v.asns /\ sec.exclude_asns = Spelled(v.exclude_asns) /\ sec.forbid_insecure = v.forbid_insecure
        BY <1>5
      <4>2. /\ sec.protocols = None /\ sec.exclude_protocols = None /\ sec.asns = None
            /\ sec.exclude_asns = None /\ sec.forbid_insecure = TRUE
        BY DEF FilterDefaults
      <4> QED  BY <4>1, <4>2
    <3>2. Listed(v.protocols) = {} /\ Listed(v.exclude_protocols) = {}
      BY <3>1, ValueOfSome DEF Listed, NonEmpty
    <3>3. Spelled(v.asns) = None
      BY <1>4, <3>1
    <3>4. ShownFilter(v) = NewFilter("set")
      BY <3>1, <3>2, <3>3 DEF ShownFilter, NewFilter
    <3> QED  BY <1>8, <3>4
  <2>3. Contribution("filter", f) = Some(sec)
    <3> HIDE DEF sec
    <3>1. FilterSection(f) = sec
      BY <2>1 DEF sec
    <3> QED  BY <2>1, <2>2, <3>1, FilterContributes
  <2> HIDE DEF sec
  <2> QED  BY <1>6, <2>3, ValueOfSome DEF SaysTheSame, v, f
<1> QED  BY <1>7, <1>8

\* Rename rules with patterns, and no blanks around them.
LEMMA RenameRoundTrip ==
  ASSUME NEW d, Has(d, "rename"), IsSection("rename", d["rename"]),
         \A r \in Ranged(d["rename"]) : r.match # NoText /\ r.match \notin DOMAIN Trim /\ r.replace \notin DOMAIN Trim
  PROVE  LET f == Ingested(d, "rename")
         IN  SaysTheSame("rename", Some(d["rename"]), Contribution("rename", [mode |-> f.mode, rows |-> TidyRenames(f.rows)]))
<1> DEFINE v == d["rename"]
           f == Ingested(d, "rename")
           p == [mode |-> f.mode, rows |-> TidyRenames(f.rows)]
<1>1. IsRenames(v) /\ AreTidyRenames(v)
  BY DEF IsSection, AreTidyRenames
<1>2. f = IF v = << >> THEN [mode |-> "defaults", rows |-> << >>] ELSE [mode |-> "set", rows |-> v]
  BY DEF Ingested, NewState
<1>3. \A r \in Ranged(v) : r.match # NoText
  OBVIOUS
<1> HIDE DEF v, f
<1>4. \A w : SameSection("rename", w, w)
  BY DEF SameSection
<1>5. CASE v = << >>
  <2>1. f.mode = "defaults" /\ f.rows = << >> /\ p.mode = "defaults"
    BY <1>2, <1>5
  <2> HIDE DEF p
  <2>2. Contribution("rename", p) = Some(v)
    BY <1>5, <2>1, RenameContributes
  <2> QED  BY <1>4, <2>2, ValueOfSome DEF SaysTheSame, p, v, f
<1>6. CASE v # << >>
  <2>1. f.mode = "set" /\ f.rows = v /\ p.mode = "set" /\ p.rows = TidyRenames(v)
    BY <1>2, <1>6
  <2>2. TidyRenames(v) = v
    BY <1>1, <1>6, TidyLinesStay
  <2>3. TypedRenames(v) = v
    <3>1. Ranged(v) \subseteq {r \in Ranged(v) : r.match # NoText}
      BY <1>3
    <3> QED  BY <1>1, <3>1, WhereAll DEF TypedRenames, IsRenames
  <2> HIDE DEF p
  <2>4. Contribution("rename", p) = Some(v)
    BY <1>6, <2>1, <2>2, <2>3, RenameContributes
  <2> QED  BY <1>4, <2>4, ValueOfSome DEF SaysTheSame, p, v, f
<1> QED  BY <1>5, <1>6

\* Drop rules that compile.
LEMMA DropRoundTrip ==
  ASSUME NEW d, Has(d, "drop"), IsSection("drop", d["drop"]),
         \A r \in Ranged(d["drop"]) :
            DropCompiles(r) /\ (r.target # "asn" => r.match # NoText) /\ r.match \notin DOMAIN Trim
  PROVE  LET f == Ingested(d, "drop")
         IN  SaysTheSame("drop", Some(d["drop"]), Contribution("drop", [mode |-> f.mode, rows |-> TidyDrops(f.rows)]))
<1> DEFINE v == d["drop"]
           f == Ingested(d, "drop")
           p == [mode |-> f.mode, rows |-> TidyDrops(f.rows)]
           u == [i \in DOMAIN v |-> [v[i] EXCEPT !.asns = Spelled(@)]]
<1>1. IsDrops(v) /\ AreTidyDrops(v)
  BY DEF IsSection, AreTidyDrops
<1>2. f = IF v = << >> THEN [mode |-> "defaults", rows |-> << >>] ELSE [mode |-> "set", rows |-> u]
  BY DEF Ingested, NewState
<1>3. \A r \in Ranged(v) : DropCompiles(r) /\ (r.target # "asn" => r.match # NoText)
  OBVIOUS
<1> HIDE DEF v, f
<1>4. \A w : SameSection("drop", w, w)
  BY DEF SameSection
<1>5. ASSUME NEW r \in Ranged(v)
      PROVE  [r EXCEPT !.asns = Spelled(@)] = r /\ ClearedDrop(r) = r
             /\ IF r.target = "asn" THEN r.asns # None ELSE r.match # NoText
  <2>1. r = [match |-> r.match, target |-> r.target, asns |-> r.asns] /\ IsOption(r.asns)
    BY <1>1 DEF IsDrops
  <2>2. CASE r.target = "asn"
    <3>1. r.match = NoText /\ Listed(r.asns) # {}
      BY <1>3, <2>2 DEF DropCompiles
    <3>2. r.asns # None /\ r.asns # Some({})
      BY <3>1, ValueOfSome DEF Listed
    <3>3. Spelled(r.asns) = r.asns
      BY <2>1, <3>2, OptionsRead
    <3> QED  BY <2>1, <2>2, <3>1, <3>2, <3>3 DEF ClearedDrop
  <2>3. CASE r.target # "asn"
    <3>1. r.asns = None /\ r.match # NoText
      BY <1>3, <2>3 DEF DropCompiles
    <3>2. Spelled(r.asns) = r.asns
      BY <3>1 DEF Spelled, Listed
    <3> QED  BY <2>1, <2>3, <3>1, <3>2 DEF ClearedDrop
  <2> QED  BY <2>2, <2>3
<1>6. \A i \in DOMAIN v : v[i] \in Ranged(v)
  BY DEF Ranged
<1>7. v = [i \in DOMAIN v |-> v[i]]
  BY <1>1, LinesAre DEF IsDrops
<1>8. u = v
  BY <1>5, <1>6, <1>7
<1> HIDE DEF u
<1>9. CASE v = << >>
  <2>1. f.mode = "defaults" /\ f.rows = << >> /\ p.mode = "defaults"
    BY <1>2, <1>9
  <2> HIDE DEF p
  <2>2. Contribution("drop", p) = Some(v)
    BY <1>9, <2>1, DropContributes
  <2> QED  BY <1>4, <2>2, ValueOfSome DEF SaysTheSame, p, v, f
<1>10. CASE v # << >>
  <2>1. f.mode = "set" /\ f.rows = v /\ p.mode = "set" /\ p.rows = TidyDrops(v)
    BY <1>2, <1>8, <1>10
  <2>2. TidyDrops(v) = v
    BY <1>1, <1>10, TidyLinesStay
  <2>3. TypedDrops(v) = v
    <3>1. Ranged(v) \subseteq GoodDrops(v)
      BY <1>5 DEF GoodDrops
    <3>2. Where(v, GoodDrops(v)) = v
      BY <1>1, <3>1, WhereAll DEF IsDrops
    <3>3. \A i \in DOMAIN v : ClearedDrop(v[i]) = v[i]
      BY <1>5, <1>6
    <3> QED  BY <1>7, <3>2, <3>3, TypedDropsAre
  <2> HIDE DEF p
  <2>4. Contribution("drop", p) = Some(v)
    BY <1>10, <2>1, <2>2, <2>3, DropContributes
  <2> QED  BY <1>4, <2>4, ValueOfSome DEF SaysTheSame, p, v, f
<1> QED  BY <1>9, <1>10

\* A country section with a template.
LEMMA GeoRoundTrip ==
  ASSUME NEW d, Has(d, "geo"), IsSection("geo", d["geo"]), d["geo"].template # NoText
  PROVE  SaysTheSame("geo", Some(d["geo"]), Contribution("geo", Ingested(d, "geo")))
<1> DEFINE v == d["geo"]
           f == Ingested(d, "geo")
           shown == IF v.template = DefaultTemplate THEN NoText ELSE v.template
<1>1. v = [enabled |-> v.enabled, template |-> v.template] /\ v.enabled \in BOOLEAN /\ v.template # NoText
  BY DEF IsSection
<1>2. f = IF v.enabled /\ v.template \in {NoText, DefaultTemplate}
          THEN [mode |-> "defaults", enabled |-> TRUE, template |-> NoText]
          ELSE [mode |-> "set", enabled |-> v.enabled, template |-> shown]
  <2> DEFINE new == NewState["geo"]
  <2>1. new = [mode |-> "skip", enabled |-> TRUE, template |-> NoText]
    BY DEF NewState
  <2> HIDE DEF new
  <2>2. [new EXCEPT !.mode = "defaults"] = [mode |-> "defaults", enabled |-> TRUE, template |-> NoText]
    <3> DEFINE x == [new EXCEPT !.mode = "defaults"]
               y == [mode |-> "defaults", enabled |-> TRUE, template |-> NoText]
               dom == {"mode", "enabled", "template"}
    <3>1. DOMAIN new = dom /\ new["enabled"] = TRUE /\ new["template"] = NoText
      BY <2>1
    <3>2. x = [n \in dom |-> x[n]] /\ x["mode"] = "defaults" /\ x["enabled"] = TRUE /\ x["template"] = NoText
      BY <3>1
    <3>3. y = [n \in dom |-> y[n]] /\ y["mode"] = "defaults" /\ y["enabled"] = TRUE /\ y["template"] = NoText
      OBVIOUS
    <3> HIDE DEF x, y
    <3>4. \A n \in dom : x[n] = y[n]
      BY <3>2, <3>3
    <3>5. x = y
      BY <3>2, <3>3, <3>4
    <3> QED  BY <3>5 DEF x, y
  <2> QED  BY <2>2 DEF Ingested, new
<1> HIDE DEF v, f
<1>3. \A w : SameSection("geo", w, w)
  BY DEF SameSection
<1>4. CASE v.enabled /\ v.template \in {NoText, DefaultTemplate}
  <2>1. f.mode = "defaults" /\ f.enabled \in BOOLEAN
    BY <1>2, <1>4
  <2>2. v = GeoDefaults
    BY <1>1, <1>4 DEF GeoDefaults
  <2>3. Contribution("geo", f) = Some(v)
    BY <2>1, <2>2, GeoContributes
  <2> QED  BY <1>3, <2>3, ValueOfSome DEF SaysTheSame, v, f
<1>5. CASE ~(v.enabled /\ v.template \in {NoText, DefaultTemplate})
  <2>1. f.mode = "set" /\ f.enabled = v.enabled /\ f.template = shown
    BY <1>2, <1>5
  <2>2. GeoSection(f) = v
    <3>1. (IF f.template = NoText THEN DefaultTemplate ELSE f.template) = v.template
      BY <1>1, <2>1
    <3> QED  BY <1>1, <2>1, <3>1 DEF GeoSection
  <2>3. v # GeoDefaults
    BY <1>5 DEF GeoDefaults
  <2>4. Contribution("geo", f) = Some(v)
    BY <1>1, <2>1, <2>2, <2>3, GeoContributes
  <2> QED  BY <1>3, <2>4, ValueOfSome DEF SaysTheSame, v, f
<1> QED  BY <1>4, <1>5

\* Statuses that are not the default ones in another order.
LEMMA HealthRoundTrip ==
  ASSUME NEW d, Has(d, "health"), IsSection("health", d["health"]),
         d["health"] # default_exclude_statuses => InSchemaOrder(d["health"]) # default_exclude_statuses
  PROVE  LET f == Ingested(d, "health")
         IN  SaysTheSame("health", Some(d["health"]),
                            Contribution("health", [mode |-> f.mode, statuses |-> InSchemaOrder(f.statuses)]))
<1> DEFINE v == d["health"]
           f == Ingested(d, "health")
           p == [mode |-> f.mode, statuses |-> InSchemaOrder(f.statuses)]
<1>1. IsLines(v) /\ (v # default_exclude_statuses => InSchemaOrder(v) # default_exclude_statuses)
  BY DEF IsSection
<1>2. f = IF v = default_exclude_statuses THEN [mode |-> "defaults", statuses |-> default_exclude_statuses]
          ELSE [mode |-> "set", statuses |-> v]
  BY DEF Ingested, NewState
<1> HIDE DEF v, f
<1>3. CASE v = default_exclude_statuses
  <2>1. f.mode = "defaults" /\ p.mode = "defaults" /\ f = [mode |-> f.mode, statuses |-> f.statuses] /\ f.statuses = v
    BY <1>2, <1>3
  <2> HIDE DEF p
  <2>2. Contribution("health", p) = Some(v)
    BY <1>1, <1>3, <2>1, HealthContributes
  <2>3. SameSection("health", v, v)
    BY DEF SameSection
  <2> QED  BY <2>2, <2>3, ValueOfSome DEF SaysTheSame, p, v, f
<1>4. CASE v # default_exclude_statuses
  <2>1. f.mode = "set" /\ p.mode = "set" /\ f = [mode |-> f.mode, statuses |-> f.statuses] /\ f.statuses = v
        /\ p.statuses = InSchemaOrder(v)
    BY <1>2, <1>4
  <2> HIDE DEF p
  <2>2. Contribution("health", p) = Some(InSchemaOrder(v))
    BY <1>1, <1>4, <2>1, HealthContributes
  <2>3. SameSection("health", v, InSchemaOrder(v))
    BY <1>1, SchemaOrder DEF SameSection
  <2> QED  BY <2>2, <2>3, ValueOfSome DEF SaysTheSame, p, v, f
<1> QED  BY <1>3, <1>4

\* Any order.
LEMMA SortRoundTrip ==
  ASSUME NEW d, Has(d, "sort"), IsSection("sort", d["sort"])
  PROVE  SaysTheSame("sort", Some(d["sort"]), Contribution("sort", Ingested(d, "sort")))
<1> DEFINE v == d["sort"]
           f == Ingested(d, "sort")
<1>1. v = [by |-> v.by, desc |-> v.desc]
  BY DEF IsSection
<1>2. f = IF v = SortDefaults THEN [mode |-> "defaults", by |-> "source", desc |-> FALSE]
          ELSE [mode |-> "set", by |-> v.by, desc |-> v.desc]
  <2> DEFINE new == NewState["sort"]
  <2>1. new = [mode |-> "skip", by |-> "source", desc |-> FALSE]
    BY DEF NewState
  <2> HIDE DEF new
  <2>2. [new EXCEPT !.mode = "defaults"] = [mode |-> "defaults", by |-> "source", desc |-> FALSE]
    <3> DEFINE x == [new EXCEPT !.mode = "defaults"]
               y == [mode |-> "defaults", by |-> "source", desc |-> FALSE]
               dom == {"mode", "by", "desc"}
    <3>1. DOMAIN new = dom /\ new["by"] = "source" /\ new["desc"] = FALSE
      BY <2>1
    <3>2. x = [n \in dom |-> x[n]] /\ x["mode"] = "defaults" /\ x["by"] = "source" /\ x["desc"] = FALSE
      BY <3>1
    <3>3. y = [n \in dom |-> y[n]] /\ y["mode"] = "defaults" /\ y["by"] = "source" /\ y["desc"] = FALSE
      OBVIOUS
    <3> HIDE DEF x, y
    <3>4. \A n \in dom : x[n] = y[n]
      BY <3>2, <3>3
    <3>5. x = y
      BY <3>2, <3>3, <3>4
    <3> QED  BY <3>5 DEF x, y
  <2> QED  BY <2>2 DEF Ingested, new
<1> HIDE DEF v, f
<1>3. SameSection("sort", v, v)
  BY DEF SameSection
<1>4. Contribution("sort", f) = Some(v)
  <2>1. CASE v = SortDefaults
    <3>1. f.mode = "defaults"
      BY <1>2, <2>1
    <3> QED  BY <2>1, <3>1, SortContributes
  <2>2. CASE v # SortDefaults
    <3>1. f.mode = "set" /\ f.by = v.by /\ f.desc = v.desc
      BY <1>2, <2>2
    <3>2. SortSection(f) = v
      BY <1>1, <3>1 DEF SortSection
    <3> QED  BY <2>2, <3>1, <3>2, SortContributes
  <2> QED  BY <2>1, <2>2
<1> QED  BY <1>3, <1>4, ValueOfSome DEF SaysTheSame, v, f

\* A cap that is a number or null.
LEMMA LimitRoundTrip ==
  ASSUME NEW d, Has(d, "limit"), IsSection("limit", d["limit"]), d["limit"].typed
  PROVE  SaysTheSame("limit", Some(d["limit"]), Contribution("limit", Ingested(d, "limit")))
<1> DEFINE v == d["limit"]
           f == Ingested(d, "limit")
<1>1. v = [typed |-> v.typed, count |-> v.count] /\ v.typed = TRUE /\ IsOption(v.count)
  BY DEF IsSection
<1>2. f = IF v.count = None THEN [mode |-> "defaults", count |-> None, typed |-> TRUE]
          ELSE [mode |-> "set", count |-> v.count, typed |-> TRUE]
  <2> DEFINE new == NewState["limit"]
  <2>1. new = [mode |-> "skip", count |-> None, typed |-> TRUE]
    BY DEF NewState
  <2> HIDE DEF new
  <2>2. [new EXCEPT !.mode = "defaults"] = [mode |-> "defaults", count |-> None, typed |-> TRUE]
    <3> DEFINE x == [new EXCEPT !.mode = "defaults"]
               y == [mode |-> "defaults", count |-> None, typed |-> TRUE]
               dom == {"mode", "count", "typed"}
    <3>1. DOMAIN new = dom /\ new["count"] = None /\ new["typed"] = TRUE
      BY <2>1
    <3>2. x = [n \in dom |-> x[n]] /\ x["mode"] = "defaults" /\ x["count"] = None /\ x["typed"] = TRUE
      BY <3>1
    <3>3. y = [n \in dom |-> y[n]] /\ y["mode"] = "defaults" /\ y["count"] = None /\ y["typed"] = TRUE
      OBVIOUS
    <3> HIDE DEF x, y
    <3>4. \A n \in dom : x[n] = y[n]
      BY <3>2, <3>3
    <3>5. x = y
      BY <3>2, <3>3, <3>4
    <3> QED  BY <3>5 DEF x, y
  <2> QED  BY <2>2 DEF Ingested, new
<1> HIDE DEF v, f
<1>3. SameSection("limit", v, v)
  BY DEF SameSection
<1>4. Contribution("limit", f) = Some(v)
  <2>1. CASE v.count = None
    <3>1. f.mode = "defaults" /\ f.typed = TRUE /\ f.count = None
      BY <1>2, <2>1
    <3>2. v = NoCap
      BY <1>1, <2>1 DEF NoCap
    <3> QED  BY <3>1, <3>2, LimitContributes
  <2>2. CASE v.count # None
    <3>1. f.mode = "set" /\ f.typed = TRUE /\ f.count = v.count
      BY <1>2, <2>2
    <3>2. [typed |-> f.typed, count |-> f.count] = v
      BY <1>1, <3>1
    <3> QED  BY <1>1, <2>2, <3>1, <3>2, LimitContributes
  <2> QED  BY <2>1, <2>2
<1> QED  BY <1>3, <1>4, ValueOfSome DEF SaysTheSame, v, f

\* The fields of a form without a configuration.
LEMMA NewPage ==
  /\ DOMAIN NewState = Controls /\ IsPage(NewState)
  /\ NewState["rename"] = [mode |-> "set", rows |-> << >>] /\ NewState["drop"] = [mode |-> "set", rows |-> << >>]
  /\ NewState["health"] = [mode |-> "skip", statuses |-> default_exclude_statuses]
  /\ \A k \in {"filter", "geo", "health", "sort", "limit"} : NewState[k].mode = "skip"
<1>1. DOMAIN NewState = Controls
  BY DEF NewState, Controls
<1>2. /\ NewState["rename"] = [mode |-> "set", rows |-> << >>] /\ NewState["drop"] = [mode |-> "set", rows |-> << >>]
      /\ NewState["health"] = [mode |-> "skip", statuses |-> default_exclude_statuses]
  BY DEF NewState
<1>3. \A k \in {"filter", "geo", "health", "sort", "limit"} : NewState[k].mode = "skip"
  BY DEF NewState
<1>4. /\ NewState["filter"].asns = None /\ NewState["filter"].exclude_asns = None
      /\ NewState["geo"].enabled = TRUE
      /\ NewState["limit"].typed = TRUE /\ NewState["limit"].count = None
  BY DEF NewState
<1> DEFINE s == NewState
<1> HIDE DEF s
<1>5. IsField("filter", NewState["filter"]) /\ IsField("geo", NewState["geo"]) /\ IsField("limit", NewState["limit"])
  BY <1>4 DEF IsField, IsOption
<1>6. IsField("rename", NewState["rename"]) /\ IsField("drop", NewState["drop"]) /\ IsField("health", NewState["health"])
  BY <1>2, ShortLists DEF IsField, IsRenames, IsDrops
<1>7. IsField("sort", NewState["sort"])
  BY DEF IsField
<1>8. \A k \in Controls : IsField(k, NewState[k])
  BY <1>5, <1>6, <1>7 DEF Controls
<1> QED  BY <1>1, <1>2, <1>3, <1>8 DEF IsPage

\* What the section of a page contributes once the page is posted.
PostedSection(k, f, c) ==
    CASE k = "rename" -> [mode |-> RuleMode(f.mode, c), rows |-> TidyRenames(f.rows)]
      [] k = "drop" -> [mode |-> RuleMode(f.mode, c), rows |-> TidyDrops(f.rows)]
      [] k = "health" -> [mode |-> f.mode, statuses |-> InSchemaOrder(f.statuses)]
      [] OTHER -> f

\* Section by section.
LEMMA PostedSections ==
  ASSUME NEW s, IsPage(s), NEW c
  PROVE  /\ DOMAIN from_form(s, c) = Controls
         /\ \A k \in Controls : from_form(s, c)[k] = PostedSection(k, s[k], c)
         /\ \A k \in Controls : Says(emit(from_form(s, c)), k) = Contribution(k, PostedSection(k, s[k], c))
<1> DEFINE p == from_form(s, c)
<1>1. /\ DOMAIN p = Controls
      /\ p["rename"] = [mode |-> RuleMode(s["rename"].mode, c), rows |-> TidyRenames(s["rename"].rows)]
      /\ p["drop"] = [mode |-> RuleMode(s["drop"].mode, c), rows |-> TidyDrops(s["drop"].rows)]
      /\ p["health"] = [mode |-> s["health"].mode, statuses |-> InSchemaOrder(s["health"].statuses)]
      /\ \A k \in {"filter", "geo", "sort", "limit"} : p[k] = s[k]
  BY FromForm
<1> HIDE DEF p
<1>2. ASSUME NEW k \in Controls PROVE p[k] = PostedSection(k, s[k], c)
  <2>1. CASE k = "rename"
    BY <1>1, <2>1 DEF PostedSection
  <2>2. CASE k = "drop"
    BY <1>1, <2>2 DEF PostedSection
  <2>3. CASE k = "health"
    BY <1>1, <2>3 DEF PostedSection
  <2>4. CASE k \in {"filter", "geo", "sort", "limit"}
    <3>1. k \notin {"rename", "drop", "health"}
      BY <2>4
    <3> QED  BY <1>1, <2>4, <3>1 DEF PostedSection
  <2> QED  BY <2>1, <2>2, <2>3, <2>4 DEF Controls
<1>3. \A k \in Controls : Says(emit(p), k) = Contribution(k, p[k])
  BY <1>1, EmitSays
<1> QED  BY <1>1, <1>2, <1>3 DEF p

\* A form without a configuration contributes nothing.
LEMMA NewContributes ==
  ASSUME NEW k \in Controls, NEW c
  PROVE  Contribution(k, PostedSection(k, NewState[k], c)) = None
<1>1. RuleMode("set", c) = "set"
  BY DEF RuleMode
<1>2. TypedRenames(TidyRenames(<< >>)) = << >> /\ TypedDrops(TidyDrops(<< >>)) = << >>
  BY BlanksSayNothing
<1>3. CASE k = "rename"
  <2>1. PostedSection(k, NewState[k], c) = [mode |-> "set", rows |-> TidyRenames(<< >>)]
    BY <1>1, <1>3, NewPage DEF PostedSection
  <2> QED  BY <1>2, <1>3, <2>1, RenameContributes
<1>4. CASE k = "drop"
  <2>1. PostedSection(k, NewState[k], c) = [mode |-> "set", rows |-> TidyDrops(<< >>)]
    BY <1>1, <1>4, NewPage DEF PostedSection
  <2> QED  BY <1>2, <1>4, <2>1, DropContributes
<1>5. CASE k \in {"filter", "geo", "health", "sort", "limit"}
  <2>1. PostedSection(k, NewState[k], c).mode = "skip"
    <3>1. CASE k = "health"
      BY <3>1, NewPage DEF PostedSection
    <3>2. CASE k # "health"
      <4>1. k \notin {"rename", "drop", "health"}
        BY <1>5, <3>2
      <4> QED  BY <1>5, <4>1, NewPage DEF PostedSection
    <3> QED  BY <3>1, <3>2
  <2>2. "skip" # "defaults" /\ "skip" # "set"
    OBVIOUS
  <2> DEFINE f == PostedSection(k, NewState[k], c)
  <2>3. f.mode = "skip"
    BY <2>1
  <2> HIDE DEF f
  <2>4. Contribution(k, f) = None
    <3>1. CASE k = "filter"
      BY <2>3, <3>1, FilterContributes
    <3>2. CASE k = "geo"
      BY <2>3, <3>2, GeoContributes
    <3>3. CASE k = "health"
      BY <2>3, <3>3, HealthContributes
    <3>4. CASE k = "sort"
      BY <2>3, <3>4, SortContributes
    <3>5. CASE k = "limit"
      BY <2>3, <3>5, LimitContributes
    <3> QED  BY <1>5, <3>1, <3>2, <3>3, <3>4, <3>5
  <2> QED  BY <2>4 DEF f
<1> QED  BY <1>3, <1>4, <1>5 DEF Controls

\* The fields made of a section.
LEMMA IngestedIsField ==
  ASSUME NEW d, NEW k \in Controls, Has(d, k) => IsSection(k, d[k])
  PROVE  IsField(k, Ingested(d, k))
<1> DEFINE v == d[k]
           f == Ingested(d, k)
<1>1. CASE ~Has(d, k)
  <2>1. Ingested(d, k) = NewState[k]
    BY <1>1 DEF Ingested
  <2> QED  BY <2>1, NewPage DEF IsPage
<1>2. ASSUME Has(d, k), k = "filter" PROVE IsField(k, Ingested(d, k))
  <2>1. IsOption(v.asns) /\ IsOption(v.exclude_asns)
    BY <1>2 DEF IsSection
  <2>2. f = IF ShownFilter(v) = NewFilter("set") THEN NewFilter("defaults") ELSE ShownFilter(v)
    BY <1>2, IngestedFilter
  <2>3. IsOption(Spelled(v.asns)) /\ IsOption(Spelled(v.exclude_asns)) /\ IsOption(None)
    BY <2>1, OptionsRead DEF IsOption
  <2> HIDE DEF v, f
  <2>4. IsField("filter", NewFilter("defaults")) /\ IsField("filter", ShownFilter(v))
    BY <2>3 DEF IsField, NewFilter, ShownFilter
  <2> QED  BY <1>2, <2>2, <2>4 DEF f
<1>3. ASSUME Has(d, k), k = "rename" PROVE IsField(k, Ingested(d, k))
  <2>1. IsRenames(v) /\ IsRenames(<< >>)
    BY <1>3, ShortLists DEF IsSection, IsRenames
  <2>2. f.rows \in {<< >>, v}
    BY <1>3 DEF Ingested, NewState
  <2> HIDE DEF v, f
  <2> QED  BY <1>3, <2>1, <2>2 DEF IsField, f
<1>4. ASSUME Has(d, k), k = "drop" PROVE IsField(k, Ingested(d, k))
  <2> DEFINE u == [i \in DOMAIN v |-> [v[i] EXCEPT !.asns = Spelled(@)]]
  <2>1. IsDrops(v) /\ IsDrops(<< >>)
    BY <1>4, ShortLists DEF IsSection, IsDrops
  <2>2. f.rows \in {<< >>, u}
    BY <1>4 DEF Ingested, NewState
  <2> HIDE DEF v, f
  <2>3. DOMAIN u = DOMAIN v /\ u = [i \in DOMAIN v |-> u[i]]
        /\ \A i \in DOMAIN v : u[i] = [v[i] EXCEPT !.asns = Spelled(@)] /\ v[i] \in Ranged(v)
    BY DEF Ranged
  <2> HIDE DEF u
  <2>4. IsLines(u) /\ \A r \in Ranged(u) : \E i \in DOMAIN v : r = u[i]
    BY <2>1, <2>3, MappedLines DEF IsDrops
  <2>5. ASSUME NEW r \in Ranged(u)
        PROVE  r = [match |-> r.match, target |-> r.target, asns |-> r.asns] /\ IsOption(r.asns)
    <3>1. PICK i \in DOMAIN v : r = [v[i] EXCEPT !.asns = Spelled(@)] /\ v[i] \in Ranged(v)
      BY <2>3, <2>4
    <3> DEFINE q == v[i]
    <3>2. q = [match |-> q.match, target |-> q.target, asns |-> q.asns] /\ IsOption(q.asns) /\ r = [q EXCEPT !.asns = Spelled(@)]
      BY <2>1, <3>1 DEF IsDrops
    <3> HIDE DEF q
    <3>3. r = [match |-> q.match, target |-> q.target, asns |-> Spelled(q.asns)] /\ IsOption(Spelled(q.asns))
      BY <3>2, OptionsRead
    <3> QED  BY <3>3
  <2>6. IsDrops(u)
    BY <2>4, <2>5 DEF IsDrops
  <2> QED  BY <1>4, <2>1, <2>2, <2>6 DEF IsField, f
<1>5. ASSUME Has(d, k), k = "geo" PROVE IsField(k, Ingested(d, k))
  <2>1. v.enabled \in BOOLEAN
    BY <1>5 DEF IsSection
  <2>2. f.enabled \in {TRUE, v.enabled}
    BY <1>5 DEF Ingested, NewState
  <2> HIDE DEF v, f
  <2> QED  BY <1>5, <2>1, <2>2 DEF IsField, f
<1>6. ASSUME Has(d, k), k = "health" PROVE IsField(k, Ingested(d, k))
  <2>1. IsLines(v)
    BY <1>6 DEF IsSection
  <2>2. f \in {[mode |-> "defaults", statuses |-> default_exclude_statuses], [mode |-> "set", statuses |-> v]}
    BY <1>6 DEF Ingested, NewState
  <2> HIDE DEF v, f
  <2> QED  BY <1>6, <2>1, <2>2, ShortLists DEF IsField, f
<1>7. ASSUME Has(d, k), k = "sort" PROVE IsField(k, Ingested(d, k))
  BY <1>7 DEF IsField
<1>8. ASSUME Has(d, k), k = "limit" PROVE IsField(k, Ingested(d, k))
  <2>1. IsOption(v.count) /\ IsOption(None)
    BY <1>8 DEF IsSection, IsOption
  <2>2. f.typed = TRUE /\ f.count \in {None, v.count}
    BY <1>8 DEF Ingested, NewState
  <2> HIDE DEF v, f
  <2> QED  BY <1>8, <2>1, <2>2 DEF IsField, f
<1> QED  BY <1>1, <1>2, <1>3, <1>4, <1>5, <1>6, <1>7, <1>8 DEF Controls

\* The fields made of a document.
LEMMA IngestIsPage ==
  ASSUME NEW o, IsDocument(o)
  PROVE  /\ IsPage(ingest(o))
         /\ IF o = None \/ Value(o) = Empty THEN ingest(o) = NewState
            ELSE \A k \in Controls : ingest(o)[k] = Ingested(Value(o), k)
<1>1. CASE o = None \/ Value(o) = Empty
  BY <1>1, NewPage DEF ingest
<1>2. CASE ~(o = None \/ Value(o) = Empty)
  <2> DEFINE d == Value(o)
  <2>1. d \in o
    BY <1>2 DEF IsDocument, IsOption, Some
  <2>2. \A k \in DOMAIN d : IsSection(k, d[k])
    BY <2>1 DEF IsDocument
  <2>3. ingest(o) = [k \in Controls |-> Ingested(d, k)]
    BY <1>2, NewPage DEF ingest
  <2> HIDE DEF d
  <2>4. \A k \in Controls : IsField(k, Ingested(d, k))
    BY <2>2, IngestedIsField DEF Has
  <2> QED  BY <1>2, <2>3, <2>4 DEF IsPage, d
<1> QED  BY <1>1, <1>2

\* A form opened on a valid, showable document says what the document says.
LEMMA RoundTrip ==
  ASSUME NEW o, IsDocument(o), Accepts(o), ~Raw(o), \A d \in o : ~Unshowable(d)
  PROVE  SaysAlike(o, emit(from_form(ingest(o), TRUE)))
<1> DEFINE s == ingest(o)
<1>1. IsPage(s) /\ IF o = None \/ Value(o) = Empty THEN s = NewState
                   ELSE \A k \in Controls : s[k] = Ingested(Value(o), k)
  BY IngestIsPage
<1> HIDE DEF s
<1>2. \A k \in Controls : Says(emit(from_form(s, TRUE)), k) = Contribution(k, PostedSection(k, s[k], TRUE))
  BY <1>1, PostedSections
<1>3. SUFFICES ASSUME NEW k \in Controls
               PROVE  SaysTheSame(k, Says(o, k), Contribution(k, PostedSection(k, s[k], TRUE)))
  BY <1>2 DEF SaysAlike, s
<1>4. ASSUME ~(o # None /\ Has(Value(o), k))
      PROVE  SaysTheSame(k, Says(o, k), Contribution(k, PostedSection(k, s[k], TRUE)))
  <2>1. s[k] = NewState[k]
    BY <1>1, <1>4 DEF Ingested
  <2>2. Says(o, k) = None
    BY <1>4 DEF Says
  <2> QED  BY <2>1, <2>2, NewContributes DEF SaysTheSame
<1>5. ASSUME o # None, Has(Value(o), k)
      PROVE  SaysTheSame(k, Says(o, k), Contribution(k, PostedSection(k, s[k], TRUE)))
  <2> DEFINE d == Value(o)
             f == Ingested(d, k)
  <2>1. Says(o, k) # None
    BY <1>5, ValueOfSome DEF Says
  <2>2. /\ o = Some(d) /\ d \in o /\ k \in DOMAIN d /\ d # Empty
        /\ Says(o, k) = Some(d[k]) /\ IsSection(k, d[k])
    BY <2>1, SaysSection
  <2>3. s[k] = f
    BY <1>1, <1>5, <2>2
  <2> HIDE DEF d
  <2>4. Structured(d) /\ Issues(d) = {} /\ ~Inexpressible(d) /\ ~Unshowable(d)
    BY <1>5, <2>2 DEF Accepts, Raw, d
  <2>5. ~SectionIssue(k, d[k])
    BY <2>2, <2>4, AcceptedSections
  <2>6. Has(d, k)
    BY <2>2 DEF Has
  <2>7. \A m : RuleMode(m, TRUE) = m
    BY DEF RuleMode
  <2> HIDE DEF f
  <2>8. SaysTheSame(k, Some(d[k]), Contribution(k, PostedSection(k, f, TRUE)))
    <3>1. CASE k = "filter"
      <4>1. d["filter"].protocols # Some({}) /\ d["filter"].asns # Some({})
        BY <2>4, <2>6, <3>1 DEF Inexpressible
      <4>2. PostedSection(k, f, TRUE) = Ingested(d, "filter")
        BY <3>1 DEF PostedSection, f
      <4> QED  BY <2>2, <2>6, <3>1, <4>1, <4>2, FilterRoundTrip
    <3>2. CASE k = "rename"
      <4>1. \A r \in Ranged(d["rename"]) : r.match # NoText
        BY <2>4, <2>6, <3>2 DEF Inexpressible
      <4>2. (Texts(d["rename"]) \cup {r.replace : r \in Ranged(d["rename"])}) \cap DOMAIN Trim = {}
        BY <2>4, <2>6, <3>2 DEF Unshowable
      <4>3. \A r \in Ranged(d["rename"]) : r.match \notin DOMAIN Trim /\ r.replace \notin DOMAIN Trim
        BY <4>2 DEF Texts
      <4>4. PostedSection(k, f, TRUE) = [mode |-> Ingested(d, "rename").mode, rows |-> TidyRenames(Ingested(d, "rename").rows)]
        BY <2>7, <3>2 DEF PostedSection, f
      <4> QED  BY <2>2, <2>6, <3>2, <4>1, <4>3, <4>4, RenameRoundTrip
    <3>3. CASE k = "drop"
      <4>1. \A r \in Ranged(d["drop"]) : DropCompiles(r)
        BY <2>5, <3>3 DEF SectionIssue
      <4>2. \A r \in Ranged(d["drop"]) : r.target # "asn" => r.match # NoText
        BY <2>4, <2>6, <3>3 DEF Inexpressible
      <4>3. Texts(d["drop"]) \cap DOMAIN Trim = {}
        BY <2>4, <2>6, <3>3 DEF Unshowable
      <4>4. \A r \in Ranged(d["drop"]) : r.match \notin DOMAIN Trim
        BY <4>3 DEF Texts
      <4>5. PostedSection(k, f, TRUE) = [mode |-> Ingested(d, "drop").mode, rows |-> TidyDrops(Ingested(d, "drop").rows)]
        BY <2>7, <3>3 DEF PostedSection, f
      <4> QED  BY <2>2, <2>6, <3>3, <4>1, <4>2, <4>4, <4>5, DropRoundTrip
    <3>4. CASE k = "geo"
      <4>1. d["geo"].template # NoText
        BY <2>5, <3>4 DEF SectionIssue
      <4>2. PostedSection(k, f, TRUE) = Ingested(d, "geo")
        BY <3>4 DEF PostedSection, f
      <4> QED  BY <2>2, <2>6, <3>4, <4>1, <4>2, GeoRoundTrip
    <3>5. CASE k = "health"
      <4>1. d["health"] # default_exclude_statuses => InSchemaOrder(d["health"]) # default_exclude_statuses
        BY <2>4, <2>6, <3>5 DEF Unshowable
      <4>2. PostedSection(k, f, TRUE) = [mode |-> Ingested(d, "health").mode, statuses |-> InSchemaOrder(Ingested(d, "health").statuses)]
        BY <3>5 DEF PostedSection, f
      <4> QED  BY <2>2, <2>6, <3>5, <4>1, <4>2, HealthRoundTrip
    <3>6. CASE k = "sort"
      <4>1. PostedSection(k, f, TRUE) = Ingested(d, "sort")
        BY <3>6 DEF PostedSection, f
      <4> QED  BY <2>2, <2>6, <3>6, <4>1, SortRoundTrip
    <3>7. CASE k = "limit"
      <4>1. d["limit"].typed
        BY <2>5, <3>7 DEF SectionIssue
      <4>2. PostedSection(k, f, TRUE) = Ingested(d, "limit")
        BY <3>7 DEF PostedSection, f
      <4> QED  BY <2>2, <2>6, <3>7, <4>1, <4>2, LimitRoundTrip
    <3> QED  BY <3>1, <3>2, <3>3, <3>4, <3>5, <3>6, <3>7 DEF Controls
  <2> QED  BY <2>2, <2>3, <2>8 DEF f
<1> QED  BY <1>4, <1>5

\* The presets, posted.
LEMMA PresetPages ==
  ASSUME NEW name
  PROVE  /\ IsPage(preset(name))
         /\ \A c : SaysAlike(emit(preset(name)), emit(from_form(preset(name), c)))
<1> DEFINE s == preset(name)
<1>1. DOMAIN s = Controls
  BY NewPage DEF preset
<1>2. /\ s["drop"] = NewState["drop"] /\ s["filter"] = NewState["filter"]
      /\ s["sort"] = NewState["sort"] /\ s["limit"] = NewState["limit"]
  BY NewPage DEF preset, Controls
<1>3. \/ s["rename"] = NewState["rename"]
      \/ s["rename"] = [mode |-> "set", rows |-> <<[match |-> "edges", replace |-> NoText, target |-> "name"]>>]
  BY NewPage DEF preset, Controls
<1>4. s["geo"] = NewState["geo"] \/ (s["geo"].mode = "set" /\ s["geo"].enabled \in BOOLEAN)
  <2>1. CASE name = "country"
    <3>1. s["geo"].mode = "set" /\ s["geo"].enabled = TRUE
      BY <2>1, NewPage DEF preset, Controls
    <3> QED  BY <3>1
  <2>2. CASE name = "clean"
    <3>1. s["geo"].mode = "set" /\ s["geo"].enabled = FALSE
      BY <2>2, NewPage DEF preset, Controls
    <3> QED  BY <3>1
  <2>3. CASE name \notin {"country", "clean"}
    <3>1. s["geo"] = NewState["geo"]
      BY <2>3, NewPage DEF preset, Controls
    <3> QED  BY <3>1
  <2> QED  BY <2>1, <2>2, <2>3
<1>5. \/ s["health"] = NewState["health"]
      \/ s["health"] = [mode |-> "set", statuses |-> <<"unknown", "quarantine", "removed">>]
  BY NewPage DEF preset, Controls
<1> HIDE DEF s
<1> DEFINE rule == [match |-> "edges", replace |-> NoText, target |-> "name"]
           listed == <<"unknown", "quarantine", "removed">>
<1>6. /\ IsLines(<<rule>>) /\ Ranged(<<rule>>) = {rule} /\ <<rule>> # << >>
      /\ IsLines(listed) /\ Ranged(listed) = {"unknown", "quarantine", "removed"}
  <2>1. IsListing(<<rule>>, 1) /\ <<rule>> # << >>
    BY DEF IsListing
  <2>2. IsListing(listed, 3)
    BY DEF IsListing
  <2>3. Ranged(<<rule>>) = {rule}
    BY DEF Ranged
  <2>4. Ranged(listed) = {"unknown", "quarantine", "removed"}
    BY DEF Ranged
  <2> HIDE DEF rule, listed
  <2> QED  BY <2>1, <2>2, <2>3, <2>4, FunctionLists
<1>7. AreTidyRenames(<<rule>>)
  <2>1. "edges" \notin DOMAIN Trim /\ NoText \notin DOMAIN Trim
    BY FormAssumption
  <2>2. IsLines(<<rule>>) /\ Ranged(<<rule>>) = {rule}
    BY <1>6
  <2>3. rule = [match |-> rule.match, replace |-> rule.replace, target |-> rule.target]
        /\ rule.match = "edges" /\ rule.replace = NoText
    OBVIOUS
  <2> HIDE DEF rule
  <2> QED  BY <2>1, <2>2, <2>3 DEF AreTidyRenames, IsRenames
<1> HIDE DEF rule, listed
<1>8. IsField("rename", s["rename"])
  <2>1. IsField("rename", NewState["rename"])
    BY NewPage DEF IsPage, Controls
  <2> QED  BY <1>3, <1>7, <2>1 DEF IsField, AreTidyRenames, rule
<1>9. IsField("health", s["health"])
  <2>1. IsField("health", NewState["health"])
    BY NewPage DEF IsPage, Controls
  <2> QED  BY <1>5, <1>6, <2>1 DEF IsField, listed
<1>10. IsField("geo", s["geo"])
  <2>1. IsField("geo", NewState["geo"])
    BY NewPage DEF IsPage, Controls
  <2> QED  BY <1>4, <2>1 DEF IsField
<1>11. IsPage(s)
  <2>1. \A k \in {"filter", "drop", "sort", "limit"} : IsField(k, s[k])
    BY <1>2, NewPage DEF IsPage, Controls
  <2> QED  BY <1>1, <1>8, <1>9, <1>10, <2>1 DEF IsPage, Controls
<1>12. ASSUME NEW c PROVE SaysAlike(emit(s), emit(from_form(s, c)))
  <2>1. /\ \A k \in Controls : Says(emit(s), k) = Contribution(k, s[k])
        /\ \A k \in Controls : Says(emit(from_form(s, c)), k) = Contribution(k, PostedSection(k, s[k], c))
    BY <1>1, <1>11, EmitSays, PostedSections
  <2>2. \A k, x : k # "filter" /\ k # "health" => SaysTheSame(k, x, x)
    BY DEF SaysTheSame, SameSection
  <2>3. \A x : SaysTheSame("filter", x, x) /\ SaysTheSame("health", x, x)
    BY DEF SaysTheSame, SameSection
  <2>4. \A k \in {"filter", "geo", "sort", "limit"} : PostedSection(k, s[k], c) = s[k]
    BY DEF PostedSection
  <2>5. Contribution("rename", PostedSection("rename", s["rename"], c)) = Contribution("rename", s["rename"])
    <3> DEFINE f == s["rename"]
               p == PostedSection("rename", f, c)
    <3>1. f.mode = "set" /\ (f.rows = << >> \/ f.rows = <<rule>>)
      BY <1>3, NewPage DEF rule
    <3>2. p.mode = "set" /\ p.rows = TidyRenames(f.rows)
      BY <3>1 DEF PostedSection, RuleMode
    <3>3. TypedRenames(TidyRenames(f.rows)) = TypedRenames(f.rows)
      BY <1>7, <3>1, TidiedTwice, BlanksSayNothing
    <3> HIDE DEF f, p
    <3>4. TypedRenames(p.rows) = TypedRenames(f.rows)
      BY <3>2, <3>3
    <3>5. Contribution("rename", p) = Contribution("rename", f)
      BY <3>1, <3>2, <3>4, RenameContributes
    <3> QED  BY <3>5 DEF f, p
  <2>6. Contribution("drop", PostedSection("drop", s["drop"], c)) = Contribution("drop", s["drop"])
    <3> DEFINE f == s["drop"]
               p == PostedSection("drop", f, c)
    <3>1. f.mode = "set" /\ f.rows = << >>
      BY <1>2, NewPage
    <3>2. p.mode = "set" /\ p.rows = TidyDrops(f.rows)
      BY <3>1 DEF PostedSection, RuleMode
    <3>3. TypedDrops(TidyDrops(f.rows)) = TypedDrops(f.rows)
      BY <3>1, BlanksSayNothing
    <3> HIDE DEF f, p
    <3>4. TypedDrops(p.rows) = TypedDrops(f.rows)
      BY <3>2, <3>3
    <3>5. Contribution("drop", p) = Contribution("drop", f)
      BY <3>1, <3>2, <3>4, DropContributes
    <3> QED  BY <3>5 DEF f, p
  <2>7. SaysTheSame("health", Contribution("health", s["health"]), Contribution("health", PostedSection("health", s["health"], c)))
    <3> DEFINE f == s["health"]
               p == PostedSection("health", f, c)
    <3>1. p.mode = f.mode /\ p.statuses = InSchemaOrder(f.statuses)
      BY DEF PostedSection
    <3>2. CASE f.mode = "skip"
      <4> HIDE DEF f, p
      <4>1. Contribution("health", p) = None /\ Contribution("health", f) = None
        BY <3>1, <3>2, HealthContributes
      <4> QED  BY <4>1 DEF SaysTheSame, f, p
    <3>3. CASE f.mode = "set" /\ f.statuses = listed
      <4>1. p.mode = "set" /\ Ranged(p.statuses) = Ranged(listed)
        BY <1>6, <3>1, <3>3, SchemaOrder
      <4>2. Ranged(listed) # Ranged(default_exclude_statuses)
        BY <1>6, ShortLists
      <4> HIDE DEF f, p
      <4>3. Contribution("health", p) = Some(p.statuses)
        BY <4>1, <4>2, HealthContributes
      <4>4. Contribution("health", f) = Some(listed)
        BY <3>3, <4>2, HealthContributes
      <4> QED  BY <4>1, <4>3, <4>4, ValueOfSome DEF SaysTheSame, SameSection, f, p
    <3> QED  BY <1>5, <3>2, <3>3, NewPage DEF listed
  <2>8. ASSUME NEW k \in Controls PROVE SaysTheSame(k, Says(emit(s), k), Says(emit(from_form(s, c)), k))
    <3>1. CASE k = "health"
      BY <2>1, <2>7, <3>1
    <3>2. CASE k = "rename"
      BY <2>1, <2>2, <2>5, <3>2
    <3>3. CASE k = "drop"
      BY <2>1, <2>2, <2>6, <3>3
    <3>4. CASE k \in {"filter", "geo", "sort", "limit"}
      <4>1. Says(emit(s), k) = Says(emit(from_form(s, c)), k)
        BY <2>1, <2>4, <3>4
      <4> QED  BY <2>2, <2>3, <3>4, <4>1
    <3> QED  BY <3>1, <3>2, <3>3, <3>4 DEF Controls
  <2> QED  BY <2>8 DEF SaysAlike
<1> QED  BY <1>11, <1>12 DEF s

-----------------------------------------------------------------------------
(* Every request of the editor keeps the invariant.                         *)

\* A page as it comes back from the handlers.
Settled(s, c) ==
    /\ IsPage(s) /\ AreTidyRenames(s["rename"].rows) /\ AreTidyDrops(s["drop"].rows)
    /\ InSchemaOrder(s["health"].statuses) = s["health"].statuses
    /\ RuleMode(s["rename"].mode, c) = s["rename"].mode /\ RuleMode(s["drop"].mode, c) = s["drop"].mode
    /\ s["rename"] = [mode |-> s["rename"].mode, rows |-> s["rename"].rows]
    /\ s["drop"] = [mode |-> s["drop"].mode, rows |-> s["drop"].rows]

\* What was posted, posted again, emits the same document, and one that can be shown.
LEMMA PostedSettles ==
  ASSUME NEW s, IsPage(s), NEW c
  PROVE  /\ Settled(from_form(s, c), c) /\ emit(from_form(from_form(s, c), c)) = emit(from_form(s, c))
         /\ IsDocument(emit(from_form(s, c))) /\ \A d \in emit(from_form(s, c)) : ~Unshowable(d)
<1> DEFINE p == from_form(s, c)
<1>1. /\ IsPage(p) /\ AreTidyRenames(p["rename"].rows) /\ AreTidyDrops(p["drop"].rows)
      /\ InSchemaOrder(p["health"].statuses) = p["health"].statuses
  BY FromFormIsPage
<1>2. /\ p["rename"].mode = RuleMode(s["rename"].mode, c) /\ p["drop"].mode = RuleMode(s["drop"].mode, c)
      /\ p["rename"] = [mode |-> p["rename"].mode, rows |-> p["rename"].rows]
      /\ p["drop"] = [mode |-> p["drop"].mode, rows |-> p["drop"].rows]
  <2>1. /\ p["rename"] = [mode |-> RuleMode(s["rename"].mode, c), rows |-> TidyRenames(s["rename"].rows)]
        /\ p["drop"] = [mode |-> RuleMode(s["drop"].mode, c), rows |-> TidyDrops(s["drop"].rows)]
    BY FromForm
  <2> HIDE DEF p
  <2> QED  BY <2>1
<1>3. \A m : RuleMode(RuleMode(m, c), c) = RuleMode(m, c)
  BY DEF RuleMode
<1> HIDE DEF p
<1>4. Settled(p, c)
  BY <1>1, <1>2, <1>3 DEF Settled
<1>5. emit(from_form(p, c)) = emit(p)
  BY <1>4, EmitSettled DEF Settled
<1>6. IsDocument(emit(p)) /\ \A d \in emit(p) : ~Unshowable(d)
  BY <1>1, EmitIsDocument, PostedShows
<1> QED  BY <1>4, <1>5, <1>6 DEF p

\* A line appended, a line taken out.
LEMMA AppendedLines ==
  ASSUME NEW list, IsLines(list), NEW x
  PROVE  IsLines(Append(list, x)) /\ Ranged(Append(list, x)) = Ranged(list) \cup {x}
<1> DEFINE S == Ranged(list) \cup {x}
           longer == Append(list, x)
           n == Len(list)
<1>1. n \in Nat /\ DOMAIN list = 1..n
  BY LinesAre
<1>2. list \in Seq(S)
  <2>1. list \in Seq(Ranged(list))
    BY DEF IsLines
  <2> QED  BY <2>1
<1>3. /\ longer = [k \in 1..n + 1 |-> longer[k]] /\ DOMAIN longer = 1..n + 1
      /\ longer[n + 1] = x /\ \A i \in 1..n : longer[i] = list[i]
  <2>0. x \in S
    OBVIOUS
  <2> HIDE DEF S
  <2>1. longer \in Seq(S) /\ Len(longer) = n + 1
    BY <1>2, <2>0
  <2>2. longer[n + 1] = x /\ \A i \in 1..n : longer[i] = list[i]
    BY <1>2
  <2> HIDE DEF longer, n
  <2>3. longer = [k \in 1..n + 1 |-> longer[k]] /\ DOMAIN longer = 1..n + 1
    BY <2>1
  <2> QED  BY <2>2, <2>3
<1> HIDE DEF longer, n
<1>4. n + 1 \in Nat /\ IsListing(longer, n + 1)
  BY <1>1, <1>3 DEF IsListing
<1>5. IsLines(longer) /\ Ranged(longer) = {longer[k] : k \in 1..n + 1}
  BY <1>4, FunctionLists
<1>6. \A k : k \in 1..n + 1 <=> k \in 1..n \/ k = n + 1
  BY <1>1
<1>7. Ranged(list) = {list[k] : k \in 1..n}
  BY <1>1 DEF Ranged
<1>8. {longer[k] : k \in 1..n + 1} = {list[k] : k \in 1..n} \cup {x}
  BY <1>3, <1>6
<1> QED  BY <1>5, <1>7, <1>8 DEF longer

\* A blank line changes no rule.
LEMMA BlankRenameAppended ==
  ASSUME NEW rows, AreTidyRenames(rows)
  PROVE  /\ AreTidyRenames(Append(rows, BlankRename))
         /\ TypedRenames(Append(rows, BlankRename)) = TypedRenames(rows)
<1> DEFINE longer == Append(rows, BlankRename)
           Good(list) == {r \in Ranged(list) : r.match # NoText}
<1>1. IsLines(rows) /\ IsLines(longer) /\ Ranged(longer) = Ranged(rows) \cup {BlankRename}
  BY AppendedLines DEF AreTidyRenames, IsRenames
<1>2. /\ BlankRename = [match |-> BlankRename.match, replace |-> BlankRename.replace, target |-> BlankRename.target]
      /\ BlankRename.match = NoText /\ BlankRename.replace = NoText
  BY DEF BlankRename
<1>3. AreTidyRenames(longer)
  BY <1>1, <1>2, FormAssumption DEF AreTidyRenames, IsRenames
<1>4. Good(longer) = Good(rows) /\ BlankRename \notin Good(rows)
  BY <1>1, <1>2
<1>5. TypedRenames(longer) = Where(longer, Good(longer)) /\ TypedRenames(rows) = Where(rows, Good(rows))
  BY DEF TypedRenames
<1> HIDE DEF Good
<1>6. Where(longer, Good(rows)) = Where(rows, Good(rows))
  BY <1>1, <1>4, WhereAppend
<1> QED  BY <1>3, <1>4, <1>5, <1>6

\* The same for drop rules.
LEMMA BlankDropAppended ==
  ASSUME NEW rows, AreTidyDrops(rows)
  PROVE  /\ AreTidyDrops(Append(rows, BlankDrop))
         /\ TypedDrops(Append(rows, BlankDrop)) = TypedDrops(rows)
<1> DEFINE longer == Append(rows, BlankDrop)
<1>1. IsLines(rows) /\ IsLines(longer) /\ Ranged(longer) = Ranged(rows) \cup {BlankDrop}
  BY AppendedLines DEF AreTidyDrops, IsDrops
<1>2. /\ BlankDrop = [match |-> BlankDrop.match, target |-> BlankDrop.target, asns |-> BlankDrop.asns]
      /\ BlankDrop.match = NoText /\ BlankDrop.target # "asn" /\ IsOption(BlankDrop.asns)
  BY DEF BlankDrop, IsOption
<1>3. AreTidyDrops(longer)
  BY <1>1, <1>2, FormAssumption DEF AreTidyDrops, IsDrops
<1>4. GoodDrops(longer) = GoodDrops(rows) /\ BlankDrop \notin GoodDrops(rows)
  BY <1>1, <1>2 DEF GoodDrops
<1>5. Where(longer, GoodDrops(rows)) = Where(rows, GoodDrops(rows))
  BY <1>1, <1>4, WhereAppend
<1> HIDE DEF longer
<1>6. TypedDrops(longer) = TypedDrops(rows)
  BY <1>4, <1>5, TypedDropsAre
<1> QED  BY <1>3, <1>6 DEF longer

\* Without one of them, tidy lines are tidy.
LEMMA LineTakenOut ==
  ASSUME NEW rows, NEW i
  PROVE  /\ AreTidyRenames(rows) => AreTidyRenames(Without(rows, i))
         /\ AreTidyDrops(rows) => AreTidyDrops(Without(rows, i))
<1> DEFINE rest == Without(rows, i)
<1>1. IsLines(rows) => IsLines(rest) /\ Ranged(rest) \subseteq Ranged(rows)
  <2> HAVE IsLines(rows)
  <2> DEFINE I == DOMAIN rows \ {i}
  <2>1. I \in SUBSET DOMAIN rows /\ rest = Entries(rows, I)
    BY DEF Without
  <2>2. {rows[j] : j \in I} \subseteq Ranged(rows)
    BY DEF Ranged
  <2> HIDE DEF I, rest
  <2> QED  BY <2>1, <2>2, EntriesList
<1> HIDE DEF rest
<1>2. AreTidyRenames(rows) => AreTidyRenames(rest)
  BY <1>1 DEF AreTidyRenames, IsRenames
<1>3. AreTidyDrops(rows) => AreTidyDrops(rest)
  BY <1>1 DEF AreTidyDrops, IsDrops
<1> QED  BY <1>2, <1>3 DEF rest

\* The lines of one section of a settled page replaced.
LEMMA LinesReplaced ==
  ASSUME NEW s, NEW c, Settled(s, c), NEW rows
  PROVE  /\ AreTidyDrops(rows) =>
               /\ Settled([s EXCEPT !.drop.rows = rows], c)
               /\ TypedDrops(rows) = TypedDrops(s["drop"].rows) => emit([s EXCEPT !.drop.rows = rows]) = emit(s)
         /\ AreTidyRenames(rows) =>
               /\ Settled([s EXCEPT !.rename.rows = rows], c)
               /\ TypedRenames(rows) = TypedRenames(s["rename"].rows) => emit([s EXCEPT !.rename.rows = rows]) = emit(s)
<1>1. DOMAIN s = Controls /\ \A k \in Controls : IsField(k, s[k])
  BY DEF Settled, IsPage
<1>2. ASSUME AreTidyDrops(rows)
      PROVE  /\ Settled([s EXCEPT !.drop.rows = rows], c)
             /\ TypedDrops(rows) = TypedDrops(s["drop"].rows) => emit([s EXCEPT !.drop.rows = rows]) = emit(s)
  <2> DEFINE t == [s EXCEPT !.drop.rows = rows]
             d == s["drop"]
  <2>1. /\ DOMAIN t = Controls /\ t["drop"] = [d EXCEPT !.rows = rows]
        /\ \A k \in Controls \ {"drop"} : t[k] = s[k]
    BY <1>1 DEF Controls
  <2>2. t["drop"] = [mode |-> d.mode, rows |-> rows] /\ t["drop"].rows = rows /\ t["drop"].mode = d.mode
    <3>1. d = [mode |-> d.mode, rows |-> d.rows]
      BY DEF Settled
    <3> HIDE DEF t, d
    <3>2. [d EXCEPT !.rows = rows] = [mode |-> d.mode, rows |-> rows]
      BY <3>1
    <3> QED  BY <2>1, <3>2
  <2> HIDE DEF t, d
  <2>3. IsField("drop", t["drop"])
    BY <1>2, <2>2 DEF IsField, AreTidyDrops
  <2>4. IsPage(t)
    BY <1>1, <2>1, <2>3 DEF IsPage
  <2>5. Settled(t, c)
    BY <1>2, <2>1, <2>2, <2>4 DEF Settled, Controls, d
  <2>6. ASSUME TypedDrops(rows) = TypedDrops(d.rows) PROVE emit(t) = emit(s)
    <3>1. Contribution("drop", t["drop"]) = Contribution("drop", d)
      <4> DEFINE td == t["drop"]
      <4>1. td.mode = d.mode /\ TypedDrops(td.rows) = TypedDrops(d.rows)
        BY <2>2, <2>6
      <4> HIDE DEF td
      <4>2. Contribution("drop", td) = Contribution("drop", d)
        BY <4>1, DropContributes
      <4> QED  BY <4>2 DEF td
    <3>2. \A k \in Sections : Emitted(t, k) = Emitted(s, k)
      BY <1>1, <2>1, <3>1 DEF Emitted, d
    <3> QED  BY <3>2, EmitAlike
  <2> QED  BY <2>5, <2>6 DEF t, d
<1>3. ASSUME AreTidyRenames(rows)
      PROVE  /\ Settled([s EXCEPT !.rename.rows = rows], c)
             /\ TypedRenames(rows) = TypedRenames(s["rename"].rows) => emit([s EXCEPT !.rename.rows = rows]) = emit(s)
  <2> DEFINE t == [s EXCEPT !.rename.rows = rows]
             d == s["rename"]
  <2>1. /\ DOMAIN t = Controls /\ t["rename"] = [d EXCEPT !.rows = rows]
        /\ \A k \in Controls \ {"rename"} : t[k] = s[k]
    BY <1>1 DEF Controls
  <2>2. t["rename"] = [mode |-> d.mode, rows |-> rows] /\ t["rename"].rows = rows /\ t["rename"].mode = d.mode
    <3>1. d = [mode |-> d.mode, rows |-> d.rows]
      BY DEF Settled
    <3> HIDE DEF t, d
    <3>2. [d EXCEPT !.rows = rows] = [mode |-> d.mode, rows |-> rows]
      BY <3>1
    <3> QED  BY <2>1, <3>2
  <2> HIDE DEF t, d
  <2>3. IsField("rename", t["rename"])
    BY <1>3, <2>2 DEF IsField, AreTidyRenames
  <2>4. IsPage(t)
    BY <1>1, <2>1, <2>3 DEF IsPage
  <2>5. Settled(t, c)
    BY <1>3, <2>1, <2>2, <2>4 DEF Settled, Controls, d
  <2>6. ASSUME TypedRenames(rows) = TypedRenames(d.rows) PROVE emit(t) = emit(s)
    <3>1. Contribution("rename", t["rename"]) = Contribution("rename", d)
      <4> DEFINE td == t["rename"]
      <4>1. td.mode = d.mode /\ TypedRenames(td.rows) = TypedRenames(d.rows)
        BY <2>2, <2>6
      <4> HIDE DEF td
      <4>2. Contribution("rename", td) = Contribution("rename", d)
        BY <4>1, RenameContributes
      <4> QED  BY <4>2 DEF td
    <3>2. \A k \in Sections : Emitted(t, k) = Emitted(s, k)
      BY <1>1, <2>1, <3>1 DEF Emitted, d
    <3> QED  BY <3>2, EmitAlike
  <2> QED  BY <2>5, <2>6 DEF t, d
<1> QED  BY <1>2, <1>3

\* The document a page stands for, what it must keep of what is meant, and when.
FormDoc(md, fl, tx, ts) == IF md = "builder" THEN emit(from_form(fl, ts)) ELSE tx
Promised(mn, ct) == Accepts(mn) /\ (\A d \in mn : ~Unshowable(d)) /\ ct
Intact(mn, doc) == Accepts(doc) /\ Meaning(doc) = Meaning(mn)
Showable(doc) == \A d \in doc : ~Unshowable(d)

SoundPage(md, fl, tx, ts, mn, ct) ==
    /\ md \in {"builder", "raw"} /\ IsDocument(mn)
    /\ md = "builder" => IsPage(fl)
    /\ md = "raw" => ts = FALSE /\ IsDocument(tx)
    /\ Promised(mn, ct) => Intact(mn, FormDoc(md, fl, tx, ts)) /\ Showable(FormDoc(md, fl, tx, ts))
EditorInv == SoundPage(mode, fields, text, triState, meant, controlled)

\* The invariant contains the property.
LEMMA SoundKeeps == EditorInv => EditorKeepsMeaning
  BY DEF EditorInv, SoundPage, EditorKeepsMeaning, Kept, Meant, Promised, Intact, FormDoc, pipeline_from_form, Posted

\* A page of fields is sound when its document is.
LEMMA SoundBuilder ==
  ASSUME NEW fl, IsPage(fl), NEW tx, NEW ts, NEW mn, IsDocument(mn), NEW ct,
         Promised(mn, ct) => Intact(mn, emit(from_form(fl, ts)))
  PROVE  SoundPage("builder", fl, tx, ts, mn, ct)
<1>1. FormDoc("builder", fl, tx, ts) = emit(from_form(fl, ts))
  BY DEF FormDoc
<1>2. Showable(emit(from_form(fl, ts)))
  BY PostedSettles DEF Showable
<1> QED  BY <1>1, <1>2 DEF SoundPage

\* A page with a textarea is sound when its text is.
LEMMA SoundRaw ==
  ASSUME NEW fl, NEW tx, IsDocument(tx), NEW ts, ts = FALSE, NEW mn, IsDocument(mn), NEW ct,
         Promised(mn, ct) => Intact(mn, tx) /\ Showable(tx)
  PROVE  SoundPage("raw", fl, tx, ts, mn, ct)
<1>1. FormDoc("raw", fl, tx, ts) = tx
  BY DEF FormDoc
<1> QED  BY <1>1 DEF SoundPage

\* A sound page stands for a document.
LEMMA FormDocument ==
  ASSUME NEW md, NEW fl, NEW tx, NEW ts, NEW mn, NEW ct, SoundPage(md, fl, tx, ts, mn, ct)
  PROVE  IsDocument(FormDoc(md, fl, tx, ts))
<1>1. CASE md = "builder"
  BY <1>1, PostedSettles DEF SoundPage, FormDoc
<1>2. CASE md = "raw"
  BY <1>2 DEF SoundPage, FormDoc
<1> QED  BY <1>1, <1>2 DEF SoundPage

\* A page that says the same keeps as much.
LEMMA AlikeIntact ==
  ASSUME NEW mn, NEW doc, IsDocument(doc), Intact(mn, doc), NEW s, IsPage(s), SaysAlike(doc, emit(s))
  PROVE  Intact(mn, emit(s))
<1>1. IsDocument(emit(s)) /\ DOMAIN s = Controls
  BY EmitIsDocument DEF IsPage
<1>2. Accepts(emit(s))
  BY <1>1, AlikeAccepted DEF Intact
<1>3. Meaning(doc) = Meaning(emit(s))
  BY <1>1, AlikeMeans
<1> QED  BY <1>2, <1>3 DEF Intact

\* A form opened on a document keeps what the document keeps.
LEMMA OpenedIntact ==
  ASSUME NEW mn, NEW doc, IsDocument(doc), Intact(mn, doc), Showable(doc), ~Raw(doc)
  PROVE  Intact(mn, emit(from_form(ingest(doc), TRUE)))
<1> DEFINE s == from_form(ingest(doc), TRUE)
<1>1. SaysAlike(doc, emit(s))
  BY RoundTrip DEF Intact, Showable
<1>2. IsPage(s)
  BY IngestIsPage, FromFormIsPage
<1> HIDE DEF s
<1>3. Intact(mn, emit(s))
  BY <1>1, <1>2, AlikeIntact
<1> QED  BY <1>3 DEF s

\* What is meant is meant of itself.
LEMMA SelfIntact == \A mn, ct : Promised(mn, ct) => Intact(mn, mn) /\ Showable(mn)
  BY DEF Promised, Intact, Showable

\* The form is sound when it is opened.
LEMMA EditorStarts ==
  ASSUME ProfileForm, EditorInit
  PROVE  EditorInv
<1>1. IsDocument(meant)
  BY FormAssumption DEF EditorInit
<1>2. CASE Raw(meant)
  <2>1. mode = "raw" /\ text = meant /\ triState = FALSE
    BY <1>2 DEF EditorInit
  <2>2. SoundPage("raw", fields, meant, triState, meant, controlled)
    BY <1>1, <2>1, SelfIntact, SoundRaw
  <2> QED  BY <2>1, <2>2 DEF EditorInv
<1>3. CASE ~Raw(meant)
  <2>1. mode = "builder" /\ fields = ingest(meant) /\ triState = ProfileForm
    BY <1>3 DEF EditorInit
  <2>2. IsPage(fields)
    BY <1>1, <2>1, IngestIsPage
  <2>3. triState = TRUE
    BY <2>1, FormAssumption
  <2>4. Promised(meant, controlled) => Intact(meant, emit(from_form(fields, triState)))
    BY <1>1, <1>3, <2>1, <2>3, SelfIntact, OpenedIntact
  <2>5. SoundPage("builder", fields, text, triState, meant, controlled)
    BY <1>1, <2>2, <2>4, SoundBuilder
  <2> QED  BY <2>1, <2>5 DEF EditorInv
<1> QED  BY <1>2, <1>3

\* Of a step that keeps the meaning: what is promised after it was promised before it.
LEMMA KeepsPromise ==
  ASSUME ProfileForm, Keeps, Promised(meant', controlled')
  PROVE  Promised(meant, controlled) /\ meant' = meant /\ (mode' = "builder" => triState' = TRUE)
<1>1. meant' = meant /\ controlled' = (controlled /\ (mode' = "builder" => triState' = ProfileForm))
  BY DEF Keeps
<1>2. ProfileForm = TRUE
  BY FormAssumption
<1>3. controlled' /\ Accepts(meant') /\ \A d \in meant' : ~Unshowable(d)
  BY DEF Promised
<1>4. controlled /\ (mode' = "builder" => triState' = TRUE)
  BY <1>1, <1>2, <1>3
<1> QED  BY <1>1, <1>3, <1>4 DEF Promised

\* pipeline_mode, to the textarea.
LEMMA to_raw_Sound ==
  ASSUME ProfileForm, EditorInv, to_raw
  PROVE  EditorInv'
<1> DEFINE doc == IF mode = "builder" THEN emit(Posted) ELSE None
<1>1. mode' = "raw" /\ text' = doc /\ triState' = FALSE
  BY DEF to_raw, Shows
<1>2. IsDocument(meant)
  BY DEF EditorInv, SoundPage
<1>3. CASE mode = "builder"
  <2>1. doc = FormDoc(mode, fields, text, triState) /\ Keeps
    BY <1>3 DEF to_raw, FormDoc, Posted
  <2>2. IsDocument(doc)
    BY <2>1, FormDocument DEF EditorInv
  <2>3. Promised(meant', controlled') => Intact(meant', doc) /\ Showable(doc)
    BY <2>1, KeepsPromise DEF EditorInv, SoundPage
  <2>4. meant' = meant
    BY <2>1 DEF Keeps
  <2> HIDE DEF doc
  <2>5. SoundPage("raw", fields', doc, triState', meant', controlled')
    BY <1>1, <1>2, <2>2, <2>3, <2>4, SoundRaw
  <2> QED  BY <1>1, <2>5 DEF EditorInv
<1>4. CASE mode # "builder"
  <2>1. doc = None /\ meant' = None
    BY <1>4 DEF to_raw, Enters
  <2>2. IsDocument(None)
    BY DEF IsDocument, IsOption, None
  <2> HIDE DEF doc
  <2>3. SoundPage("raw", fields', None, triState', meant', controlled')
    BY <1>1, <2>1, <2>2, SelfIntact, SoundRaw
  <2> QED  BY <1>1, <2>1, <2>3 DEF EditorInv
<1> QED  BY <1>3, <1>4

\* pipeline_mode, to the fields: from the textarea they come without the controls.
LEMMA to_builder_Sound ==
  ASSUME ProfileForm, EditorInv, to_builder
  PROVE  EditorInv'
<1>1. Keeps /\ meant' = meant /\ IsDocument(meant')
  BY DEF to_builder, Keeps, EditorInv, SoundPage
<1>2. CASE mode = "builder"
  <2>1. mode' = "builder" /\ fields' = from_form(fields, triState) /\ triState' = triState
    BY <1>2 DEF to_builder, Builds, Posted
  <2>2. IsPage(fields)
    BY <1>2 DEF EditorInv, SoundPage
  <2>3. IsPage(fields') /\ emit(from_form(fields', triState')) = FormDoc(mode, fields, text, triState)
    BY <1>2, <2>1, <2>2, PostedSettles DEF Settled, FormDoc
  <2>4. Promised(meant', controlled') => Intact(meant', emit(from_form(fields', triState')))
    BY <1>1, <2>3, KeepsPromise DEF EditorInv, SoundPage
  <2>5. SoundPage("builder", fields', text', triState', meant', controlled')
    BY <1>1, <2>3, <2>4, SoundBuilder
  <2> QED  BY <2>1, <2>5 DEF EditorInv
<1>3. CASE mode # "builder" /\ Raw(text)
  <2>1. mode' = "raw" /\ text' = text /\ triState' = FALSE
    BY <1>3 DEF to_builder, Shows
  <2>2. mode = "raw" /\ IsDocument(text) /\ FormDoc(mode, fields, text, triState) = text
    BY <1>3 DEF EditorInv, SoundPage, FormDoc
  <2>3. Promised(meant', controlled') => Intact(meant', text') /\ Showable(text')
    BY <1>1, <2>1, <2>2, KeepsPromise DEF EditorInv, SoundPage
  <2>4. SoundPage("raw", fields', text', triState', meant', controlled')
    BY <1>1, <2>1, <2>2, <2>3, SoundRaw
  <2> QED  BY <2>1, <2>4 DEF EditorInv
<1>4. CASE mode # "builder" /\ ~Raw(text)
  <2>1. mode' = "builder" /\ fields' = ingest(text) /\ triState' = triState
    BY <1>4 DEF to_builder, Builds
  <2>2. IsDocument(text) /\ triState = FALSE
    BY <1>4 DEF EditorInv, SoundPage
  <2>3. IsPage(fields')
    BY <2>1, <2>2, IngestIsPage
  <2>4. ~Promised(meant', controlled')
    BY <1>1, <2>1, <2>2, KeepsPromise
  <2>5. SoundPage("builder", fields', text', triState', meant', controlled')
    BY <1>1, <2>3, <2>4, SoundBuilder
  <2> QED  BY <2>1, <2>5 DEF EditorInv
<1> QED  BY <1>2, <1>3, <1>4

\* A preset is posted as it was entered.
LEMMA pipeline_preset_Sound ==
  ASSUME EditorInv, pipeline_preset
  PROVE  EditorInv'
<1>1. PICK name : Builds(preset(name), triState) /\ Enters(emit(preset(name)))
  BY DEF pipeline_preset
<1>2. mode' = "builder" /\ fields' = preset(name) /\ triState' = triState /\ meant' = emit(preset(name))
  BY <1>1 DEF Builds, Enters
<1>3. IsPage(fields') /\ SaysAlike(meant', emit(from_form(fields', triState'))) /\ IsDocument(meant')
  BY <1>2, PresetPages, EmitIsDocument
<1>4. IsPage(from_form(fields', triState'))
  BY <1>3, FromFormIsPage
<1>5. Promised(meant', controlled') => Intact(meant', emit(from_form(fields', triState')))
  BY <1>3, <1>4, SelfIntact, AlikeIntact
<1>6. SoundPage("builder", fields', text', triState', meant', controlled')
  BY <1>3, <1>5, SoundBuilder
<1> QED  BY <1>2, <1>6 DEF EditorInv

\* A blank line adds nothing; without a line the page is entered anew.
LEMMA pipeline_rows_Sound ==
  ASSUME ProfileForm, EditorInv, pipeline_rows
  PROVE  EditorInv'
<1> DEFINE s == from_form(fields, triState)
<1>1. mode = "builder" /\ mode' = "builder" /\ triState' = triState
  BY DEF pipeline_rows
<1>2. Settled(s, triState) /\ emit(s) = FormDoc(mode, fields, text, triState)
  BY <1>1, PostedSettles DEF EditorInv, SoundPage, FormDoc
<1>3. IsDocument(meant)
  BY DEF EditorInv, SoundPage
<1>4. AreTidyDrops(s["drop"].rows) /\ AreTidyRenames(s["rename"].rows)
  BY <1>2 DEF Settled
<1>5. Posted = s
  BY DEF Posted
<1> HIDE DEF s
<1>6. ASSUME Settled(fields', triState), emit(fields') = emit(s), Keeps
      PROVE  EditorInv'
  <2>1. emit(from_form(fields', triState')) = emit(s) /\ IsPage(fields')
    BY <1>1, <1>6, EmitSettled DEF Settled
  <2>2. meant' = meant
    BY <1>6 DEF Keeps
  <2>3. Promised(meant', controlled') => Intact(meant', emit(from_form(fields', triState')))
    BY <1>2, <1>6, <2>1, <2>2, KeepsPromise DEF EditorInv, SoundPage
  <2>4. SoundPage("builder", fields', text', triState', meant', controlled')
    BY <1>3, <2>1, <2>2, <2>3, SoundBuilder
  <2> QED  BY <1>1, <2>4 DEF EditorInv
<1>7. ASSUME Settled(fields', triState), Enters(emit(fields'))
      PROVE  EditorInv'
  <2>1. emit(from_form(fields', triState')) = emit(fields') /\ IsPage(fields')
    BY <1>1, <1>7, EmitSettled DEF Settled
  <2>2. meant' = emit(fields') /\ IsDocument(meant')
    BY <1>7, <2>1, EmitIsDocument DEF Enters
  <2>3. Promised(meant', controlled') => Intact(meant', emit(from_form(fields', triState')))
    BY <2>1, <2>2, SelfIntact
  <2>4. SoundPage("builder", fields', text', triState', meant', controlled')
    BY <2>1, <2>2, <2>3, SoundBuilder
  <2> QED  BY <1>1, <2>4 DEF EditorInv
<1>8. CASE fields' = [Posted EXCEPT !.drop.rows = Append(@, BlankDrop)] /\ Keeps
  <2> DEFINE rows == Append(s["drop"].rows, BlankDrop)
  <2>1. fields' = [s EXCEPT !.drop.rows = rows]
    BY <1>5, <1>8
  <2>2. AreTidyDrops(rows) /\ TypedDrops(rows) = TypedDrops(s["drop"].rows)
    BY <1>4, BlankDropAppended
  <2> HIDE DEF rows
  <2>3. Settled(fields', triState) /\ emit(fields') = emit(s)
    BY <1>2, <2>1, <2>2, LinesReplaced
  <2> QED  BY <1>6, <1>8, <2>3
<1>9. CASE fields' = [Posted EXCEPT !.rename.rows = Append(@, BlankRename)] /\ Keeps
  <2> DEFINE rows == Append(s["rename"].rows, BlankRename)
  <2>1. fields' = [s EXCEPT !.rename.rows = rows]
    BY <1>5, <1>9
  <2>2. AreTidyRenames(rows) /\ TypedRenames(rows) = TypedRenames(s["rename"].rows)
    BY <1>4, BlankRenameAppended
  <2> HIDE DEF rows
  <2>3. Settled(fields', triState) /\ emit(fields') = emit(s)
    BY <1>2, <2>1, <2>2, LinesReplaced
  <2> QED  BY <1>6, <1>9, <2>3
<1>10. ASSUME NEW i, fields' = [Posted EXCEPT !.drop.rows = Without(@, i)], Enters(emit(fields'))
       PROVE  EditorInv'
  <2> DEFINE rows == Without(s["drop"].rows, i)
  <2>1. fields' = [s EXCEPT !.drop.rows = rows]
    BY <1>5, <1>10
  <2>2. AreTidyDrops(rows)
    BY <1>4, LineTakenOut
  <2> HIDE DEF rows
  <2>3. Settled(fields', triState)
    BY <1>2, <2>1, <2>2, LinesReplaced
  <2> QED  BY <1>7, <1>10, <2>3
<1>11. ASSUME NEW i, fields' = [Posted EXCEPT !.rename.rows = Without(@, i)], Enters(emit(fields'))
       PROVE  EditorInv'
  <2> DEFINE rows == Without(s["rename"].rows, i)
  <2>1. fields' = [s EXCEPT !.rename.rows = rows]
    BY <1>5, <1>11
  <2>2. AreTidyRenames(rows)
    BY <1>4, LineTakenOut
  <2> HIDE DEF rows
  <2>3. Settled(fields', triState)
    BY <1>2, <2>1, <2>2, LinesReplaced
  <2> QED  BY <1>7, <1>11, <2>3
<1> QED  BY <1>8, <1>9, <1>10, <1>11 DEF pipeline_rows

\* Typing in the fields enters what they emit.
LEMMA type_fields_Sound ==
  ASSUME EditorInv, type_fields
  PROVE  EditorInv'
<1>1. mode = "builder" /\ mode' = "builder" /\ triState' = triState /\ meant' = emit(from_form(fields', triState))
  BY DEF type_fields, Enters
<1>2. IsPage(fields)
  BY <1>1 DEF EditorInv, SoundPage
<1>0. PICK k \in DOMAIN Edits : \E v \in Edits[k] : fields' = [fields EXCEPT ![k] = v]
  BY DEF type_fields
<1>3. PICK v \in Edits[k] : fields' = [fields EXCEPT ![k] = v]
  BY <1>0
<1>4. IsField(k, v)
  BY FormAssumption
<1>5. IsPage(fields')
  BY <1>2, <1>3, <1>4 DEF IsPage
<1>6. IsDocument(meant')
  BY <1>1, <1>5, PostedSettles
<1>7. Promised(meant', controlled') => Intact(meant', emit(from_form(fields', triState')))
  BY <1>1, SelfIntact
<1>8. SoundPage("builder", fields', text', triState', meant', controlled')
  BY <1>5, <1>6, <1>7, SoundBuilder
<1> QED  BY <1>1, <1>8 DEF EditorInv

\* Typing in the textarea enters its text.
LEMMA type_raw_Sound ==
  ASSUME EditorInv, type_raw
  PROVE  EditorInv'
<1>1. mode = "raw" /\ mode' = "raw" /\ triState' = triState /\ meant' = text' /\ text' \in TypedDocs \cup {Unparsable}
  BY DEF type_raw, Enters
<1>2. IsDocument(Unparsable)
  <2> DEFINE d == [unparsable |-> TRUE]
  <2>1. DOMAIN d = {"unparsable"}
    OBVIOUS
  <2> HIDE DEF d
  <2>2. \A k \in DOMAIN d : IsSection(k, d[k])
    BY <2>1 DEF IsSection
  <2>3. IsOption(Some(d)) /\ \A x \in Some(d) : x = d
    BY ValueOfSome DEF IsOption, Some
  <2>4. IsDocument(Some(d))
    BY <2>2, <2>3 DEF IsDocument
  <2> QED  BY <2>4 DEF Unparsable, d
<1>3. IsDocument(text')
  BY <1>1, <1>2, FormAssumption
<1>4. triState' = FALSE
  BY <1>1 DEF EditorInv, SoundPage
<1>5. SoundPage("raw", fields', text', triState', meant', controlled')
  BY <1>1, <1>3, <1>4, SelfIntact, SoundRaw
<1> QED  BY <1>1, <1>5 DEF EditorInv

\* A save opens the form on what it stored; what is rejected was not promised.
LEMMA save_form_Sound ==
  ASSUME ProfileForm, EditorInv, save_form
  PROVE  EditorInv'
<1> DEFINE doc == pipeline_from_form
<1>1. /\ Keeps
      /\ IF Accepts(doc) THEN Opens(doc)
         ELSE IF mode = "builder" THEN Builds(Posted, ProfileForm) ELSE Shows(text)
  BY DEF save_form
<1>2. doc = FormDoc(mode, fields, text, triState)
  BY DEF pipeline_from_form, FormDoc, Posted
<1>3. meant' = meant /\ IsDocument(meant') /\ IsDocument(doc)
  BY <1>1, <1>2, FormDocument DEF Keeps, EditorInv, SoundPage
<1>4. Promised(meant', controlled') => Intact(meant', doc) /\ Showable(doc)
  BY <1>1, <1>2, <1>3, KeepsPromise DEF EditorInv, SoundPage
<1>5. ProfileForm = TRUE
  BY FormAssumption
<1> HIDE DEF doc
<1>6. CASE Accepts(doc) /\ Raw(doc)
  <2>1. mode' = "raw" /\ text' = doc /\ triState' = FALSE
    BY <1>1, <1>6 DEF Opens, Shows
  <2>2. SoundPage("raw", fields', doc, triState', meant', controlled')
    BY <1>3, <1>4, <2>1, SoundRaw
  <2> QED  BY <2>1, <2>2 DEF EditorInv
<1>7. CASE Accepts(doc) /\ ~Raw(doc)
  <2>1. mode' = "builder" /\ fields' = ingest(doc) /\ triState' = TRUE
    BY <1>1, <1>5, <1>7 DEF Opens, Builds
  <2>2. IsPage(fields')
    BY <1>3, <2>1, IngestIsPage
  <2>3. Promised(meant', controlled') => Intact(meant', emit(from_form(fields', triState')))
    BY <1>3, <1>4, <1>7, <2>1, OpenedIntact
  <2>4. SoundPage("builder", fields', text', triState', meant', controlled')
    BY <1>3, <2>2, <2>3, SoundBuilder
  <2> QED  BY <2>1, <2>4 DEF EditorInv
<1>8. CASE ~Accepts(doc) /\ mode = "builder"
  <2>1. mode' = "builder" /\ fields' = from_form(fields, triState)
    BY <1>1, <1>8 DEF Builds, Posted
  <2>2. IsPage(fields')
    BY <1>8, <2>1, FromFormIsPage DEF EditorInv, SoundPage
  <2>3. ~Promised(meant', controlled')
    BY <1>4, <1>8 DEF Intact
  <2>4. SoundPage("builder", fields', text', triState', meant', controlled')
    BY <1>3, <2>2, <2>3, SoundBuilder
  <2> QED  BY <2>1, <2>4 DEF EditorInv
<1>9. CASE ~Accepts(doc) /\ mode # "builder"
  <2>1. mode' = "raw" /\ text' = text /\ triState' = FALSE
    BY <1>1, <1>9 DEF Shows
  <2>2. IsDocument(text')
    BY <1>9, <2>1 DEF EditorInv, SoundPage
  <2>3. ~Promised(meant', controlled')
    BY <1>4, <1>9 DEF Intact
  <2>4. SoundPage("raw", fields', text', triState', meant', controlled')
    BY <1>3, <2>1, <2>2, <2>3, SoundRaw
  <2> QED  BY <2>1, <2>4 DEF EditorInv
<1> QED  BY <1>6, <1>7, <1>8, <1>9

\* And nothing happens between the requests.
LEMMA EditorStutters ==
  ASSUME EditorInv, UNCHANGED editorVars
  PROVE  EditorInv'
  BY DEF EditorInv, editorVars

-----------------------------------------------------------------------------
(* Results.                                                                 *)

\* The invariant of the panel holds from any sound database on.
LEMMA PanelInvariant == PanelSpec => []PanelInv
<1>1. PanelInit => PanelInv
  <2> SUFFICES ASSUME PanelInit PROVE PanelInv
    OBVIOUS
  <2>1. Sound(db)
    BY PanelAssumption DEF PanelInit, Sound
  <2>2. WorkOK(db, Idle)
    BY DEF WorkOK, SourceWorkOK, ProfileWorkOK, ImportOK, ExportOK, Exporting, Idle
  <2> QED  BY <2>1, <2>2 DEF PanelInit, PanelInv
<1>2. PanelInv /\ [PanelNext]_panelVars => PanelInv'
  <2> SUFFICES ASSUME PanelInv, [PanelNext]_panelVars PROVE PanelInv'
    OBVIOUS
  <2>1. CASE UNCHANGED panelVars
    BY <2>1 DEF panelVars, PanelInv
  <2>2. CASE PanelNext
    <3>1. PICK o \in Operators :
            \/ source_edit_form(o) \/ source_update_validated(o) \/ source_written(o)
            \/ source_create(o) \/ source_toggle(o) \/ source_delete(o)
            \/ profile_edit_form(o) \/ profile_update_validated(o) \/ profile_written(o) \/ composition_written(o)
            \/ profile_create(o) \/ profile_toggle(o) \/ profile_toggled(o) \/ profile_delete(o)
            \/ export_config(o) \/ profiles_listed(o) \/ composition_read(o)
            \/ import_submit(o) \/ apply_import(o)
      BY <2>2 DEF PanelNext
    <3>2. CASE source_edit_form(o) \/ source_update_validated(o) \/ source_written(o)
               \/ source_create(o) \/ source_toggle(o) \/ source_delete(o)
      BY <3>2, source_edit_form_Keeps, source_update_validated_Keeps, source_written_Keeps,
         source_create_Keeps, source_toggle_Keeps, source_delete_Keeps
    <3>3. CASE profile_edit_form(o) \/ profile_update_validated(o) \/ profile_written(o) \/ composition_written(o)
               \/ profile_create(o) \/ profile_toggle(o) \/ profile_toggled(o) \/ profile_delete(o)
      BY <3>3, profile_edit_form_Keeps, profile_update_validated_Keeps, profile_written_Keeps,
         composition_written_Keeps, profile_create_Keeps, profile_toggle_Keeps, profile_toggled_Keeps,
         profile_delete_Keeps
    <3>4. CASE export_config(o) \/ profiles_listed(o) \/ composition_read(o) \/ import_submit(o) \/ apply_import(o)
      BY <3>4, export_config_Keeps, profiles_listed_Keeps, composition_read_Keeps, import_submit_Keeps,
         apply_import_Keeps
    <3> QED  BY <3>1, <3>2, <3>3, <3>4
  <2> QED  BY <2>1, <2>2
<1> QED  BY <1>1, <1>2, PTL DEF PanelSpec

-----------------------------------------------------------------------------
(* Settings: what the form posts, the file holds and the loader makes of it *)
(* stays in the types of the registry.                                      *)

\* What the values are made of.
LEMMA Values ==
  /\ \A x : DOMAIN Num(x) = {"n"} /\ DOMAIN Str(x) = {"s"} /\ DOMAIN Flag(x) = {"b"} /\ DOMAIN List(x) = {"l"}
  /\ \A x, y : DOMAIN Rate(x, y) = {"n", "w"} /\ DOMAIN Written(x, y) = {"n", "u"}
  /\ DOMAIN Junk = {"s"}
  BY DEF Num, Str, Flag, List, Rate, Written, Junk

\* The five shapes.
LEMMA Shapes ==
  ASSUME NEW kind
  PROVE  /\ kind = "int" => WrittenShape(kind) = {"n"} /\ ConfigShape(kind) = {"n"}
         /\ kind = "bool" => WrittenShape(kind) = {"b"} /\ ConfigShape(kind) = {"b"}
         /\ kind = "rate" => WrittenShape(kind) = {"n", "u"} /\ ConfigShape(kind) = {"n", "w"}
         /\ kind \in {"cidrs", "list", "ladder", "urls"} => WrittenShape(kind) = {"l"} /\ ConfigShape(kind) = {"l"}
         /\ kind \notin {"int", "bool", "rate", "cidrs", "list", "ladder", "urls"}
              => WrittenShape(kind) = {"s"} /\ ConfigShape(kind) = {"s"}
<1>1. kind = "int" => WrittenShape(kind) = {"n"}
  BY DEF WrittenShape
<1>2. kind = "bool" => WrittenShape(kind) = {"b"}
  BY DEF WrittenShape
<1>3. kind = "rate" => WrittenShape(kind) = {"n", "u"}
  BY DEF WrittenShape
<1>4. kind \in {"cidrs", "list", "ladder", "urls"} => WrittenShape(kind) = {"l"}
  BY DEF WrittenShape
<1>5. kind \notin {"int", "bool", "rate", "cidrs", "list", "ladder", "urls"} => WrittenShape(kind) = {"s"}
  BY DEF WrittenShape
<1> QED  BY <1>1, <1>2, <1>3, <1>4, <1>5 DEF ConfigShape

IsConfig(c) == DOMAIN c = Keys /\ \A k \in Keys : DOMAIN c[k] = ConfigShape(Fields[k])
IsForm(raw) == DOMAIN raw = Keys /\ IsWritten(raw)

\* The built-in defaults are a configuration.
LEMMA DefaultsAreConfig == IsConfig(Defaults)
<1>1. DOMAIN Defaults = Keys
  BY DEF Defaults
<1>2. ASSUME NEW k \in Keys PROVE DOMAIN Defaults[k] = ConfigShape(Fields[k])
  <2> DEFINE kind == Fields[k]
  <2>1. /\ kind = "int" => Defaults[k] = Num(DefaultNumbers[k])
        /\ kind = "rate" => Defaults[k] = Rate(HitsPerMinute[k], 60)
        /\ kind = "bool" => Defaults[k] = Flag(k \in Switched)
        /\ kind \in {"cidrs", "list", "ladder", "urls"} => \E x : Defaults[k] = List(x)
        /\ kind \notin {"int", "bool", "rate", "cidrs", "list", "ladder", "urls"} => \E x : Defaults[k] = Str(x)
    BY DEF Defaults
  <2> HIDE DEF kind
  <2>2. DOMAIN Defaults[k] = ConfigShape(kind)
    <3>1. CASE kind = "int"
      <4>1. Defaults[k] = Num(DefaultNumbers[k])
        BY <2>1, <3>1
      <4> QED  BY <3>1, <4>1, Shapes, Values
    <3>2. CASE kind = "bool"
      <4>1. Defaults[k] = Flag(k \in Switched)
        BY <2>1, <3>2
      <4> QED  BY <3>2, <4>1, Shapes, Values
    <3>3. CASE kind = "rate"
      <4>1. Defaults[k] = Rate(HitsPerMinute[k], 60)
        BY <2>1, <3>3
      <4> QED  BY <3>3, <4>1, Shapes, Values
    <3>4. CASE kind \in {"cidrs", "list", "ladder", "urls"}
      <4>1. PICK x : Defaults[k] = List(x)
        BY <2>1, <3>4
      <4> QED  BY <3>4, <4>1, Shapes, Values
    <3>5. CASE kind \notin {"int", "bool", "rate", "cidrs", "list", "ladder", "urls"}
      <4>1. PICK x : Defaults[k] = Str(x)
        BY <2>1, <3>5
      <4>2. DOMAIN Defaults[k] = {"s"} /\ ConfigShape(kind) = {"s"}
        BY <3>5, <4>1, Shapes, Values
      <4> QED  BY <4>2
    <3> QED  BY <3>1, <3>2, <3>3, <3>4, <3>5
  <2> QED  BY <2>2 DEF kind
<1> QED  BY <1>1, <1>2 DEF IsConfig

\* The loader makes a configuration of what the file and the environment say.
LEMMA LoadedShape ==
  ASSUME NEW k \in Keys, NEW v, DOMAIN v = WrittenShape(Fields[k])
  PROVE  DOMAIN Loaded(k, v) = ConfigShape(Fields[k])
<1> DEFINE kind == Fields[k]
<1>1. /\ kind = "urls" => Loaded(k, v) = List(FlattenSeq(v.l))
      /\ kind = "rate" => Loaded(k, v) = Rate(v.n, Window(v.u))
      /\ kind \notin {"urls", "rate"} => Loaded(k, v) = v
  BY DEF Loaded
<1>2. kind # "rate" => ConfigShape(kind) = WrittenShape(kind)
  BY DEF ConfigShape
<1> HIDE DEF kind
<1>3. DOMAIN v = WrittenShape(kind)
  BY DEF kind
<1>4. DOMAIN Loaded(k, v) = ConfigShape(kind)
  BY <1>1, <1>2, <1>3, Shapes, Values
<1> QED  BY <1>4 DEF kind

LEMMA MergedIsConfig ==
  ASSUME NEW doc, IsWritten(doc), NEW e, IsWritten(e)
  PROVE  IsConfig(merged(doc, e))
<1> DEFINE set == Layers(doc, e)
<1>1. \A k \in DOMAIN set : DOMAIN set[k] = WrittenShape(Fields[k])
  BY Over DEF Layers, IsWritten
<1>2. merged(doc, e) = [k \in Keys |-> IF k \in DOMAIN set THEN Loaded(k, set[k]) ELSE Defaults[k]]
  BY DEF merged
<1> HIDE DEF set
<1>3. ASSUME NEW k \in Keys PROVE DOMAIN merged(doc, e)[k] = ConfigShape(Fields[k])
  <2>1. CASE k \in DOMAIN set
    BY <1>1, <1>2, <2>1, LoadedShape
  <2>2. CASE k \notin DOMAIN set
    BY <1>2, <2>2, DefaultsAreConfig DEF IsConfig
  <2> QED  BY <2>1, <2>2
<1> QED  BY <1>2, <1>3 DEF IsConfig

\* A form shows a configuration in the shapes a form has.
LEMMA FormOfConfig ==
  ASSUME NEW c, IsConfig(c)
  PROVE  IsForm(raw_from_config(c))
<1> DEFINE raw == raw_from_config(c)
<1>1. DOMAIN raw = Keys
  BY DEF raw_from_config
<1>2. ASSUME NEW k \in Keys PROVE DOMAIN raw[k] = WrittenShape(Fields[k])
  <2> DEFINE kind == Fields[k]
  <2>1. /\ kind = "token" => \E x : raw[k] = Str(x)
        /\ kind = "rate" => raw[k] = Written(c[k].n, UnitOf(c[k].w))
        /\ kind = "urls" => \E x : raw[k] = List(x)
        /\ kind \notin {"token", "rate", "urls"} => raw[k] = c[k]
    BY DEF raw_from_config
  <2>2. kind # "rate" => DOMAIN c[k] = WrittenShape(kind)
    BY DEF IsConfig, ConfigShape
  <2> HIDE DEF kind, raw
  <2>3. DOMAIN raw[k] = WrittenShape(kind)
    <3>1. CASE kind = "int"
      BY <2>1, <2>2, <3>1, Shapes, Values
    <3>2. CASE kind = "bool"
      BY <2>1, <2>2, <3>2, Shapes, Values
    <3>3. CASE kind = "rate"
      BY <2>1, <2>2, <3>3, Shapes, Values
    <3>4. CASE kind \in {"cidrs", "list", "ladder", "urls"}
      BY <2>1, <2>2, <3>4, Shapes, Values
    <3>5. CASE kind \notin {"int", "bool", "rate", "cidrs", "list", "ladder", "urls"}
      BY <2>1, <2>2, <3>5, Shapes, Values
    <3> QED  BY <3>1, <3>2, <3>3, <3>4, <3>5
  <2> QED  BY <2>3 DEF kind
<1> QED  BY <1>1, <1>2 DEF IsForm, IsWritten

\* The copy that Create writes sets every key in its shape.
LEMMA ReferenceIsWritten == IsWritten(REFERENCE_CONFIG)
<1>1. DOMAIN REFERENCE_CONFIG = Keys
  BY DEF REFERENCE_CONFIG
<1>2. ASSUME NEW k \in Keys PROVE DOMAIN REFERENCE_CONFIG[k] = WrittenShape(Fields[k])
  <2> DEFINE kind == Fields[k]
  <2>1. /\ kind = "rate" => REFERENCE_CONFIG[k] = Written(Defaults[k].n, "min")
        /\ kind = "urls" => REFERENCE_CONFIG[k] = List(<< <<"u3">> >>)
        /\ kind = "ladder" => REFERENCE_CONFIG[k] = List(<<900>>)
        /\ kind \notin {"rate", "urls", "ladder"} => REFERENCE_CONFIG[k] = Defaults[k]
    BY DEF REFERENCE_CONFIG
  <2>2. kind # "rate" => DOMAIN Defaults[k] = WrittenShape(kind)
    BY DefaultsAreConfig DEF IsConfig, ConfigShape
  <2> HIDE DEF kind
  <2>3. DOMAIN REFERENCE_CONFIG[k] = WrittenShape(kind)
    <3>1. CASE kind = "int"
      BY <2>1, <2>2, <3>1, Shapes, Values
    <3>2. CASE kind = "bool"
      BY <2>1, <2>2, <3>2, Shapes, Values
    <3>3. CASE kind = "rate"
      BY <2>1, <2>2, <3>3, Shapes, Values
    <3>4. CASE kind \in {"cidrs", "list", "ladder", "urls"}
      BY <2>1, <2>2, <3>4, Shapes, Values
    <3>5. CASE kind \notin {"int", "bool", "rate", "cidrs", "list", "ladder", "urls"}
      BY <2>1, <2>2, <3>5, Shapes, Values
    <3> QED  BY <3>1, <3>2, <3>3, <3>4, <3>5
  <2> QED  BY <2>3 DEF kind
<1> QED  BY <1>1, <1>2 DEF IsWritten

\* What a field accepts has its shape, but for a number with blanks around it: the texts
\* no field parses are refused where a text is not what is asked for.
LEMMA AcceptedShape ==
  ASSUME NEW k \in Keys, NEW v \in Inputs(k), ~Refused(k, v)
  PROVE  Fields[k] = "int" \/ DOMAIN v = WrittenShape(Fields[k])
<1> DEFINE kind == Fields[k]
<1>1. CASE kind = "int"
  BY <1>1
<1>2. CASE kind = "rate"
  <2>1. v = Junk \/ \E n, u : v = Written(n, u)
    BY <1>2 DEF Inputs
  <2>2. v # Junk
    BY <1>2 DEF Refused
  <2> QED  BY <1>2, <2>1, <2>2, Shapes, Values
<1>3. CASE kind = "bool"
  <2>1. v = Junk \/ \E x : v = Flag(x)
    BY <1>3 DEF Inputs
  <2>2. v # Junk
    BY <1>3 DEF Refused
  <2> QED  BY <1>3, <2>1, <2>2, Shapes, Values
<1>4. CASE kind \in {"cidrs", "list", "ladder", "urls"}
  <2>1. v = Junk \/ \E x : v = List(x)
    BY <1>4 DEF Inputs
  <2>2. v # Junk
    <3>1. CASE kind = "ladder"
      BY <3>1 DEF Refused
    <3>2. CASE kind # "ladder"
      <4>1. \E x : v = List(x)
        BY <1>4, <3>2 DEF Inputs
      <4> QED  BY <4>1, Values
    <3> QED  BY <3>1, <3>2
  <2> QED  BY <1>4, <2>1, <2>2, Shapes, Values
<1>5. CASE kind \notin {"int", "bool", "rate", "cidrs", "list", "ladder", "urls"}
  <2>1. v = Junk \/ \E x : v = Str(x)
    BY <1>5 DEF Inputs
  <2> QED  BY <1>5, <2>1, Shapes, Values
<1> QED  BY <1>1, <1>2, <1>3, <1>4, <1>5

\* What an accepted field writes has its shape.
LEMMA StoredShape ==
  ASSUME NEW k \in Keys, NEW v, Fields[k] = "int" \/ DOMAIN v = WrittenShape(Fields[k])
  PROVE  DOMAIN StoredAs(k, v) = WrittenShape(Fields[k])
<1> DEFINE kind == Fields[k]
<1>1. CASE kind = "rate"
  <2>1. StoredAs(k, v) = Written(v.n, unit_for_secs(Window(v.u)))
    BY <1>1 DEF StoredAs
  <2>2. WrittenShape(kind) = {"n", "u"}
    BY <1>1, Shapes
  <2> QED  BY <2>1, <2>2, Values
<1>2. CASE kind = "int"
  <2>1. StoredAs(k, v) = Num(v.n)
    BY <1>2 DEF StoredAs
  <2>2. WrittenShape(kind) = {"n"}
    BY <1>2, Shapes
  <2> QED  BY <2>1, <2>2, Values
<1>3. CASE kind \notin {"rate", "int"}
  <2>1. StoredAs(k, v) = v
    BY <1>3 DEF StoredAs
  <2> QED  BY <1>3, <2>1
<1> QED  BY <1>1, <1>2, <1>3

\* A posted form: registered keys, each with what was rendered or typed.
IsPosted(raw) == DOMAIN raw \subseteq Keys
                   /\ \A k \in DOMAIN raw : raw[k] \in Inputs(k) \/ DOMAIN raw[k] = WrittenShape(Fields[k])

LEMMA SubmissionsArePosted ==
  ASSUME NEW o \in Tabs, IsForm(tab[o].raw), NEW raw \in Submissions(o)
  PROVE  IsPosted(raw)
<1> DEFINE form == tab[o].raw
<1>0. Touches[o] \subseteq Keys
  BY SettingsAssumption
<1>1. /\ DOMAIN form = Keys /\ \A k \in Keys : DOMAIN form[k] = WrittenShape(Fields[k])
  BY DEF IsForm, IsWritten
<1>2. \/ raw = form
      \/ \E k \in Touches[o] : \E v \in Inputs(k) : raw = Maplet(k, v) ++ form
      \/ \E k \in Touches[o] : raw = [q \in Keys \ {k} |-> form[q]]
  <2>1. raw = form \/ raw \in Changed(form, Touches[o]) \/ raw \in Lacking(form, Touches[o] \cap Omits)
    BY DEF Submissions
  <2> HIDE DEF form
  <2>2. raw \in Changed(form, Touches[o]) => \E k \in Touches[o] : \E v \in Inputs(k) : raw = Maplet(k, v) ++ form
    BY Zenon DEF Changed
  <2>3. raw \in Lacking(form, Touches[o] \cap Omits) => \E k \in Touches[o] : raw = [q \in Keys \ {k} |-> form[q]]
    BY Zenon DEF Lacking
  <2> QED  BY <2>1, <2>2, <2>3, Zenon
<1> HIDE DEF form
<1>3. CASE raw = form
  BY <1>1, <1>3 DEF IsPosted
<1>4. ASSUME NEW k \in Touches[o], NEW v \in Inputs(k), raw = Maplet(k, v) ++ form
      PROVE  IsPosted(raw)
  <2>1. DOMAIN raw \subseteq Keys
    BY <1>0, <1>1, <1>4, Over, MapletKey
  <2>2. ASSUME NEW q \in DOMAIN raw PROVE raw[q] \in Inputs(q) \/ DOMAIN raw[q] = WrittenShape(Fields[q])
    <3>1. CASE q = k
      <4>1. raw[q] = v
        BY <1>4, <3>1, Over, MapletKey
      <4> QED  BY <1>4, <3>1, <4>1
    <3>2. CASE q # k
      <4>1. q \in Keys /\ raw[q] = form[q]
        BY <1>1, <1>4, <2>1, <3>2, Over, MapletKey
      <4> QED  BY <1>1, <4>1
    <3> QED  BY <3>1, <3>2
  <2> QED  BY <2>1, <2>2 DEF IsPosted
<1>5. ASSUME NEW k \in Touches[o], raw = [q \in Keys \ {k} |-> form[q]]
      PROVE  IsPosted(raw)
  BY <1>1, <1>5 DEF IsPosted
<1> QED  BY <1>2, <1>3, <1>4, <1>5

\* What a form that is not refused commits is a document again.
LEMMA AppliedIsWritten ==
  ASSUME NEW raw, IsPosted(raw), ~apply_errors(raw), NEW doc, IsWritten(doc)
  PROVE  IsWritten(apply_all(raw, doc))
<1> DEFINE all == Carried(raw)
           mine == [k \in KeysWritten(all) |-> StoredAs(k, all[k])]
<1>1. DOMAIN Unticked \subseteq Keys /\ \A k \in DOMAIN Unticked : DOMAIN Unticked[k] = WrittenShape(Fields[k])
  <2>1. ASSUME NEW k \in DOMAIN Unticked PROVE k \in Keys /\ DOMAIN Unticked[k] = WrittenShape(Fields[k])
    <3>1. k \in Keys /\ Fields[k] = "bool" /\ Unticked[k] = Flag(FALSE)
      BY DEF Unticked
    <3>2. WrittenShape(Fields[k]) = {"b"}
      BY <3>1, Shapes
    <3> QED  BY <3>1, <3>2, Values
  <2> QED  BY <2>1
<1>2. DOMAIN all \subseteq Keys
  BY <1>1, Over DEF Carried, IsPosted
<1>3. ASSUME NEW k \in DOMAIN all PROVE Fields[k] = "int" \/ DOMAIN all[k] = WrittenShape(Fields[k])
  <2>1. ~Refused(k, all[k])
    BY DEF apply_errors
  <2>2. \/ k \in DOMAIN raw /\ all[k] = raw[k]
        \/ k \in DOMAIN Unticked /\ all[k] = Unticked[k]
    BY Over DEF Carried
  <2> HIDE DEF all
  <2>3. CASE k \in DOMAIN raw /\ all[k] = raw[k]
    BY <2>1, <2>3, AcceptedShape DEF IsPosted
  <2>4. CASE k \in DOMAIN Unticked /\ all[k] = Unticked[k]
    BY <1>1, <2>4
  <2> QED  BY <2>2, <2>3, <2>4
<1>4. KeysWritten(all) \subseteq DOMAIN all
  BY DEF KeysWritten
<1>5. apply_all(raw, doc) = mine ++ doc
  BY DEF apply_all
<1> HIDE DEF all
<1>6. DOMAIN mine \subseteq Keys /\ \A k \in DOMAIN mine : DOMAIN mine[k] = WrittenShape(Fields[k])
  BY <1>2, <1>3, <1>4, StoredShape
<1> HIDE DEF mine
<1> QED  BY <1>5, <1>6, Over DEF IsWritten

(* What every step of the tabs and of the server keeps: written values have *)
(* the shape of their kind, and one tab at most is between load and commit.  *)

Committing == {"save", "direct"}
TabSteps == {"idle", "form", "save", "direct", "revoke", "refresh", "swap", "create"}
TabOK(t) == /\ DOMAIN t = {"pc", "raw", "doc", "held"} /\ t.pc \in TabSteps
            /\ t.pc = "form" => IsForm(t.raw)
            /\ t.pc \in Committing => IsWritten(t.doc)
            /\ t.pc = "swap" => IsConfig(t.held)
FileOK(f) == f.st \in {"absent", "ok", "torn"} /\ IsWritten(f.doc)
OneWriter(tabs) == \A o, p \in Tabs : tabs[o].pc \in Committing /\ tabs[p].pc \in Committing => o = p
TabsOK(tabs) == DOMAIN tabs = Tabs /\ (\A o \in Tabs : TabOK(tabs[o])) /\ OneWriter(tabs)
SettingsInv == /\ FileOK(app_toml) /\ IsWritten(env) /\ IsConfig(live_config)
               /\ epoch \in Nat /\ up \in BOOLEAN /\ TabsOK(tab)

LEMMA FilesOK == /\ FileOK(Torn) /\ FileOK(Absent)
                 /\ \A doc : IsWritten(doc) => FileOK(Whole(doc))
  BY DEF FileOK, Torn, Absent, Whole, IsWritten, NoKeys

LEMMA IdleOK == TabOK(IdleTab) /\ IdleTab.pc = "idle" /\ DOMAIN IdleTab = {"pc", "raw", "doc", "held"}
  BY DEF TabOK, IdleTab, TabSteps, Committing

\* One tab takes a step: it alone may come to write.
LEMMA OneTabMoves ==
  ASSUME NEW tabs, TabsOK(tabs), NEW o \in Tabs, NEW t, TabOK(t),
         t.pc \in Committing => tabs[o].pc \in Committing \/ \A p \in Tabs : tabs[p].pc \notin Committing
  PROVE  TabsOK([tabs EXCEPT ![o] = t])
<1> DEFINE new == [tabs EXCEPT ![o] = t]
<1>1. DOMAIN new = Tabs /\ new[o] = t /\ \A p \in Tabs : p # o => new[p] = tabs[p]
  BY DEF TabsOK
<1> HIDE DEF new
<1>2. OneWriter(new)
  BY <1>1 DEF OneWriter, TabsOK
<1>3. \A p \in Tabs : TabOK(new[p])
  BY <1>1 DEF TabsOK
<1>4. TabsOK(new)
  BY <1>1, <1>2, <1>3 DEF TabsOK
<1> QED  BY <1>4 DEF new

LEMMA SettingsStart == SettingsInit => SettingsInv
<1> SUFFICES ASSUME SettingsInit PROVE SettingsInv
  OBVIOUS
<1>1. PICK start \in FirstStarts : app_toml = start[1] /\ env = start[2]
  BY DEF SettingsInit
<1>2. FileOK(app_toml) /\ IsWritten(env)
  BY <1>1, SettingsAssumption DEF FileOK
<1>3. IsConfig(live_config)
  BY <1>2, MergedIsConfig DEF FileOK, SettingsInit
<1>4. TabsOK(tab)
  <2>1. tab = [o \in Tabs |-> IdleTab]
    BY DEF SettingsInit
  <2>2. \A o \in Tabs : TabOK(tab[o]) /\ tab[o].pc = "idle"
    BY <2>1, IdleOK
  <2> QED  BY <2>1, <2>2 DEF TabsOK, OneWriter, Committing
<1>5. epoch \in Nat /\ up \in BOOLEAN
  BY DEF SettingsInit
<1> QED  BY <1>2, <1>3, <1>4, <1>5 DEF SettingsInv

LEMMA settings_edit_Keeps ==
  ASSUME SettingsInv, NEW o \in Tabs, settings_edit(o)
  PROVE  SettingsInv'
<1> DEFINE c == IF FileLoads(app_toml, env) THEN merged(app_toml.doc, env) ELSE live_config
           t == [IdleTab EXCEPT !.pc = "form", !.raw = raw_from_config(c)]
<1>1. tab' = [tab EXCEPT ![o] = t] /\ UNCHANGED <<app_toml, env, up, live_config, epoch>>
  BY DEF settings_edit
<1>2. IsConfig(c)
  BY MergedIsConfig DEF SettingsInv, FileOK
<1> HIDE DEF c
<1>3. IsForm(raw_from_config(c))
  BY <1>2, FormOfConfig
<1>4. TabOK(t) /\ t.pc = "form"
  BY <1>3, IdleOK DEF TabOK, TabSteps, Committing
<1> HIDE DEF t
<1>5. TabsOK(tab')
  BY <1>1, <1>4, OneTabMoves DEF SettingsInv, Committing
<1> QED  BY <1>1, <1>5 DEF SettingsInv

LEMMA settings_update_Keeps ==
  ASSUME SettingsInv, NEW o \in Tabs, settings_update(o)
  PROVE  SettingsInv'
<1>1. PICK raw \in Submissions(o) :
        IF ~writable \/ app_toml.st = "torn" \/ apply_errors(raw)
        THEN tab' = [tab EXCEPT ![o] = IdleTab]
        ELSE tab' = [tab EXCEPT ![o] = [IdleTab EXCEPT !.pc = "save", !.raw = TokenOf(raw),
                                          !.doc = apply_all(raw, app_toml.doc)]]
  BY DEF settings_update
<1>2. UNCHANGED <<app_toml, env, up, live_config, epoch>> /\ tab[o].pc = "form" /\ LockFree
  BY DEF settings_update
<1>3. CASE tab' = [tab EXCEPT ![o] = IdleTab]
  <2>1. TabsOK(tab')
    BY <1>3, IdleOK, OneTabMoves DEF SettingsInv, Committing
  <2> QED  BY <1>2, <2>1 DEF SettingsInv
<1>4. CASE ~apply_errors(raw) /\ tab' = [tab EXCEPT ![o] = [IdleTab EXCEPT !.pc = "save", !.raw = TokenOf(raw),
                                          !.doc = apply_all(raw, app_toml.doc)]]
  <2> DEFINE doc == apply_all(raw, app_toml.doc)
             t == [IdleTab EXCEPT !.pc = "save", !.raw = TokenOf(raw), !.doc = doc]
  <2>1. IsForm(tab[o].raw) /\ IsWritten(app_toml.doc)
    BY <1>2 DEF SettingsInv, TabsOK, TabOK, FileOK
  <2>2. IsWritten(doc)
    BY <1>4, <2>1, SubmissionsArePosted, AppliedIsWritten
  <2> HIDE DEF doc
  <2>3. TabOK(t)
    BY <2>2, IdleOK DEF TabOK, TabSteps, Committing
  <2>4. \A p \in Tabs : tab[p].pc \notin Committing
    BY <1>2 DEF LockFree, Committing
  <2>5. tab' = [tab EXCEPT ![o] = t]
    BY <1>4 DEF doc
  <2> HIDE DEF t
  <2>6. TabsOK(tab')
    BY <2>3, <2>4, <2>5, OneTabMoves DEF SettingsInv
  <2> QED  BY <1>2, <2>6 DEF SettingsInv
<1> QED  BY <1>1, <1>3, <1>4

\* The rest of a request, which has its document written or gives up.
LEMMA FinishKeeps ==
  ASSUME SettingsInv, NEW o \in Tabs, tab[o].pc \in Committing, Finish(o)
  PROVE  TabsOK(tab') /\ tab'[o].pc = "revoke"
<1> DEFINE t == [tab[o] EXCEPT !.pc = "revoke", !.doc = NoKeys]
<1>1. tab' = [tab EXCEPT ![o] = t]
  BY DEF Finish
<1>2. TabOK(t) /\ t.pc = "revoke"
  BY DEF SettingsInv, TabsOK, TabOK, TabSteps, Committing
<1> HIDE DEF t
<1>3. TabsOK(tab')
  BY <1>1, <1>2, OneTabMoves DEF SettingsInv, Committing
<1> QED  BY <1>1, <1>2, <1>3 DEF SettingsInv, TabsOK

LEMMA GivesUpKeeps ==
  ASSUME SettingsInv, NEW o \in Tabs, tab' = [tab EXCEPT ![o] = IdleTab]
  PROVE  TabsOK(tab') /\ tab'[o].pc = "idle"
<1>1. TabsOK(tab')
  BY IdleOK, OneTabMoves DEF SettingsInv, Committing
<1> QED  BY <1>1, IdleOK DEF SettingsInv, TabsOK

LEMMA StepsOnKeeps ==
  ASSUME SettingsInv, NEW o \in Tabs, NEW pc \in TabSteps \ {"form", "swap"}, tab' = [tab EXCEPT ![o].pc = pc],
         pc \in Committing => tab[o].pc \in Committing
  PROVE  TabsOK(tab') /\ tab'[o].pc = pc
<1> DEFINE t == [tab[o] EXCEPT !.pc = pc]
<1>1. tab' = [tab EXCEPT ![o] = t]
  OBVIOUS
<1>2. TabOK(t) /\ t.pc = pc
  BY DEF SettingsInv, TabsOK, TabOK, TabSteps, Committing
<1> HIDE DEF t
<1>3. t.pc \in Committing => tab[o].pc \in Committing
  BY <1>2
<1>4. TabsOK([tab EXCEPT ![o] = t])
  BY <1>2, <1>3, OneTabMoves DEF SettingsInv
<1> QED  BY <1>1, <1>2, <1>4 DEF SettingsInv, TabsOK

\* The commit: what it writes, and that the request moves on.
LEMMA save_Keeps ==
  ASSUME SettingsInv, NEW o \in Tabs, save(o)
  PROVE  SettingsInv' /\ tab[o].pc = "save" /\ tab'[o].pc # "save"
<1>1. /\ tab[o].pc = "save" /\ UNCHANGED <<env, up, live_config, epoch>>
      /\ \/ app_toml' = Whole(tab[o].doc) /\ Finish(o)
         \/ app_toml' = Torn /\ tab' = [tab EXCEPT ![o].pc = "direct"]
         \/ app_toml' = app_toml /\ tab' = [tab EXCEPT ![o] = IdleTab]
  BY DEF save
<1>2. tab[o].pc \in Committing
  BY <1>1 DEF Committing
<1>3. FileOK(app_toml')
  BY <1>1, <1>2, FilesOK DEF SettingsInv, TabsOK, TabOK
<1>4. TabsOK(tab') /\ tab'[o].pc # "save"
  <2>1. CASE Finish(o)
    BY <1>2, <2>1, FinishKeeps
  <2>2. CASE tab' = [tab EXCEPT ![o].pc = "direct"]
    <3>1. "direct" \in TabSteps \ {"form", "swap"} /\ "direct" # "save"
      BY DEF TabSteps
    <3> QED  BY <1>2, <2>2, <3>1, StepsOnKeeps, Zenon
  <2>3. CASE tab' = [tab EXCEPT ![o] = IdleTab]
    BY <2>3, GivesUpKeeps
  <2> QED  BY <1>1, <2>1, <2>2, <2>3
<1> QED  BY <1>1, <1>3, <1>4 DEF SettingsInv

LEMMA direct_write_Keeps ==
  ASSUME SettingsInv, NEW o \in Tabs, direct_write(o)
  PROVE  SettingsInv' /\ tab[o].pc = "direct" /\ tab'[o].pc # "direct"
<1>1. /\ tab[o].pc = "direct" /\ UNCHANGED <<env, up, live_config, epoch>>
      /\ \/ app_toml' = Whole(tab[o].doc) /\ Finish(o)
         \/ app_toml' = app_toml /\ tab' = [tab EXCEPT ![o] = IdleTab]
  BY DEF direct_write
<1>2. tab[o].pc \in Committing
  BY <1>1 DEF Committing
<1>3. FileOK(app_toml')
  BY <1>1, <1>2, FilesOK DEF SettingsInv, TabsOK, TabOK
<1>4. TabsOK(tab') /\ tab'[o].pc # "direct"
  BY <1>1, <1>2, FinishKeeps, GivesUpKeeps
<1> QED  BY <1>1, <1>3, <1>4 DEF SettingsInv

LEMMA revoke_all_sessions_Keeps ==
  ASSUME SettingsInv, NEW o \in Tabs, revoke_all_sessions(o)
  PROVE  SettingsInv'
<1> DEFINE t == [IdleTab EXCEPT !.pc = "refresh"]
<1>1. tab' = [tab EXCEPT ![o] = t] /\ UNCHANGED <<app_toml, env, up, live_config>>
  BY DEF revoke_all_sessions
<1>2. TabOK(t) /\ t.pc = "refresh"
  BY IdleOK DEF TabOK, TabSteps, Committing
<1>3. epoch' \in Nat
  BY DEF revoke_all_sessions, SettingsInv
<1> HIDE DEF t
<1>4. TabsOK(tab')
  BY <1>1, <1>2, OneTabMoves DEF SettingsInv, Committing
<1> QED  BY <1>1, <1>3, <1>4 DEF SettingsInv

LEMMA refresh_live_config_Keeps ==
  ASSUME SettingsInv, NEW o \in Tabs, refresh_live_config(o)
  PROVE  SettingsInv'
<1> DEFINE c == merged(app_toml.doc, env)
           t == [IdleTab EXCEPT !.pc = "swap", !.held = c]
<1>1. UNCHANGED <<app_toml, env, up, live_config, epoch>>
  BY DEF refresh_live_config
<1>2. tab' = [tab EXCEPT ![o] = t] \/ tab' = [tab EXCEPT ![o] = IdleTab]
  BY DEF refresh_live_config
<1>3. IsConfig(c)
  BY MergedIsConfig DEF SettingsInv, FileOK
<1> HIDE DEF c
<1>4. TabOK(t) /\ t.pc = "swap"
  BY <1>3, IdleOK DEF TabOK, TabSteps, Committing
<1> HIDE DEF t
<1>5. TabsOK(tab')
  BY <1>2, <1>4, OneTabMoves, GivesUpKeeps DEF SettingsInv, Committing
<1> QED  BY <1>1, <1>5 DEF SettingsInv

LEMMA swap_live_config_Keeps ==
  ASSUME SettingsInv, NEW o \in Tabs, swap_live_config(o)
  PROVE  SettingsInv'
<1>1. /\ tab[o].pc = "swap" /\ live_config' = tab[o].held /\ tab' = [tab EXCEPT ![o] = IdleTab]
      /\ UNCHANGED <<app_toml, env, up, epoch>>
  BY DEF swap_live_config
<1>2. IsConfig(live_config')
  BY <1>1 DEF SettingsInv, TabsOK, TabOK
<1> QED  BY <1>1, <1>2, GivesUpKeeps DEF SettingsInv

LEMMA settings_create_Keeps ==
  ASSUME SettingsInv, NEW o \in Tabs, settings_create(o)
  PROVE  SettingsInv'
<1>1. tab' = [tab EXCEPT ![o].pc = "create"] /\ UNCHANGED <<app_toml, env, up, live_config, epoch>>
  BY DEF settings_create
<1>2. TabsOK(tab')
  BY <1>1, StepsOnKeeps DEF TabSteps, Committing
<1> QED  BY <1>1, <1>2 DEF SettingsInv

LEMMA create_write_Keeps ==
  ASSUME SettingsInv, NEW o \in Tabs, create_write(o)
  PROVE  SettingsInv' /\ tab[o].pc = "create" /\ tab'[o].pc # "create"
<1>1. /\ tab[o].pc = "create" /\ UNCHANGED <<env, up, live_config, epoch>>
      /\ \/ app_toml' = Whole(REFERENCE_CONFIG) /\ tab' = [tab EXCEPT ![o].pc = "refresh"]
         \/ app_toml' \in {app_toml, Torn} /\ tab' = [tab EXCEPT ![o] = IdleTab]
  BY DEF create_write
<1>2. FileOK(app_toml')
  BY <1>1, FilesOK, ReferenceIsWritten DEF SettingsInv
<1>3. TabsOK(tab') /\ tab'[o].pc # "create"
  <2>1. CASE tab' = [tab EXCEPT ![o].pc = "refresh"]
    <3>1. "refresh" \in TabSteps \ {"form", "swap"} /\ "refresh" \notin Committing /\ "refresh" # "create"
      BY DEF TabSteps, Committing
    <3> QED  BY <2>1, <3>1, StepsOnKeeps, Zenon
  <2>2. CASE tab' = [tab EXCEPT ![o] = IdleTab]
    BY <2>2, GivesUpKeeps
  <2> QED  BY <1>1, <2>1, <2>2
<1> QED  BY <1>1, <1>2, <1>3 DEF SettingsInv

LEMMA ServerStepsKeep ==
  ASSUME SettingsInv, Crash \/ Start
  PROVE  SettingsInv'
<1>1. CASE Crash
  <2>1. tab' = [o \in Tabs |-> IdleTab] /\ up' = FALSE /\ UNCHANGED <<app_toml, env, live_config, epoch>>
    BY <1>1 DEF Crash
  <2>2. \A o \in Tabs : TabOK(tab'[o]) /\ tab'[o].pc = "idle"
    BY <2>1, IdleOK
  <2>3. TabsOK(tab')
    BY <2>1, <2>2 DEF TabsOK, OneWriter, Committing
  <2> QED  BY <2>1, <2>3 DEF SettingsInv
<1>2. CASE Start
  <2>1. live_config' = merged(app_toml.doc, env) /\ up' = TRUE /\ UNCHANGED <<app_toml, env, tab, epoch>>
    BY <1>2 DEF Start
  <2>2. IsConfig(live_config')
    BY <2>1, MergedIsConfig DEF SettingsInv, FileOK
  <2> QED  BY <2>1, <2>2 DEF SettingsInv
<1> QED  BY <1>1, <1>2

LEMMA SettingsStepsKeep == SettingsInv /\ [SettingsNext]_settingsVars => SettingsInv'
<1> SUFFICES ASSUME SettingsInv, [SettingsNext]_settingsVars PROVE SettingsInv'
  OBVIOUS
<1>1. CASE UNCHANGED settingsVars
  BY <1>1 DEF settingsVars, SettingsInv
<1>2. ASSUME NEW o \in Tabs,
             \/ settings_edit(o) \/ settings_update(o) \/ save(o)
             \/ direct_write(o) \/ revoke_all_sessions(o)
             \/ refresh_live_config(o) \/ swap_live_config(o)
             \/ settings_create(o) \/ create_write(o)
      PROVE  SettingsInv'
  BY <1>2, settings_edit_Keeps, settings_update_Keeps, save_Keeps, direct_write_Keeps, revoke_all_sessions_Keeps,
     refresh_live_config_Keeps, swap_live_config_Keeps, settings_create_Keeps, create_write_Keeps
<1>3. CASE Crash \/ Start
  BY <1>3, ServerStepsKeep
<1> QED  BY <1>1, <1>2, <1>3 DEF SettingsNext

LEMMA SettingsInvariant == SettingsSpec => []SettingsInv
  BY SettingsStart, SettingsStepsKeep, PTL DEF SettingsSpec

LEMMA SettingsTyped == SettingsInv => SettingsTypeOK
<1> SUFFICES ASSUME SettingsInv PROVE SettingsTypeOK
  OBVIOUS
<1>1. \A o \in Tabs : tab[o].pc \in TabSteps
  BY DEF SettingsInv, TabsOK, TabOK
<1>2. \A k \in Keys : DOMAIN live_config[k] = DOMAIN Defaults[k]
  BY DefaultsAreConfig DEF SettingsInv, IsConfig
<1> QED  BY <1>1, <1>2 DEF SettingsInv, SettingsTypeOK, FileOK, IsWritten, IsConfig, TabSteps

-----------------------------------------------------------------------------
\* The foreign keys and unique indexes of repo/sources.rs and repo/profiles.rs
\* hold whatever any number of operators do between each other's steps.
THEOREM TablesStayRelated == PanelSpec => []PanelTypeOK
<1>1. PanelInv => PanelTypeOK
  BY DEF PanelInv, Sound, PanelTypeOK
<1> QED  BY <1>1, PanelInvariant, PTL

\* sources.rs restore_masked_headers, profiles.rs: an edit of a form never
\* loses a secret it only showed a mask of, and stores no mask as a token.
THEOREM SecretsAreKept == PanelSpec => []SecretsSurviveEditing
<1>1. PanelInv => SecretsSurviveEditing
  BY DEF PanelInv, Sound, IsDatabase, WorkOK, SourceWorkOK, SecretsSurviveEditing, HeadersKeepTheirSecrets
<1> QED  BY <1>1, PanelInvariant, PTL

\* import_export.rs apply_import: of every file that passed its validation, an
\* undisturbed import finds each of its writes accepted.
THEOREM ImportsComplete == PanelSpec => []ImportStopsForOthersOnly
<1>1. PanelInv => ImportStopsForOthersOnly
  BY ImportStepFitsAlone DEF PanelInv, WorkOK, ImportOK, ImportStopsForOthersOnly
<1> QED  BY <1>1, PanelInvariant, PTL

\* import_export.rs export_config, three awaited queries: whatever others write between them, the
\* file has every row nobody touched, such a profile with its members in order and no reference
\* that the file does not resolve; if nobody wrote, importing it restores every source and profile, on
\* an empty instance with their slugs and beside the originals without.  And an undisturbed import
\* is never stopped.
THEOREM BackupsAreWhole == PanelSpec => []BackupsWork
<1>1. PanelInv => BackupRestores
  <2> SUFFICES ASSUME PanelInv, NEW o \in Operators, Exported(work[o]), work[o].touched = {},
                      validate_import(BackupFile(work[o]))
               PROVE  LET file == BackupFile(work[o])
                      IN  /\ Content(Restored(EmptyDb, file), 0, TRUE) = Content(db, 0, TRUE)
                          /\ Content(Restored(db, file), db.next - 1, TRUE) = Content(db, 0, FALSE)
    BY Zenon DEF BackupRestores
  <2>1. Sound(db) /\ WorkOK(db, work[o])
    BY DEF PanelInv
  <2>2. BackupFile(work[o]) = WholeExport(db)
    BY <2>1, WholeBackup
  <2>3. validate_import(WholeExport(db))
    BY <2>2
  <2> QED  BY <2>1, <2>2, <2>3, BackupIsWhole
<1>2. PanelInv => UntouchedIsInBackup
  BY UntouchedRead DEF PanelInv, UntouchedIsInBackup
<1>3. PanelInv => ImportStopsForOthersOnly
  BY ImportStepFitsAlone DEF PanelInv, WorkOK, ImportOK, ImportStopsForOthersOnly
<1> QED  BY <1>1, <1>2, <1>3, PanelInvariant, PTL DEF BackupsWork

\* pipeline_editor.rs, Ingest ("nothing is reinterpreted silently"): on a profile's form, what was
\* typed or previewed last and is valid is what every later save stores, to the meaning, on its own
\* and over any source; as long as it can be shown and no page came without the form's controls.
THEOREM EditorKeeps ==
  ProfileForm => (EditorSpec => []EditorKeepsMeaning)
<1> SUFFICES ASSUME ProfileForm PROVE EditorSpec => []EditorKeepsMeaning
  OBVIOUS
<1>1. EditorInit => EditorInv
  BY EditorStarts
<1>2. EditorInv /\ [EditorNext]_editorVars => EditorInv'
  BY to_raw_Sound, to_builder_Sound, pipeline_preset_Sound, pipeline_rows_Sound, type_fields_Sound,
     type_raw_Sound, save_form_Sound, EditorStutters DEF EditorNext
<1> QED  BY <1>1, <1>2, SoundKeeps, PTL DEF EditorSpec

\* config_writer.rs EDITOR_LOCK: for every number of tabs, no save writes over what another one
\* committed after its document was read; only Create, which takes no lock, may come between.
THEOREM SavesAreExclusive == SettingsSpec => SavesReplaceWhatTheyRead
<1> DEFINE Step == \A o \in Tabs : tab[o].pc \in Committing =>
                     \/ tab'[o].pc # tab[o].pc
                     \/ \E p \in Tabs : tab[p].pc = "create" /\ tab'[p].pc # "create"
<1>1. SettingsInv /\ [SettingsNext]_settingsVars => [Step]_app_toml
  <2> SUFFICES ASSUME SettingsInv, SettingsNext, app_toml' # app_toml, NEW o \in Tabs, tab[o].pc \in Committing
               PROVE  \/ tab'[o].pc # tab[o].pc
                      \/ \E p \in Tabs : tab[p].pc = "create" /\ tab'[p].pc # "create"
    BY DEF settingsVars
  <2>1. PICK p \in Tabs : save(p) \/ direct_write(p) \/ create_write(p)
    BY DEF SettingsNext, settings_edit, settings_update, revoke_all_sessions, refresh_live_config,
       swap_live_config, settings_create, Crash, Start
  <2>2. CASE save(p) \/ direct_write(p)
    <3>1. tab[p].pc \in Committing /\ tab'[p].pc # tab[p].pc
      BY <2>2, save_Keeps, direct_write_Keeps DEF Committing
    <3>2. o = p
      BY <3>1 DEF SettingsInv, TabsOK, OneWriter
    <3> QED  BY <3>1, <3>2
  <2>3. CASE create_write(p)
    BY <2>3, create_write_Keeps
  <2> QED  BY <2>1, <2>2, <2>3
<1>2. [Step]_app_toml <=> [\A o \in Tabs : tab[o].pc \in {"save", "direct"} =>
                             \/ tab'[o].pc # tab[o].pc
                             \/ \E p \in Tabs : tab[p].pc = "create" /\ tab'[p].pc # "create"]_app_toml
  BY DEF Committing
<1> QED  BY <1>1, <1>2, SettingsInvariant, PTL DEF SettingsSpec, SavesReplaceWhatTheyRead

\* The tables stay related and every handler reads a configuration of every key in its own type,
\* whatever the operators, the tabs and the crashes do between each other's steps.
THEOREM PanelTypes == Spec => []TypeOK
<1>1. Init => PanelInit /\ SettingsInit
  BY DEF Init
<1>2. [Next]_<<part, panelVars, editorVars, settingsVars>> => [PanelNext]_panelVars /\ [SettingsNext]_settingsVars
  BY DEF Next
<1>3. PanelInv /\ SettingsInv => TypeOK
  BY SettingsTyped DEF TypeOK, PanelInv, Sound, PanelTypeOK
<1>4. PanelSpec /\ SettingsSpec => []TypeOK
  BY <1>3, PanelInvariant, SettingsInvariant, PTL
<1>5. Spec => PanelSpec /\ SettingsSpec
  BY <1>1, <1>2, PTL DEF Spec, PanelSpec, SettingsSpec
<1> QED  BY <1>4, <1>5, PTL
=============================================================================
