------------------------------ MODULE PanelStore ------------------------------
(***************************************************************************)
(* The two tables an operator edits, as the repositories see them (repo/   *)
(* sources.rs, repo/profiles.rs), the masking of secrets in their forms    *)
(* (handlers/mod.rs, sources.rs, profiles.rs) and the configuration file   *)
(* of handlers/import_export.rs.                                           *)
(*                                                                         *)
(* A database is [sources, profiles, composition, next]: rows by id, the   *)
(* position of every member source by profile, and the next id.  Ids are   *)
(* given in creation order, the order every list is read in.               *)
(***************************************************************************)
EXTENDS Naturals, Sequences, FiniteSets, SequencesExt, Functions, Positions

NoSlug == ""
NoToken == <<"", "">>
With(f, x, y) == [z \in DOMAIN f \cup {x} |-> IF z = x THEN y ELSE f[z]]
EmptyDb == [sources |-> << >>, profiles |-> << >>, composition |-> << >>, next |-> 1]

\* A row of each table; a source has finitely many headers.
IsSource(row) == DOMAIN row = {"slug", "enabled", "headers"} /\ IsFiniteSet(DOMAIN row.headers)
IsProfile(row) == DOMAIN row = {"slug", "enabled", "token"}

\* Slugs are UNIQUE per table; a NULL never collides.
SlugFree(rows, id, slug) == slug = NoSlug \/ \A other \in DOMAIN rows \ {id} : rows[other].slug # slug

-----------------------------------------------------------------------------
(* Writes.  Every one is a statement or a transaction of its own.           *)

create_source(db, row) == [db EXCEPT !.sources = With(@, db.next, row), !.next = @ + 1]
create_profile(db, row) == [db EXCEPT !.profiles = With(@, db.next, row),
                                      !.composition = With(@, db.next, << >>), !.next = @ + 1]
update_source(db, id, row) == [db EXCEPT !.sources[id] = row]
update_profile(db, id, row) == [db EXCEPT !.profiles[id] = row]

\* The foreign keys and the primary key of profile_sources.
Composable(db, id, members) ==
    /\ id \in DOMAIN db.profiles
    /\ \A i \in DOMAIN members : members[i].source \in DOMAIN db.sources
    /\ \A i, j \in DOMAIN members : members[i].source = members[j].source => i = j
set_sources(db, id, members) ==
    [db EXCEPT !.composition[id] =
        [s \in {members[i].source : i \in DOMAIN members} |->
            members[CHOOSE i \in DOMAIN members : members[i].source = s].position]]

\* ON DELETE CASCADE takes the rows of profile_sources along.
\* Mutant: the reference has no cascade and is not enforced.
delete_source_leaves_members(db, id) == [db EXCEPT !.sources = Restrict(@, DOMAIN @ \ {id})]
delete_source(db, id) ==
    [db EXCEPT !.sources = Restrict(@, DOMAIN @ \ {id}),
               !.composition = [p \in DOMAIN @ |-> Restrict(@[p], DOMAIN @[p] \ {id})]]
delete_profile(db, id) == [db EXCEPT !.profiles = Restrict(@, DOMAIN @ \ {id}),
                                     !.composition = Restrict(@, DOMAIN @ \ {id})]

\* The members of a profile in merge order.
MergeRank(at, s) == Cardinality({r \in DOMAIN at : at[r] < at[s] \/ (at[r] = at[s] /\ r <= s)})
MergeOrder(at) == [k \in 1..Cardinality(DOMAIN at) |-> CHOOSE s \in DOMAIN at : MergeRank(at, s) = k]
get_sources(db, id) == MergeOrder(db.composition[id])

-----------------------------------------------------------------------------
(* Secrets in forms.  A mask is the first three characters of the value: a  *)
(* secret is <<prefix, rest>>, and the mask of a mask is itself.            *)

mask_secret(value) == <<value[1], "*">>
IsMask(value) == value[2] = "*"
MaskedHeaders(headers) == [k \in DOMAIN headers |-> mask_secret(headers[k])]

\* Mutant: of two secrets under one mask the first is taken.
OnlySecret_first(stored, mask) == {s \in Range(stored) : mask_secret(s) = mask} # {}
OnlySecret(stored, mask) == Cardinality({s \in Range(stored) : mask_secret(s) = mask}) = 1

restore_masked_headers(lines, stored) ==
    [k \in DOMAIN lines |->
        IF k \in DOMAIN stored /\ lines[k] = mask_secret(stored[k]) THEN stored[k]
        ELSE IF OnlySecret(stored, lines[k]) THEN CHOOSE s \in Range(stored) : mask_secret(s) = lines[k]
        ELSE lines[k]]

\* The typed token, or the stored one where the form still shows its mask.
access_token(typed, stored) == IF stored # NoToken /\ typed # NoToken /\ typed = mask_secret(stored)
                               THEN stored ELSE typed
\* The characters of a mask are outside the token charset.
TokenAccepted(token) == token = NoToken \/ ~IsMask(token)

-----------------------------------------------------------------------------
(* The profile form's checklist: checked sources with the number typed next *)
(* to each, normalised to dense positions.                                  *)

composition_from_form(checked) ==
    LET order == MergeOrder(checked)
    IN  [i \in DOMAIN order |-> [source |-> order[i], position |-> i - 1]]

-----------------------------------------------------------------------------
(* Export: what its queries return.  Rows come in list order, a source goes *)
(* by its original id.                                                      *)

InOrder(rows) == Ascending(DOMAIN rows)
\* Mutant: the listing of a page that shows enabled rows only.
ExportedSources_enabled(db) ==
    LET ids == Ascending({id \in DOMAIN db.sources : db.sources[id].enabled})
    IN  [i \in DOMAIN ids |-> [ref |-> ids[i], row |-> db.sources[ids[i]]]]
ExportedSources(db) == LET ids == InOrder(db.sources)
                       IN  [i \in DOMAIN ids |-> [ref |-> ids[i], row |-> db.sources[ids[i]]]]
ListedProfiles(db) == LET ids == InOrder(db.profiles)
                      IN  [i \in DOMAIN ids |-> [id |-> ids[i], row |-> db.profiles[ids[i]]]]
\* A profile that is gone by then has no members.
MembersOf(db, id) == IF id \in DOMAIN db.profiles THEN get_sources(db, id) ELSE << >>

\* A file may not plant a short token; the form takes one of any length.
TokenLongEnough(token) == token = NoToken \/ token[2] # "short"
validate_import(file) ==
    /\ \A i, j \in DOMAIN file.sources : file.sources[i].ref = file.sources[j].ref => i = j
    /\ \A i \in DOMAIN file.profiles : LET token == file.profiles[i].row.token
                                       IN  TokenLongEnough(token) /\ TokenAccepted(token)

-----------------------------------------------------------------------------
(* Import, one write at a time.  `job` is the work of one request: the file *)
(* left to write, the ids given to references, the slugs seen at the start. *)

SlugsOf(rows) == {rows[id].slug : id \in DOMAIN rows} \ {NoSlug}

\* Mutant: one set for both tables.
ImportJob_shared(db, file) ==
    [sources |-> file.sources, profiles |-> file.profiles, id |-> << >>, pending |-> << >>,
     sourceSlugs |-> SlugsOf(db.sources) \cup SlugsOf(db.profiles)
                     \cup {file.profiles[i].row.slug : i \in DOMAIN file.profiles},
     profileSlugs |-> SlugsOf(db.profiles)]
ImportJob(db, file) ==
    [sources |-> file.sources, profiles |-> file.profiles, id |-> << >>, pending |-> << >>,
     sourceSlugs |-> SlugsOf(db.sources), profileSlugs |-> SlugsOf(db.profiles)]

claim_slug(slug, taken) == IF slug \in taken THEN NoSlug ELSE slug

\* References outside the file are dropped, a repeated one keeps its first position.
\* Mutant: the repeated one is kept.
remapped_repeats(refs, id) ==
    LET known == Ascending({i \in DOMAIN refs : refs[i] \in DOMAIN id})
    IN  [k \in DOMAIN known |-> [source |-> id[refs[known[k]]], position |-> known[k] - 1]]
FirstMention(refs, i) == \A j \in DOMAIN refs : j < i => refs[j] # refs[i]
remapped(refs, id) ==
    LET known == Ascending({i \in DOMAIN refs : refs[i] \in DOMAIN id /\ FirstMention(refs, i)})
    IN  [k \in DOMAIN known |-> [source |-> id[refs[known[k]]], position |-> known[k] - 1]]

ImportDone(job) == job.sources = << >> /\ job.profiles = << >> /\ job.pending = << >>
NextRow(job) ==
    IF job.sources # << >>
    THEN [Head(job.sources).row EXCEPT !.slug = claim_slug(@, job.sourceSlugs)]
    ELSE [Head(job.profiles).row EXCEPT !.slug = claim_slug(@, job.profileSlugs)]

\* What the next write needs of the database; otherwise it is an error.
ImportStepFits(db, job) ==
    IF job.pending # << >> THEN Composable(db, job.pending[1].id, job.pending[1].members)
    ELSE IF job.sources # << >> THEN SlugFree(db.sources, 0, NextRow(job).slug)
    ELSE SlugFree(db.profiles, 0, NextRow(job).slug)
ImportStepDb(db, job) ==
    IF job.pending # << >> THEN set_sources(db, job.pending[1].id, job.pending[1].members)
    ELSE IF job.sources # << >> THEN create_source(db, NextRow(job))
    ELSE create_profile(db, NextRow(job))
ImportStepJob(db, job) ==
    IF job.pending # << >> THEN [job EXCEPT !.pending = << >>]
    ELSE IF job.sources # << >>
    THEN [job EXCEPT !.sources = Tail(@), !.id = With(@, Head(job.sources).ref, db.next),
                     !.sourceSlugs = @ \cup ({NextRow(job).slug} \ {NoSlug})]
    ELSE [job EXCEPT !.profiles = Tail(@),
                     !.pending = <<[id |-> db.next, members |-> remapped(Head(job.profiles).refs, job.id)]>>,
                     !.profileSlugs = @ \cup ({NextRow(job).slug} \ {NoSlug})]
=============================================================================
