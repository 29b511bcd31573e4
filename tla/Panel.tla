-------------------------------- MODULE Panel --------------------------------
(***************************************************************************)
(* Operators at work in the panel at the same time (admin/handlers/        *)
(* sources.rs, profiles.rs, import_export.rs).  A handler is not one step:  *)
(* it reads what it validates against, then writes the row, then, for a    *)
(* profile, its composition; between two steps anybody else may write.     *)
(*                                                                         *)
(* `work[o]` is what operator o is doing: nothing, a form on the screen, a *)
(* validated request that has still to write, an export or an import on its *)
(* way.                                                                    *)
(***************************************************************************)
EXTENDS PanelStore

CONSTANTS Operators,
          Seeds,       \* databases the panel may start with
          Files,       \* hand-edited import files
          Slugs,       \* what may be typed as a slug
          Typed,       \* header values and tokens an operator types
          FreshKey,    \* a header name no row has yet
          MaxId,       \* bound of the ids given out
          MaxTasks     \* bound of the requests of one behaviour

\* repo/: compositions name existing rows only, slugs are unique.
Related(d) ==
    /\ DOMAIN d.composition = DOMAIN d.profiles
    /\ \A p \in DOMAIN d.profiles : DOMAIN d.composition[p] \subseteq DOMAIN d.sources
    /\ \A id \in DOMAIN d.sources : SlugFree(d.sources, id, d.sources[id].slug)
    /\ \A id \in DOMAIN d.profiles : SlugFree(d.profiles, id, d.profiles[id].slug)
    /\ DOMAIN d.sources \cap DOMAIN d.profiles = {}
    /\ \A id \in DOMAIN d.sources \cup DOMAIN d.profiles : id \in 1..d.next - 1

\* What the panel starts with, reads and is given.
IsDatabase(d) ==
    /\ DOMAIN d = {"sources", "profiles", "composition", "next"} /\ d.next \in Nat \ {0}
    /\ \A id \in DOMAIN d.sources : IsSource(d.sources[id])
    /\ \A id \in DOMAIN d.profiles : IsProfile(d.profiles[id]) /\ ~IsMask(d.profiles[id].token)
    /\ \A p \in DOMAIN d.composition : \A s \in DOMAIN d.composition[p] : d.composition[p][s] \in Nat
IsList(s) == s \in Seq(Range(s))
IsFile(file) ==
    /\ IsList(file.sources) /\ \A i \in DOMAIN file.sources : IsSource(file.sources[i].row)
    /\ IsList(file.profiles) /\ \A i \in DOMAIN file.profiles : IsProfile(file.profiles[i].row)
                                                         /\ IsList(file.profiles[i].refs)

ASSUME PanelAssumption ==
    /\ \A d \in Seeds : IsDatabase(d) /\ Related(d)
    /\ \A file \in Files : IsFile(file)

VARIABLES db, work, tasks

panelVars == <<db, work, tasks>>

Idle == [at |-> "idle"]
PanelInit == db \in Seeds /\ work = [o \in Operators |-> Idle] /\ tasks = 0

\* Ids of the rows and compositions in which two databases differ.
Differ(f, g) == {id \in DOMAIN f \cup DOMAIN g : ~(id \in DOMAIN f \cap DOMAIN g /\ f[id] = g[id])}
Differences(d, e) == Differ(d.sources, e.sources) \cup Differ(d.profiles, e.profiles)
                     \cup Differ(d.composition, e.composition)

\* Somebody else's write: an import is no longer alone, an export notes what
\* was touched while it read.
Exporting == {"export", "compositions"}
Beside(w, new) ==
    IF new = db THEN w
    ELSE IF w.at = "import" THEN [w EXCEPT !.alone = FALSE]
    ELSE IF w.at \in Exporting THEN [w EXCEPT !.touched = @ \cup Differences(db, new)]
    ELSE w
Doing(o, task, new) ==
    /\ work' = [x \in Operators |-> IF x = o THEN task ELSE Beside(work[x], new)]
    /\ tasks' = IF work[o] = Idle THEN tasks + 1 ELSE tasks
StartsJob(o) == work[o] = Idle /\ tasks < MaxTasks
Answers(o) == Doing(o, Idle, db) /\ UNCHANGED db
Writes(o, new, task) == db' = new /\ Doing(o, task, new)

-----------------------------------------------------------------------------
(* Sources.                                                                 *)

source_edit_form(o) ==
    /\ StartsJob(o)
    /\ \E id \in DOMAIN db.sources :
          LET row == db.sources[id]
          IN  Doing(o, [at |-> "source_form", id |-> id, opened |-> row,
                        row |-> [row EXCEPT !.headers = MaskedHeaders(@)],
                        from |-> [k \in DOMAIN row.headers |-> {k}], unchanged |-> FALSE], db)
    /\ UNCHANGED db

\* One edit of the header lines: none, a line dropped, renamed or retyped.
RenamedLine(f, old, new) == [k \in (DOMAIN f \ {old}) \cup {new} |-> f[IF k = new THEN old ELSE k]]
HeaderEdits(lines, from) ==
    LET keys == DOMAIN lines
    IN  {[lines |-> lines, from |-> from]}
        \cup {[lines |-> Restrict(lines, keys \ {k}), from |-> Restrict(from, keys \ {k})] : k \in keys}
        \cup {[lines |-> RenamedLine(lines, k, new), from |-> RenamedLine(from, k, new)] :
                  k \in keys, new \in keys \cup {FreshKey}}
        \cup {[lines |-> [lines EXCEPT ![k] = v], from |-> [from EXCEPT ![k] = {}]] : k \in keys, v \in Typed}

\* build_source_from_form: the slug is looked up, then the stored headers are
\* read and put back where the form shows their masks.
source_update_validated(o) ==
    /\ work[o].at = "source_form"
    /\ \E slug \in {work[o].row.slug} \cup Slugs, edit \in HeaderEdits(work[o].row.headers, work[o].from) :
          IF ~SlugFree(db.sources, work[o].id, slug) THEN Answers(o)
          ELSE LET stored == IF work[o].id \in DOMAIN db.sources THEN db.sources[work[o].id].headers ELSE << >>
               IN  /\ Doing(o, [work[o] EXCEPT
                                  !.at = "source_row", !.from = edit.from,
                                  !.unchanged = (stored = work[o].opened.headers),
                                  !.row = [@ EXCEPT !.slug = slug,
                                                    !.headers = restore_masked_headers(edit.lines, stored)]], db)
                   /\ UNCHANGED db

\* sources::update fails on a row that is gone and on a slug taken meanwhile.
source_written(o) ==
    /\ work[o].at = "source_row"
    /\ IF work[o].id \in DOMAIN db.sources /\ SlugFree(db.sources, work[o].id, work[o].row.slug)
       THEN Writes(o, update_source(db, work[o].id, work[o].row), Idle)
       ELSE Answers(o)

source_create(o) ==
    /\ StartsJob(o)
    /\ db.next <= MaxId
    /\ \E slug \in {NoSlug} \cup Slugs :
          /\ SlugFree(db.sources, 0, slug)
          /\ Writes(o, create_source(db, [slug |-> slug, enabled |-> TRUE, headers |-> << >>]), Idle)

source_toggle(o) ==
    /\ StartsJob(o)
    /\ \E id \in DOMAIN db.sources :
          LET row == db.sources[id]
          IN  Doing(o, [at |-> "source_row", id |-> id, opened |-> row, unchanged |-> TRUE,
                        from |-> [k \in DOMAIN row.headers |-> {k}],
                        row |-> [row EXCEPT !.enabled = ~@]], db)
    /\ UNCHANGED db

source_delete(o) ==
    /\ StartsJob(o)
    /\ \E id \in DOMAIN db.sources : Writes(o, delete_source(db, id), Idle)

-----------------------------------------------------------------------------
(* Profiles.                                                                *)

profile_edit_form(o) ==
    /\ StartsJob(o)
    /\ \E id \in DOMAIN db.profiles :
          LET row == db.profiles[id]
          IN  Doing(o, [at |-> "profile_form", id |-> id, checked |-> db.composition[id],
                        row |-> [row EXCEPT !.token = IF @ = NoToken THEN @ ELSE mask_secret(@)]], db)
    /\ UNCHANGED db

\* A checklist with one source more, one less, or one moved to the front.
Checklists(checked) ==
    {checked} \cup {With(checked, s, 0) : s \in DOMAIN db.sources}
    \cup {Restrict(checked, DOMAIN checked \ {s}) : s \in DOMAIN checked}

\* build_profile_from_form: the slug, the token under the mask as it is now
\* stored, and every selected source are checked.
ProfileValidated(o, typed, checked, slug) ==
    LET stored == IF work[o].id \in DOMAIN db.profiles THEN db.profiles[work[o].id].token ELSE NoToken
        token == access_token(typed, stored)
    IN  IF ~SlugFree(db.profiles, work[o].id, slug) \/ ~TokenAccepted(token)
           \/ ~(DOMAIN checked \subseteq DOMAIN db.sources)
        THEN Answers(o)
        ELSE /\ Doing(o, [work[o] EXCEPT !.at = "profile_row", !.checked = checked,
                                         !.row = [@ EXCEPT !.slug = slug, !.token = token]], db)
             /\ UNCHANGED db
profile_update_validated(o) ==
    /\ work[o].at = "profile_form"
    /\ \E typed \in {work[o].row.token, NoToken} \cup Typed, checked \in Checklists(work[o].checked),
          slug \in {work[o].row.slug} \cup Slugs : ProfileValidated(o, typed, checked, slug)

profile_written(o) ==
    /\ work[o].at = "profile_row"
    /\ IF work[o].id \in DOMAIN db.profiles /\ SlugFree(db.profiles, work[o].id, work[o].row.slug)
       THEN Writes(o, update_profile(db, work[o].id, work[o].row), [work[o] EXCEPT !.at = "composition"])
       ELSE Answers(o)

\* A source deleted since the check fails the whole transaction.
composition_written(o) ==
    /\ work[o].at = "composition"
    /\ LET members == composition_from_form(work[o].checked)
       IN  IF Composable(db, work[o].id, members)
           THEN Writes(o, set_sources(db, work[o].id, members), Idle)
           ELSE Answers(o)

profile_create(o) ==
    /\ StartsJob(o)
    /\ db.next <= MaxId
    /\ \E slug \in {NoSlug} \cup Slugs, token \in {NoToken} \cup Typed, members \in SUBSET DOMAIN db.sources :
          LET row == [slug |-> slug, token |-> token, enabled |-> TRUE]
          IN  /\ SlugFree(db.profiles, 0, slug)
              /\ TokenAccepted(token)
              /\ Writes(o, create_profile(db, row),
                        [at |-> "composition", id |-> db.next, row |-> row,
                         checked |-> [s \in members |-> 0]])

profile_toggle(o) ==
    /\ StartsJob(o)
    /\ \E id \in DOMAIN db.profiles :
          Doing(o, [at |-> "toggle", id |-> id, row |-> [db.profiles[id] EXCEPT !.enabled = ~@]], db)
    /\ UNCHANGED db
profile_toggled(o) ==
    /\ work[o].at = "toggle"
    /\ IF work[o].id \in DOMAIN db.profiles /\ SlugFree(db.profiles, work[o].id, work[o].row.slug)
       THEN Writes(o, update_profile(db, work[o].id, work[o].row), Idle)
       ELSE Answers(o)

profile_delete(o) ==
    /\ StartsJob(o)
    /\ \E id \in DOMAIN db.profiles : Writes(o, delete_profile(db, id), Idle)

-----------------------------------------------------------------------------
(* Export: the sources, the profiles and then the members of one profile    *)
(* after the other, each a query of its own and no transaction around them. *)

export_config(o) ==
    /\ StartsJob(o)
    /\ Doing(o, [at |-> "export", sources |-> ExportedSources(db), rows |-> << >>, refs |-> << >>, touched |-> {}], db)
    /\ UNCHANGED db

profiles_listed(o) ==
    /\ work[o].at = "export"
    /\ Doing(o, [work[o] EXCEPT !.at = "compositions", !.rows = ListedProfiles(db)], db)
    /\ UNCHANGED db

\* The file is handed out once every profile's members are read.
Exported(w) == w.at = "compositions" /\ Len(w.refs) = Len(w.rows)
BackupFile(w) == [sources |-> w.sources,
                  profiles |-> [i \in DOMAIN w.rows |-> [refs |-> w.refs[i], row |-> w.rows[i].row]]]

composition_read(o) ==
    /\ work[o].at = "compositions"
    /\ ~Exported(work[o])
    /\ LET profile == work[o].rows[Len(work[o].refs) + 1].id
       IN  Doing(o, [work[o] EXCEPT !.refs = Append(@, MembersOf(db, profile))], db)
    /\ UNCHANGED db

-----------------------------------------------------------------------------
(* Import, of the operator's own backup or of an edited file.               *)

import_submit(o) ==
    /\ StartsJob(o) \/ Exported(work[o])
    /\ \E file \in IF Exported(work[o]) THEN {BackupFile(work[o])} ELSE Files :
          /\ validate_import(file)
          /\ db.next + Len(file.sources) + Len(file.profiles) <= MaxId + 1
          /\ Doing(o, [at |-> "import", job |-> ImportJob(db, file), alone |-> TRUE], db)
    /\ UNCHANGED db

apply_import(o) ==
    /\ work[o].at = "import"
    /\ IF ImportDone(work[o].job) THEN Answers(o)
       ELSE IF ImportStepFits(db, work[o].job)
       THEN Writes(o, ImportStepDb(db, work[o].job), [work[o] EXCEPT !.job = ImportStepJob(db, work[o].job)])
       ELSE Answers(o)

PanelNext ==
    \E o \in Operators :
        \/ source_edit_form(o) \/ source_update_validated(o) \/ source_written(o)
        \/ source_create(o) \/ source_toggle(o) \/ source_delete(o)
        \/ profile_edit_form(o) \/ profile_update_validated(o) \/ profile_written(o) \/ composition_written(o)
        \/ profile_create(o) \/ profile_toggle(o) \/ profile_toggled(o) \/ profile_delete(o)
        \/ export_config(o) \/ profiles_listed(o) \/ composition_read(o)
        \/ import_submit(o) \/ apply_import(o)
PanelSpec == PanelInit /\ [][PanelNext]_panelVars

-----------------------------------------------------------------------------
(* Properties.                                                              *)

\* repo/sources.rs, repo/profiles.rs: at no moment does a composition name a
\* row that is gone, or a slug stand for two rows.
PanelTypeOK == Related(db)

\* sources.rs restore_masked_headers: a header whose line shows a mask keeps
\* the secret it had, under a new name too, unless two secrets share the mask:
\* then the renamed line stays as typed, and nobody else's secret goes there.
\* profiles.rs: no mask ever becomes a token, and an untouched token field
\* writes the token the form was opened with or the one set since.
\* work[o].from[k] is the opened header, if any, whose line k shows.
KeptSecrets(opened, headers, from) ==
    \A k \in DOMAIN from : \A h \in from[k] :
        /\ h = k => headers[k] = opened[k]
        /\ h # k /\ k \notin DOMAIN opened =>
              \/ headers[k] = opened[h]
              \/ headers[k] = mask_secret(opened[h])
                 /\ \E g \in DOMAIN opened : opened[g] # opened[h] /\ mask_secret(opened[g]) = mask_secret(opened[h])
HeadersKeepTheirSecrets ==
    \A o \in Operators : (work[o].at = "source_row" /\ work[o].unchanged) =>
        KeptSecrets(work[o].opened.headers, work[o].row.headers, work[o].from)
SecretsSurviveEditing ==
    /\ HeadersKeepTheirSecrets
    /\ \A id \in DOMAIN db.profiles : ~IsMask(db.profiles[id].token)

\* USERGUIDE.md, import and export: a backup nobody wrote beside restores the
\* whole configuration on an empty instance, every profile with its members in
\* order; on the instance it came from everything exists twice afterwards, the
\* copies without the slugs.
ImportWrites(file) == Len(file.sources) + 2 * Len(file.profiles)
ImportStep(s) == [db |-> ImportStepDb(s.db, s.job), job |-> ImportStepJob(s.db, s.job)]
Restored(target, file) ==
    LET after[n \in 0..ImportWrites(file)] ==
            IF n = 0 THEN [db |-> target, job |-> ImportJob(target, file)] ELSE ImportStep(after[n - 1])
    IN  after[ImportWrites(file)].db
Content(d, above, slugs) ==
    LET own == Ascending({id \in DOMAIN d.sources : id > above})
        profiles == Ascending({id \in DOMAIN d.profiles : id > above})
        places(ids) == [j \in DOMAIN ids |-> CHOOSE i \in DOMAIN own : own[i] = ids[j]]
        shown(row) == [row EXCEPT !.slug = IF slugs THEN @ ELSE NoSlug]
    IN  [sources |-> [i \in DOMAIN own |-> shown(d.sources[own[i]])],
         profiles |-> [i \in DOMAIN profiles |->
                         [row |-> shown(d.profiles[profiles[i]]), members |-> places(get_sources(d, profiles[i]))]]]
BackupRestores ==
    \A o \in Operators : (Exported(work[o]) /\ work[o].touched = {}) =>
        LET file == BackupFile(work[o])
        IN  validate_import(file) =>
                /\ Content(Restored(EmptyDb, file), 0, TRUE) = Content(db, 0, TRUE)
                /\ Content(Restored(db, file), db.next - 1, TRUE) = Content(db, 0, FALSE)

\* import_export.rs:127-160: with writes between the queries a backup still has
\* every row that none of them touched, and such a profile with all its members.
RefsIn(file) == {file.sources[j].ref : j \in DOMAIN file.sources}
InBackup(d, file, p) == \E i \in DOMAIN file.profiles :
                            /\ file.profiles[i] = [refs |-> get_sources(d, p), row |-> d.profiles[p]]
                            /\ Range(file.profiles[i].refs) \subseteq RefsIn(file)
UntouchedIsInBackup ==
    \A o \in Operators : Exported(work[o]) =>
        LET file == BackupFile(work[o])
        IN  /\ \A s \in DOMAIN db.sources \ work[o].touched :
                   [ref |-> s, row |-> db.sources[s]] \in Range(file.sources)
            /\ \A p \in DOMAIN db.profiles \ work[o].touched : InBackup(db, file, p)

\* import_export.rs: what a file says never stops its import halfway; only
\* somebody else's write can.
ImportStopsForOthersOnly ==
    \A o \in Operators : (work[o].at = "import" /\ work[o].alone /\ ~ImportDone(work[o].job))
        => ImportStepFits(db, work[o].job)

\* A backup has what stayed as it was while it was taken, all of it restores
\* when that is everything, and no import stops for what its file says.
BackupsWork == BackupRestores /\ UntouchedIsInBackup /\ ImportStopsForOthersOnly

\* Not properties of this code (README, section 6).
\* USERGUIDE.md, configuration backup: "it captures all sources and profiles
\* in a JSON file you can import on another instance".  A profile may be read
\* with a source that came after the sources were; the import drops it.
BackupsAreClosed ==
    \A o \in Operators : Exported(work[o]) =>
        LET file == BackupFile(work[o])
        IN  \A i \in DOMAIN file.profiles : Range(file.profiles[i].refs) \subseteq RefsIn(file)
\* The same passage; a short token is exported and refused.
ExportIsImportable == \A o \in Operators : Exported(work[o]) => validate_import(BackupFile(work[o]))
=============================================================================
