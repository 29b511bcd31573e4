---------------------------- MODULE PipelineEditor ----------------------------
(***************************************************************************)
(* The pipeline widget of a source or profile form (pipeline_editor.rs,    *)
(* handlers/pipeline.rs): builder fields or raw JSON, switched by the      *)
(* server, which rebuilds one from the other on every request.             *)
(*                                                                         *)
(* A section of the builder has a mode: "skip" (inherit), "defaults"       *)
(* (explicit defaults) or "set".  Text is a member of a small set; a text  *)
(* field of numbers is None when empty, Some({}) when it holds commas only.*)
(***************************************************************************)
EXTENDS PipelineRules

CONSTANTS ProfileForm,   \* whether the form is a profile's
          Trim,          \* [padded pattern or replacement -> what trim leaves of it]
          StoredDocs,    \* documents the row may hold when the form is opened
          TypedDocs,     \* documents an administrator may type in raw mode
          Edits,         \* functions from a section to what its fields may be set to
          MaxEdits       \* bound: edits of one session

\* What the sections of a document are made of, and the fields of a page.
IsOption(o) == o = None \/ o = Some(Value(o))
IsLines(rows) == rows \in Seq(Ranged(rows))
IsRenames(rows) ==
    IsLines(rows) /\ \A r \in Ranged(rows) : r = [match |-> r.match, replace |-> r.replace, target |-> r.target]
IsDrops(rows) ==
    IsLines(rows) /\ \A r \in Ranged(rows) :
                        r = [match |-> r.match, target |-> r.target, asns |-> r.asns] /\ IsOption(r.asns)
IsSection(k, v) ==
    CASE k = "filter" -> /\ v = [protocols |-> v.protocols, exclude_protocols |-> v.exclude_protocols,
                                 asns |-> v.asns, exclude_asns |-> v.exclude_asns,
                                 forbid_insecure |-> v.forbid_insecure]
                         /\ \A o \in {v.protocols, v.exclude_protocols, v.asns, v.exclude_asns} : IsOption(o)
      [] k = "rename" -> IsRenames(v)
      [] k = "drop" -> IsDrops(v)
      [] k = "geo" -> v = [enabled |-> v.enabled, template |-> v.template] /\ v.enabled \in BOOLEAN
      [] k = "health" -> IsLines(v)
      [] k = "sort" -> v = [by |-> v.by, desc |-> v.desc]
      [] k = "limit" -> v = [typed |-> v.typed, count |-> v.count] /\ v.typed \in BOOLEAN /\ IsOption(v.count)
      [] OTHER -> TRUE
IsDocument(option) ==
    /\ IsOption(option)
    /\ \A doc \in option : \A k \in DOMAIN doc : IsSection(k, doc[k])
IsField(k, f) ==
    CASE k = "filter" -> IsOption(f.asns) /\ IsOption(f.exclude_asns)
      [] k = "rename" -> IsRenames(f.rows)
      [] k = "drop" -> IsDrops(f.rows)
      [] k = "geo" -> f.enabled \in BOOLEAN
      [] k = "health" -> f = [mode |-> f.mode, statuses |-> f.statuses] /\ IsLines(f.statuses)
      [] k = "limit" -> f.typed \in BOOLEAN /\ IsOption(f.count)
      [] OTHER -> TRUE

\* A trimmed text has no blanks left to trim, nor do the empty text and the presets' pattern;
\* what is stored or typed has the shape of a document, an edited field that of its section.
ASSUME FormAssumption ==
    /\ ProfileForm \in BOOLEAN /\ MaxEdits \in Nat
    /\ {NoText, "edges"} \cap DOMAIN Trim = {} /\ \A t \in DOMAIN Trim : Trim[t] \notin DOMAIN Trim
    /\ \A option \in StoredDocs \cup TypedDocs : IsDocument(option)
    /\ \A k \in DOMAIN Edits : \A f \in Edits[k] : IsField(k, f)

VARIABLES mode,      \* pipeline_mode: "builder" or "raw"
          fields,    \* the builder fields on the page
          text,      \* the textarea: an optional document, or Unparsable
          triState,  \* whether the page has the skip/defaults/set controls of rename and drop
          meant,     \* what the administrator last typed or saw previewed
          controlled, \* no page since then lacked controls of its form
          edits

editorVars == <<mode, fields, text, triState, meant, controlled, edits>>

-----------------------------------------------------------------------------
(* BuilderState. *)

\* What is not JSON is no document of any version.
Unparsable == Some([unparsable |-> TRUE])

\* new(): every section inherits, its fields at the defaults.
NewState ==
    [filter |-> [mode |-> "skip", protocols |-> {}, exclude_protocols |-> {}, asns |-> None,
                 exclude_asns |-> None, forbid_insecure |-> TRUE],
     rename |-> [mode |-> "set", rows |-> << >>],
     drop |-> [mode |-> "set", rows |-> << >>],
     geo |-> [mode |-> "skip", enabled |-> TRUE, template |-> NoText],
     health |-> [mode |-> "skip", statuses |-> default_exclude_statuses],
     sort |-> [mode |-> "skip", by |-> "source", desc |-> FALSE],
     limit |-> [mode |-> "skip", count |-> None, typed |-> TRUE]]

NameTemplate == "{country} · {name}"
preset(name) ==
    CASE name = "workers" -> [NewState EXCEPT !.health =
                                [mode |-> "set", statuses |-> <<"unknown", "quarantine", "removed">>]]
      [] name = "country" -> [NewState EXCEPT !.geo =
                                [mode |-> "set", enabled |-> TRUE, template |-> NameTemplate]]
      [] name = "clean" -> [NewState EXCEPT
                                !.geo = [mode |-> "set", enabled |-> FALSE, template |-> NoText],
                                !.rename.rows = <<[match |-> "edges", replace |-> NoText, target |-> "name"]>>]
      [] OTHER -> NewState

Where(rows, good) == Entries(rows, {i \in DOMAIN rows : rows[i] \in good})

\* Lines without a pattern, or without a number on an ASN line, are work in progress.
TypedRenames(rows) == Where(rows, {r \in Ranged(rows) : r.match # NoText})
TypedDrops(rows) ==
    LET typed == Where(rows, {r \in Ranged(rows) : IF r.target = "asn" THEN r.asns # None ELSE r.match # NoText})
    IN  [i \in DOMAIN typed |-> IF typed[i].target = "asn" THEN [typed[i] EXCEPT !.match = NoText]
                                ELSE [typed[i] EXCEPT !.asns = None]]

NonEmpty(set) == IF set = {} THEN None ELSE Some(set)
FilterSection(f) ==
    [protocols |-> NonEmpty(f.protocols), exclude_protocols |-> NonEmpty(f.exclude_protocols),
     asns |-> f.asns, exclude_asns |-> f.exclude_asns, forbid_insecure |-> f.forbid_insecure]

\* What each section contributes to the document, if anything.
Contribution(k, f) ==
    CASE k = "filter" ->
            IF f.mode = "defaults" THEN Some(FilterDefaults)
            ELSE IF f.mode = "set" /\ FilterSection(f) # FilterDefaults THEN Some(FilterSection(f))
            ELSE None
      [] k \in {"rename", "drop"} ->
            LET rules == IF k = "rename" THEN TypedRenames(f.rows) ELSE TypedDrops(f.rows)
            IN  IF f.mode = "defaults" THEN Some(<< >>)
                ELSE IF f.mode = "set" /\ rules # << >> THEN Some(rules) ELSE None
      [] k = "geo" ->
            LET template == IF f.template = NoText THEN DefaultTemplate ELSE f.template
                section == [enabled |-> f.enabled, template |-> template]
            IN  IF f.mode = "defaults" THEN Some(GeoDefaults)
                ELSE IF f.mode = "set" /\ section # GeoDefaults THEN Some(section) ELSE None
      [] k = "health" ->
            IF f.mode = "defaults" THEN Some(default_exclude_statuses)
            ELSE IF f.mode = "set" /\ f.statuses # default_exclude_statuses THEN Some(f.statuses)
            ELSE None
      [] k = "sort" ->
            LET section == [by |-> f.by, desc |-> f.desc]
            IN  IF f.mode = "defaults" THEN Some(SortDefaults)
                ELSE IF f.mode = "set" /\ section # SortDefaults THEN Some(section) ELSE None
      [] k = "limit" ->
            IF f.mode = "defaults" THEN Some(NoCap)
            ELSE IF f.mode = "set" /\ (~f.typed \/ f.count # None)
                 THEN Some([typed |-> f.typed, count |-> f.count])
            ELSE None
Emitted(state, k) == IF k \in DOMAIN state THEN Contribution(k, state[k]) ELSE None

\* Only the version, and nothing is configured: NULL.
emit(state) ==
    LET present == {k \in Sections : Emitted(state, k) # None}
    IN  IF present = {} THEN None
        ELSE Some([k \in present \cup {"version"} |->
                      IF k = "version" THEN 1 ELSE Value(Emitted(state, k))])

\* Mutant: a present but empty list counts as absent.
Inexpressible_no_lists(doc) ==
    \/ ~Structured(doc) \/ doc.version # 1
    \/ Has(doc, "rename") /\ \E r \in Ranged(doc.rename) : r.match = NoText
    \/ Has(doc, "drop") /\ \E r \in Ranged(doc.drop) : r.target # "asn" /\ r.match = NoText

\* Documents the fields cannot express stay raw.
Inexpressible(doc) ==
    \/ ~Structured(doc) \/ doc.version # 1
    \/ Has(doc, "filter") /\ Some({}) \in {doc.filter.protocols, doc.filter.asns}
    \/ Has(doc, "rename") /\ \E r \in Ranged(doc.rename) : r.match = NoText
    \/ Has(doc, "drop") /\ \E r \in Ranged(doc.drop) : r.target # "asn" /\ r.match = NoText

\* A list that is present but empty is not shown in a text field.
Spelled(option) == IF Listed(option) = {} THEN None ELSE option

\* A section present with nothing but defaults is the explicit-defaults mode.
Ingested(doc, k) ==
    LET new == NewState[k]
        v == doc[k]
    IN  IF ~Has(doc, k) THEN new
        ELSE CASE k = "filter" ->
                    LET set == [mode |-> "set", protocols |-> Listed(v.protocols),
                                exclude_protocols |-> Listed(v.exclude_protocols),
                                asns |-> Spelled(v.asns), exclude_asns |-> Spelled(v.exclude_asns),
                                forbid_insecure |-> v.forbid_insecure]
                    IN  IF set = [new EXCEPT !.mode = "set"] THEN [new EXCEPT !.mode = "defaults"] ELSE set
               [] k = "rename" ->
                    IF v = << >> THEN [new EXCEPT !.mode = "defaults"] ELSE [new EXCEPT !.rows = v]
               [] k = "drop" ->
                    IF v = << >> THEN [new EXCEPT !.mode = "defaults"]
                    ELSE [new EXCEPT !.rows = [i \in DOMAIN v |-> [v[i] EXCEPT !.asns = Spelled(@)]]]
               [] k = "geo" ->
                    IF v.enabled /\ v.template \in {NoText, DefaultTemplate} THEN [new EXCEPT !.mode = "defaults"]
                    ELSE [mode |-> "set", enabled |-> v.enabled,
                          template |-> IF v.template = DefaultTemplate THEN NoText ELSE v.template]
               [] k = "health" ->
                    IF v = default_exclude_statuses THEN [new EXCEPT !.mode = "defaults"]
                    ELSE [mode |-> "set", statuses |-> v]
               [] k = "sort" ->
                    IF v = SortDefaults THEN [new EXCEPT !.mode = "defaults"]
                    ELSE [mode |-> "set", by |-> v.by, desc |-> v.desc]
               [] k = "limit" ->
                    IF v.count = None THEN [new EXCEPT !.mode = "defaults"]
                    ELSE [mode |-> "set", count |-> v.count, typed |-> TRUE]

ingest(option) ==
    IF option = None \/ Value(option) = Empty THEN NewState
    ELSE [k \in DOMAIN NewState |-> Ingested(Value(option), k)]
Raw(option) == option # None /\ Value(option) # Empty /\ Inexpressible(Value(option))

-----------------------------------------------------------------------------
(* The page and its requests. *)

BlankRename == [match |-> NoText, replace |-> NoText, target |-> "name"]
BlankDrop == [match |-> NoText, target |-> "name", asns |-> None]
Padded(rows, blank) == IF rows = << >> THEN <<blank>> ELSE rows

\* What the page submits and from_form reads: every text trimmed, at least one line of
\* rules, statuses in schema order; without their controls the rule sections are "set".
RuleMode(m, controls) == IF controls THEN m ELSE "set"
InSchemaOrder(statuses) ==
    Where(AllStatuses, Ranged(statuses)) \o Where(statuses, Ranged(statuses) \ Ranged(AllStatuses))
Trimmed(v) == IF v \in DOMAIN Trim THEN Trim[v] ELSE v
TrimmedRules(rows, blank) ==
    [i \in DOMAIN Padded(rows, blank) |-> [Padded(rows, blank)[i] EXCEPT !.match = Trimmed(@)]]
TidyRenames(rows) ==
    [i \in DOMAIN Padded(rows, BlankRename) |-> [TrimmedRules(rows, BlankRename)[i] EXCEPT !.replace = Trimmed(@)]]
TidyDrops(rows) == TrimmedRules(rows, BlankDrop)
from_form(state, controls) ==
    [state EXCEPT
        !.rename = [mode |-> RuleMode(@.mode, controls), rows |-> TidyRenames(@.rows)],
        !.drop = [mode |-> RuleMode(@.mode, controls), rows |-> TidyDrops(@.rows)],
        !.health.statuses = InSchemaOrder(@)]

Posted == from_form(fields, triState)

\* The document a save_form validates and stores.
pipeline_from_form == IF mode = "builder" THEN emit(Posted) ELSE text

Builds(state, controls) ==
    /\ mode' = "builder" /\ fields' = state /\ triState' = controls /\ text' = None

\* raw_mode renders without the profile flag: its links have lost the controls.
Shows(option) ==
    /\ mode' = "raw" /\ text' = option /\ fields' = NewState /\ triState' = FALSE

\* The meaning stays what it was, or is what has just been entered.
Keeps == meant' = meant /\ controlled' = (controlled /\ (mode' = "builder" => triState' = ProfileForm))
Enters(option) == meant' = option /\ controlled' = TRUE

\* widget_from_stored.
Opens(option) == IF Raw(option) THEN Shows(option) ELSE Builds(ingest(option), ProfileForm)

EditorInit ==
    /\ meant \in StoredDocs /\ controlled = TRUE /\ edits = 0
    /\ IF Raw(meant)
       THEN mode = "raw" /\ text = meant /\ fields = NewState /\ triState = FALSE
       ELSE mode = "builder" /\ fields = ingest(meant) /\ text = None /\ triState = ProfileForm

\* pipeline_mode: builder to raw always, raw to builder when the fields can hold it.
\* Asked for raw while raw, the page posts no builder field, and the textarea comes back empty.
to_raw ==
    /\ Shows(IF mode = "builder" THEN emit(Posted) ELSE None)
    /\ IF mode = "builder" THEN Keeps ELSE Enters(None)
    /\ UNCHANGED edits

to_builder ==
    /\ IF mode = "builder" THEN Builds(Posted, triState)
       ELSE IF Raw(text) THEN Shows(text)
       ELSE Builds(ingest(text), triState)
    /\ Keeps
    /\ UNCHANGED edits

\* A preset replaces the whole widget.
pipeline_preset ==
    /\ mode = "builder" /\ edits < MaxEdits /\ edits' = edits + 1
    /\ \E name \in {"workers", "country", "clean", "blank"} :
          Builds(preset(name), triState) /\ Enters(emit(preset(name)))

\* A rule line is appended or taken out; the other lines come back as they were posted.
Without(rows, i) == Entries(rows, DOMAIN rows \ {i})
pipeline_rows ==
    /\ mode = "builder" /\ edits < MaxEdits /\ edits' = edits + 1
    /\ UNCHANGED <<mode, text, triState>>
    /\ \/ fields' = [Posted EXCEPT !.drop.rows = Append(@, BlankDrop)] /\ Keeps
       \/ fields' = [Posted EXCEPT !.rename.rows = Append(@, BlankRename)] /\ Keeps
       \/ \E i \in DOMAIN Posted.drop.rows :
             fields' = [Posted EXCEPT !.drop.rows = Without(@, i)] /\ Enters(emit(fields'))
       \/ \E i \in DOMAIN Posted.rename.rows :
             fields' = [Posted EXCEPT !.rename.rows = Without(@, i)] /\ Enters(emit(fields'))

\* A change of the fields is previewed: what the preview shows is what is meant.
type_fields ==
    /\ mode = "builder" /\ edits < MaxEdits /\ edits' = edits + 1
    /\ \E k \in DOMAIN Edits : \E v \in Edits[k] : fields' = [fields EXCEPT ![k] = v]
    /\ Enters(emit(from_form(fields', triState)))
    /\ UNCHANGED <<mode, text, triState>>

type_raw ==
    /\ mode = "raw" /\ edits < MaxEdits /\ edits' = edits + 1
    /\ text' \in TypedDocs \cup {Unparsable} /\ Enters(text')
    /\ UNCHANGED <<mode, fields, triState>>

\* A save_form of what validates, and the form opened again on what it stored; a rejected one
\* comes back as posted, with or without the controls of the form.
save_form ==
    /\ UNCHANGED edits
    /\ LET doc == pipeline_from_form
       IN  IF Accepts(doc) THEN Opens(doc)
           ELSE IF mode = "builder" THEN Builds(Posted, ProfileForm) ELSE Shows(text)
    /\ Keeps

EditorNext == to_raw \/ to_builder \/ pipeline_preset \/ pipeline_rows \/ type_fields \/ type_raw \/ save_form

EditorSpec == EditorInit /\ [][EditorNext]_editorVars

-----------------------------------------------------------------------------
(* What must hold. *)

\* What a document makes of every source it is merged into: of one that says nothing, and of
\* one that says something else in every section.
Opinionated ==
    [version |-> 1, filter |-> [FilterDefaults EXCEPT !.exclude_protocols = Some({"ss"})],
     rename |-> <<[match |-> "edges", replace |-> NoText, target |-> "host"]>>,
     drop |-> <<[match |-> "edges", target |-> "host", asns |-> None]>>,
     geo |-> [enabled |-> FALSE, template |-> DefaultTemplate], health |-> <<"unknown">>,
     sort |-> [by |-> "country", desc |-> TRUE], limit |-> [typed |-> TRUE, count |-> Some(7)]]

Effect(pipe) ==
    [pipe EXCEPT !.health = Ranged(@),
                 !.filter.exclude_protocols = Listed(@), !.filter.exclude_asns = Listed(@)]
Meaning(option) ==
    <<Effect(from_json(option)), SortExplicit(option),
      Effect(from_json(merge_configs(Some(Opinionated), option)))>>

\* The two things a page of fields cannot show: surrounding blanks, and the default statuses
\* in another order.
Texts(rules) == {r.match : r \in Ranged(rules)}
Unshowable(doc) ==
    \/ Has(doc, "rename") /\ (Texts(doc.rename) \cup {r.replace : r \in Ranged(doc.rename)}) \cap DOMAIN Trim # {}
    \/ Has(doc, "drop") /\ Texts(doc.drop) \cap DOMAIN Trim # {}
    \/ Has(doc, "health") /\ doc.health # default_exclude_statuses
                         /\ InSchemaOrder(doc.health) = default_exclude_statuses

\* Opening a form, switching between its representations, adding and removing blank lines and
\* saving never change what a valid configuration means, on its own or over any source
\* (pipeline_editor.rs Ingest: "nothing is reinterpreted silently").
Kept == Accepts(pipeline_from_form) /\ Meaning(pipeline_from_form) = Meaning(meant)
Meant == Accepts(meant)
EditorKeepsMeaning ==
    Meant /\ (\A d \in meant : ~Unshowable(d)) /\ controlled => Kept

\* Not a property of this code (README, section 6).
\* The same for every page a switch can lead to: "emitting {} keeps the meaning exactly"
\* (pipeline_editor.rs ingest, explicit-defaults mode).
SwitchingKeepsMeaning == Meant /\ (\A d \in meant : ~Unshowable(d)) => Kept
=============================================================================
