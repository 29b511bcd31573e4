------------------------------- MODULE MCPanel -------------------------------
(* What the operator works on: the stored sources and profiles with their   *)
(* backups, the rule editor of a form, and app.toml behind the settings     *)
(* screen.  `part` chooses the component that moves, the others keep an     *)
(* initial state.                                                           *)
EXTENDS Panel, PipelineEditor, MCSettings

VARIABLE part

-----------------------------------------------------------------------------
(* Panel.                                                                   *)
Sx == <<"eyJ", "x">>
Sy == <<"eyJ", "y">>
Tk == <<"tok", "long">>
Source(slug, headers) == [slug |-> slug, enabled |-> TRUE, headers |-> headers]
Profile(slug, token) == [slug |-> slug, token |-> token, enabled |-> TRUE]

\* One source, every way its two headers may share secrets and masks (up to
\* the order of the secrets), and no id left; and two sources with a profile.
HeaderSeeds ==
    {[EmptyDb EXCEPT !.sources = 1 :> Source(NoSlug, h), !.next = MaxId + 1] :
        h \in {g \in [{"a", "b"} -> {Sx, Sy, Tk}] : g["a"] # Sy}}
ProfileSeeds ==
    {[sources |-> (1 :> Source("s", << >>)) @@ (2 :> Source(NoSlug, << >>)),
      profiles |-> 3 :> Profile("s", t), composition |-> 3 :> ((1 :> 1) @@ (2 :> 0)), next |-> 4] : t \in {NoToken, Tk}}
MCSeeds == HeaderSeeds \cup ProfileSeeds \cup {EmptyDb}

File(slug, refs) == [sources |-> <<[ref |-> 1, row |-> Source(slug, << >>)]>>,
                     profiles |-> <<[refs |-> refs, row |-> Profile(slug, NoToken)]>>]
MCFiles == {File("s", <<1, 1>>), File(NoSlug, <<9, 1>>)}
TypedHeaders == {<<"new", "short">>, <<"tok", "*">>}

Symmetric == Permutations(Operators)

-----------------------------------------------------------------------------
(* PipelineEditor.                                                          *)
MCCollation == ("" :> 0) @@ ("edges" :> 1) @@ ("n1" :> 2) @@ (" n1" :> 3)
MCHits == ("" :> {""}) @@ ("edges" :> {"edges"}) @@ ("n1" :> {"n1", " n1"}) @@ (" n1" :> {" n1"})
MCTrim == (" n1" :> "n1")
Doc(sections) == [version |-> 1] @@ sections
Rule(match) == [match |-> match, replace |-> "", target |-> "name"]
AsnRule(asns) == [match |-> "", target |-> "asn", asns |-> asns]
Cap(n) == [typed |-> TRUE, count |-> n]
MCStored ==
    {None, Some(Empty),
     Some(Doc([rename |-> << >>, sort |-> SortDefaults])),
     Some(Doc([rename |-> <<Rule(" n1")>>, drop |-> <<AsnRule(Some({1}))>>])),
     Some(Doc([health |-> <<"removed", "quarantine">>, limit |-> Cap(None)])),
     Some(Doc([health |-> default_exclude_statuses, drop |-> << >>, dedup |-> "fingerprint"]))}
TypedTexts ==
    {None, Some(Doc([filter |-> [FilterDefaults EXCEPT !.asns = Some({})]])),
     Some(Doc([filter |-> [FilterDefaults EXCEPT !.exclude_asns = Some({})], geo |-> GeoDefaults])),
     Some(Doc([rename |-> <<Rule("")>>])),
     Some(Doc([drop |-> <<[match |-> "n1", target |-> "param", asns |-> None]>>, bogus |-> 1])),
     Some(Doc([limit |-> Cap(Some(0))]))}
MCEdits ==
    [filter |-> {[NewState.filter EXCEPT !.mode = "set", !.asns = Some({})],
                 [NewState.filter EXCEPT !.mode = "set", !.forbid_insecure = FALSE]},
     rename |-> {[mode |-> "defaults", rows |-> <<Rule("n1")>>], [mode |-> "skip", rows |-> <<Rule("n1")>>],
                 [mode |-> "set", rows |-> <<Rule("n1"), Rule("")>>]},
     drop |-> {[mode |-> "set", rows |-> <<AsnRule(Some({}))>>], [mode |-> "defaults", rows |-> << >>],
               [mode |-> "set", rows |-> <<AsnRule(None), AsnRule(Some({2}))>>]},
     geo |-> {[mode |-> "defaults", enabled |-> FALSE, template |-> ""]},
     health |-> {[mode |-> "set", statuses |-> default_exclude_statuses], [mode |-> "set", statuses |-> << >>]},
     sort |-> {[mode |-> "set", by |-> "source", desc |-> TRUE]},
     limit |-> {[mode |-> "set", count |-> Some(3), typed |-> TRUE],
                [mode |-> "set", count |-> None, typed |-> FALSE]}]

-----------------------------------------------------------------------------
Moving(p, inputs) == IF part = p THEN inputs ELSE {CHOOSE x \in inputs : TRUE}

Init ==
    /\ part \in {"store", "editor", "settings"}
    /\ db \in Moving("store", Seeds)
    /\ meant \in Moving("editor", StoredDocs)
    /\ writable = TRUE   \* a restart finds it read-only as well
    /\ part # "settings" => app_toml = Absent
    /\ PanelInit /\ EditorInit /\ SettingsInit

Next ==
    \/ part = "store" /\ PanelNext /\ UNCHANGED <<part, editorVars, settingsVars>>
    \/ part = "editor" /\ EditorNext /\ UNCHANGED <<part, panelVars, settingsVars>>
    \/ part = "settings" /\ SettingsNext /\ UNCHANGED <<part, panelVars, editorVars>>
Spec == Init /\ [][Next]_<<part, panelVars, editorVars, settingsVars>>

(* Types of the stored rows and of the settings. *)
TypeOK == PanelTypeOK /\ SettingsTypeOK
=============================================================================
