---------------------------- MODULE SourceRefresh ----------------------------
(***************************************************************************)
(* The source refresh scheduler of fumox-server (scheduler.rs) with the    *)
(* ingest it spawns (ingest.rs) and the source rows both share with the    *)
(* admin handlers (repo/sources.rs): sweeps, the due test with its failure *)
(* backoff, Refresh now, in-flight marks, fetch permits, and the freshness *)
(* stamp an edit takes away.  Every step is what runs between two awaits.  *)
(*                                                                         *)
(* A time is kept as its age in seconds of the model, and every kept time  *)
(* grows older together (Tick).  Ages stop at MaxAge, the longest interval *)
(* the code compares one with: times older than that are told apart by     *)
(* nothing.  Two events without a Tick between them fall into one second.  *)
(***************************************************************************)
EXTENDS Integers, FiniteSets

CONSTANTS Sources,
          Refreshers,      \* Refresh now requests that may be open at once
          Editors,         \* admin handlers that may be saving at once
          MaxConcurrency,  \* [fetch].max_concurrency
          TTL,             \* cache_ttl_seconds
          BackoffBase,     \* FAILURE_BACKOFF_BASE_SECS
          BackoffMax,      \* FAILURE_BACKOFF_MAX_SECS
          HistoryRows,     \* FAILURE_HISTORY_ROWS
          MaxEdits,        \* bound: saves that change what is fetched
          MaxFaults        \* bound: panics, lost writes and restarts

ASSUME LimitAssumption == MaxConcurrency \in Nat \ {0} /\ HistoryRows \in Nat \ {0}
ASSUME TimeAssumption == TTL \in Nat /\ BackoffBase \in Nat /\ BackoffMax \in Nat
ASSUME BoundAssumption == MaxEdits \in Nat /\ MaxFaults \in Nat
ASSUME TaskAssumption == Sources \cap Refreshers = {}

\* A sweep spawns at most one task per source and outlives them all, so the
\* source names the sweep's task.
Tasks == Sources \cup Refreshers

VARIABLES row,         \* sources: the columns a refresh reads or writes
          journal,     \* fetch_log: the newest attempts of each source
          stored,      \* version each source's proxies were last reconciled from
          edits,
          mark,        \* SchedulerState.in_flight
          task, editor,
          overlapped,  \* history: a save landed beside other work on the source
          faults

dbVars == <<row, journal, stored, edits>>
vars == <<dbVars, mark, task, editor, overlapped, faults>>

-----------------------------------------------------------------------------
MaxAge == IF TTL > BackoffMax THEN TTL ELSE BackoffMax
Age == 0 .. MaxAge
Never == -1                  \* NULL
Time == Age \cup {Never}
Older(a) == IF a \in {Never, MaxAge} THEN a ELSE a + 1

\* What a fetch depends on (URL, headers, pipeline...) is one version number.
Version == 1 .. MaxEdits + 1
NothingStored == 0

Row == [version : Version, enabled : BOOLEAN, stamp : Time, failed : BOOLEAN, updated : Age]
Journal == [last : Time, failures : 0 .. HistoryRows]

\* A spawned task keeps the configuration it was given and, once it ingests,
\* the age of its own `now`.
Ingesting == {"fetch", "parsed", "stored", "success", "failed", "failure", "release"}
Holding == {"permit"} \cup Ingesting
Task == [pc : {"due"} \cup Holding, source : Sources, version : Version, now : Age]
Listed == [pc : {"listed"}, source : Sources, row : Row]
Request == [pc : {"queued"}, source : Sources]
NoTask == [pc |-> "idle"]

\* The row a save will write, and whether update has read the stored one.
Edit == [pc : {"loaded", "checked"}, source : Sources, row : Row]
NoEdit == [pc |-> "idle"]

TypeOK ==
    /\ row \in [Sources -> Row] /\ journal \in [Sources -> Journal]
    /\ stored \in [Sources -> Version \cup {NothingStored}]
    /\ edits \in 0 .. MaxEdits /\ faults \in 0 .. MaxFaults
    /\ mark \in [Sources -> {"free", "held", "runtime"}]
    /\ \A s \in Sources : task[s] \in Task \cup Listed \cup {NoTask}
    /\ \A t \in Refreshers : task[t] \in Task \cup Request \cup {NoTask}
    /\ DOMAIN task = Tasks
    /\ editor \in [Editors -> Edit \cup {NoEdit}]
    /\ overlapped \in [Sources -> BOOLEAN]

NewRow == [version |-> 1, enabled |-> TRUE, stamp |-> Never, failed |-> FALSE, updated |-> 0]

Init ==
    /\ row = [s \in Sources |-> NewRow]
    /\ journal = [s \in Sources |-> [last |-> Never, failures |-> 0]]
    /\ stored = [s \in Sources |-> NothingStored]
    /\ edits = 0 /\ faults = 0
    /\ mark = [s \in Sources |-> "free"]
    /\ task = [t \in Tasks |-> NoTask] /\ editor = [e \in Editors |-> NoEdit]
    /\ overlapped = [s \in Sources |-> FALSE]

-----------------------------------------------------------------------------
(* When a source is due. *)

failure_backoff_secs(n) ==
    IF BackoffBase * 2^n < BackoffMax THEN BackoffBase * 2^n ELSE BackoffMax

TtlDue(r) == r.stamp = Never \/ r.stamp >= TTL

\* Mutation of BackingOff: the elapsed time is not looked at.
BackingOff_for_good(r, j) == r.failed /\ j.failures > 0 /\ r.updated >= j.last

\* Read when error_class says that the last attempt failed.
BackingOff(r, j) ==
    /\ r.failed
    /\ j.failures > 0
    /\ r.updated >= j.last
    /\ j.last < failure_backoff_secs(j.failures)

is_due(r, j) == TtlDue(r) /\ ~BackingOff(r, j)

-----------------------------------------------------------------------------
(* The scheduler loop: sweeps and Refresh now. *)

Sweeping == \E s \in Sources : task[s] # NoTask

Given(s, r) == [pc |-> "due", source |-> s, version |-> r.version, now |-> 0]

\* The tick is skipped while the last sweep is at work; otherwise every enabled
\* row is read in one query.
SweepLists ==
    /\ ~Sweeping
    /\ \E s \in Sources : row[s].enabled
    /\ task' = [t \in Tasks |->
                  IF t \in {s \in Sources : row[s].enabled}
                  THEN [pc |-> "listed", source |-> t, row |-> row[t]] ELSE task[t]]
    /\ UNCHANGED <<dbVars, mark, editor, overlapped, faults>>

\* The journal is read later, row by row.
SweepConsults(s) ==
    /\ task[s].pc = "listed"
    /\ task' = [task EXCEPT ![s] = IF is_due(task[s].row, journal[s])
                                   THEN Given(task[s].source, task[s].row) ELSE NoTask]
    /\ UNCHANGED <<dbVars, mark, editor, overlapped, faults>>

source_refresh(t, s) ==
    /\ task[t] = NoTask
    /\ task' = [task EXCEPT ![t] = [pc |-> "queued", source |-> s]]
    /\ UNCHANGED <<dbVars, mark, editor, overlapped, faults>>

\* Forced: neither the switch nor the due test is asked.
dispatch_refresh(t) ==
    /\ task[t].pc = "queued"
    /\ task' = [task EXCEPT ![t] = Given(task[t].source, row[task[t].source])]
    /\ UNCHANGED <<dbVars, mark, editor, overlapped, faults>>

\* A sweep spawns once it has consulted every row.
Spawned(t) == task[t].pc = "due" /\ (t \in Sources => \A s \in Sources : task[s].pc # "listed")

\* Mutation of acquire_source: the result of the set insert is ignored.
acquire_source_unchecked(t) ==
    /\ Spawned(t)
    /\ mark' = [mark EXCEPT ![task[t].source] = "held"]
    /\ task' = [task EXCEPT ![t].pc = "permit"]
    /\ UNCHANGED <<dbVars, editor, overlapped, faults>>

acquire_source(t) ==
    /\ Spawned(t)
    /\ LET s == task[t].source IN
         IF mark[s] = "free"
         THEN /\ mark' = [mark EXCEPT ![s] = "held"]
              /\ task' = [task EXCEPT ![t].pc = "permit"]
         ELSE task' = [task EXCEPT ![t] = NoTask] /\ UNCHANGED mark
    /\ UNCHANGED <<dbVars, editor, overlapped, faults>>

PermitFree == Cardinality({t \in Tasks : task[t].pc \in Ingesting}) < MaxConcurrency

-----------------------------------------------------------------------------
(* ingest_source. *)

\* `now` is read here, after the wait for the permit.
IngestStarts(t) ==
    /\ task[t].pc = "permit" /\ PermitFree
    /\ task' = [task EXCEPT ![t] = [@ EXCEPT !.pc = "fetch", !.now = 0]]
    /\ UNCHANGED <<dbVars, mark, editor, overlapped, faults>>

Advances(t, l) == task' = [task EXCEPT ![t].pc = l]

\* Mutation of PayloadParsed: the success is journalled before the reconcile.
PayloadParsed_stamps_first(t) ==
    /\ task[t].pc = "fetch"
    /\ Advances(t, "stored")
    /\ UNCHANGED <<dbVars, mark, editor, overlapped, faults>>

PayloadParsed(t) ==
    /\ task[t].pc = "fetch"
    /\ Advances(t, "parsed")
    /\ UNCHANGED <<dbVars, mark, editor, overlapped, faults>>

\* The fetch or the parse failed, or reconcile_source rolled back.
AttemptFails(t) ==
    /\ task[t].pc \in {"fetch", "parsed"}
    /\ Advances(t, "failed")
    /\ UNCHANGED <<dbVars, mark, editor, overlapped, faults>>

Reconciles(t) ==
    /\ task[t].pc = "parsed"
    /\ stored' = [stored EXCEPT ![task[t].source] = task[t].version]
    /\ Advances(t, "stored")
    /\ UNCHANGED <<row, journal, edits, mark, editor, overlapped, faults>>

Logged(t, failures) ==
    journal' = [journal EXCEPT ![task[t].source] =
                  [last |-> task[t].now, failures |-> failures]]

\* Mutation of MoreFailures: the journal is read without the row limit.
MoreFailures_unlimited(n) == n + 1

MoreFailures(n) == IF n < HistoryRows THEN n + 1 ELSE n

insert_timed(t) ==
    /\ \/ /\ task[t].pc = "stored"
          /\ Logged(t, 0) /\ Advances(t, "success")
       \/ /\ task[t].pc = "failed"
          /\ Logged(t, MoreFailures(journal[task[t].source].failures))
          /\ Advances(t, "failure")
    /\ UNCHANGED <<row, stored, edits, mark, editor, overlapped, faults>>

\* A success also sets updated_at, to the ingest's own `now`.
record_fetch_outcome(t) ==
    /\ LET s == task[t].source IN
         \/ /\ task[t].pc = "success"
            /\ row' = [row EXCEPT ![s] = [@ EXCEPT !.stamp = task[t].now, !.failed = FALSE,
                                                  !.updated = task[t].now]]
         \/ /\ task[t].pc = "failure"
            /\ row' = [row EXCEPT ![s].failed = TRUE]
    /\ Advances(t, "release")
    /\ UNCHANGED <<journal, stored, edits, mark, editor, overlapped, faults>>

Fault == faults < MaxFaults /\ faults' = faults + 1

\* Both writes are best effort: an error is logged and the ingest goes on.
JournalWriteLost(t) ==
    /\ Fault
    /\ \/ task[t].pc = "stored" /\ Advances(t, "success")
       \/ task[t].pc = "failed" /\ Advances(t, "failure")
       \/ task[t].pc \in {"success", "failure"} /\ Advances(t, "release")
    /\ UNCHANGED <<dbVars, mark, editor, overlapped>>

\* The guards go with the task; a contended mark is removed by the runtime.
DropsGuards(t) ==
    /\ task' = [task EXCEPT ![t] = NoTask]
    /\ \E m \in {"free", "runtime"} : mark' = [mark EXCEPT ![task[t].source] = m]

IngestEnds(t) ==
    /\ task[t].pc = "release"
    /\ DropsGuards(t)
    /\ UNCHANGED <<dbVars, editor, overlapped, faults>>

\* Mutation of IngestPanics: the mark is removed by a call the unwind skips.
IngestPanics_keeps_mark(t) ==
    /\ task[t].pc \in Ingesting \ {"release"}
    /\ Fault /\ task' = [task EXCEPT ![t] = NoTask]
    /\ UNCHANGED <<dbVars, mark, editor, overlapped>>

IngestPanics(t) ==
    /\ task[t].pc \in Ingesting \ {"release"}
    /\ Fault /\ DropsGuards(t)
    /\ UNCHANGED <<dbVars, editor, overlapped>>

RuntimeClearsMark(s) ==
    /\ mark[s] = "runtime"
    /\ mark' = [mark EXCEPT ![s] = "free"]
    /\ UNCHANGED <<dbVars, task, editor, overlapped, faults>>

-----------------------------------------------------------------------------
(* Admin saves: read the row, change it, let update compare it with the row *)
(* stored by then, write every column back.                                 *)

Begins(e, s, r) ==
    /\ editor[e] = NoEdit
    /\ editor' = [editor EXCEPT ![e] = [pc |-> "loaded", source |-> s, row |-> r]]

\* The settings are those of the posted form, new ones or those of any earlier
\* rendering of the page; the fetch columns are those of the row.
Posted(s, v, on) == [row[s] EXCEPT !.version = v, !.enabled = on, !.updated = 0]

build_source_from_form(e, s) ==
    /\ \E on \in BOOLEAN :
         \/ /\ \E v \in 1 .. edits + 1 : Begins(e, s, Posted(s, v, on))
            /\ UNCHANGED edits
         \/ /\ edits < MaxEdits /\ edits' = edits + 1
            /\ Begins(e, s, Posted(s, edits + 2, on))
    /\ UNCHANGED <<row, journal, stored, mark, task, overlapped, faults>>

source_toggle(e, s) ==
    /\ Begins(e, s, [row[s] EXCEPT !.enabled = ~@, !.updated = 0])
    /\ UNCHANGED <<dbVars, mark, task, overlapped, faults>>

\* Mutation of fetch_stamp_stale: only the switch is compared.
fetch_stamp_stale_switch_only(old, new) == old.enabled # new.enabled

fetch_stamp_stale(old, new) == old.version # new.version \/ old.enabled # new.enabled

update_reads(e) ==
    /\ editor[e].pc = "loaded"
    /\ LET new == editor[e].row IN
         editor' = [editor EXCEPT ![e] = [@ EXCEPT !.pc = "checked",
                      !.row = IF fetch_stamp_stale(row[editor[e].source], new)
                              THEN [new EXCEPT !.stamp = Never] ELSE new]]
    /\ UNCHANGED <<dbVars, mark, task, overlapped, faults>>

\* Another task has read the row, or another save is under way.
Beside(e, s) ==
    \/ \E t \in Tasks : task[t].pc \notin {"idle", "queued"} /\ task[t].source = s
    \/ \E f \in Editors \ {e} : editor[f] # NoEdit /\ editor[f].source = s

update_writes(e) ==
    /\ editor[e].pc = "checked"
    /\ LET s == editor[e].source
           new == editor[e].row
       IN /\ row' = [row EXCEPT ![s] = new]
          /\ overlapped' = [overlapped EXCEPT ![s] = Beside(e, s) \/ (@ /\ new.stamp # Never)]
    /\ editor' = [editor EXCEPT ![e] = NoEdit]
    /\ UNCHANGED <<journal, stored, edits, mark, task, faults>>

-----------------------------------------------------------------------------
(* The surroundings. *)

Restart ==
    /\ Fault
    /\ task' = [t \in Tasks |-> NoTask] /\ editor' = [e \in Editors |-> NoEdit]
    /\ mark' = [s \in Sources |-> "free"]
    /\ UNCHANGED <<dbVars, overlapped>>

OlderRow(r) == [r EXCEPT !.stamp = Older(@), !.updated = Older(@)]

Tick ==
    /\ row' = [s \in Sources |-> OlderRow(row[s])]
    /\ journal' = [s \in Sources |-> [journal[s] EXCEPT !.last = Older(@)]]
    /\ task' = [t \in Tasks |->
                  IF task[t].pc = "listed" THEN [task[t] EXCEPT !.row = OlderRow(@)]
                  ELSE IF task[t].pc \in Ingesting THEN [task[t] EXCEPT !.now = Older(@)]
                  ELSE task[t]]
    /\ editor' = [e \in Editors |->
                    IF editor[e] = NoEdit THEN NoEdit
                    ELSE [editor[e] EXCEPT !.row = OlderRow(@)]]
    /\ UNCHANGED <<stored, edits, mark, overlapped, faults>>

TaskStep(t) ==
    \/ acquire_source(t) \/ IngestStarts(t) \/ PayloadParsed(t) \/ AttemptFails(t)
    \/ Reconciles(t) \/ insert_timed(t) \/ record_fetch_outcome(t) \/ IngestEnds(t)

SchedulerStep ==
    \/ SweepLists
    \/ \E s \in Sources : SweepConsults(s) \/ RuntimeClearsMark(s)
    \/ \E t \in Refreshers : dispatch_refresh(t)

EditorStep(e) == update_reads(e) \/ update_writes(e)

Next ==
    \/ SchedulerStep
    \/ \E t \in Tasks : TaskStep(t) \/ JournalWriteLost(t) \/ IngestPanics(t)
    \/ \E t \in Refreshers, s \in Sources : source_refresh(t, s)
    \/ \E e \in Editors : EditorStep(e)
    \/ \E e \in Editors, s \in Sources : build_source_from_form(e, s) \/ source_toggle(e, s)
    \/ Restart
    \/ Tick

Spec == Init /\ [][Next]_vars

\* The loop's select and the tasks it spawns are polled for as long as the
\* process runs, and no client of theirs waits without a timeout; tokio's
\* semaphore serves its waiters in turn, hence the strong fairness.
Fairness ==
    /\ WF_vars(Tick) /\ WF_vars(SweepLists)
    /\ \A s \in Sources : WF_vars(SweepConsults(s)) /\ WF_vars(RuntimeClearsMark(s))
    /\ \A t \in Refreshers : WF_vars(dispatch_refresh(t))
    /\ \A t \in Tasks : WF_vars(TaskStep(t)) /\ SF_vars(IngestStarts(t))
    /\ \A e \in Editors : WF_vars(EditorStep(e))

FairSpec == Spec /\ Fairness

-----------------------------------------------------------------------------
(* Properties. *)

\* acquire_source and InFlightGuard: a source is marked as in flight exactly
\* while one task waits for a permit or ingests for it, whatever panics; a mark
\* the runtime still has to clear keeps every new task out.
Holders(s) == {t \in Tasks : task[t].pc \in Holding /\ task[t].source = s}
OneIngestPerSource ==
    \A s \in Sources :
        /\ mark[s] = "held" <=> Holders(s) # {}
        /\ \A t, u \in Holders(s) : t = u

\* ingest.rs writes the stamp only "once the payload has parsed and reconciled":
\* when a task comes to journal a success, the rows of its source are still
\* those of the configuration it fetched with, no other ingest has come between.
StampDescribesRows ==
    \A t \in Tasks : task[t].pc \in {"stored", "success"} =>
                        stored[task[t].source] = task[t].version

\* Ingests of one source never mix: one at a time, and what the one at work
\* stamps is what it stored.
IngestsDoNotMix == OneIngestPerSource /\ StampDescribesRows

\* sources::update resets the stamp when a fetch-relevant field changes: if no
\* save landed beside other work on its source, a stamp always stands for rows
\* reconciled under the configuration the row holds now.
StampCoversQuietEdits ==
    \A s \in Sources : ~overlapped[s] /\ row[s].stamp # Never => stored[s] = row[s].version

\* Not a property of this code (README, section 6), what
\* repo/sources.rs:155-160 says of every edit: a payload fetched under
\* other settings is not trusted for a TTL.
StampIsCurrent ==
    \A s \in Sources : ~TtlDue(row[s]) => stored[s] = row[s].version

\* Whatever a save, a fault or a backoff did to the row: once an enabled source
\* keeps its configuration, the network is asked under it again and again.
Fetching(s, v) ==
    \E t \in Tasks : task[t].pc = "fetch" /\ task[t].source = s /\ task[t].version = v
EditsAreFetched ==
    \A s \in Sources, v \in Version :
        <>[](row[s].enabled /\ row[s].version = v) => []<>Fetching(s, v)

\* The Drop of InFlightGuard: no panic, skipped task or contended removal keeps
\* a source marked for good.
MarksAreReleased == \A s \in Sources : []<>(mark[s] = "free")
==============================================================================
