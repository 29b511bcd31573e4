------------------------- MODULE SourceRefreshProofs -------------------------
(***************************************************************************)
(* Theorems about SourceRefresh, for every number of sources, requests and *)
(* concurrent saves, every limit and every interval.                       *)
(*                                                                         *)
(* OneIngestPerSource is inductive over the types.  StampDescribesRows     *)
(* rests on it: nobody else reconciles the source between a task's own     *)
(* reconcile and its stamp.  StampCoversQuietEdits is not inductive, what  *)
(* is stamped and written back was read earlier; SnapshotsOK says of every *)
(* copy of a row still in use what the invariant says of the row.          *)
(***************************************************************************)
EXTENDS SourceRefresh, TLAPS

TaskOK ==
    /\ \A s \in Sources : task[s] \in Task \cup Listed \cup {NoTask}
    /\ \A t \in Refreshers : task[t] \in Task \cup Request \cup {NoTask}
    /\ DOMAIN task = Tasks

\* What the state of a task says about its record.
LEMMA TaskFacts ==
  ASSUME TaskOK, NEW t \in Tasks
  PROVE  /\ task[t].pc \in {"due"} \cup Holding => task[t] \in Task
         /\ task[t].pc = "listed" => task[t] \in Listed /\ t \in Sources
         /\ task[t].pc = "queued" => task[t] \in Request /\ t \in Refreshers
         /\ task[t].pc = "idle" <=> task[t] = NoTask
         /\ task[t].pc \in {"due", "listed", "queued", "idle"} \cup Holding
  BY DEF TaskOK, Tasks, Task, Listed, Request, NoTask, Holding, Ingesting

\* One task may be given any record of its kind.
LEMMA OneTaskChanges ==
  ASSUME TaskOK, NEW t \in Tasks, NEW v, task' = [task EXCEPT ![t] = v],
         t \in Sources => v \in Task \cup Listed \cup {NoTask},
         t \in Refreshers => v \in Task \cup Request \cup {NoTask}
  PROVE  TaskOK'
  BY DEF TaskOK, Tasks

\* A task that moves on to another state of an ingest stays a task.
LEMMA AdvancesTask ==
  ASSUME TaskOK, NEW t \in Tasks, task[t] \in Task, NEW l \in Holding, Advances(t, l)
  PROVE  TaskOK'
<1>1. task' = [task EXCEPT ![t] = [task[t] EXCEPT !.pc = l]]  BY DEF Advances
<1>2. [task[t] EXCEPT !.pc = l] \in Task  BY DEF Task
<1> QED  BY <1>1, <1>2, OneTaskChanges

\* A row that grows older stays a row.
LEMMA OlderFacts ==
  /\ \A a \in Age : Older(a) \in Age
  /\ \A a \in Time : Older(a) \in Time /\ (Older(a) = Never <=> a = Never)
  /\ \A r \in Row : OlderRow(r) \in Row
<1>1. MaxAge \in Nat  BY TimeAssumption DEF MaxAge
<1>2. /\ \A a \in Age : Older(a) \in Age
      /\ \A a \in Time : Older(a) \in Time /\ (Older(a) = Never <=> a = Never)
  BY <1>1 DEF Age, Time, Older, Never
<1> QED  BY <1>2 DEF OlderRow, Row

LEMMA SchedulerTypes ==
  ASSUME TypeOK, SchedulerStep
  PROVE  TypeOK'
<1> TaskOK  BY DEF TypeOK, TaskOK
<1>0. ASSUME TaskOK', UNCHANGED <<dbVars, mark, editor, overlapped, faults>>
      PROVE  TypeOK'
  BY <1>0 DEF TypeOK, TaskOK, dbVars
<1>1. CASE SweepLists
  <2> DEFINE given(s) == [pc |-> "listed", source |-> s, row |-> row[s]]
  <2>1. \A s \in Sources : given(s) \in Listed  BY DEF TypeOK, Listed
  <2>2. task' = [t \in Tasks |-> IF t \in {s \in Sources : row[s].enabled}
                                 THEN given(t) ELSE task[t]]
    BY <1>1 DEF SweepLists
  <2> HIDE DEF given
  <2>3. TaskOK'  BY <2>1, <2>2, TaskAssumption DEF TaskOK, Tasks
  <2> QED  BY <1>0, <1>1, <2>3 DEF SweepLists
<1>2. ASSUME NEW s \in Sources, SweepConsults(s) PROVE TypeOK'
  <2>1. s \in Tasks /\ task[s] \in Listed  BY <1>2, TaskFacts DEF SweepConsults, Tasks
  <2>2. Given(task[s].source, task[s].row) \in Task
    BY <1>2, <2>1, TimeAssumption DEF Given, Task, Listed, Row, Age, MaxAge
  <2>3. TaskOK'
    BY <1>2, <2>1, <2>2, OneTaskChanges, TaskAssumption DEF SweepConsults
  <2> QED  BY <1>0, <1>2, <2>3 DEF SweepConsults
<1>3. ASSUME NEW s \in Sources, RuntimeClearsMark(s) PROVE TypeOK'
  BY <1>3 DEF RuntimeClearsMark, TypeOK, dbVars
<1>4. ASSUME NEW t \in Refreshers, dispatch_refresh(t) PROVE TypeOK'
  <2>1. t \in Tasks /\ t \notin Sources /\ task[t] \in Request
    BY <1>4, TaskFacts, TaskAssumption DEF dispatch_refresh, Tasks
  <2>2. task[t].source \in Sources /\ row[task[t].source] \in Row  BY <2>1 DEF TypeOK, Request
  <2>3. Given(task[t].source, row[task[t].source]) \in Task
    BY <2>2, TimeAssumption DEF Given, Task, Row, Age, MaxAge
  <2>4. TaskOK'
    BY <1>4, <2>1, <2>3, OneTaskChanges DEF dispatch_refresh
  <2> QED  BY <1>0, <1>4, <2>4 DEF dispatch_refresh
<1> QED  BY <1>1, <1>2, <1>3, <1>4 DEF SchedulerStep

LEMMA IngestTypes ==
  ASSUME TypeOK, NEW t \in Tasks, TaskStep(t) \/ JournalWriteLost(t) \/ IngestPanics(t)
  PROVE  TypeOK'
<1> TaskOK  BY DEF TypeOK, TaskOK
<1>0. ASSUME NEW l \in Holding, task[t].pc \in {"due"} \cup Holding, Advances(t, l)
      PROVE  TaskOK' /\ task[t] \in Task
  BY <1>0, TaskFacts, AdvancesTask
<1>1. ASSUME TaskOK', UNCHANGED <<dbVars, editor, overlapped, faults>>,
             mark' \in [Sources -> {"free", "held", "runtime"}]
      PROVE  TypeOK'
  BY <1>1 DEF TypeOK, TaskOK, dbVars
<1>2. mark \in [Sources -> {"free", "held", "runtime"}]  BY DEF TypeOK
<1>3. ASSUME task' = [task EXCEPT ![t] = NoTask] PROVE TaskOK'
  BY <1>3, OneTaskChanges
<1>4. CASE acquire_source(t)
  <2>1. CASE mark[task[t].source] = "free"
    <3>1. Advances(t, "permit") /\ mark' = [mark EXCEPT ![task[t].source] = "held"]
      BY <1>4, <2>1 DEF acquire_source, Advances
    <3>2. TaskOK'  BY <1>0, <1>4, <3>1 DEF acquire_source, Spawned, Holding
    <3> QED  BY <1>1, <1>2, <1>4, <3>1, <3>2 DEF acquire_source
  <2>2. CASE mark[task[t].source] # "free"
    BY <1>1, <1>2, <1>3, <1>4, <2>2 DEF acquire_source
  <2> QED  BY <2>1, <2>2
<1>5. CASE IngestStarts(t)
  <2>1. task[t] \in Task  BY <1>5, TaskFacts DEF IngestStarts, Holding
  <2>2. task' = [task EXCEPT ![t] = [task[t] EXCEPT !.pc = "fetch", !.now = 0]]
    BY <1>5 DEF IngestStarts
  <2>4. [task[t] EXCEPT !.pc = "fetch", !.now = 0] \in Task
    <3>1. 0 \in Age  BY TimeAssumption DEF Age, MaxAge
    <3>2. "fetch" \in Holding  BY DEF Holding, Ingesting
    <3> QED  BY <2>1, <3>1, <3>2 DEF Task
  <2>3. TaskOK'  BY <2>2, <2>4, OneTaskChanges
  <2> QED  BY <1>1, <1>2, <1>5, <2>3 DEF IngestStarts
<1>6. CASE PayloadParsed(t)
  BY <1>0, <1>1, <1>2, <1>6 DEF PayloadParsed, Holding, Ingesting
<1>7. CASE AttemptFails(t)
  BY <1>0, <1>1, <1>2, <1>7 DEF AttemptFails, Holding, Ingesting
<1>8. CASE Reconciles(t)
  <2>1. TaskOK' /\ task[t] \in Task  BY <1>0, <1>8 DEF Reconciles, Holding, Ingesting
  <2> QED  BY <1>8, <2>1 DEF Reconciles, TypeOK, TaskOK, Task
<1>9. CASE insert_timed(t)
  <2>1. TaskOK' /\ task[t] \in Task
    BY <1>0, <1>9 DEF insert_timed, Holding, Ingesting
  <2>2. task[t].source \in Sources /\ task[t].now \in Time
    BY <2>1 DEF Task, Time
  <2>3. \E n \in 0 .. HistoryRows : Logged(t, n)
    BY <1>9, <2>2, LimitAssumption DEF insert_timed, MoreFailures, TypeOK, Journal
  <2>4. journal' \in [Sources -> Journal]
    BY <2>2, <2>3 DEF Logged, TypeOK, Journal
  <2> QED  BY <1>9, <2>1, <2>4 DEF insert_timed, TypeOK, TaskOK
<1>10. CASE record_fetch_outcome(t)
  <2>1. TaskOK' /\ task[t] \in Task
    BY <1>0, <1>10 DEF record_fetch_outcome, Holding, Ingesting
  <2>2. task[t].source \in Sources /\ task[t].now \in Age /\ task[t].now \in Time
    BY <2>1 DEF Task, Time
  <2>3. \E r \in Row : row' = [row EXCEPT ![task[t].source] = r]
    <3>1. row[task[t].source] \in Row  BY <2>2 DEF TypeOK
    <3>2. CASE task[t].pc = "success"
      <4> DEFINE r == [row[task[t].source] EXCEPT !.stamp = task[t].now, !.failed = FALSE,
                                                  !.updated = task[t].now]
      <4>1. r \in Row  BY <2>2, <3>1 DEF Row
      <4>2. row' = [row EXCEPT ![task[t].source] = r]  BY <1>10, <3>2 DEF record_fetch_outcome
      <4> QED  BY <4>1, <4>2
    <3>3. CASE task[t].pc = "failure"
      <4>1. [row[task[t].source] EXCEPT !.failed = TRUE] \in Row  BY <3>1 DEF Row
      <4>2. row' = [row EXCEPT ![task[t].source] = [row[task[t].source] EXCEPT !.failed = TRUE]]
        BY <1>10, <3>3 DEF record_fetch_outcome
      <4> QED  BY <4>1, <4>2
    <3> QED  BY <1>10, <3>2, <3>3 DEF record_fetch_outcome
  <2>4. row' \in [Sources -> Row]  BY <2>3 DEF TypeOK
  <2> QED  BY <1>10, <2>1, <2>4 DEF record_fetch_outcome, TypeOK, TaskOK
<1>11. CASE IngestEnds(t)
  BY <1>1, <1>2, <1>3, <1>11 DEF IngestEnds, DropsGuards
<1>12. ASSUME Fault PROVE faults' \in 0 .. MaxFaults
  BY <1>12, BoundAssumption DEF Fault, TypeOK
<1>13. CASE JournalWriteLost(t)
  <2>1. TaskOK'  BY <1>0, <1>13 DEF JournalWriteLost, Holding, Ingesting
  <2> QED  BY <1>12, <1>13, <2>1 DEF JournalWriteLost, TypeOK, TaskOK, dbVars
<1>14. CASE IngestPanics(t)
  <2>1. TaskOK'  BY <1>3, <1>14 DEF IngestPanics, DropsGuards
  <2> QED  BY <1>2, <1>12, <1>14, <2>1 DEF IngestPanics, DropsGuards, TypeOK, TaskOK, dbVars
<1> QED  BY <1>4, <1>5, <1>6, <1>7, <1>8, <1>9, <1>10, <1>11, <1>13, <1>14 DEF TaskStep

LEMMA SaveTypes ==
  ASSUME TypeOK,
         \/ \E e \in Editors : EditorStep(e)
         \/ \E e \in Editors, s \in Sources : build_source_from_form(e, s) \/ source_toggle(e, s)
  PROVE  TypeOK'
<1>1. ASSUME NEW e \in Editors, NEW v \in Edit \cup {NoEdit}, editor' = [editor EXCEPT ![e] = v],
             UNCHANGED <<row, journal, stored, mark, task, overlapped, faults>>,
             edits' \in 0 .. MaxEdits
      PROVE  TypeOK'
  BY <1>1 DEF TypeOK
<1>2. ASSUME NEW e \in Editors, NEW s \in Sources, NEW r \in Row, Begins(e, s, r)
      PROVE  \E v \in Edit \cup {NoEdit} : editor' = [editor EXCEPT ![e] = v]
  BY <1>2 DEF Begins, Edit
<1>3. edits \in 0 .. MaxEdits /\ 0 \in Age /\ \A s \in Sources : row[s] \in Row
  BY TimeAssumption DEF TypeOK, Age, MaxAge
<1>4. ASSUME NEW e \in Editors, NEW s \in Sources, build_source_from_form(e, s) PROVE TypeOK'
  <2>1. /\ \E v \in Version, on \in BOOLEAN : Begins(e, s, Posted(s, v, on))
        /\ edits' \in 0 .. MaxEdits
    BY <1>3, <1>4, BoundAssumption DEF build_source_from_form, Version
  <2>2. \A v \in Version, on \in BOOLEAN : Posted(s, v, on) \in Row  BY <1>3 DEF Posted, Row
  <2> QED  BY <1>1, <1>2, <1>4, <2>1, <2>2 DEF build_source_from_form
<1>5. ASSUME NEW e \in Editors, NEW s \in Sources, source_toggle(e, s) PROVE TypeOK'
  <2>1. [row[s] EXCEPT !.enabled = ~@, !.updated = 0] \in Row  BY <1>3 DEF Row
  <2> QED  BY <1>1, <1>2, <1>3, <1>5, <2>1 DEF source_toggle, dbVars
<1>6. ASSUME NEW e \in Editors, update_reads(e) PROVE TypeOK'
  <2>1. editor[e] \in Edit  BY <1>6 DEF update_reads, TypeOK, NoEdit
  <2> DEFINE new == editor[e].row
             r == IF fetch_stamp_stale(row[editor[e].source], new)
                  THEN [new EXCEPT !.stamp = Never] ELSE new
  <2>2. r \in Row  BY <2>1 DEF Edit, Row, Time
  <2>3. [editor[e] EXCEPT !.pc = "checked", !.row = r] \in Edit  BY <2>1, <2>2 DEF Edit
  <2>4. editor' = [editor EXCEPT ![e] = [editor[e] EXCEPT !.pc = "checked", !.row = r]]
    BY <1>6 DEF update_reads
  <2> QED  BY <1>1, <1>3, <1>6, <2>3, <2>4 DEF update_reads, dbVars
<1>7. ASSUME NEW e \in Editors, update_writes(e) PROVE TypeOK'
  <2>1. editor[e] \in Edit  BY <1>7 DEF update_writes, TypeOK, NoEdit
  <2>2. editor[e].source \in Sources /\ editor[e].row \in Row  BY <2>1 DEF Edit
  <2>3. row' \in [Sources -> Row]  BY <1>7, <2>2 DEF update_writes, TypeOK
  <2>4. overlapped' \in [Sources -> BOOLEAN]
    <3>1. \E b \in BOOLEAN : overlapped' = [overlapped EXCEPT ![editor[e].source] = b]
      BY <1>7 DEF update_writes, Beside, TypeOK
    <3> QED  BY <3>1 DEF TypeOK
  <2>5. editor' \in [Editors -> Edit \cup {NoEdit}]  BY <1>7 DEF update_writes, TypeOK
  <2> QED  BY <1>7, <2>3, <2>4, <2>5 DEF update_writes, TypeOK
<1> QED  BY <1>4, <1>5, <1>6, <1>7 DEF EditorStep

LEMMA SurroundingTypes ==
  ASSUME TypeOK, \/ \E t \in Refreshers, s \in Sources : source_refresh(t, s)
                 \/ Restart
                 \/ Tick
  PROVE  TypeOK'
<1> TaskOK  BY DEF TypeOK, TaskOK
<1>1. ASSUME NEW t \in Refreshers, NEW s \in Sources, source_refresh(t, s) PROVE TypeOK'
  <2>1. t \in Tasks /\ t \notin Sources  BY TaskAssumption DEF Tasks
  <2>2. [pc |-> "queued", source |-> s] \in Request  BY DEF Request
  <2>3. TaskOK'  BY <1>1, <2>1, <2>2, OneTaskChanges DEF source_refresh
  <2> QED  BY <1>1, <2>3 DEF source_refresh, TypeOK, TaskOK, dbVars
<1>2. CASE Restart
  BY <1>2, BoundAssumption DEF Restart, Fault, TypeOK, Tasks, dbVars
<1>3. CASE Tick
  <2>1. row' \in [Sources -> Row]  BY <1>3, OlderFacts DEF Tick, TypeOK
  <2>2. journal' \in [Sources -> Journal]  BY <1>3, OlderFacts DEF Tick, TypeOK, Journal
  <2>3. ASSUME NEW t \in Tasks PROVE
          \/ task'[t] = task[t]
          \/ task[t] \in Listed /\ t \in Sources /\ task'[t] \in Listed
          \/ task[t] \in Task /\ task'[t] \in Task
    <3>1. CASE task[t].pc = "listed"
      <4>1. task[t] \in Listed /\ t \in Sources /\ OlderRow(task[t].row) \in Row
        BY <3>1, TaskFacts, OlderFacts DEF Listed
      <4>2. task'[t] = [task[t] EXCEPT !.row = OlderRow(task[t].row)]  BY <1>3, <3>1 DEF Tick
      <4> QED  BY <4>1, <4>2 DEF Listed
    <3>2. CASE task[t].pc \in Ingesting
      <4>1. task[t] \in Task /\ task[t].pc # "listed"
        BY <3>2, TaskFacts DEF Holding, Ingesting
      <4>2. Older(task[t].now) \in Age  BY <4>1, OlderFacts DEF Task
      <4>3. task'[t] = [task[t] EXCEPT !.now = Older(task[t].now)]
        BY <1>3, <3>2, <4>1 DEF Tick
      <4> QED  BY <4>1, <4>2, <4>3 DEF Task
    <3>3. CASE task[t].pc # "listed" /\ task[t].pc \notin Ingesting
      BY <1>3, <3>3 DEF Tick
    <3> QED  BY <3>1, <3>2, <3>3
  <2>4. TaskOK'
    <3>1. DOMAIN task' = Tasks  BY <1>3 DEF Tick
    <3> QED  BY <2>3, <3>1, TaskAssumption DEF TaskOK, Tasks
  <2>5. editor' \in [Editors -> Edit \cup {NoEdit}]
    <3>1. ASSUME NEW e \in Editors, editor[e] # NoEdit
          PROVE  [editor[e] EXCEPT !.row = OlderRow(editor[e].row)] \in Edit
      BY <3>1, OlderFacts DEF TypeOK, Edit
    <3> QED  BY <1>3, <3>1 DEF Tick
  <2> QED  BY <1>3, <2>1, <2>2, <2>4, <2>5 DEF Tick, TypeOK, TaskOK
<1> QED  BY <1>1, <1>2, <1>3

\* Types, bounds included, hold for every limit and interval.
THEOREM TypeInvariant == Spec => []TypeOK
<1>1. Init => TypeOK
  BY TimeAssumption, BoundAssumption, LimitAssumption
  DEF Init, TypeOK, NewRow, Row, Journal, Time, Age, MaxAge, Version, Tasks
<1>2. TypeOK /\ [Next]_vars => TypeOK'
  <2>1. TypeOK /\ UNCHANGED vars => TypeOK'  BY DEF TypeOK, vars, dbVars
  <2>2. TypeOK /\ Next => TypeOK'
    BY SchedulerTypes, IngestTypes, SaveTypes, SurroundingTypes DEF Next
  <2> QED  BY <2>1, <2>2
<1> QED  BY <1>1, <1>2, PTL DEF Spec

-----------------------------------------------------------------------------
(* One ingest per source, and the rows its stamp stands for. *)

Stamping == {"stored", "success"}

\* Nobody changes roles, except that a task may come to the end of its stamping.
SameRoles ==
    \A t \in Tasks :
        /\ task'[t].pc \in Holding <=> task[t].pc \in Holding
        /\ task'[t].pc \in Stamping => task[t].pc \in Stamping
        /\ task'[t].pc \in Holding => /\ task'[t].source = task[t].source
                                      /\ task'[t].version = task[t].version

LEMMA RolesKeepBoth ==
  ASSUME OneIngestPerSource, StampDescribesRows, SameRoles, UNCHANGED <<mark, stored>>
  PROVE  OneIngestPerSource' /\ StampDescribesRows'
<1>1. Holding \cap Stamping = Stamping  BY DEF Holding, Ingesting, Stamping
<1>2. \A s \in Sources : Holders(s)' = Holders(s)  BY DEF SameRoles, Holders
<1>3. OneIngestPerSource'  BY <1>2 DEF OneIngestPerSource
<1>4. StampDescribesRows'  BY <1>1 DEF SameRoles, StampDescribesRows, Stamping
<1> QED  BY <1>3, <1>4

\* Steps of the loop, of saves and of the clock.
LEMMA OthersKeepRoles ==
  ASSUME TypeOK,
         \/ SweepLists
         \/ \E s \in Sources : SweepConsults(s)
         \/ \E t \in Refreshers : dispatch_refresh(t)
         \/ \E e \in Editors : EditorStep(e)
         \/ \E e \in Editors, s \in Sources : build_source_from_form(e, s) \/ source_toggle(e, s)
         \/ \E t \in Refreshers, s \in Sources : source_refresh(t, s)
         \/ Tick
  PROVE  SameRoles /\ UNCHANGED <<mark, stored>>
<1> TaskOK  BY DEF TypeOK, TaskOK
<1>0. ASSUME NEW t \in Tasks, NEW v, task' = [task EXCEPT ![t] = v],
             task[t].pc \notin Holding, v.pc \notin Holding
      PROVE  SameRoles
  BY <1>0 DEF SameRoles, TaskOK, Tasks, Stamping, Holding, Ingesting
<1>1. CASE SweepLists
  <2>1. \A t \in Tasks : \/ task'[t] = task[t]
                         \/ task[t] = NoTask /\ task'[t].pc = "listed"
    BY <1>1 DEF SweepLists, Sweeping, Tasks
  <2> QED  BY <1>1, <2>1 DEF SweepLists, SameRoles, Holding, Ingesting, Stamping, NoTask, dbVars
<1>2. ASSUME NEW s \in Sources, SweepConsults(s) PROVE SameRoles /\ UNCHANGED <<mark, stored>>
  <2> DEFINE v == IF is_due(task[s].row, journal[s]) THEN Given(task[s].source, task[s].row) ELSE NoTask
  <2>1. s \in Tasks /\ task' = [task EXCEPT ![s] = v]  BY <1>2 DEF SweepConsults, Tasks
  <2>2. v.pc \in {"due", "idle"}  BY DEF Given, NoTask
  <2> HIDE DEF v
  <2> QED  BY <1>0, <1>2, <2>1, <2>2 DEF SweepConsults, Holding, Ingesting, dbVars
<1>3. ASSUME NEW t \in Refreshers, dispatch_refresh(t)
      PROVE  SameRoles /\ UNCHANGED <<mark, stored>>
  <2> DEFINE v == Given(task[t].source, row[task[t].source])
  <2>1. t \in Tasks /\ task' = [task EXCEPT ![t] = v]  BY <1>3 DEF dispatch_refresh, Tasks
  <2>2. v.pc = "due"  BY DEF Given
  <2> HIDE DEF v
  <2> QED  BY <1>0, <1>3, <2>1, <2>2 DEF dispatch_refresh, Holding, Ingesting, dbVars
<1>4. ASSUME NEW t \in Refreshers, NEW s \in Sources, source_refresh(t, s)
      PROVE  SameRoles /\ UNCHANGED <<mark, stored>>
  <2> DEFINE v == [pc |-> "queued", source |-> s]
  <2>1. t \in Tasks /\ task[t].pc = "idle" /\ task' = [task EXCEPT ![t] = v]
    BY <1>4 DEF source_refresh, Tasks, NoTask
  <2>2. v.pc = "queued"  OBVIOUS
  <2> HIDE DEF v
  <2> QED  BY <1>0, <1>4, <2>1, <2>2 DEF source_refresh, Holding, Ingesting, dbVars
<1>5. CASE \/ \E e \in Editors : EditorStep(e)
           \/ \E e \in Editors, s \in Sources : build_source_from_form(e, s) \/ source_toggle(e, s)
  <2>1. UNCHANGED <<mark, stored, task>>
    BY <1>5 DEF EditorStep, update_reads, update_writes, build_source_from_form, source_toggle, dbVars
  <2> QED  BY <2>1 DEF SameRoles
<1>6. CASE Tick
  <2>1. ASSUME NEW t \in Tasks
        PROVE  /\ task'[t].pc = task[t].pc
               /\ task[t].pc \in Holding => /\ task'[t].source = task[t].source
                                            /\ task'[t].version = task[t].version
    <3>1. CASE task[t].pc = "listed"
      <4>1. task[t] \in Listed /\ task'[t] = [task[t] EXCEPT !.row = OlderRow(task[t].row)]
        BY <1>6, <3>1, TaskFacts DEF Tick
      <4> QED  BY <3>1, <4>1 DEF Listed, Holding, Ingesting
    <3>2. CASE task[t].pc \in Ingesting
      <4>1. task[t] \in Task /\ task[t].pc # "listed"
        BY <3>2, TaskFacts DEF Holding, Ingesting
      <4>2. task'[t] = [task[t] EXCEPT !.now = Older(task[t].now)]
        BY <1>6, <3>2, <4>1 DEF Tick
      <4> QED  BY <4>1, <4>2 DEF Task
    <3>3. CASE task[t].pc # "listed" /\ task[t].pc \notin Ingesting
      BY <1>6, <3>3 DEF Tick
    <3> QED  BY <3>1, <3>2, <3>3
  <2> QED  BY <1>6, <2>1 DEF Tick, SameRoles
<1> QED  BY <1>1, <1>2, <1>3, <1>4, <1>5, <1>6

\* The steps of a task that stays inside its ingest.
LEMMA IngestKeepsRoles ==
  ASSUME TypeOK, NEW t \in Tasks,
         \/ IngestStarts(t) \/ PayloadParsed(t) \/ AttemptFails(t)
         \/ insert_timed(t) \/ record_fetch_outcome(t) \/ JournalWriteLost(t)
  PROVE  SameRoles /\ UNCHANGED <<mark, stored>>
<1> TaskOK  BY DEF TypeOK, TaskOK
<1>1. task[t].pc \in Holding /\ task[t] \in Task
  BY TaskFacts DEF IngestStarts, PayloadParsed, AttemptFails, insert_timed, record_fetch_outcome,
     JournalWriteLost, Holding, Ingesting
<1>2. ASSUME NEW l \in Holding, Advances(t, l), l \in Stamping => task[t].pc \in Stamping
      PROVE  SameRoles
  <2>1. task'[t] = [task[t] EXCEPT !.pc = l] /\ \A u \in Tasks \ {t} : task'[u] = task[u]
    BY <1>2 DEF Advances, TaskOK
  <2> QED  BY <1>1, <1>2, <2>1 DEF SameRoles, Task
<1>3. CASE IngestStarts(t)
  <2>1. /\ task'[t] = [task[t] EXCEPT !.pc = "fetch", !.now = 0]
        /\ \A u \in Tasks \ {t} : task'[u] = task[u]
    BY <1>3 DEF IngestStarts, TaskOK
  <2> QED  BY <1>1, <1>3, <2>1 DEF IngestStarts, SameRoles, Task, Holding, Ingesting, Stamping, dbVars
<1>4. CASE PayloadParsed(t) \/ AttemptFails(t)
  BY <1>2, <1>4 DEF PayloadParsed, AttemptFails, Holding, Ingesting, Stamping, dbVars
<1>5. CASE insert_timed(t)
  BY <1>2, <1>5 DEF insert_timed, Holding, Ingesting, Stamping
<1>6. CASE record_fetch_outcome(t)
  BY <1>2, <1>6 DEF record_fetch_outcome, Holding, Ingesting, Stamping
<1>7. CASE JournalWriteLost(t)
  BY <1>2, <1>7 DEF JournalWriteLost, Holding, Ingesting, Stamping, dbVars
<1> QED  BY <1>3, <1>4, <1>5, <1>6, <1>7

\* The mark admits one task, its task alone reconciles, and goes with its guard.
LEMMA GuardedSteps ==
  ASSUME TypeOK, OneIngestPerSource, StampDescribesRows, NEW t \in Tasks,
         acquire_source(t) \/ Reconciles(t) \/ IngestEnds(t) \/ IngestPanics(t)
  PROVE  OneIngestPerSource' /\ StampDescribesRows'
<1> TaskOK  BY DEF TypeOK, TaskOK
<1>1. task[t] \in Task /\ task[t].source \in Sources
  BY TaskFacts DEF acquire_source, Spawned, Reconciles, IngestEnds, IngestPanics, Holding,
     Ingesting, Task
<1>s. PICK s \in Sources : s = task[t].source  BY <1>1
<1>2. CASE acquire_source(t) /\ mark[s] = "free"
  <2>1. /\ task'[t] = [task[t] EXCEPT !.pc = "permit"]
        /\ \A u \in Tasks \ {t} : task'[u] = task[u]
        /\ mark' = [mark EXCEPT ![s] = "held"] /\ stored' = stored
    BY <1>s, <1>2 DEF acquire_source, TaskOK, dbVars
  <2>2. task'[t].source = s /\ task'[t].pc = "permit"  BY <1>1, <1>s, <2>1 DEF Task
  <2>3. Holders(s) = {}  BY <1>1, <1>s, <1>2 DEF OneIngestPerSource
  <2>4. task[t].pc \notin Holding  BY <1>s, <2>3 DEF Holders
  <2>5. Holders(s)' = {t} /\ \A r \in Sources \ {s} : Holders(r)' = Holders(r)
    <3>1. "permit" \in Holding  BY DEF Holding
    <3>2. \A u \in Tasks : task'[u].pc \in Holding /\ task'[u].source = s <=> u = t
      BY <1>s, <2>1, <2>2, <2>3, <3>1 DEF Holders
    <3>3. \A r \in Sources \ {s}, u \in Tasks :
            task'[u].pc \in Holding /\ task'[u].source = r
              <=> task[u].pc \in Holding /\ task[u].source = r
      BY <1>s, <2>1, <2>2, <2>4
    <3> QED  BY <3>2, <3>3 DEF Holders
  <2>6. OneIngestPerSource'
    <3> SUFFICES ASSUME NEW r \in Sources
                 PROVE  (/\ mark[r] = "held" <=> Holders(r) # {}
                         /\ \A q, u \in Holders(r) : q = u)'
      BY DEF OneIngestPerSource
    <3>1. CASE r = s  BY <1>1, <1>s, <2>1, <2>5, <3>1 DEF TypeOK
    <3>2. CASE r # s
      <4>1. mark'[r] = mark[r] /\ Holders(r)' = Holders(r)  BY <2>1, <2>5, <3>2 DEF TypeOK
      <4> QED  BY <4>1 DEF OneIngestPerSource
    <3> QED  BY <3>1, <3>2
  <2>7. StampDescribesRows'
    BY <2>1, <2>2 DEF StampDescribesRows
  <2> QED  BY <2>6, <2>7
<1>3. CASE acquire_source(t) /\ mark[s] # "free"
  <2>1. /\ task'[t] = NoTask /\ task[t].pc = "due"
        /\ \A u \in Tasks \ {t} : task'[u] = task[u]
        /\ UNCHANGED <<mark, stored>>
    BY <1>s, <1>3 DEF acquire_source, Spawned, TaskOK, dbVars
  <2>2. SameRoles  BY <2>1 DEF SameRoles, NoTask, Holding, Ingesting, Stamping
  <2> QED  BY <2>1, <2>2, RolesKeepBoth
<1>4. CASE Reconciles(t)
  <2>1. /\ task'[t] = [task[t] EXCEPT !.pc = "stored"]
        /\ \A u \in Tasks \ {t} : task'[u] = task[u]
        /\ stored' = [stored EXCEPT ![s] = task[t].version] /\ mark' = mark
        /\ task[t].pc = "parsed"
    BY <1>s, <1>4 DEF Reconciles, Advances, TaskOK
  <2>2. task'[t].pc = "stored" /\ task'[t].source = s /\ task'[t].version = task[t].version
    BY <1>1, <1>s, <2>1 DEF Task
  <2>3. \A r \in Sources : Holders(r)' = Holders(r)
    <3>1. \A u \in Tasks : /\ task'[u].pc \in Holding <=> task[u].pc \in Holding
                          /\ task'[u].source = task[u].source
      BY <1>s, <2>1, <2>2 DEF Holding, Ingesting
    <3> QED  BY <3>1 DEF Holders
  <2>4. OneIngestPerSource'  BY <2>1, <2>3 DEF OneIngestPerSource
  <2>5. ASSUME NEW u \in Tasks, task'[u].pc \in Stamping
        PROVE  stored'[task'[u].source] = task'[u].version
    <3>1. CASE u = t  BY <1>1, <1>s, <2>1, <2>2, <3>1 DEF TypeOK
    <3>2. CASE u # t
      <4>1. task'[u] = task[u] /\ task[u].pc \in Holding
        BY <2>1, <2>5, <3>2 DEF Stamping, Holding, Ingesting
      <4>2. task[u].source # s
        BY <1>1, <1>s, <2>1, <3>2, <4>1 DEF OneIngestPerSource, Holders, Holding, Ingesting
      <4> QED  BY <2>1, <2>5, <4>1, <4>2 DEF StampDescribesRows, Stamping, TypeOK
    <3> QED  BY <3>1, <3>2
  <2> QED  BY <2>4, <2>5 DEF StampDescribesRows, Stamping
<1>5. CASE IngestEnds(t) \/ IngestPanics(t)
  <2>1. /\ task' = [task EXCEPT ![t] = NoTask] /\ stored' = stored /\ task[t].pc \in Holding
        /\ \E m \in {"free", "runtime"} : mark' = [mark EXCEPT ![s] = m]
    BY <1>s, <1>5 DEF IngestEnds, IngestPanics, DropsGuards, Holding, Ingesting, dbVars
  <2>2. task'[t] = NoTask /\ \A u \in Tasks \ {t} : task'[u] = task[u]  BY <2>1 DEF TaskOK
  <2>3. \A u \in Holders(s) : u = t  BY <1>1, <1>s, <2>1 DEF OneIngestPerSource, Holders
  <2>4. Holders(s)' = {} /\ \A r \in Sources \ {s} : Holders(r)' = Holders(r)
    <3>1. task'[t].pc \notin Holding  BY <2>2 DEF NoTask, Holding, Ingesting
    <3>2. \A u \in Tasks : task'[u].pc \in Holding /\ task'[u].source = s => FALSE
      BY <1>s, <2>2, <2>3, <3>1 DEF Holders
    <3>3. \A r \in Sources \ {s}, u \in Tasks :
            task'[u].pc \in Holding /\ task'[u].source = r
              <=> task[u].pc \in Holding /\ task[u].source = r
      BY <1>s, <2>2, <3>1
    <3> QED  BY <3>2, <3>3 DEF Holders
  <2>5. mark'[s] # "held" /\ \A r \in Sources \ {s} : mark'[r] = mark[r]
    BY <1>1, <1>s, <2>1 DEF TypeOK
  <2>6. OneIngestPerSource'
    <3> SUFFICES ASSUME NEW r \in Sources
                 PROVE  (/\ mark[r] = "held" <=> Holders(r) # {}
                         /\ \A q, u \in Holders(r) : q = u)'
      BY DEF OneIngestPerSource
    <3>1. CASE r = s  BY <2>4, <2>5, <3>1
    <3>2. CASE r # s
      <4>1. mark'[r] = mark[r] /\ Holders(r)' = Holders(r)  BY <2>4, <2>5, <3>2
      <4> QED  BY <4>1 DEF OneIngestPerSource
    <3> QED  BY <3>1, <3>2
  <2>7. StampDescribesRows'
    BY <2>1, <2>2 DEF StampDescribesRows, NoTask
  <2> QED  BY <2>6, <2>7
<1> QED  BY <1>2, <1>3, <1>4, <1>5

\* A source is in flight exactly while one task waits or ingests for it, and a task
\* that comes to stamp a success finds the rows it reconciled: acquire_source and the
\* Drop of InFlightGuard see to both, through panics and restarts.
THEOREM IngestsAreGuarded == Spec => []IngestsDoNotMix
<1>1. Init => OneIngestPerSource /\ StampDescribesRows
  BY DEF Init, OneIngestPerSource, StampDescribesRows, Holders, NoTask, Holding, Ingesting
<1>2. TypeOK /\ OneIngestPerSource /\ StampDescribesRows /\ [Next]_vars
        => OneIngestPerSource' /\ StampDescribesRows'
  <2> SUFFICES ASSUME TypeOK, OneIngestPerSource, StampDescribesRows, [Next]_vars
               PROVE  OneIngestPerSource' /\ StampDescribesRows'
    OBVIOUS
  <2>1. CASE SameRoles /\ UNCHANGED <<mark, stored>>  BY <2>1, RolesKeepBoth
  <2>2. CASE UNCHANGED vars  BY <2>1, <2>2 DEF vars, dbVars, SameRoles
  <2>3. ASSUME NEW t \in Tasks, TaskStep(t) \/ JournalWriteLost(t) \/ IngestPanics(t)
        PROVE  OneIngestPerSource' /\ StampDescribesRows'
    BY <2>1, <2>3, IngestKeepsRoles, GuardedSteps DEF TaskStep
  <2>4. ASSUME NEW s \in Sources, RuntimeClearsMark(s)
        PROVE  OneIngestPerSource' /\ StampDescribesRows'
    <3>1. /\ mark[s] = "runtime" /\ mark' = [mark EXCEPT ![s] = "free"]
          /\ UNCHANGED <<task, stored>>
      BY <2>4 DEF RuntimeClearsMark, dbVars
    <3>2. \A r \in Sources : (mark'[r] = "held" <=> mark[r] = "held") /\ Holders(r)' = Holders(r)
      BY <3>1 DEF TypeOK, Holders
    <3> QED  BY <3>1, <3>2 DEF OneIngestPerSource, StampDescribesRows
  <2>5. CASE Restart
    <3>1. /\ \A t \in Tasks : task'[t] = NoTask
          /\ \A s \in Sources : mark'[s] = "free"
      BY <2>5 DEF Restart
    <3> QED
      BY <3>1 DEF OneIngestPerSource, StampDescribesRows, Holders, NoTask, Holding, Ingesting
  <2> QED
    BY <2>1, <2>2, <2>3, <2>4, <2>5, OthersKeepRoles DEF Next, SchedulerStep
<1>3. OneIngestPerSource /\ StampDescribesRows <=> IngestsDoNotMix  BY DEF IngestsDoNotMix
<1> QED  BY <1>1, <1>2, <1>3, TypeInvariant, PTL DEF Spec

-----------------------------------------------------------------------------
(* What an edit that meets nothing else leaves behind. *)

Reads(t) == task[t].pc \notin {"idle", "queued"}
SnapshotVersion(t) == IF task[t].pc = "listed" THEN task[t].row.version ELSE task[t].version

RowOK(s) == row[s].stamp # Never => stored[s] = row[s].version
ReaderOK(t, s) == Reads(t) /\ task[t].source = s => SnapshotVersion(t) = row[s].version
SaveOK(e, s) ==
    editor[e] # NoEdit /\ editor[e].source = s /\ editor[e].row.stamp # Never =>
        /\ stored[s] = row[s].version
        /\ editor[e].pc = "checked" => editor[e].row.version = row[s].version

\* Unless saves overlapped, every copy of a row is of the configuration stored now,
\* and a stamp in any of them stands for rows of that configuration.
SnapshotsOK ==
    \A s \in Sources : ~overlapped[s] =>
        RowOK(s) /\ (\A t \in Tasks : ReaderOK(t, s)) /\ (\A e \in Editors : SaveOK(e, s))

\* Rows, saves and readers keep what SnapshotsOK says of them while nobody writes.
SameRows ==
    /\ UNCHANGED <<stored, overlapped>>
    /\ \A s \in Sources : /\ row'[s].version = row[s].version
                          /\ row'[s].stamp # Never => row[s].stamp # Never
SameSaves ==
    \A e \in Editors :
        editor'[e] # NoEdit =>
            /\ editor[e] # NoEdit /\ editor'[e].source = editor[e].source
            /\ editor'[e].pc = editor[e].pc
            /\ editor'[e].row.version = editor[e].row.version
            /\ editor'[e].row.stamp # Never => editor[e].row.stamp # Never
SameReader(t) ==
    Reads(t)' => /\ Reads(t) /\ task'[t].source = task[t].source
                 /\ SnapshotVersion(t)' = SnapshotVersion(t)

LEMMA SameIsOK ==
  ASSUME SnapshotsOK, SameRows, SameSaves,
         \A t \in Tasks, s \in Sources : SameReader(t) \/ ReaderOK(t, s)'
  PROVE  SnapshotsOK'
<1> SUFFICES ASSUME NEW s \in Sources, ~overlapped'[s]
             PROVE  RowOK(s)' /\ (\A t \in Tasks : ReaderOK(t, s)') /\ (\A e \in Editors : SaveOK(e, s)')
  BY DEF SnapshotsOK
<1>1. /\ ~overlapped[s] /\ stored'[s] = stored[s] /\ row'[s].version = row[s].version
      /\ row'[s].stamp # Never => row[s].stamp # Never
  BY DEF SameRows
<1>2. RowOK(s) /\ (\A t \in Tasks : ReaderOK(t, s)) /\ (\A e \in Editors : SaveOK(e, s))
  BY <1>1 DEF SnapshotsOK
<1>3. RowOK(s)'  BY <1>1, <1>2 DEF RowOK
<1>4. ASSUME NEW t \in Tasks PROVE ReaderOK(t, s)'
  <2>1. CASE SameReader(t)  BY <1>1, <1>2, <2>1 DEF SameReader, ReaderOK
  <2> QED  BY <2>1
<1>5. ASSUME NEW e \in Editors PROVE SaveOK(e, s)'
  BY <1>1, <1>2 DEF SaveOK, SameSaves
<1> QED  BY <1>3, <1>4, <1>5

\* A task that is given a row has the configuration stored at that moment.
LEMMA GivenOK ==
  ASSUME NEW t \in Tasks, NEW s \in Sources, NEW r \in Sources, NEW x,
         row'[r].version = row[r].version, x.version = row[r].version,
         task'[t] = Given(r, x)
  PROVE  ReaderOK(t, s)'
  BY DEF ReaderOK, SnapshotVersion, Given

LEMMA SchedulerSnapshots ==
  ASSUME TypeOK, SnapshotsOK, SchedulerStep
  PROVE  SnapshotsOK'
<1> TaskOK  BY DEF TypeOK, TaskOK
<1>0. ASSUME UNCHANGED <<dbVars, editor, overlapped>> PROVE SameRows /\ SameSaves
  BY <1>0 DEF SameRows, SameSaves, dbVars
<1>1. CASE SweepLists
  <2>1. ASSUME NEW t \in Tasks, NEW s \in Sources PROVE SameReader(t) \/ ReaderOK(t, s)'
    <3>1. \/ task'[t] = task[t]
          \/ t \in Sources /\ task'[t] = [pc |-> "listed", source |-> t, row |-> row[t]]
      BY <1>1 DEF SweepLists
    <3>2. row' = row  BY <1>1 DEF SweepLists, dbVars
    <3> QED  BY <3>1, <3>2 DEF SameReader, ReaderOK, Reads, SnapshotVersion
  <2> QED  BY <1>0, <1>1, <2>1, SameIsOK DEF SweepLists
<1>2. ASSUME NEW q \in Sources, SweepConsults(q) PROVE SnapshotsOK'
  <2>1. task[q].pc = "listed" /\ q \in Tasks  BY <1>2 DEF SweepConsults, Tasks
  <2>2. task'[q] = NoTask \/ task'[q] = Given(task[q].source, task[q].row)
    BY <1>2, <2>1 DEF SweepConsults, TaskOK
  <2>3. \A t \in Tasks \ {q} : task'[t] = task[t]  BY <1>2 DEF SweepConsults, TaskOK
  <2>4. SameReader(q)
    BY <2>1, <2>2 DEF SameReader, Reads, SnapshotVersion, NoTask, Given
  <2>5. \A t \in Tasks \ {q} : SameReader(t)
    BY <2>3 DEF SameReader, Reads, SnapshotVersion
  <2> QED  BY <1>0, <1>2, <2>4, <2>5, SameIsOK DEF SweepConsults
<1>3. ASSUME NEW q \in Sources, RuntimeClearsMark(q) PROVE SnapshotsOK'
  <2>1. \A t \in Tasks : SameReader(t)
    BY <1>3 DEF RuntimeClearsMark, SameReader, Reads, SnapshotVersion
  <2> QED  BY <1>0, <1>3, <2>1, SameIsOK DEF RuntimeClearsMark
<1>4. ASSUME NEW q \in Refreshers, dispatch_refresh(q) PROVE SnapshotsOK'
  <2>1. q \in Tasks /\ task[q] \in Request  BY <1>4, TaskFacts DEF dispatch_refresh, Tasks
  <2>2. PICK r \in Sources : r = task[q].source  BY <2>1 DEF Request
  <2>3. task'[q] = Given(r, row[r])  BY <1>4, <2>1, <2>2 DEF dispatch_refresh, TaskOK
  <2>4. row' = row /\ \A t \in Tasks \ {q} : task'[t] = task[t]
    BY <1>4 DEF dispatch_refresh, TaskOK, dbVars
  <2>5. \A s \in Sources : ReaderOK(q, s)'
    BY <2>1, <2>3, <2>4, GivenOK
  <2>6. \A t \in Tasks \ {q} : SameReader(t)
    BY <2>4 DEF SameReader, Reads, SnapshotVersion
  <2> QED  BY <1>0, <1>4, <2>5, <2>6, SameIsOK DEF dispatch_refresh
<1> QED  BY <1>1, <1>2, <1>3, <1>4 DEF SchedulerStep

LEMMA IngestSnapshots ==
  ASSUME TypeOK, StampDescribesRows, SnapshotsOK, NEW t \in Tasks,
         TaskStep(t) \/ JournalWriteLost(t) \/ IngestPanics(t)
  PROVE  SnapshotsOK'
<1> TaskOK  BY DEF TypeOK, TaskOK
<1>1. task[t].pc \in {"due"} \cup Holding /\ task[t] \in Task
  BY TaskFacts DEF TaskStep, acquire_source, Spawned, IngestStarts, PayloadParsed, AttemptFails,
     Reconciles, insert_timed, record_fetch_outcome, JournalWriteLost, IngestEnds, IngestPanics,
     Holding, Ingesting
<1>s. PICK s \in Sources : s = task[t].source  BY <1>1 DEF Task
\* Whatever the step, the other tasks are as they were and this one reads what it read.
<1>2. \A u \in Tasks : SameReader(u)
  <2>1. \A u \in Tasks \ {t} : task'[u] = task[u]
    BY DEF TaskStep, acquire_source, IngestStarts, PayloadParsed, AttemptFails, Reconciles,
       insert_timed, record_fetch_outcome, JournalWriteLost, IngestEnds, IngestPanics, Advances,
       DropsGuards, TaskOK
  <2>2. \/ task'[t] = NoTask
        \/ \E l \in Holding : task'[t] = [task[t] EXCEPT !.pc = l]
        \/ task'[t] = [task[t] EXCEPT !.pc = "fetch", !.now = 0]
    <3>1. CASE acquire_source(t)  BY <3>1 DEF acquire_source, TaskOK, Holding
    <3>2. CASE IngestStarts(t)  BY <3>2 DEF IngestStarts, TaskOK
    <3>3. CASE IngestEnds(t) \/ IngestPanics(t)
      BY <3>3 DEF IngestEnds, IngestPanics, DropsGuards, TaskOK
    <3>4. ASSUME NEW l \in Holding, Advances(t, l)
          PROVE  \E k \in Holding : task'[t] = [task[t] EXCEPT !.pc = k]
      BY <3>4 DEF Advances, TaskOK
    <3>5. CASE PayloadParsed(t) \/ AttemptFails(t) \/ Reconciles(t) \/ insert_timed(t)
                 \/ record_fetch_outcome(t) \/ JournalWriteLost(t)
      BY <3>4, <3>5 DEF PayloadParsed, AttemptFails, Reconciles, insert_timed,
         record_fetch_outcome, JournalWriteLost, Holding, Ingesting
    <3> QED  BY <3>1, <3>2, <3>3, <3>5 DEF TaskStep
  <2>3. \/ task'[t] = NoTask
        \/ task'[t].pc \in Holding /\ task'[t].source = s /\ task'[t].version = task[t].version
    BY <1>1, <1>s, <2>2 DEF Task, Holding, Ingesting
  <2>4. SameReader(t)
    BY <1>1, <1>s, <2>3 DEF SameReader, Reads, SnapshotVersion, NoTask, Holding, Ingesting
  <2>5. \A u \in Tasks \ {t} : SameReader(u)
    BY <2>1 DEF SameReader, Reads, SnapshotVersion
  <2> QED  BY <2>4, <2>5
<1>3. editor' = editor /\ overlapped' = overlapped
  BY DEF TaskStep, acquire_source, IngestStarts, PayloadParsed, AttemptFails, Reconciles,
     insert_timed, record_fetch_outcome, JournalWriteLost, IngestEnds, IngestPanics
<1>4. SameSaves  BY <1>3 DEF SameSaves
<1>5. CASE UNCHANGED <<row, stored>>
  <2>1. SameRows  BY <1>3, <1>5 DEF SameRows
  <2> QED  BY <1>2, <1>4, <2>1, SameIsOK
<1>6. ~overlapped[s] => task[t].version = row[s].version
  BY <1>1, <1>s DEF SnapshotsOK, ReaderOK, Reads, SnapshotVersion, Holding, Ingesting
\* The rows are now of the task's configuration, which is the one stored.
<1>7. CASE Reconciles(t)
  <2>1. /\ stored' = [stored EXCEPT ![s] = task[t].version] /\ row' = row
    BY <1>s, <1>7 DEF Reconciles
  <2> SUFFICES ASSUME NEW r \in Sources, ~overlapped'[r]
               PROVE  RowOK(r)' /\ (\A u \in Tasks : ReaderOK(u, r)')
                                /\ (\A e \in Editors : SaveOK(e, r)')
    BY DEF SnapshotsOK
  <2>2. RowOK(r) /\ (\A u \in Tasks : ReaderOK(u, r)) /\ (\A e \in Editors : SaveOK(e, r))
    BY <1>3 DEF SnapshotsOK
  <2>3. stored'[r] = row[r].version \/ stored'[r] = stored[r]
    BY <1>3, <1>6, <2>1 DEF TypeOK
  <2>4. \A u \in Tasks : ReaderOK(u, r)'
    BY <1>2, <2>1, <2>2 DEF SameReader, ReaderOK
  <2> QED  BY <1>3, <2>1, <2>2, <2>3, <2>4 DEF RowOK, SaveOK
\* A success stamps rows that are of the task's configuration.
<1>8. CASE record_fetch_outcome(t)
  <2>1. /\ stored' = stored
        /\ \A r \in Sources \ {s} : row'[r] = row[r]
        /\ \/ task[t].pc = "success" /\ row'[s].version = row[s].version
           \/ row'[s].version = row[s].version /\ row'[s].stamp = row[s].stamp
    <3>1. row[s] \in Row  BY DEF TypeOK
    <3>2. CASE task[t].pc = "success"
      <4>1. row' = [row EXCEPT ![s] = [row[s] EXCEPT !.stamp = task[t].now, !.failed = FALSE,
                                                     !.updated = task[t].now]]
        BY <1>s, <1>8, <3>2 DEF record_fetch_outcome
      <4> QED  BY <1>8, <3>1, <3>2, <4>1 DEF record_fetch_outcome, TypeOK, Row
    <3>3. CASE task[t].pc = "failure"
      <4>1. row' = [row EXCEPT ![s] = [row[s] EXCEPT !.failed = TRUE]]
        BY <1>s, <1>8, <3>3 DEF record_fetch_outcome
      <4> QED  BY <1>8, <3>1, <4>1 DEF record_fetch_outcome, TypeOK, Row
    <3> QED  BY <1>8, <3>2, <3>3 DEF record_fetch_outcome
  <2> SUFFICES ASSUME NEW r \in Sources, ~overlapped'[r]
               PROVE  RowOK(r)' /\ (\A u \in Tasks : ReaderOK(u, r)')
                                /\ (\A e \in Editors : SaveOK(e, r)')
    BY DEF SnapshotsOK
  <2>2. RowOK(r) /\ (\A u \in Tasks : ReaderOK(u, r)) /\ (\A e \in Editors : SaveOK(e, r))
    BY <1>3 DEF SnapshotsOK
  <2>3. row'[r].version = row[r].version  BY <2>1
  <2>4. RowOK(r)'
    <3>1. CASE r = s /\ task[t].pc = "success"
      BY <1>1, <1>s, <1>3, <1>6, <2>1, <2>3, <3>1 DEF RowOK, StampDescribesRows
    <3>2. CASE r # s \/ task[t].pc # "success"
      BY <2>1, <2>2, <2>3, <3>2 DEF RowOK
    <3> QED  BY <3>1, <3>2
  <2>5. \A u \in Tasks : ReaderOK(u, r)'
    BY <1>2, <2>2, <2>3 DEF SameReader, ReaderOK
  <2>6. \A e \in Editors : SaveOK(e, r)'
    BY <1>3, <2>1, <2>2, <2>3 DEF SaveOK
  <2> QED  BY <2>4, <2>5, <2>6
<1>9. Reconciles(t) \/ record_fetch_outcome(t) \/ UNCHANGED <<row, stored>>
  BY DEF TaskStep, acquire_source, IngestStarts, PayloadParsed, AttemptFails, insert_timed,
     JournalWriteLost, IngestEnds, IngestPanics, dbVars
<1> QED  BY <1>5, <1>7, <1>8, <1>9

\* A save begins from the row stored, keeps a stamp only when update finds its own
\* configuration stored, and is alone when it leaves the source marked as quiet.
LEMMA SaveSnapshots ==
  ASSUME TypeOK, SnapshotsOK,
         \/ \E e \in Editors : EditorStep(e)
         \/ \E e \in Editors, s \in Sources : build_source_from_form(e, s) \/ source_toggle(e, s)
  PROVE  SnapshotsOK'
<1> SUFFICES ASSUME NEW s \in Sources, ~overlapped'[s]
             PROVE  RowOK(s)' /\ (\A t \in Tasks : ReaderOK(t, s)') /\ (\A f \in Editors : SaveOK(f, s)')
  BY DEF SnapshotsOK
<1>1. task' = task /\ stored' = stored
  BY DEF EditorStep, update_reads, update_writes, build_source_from_form, source_toggle, dbVars
<1>2. ~overlapped[s] => RowOK(s) /\ (\A t \in Tasks : ReaderOK(t, s)) /\ (\A f \in Editors : SaveOK(f, s))
  BY DEF SnapshotsOK
<1>3. ASSUME UNCHANGED <<row, overlapped>>, NEW e \in Editors, SaveOK(e, s)',
             \A f \in Editors \ {e} : editor'[f] = editor[f]
      PROVE  RowOK(s)' /\ (\A t \in Tasks : ReaderOK(t, s)') /\ (\A f \in Editors : SaveOK(f, s)')
  <2>1. RowOK(s)' /\ \A t \in Tasks : ReaderOK(t, s)'
    BY <1>1, <1>2, <1>3 DEF RowOK, ReaderOK, Reads, SnapshotVersion
  <2>2. \A f \in Editors \ {e} : SaveOK(f, s)'  BY <1>1, <1>2, <1>3 DEF SaveOK
  <2> QED  BY <1>3, <2>1, <2>2
<1>4. ASSUME NEW e \in Editors, NEW q \in Sources, NEW r, Begins(e, q, r), row' = row,
             r.stamp = row[q].stamp, overlapped' = overlapped
      PROVE  SaveOK(e, s)' /\ \A f \in Editors \ {e} : editor'[f] = editor[f]
  <2>1. /\ editor'[e] = [pc |-> "loaded", source |-> q, row |-> r]
        /\ \A f \in Editors \ {e} : editor'[f] = editor[f]
    BY <1>4 DEF Begins, TypeOK
  <2> QED  BY <1>1, <1>2, <1>4, <2>1 DEF SaveOK, RowOK
<1>5. ASSUME NEW e \in Editors, NEW q \in Sources, build_source_from_form(e, q) \/ source_toggle(e, q)
      PROVE  RowOK(s)' /\ (\A t \in Tasks : ReaderOK(t, s)') /\ (\A f \in Editors : SaveOK(f, s)')
  <2>1. row[q] \in Row  BY DEF TypeOK
  <2>2. UNCHANGED <<row, overlapped>>
    BY <1>5 DEF build_source_from_form, source_toggle, dbVars
  <2>3. CASE build_source_from_form(e, q)
    <3>1. \E v, on : Begins(e, q, Posted(q, v, on))  BY <2>3 DEF build_source_from_form
    <3>2. \A v, on : Posted(q, v, on).stamp = row[q].stamp  BY <2>1 DEF Posted, Row
    <3> QED  BY <1>3, <1>4, <2>2, <3>1, <3>2
  <2>4. CASE source_toggle(e, q)
    <3>1. Begins(e, q, [row[q] EXCEPT !.enabled = ~@, !.updated = 0])  BY <2>4 DEF source_toggle
    <3>2. [row[q] EXCEPT !.enabled = ~@, !.updated = 0].stamp = row[q].stamp  BY <2>1 DEF Row
    <3> QED  BY <1>3, <1>4, <2>2, <3>1, <3>2
  <2> QED  BY <1>5, <2>3, <2>4
<1>6. ASSUME NEW e \in Editors, update_reads(e)
      PROVE  RowOK(s)' /\ (\A t \in Tasks : ReaderOK(t, s)') /\ (\A f \in Editors : SaveOK(f, s)')
  <2> DEFINE new == editor[e].row
             stale == fetch_stamp_stale(row[editor[e].source], new)
  <2>1. editor[e] \in Edit /\ editor[e].pc = "loaded" /\ editor[e] # NoEdit /\ new \in Row
    BY <1>6 DEF update_reads, TypeOK, NoEdit, Edit
  <2>2. /\ editor'[e] = [editor[e] EXCEPT !.pc = "checked",
                           !.row = IF stale THEN [new EXCEPT !.stamp = Never] ELSE new]
        /\ \A f \in Editors \ {e} : editor'[f] = editor[f]
        /\ UNCHANGED <<row, overlapped>>
    BY <1>6 DEF update_reads, TypeOK, dbVars
  <2>3. CASE stale
    <3>1. editor'[e].row.stamp = Never  BY <2>1, <2>2, <2>3 DEF Edit, Row
    <3> QED  BY <1>3, <2>2, <3>1 DEF SaveOK
  <2>4. CASE ~stale
    <3>1. /\ editor'[e].row = new /\ editor'[e].source = editor[e].source
          /\ new.version = row[editor[e].source].version
      BY <2>1, <2>2, <2>4 DEF Edit, fetch_stamp_stale
    <3>2. SaveOK(e, s)'  BY <1>1, <1>2, <2>1, <2>2, <3>1 DEF SaveOK
    <3> QED  BY <1>3, <2>2, <3>2
  <2> QED  BY <2>3, <2>4
<1>7. ASSUME NEW e \in Editors, update_writes(e)
      PROVE  RowOK(s)' /\ (\A t \in Tasks : ReaderOK(t, s)') /\ (\A f \in Editors : SaveOK(f, s)')
  <2>1. editor[e] \in Edit /\ editor[e].pc = "checked" /\ editor[e] # NoEdit
    BY <1>7 DEF update_writes, TypeOK, NoEdit
  <2>2. PICK q \in Sources : q = editor[e].source  BY <2>1 DEF Edit
  <2>3. /\ row' = [row EXCEPT ![q] = editor[e].row]
        /\ overlapped' = [overlapped EXCEPT ![q] = Beside(e, q)
                                                    \/ (overlapped[q] /\ editor[e].row.stamp # Never)]
        /\ editor' = [editor EXCEPT ![e] = NoEdit]
    BY <1>7, <2>2 DEF update_writes
  <2>4. editor'[e] = NoEdit /\ \A f \in Editors \ {e} : editor'[f] = editor[f]
    BY <2>3 DEF TypeOK
  <2>5. CASE q # s
    <3>1. row'[s] = row[s] /\ overlapped'[s] = overlapped[s]  BY <2>3, <2>5 DEF TypeOK
    <3>2. RowOK(s)' /\ \A t \in Tasks : ReaderOK(t, s)'
      BY <1>1, <1>2, <3>1 DEF RowOK, ReaderOK, Reads, SnapshotVersion
    <3>3. \A f \in Editors : SaveOK(f, s)'  BY <1>1, <1>2, <2>4, <3>1 DEF SaveOK
    <3> QED  BY <3>2, <3>3
  <2>6. CASE q = s
    <3>1. /\ row'[s] = editor[e].row /\ ~Beside(e, s)
          /\ overlapped[s] => editor[e].row.stamp = Never
      BY <2>3, <2>6 DEF TypeOK
    <3>2. RowOK(s)'  BY <1>1, <1>2, <2>1, <2>2, <2>6, <3>1 DEF RowOK, SaveOK
    <3>3. \A t \in Tasks : ReaderOK(t, s)'  BY <1>1, <3>1 DEF Beside, ReaderOK, Reads
    <3>4. \A f \in Editors : SaveOK(f, s)'  BY <2>4, <3>1 DEF Beside, SaveOK
    <3> QED  BY <3>2, <3>3, <3>4
  <2> QED  BY <2>5, <2>6
<1> QED  BY <1>5, <1>6, <1>7 DEF EditorStep

LEMMA SurroundingSnapshots ==
  ASSUME TypeOK, SnapshotsOK, \/ \E t \in Refreshers, s \in Sources : source_refresh(t, s)
                              \/ Restart
                              \/ Tick
  PROVE  SnapshotsOK'
<1> TaskOK  BY DEF TypeOK, TaskOK
<1>1. ASSUME NEW q \in Refreshers, NEW s \in Sources, source_refresh(q, s) PROVE SnapshotsOK'
  <2>1. q \in Tasks /\ task'[q].pc = "queued" /\ \A t \in Tasks \ {q} : task'[t] = task[t]
    BY <1>1 DEF source_refresh, Tasks, TaskOK
  <2>2. \A t \in Tasks : SameReader(t)  BY <2>1 DEF SameReader, Reads, SnapshotVersion
  <2>3. SameRows /\ SameSaves  BY <1>1 DEF source_refresh, SameRows, SameSaves, dbVars
  <2> QED  BY <2>2, <2>3, SameIsOK
<1>2. CASE Restart
  <2>1. SameRows /\ SameSaves /\ \A t \in Tasks : SameReader(t)
    BY <1>2 DEF Restart, SameRows, SameSaves, SameReader, Reads, NoTask, dbVars
  <2> QED  BY <2>1, SameIsOK
<1>3. CASE Tick
  <2>1. \A r \in Row : /\ OlderRow(r).version = r.version
                       /\ OlderRow(r).stamp # Never => r.stamp # Never
    BY OlderFacts DEF OlderRow, Row
  <2>2. SameRows  BY <1>3, <2>1 DEF Tick, SameRows, TypeOK
  <2>3. SameSaves
    <3> SUFFICES ASSUME NEW e \in Editors, editor'[e] # NoEdit
                 PROVE  /\ editor[e] # NoEdit /\ editor'[e].source = editor[e].source
                        /\ editor'[e].pc = editor[e].pc
                        /\ editor'[e].row.version = editor[e].row.version
                        /\ editor'[e].row.stamp # Never => editor[e].row.stamp # Never
      BY DEF SameSaves
    <3>1. editor[e] # NoEdit /\ editor'[e] = [editor[e] EXCEPT !.row = OlderRow(editor[e].row)]
      BY <1>3 DEF Tick
    <3>2. editor[e] \in Edit /\ editor[e].row \in Row  BY <3>1 DEF TypeOK, Edit
    <3> QED  BY <2>1, <3>1, <3>2 DEF Edit
  <2>4. ASSUME NEW t \in Tasks PROVE SameReader(t)
    <3>1. CASE task[t].pc = "listed"
      <4>1. task[t] \in Listed /\ task[t].row \in Row  BY <3>1, TaskFacts DEF Listed
      <4>2. task'[t] = [task[t] EXCEPT !.row = OlderRow(task[t].row)]  BY <1>3, <3>1 DEF Tick
      <4>3. /\ task'[t].pc = "listed" /\ task'[t].source = task[t].source
            /\ task'[t].row.version = task[t].row.version
        BY <2>1, <3>1, <4>1, <4>2 DEF Listed
      <4> QED  BY <3>1, <4>3 DEF SameReader, Reads, SnapshotVersion
    <3>2. CASE task[t].pc \in Ingesting
      <4>1. task[t] \in Task /\ task[t].pc # "listed"
        BY <3>2, TaskFacts DEF Holding, Ingesting
      <4>2. task'[t] = [task[t] EXCEPT !.now = Older(task[t].now)]
        BY <1>3, <3>2, <4>1 DEF Tick
      <4> QED  BY <3>2, <4>1, <4>2 DEF Task, SameReader, Reads, SnapshotVersion
    <3>3. CASE task[t].pc # "listed" /\ task[t].pc \notin Ingesting
      BY <1>3, <3>3 DEF Tick, SameReader, Reads, SnapshotVersion
    <3> QED  BY <3>1, <3>2, <3>3
  <2> QED  BY <2>2, <2>3, <2>4, SameIsOK
<1> QED  BY <1>1, <1>2, <1>3

\* If no save landed beside other work on its source, the stamp of a row stands for
\* proxies reconciled under the configuration the row holds now: the comparison in
\* sources::update is enough as long as the read it rests on is not overtaken.
THEOREM QuietEditsResetTheStamp == Spec => []StampCoversQuietEdits
<1>1. Init => SnapshotsOK
  BY DEF Init, SnapshotsOK, RowOK, ReaderOK, Reads, SaveOK, NewRow, NoTask
<1>2. TypeOK /\ StampDescribesRows /\ SnapshotsOK /\ [Next]_vars => SnapshotsOK'
  <2>1. TypeOK /\ SnapshotsOK /\ UNCHANGED vars => SnapshotsOK'
    BY DEF SnapshotsOK, RowOK, ReaderOK, Reads, SnapshotVersion, SaveOK, vars, dbVars
  <2>2. TypeOK /\ StampDescribesRows /\ SnapshotsOK /\ Next => SnapshotsOK'
    BY SchedulerSnapshots, IngestSnapshots, SaveSnapshots, SurroundingSnapshots DEF Next
  <2> QED  BY <2>1, <2>2
<1>3. SnapshotsOK => StampCoversQuietEdits
  BY DEF SnapshotsOK, StampCoversQuietEdits, RowOK
<1>4. IngestsDoNotMix => StampDescribesRows  BY DEF IngestsDoNotMix
<1> QED  BY <1>1, <1>2, <1>3, <1>4, TypeInvariant, IngestsAreGuarded, PTL DEF Spec
==============================================================================
