------------------------------ MODULE EngineBatch ------------------------------
(***************************************************************************)
(* The tunnel lanes of the probe against meow-rs (fumox-probe main.rs      *)
(* probe_t2_batch and revive_quarantined_via_t2, meow.rs, clash.rs).  A    *)
(* lane vets its rows, writes and reloads the engine's configuration with  *)
(* one pinned address per host, and asks for a delay per row from parallel *)
(* tasks.  The engine may die and come back at any moment, and             *)
(* [probe].allow_private_targets is off.                                   *)
(***************************************************************************)
EXTENDS HostGate

CONSTANTS BatchRows,     \* rows a lane may draw
          HostOf,        \* row -> host
          HostAnswers,   \* host -> the answers its lookups may give
          Unwritable,    \* rows whose entry cannot be written as a Clash proxy
          Permits,       \* [probe].concurrency
          AbortThreshold, \* MEOW_ABORT_THRESHOLD
          BackoffInitial, BackoffMax, \* [meow].backoff_*_secs, in ticks
          MostAddresses, \* MAX_VETTED_ADDRESSES
          MaxOutages,    \* bound: how often the engine dies
          MaxLanes       \* bound: how many lanes run

ASSUME EngineAssumption == /\ BatchRows \subseteq Nat /\ IsFiniteSet(BatchRows)
                           /\ \A r \in BatchRows : HostOf[r] \in DOMAIN HostAnswers
                           /\ \A h \in DOMAIN HostAnswers : HostAnswers[h] \subseteq Seq(Address)
                           /\ MostAddresses \in Nat /\ MostAddresses >= 2
                           /\ {Permits, AbortThreshold, BackoffInitial} \subseteq Nat \ {0}
                           /\ BackoffMax \in Nat /\ BackoffMax >= BackoffInitial

VARIABLES engine,   \* [up, deaths, loaded]: loaded maps rows to the addresses a tunnel may dial
          retry,    \* [wait, backoff]: meow_retry_at and meow_backoff_secs
          lane,     \* the lane at work
          task,     \* row -> [at, n]: its delay task, n the failures it has counted
          guard,    \* BatchGuard: [consecutive, aborted]
          record    \* history, per lane: row -> <<journal rows, what the last one says, engine heard>>

engineVars == <<engine, retry, lane, task, guard, record>>

NoLane == [at |-> "none", kind |-> "none", rows |-> {}, pins |-> << >>, lanes |-> 0, backoffs |-> 0]
FreshGuard == [consecutive |-> 0, aborted |-> FALSE]
Task(at) == [at |-> at, n |-> 0]
NoTasks == [r \in BatchRows |-> Task("none")]
NoRecord == [r \in BatchRows |-> [count |-> 0, says |-> "nothing", heard |-> FALSE]]
EngineInit ==
    /\ engine = [up |-> TRUE, deaths |-> 0, loaded |-> << >>]
    /\ retry = [wait |-> 0, backoff |-> BackoffInitial]
    /\ lane = NoLane
    /\ task = NoTasks
    /\ guard = FreshGuard /\ record = NoRecord

backoff_meow(r) == [wait |-> r.backoff, backoff |-> IF 2 * r.backoff < BackoffMax THEN 2 * r.backoff ELSE BackoffMax]
meow_recovered == [wait |-> 0, backoff |-> BackoffInitial]

Journals(rows, says) ==
    record' = [r \in BatchRows |-> IF r \in rows THEN [record[r] EXCEPT !.count = @ + 1, !.says = says] ELSE record[r]]

-----------------------------------------------------------------------------
(* The surroundings: the engine and the clock.                              *)

EngineDies ==
    /\ engine.up /\ engine.deaths < MaxOutages
    /\ engine' = [engine EXCEPT !.up = FALSE, !.deaths = @ + 1]
    /\ UNCHANGED <<retry, lane, task, guard, record>>
EngineReturns ==
    /\ ~engine.up
    /\ engine' = [engine EXCEPT !.up = TRUE]
    /\ UNCHANGED <<retry, lane, task, guard, record>>
SecondsPass ==
    /\ retry.wait > 0
    /\ retry' = [retry EXCEPT !.wait = @ - 1]
    /\ UNCHANGED <<engine, lane, task, guard, record>>

-----------------------------------------------------------------------------
(* A lane up to the reload.                                                 *)

\* Rows of one host share a pin, the last one inserted; a refused row has a
\* failed check.
LaneStarts ==
    /\ lane.at = "none" /\ lane.lanes < MaxLanes /\ retry.wait = 0
    /\ \E kind \in {"batch", "ladder"}, rows \in SUBSET BatchRows \ {{}},
          answer \in [BatchRows -> UNION {HostAnswers[h] : h \in DOMAIN HostAnswers}] :
          /\ \A r \in BatchRows : IF r \in rows THEN answer[r] \in HostAnswers[HostOf[r]]
                                  ELSE answer[r] = CHOOSE a \in HostAnswers[HostOf[r]] : TRUE
          /\ LET vetted == [r \in rows |-> vet_resolved_addrs(answer[r], FALSE, MostAddresses)]
                 passed == {r \in rows : vetted[r] # << >>}
             IN  /\ lane' = [lane EXCEPT
                               !.at = IF passed = {} THEN "done" ELSE "ping", !.kind = kind, !.rows = passed,
                               !.pins = [h \in {HostOf[r] : r \in passed} |->
                                   pick_vetted(vetted[CHOOSE r \in passed : HostOf[r] = h
                                                 /\ \A s \in passed : HostOf[s] = h => s <= r], "any")],
                               !.backoffs = 0, !.lanes = @ + 1]
                 /\ Journals(rows \ passed, "refused")
    /\ UNCHANGED <<engine, retry, task, guard>>

\* An outage stamps every row and backs off.
LaneFaults ==
    /\ retry' = backoff_meow(retry)
    /\ lane' = [lane EXCEPT !.at = "done", !.backoffs = @ + 1]
    /\ Journals(lane.rows, "fault")
    /\ UNCHANGED <<engine, task, guard>>

Pinged ==
    /\ lane.at = "ping"
    /\ IF engine.up THEN lane' = [lane EXCEPT !.at = "write"] /\ UNCHANGED <<engine, retry, task, guard, record>>
       ELSE LaneFaults

\* What a tunnel to the row may dial: the pinned address, or what the
\* engine's own lookup of a host name finds.
\* Mutant: the entry keeps its host name.
proxy_to_value_by_name(r, pins) ==
    UNION {{a[i] : i \in DOMAIN a} : a \in HostAnswers[HostOf[r]]}
proxy_to_value(r, pins) ==
    IF HostOf[r] \in DOMAIN pins THEN {pins[HostOf[r]]}
    ELSE UNION {{a[i] : i \in DOMAIN a} : a \in HostAnswers[HostOf[r]]}
generate(rows, pins) == [r \in rows \ Unwritable |-> proxy_to_value(r, pins)]

\* A configuration file that cannot be written ends the lane with an error.
WriteFails ==
    /\ lane.at = "write"
    /\ lane' = [lane EXCEPT !.at = "failed"]
    /\ UNCHANGED <<engine, retry, task, guard, record>>

\* Rows left out of the file have a failed check, the others a task.
Reloaded ==
    /\ lane.at = "write"
    /\ IF ~engine.up THEN LaneFaults
       ELSE LET file == generate(lane.rows, lane.pins)
            IN  /\ engine' = [engine EXCEPT !.loaded = file]
                /\ retry' = meow_recovered
                /\ guard' = FreshGuard
                /\ task' = [r \in BatchRows |-> IF r \in DOMAIN file THEN Task("waiting") ELSE task[r]]
                /\ lane' = [lane EXCEPT !.at = "tasks"]
                /\ Journals(lane.rows \ DOMAIN file, "unwritable")

-----------------------------------------------------------------------------
(* The tasks.                                                               *)

Holding == {r \in BatchRows : task[r].at \notin {"none", "waiting", "done"}}
Goes(r, to) == task' = [task EXCEPT ![r] = Task(to)]
Ends(r, says, heard) ==
    /\ Goes(r, "done")
    /\ record' = [record EXCEPT ![r] = [count |-> @.count + 1, says |-> says, heard |-> @.heard \/ heard]]

\* After an abort the rest of the batch is stamped without a request.
\* Mutant: the rest is dropped.
TakesPermit_drops(r) ==
    /\ task[r].at = "waiting" /\ Cardinality(Holding) < Permits
    /\ IF guard.aborted THEN Goes(r, "done") /\ UNCHANGED record
       ELSE Goes(r, "first") /\ UNCHANGED record
    /\ UNCHANGED <<engine, retry, lane, guard>>
TakesPermit(r) ==
    /\ task[r].at = "waiting" /\ Cardinality(Holding) < Permits
    /\ IF guard.aborted THEN Ends(r, "fault", FALSE)
       ELSE Goes(r, "first") /\ UNCHANGED record
    /\ UNCHANGED <<engine, retry, lane, guard>>

\* check_delay_with_retry: a live engine measures, or says the tunnel failed,
\* both final; it may also answer nonsense, as a dead one never answers.
record_recovered == guard' = [guard EXCEPT !.consecutive = IF lane.kind = "batch" THEN 0 ELSE @]
Measured(r) ==
    /\ task[r].at \in {"first", "second"} /\ engine.up
    /\ \E says \in {"ok", "dead"} : Ends(r, says, TRUE)
    /\ record_recovered
    /\ UNCHANGED <<engine, retry, lane>>
NoMeasure(r) ==
    /\ task[r].at \in {"first", "second"}
    /\ IF task[r].at = "first" THEN Goes(r, "second") /\ UNCHANGED record
       ELSE IF lane.kind = "ladder" THEN Ends(r, "fault", FALSE)
       ELSE Goes(r, "ping") /\ UNCHANGED record
    /\ UNCHANGED <<engine, retry, lane, guard>>

\* The batch asks the engine itself before it blames the row.
\* Mutant: two failed requests are enough.
Blames_unasked(r) == TRUE
Blames(r) == engine.up
Asked(r) ==
    /\ task[r].at = "ping"
    /\ IF Blames(r) THEN Ends(r, "blip", engine.up) /\ UNCHANGED guard
       ELSE /\ task' = [task EXCEPT ![r] = [at |-> "counted", n |-> guard.consecutive + 1]]
            /\ UNCHANGED record
            /\ guard' = [guard EXCEPT !.consecutive = @ + 1]
    /\ UNCHANGED <<engine, retry, lane>>

\* record_failure: the count and the swap are two atomics.
\* Mutant: the count alone decides.
Crossed_again(n) == n >= AbortThreshold
Crossed(n) == n >= AbortThreshold /\ ~guard.aborted
Recorded(r) ==
    /\ task[r].at = "counted"
    /\ LET crossed == Crossed(task[r].n)
       IN  /\ guard' = [guard EXCEPT !.aborted = @ \/ task[r].n >= AbortThreshold]
           /\ retry' = IF crossed THEN backoff_meow(retry) ELSE retry
           /\ lane' = [lane EXCEPT !.backoffs = IF crossed THEN @ + 1 ELSE @]
    /\ Ends(r, "fault", FALSE)
    /\ UNCHANGED engine

LaneEnds ==
    /\ \/ lane.at \in {"done", "failed"}
       \/ lane.at = "tasks" /\ \A r \in BatchRows : task[r].at \in {"none", "done"}
    /\ lane' = [NoLane EXCEPT !.lanes = lane.lanes]
    /\ task' = NoTasks
    /\ record' = NoRecord
    /\ UNCHANGED <<engine, retry, guard>>

EngineNext ==
    \/ EngineDies \/ EngineReturns \/ SecondsPass
    \/ LaneStarts \/ Pinged \/ WriteFails \/ Reloaded \/ LaneEnds
    \/ \E r \in BatchRows : TakesPermit(r) \/ Measured(r) \/ NoMeasure(r) \/ Asked(r) \/ Recorded(r)
EngineSpec == EngineInit /\ [][EngineNext]_engineVars

-----------------------------------------------------------------------------
(* Properties.                                                              *)

EngineTypeOK ==
    /\ retry.wait \in 0..BackoffMax /\ retry.backoff \in BackoffInitial..BackoffMax
    /\ guard.consecutive \in 0..Cardinality(BatchRows)
    /\ Cardinality(Holding) <= Permits
    /\ lane.at \in {"none", "ping", "write", "tasks", "done", "failed"}

\* main.rs, the recency queue: a lane that runs to its end leaves exactly one
\* journal row for every row it drew, whatever the engine did; nothing is
\* journaled twice on the way.
EveryRowIsJournaledOnce ==
    /\ \A r \in BatchRows : record[r].count <= 1
    /\ (lane.at = "done" \/ (lane.at = "tasks" /\ \A r \in BatchRows : task[r].at \in {"none", "done"}))
       => \A r \in lane.rows : record[r].count = 1

\* main.rs journal_engine_fault: a row is charged only for what the engine
\* said while the row was being checked; an outage charges nobody.
OutageChargesNobody ==
    \A r \in BatchRows : record[r].says \in {"dead", "blip"} => record[r].heard

\* main.rs BatchGuard: one lane doubles the backoff at most once, so a batch
\* of parallel failures cannot park the engine for the maximum.
OneBackoffPerLane == lane.backoffs <= 1

\* A T2 lane accounts for every row it drew, charges none for the engine's
\* faults and the engine once for all of them.
BatchIsAccountedFor == EveryRowIsJournaledOnce /\ OutageChargesNobody /\ OneBackoffPerLane

\* clash.rs: a tunnel dials only addresses the gate let through in this lane,
\* for rows that share a host too.
TunnelsAreVetted ==
    lane.at = "tasks" => \A r \in DOMAIN engine.loaded : \A a \in engine.loaded[r] : LeadsOut(a)
=============================================================================
