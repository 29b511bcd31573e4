--------------------------- MODULE ProxyLifecycle ---------------------------
(***************************************************************************)
(* The proxy lifecycle: the SQLite tables `proxies`, `proxy_source_links`, *)
(* `probe_requests` and `probe_results`, shared by two processes.          *)
(*   - fumox-probe runs its lanes one after another; inside a lane the     *)
(*     checks run concurrently, and a check writes its verdict long after  *)
(*     the lane selected the row;                                          *)
(*   - fumox-server ingests feeds, sweeps orphans, and runs the operator's *)
(*     resets, revivals, cleanups and purges at any moment in between.     *)
(* Each action is one transaction of the code.  Work handed from one       *)
(* transaction to the next is state (`inflight`, `handoff`, `orphanSweep`) *)
(* that a crash of its process loses.                                      *)
(***************************************************************************)
EXTENDS ProxyRow, FiniteSets

CONSTANTS Proxies,        \* row ids
          Sources,        \* source ids
          SchemeOf,       \* the scheme class of each row
          SampleSize,     \* [probe] sample_size, the quota of every lane
          EnqueueLimit,   \* the limit the callers of enqueue_checks pass
          DropGates,      \* the values [ingest] drop_gate takes while running
          EngineBacksOff, \* whether meow-rs may be in backoff when a cycle comes
          MaxFaults       \* bound: crashes, lost writes and failed lookups

ASSUME SchemeOfAssumption == SchemeOf \in [Proxies -> SchemeClass]
ASSUME QuotaAssumption == SampleSize \in Nat /\ EnqueueLimit \in Nat /\ MaxFaults \in Nat
ASSUME SwitchAssumption == DropGates \subseteq BOOLEAN /\ EngineBacksOff \in BOOLEAN

VARIABLES row,          \* proxies: the lifecycle columns of each id
          links,        \* proxy_source_links: the sources that link each id
          requests,     \* probe_requests: the ids in the priority queue
          journal,      \* probe_results: the newest failure and what follows it
          lane,         \* the lane of run_cycle the daemon is in
          inflight,     \* the check in flight for each id, in the daemon's memory
          queueClaimed, \* LaneOutcome.claimed of the queue lane
          t1Claimed,    \* LaneOutcome.claimed of the T1 sample
          handoff,      \* ids the server is about to enqueue
          orphanSweep,  \* source_delete is between its two statements
          faults

serverVars == <<handoff, orphanSweep>>
cycleVars == <<lane, queueClaimed, t1Claimed>>
vars == <<row, links, requests, journal, cycleVars, inflight, serverVars, faults>>

-----------------------------------------------------------------------------
Lanes == {"ladder_t2", "ladder", "queue", "t1", "t2"}
\* Mutation of T2Lanes: the connect check of the ladder passes for a tunnel check.
T2Lanes_with_ladder == {"ladder_t2", "ladder", "t2"}
T2Lanes == {"ladder_t2", "t2"}
LadderLanes == {"ladder_t2", "ladder"}

\* "pending": the check runs.  The others are journaled outcomes whose verdict
\* is not written yet; "ok_keep" is a T1 success that must keep fail_count.
Outcomes == {"pending", "ok", "ok_keep", "fail", "engine"}
Check == [lane : Lanes, step : 0 .. RecheckDelays, outcome : Outcomes]
NoCheck == [lane |-> "none", step |-> 0, outcome |-> "none"]
IdleChecks == [p \in Proxies |-> NoCheck]
Checking(p) == inflight[p].lane # "none"

\* Per id, the probe_kind class of the newest failed attempt still stored, and
\* whether a successful attempt newer than it is stored.
Journal == [failed : {"none", "t1", "t2"}, ok : {"none", "newer"}]
NoHistory == [failed |-> "none", ok |-> "none"]

TypeOK ==
    /\ row \in [Proxies -> Row]
    /\ links \in [Proxies -> SUBSET Sources]
    /\ requests \subseteq Proxies
    /\ journal \in [Proxies -> Journal]
    /\ lane \in Lanes \cup {"idle"}
    /\ inflight \in [Proxies -> Check \cup {NoCheck}]
    /\ queueClaimed \subseteq Proxies /\ t1Claimed \subseteq Proxies
    /\ handoff \subseteq Proxies
    /\ orphanSweep \in {"none", "due"}
    /\ faults \in 0 .. MaxFaults

Linked(p) == links[p] # {}
T1Probeable(p) == SchemeOf[p] \notin T1_EXCLUDED_SCHEMES

Init ==
    /\ row = [p \in Proxies |-> Blank("absent")]
    /\ links = [p \in Proxies |-> {}]
    /\ requests = {}
    /\ journal = [p \in Proxies |-> NoHistory]
    /\ lane = "idle" /\ inflight = IdleChecks
    /\ queueClaimed = {} /\ t1Claimed = {}
    /\ handoff = {} /\ orphanSweep = "none" /\ faults = 0

-----------------------------------------------------------------------------
(* Which rows each lane may draw. *)

select_t1_candidates(p) ==
    /\ row[p].status \in {"unknown", "alive"}
    /\ T1Probeable(p)
    /\ row[p].last_t2_failed_at = "null"
    /\ Linked(p)

select_queued_checks(p) ==
    /\ p \in requests
    /\ row[p].status = "unknown"
    /\ T1Probeable(p)
    /\ row[p].last_t2_failed_at = "null"
    /\ Linked(p)

\* Mutations of select_t2_candidates: whatever is not removed; only rows without a
\* T2 block.
select_t2_candidates_not_removed(p) ==
    row[p].status \in ProxyStatus \ {"removed"} /\ SchemeOf[p] \in T2_SCHEMES /\ Linked(p)
select_t2_candidates_unblocked(p) ==
    /\ row[p].status \in {"alive", "ready"} /\ row[p].last_t2_failed_at = "null"
    /\ SchemeOf[p] \in T2_SCHEMES /\ Linked(p)

select_t2_candidates(p) ==
    /\ \/ row[p].status \in {"alive", "ready"}
       \/ row[p].status = "unknown" /\ SchemeOf[p] = "hysteria2"
    /\ SchemeOf[p] \in T2_SCHEMES
    /\ Linked(p)

\* Mutation of select_due_quarantine: only linked rows, as in every other lane.
select_due_quarantine_linked(p) ==
    /\ row[p].status = "quarantine" /\ row[p].ladder_at = "due" /\ Linked(p)
    /\ SchemeOf[p] \notin T2_REVIVAL_SCHEMES

select_due_quarantine(p) ==
    /\ row[p].status = "quarantine" /\ row[p].ladder_at = "due"
    /\ SchemeOf[p] \notin T2_REVIVAL_SCHEMES

select_due_quarantine_t2(p) ==
    /\ row[p].status = "quarantine" /\ row[p].ladder_at = "due"
    /\ SchemeOf[p] \in T2_REVIVAL_SCHEMES

\* Every selector returns as many eligible rows as the quota allows.  Which
\* ones (a shuffled window, newest request, oldest T2 check) is left open.
Draws(eligible) ==
    {S \in SUBSET eligible :
        Cardinality(S) = IF Cardinality(eligible) <= SampleSize
                         THEN Cardinality(eligible) ELSE SampleSize}

-----------------------------------------------------------------------------
(* fumox-probe: one cycle.  A lane starts when the previous one is drained. *)

Drained == inflight = IdleChecks

Start(l, S) ==
    inflight' = [p \in Proxies |->
                    IF p \in S
                    THEN [lane |-> l, step |-> row[p].ladder_step, outcome |-> "pending"]
                    ELSE NoCheck]

\* In backoff a tunnel lane returns before it draws anything.
T2Draws(eligible) == Draws(eligible) \cup (IF EngineBacksOff THEN {{}} ELSE {})

probe_ladder_t2 ==
    /\ lane = "idle"
    /\ \E S \in T2Draws({p \in Proxies : select_due_quarantine_t2(p)}) :
          Start("ladder_t2", S)
    /\ lane' = "ladder_t2"
    /\ UNCHANGED <<row, links, requests, journal, queueClaimed, t1Claimed, serverVars, faults>>

probe_due_quarantine ==
    /\ lane = "ladder_t2" /\ Drained
    /\ \E S \in Draws({p \in Proxies : select_due_quarantine(p)}) : Start("ladder", S)
    /\ lane' = "ladder"
    /\ UNCHANGED <<row, links, requests, journal, queueClaimed, t1Claimed, serverVars, faults>>

\* The requests are deleted before their checks run.
probe_queued_checks ==
    /\ lane = "ladder" /\ Drained
    /\ \E S \in Draws({p \in Proxies : select_queued_checks(p)}) :
          /\ Start("queue", S)
          /\ requests' = requests \ S
          /\ queueClaimed' = S
    /\ lane' = "queue"
    /\ UNCHANGED <<row, links, journal, t1Claimed, serverVars, faults>>

\* Mutations of probe_t1_sample: the queue lane's claims are not skipped; rows
\* with a request are left to the queue.
probe_t1_sample_no_handoff ==
    /\ lane = "queue" /\ Drained
    /\ \E S \in Draws({p \in Proxies : select_t1_candidates(p)}) :
          Start("t1", S) /\ t1Claimed' = S
    /\ lane' = "t1"
    /\ UNCHANGED <<row, links, requests, journal, queueClaimed, serverVars, faults>>
probe_t1_sample_skips_requests ==
    /\ lane = "queue" /\ Drained
    /\ \E S \in Draws({p \in Proxies : select_t1_candidates(p)}) :
          Start("t1", S \ requests) /\ t1Claimed' = S \ requests
    /\ lane' = "t1"
    /\ UNCHANGED <<row, links, requests, journal, queueClaimed, serverVars, faults>>

probe_t1_sample ==
    /\ lane = "queue" /\ Drained
    /\ \E S \in Draws({p \in Proxies : select_t1_candidates(p)}) :
          /\ Start("t1", S \ queueClaimed)
          /\ t1Claimed' = S \ queueClaimed
    /\ lane' = "t1"
    /\ UNCHANGED <<row, links, requests, journal, queueClaimed, serverVars, faults>>

\* Mutation of probe_t2_batch: rows with a T2 block are left out of the batch.
probe_t2_batch_skips_blocked ==
    /\ lane = "t1" /\ Drained
    /\ \E S \in T2Draws({p \in Proxies : select_t2_candidates(p)}) :
          Start("t2", {p \in S \ t1Claimed : row[p].last_t2_failed_at = "null"})
    /\ lane' = "t2"
    /\ UNCHANGED <<row, links, requests, journal, queueClaimed, t1Claimed, serverVars, faults>>

probe_t2_batch ==
    /\ lane = "t1" /\ Drained
    /\ \E S \in T2Draws({p \in Proxies : select_t2_candidates(p)}) :
          Start("t2", S \ t1Claimed)
    /\ lane' = "t2"
    /\ UNCHANGED <<row, links, requests, journal, queueClaimed, t1Claimed, serverVars, faults>>

EndCycle ==
    /\ lane = "t2" /\ Drained
    /\ lane' = "idle" /\ queueClaimed' = {} /\ t1Claimed' = {}
    /\ UNCHANGED <<row, links, requests, journal, inflight, serverVars, faults>>

-----------------------------------------------------------------------------
(* One check: the outcome is journaled in a transaction of its own, then    *)
(* the verdict is written in another.  A refused target (vet) is a failure. *)

LaneKind(l) == IF l \in T2Lanes THEN "t2" ELSE "t1"

Journaled(p, o) ==
    IF o = "ok" THEN [journal[p] EXCEPT !.ok = "newer"]
    ELSE [failed |-> LaneKind(inflight[p].lane), ok |-> "none"]

\* Mutation of Decided: no success resets the counter.
Decided_always_keep(p, o, last) == IF o = "ok" THEN "ok_keep" ELSE o

\* A T1 success of a regular lane looks the last failure up to decide whether
\* it may reset the counter; a failed lookup keeps it.
Decided(p, o, last) ==
    IF o = "ok" /\ inflight[p].lane \in {"queue", "t1"} /\ last = "t2" THEN "ok_keep" ELSE o

\* Only a tunnel check can meet a dead engine.  `stored` is FALSE when the
\* best-effort journal insert fails, `found` when the lookup does.
Conclude(p) ==
    /\ inflight[p].outcome = "pending"
    /\ \E o \in {"ok", "fail"} \cup (IF inflight[p].lane \in T2Lanes THEN {"engine"} ELSE {}),
          stored, found \in BOOLEAN :
          /\ (stored /\ found) \/ faults < MaxFaults
          /\ journal' = IF stored /\ row[p].status \in ProxyStatus
                        THEN [journal EXCEPT ![p] = Journaled(p, o)] ELSE journal
          /\ inflight' = [inflight EXCEPT ![p].outcome =
                             Decided(p, o, IF found THEN journal'[p].failed ELSE "t2")]
          /\ faults' = IF stored /\ found THEN faults ELSE faults + 1
    /\ UNCHANGED <<row, links, requests, cycleVars, serverVars>>

\* Mutation of Verdict: the ladder charges an outage of the engine as a failure.
Verdict_charges_ladder(r, c) ==
    CASE c.outcome \in {"ok", "ok_keep"} ->
            check_succeeded(r, IF c.lane \in T2Lanes THEN "ready" ELSE "alive",
                            c.outcome = "ok")
      [] c.outcome \in {"fail", "engine"} /\ c.lane \in LadderLanes ->
            quarantine_check_failed(r, c.step)
      [] c.outcome = "engine" /\ c.lane \notin LadderLanes -> check_engine_unavailable(r)
      [] OTHER -> check_failed(r, c.lane = "t2")

\* The row after the verdict of its check, by lane and outcome.
Verdict(r, c) ==
    CASE c.outcome \in {"ok", "ok_keep"} ->
            check_succeeded(r, IF c.lane \in T2Lanes THEN "ready" ELSE "alive",
                            c.outcome = "ok")
      [] c.outcome = "engine" -> check_engine_unavailable(r)
      [] c.outcome = "fail" /\ c.lane \in LadderLanes -> quarantine_check_failed(r, c.step)
      [] OTHER -> check_failed(r, c.lane = "t2")

Judge(p) ==
    /\ inflight[p].outcome \in Outcomes \ {"pending"}
    /\ row' = [row EXCEPT ![p] = Verdict(@, inflight[p])]
    /\ inflight' = [inflight EXCEPT ![p] = NoCheck]
    /\ UNCHANGED <<links, requests, journal, cycleVars, serverVars, faults>>

\* The write of the verdict fails (SQLITE_BUSY past busy_timeout): logged only.
LoseVerdict(p) ==
    /\ inflight[p].outcome \in Outcomes \ {"pending"}
    /\ faults < MaxFaults
    /\ faults' = faults + 1
    /\ inflight' = [inflight EXCEPT ![p] = NoCheck]
    /\ UNCHANGED <<row, links, requests, journal, cycleVars, serverVars>>

\* A lane returns early on a database, config or file error, or the daemon
\* dies and restarts: every check in flight is gone, the next cycle is a new one.
CycleLost ==
    /\ lane # "idle"
    /\ faults < MaxFaults
    /\ faults' = faults + 1
    /\ lane' = "idle" /\ inflight' = IdleChecks
    /\ queueClaimed' = {} /\ t1Claimed' = {}
    /\ UNCHANGED <<row, links, requests, journal, serverVars>>

Due(p) ==
    /\ row[p].ladder_at = "later"
    /\ row' = [row EXCEPT ![p] = ComesDue(@)]
    /\ UNCHANGED <<links, requests, journal, cycleVars, inflight, serverVars, faults>>

-----------------------------------------------------------------------------
(* fumox-server: ingest.  `feed` is what is left after parsing and drop    *)
(* rules; its rows exist, keep their columns and are re-stamped, or are    *)
(* inserted.  Links this source did not stamp are stale.                   *)

\* Mutation of Loses: the link is stale although this feed stamped it.
Loses_stamped(p, s, feed) == s \in links[p]
Loses(p, s, feed) == p \notin feed /\ s \in links[p]

reconcile_source(s, feed, keep_alive_linger) ==
    LET inserted == {p \in feed : row[p].status = "absent"}
        Retire(p) == ~keep_alive_linger /\ row[p].status # "removed" /\ links[p] = {s}
                     /\ Loses(p, s, feed)
        Unlink(p) == Loses(p, s, feed) /\ (keep_alive_linger => row[p].status = "removed")
    IN  /\ \A p \in feed : row[p].status # "purged"
        /\ row' = [p \in Proxies |->
                      IF p \in inserted THEN Blank("unknown")
                      ELSE IF Retire(p) THEN Retired(row[p]) ELSE row[p]]
        /\ links' = [p \in Proxies |->
                      IF p \in feed THEN links[p] \cup {s}
                      ELSE IF Unlink(p) THEN links[p] \ {s} ELSE links[p]]
        /\ handoff' = handoff \cup inserted
        /\ UNCHANGED <<requests, journal, cycleVars, inflight, orphanSweep, faults>>

\* Mutation of ingest_source: drop rules retire rows also while the gate is off.
ingest_source_ungated(s) ==
    \E feed \in SUBSET Proxies, gate \in DropGates, has_drop_rules \in BOOLEAN :
        reconcile_source(s, feed, ~has_drop_rules)

\* The gate bites only on a source that has drop rules.
ingest_source(s) ==
    \E feed \in SUBSET Proxies, gate \in DropGates, has_drop_rules \in BOOLEAN :
        reconcile_source(s, feed, ~(gate /\ has_drop_rules))

\* The ids waiting in `handoff` are offered to the queue; past the limit, or
\* when the insert fails, they are left to the random sample.
enqueue_checks ==
    /\ handoff # {}
    /\ \E S \in SUBSET {p \in handoff : /\ row[p].status = "unknown"
                                        /\ T1Probeable(p) /\ Linked(p)} :
          /\ Cardinality(S) <= EnqueueLimit
          /\ requests' = requests \cup S
    /\ handoff' = {}
    /\ UNCHANGED <<row, links, journal, cycleVars, inflight, orphanSweep, faults>>

-----------------------------------------------------------------------------
(* fumox-server: the operator. *)

\* Bulk statements rewrite every row of S and leave the rest of the tables.
Rewrite(S, Op(_)) ==
    /\ S # {}
    /\ row' = [p \in Proxies |-> IF p \in S THEN Op(row[p]) ELSE row[p]]
    /\ UNCHANGED <<links, requests, journal, cycleVars, inflight, orphanSweep, faults>>

reset_status(p) ==
    /\ row[p].status \in ProxyStatus
    /\ Linked(p)
    /\ T1Probeable(p) \/ SchemeOf[p] = "hysteria2"
    /\ Rewrite({p}, Pristine)
    /\ handoff' = handoff \cup {p}

\* By fingerprint (ingest), country or ASN: any set of removed, linked rows.
revive_removed(S) ==
    /\ \A p \in S : row[p].status = "removed" /\ Linked(p)
    /\ Rewrite(S, Pristine)
    /\ handoff' = handoff \cup S

NeverProbed(p) == journal[p] = NoHistory

\* The second arm frees `unknown` rows held by a T2 block.
revive_removed_without_probe_history ==
    LET Frozen(p) == row[p].status = "unknown" /\ row[p].last_t2_failed_at = "set"
        S == {p \in Proxies : /\ row[p].status = "removed" \/ Frozen(p)
                              /\ NeverProbed(p) /\ Linked(p)}
    IN  Rewrite(S, Pristine) /\ handoff' = handoff \cup S

revive_quarantine ==
    LET S == {p \in Proxies : row[p].status = "quarantine" /\ Linked(p)}
    IN  Rewrite(S, Pristine) /\ handoff' = handoff \cup S

quarantine_to_removed ==
    /\ Rewrite({p \in Proxies : row[p].status = "quarantine"}, CleanedUp)
    /\ UNCHANGED handoff

\* By missing country, by country or by ASN: any set of live rows.
remove_alive(S) ==
    /\ \A p \in S : row[p].status \in {"alive", "ready"}
    /\ Rewrite(S, CleanedUp)
    /\ UNCHANGED handoff

remove_unprobeable_unknown ==
    /\ Rewrite({p \in Proxies : row[p].status = "unknown" /\ SchemeOf[p] = "unprobeable"},
               CleanedUp)
    /\ UNCHANGED handoff

\* ON DELETE CASCADE takes the links, the request and the history along.
purge_removed ==
    LET S == {p \in Proxies : row[p].status = "removed"}
    IN  /\ S # {}
        /\ row' = [p \in Proxies |-> IF p \in S THEN Blank("purged") ELSE row[p]]
        /\ links' = [p \in Proxies |-> IF p \in S THEN {} ELSE links[p]]
        /\ journal' = [p \in Proxies |-> IF p \in S THEN NoHistory ELSE journal[p]]
        /\ requests' = requests \ S
        /\ UNCHANGED <<cycleVars, inflight, serverVars, faults>>

\* source_delete: the source goes with its links, then the orphans are swept.
source_delete(s) ==
    /\ orphanSweep = "none"
    /\ links' = [p \in Proxies |-> links[p] \ {s}]
    /\ orphanSweep' = "due"
    /\ UNCHANGED <<row, requests, journal, cycleVars, inflight, handoff, faults>>

mark_orphans_removed ==
    /\ orphanSweep = "due"
    /\ \E gate \in DropGates :
          LET protected == IF gate THEN {} ELSE {"ready", "unknown"}
              Orphan(p) == /\ row[p].status \in ProxyStatus \ ({"removed"} \cup protected)
                           /\ ~Linked(p)
          IN  row' = [p \in Proxies |-> IF Orphan(p) THEN Retired(row[p]) ELSE row[p]]
    /\ orphanSweep' = "none"
    /\ UNCHANGED <<links, requests, journal, cycleVars, inflight, handoff, faults>>

\* The server dies between two statements.
ServerLost ==
    /\ faults < MaxFaults
    /\ handoff # {} \/ orphanSweep = "due"
    /\ faults' = faults + 1
    /\ handoff' = {} /\ orphanSweep' = "none"
    /\ UNCHANGED <<row, links, requests, journal, cycleVars, inflight>>

-----------------------------------------------------------------------------
(* Retention: settled and old requests, old history. *)

purge_requests(S) ==
    /\ S # {} /\ S \subseteq requests
    /\ requests' = requests \ S
    /\ UNCHANGED <<row, links, journal, cycleVars, inflight, serverVars, faults>>

\* The oldest attempts of the id go first: the failure, then the successes
\* after it.
purge_before(p) ==
    /\ journal[p] # NoHistory
    /\ \/ journal[p].failed # "none" /\ journal' = [journal EXCEPT ![p].failed = "none"]
       \/ journal' = [journal EXCEPT ![p] = NoHistory]
    /\ UNCHANGED <<row, links, requests, cycleVars, inflight, serverVars, faults>>

-----------------------------------------------------------------------------
CheckStep(p) == Conclude(p) \/ Judge(p) \/ LoseVerdict(p)

CycleStep == \/ probe_ladder_t2 \/ probe_due_quarantine \/ probe_queued_checks
             \/ probe_t1_sample \/ probe_t2_batch \/ EndCycle

OperatorStep ==
    \/ \E p \in Proxies : reset_status(p)
    \/ \E S \in SUBSET Proxies : revive_removed(S) \/ remove_alive(S)
    \/ revive_removed_without_probe_history \/ revive_quarantine
    \/ quarantine_to_removed \/ remove_unprobeable_unknown \/ purge_removed
    \/ \E s \in Sources : source_delete(s)

ServerStep ==
    \/ \E s \in Sources : ingest_source(s)
    \/ enqueue_checks \/ mark_orphans_removed \/ ServerLost
    \/ \E S \in SUBSET Proxies : purge_requests(S)
    \/ \E p \in Proxies : purge_before(p)

Next ==
    \/ CycleStep \/ CycleLost
    \/ \E p \in Proxies : CheckStep(p) \/ Due(p)
    \/ ServerStep
    \/ OperatorStep

Spec == Init /\ [][Next]_vars

\* The ticker of `run` never stops, every check has its timeouts, and the clock
\* reaches every `ladder_at`.
Fairness ==
    /\ WF_vars(CycleStep)
    /\ \A p \in Proxies : WF_vars(Conclude(p) \/ Judge(p)) /\ WF_vars(Due(p))

FairSpec == Spec /\ Fairness

-----------------------------------------------------------------------------
(* Safety. *)

\* The schedule columns agree with the status, whichever of the two processes
\* wrote last: a regular row is below the fail limit and carries no schedule, a
\* quarantined one always has its next check scheduled on an existing rung, and
\* `removed_at` is stamped exactly on removed rows.
ScheduleMatches(r) ==
    /\ r.status \in Regular =>
          /\ r.fail_count < FailLimit
          /\ r.quarantined_at = "null" /\ r.ladder_at = "null" /\ r.ladder_step = 0
    /\ r.status = "quarantine" =>
          r.fail_count = FailLimit /\ r.quarantined_at = "set" /\ r.ladder_at # "null"
    /\ r.status \in ProxyStatus => (r.removed_at = "set" <=> r.status = "removed")

\* ScheduleMatches for every row (check_succeeded, check_failed,
\* quarantine_check_failed, RESET_SET and the cleanups each keep it).
SchedulesMatch == \A p \in Proxies : ScheduleMatches(row[p])

\* A `ready` row is tunnel-verified: its scheme has a tunnel check and no T2
\* failure or outage has been recorded since the last T2 success.
ReadyIsVerified ==
    \A p \in Proxies : row[p].status = "ready" =>
        SchemeOf[p] \in T2_SCHEMES /\ row[p].last_t2_failed_at = "null"

\* The step a ladder check took along at selection is still the row's step when
\* its verdict is written, although operator actions may hit the row meanwhile;
\* and no check of a regular lane is out for a quarantined row.
LadderCheckCurrent ==
    \A p \in Proxies : row[p].status = "quarantine" /\ Checking(p) =>
        inflight[p].lane \in LadderLanes /\ inflight[p].step = row[p].ladder_step

InSomeLane(p) ==
    \/ select_t1_candidates(p) \/ select_t2_candidates(p)
    \/ row[p].status = "quarantine" /\ row[p].ladder_at # "null"

\* A linked row past its first verdict is always in a lane: no status the probe
\* hands out is a dead end (T2_SCHEMES, T1_EXCLUDED_SCHEMES, last_t2_failed_at).
JudgedRowsStayInALane ==
    \A p \in Proxies :
        row[p].status \in {"alive", "ready", "quarantine"} /\ Linked(p) => InSomeLane(p)

\* The columns of a row tell one story, whichever of the two processes wrote
\* last and whatever check is still in flight: status and schedule, `ready` and
\* the T2 stamp, ladder step and the check out for it, status and lanes.
ColumnsAgree ==
    /\ SchedulesMatch
    /\ ReadyIsVerified
    /\ LadderCheckCurrent
    /\ JudgedRowsStayInALane

\* What reset_status promises of RESET_SET and the refusals: a linked row of a
\* probeable scheme that waits for a verdict is in a lane (or already being
\* checked).
NoRowFrozen ==
    \A p \in Proxies :
        row[p].status = "unknown" /\ Linked(p) /\ SchemeOf[p] # "unprobeable" =>
            InSomeLane(p) \/ Checking(p)

-----------------------------------------------------------------------------
(* Action properties. *)

\* A verdict that arrives after its row was removed or purged writes nothing.
RemovedIsTerminalForTheProbe ==
    [][\A p \in Proxies : Judge(p) /\ row[p].status \notin Regular \cup {"quarantine"}
                              => row' = row]_vars

\* The ladder is walked rung by rung: a quarantined row that stays quarantined
\* keeps its step or climbs one, and a verdict removes only from the last rung.
LadderWalk ==
    [][\A p \in Proxies : row[p].status = "quarantine" =>
          /\ row'[p].status = "quarantine" =>
                row'[p].ladder_step - row[p].ladder_step \in {0, 1}
          /\ Judge(p) /\ row'[p].status = "removed" =>
                row[p].ladder_step = RecheckDelays]_vars

\* An engine outage is never charged: it neither moves the fail counter nor
\* puts a row on, along or off the ladder.
OutageIsNotCharged ==
    [][\A p \in Proxies : Judge(p) /\ inflight[p].outcome = "engine" =>
          /\ row'[p].fail_count = row[p].fail_count
          /\ row'[p].ladder_at = row[p].ladder_at
          /\ row'[p].ladder_step = row[p].ladder_step]_vars

\* Ingest and source deletion own no lifecycle: a row they meet keeps every
\* column, is inserted fresh, or is retired, and then only with no link left and,
\* while drop_gate is off, never out of `ready` or `unknown`.
FeedOwnsNoLifecycle ==
    [][ServerStep =>
         \A p \in Proxies : row'[p] # row[p] =>
            \/ row[p].status = "absent" /\ row'[p] = Blank("unknown")
            \/ /\ row'[p] = Retired(row[p]) /\ links'[p] = {}
               /\ TRUE \notin DropGates => row[p].status \notin {"ready", "unknown"}]_vars

\* A waiting row that T1 and the queue refuse (select_t1_candidates,
\* select_queued_checks): nothing but a T2 success or a reset frees it.
Blocked(r) == r.status = "unknown" /\ r.last_t2_failed_at = "set"

\* No reset, revival or insert leaves the T2 block of an earlier life on a row it
\* makes `unknown` (RESET_SET).  A waiting row is blocked by one thing only: the
\* failed tunnel check that finds it waiting, which for a scheme of both tiers was
\* drawn before a reset and is answered after it.
OnlyLateVerdictsFreeze ==
    [][\A p \in Proxies : Blocked(row'[p]) /\ ~Blocked(row[p]) =>
          /\ Judge(p) /\ row[p].status = "unknown"
          /\ inflight[p].lane \in T2Lanes /\ inflight[p].outcome \in {"fail", "engine"}]_vars

\* What no step may do, whoever takes it: a late verdict on a removed row, a
\* rung skipped or given up early, an outage charged, a verdict by the feed, a
\* waiting row shut out of T1 by anything but a tunnel check.
StepsAreLawful ==
    /\ RemovedIsTerminalForTheProbe
    /\ LadderWalk
    /\ OutageIsNotCharged
    /\ FeedOwnsNoLifecycle
    /\ OnlyLateVerdictsFreeze

\* The detailed lifecycle implements the status diagram of USERGUIDE.md.
Diagram == INSTANCE ProxyStatus
              WITH status <- [p \in Proxies |-> row[p].status],
                   TunnelRevived <- {p \in Proxies : SchemeOf[p] \in T2_REVIVAL_SCHEMES}
ImplementsDiagram == Diagram!Spec

-----------------------------------------------------------------------------
(* Liveness, under FairSpec. *)

\* A quarantined row of a T1 scheme leaves quarantine: revived or removed.
QuarantineEnds ==
    \A p \in Proxies : SchemeOf[p] \notin T2_REVIVAL_SCHEMES =>
        (row[p].status = "quarantine" ~> row[p].status # "quarantine")

\* A row that stays eligible for T1 is checked again and again, whatever becomes
\* of its queue request (lost hand-off, claimed and crashed, purged).
T1Reaches(p) == []<>(~select_t1_candidates(p) \/ inflight[p].lane \in {"queue", "t1"})
T1ReachesEveryone == \A p \in Proxies : T1Reaches(p)

\* A row T1 may not touch (ready, T2-blocked, hysteria2) gets its T2 check as
\* long as the engine is not backing off.
T2ReachesWhatT1Skips ==
    \A p \in Proxies :
        []<>(\/ ~select_t2_candidates(p) \/ select_t1_candidates(p)
             \/ inflight[p].lane = "t2")

\* Not a property of this code (README, section 6).  The comment on run_cycle
\* says it: a T1-covered alive row loses nothing, it is the head
\* of the next T2 batch.
T2ReachesEveryone ==
    \A p \in Proxies : []<>(~select_t2_candidates(p) \/ inflight[p].lane = "t2")
=============================================================================
