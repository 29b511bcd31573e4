------------------------ MODULE ProxyLifecycleProofs ------------------------
(***************************************************************************)
(* Proofs about ProxyLifecycle for every set of rows and sources and every *)
(* value of the limits.  The statements of the code write one row at a     *)
(* time or the same way on many, so the inductive invariant is a predicate *)
(* RowOK on a row, the check in flight for it and its scheme; one lemma    *)
(* per statement shows that it is kept.  The last part is about             *)
(* ProbeHistory: what a cycle charges a row and what its fail counter       *)
(* stands for; the invariant carries over because the history variables    *)
(* only observe.                                                            *)
(***************************************************************************)
EXTENDS ProbeHistory, TLAPS

RowOK(r, c, scheme) ==
    /\ ScheduleMatches(r)
    /\ r.status = "quarantine" /\ c.lane # "none" =>
          c.lane \in LadderLanes /\ c.step = r.ladder_step
    /\ c.lane \in T2Lanes => scheme \in T2_SCHEMES
    /\ c.lane # "none" => scheme # "unprobeable"
    /\ c.lane = "ladder_t2" => scheme \in T2_REVIVAL_SCHEMES
    /\ c.lane = "ladder" => scheme \notin T2_REVIVAL_SCHEMES
    /\ c.outcome = "ok_keep" => c.lane \in {"queue", "t1"}
    /\ c.outcome = "engine" => c.lane \in T2Lanes
    /\ r.status \in {"alive", "ready", "quarantine"} => scheme # "unprobeable"
    /\ r.last_t2_failed_at = "set" => scheme \in T2_SCHEMES
    /\ r.status = "ready" => scheme \in T2_SCHEMES /\ r.last_t2_failed_at = "null"

RowsOK ==
    /\ row \in [Proxies -> Row]
    /\ inflight \in [Proxies -> Check \cup {NoCheck}]
    /\ \A p \in Proxies : RowOK(row[p], inflight[p], SchemeOf[p])

LinksOK == \A p \in Proxies : Linked(p) => row[p].status \in ProxyStatus

\* The inductive invariant.
IInv == TypeOK /\ RowsOK /\ LinksOK

USE FailLimitAssumption, RecheckDelaysAssumption

-----------------------------------------------------------------------------
\* A row is the record of its columns.
LEMMA RowIsItsColumns ==
  ASSUME NEW status \in Status, NEW fail_count \in 0 .. FailLimit,
         NEW quarantined_at \in Stamp, NEW ladder_at \in {"null", "later", "due"},
         NEW ladder_step \in 0 .. RecheckDelays, NEW removed_at \in Stamp,
         NEW last_t2_failed_at \in Stamp
  PROVE  [status |-> status, fail_count |-> fail_count, quarantined_at |-> quarantined_at,
          ladder_at |-> ladder_at, ladder_step |-> ladder_step,
          removed_at |-> removed_at, last_t2_failed_at |-> last_t2_failed_at] \in Row
  BY DEF Row

\* The columns of a row have the types of the table.
LEMMA ColumnsOfARow ==
  ASSUME NEW r \in Row
  PROVE  /\ r.status \in Status /\ r.fail_count \in 0 .. FailLimit
         /\ r.quarantined_at \in Stamp /\ r.ladder_at \in {"null", "later", "due"}
         /\ r.ladder_step \in 0 .. RecheckDelays /\ r.removed_at \in Stamp
         /\ r.last_t2_failed_at \in Stamp
  BY DEF Row

\* check_succeeded leaves a row whose status and schedule columns agree.
LEMMA CheckSucceededOK ==
  ASSUME NEW r \in Row, NEW c \in Check, NEW scheme \in SchemeClass,
         RowOK(r, c, scheme), c.outcome \in {"ok", "ok_keep"},
         NEW to \in {"ready", "alive"}, to = "ready" <=> c.lane \in T2Lanes,
         NEW reset \in BOOLEAN, reset <=> c.outcome = "ok"
  PROVE  /\ check_succeeded(r, to, reset) \in Row
         /\ RowOK(check_succeeded(r, to, reset), NoCheck, scheme)
<1> DEFINE s == check_succeeded(r, to, reset)
           status == IF to = "ready" \/ r.status = "ready" THEN "ready" ELSE "alive"
           count == IF reset THEN 0 ELSE r.fail_count
           blocked == IF to = "ready" THEN "null" ELSE r.last_t2_failed_at
<1>1. CASE r.status \notin ProxyStatus \ {"removed"}
  BY <1>1 DEF check_succeeded, RowOK, NoCheck, LadderLanes, T2Lanes
<1>2. CASE r.status \in ProxyStatus \ {"removed"}
  <2>1. s = [status |-> status, fail_count |-> count,
             quarantined_at |-> "null", ladder_at |-> "null", ladder_step |-> 0,
             removed_at |-> r.removed_at, last_t2_failed_at |-> blocked]
    BY <1>2 DEF check_succeeded, Row
  <2>2. count \in 0 .. FailLimit /\ count < FailLimit
    <3>1. CASE reset
      BY <3>1
    <3>2. CASE ~reset
      <4>1. c.lane \in {"queue", "t1"} /\ r.status \in Regular
        BY <3>2, <1>2 DEF RowOK, LadderLanes, ProxyStatus
      <4> QED  BY <3>2, <4>1, ColumnsOfARow DEF RowOK, ScheduleMatches
    <3> QED  BY <3>1, <3>2
  <2>3. status \in {"ready", "alive"} /\ blocked \in Stamp
    BY ColumnsOfARow DEF Stamp
  <2>4. s \in Row
    <3> HIDE DEF s, status, count, blocked
    <3>1. status \in Status /\ "null" \in Stamp
      BY <2>3 DEF Status, ProxyStatus, Regular, Stamp
    <3> QED  BY <2>1, <2>2, <2>3, <3>1, ColumnsOfARow, RowIsItsColumns
  <2>5. r.removed_at = "null"
    BY <1>2, ColumnsOfARow DEF RowOK, ScheduleMatches, Stamp
  <2>6. ScheduleMatches(s)
    BY <2>1, <2>2, <2>3, <2>5 DEF ScheduleMatches, Regular
  <2>7. scheme # "unprobeable"
    BY DEF RowOK, Check, Lanes
  <2>8. RowOK(s, NoCheck, scheme)
    BY <2>1, <2>3, <2>6, <2>7 DEF RowOK, NoCheck, LadderLanes, T2Lanes
  <2> QED  BY <2>4, <2>8
<1> QED  BY <1>1, <1>2

\* check_failed counts, demotes `ready`, or opens quarantine with a schedule.
LEMMA CheckFailedOK ==
  ASSUME NEW r \in Row, NEW c \in Check, NEW scheme \in SchemeClass,
         RowOK(r, c, scheme), NEW mark \in BOOLEAN, mark => c.lane \in T2Lanes
  PROVE  /\ check_failed(r, mark) \in Row
         /\ RowOK(check_failed(r, mark), NoCheck, scheme)
<1> DEFINE s == check_failed(r, mark)
           blocked == IF mark THEN "set" ELSE r.last_t2_failed_at
<1>1. CASE r.status \notin Regular
  BY <1>1 DEF check_failed, RowOK, NoCheck, LadderLanes, T2Lanes
<1>2. CASE r.status \in Regular
  <2>1. /\ r.fail_count < FailLimit /\ r.quarantined_at = "null" /\ r.ladder_at = "null"
        /\ r.ladder_step = 0 /\ r.removed_at = "null"
    BY <1>2, ColumnsOfARow DEF RowOK, ScheduleMatches, Stamp, ProxyStatus, Regular
  <2>2. /\ blocked \in Stamp /\ scheme # "unprobeable"
        /\ blocked = "set" => scheme \in T2_SCHEMES
    BY ColumnsOfARow DEF RowOK, Stamp, Check, Lanes
  <2>3. CASE r.fail_count + 1 >= FailLimit
    <3>1. s = [status |-> "quarantine", fail_count |-> r.fail_count + 1,
               quarantined_at |-> "set", ladder_at |-> "later", ladder_step |-> 0,
               removed_at |-> r.removed_at, last_t2_failed_at |-> blocked]
      BY <1>2, <2>3 DEF check_failed, Row
    <3>2. r.fail_count + 1 = FailLimit
      BY <2>1, <2>3, ColumnsOfARow
    <3>3. s \in Row
      <4> HIDE DEF s, blocked
      <4>1. "quarantine" \in Status /\ "set" \in Stamp
        BY DEF Status, ProxyStatus, Stamp
      <4> QED  BY <2>2, <3>1, <3>2, <4>1, ColumnsOfARow, RowIsItsColumns
    <3>4. RowOK(s, NoCheck, scheme)
      <4> HIDE DEF blocked
      <4> QED  BY <2>1, <2>2, <3>1, <3>2
               DEF RowOK, ScheduleMatches, Regular, NoCheck, LadderLanes, T2Lanes
    <3> QED  BY <3>3, <3>4
  <2>4. CASE ~(r.fail_count + 1 >= FailLimit)
    <3> DEFINE status == IF r.status = "ready" THEN "alive" ELSE r.status
    <3>1. s = [status |-> status, fail_count |-> r.fail_count + 1,
               quarantined_at |-> r.quarantined_at, ladder_at |-> r.ladder_at,
               ladder_step |-> r.ladder_step,
               removed_at |-> r.removed_at, last_t2_failed_at |-> blocked]
      BY <1>2, <2>4 DEF check_failed, Row
    <3>2. status \in {"unknown", "alive"}
      BY <1>2 DEF Regular
    <3>3. r.fail_count + 1 \in 0 .. FailLimit /\ r.fail_count + 1 < FailLimit
      BY <2>4, ColumnsOfARow
    <3>4. s \in Row
      <4> HIDE DEF s, blocked, status
      <4>1. status \in Status
        BY <3>2 DEF Status, ProxyStatus, Regular
      <4> QED  BY <2>2, <3>1, <3>3, <4>1, ColumnsOfARow, RowIsItsColumns
    <3>5. RowOK(s, NoCheck, scheme)
      <4> HIDE DEF blocked, status
      <4> QED  BY <2>1, <2>2, <3>1, <3>2, <3>3
               DEF RowOK, ScheduleMatches, Regular, NoCheck, LadderLanes, T2Lanes
    <3> QED  BY <3>4, <3>5
  <2> QED  BY <2>3, <2>4
<1> QED  BY <1>1, <1>2

\* check_engine_unavailable demotes `ready` together with the T2 stamp.
LEMMA CheckEngineUnavailableOK ==
  ASSUME NEW r \in Row, NEW c \in Check, NEW scheme \in SchemeClass,
         RowOK(r, c, scheme), c.lane \in T2Lanes
  PROVE  /\ check_engine_unavailable(r) \in Row
         /\ RowOK(check_engine_unavailable(r), NoCheck, scheme)
<1> DEFINE s == check_engine_unavailable(r)
           status == IF r.status = "ready" THEN "alive" ELSE r.status
<1>1. CASE r.status \notin Regular
  BY <1>1 DEF check_engine_unavailable, RowOK, NoCheck, LadderLanes, T2Lanes
<1>2. CASE r.status \in Regular
  <2>1. s = [status |-> status, fail_count |-> r.fail_count,
             quarantined_at |-> r.quarantined_at, ladder_at |-> r.ladder_at,
             ladder_step |-> r.ladder_step,
             removed_at |-> r.removed_at, last_t2_failed_at |-> "set"]
    BY <1>2 DEF check_engine_unavailable, Row
  <2>2. status \in {"unknown", "alive"}
    BY <1>2 DEF Regular
  <2>3. scheme \in T2_SCHEMES /\ scheme # "unprobeable"
    BY DEF RowOK, T2_SCHEMES
  <2>4. s \in Row
    <3> HIDE DEF s, status
    <3>1. status \in Status /\ "set" \in Stamp
      BY <2>2 DEF Status, ProxyStatus, Regular, Stamp
    <3> QED  BY <2>1, <3>1, ColumnsOfARow, RowIsItsColumns
  <2>5. RowOK(s, NoCheck, scheme)
    <3> HIDE DEF status
    <3> QED  BY <1>2, <2>1, <2>2, <2>3
             DEF RowOK, ScheduleMatches, Regular, ProxyStatus, NoCheck, LadderLanes, T2Lanes
  <2> QED  BY <2>4, <2>5
<1> QED  BY <1>1, <1>2

\* quarantine_check_failed moves the row to the next rung or to `removed`.
LEMMA QuarantineCheckFailedOK ==
  ASSUME NEW r \in Row, NEW c \in Check, NEW scheme \in SchemeClass, RowOK(r, c, scheme)
  PROVE  /\ quarantine_check_failed(r, c.step) \in Row
         /\ RowOK(quarantine_check_failed(r, c.step), NoCheck, scheme)
<1> DEFINE s == quarantine_check_failed(r, c.step)
<1>1. CASE r.status # "quarantine"
  BY <1>1 DEF quarantine_check_failed, RowOK, NoCheck, LadderLanes, T2Lanes
<1>2. CASE r.status = "quarantine"
  <2>1. /\ r.fail_count = FailLimit /\ r.quarantined_at = "set" /\ r.removed_at = "null"
        /\ scheme # "unprobeable"
    BY <1>2, ColumnsOfARow DEF RowOK, ScheduleMatches, ProxyStatus, Stamp
  <2>2. c.step \in 0 .. RecheckDelays
    BY DEF Check
  <2>3. CASE c.step < RecheckDelays
    <3>1. s = [status |-> "quarantine", fail_count |-> r.fail_count,
               quarantined_at |-> r.quarantined_at, ladder_at |-> "later",
               ladder_step |-> c.step + 1,
               removed_at |-> r.removed_at, last_t2_failed_at |-> r.last_t2_failed_at]
      BY <1>2, <2>3 DEF quarantine_check_failed, Row
    <3>2. c.step + 1 \in 0 .. RecheckDelays
      BY <2>2, <2>3
    <3>3. s \in Row
      <4> HIDE DEF s
      <4> QED  BY <1>2, <3>1, <3>2, ColumnsOfARow, RowIsItsColumns
    <3>4. RowOK(s, NoCheck, scheme)
      BY <1>2, <2>1, <3>1 DEF RowOK, ScheduleMatches, Regular, NoCheck, LadderLanes, T2Lanes
    <3> QED  BY <3>3, <3>4
  <2>4. CASE ~(c.step < RecheckDelays)
    <3>1. s = [status |-> "removed", fail_count |-> r.fail_count,
               quarantined_at |-> r.quarantined_at, ladder_at |-> "null", ladder_step |-> 0,
               removed_at |-> "set", last_t2_failed_at |-> r.last_t2_failed_at]
      BY <1>2, <2>4 DEF quarantine_check_failed, Row
    <3>2. s \in Row
      <4> HIDE DEF s
      <4>1. "removed" \in Status /\ "set" \in Stamp
        BY DEF Status, ProxyStatus, Stamp
      <4> QED  BY <3>1, <4>1, ColumnsOfARow, RowIsItsColumns
    <3>3. RowOK(s, NoCheck, scheme)
      BY <1>2, <3>1 DEF RowOK, ScheduleMatches, Regular, NoCheck, LadderLanes, T2Lanes
    <3> QED  BY <3>2, <3>3
  <2> QED  BY <2>3, <2>4
<1> QED  BY <1>1, <1>2

\* Whatever the check was, the row it leaves behind is in order.
LEMMA VerdictOK ==
  ASSUME NEW r \in Row, NEW c \in Check, NEW scheme \in SchemeClass,
         RowOK(r, c, scheme), c.outcome # "pending"
  PROVE  Verdict(r, c) \in Row /\ RowOK(Verdict(r, c), NoCheck, scheme)
<1>1. CASE c.outcome \in {"ok", "ok_keep"}
  <2> DEFINE to == IF c.lane \in T2Lanes THEN "ready" ELSE "alive"
  <2>1. Verdict(r, c) = check_succeeded(r, to, c.outcome = "ok")
    BY <1>1 DEF Verdict
  <2>2. to \in {"ready", "alive"} /\ (to = "ready" <=> c.lane \in T2Lanes)
    OBVIOUS
  <2> HIDE DEF to
  <2> QED  BY <1>1, <2>1, <2>2, CheckSucceededOK
<1>2. CASE c.outcome = "engine"
  BY <1>2, CheckEngineUnavailableOK DEF Verdict, RowOK
<1>3. CASE c.outcome = "fail" /\ c.lane \in LadderLanes
  BY <1>3, QuarantineCheckFailedOK DEF Verdict
<1>4. CASE c.outcome = "fail" /\ c.lane \notin LadderLanes
  <2>1. Verdict(r, c) = check_failed(r, c.lane = "t2")
    BY <1>4 DEF Verdict
  <2>2. c.lane = "t2" => c.lane \in T2Lanes
    BY DEF T2Lanes
  <2> QED  BY <2>1, <2>2, CheckFailedOK
<1> QED  BY <1>1, <1>2, <1>3, <1>4 DEF Check, Outcomes

-----------------------------------------------------------------------------
(* The statements of the server keep the row in order with its check out.  *)

\* RESET_SET and the two writes around it leave nothing of the old row.
LEMMA PristineIsBlank ==
  ASSUME NEW r \in Row
  PROVE  Pristine(r) = Blank("unknown")
<1>1. ASSUME NEW q, q = RESET_SET(r), NEW s, s = Pristine(r)
      PROVE  s = Blank("unknown")
  <2>1. q = [status |-> r.status, fail_count |-> 0, quarantined_at |-> "null",
             ladder_at |-> "null", ladder_step |-> 0, removed_at |-> r.removed_at,
             last_t2_failed_at |-> "null"]
    BY <1>1 DEF RESET_SET, Row
  <2>2. s = [q EXCEPT !.status = "unknown", !.removed_at = "null"]
    BY <1>1 DEF Pristine
  <2> QED  BY <2>1, <2>2 DEF Blank
<1> QED  BY <1>1

\* A reset or revival leaves a row in order, whatever check is still out for it.
LEMMA PristineOK ==
  ASSUME NEW r \in Row, NEW c, NEW scheme \in SchemeClass, RowOK(r, c, scheme)
  PROVE  Pristine(r) \in Row /\ RowOK(Pristine(r), c, scheme)
<1>1. Blank("unknown") \in Row
  BY DEF Blank, Row, Stamp, Status, ProxyStatus, Regular
<1>2. RowOK(Blank("unknown"), c, scheme)
  BY DEF Blank, Regular, ProxyStatus, RowOK, ScheduleMatches
<1> QED  BY <1>1, <1>2, PristineIsBlank

\* A freshly inserted or purged row is in order.
LEMMA BlankOK ==
  ASSUME NEW r \in Row, NEW c, NEW scheme \in SchemeClass, RowOK(r, c, scheme),
         NEW status \in {"unknown", "purged", "absent"}
  PROVE  Blank(status) \in Row /\ RowOK(Blank(status), c, scheme)
  BY DEF Blank, Row, Stamp, Status, ProxyStatus, Regular, RowOK, ScheduleMatches

\* The operator's cleanups leave a removed row without a schedule.
LEMMA CleanedUpOK ==
  ASSUME NEW r \in Row, NEW c, NEW scheme \in SchemeClass, RowOK(r, c, scheme)
  PROVE  CleanedUp(r) \in Row /\ RowOK(CleanedUp(r), c, scheme)
<1>1. ASSUME NEW s, s = CleanedUp(r)
      PROVE  s \in Row /\ RowOK(s, c, scheme)
  <2>1. s = [status |-> "removed", fail_count |-> r.fail_count,
             quarantined_at |-> "null", ladder_at |-> "null", ladder_step |-> 0,
             removed_at |-> "set", last_t2_failed_at |-> r.last_t2_failed_at]
    BY <1>1 DEF CleanedUp, Row
  <2>2. "removed" \in Status /\ {"null", "set"} \subseteq Stamp
    BY DEF Status, ProxyStatus, Stamp
  <2>3. s \in Row
    BY <2>1, <2>2, ColumnsOfARow, RowIsItsColumns
  <2> QED  BY <2>1, <2>3 DEF Regular, ProxyStatus, RowOK, ScheduleMatches
<1> QED  BY <1>1

\* A retirement writes status and removed_at together.
LEMMA RetiredOK ==
  ASSUME NEW r \in Row, NEW c, NEW scheme \in SchemeClass, RowOK(r, c, scheme)
  PROVE  Retired(r) \in Row /\ RowOK(Retired(r), c, scheme)
  BY DEF Retired, Row, Stamp, Status, ProxyStatus, Regular, RowOK, ScheduleMatches

\* The clock moves ladder_at and nothing else.
LEMMA ComesDueOK ==
  ASSUME NEW r \in Row, NEW c, NEW scheme \in SchemeClass, RowOK(r, c, scheme),
         r.ladder_at = "later"
  PROVE  ComesDue(r) \in Row /\ RowOK(ComesDue(r), c, scheme)
  BY DEF ComesDue, Row, Stamp, Status, ProxyStatus, Regular, RowOK, ScheduleMatches

-----------------------------------------------------------------------------
(* The steps of the daemon. *)

\* A row whose check is over, or lost, stays in order.
LEMMA NoCheckOK ==
  ASSUME NEW r \in Row, NEW c \in Check \cup {NoCheck}, NEW scheme \in SchemeClass,
         RowOK(r, c, scheme)
  PROVE  RowOK(r, NoCheck, scheme)
  BY DEF RowOK, NoCheck, T2Lanes

\* What a lane must know of the rows it draws.
MayStart(r, l, scheme) ==
    /\ r.status = "quarantine" => l \in LadderLanes
    /\ l \in T2Lanes => scheme \in T2_SCHEMES
    /\ l = "ladder_t2" => scheme \in T2_REVIVAL_SCHEMES
    /\ l = "ladder" => scheme \notin T2_REVIVAL_SCHEMES
    /\ scheme # "unprobeable"

\* A lane that starts checks of eligible rows leaves them in order with their checks.
LEMMA StartOK ==
  ASSUME RowsOK, NEW l \in Lanes, NEW S \in SUBSET Proxies, Start(l, S), row' = row,
         \A p \in S : MayStart(row[p], l, SchemeOf[p])
  PROVE  RowsOK'
<1> USE SchemeOfAssumption
<1>1. ASSUME NEW p \in Proxies
      PROVE  inflight'[p] \in Check \cup {NoCheck} /\ RowOK(row[p], inflight'[p], SchemeOf[p])
  <2>1. row[p] \in Row /\ SchemeOf[p] \in SchemeClass /\ RowOK(row[p], inflight[p], SchemeOf[p])
        /\ inflight[p] \in Check \cup {NoCheck}
    BY DEF RowsOK
  <2>2. CASE p \notin S
    BY <2>1, <2>2, NoCheckOK DEF Start
  <2>3. CASE p \in S
    <3>1. inflight'[p] = [lane |-> l, step |-> row[p].ladder_step, outcome |-> "pending"]
      BY <2>3 DEF Start
    <3>2. inflight'[p] \in Check
      BY <2>1, <3>1, ColumnsOfARow DEF Check, Outcomes
    <3>3. MayStart(row[p], l, SchemeOf[p])
      BY <2>3
    <3> QED  BY <2>1, <3>1, <3>2, <3>3 DEF RowOK, MayStart
  <2> QED  BY <2>2, <2>3
<1>2. DOMAIN inflight' = Proxies /\ inflight' = [p \in Proxies |-> inflight'[p]]
  BY DEF Start
<1> QED  BY <1>1, <1>2 DEF RowsOK

\* Steps that write the rows of the table one by one and start no check.
LEMMA WriteOK ==
  ASSUME RowsOK, row' = [p \in Proxies |-> row'[p]], inflight' = inflight,
         \A p \in Proxies : row'[p] \in Row /\ RowOK(row'[p], inflight[p], SchemeOf[p])
  PROVE  RowsOK'
  BY DEF RowsOK

\* A lane draws eligible rows only (the LIMIT of every selector).
LEMMA DrawsAreSubsets ==
  ASSUME NEW E, NEW S \in T2Draws(E)
  PROVE  S \subseteq E
  BY DEF T2Draws, Draws

\* The start of a lane keeps every row in order with the check it starts.
LEMMA CycleStepRows ==
  ASSUME RowsOK, CycleStep
  PROVE  RowsOK'
<1>1. CASE probe_ladder_t2
  <2>1. PICK S \in T2Draws({p \in Proxies : select_due_quarantine_t2(p)}) : Start("ladder_t2", S)
    BY <1>1 DEF probe_ladder_t2
  <2>2. S \subseteq Proxies /\ \A p \in S : select_due_quarantine_t2(p)
    BY <2>1, DrawsAreSubsets
  <2>3. \A p \in S : MayStart(row[p], "ladder_t2", SchemeOf[p])
    BY <2>2 DEF select_due_quarantine_t2, MayStart, T2_REVIVAL_SCHEMES, T2_SCHEMES, LadderLanes
  <2> QED  BY <1>1, <2>1, <2>2, <2>3, StartOK DEF probe_ladder_t2, Lanes
<1>2. CASE probe_due_quarantine
  <2>1. PICK S \in Draws({p \in Proxies : select_due_quarantine(p)}) : Start("ladder", S)
    BY <1>2 DEF probe_due_quarantine
  <2>2. S \subseteq Proxies /\ \A p \in S : select_due_quarantine(p)
    BY <2>1 DEF Draws
  <2>3. \A p \in S : MayStart(row[p], "ladder", SchemeOf[p])
    BY <2>2 DEF select_due_quarantine, MayStart, LadderLanes, T2Lanes, RowsOK, RowOK
  <2> QED  BY <1>2, <2>1, <2>2, <2>3, StartOK DEF probe_due_quarantine, Lanes
<1>3. CASE probe_queued_checks
  <2>1. PICK S \in Draws({p \in Proxies : select_queued_checks(p)}) : Start("queue", S)
    BY <1>3 DEF probe_queued_checks
  <2>2. S \subseteq Proxies /\ \A p \in S : select_queued_checks(p)
    BY <2>1 DEF Draws
  <2>3. \A p \in S : MayStart(row[p], "queue", SchemeOf[p])
    BY <2>2 DEF select_queued_checks, MayStart, T2Lanes, T1Probeable, T1_EXCLUDED_SCHEMES
  <2> QED  BY <1>3, <2>1, <2>2, <2>3, StartOK DEF probe_queued_checks, Lanes
<1>4. CASE probe_t1_sample
  <2>1. PICK S \in Draws({p \in Proxies : select_t1_candidates(p)}) :
            Start("t1", S \ queueClaimed)
    BY <1>4 DEF probe_t1_sample
  <2>2. S \subseteq Proxies /\ \A p \in S : select_t1_candidates(p)
    BY <2>1 DEF Draws
  <2>3. \A p \in S \ queueClaimed : MayStart(row[p], "t1", SchemeOf[p])
    BY <2>2 DEF select_t1_candidates, MayStart, T2Lanes, T1Probeable, T1_EXCLUDED_SCHEMES
  <2> QED  BY <1>4, <2>1, <2>2, <2>3, StartOK DEF probe_t1_sample, Lanes
<1>5. CASE probe_t2_batch
  <2>1. PICK S \in T2Draws({p \in Proxies : select_t2_candidates(p)}) :
            Start("t2", S \ t1Claimed)
    BY <1>5 DEF probe_t2_batch
  <2>2. S \subseteq Proxies /\ \A p \in S : select_t2_candidates(p)
    BY <2>1, DrawsAreSubsets
  <2>3. \A p \in S \ t1Claimed : MayStart(row[p], "t2", SchemeOf[p])
    BY <2>2 DEF select_t2_candidates, MayStart, T2_SCHEMES
  <2> QED  BY <1>5, <2>1, <2>2, <2>3, StartOK DEF probe_t2_batch, Lanes
<1>6. CASE EndCycle
  BY <1>6 DEF EndCycle, RowsOK
<1> QED  BY <1>1, <1>2, <1>3, <1>4, <1>5, <1>6 DEF CycleStep

\* Journaling an outcome and writing a verdict keep every row in order.
LEMMA CheckStepRows ==
  ASSUME RowsOK, NEW p \in Proxies, CheckStep(p) \/ Due(p)
  PROVE  RowsOK'
<1> USE SchemeOfAssumption
<1>0. /\ row[p] \in Row /\ SchemeOf[p] \in SchemeClass
      /\ RowOK(row[p], inflight[p], SchemeOf[p]) /\ inflight[p] \in Check \cup {NoCheck}
  BY DEF RowsOK
<1>1. CASE Conclude(p)
  <2>1. PICK o \in {"ok", "fail"} \cup (IF inflight[p].lane \in T2Lanes THEN {"engine"} ELSE {}),
             found \in BOOLEAN :
             inflight' = [inflight EXCEPT ![p].outcome =
                             Decided(p, o, IF found THEN journal'[p].failed ELSE "t2")]
    BY <1>1 DEF Conclude
  <2> DEFINE d == Decided(p, o, IF found THEN journal'[p].failed ELSE "t2")
  <2>2. inflight[p].outcome = "pending" /\ inflight[p] \in Check /\ row' = row
    BY <1>0, <1>1 DEF Conclude, NoCheck
  <2>3. /\ d \in {"ok", "ok_keep", "fail", "engine"}
        /\ d = "ok_keep" => inflight[p].lane \in {"queue", "t1"}
        /\ d = "engine" => inflight[p].lane \in T2Lanes
    BY DEF Decided
  <2> HIDE DEF d
  <2>4. inflight' = [inflight EXCEPT ![p] = [inflight[p] EXCEPT !.outcome = d]]
    BY <2>1 DEF d
  <2>5. ASSUME NEW c, c = [inflight[p] EXCEPT !.outcome = d]
        PROVE  c \in Check /\ RowOK(row[p], c, SchemeOf[p])
    <3>1. c = [lane |-> inflight[p].lane, step |-> inflight[p].step, outcome |-> d]
      BY <2>2, <2>5 DEF Check
    <3>2. c \in Check
      BY <2>2, <2>3, <3>1 DEF Check, Outcomes
    <3>3. RowOK(row[p], c, SchemeOf[p])
      BY <1>0, <2>3, <3>1 DEF RowOK
    <3> QED  BY <3>2, <3>3
  <2> QED  BY <2>2, <2>4, <2>5 DEF RowsOK
<1>2. CASE Judge(p)
  <2>1. /\ row' = [row EXCEPT ![p] = Verdict(row[p], inflight[p])]
        /\ inflight' = [inflight EXCEPT ![p] = NoCheck]
        /\ inflight[p] \in Check /\ inflight[p].outcome # "pending"
    BY <1>0, <1>2 DEF Judge, Outcomes, NoCheck
  <2>2. /\ Verdict(row[p], inflight[p]) \in Row
        /\ RowOK(Verdict(row[p], inflight[p]), NoCheck, SchemeOf[p])
    BY <1>0, <2>1, VerdictOK
  <2> HIDE DEF Verdict
  <2> QED  BY <2>1, <2>2 DEF RowsOK
<1>3. CASE LoseVerdict(p)
  BY <1>0, <1>3, NoCheckOK DEF LoseVerdict, RowsOK
<1>4. CASE Due(p)
  <2>1. ComesDue(row[p]) \in Row /\ RowOK(ComesDue(row[p]), inflight[p], SchemeOf[p])
    BY <1>0, <1>4, ComesDueOK DEF Due
  <2> QED  BY <1>4, <2>1 DEF Due, RowsOK
<1> QED  BY <1>1, <1>2, <1>3, <1>4 DEF CheckStep

\* A cycle that is lost takes its checks along and leaves the rows in order.
LEMMA CycleLostRows ==
  ASSUME RowsOK, CycleLost
  PROVE  RowsOK'
<1>1. \A p \in Proxies : RowOK(row[p], NoCheck, SchemeOf[p])
  BY NoCheckOK, SchemeOfAssumption DEF RowsOK
<1> QED  BY <1>1 DEF CycleLost, IdleChecks, RowsOK

-----------------------------------------------------------------------------
(* The steps of the server. *)

\* Ingest, hand-off, orphan sweep and retention keep every row in order.
LEMMA ServerStepRows ==
  ASSUME RowsOK, ServerStep
  PROVE  RowsOK'
<1> USE SchemeOfAssumption
<1>0. \A p \in Proxies : /\ row[p] \in Row /\ SchemeOf[p] \in SchemeClass
                         /\ RowOK(row[p], inflight[p], SchemeOf[p])
  BY DEF RowsOK
<1>1. ASSUME NEW s \in Sources, ingest_source(s)
      PROVE  RowsOK'
  <2>1. PICK feed \in SUBSET Proxies : \E linger : reconcile_source(s, feed, linger)
    BY <1>1 DEF ingest_source
  <2>2. /\ row' = [p \in Proxies |-> row'[p]] /\ inflight' = inflight
        /\ \A p \in Proxies : row'[p] \in {Blank("unknown"), Retired(row[p]), row[p]}
    BY <2>1 DEF reconcile_source
  <2> QED  BY <1>0, <2>2, BlankOK, RetiredOK, WriteOK
<1>2. CASE mark_orphans_removed
  <2>1. /\ row' = [p \in Proxies |-> row'[p]] /\ inflight' = inflight
        /\ \A p \in Proxies : row'[p] \in {Retired(row[p]), row[p]}
    BY <1>2 DEF mark_orphans_removed
  <2> QED  BY <1>0, <2>1, RetiredOK, WriteOK
<1>3. CASE UNCHANGED <<row, inflight>>
  BY <1>3 DEF RowsOK
<1>4. \/ \E s \in Sources : ingest_source(s)
      \/ mark_orphans_removed
      \/ UNCHANGED <<row, inflight>>
  BY DEF ServerStep, enqueue_checks, ServerLost, purge_requests, purge_before
<1> QED  BY <1>1, <1>2, <1>3, <1>4

\* Resets, revivals, cleanups and purges keep every row in order.
LEMMA OperatorStepRows ==
  ASSUME RowsOK, OperatorStep
  PROVE  RowsOK'
<1> USE SchemeOfAssumption
<1>0. \A p \in Proxies : /\ row[p] \in Row /\ SchemeOf[p] \in SchemeClass
                         /\ RowOK(row[p], inflight[p], SchemeOf[p])
  BY DEF RowsOK
<1>1. \/ /\ row' = [p \in Proxies |-> row'[p]] /\ inflight' = inflight
         /\ \A p \in Proxies :
               row'[p] \in {Pristine(row[p]), CleanedUp(row[p]), Blank("purged"), row[p]}
      \/ UNCHANGED <<row, inflight>>
  BY DEF OperatorStep, Rewrite, reset_status, revive_removed, remove_alive,
         revive_removed_without_probe_history, revive_quarantine, quarantine_to_removed,
         remove_unprobeable_unknown, purge_removed, source_delete
<1> QED  BY <1>0, <1>1, PristineOK, CleanedUpOK, BlankOK, WriteOK DEF RowsOK

-----------------------------------------------------------------------------
(* The invariant. *)

\* The invariant holds of the empty database.
LEMMA InitIInv == Init => IInv
<1> SUFFICES ASSUME Init PROVE IInv
  OBVIOUS
<1>1. Blank("absent") \in Row
  BY DEF Blank, Row, Stamp, Status
<1>2. \A p \in Proxies : RowOK(Blank("absent"), NoCheck, SchemeOf[p])
  BY DEF Blank, RowOK, ScheduleMatches, NoCheck, Regular, ProxyStatus, T2Lanes
<1>3. TypeOK
  BY <1>1, QuotaAssumption DEF Init, TypeOK, IdleChecks, Journal, NoHistory
<1> QED  BY <1>1, <1>2, <1>3 DEF IInv, RowsOK, LinksOK, Linked, Init, IdleChecks

\* Every step keeps every row in order.
LEMMA RowsStep ==
  ASSUME RowsOK, [Next]_vars
  PROVE  RowsOK'
<1>1. CASE UNCHANGED vars
  BY <1>1 DEF vars, RowsOK
<1> QED  BY <1>1, CycleStepRows, CycleLostRows, CheckStepRows, ServerStepRows,
            OperatorStepRows DEF Next

\* The rest of TypeOK: the variables that are not the two of RowsOK.
LEMMA TypeStep ==
  ASSUME TypeOK, RowsOK', [Next]_vars
  PROVE  TypeOK'
<1> USE QuotaAssumption DEF TypeOK, RowsOK, serverVars, cycleVars
<1>1. CASE CycleStep
  <2>1. lane' \in Lanes \cup {"idle"} /\ queueClaimed' \subseteq Proxies
    BY <1>1 DEF CycleStep, Lanes, probe_ladder_t2, probe_due_quarantine, probe_queued_checks,
                probe_t1_sample, probe_t2_batch, EndCycle, Draws
  <2>2. t1Claimed' \subseteq Proxies
    BY <1>1 DEF CycleStep, probe_ladder_t2, probe_due_quarantine, probe_queued_checks,
                probe_t1_sample, probe_t2_batch, EndCycle, Draws
  <2>3. requests' \subseteq requests /\ UNCHANGED <<links, journal, handoff, orphanSweep, faults>>
    BY <1>1 DEF CycleStep, probe_ladder_t2, probe_due_quarantine, probe_queued_checks,
                probe_t1_sample, probe_t2_batch, EndCycle
  <2> QED  BY <2>1, <2>2, <2>3
<1>2. CASE CycleLost
  BY <1>2 DEF CycleLost
<1>3. ASSUME NEW p \in Proxies, CheckStep(p) \/ Due(p)
      PROVE  TypeOK'
  <2>1. CASE Conclude(p)
    <3>1. \A o : Journaled(p, o) \in Journal
      BY DEF Journaled, Journal, LaneKind
    <3>2. journal' \in [Proxies -> Journal]
      BY <2>1, <3>1 DEF Conclude
    <3>3. faults' \in 0 .. MaxFaults
      BY <2>1 DEF Conclude
    <3> QED  BY <2>1, <3>2, <3>3 DEF Conclude
  <2>2. CASE Judge(p) \/ LoseVerdict(p) \/ Due(p)
    BY <2>2 DEF Judge, LoseVerdict, Due
  <2> QED  BY <1>3, <2>1, <2>2 DEF CheckStep
<1>4. CASE ServerStep
  <2>1. ASSUME NEW s \in Sources, ingest_source(s)
        PROVE  TypeOK'
    BY <2>1 DEF ingest_source, reconcile_source
  <2>2. ASSUME NEW p \in Proxies, purge_before(p)
        PROVE  TypeOK'
    <3>1. journal' \in [Proxies -> Journal]
      BY <2>2 DEF purge_before, Journal, NoHistory
    <3> QED  BY <2>2, <3>1 DEF purge_before
  <2>3. CASE enqueue_checks
    BY <2>3 DEF enqueue_checks
  <2>4. CASE mark_orphans_removed \/ ServerLost
    BY <2>4 DEF mark_orphans_removed, ServerLost
  <2>5. ASSUME NEW S \in SUBSET Proxies, purge_requests(S)
        PROVE  TypeOK'
    BY <2>5 DEF purge_requests
  <2> QED  BY <1>4, <2>1, <2>2, <2>3, <2>4, <2>5 DEF ServerStep
<1>5. CASE OperatorStep
  <2>1. links' \in [Proxies -> SUBSET Sources] /\ journal' \in [Proxies -> Journal]
    BY <1>5 DEF OperatorStep, Rewrite, reset_status, revive_removed, remove_alive,
         revive_removed_without_probe_history, revive_quarantine, quarantine_to_removed,
         remove_unprobeable_unknown, purge_removed, source_delete, Journal, NoHistory
  <2>2. /\ requests' \subseteq Proxies /\ handoff' \subseteq Proxies
        /\ orphanSweep' \in {"none", "due"}
        /\ UNCHANGED <<lane, queueClaimed, t1Claimed, faults>>
    BY <1>5 DEF OperatorStep, Rewrite, reset_status, revive_removed, remove_alive,
         revive_removed_without_probe_history, revive_quarantine, quarantine_to_removed,
         remove_unprobeable_unknown, purge_removed, source_delete
  <2> QED  BY <2>1, <2>2
<1>6. CASE UNCHANGED vars
  BY <1>6 DEF vars
<1> QED  BY <1>1, <1>2, <1>3, <1>4, <1>5, <1>6 DEF Next

-----------------------------------------------------------------------------
(* Everything that can happen to a row in one step. *)

Inserted(p) == row[p].status = "absent" /\ row'[p] = Blank("unknown")
Revived(p) == row[p].status \in ProxyStatus /\ row'[p] = Pristine(row[p])
Removed(p) ==
    /\ row[p].status \in ProxyStatus \ {"removed"}
    /\ row'[p] \in {CleanedUp(row[p]), Retired(row[p])}
Purged(p) == row[p].status = "removed" /\ row'[p] = Blank("purged") /\ links'[p] = {}
BecameDue(p) == row[p].ladder_at = "later" /\ row'[p] = ComesDue(row[p])

\* The ways a step can change a row: verdict, clock, insert, retirement, operator, purge.
LEMMA HowARowChanges ==
  ASSUME TypeOK, LinksOK, [Next]_vars, NEW p \in Proxies
  PROVE  row'[p] = row[p] \/ Judge(p) \/ Inserted(p) \/ Revived(p) \/ Removed(p)
         \/ Purged(p) \/ BecameDue(p)
<1> USE DEF TypeOK
<1>1. CASE CycleStep \/ CycleLost \/ UNCHANGED vars
  BY <1>1 DEF CycleStep, CycleLost, vars, probe_ladder_t2, probe_due_quarantine,
              probe_queued_checks, probe_t1_sample, probe_t2_batch, EndCycle
<1>2. ASSUME NEW q \in Proxies, CheckStep(q) \/ Due(q)
      PROVE  row'[p] = row[p] \/ Judge(p) \/ BecameDue(p)
  BY <1>2 DEF CheckStep, Due, Conclude, LoseVerdict, Judge, BecameDue
<1>3. CASE ServerStep
  <2>1. ASSUME NEW s \in Sources, ingest_source(s)
        PROVE  row'[p] = row[p] \/ Inserted(p) \/ Removed(p)
    <3>1. PICK feed \in SUBSET Proxies, gate \in DropGates, rules \in BOOLEAN :
              reconcile_source(s, feed, ~(gate /\ rules))
      BY <2>1 DEF ingest_source
    <3>2. \/ row'[p] = row[p]
          \/ row[p].status = "absent" /\ row'[p] = Blank("unknown")
          \/ row[p].status # "removed" /\ links[p] = {s} /\ row'[p] = Retired(row[p])
      BY <3>1 DEF reconcile_source
    <3>3. links[p] = {s} => row[p].status \in ProxyStatus
      BY DEF LinksOK, Linked
    <3> QED  BY <3>2, <3>3 DEF Inserted, Removed
  <2>2. CASE mark_orphans_removed
    BY <2>2 DEF mark_orphans_removed, Removed
  <2>3. \/ \E s \in Sources : ingest_source(s)
        \/ mark_orphans_removed
        \/ UNCHANGED row
    BY <1>3 DEF ServerStep, enqueue_checks, ServerLost, purge_requests, purge_before
  <2> QED  BY <2>1, <2>2, <2>3
<1>4. CASE OperatorStep
  BY <1>4 DEF OperatorStep, Rewrite, reset_status, revive_removed, remove_alive,
         revive_removed_without_probe_history, revive_quarantine, quarantine_to_removed,
         remove_unprobeable_unknown, purge_removed, source_delete, ProxyStatus, Regular,
         Revived, Removed, Purged
<1> QED  BY <1>1, <1>2, <1>3, <1>4 DEF Next

\* A link never outlives its row, and links only an inserted one.
LEMMA LinksStep ==
  ASSUME TypeOK, RowsOK, LinksOK, [Next]_vars
  PROVE  LinksOK'
<1> SUFFICES ASSUME NEW p \in Proxies, links'[p] # {}
             PROVE  row'[p].status \in ProxyStatus
  BY DEF LinksOK, Linked
<1>1. CASE row[p].status \in ProxyStatus
  <2>1. CASE Judge(p)
    <3>1. row'[p] = Verdict(row[p], inflight[p]) /\ row[p] \in Row
      BY <2>1 DEF Judge, RowsOK
    <3>2. \A c : Verdict(row[p], c).status \in ProxyStatus
      BY <1>1, <3>1 DEF Verdict, check_succeeded, check_failed, check_engine_unavailable,
                        quarantine_check_failed, ProxyStatus, Regular, Row
    <3> QED  BY <3>1, <3>2
  <2>2. CASE Revived(p)
    BY <2>2, PristineIsBlank DEF Revived, Blank, ProxyStatus, Regular, RowsOK
  <2>3. CASE Removed(p)
    BY <2>3 DEF Removed, CleanedUp, Retired, ProxyStatus, RowsOK, Row
  <2>4. CASE BecameDue(p)
    BY <1>1, <2>4 DEF BecameDue, ComesDue, RowsOK, Row
  <2> QED  BY <1>1, <2>1, <2>2, <2>3, <2>4, HowARowChanges DEF Inserted, Purged, ProxyStatus, Regular
<1>2. CASE row[p].status \notin ProxyStatus
  <2>1. links[p] = {}
    BY <1>2 DEF LinksOK, Linked
  <2>2. \/ links' = links
        \/ \E s \in Sources : ingest_source(s)
        \/ purge_removed
        \/ \E s \in Sources : source_delete(s)
    BY DEF Next, vars, CycleStep, CycleLost, CheckStep, Due, Conclude, LoseVerdict, Judge,
        probe_ladder_t2, probe_due_quarantine, probe_queued_checks, probe_t1_sample,
        probe_t2_batch, EndCycle, ServerStep, enqueue_checks, mark_orphans_removed,
        ServerLost, purge_requests, purge_before, OperatorStep, Rewrite, reset_status,
        revive_removed, remove_alive, revive_removed_without_probe_history,
        revive_quarantine, quarantine_to_removed, remove_unprobeable_unknown
  <2>3. PICK s \in Sources : ingest_source(s)
    BY <2>1, <2>2 DEF purge_removed, source_delete, TypeOK
  <2>4. PICK feed \in SUBSET Proxies : \E linger : reconcile_source(s, feed, linger)
    BY <2>3 DEF ingest_source
  <2>5. p \in feed
    BY <2>1, <2>4 DEF reconcile_source, TypeOK
  <2>6. row[p].status = "absent"
    BY <1>2, <2>4, <2>5 DEF reconcile_source, RowsOK, Row, Status
  <2> QED  BY <2>4, <2>5, <2>6 DEF reconcile_source, Blank, ProxyStatus, Regular
<1> QED  BY <1>1, <1>2

\* The inductive invariant: types, rows in order with their checks in flight, and
\* links only on rows that exist, after every step of the daemon and the server.
THEOREM Invariant == Spec => []IInv
<1>1. IInv /\ [Next]_vars => IInv'
  BY RowsStep, TypeStep, LinksStep DEF IInv
<1> QED  BY <1>1, InitIInv, PTL DEF Spec

\* The types of every variable (the columns of ProxyRow, the queue, the daemon's
\* memory) hold in every reachable state.
THEOREM TypeCorrect == Spec => []TypeOK
<1>1. IInv => TypeOK
  BY DEF IInv
<1> QED  BY <1>1, Invariant, PTL

-----------------------------------------------------------------------------
(* Safety. *)

\* Status and schedule columns agree after every statement of either process.
THEOREM SchedulesAlwaysMatch == Spec => []SchedulesMatch
<1>1. IInv => SchedulesMatch
  BY DEF IInv, RowsOK, RowOK, SchedulesMatch
<1> QED  BY <1>1, Invariant, PTL

\* `ready` is only ever held by a tunnel-verified row.
THEOREM ReadyAlwaysVerified == Spec => []ReadyIsVerified
<1>1. IInv => ReadyIsVerified
  BY DEF IInv, RowsOK, RowOK, ReadyIsVerified
<1> QED  BY <1>1, Invariant, PTL

\* The ladder step a check took along at selection is never out of date.
THEOREM LadderCheckAlwaysCurrent == Spec => []LadderCheckCurrent
<1>1. IInv => LadderCheckCurrent
  BY DEF IInv, RowsOK, RowOK, LadderCheckCurrent, Checking
<1> QED  BY <1>1, Invariant, PTL

\* No linked row the probe has judged falls between the lanes.
THEOREM JudgedRowsAlwaysInALane == Spec => []JudgedRowsStayInALane
<1>1. ASSUME IInv, NEW p \in Proxies, Linked(p),
             row[p].status \in {"alive", "ready", "quarantine"}
      PROVE  InSomeLane(p)
  <2>1. /\ row[p] \in Row /\ RowOK(row[p], inflight[p], SchemeOf[p])
        /\ SchemeOf[p] \in SchemeClass
    BY <1>1, SchemeOfAssumption DEF IInv, RowsOK
  <2>2. CASE row[p].status = "quarantine"
    BY <2>1, <2>2 DEF RowOK, ScheduleMatches, InSomeLane
  <2>3. CASE row[p].status \in {"alive", "ready"} /\ SchemeOf[p] \in T2_SCHEMES
    BY <1>1, <2>3 DEF InSomeLane, select_t2_candidates
  <2>4. CASE row[p].status \in {"alive", "ready"} /\ SchemeOf[p] \notin T2_SCHEMES
    <3>1. row[p].status = "alive" /\ row[p].last_t2_failed_at = "null"
      BY <2>1, <2>4, ColumnsOfARow DEF RowOK, Stamp
    <3>2. T1Probeable(p)
      BY <2>1, <2>4 DEF RowOK, SchemeClass, T2_SCHEMES, T1Probeable, T1_EXCLUDED_SCHEMES
    <3> QED  BY <1>1, <3>1, <3>2 DEF InSomeLane, select_t1_candidates
  <2> QED  BY <1>1, <2>2, <2>3, <2>4
<1>2. IInv => JudgedRowsStayInALane
  BY <1>1 DEF JudgedRowsStayInALane
<1> QED  BY <1>2, Invariant, PTL

\* Status, schedule, stamps and the check in flight always tell one story.
THEOREM ColumnsAlwaysAgree == Spec => []ColumnsAgree
<1>1. SchedulesMatch /\ ReadyIsVerified /\ LadderCheckCurrent /\ JudgedRowsStayInALane => ColumnsAgree
  BY DEF ColumnsAgree
<1> QED
  BY <1>1, SchedulesAlwaysMatch, ReadyAlwaysVerified, LadderCheckAlwaysCurrent,
     JudgedRowsAlwaysInALane, PTL

-----------------------------------------------------------------------------
(* Steps. *)

\* A late verdict never writes a removed or purged row: every statement of the
\* probe carries a status guard.
THEOREM RemovedStaysForTheProbe == Spec => RemovedIsTerminalForTheProbe
<1>1. ASSUME IInv, NEW p \in Proxies, Judge(p),
             row[p].status \notin Regular \cup {"quarantine"}
      PROVE  row' = row
  <2>1. \A c : Verdict(row[p], c) = row[p]
    BY <1>1 DEF Verdict, check_succeeded, check_failed, check_engine_unavailable,
                quarantine_check_failed, ProxyStatus, Regular
  <2> QED  BY <1>1, <2>1 DEF Judge, IInv, RowsOK
<1>2. IInv /\ [Next]_vars =>
        [\A p \in Proxies : Judge(p) /\ row[p].status \notin Regular \cup {"quarantine"}
                              => row' = row]_vars
  BY <1>1
<1> QED  BY <1>2, Invariant, PTL DEF Spec, RemovedIsTerminalForTheProbe

\* What a step does to the row of one quarantined proxy.
LEMMA LadderStep ==
  ASSUME IInv, [Next]_vars, NEW p \in Proxies, row[p].status = "quarantine"
  PROVE  /\ row'[p].status = "quarantine" =>
               row'[p].ladder_step - row[p].ladder_step \in {0, 1}
         /\ Judge(p) /\ row'[p].status = "removed" => row[p].ladder_step = RecheckDelays
<1>1. row[p] \in Row /\ RowOK(row[p], inflight[p], SchemeOf[p])
  BY DEF IInv, RowsOK
<1>2. row[p].ladder_step - row[p].ladder_step = 0
  BY <1>1, ColumnsOfARow
<1>3. CASE Judge(p)
  <2>1. row'[p] = Verdict(row[p], inflight[p]) /\ inflight[p] \in Check
    BY <1>3 DEF Judge, IInv, RowsOK, NoCheck, Outcomes
  <2>2. inflight[p].lane \in LadderLanes /\ inflight[p].step = row[p].ladder_step
    BY <1>1, <2>1 DEF RowOK, Check, Lanes
  <2>3. CASE inflight[p].outcome \in {"ok", "ok_keep"}
    <3>1. row'[p].status \in {"alive", "ready"}
      BY <1>1, <2>1, <2>3 DEF Verdict, check_succeeded, ProxyStatus, Row
    <3> QED  BY <3>1
  <2>4. CASE inflight[p].outcome = "engine"
    <3>1. row'[p] = row[p]
      BY <2>1, <2>4 DEF Verdict, check_engine_unavailable, Regular
    <3> QED  BY <1>2, <3>1
  <2>5. CASE inflight[p].outcome \notin {"ok", "ok_keep", "engine"}
    <3>1. row'[p] = quarantine_check_failed(row[p], row[p].ladder_step)
      BY <1>3, <2>1, <2>2, <2>5 DEF Verdict, Judge, Outcomes
    <3>2. CASE row[p].ladder_step < RecheckDelays
      <4>1. row'[p].status = "quarantine" /\ row'[p].ladder_step = row[p].ladder_step + 1
        BY <1>1, <3>1, <3>2 DEF quarantine_check_failed, Row
      <4> QED  BY <1>1, <4>1, ColumnsOfARow
    <3>3. CASE ~(row[p].ladder_step < RecheckDelays)
      <4>1. row'[p].status = "removed"
        BY <1>1, <3>1, <3>3 DEF quarantine_check_failed, Row
      <4> QED  BY <1>1, <3>3, <4>1, ColumnsOfARow
    <3> QED  BY <3>2, <3>3
  <2> QED  BY <2>3, <2>4, <2>5
<1>4. CASE ~Judge(p) /\ row'[p] # row[p]
  <2>1. row'[p].status # "quarantine"
        \/ row'[p].ladder_step = row[p].ladder_step
    <3>1. CASE Removed(p)
      BY <1>1, <3>1 DEF Removed, CleanedUp, Retired, Row
    <3>2. CASE BecameDue(p)
      BY <1>1, <3>2 DEF BecameDue, ComesDue, Row
    <3> QED  BY <1>1, <1>4, <3>1, <3>2, HowARowChanges, PristineIsBlank
             DEF Inserted, Revived, Purged, Blank, IInv
  <2> QED  BY <1>2, <1>4, <2>1
<1>5. CASE row'[p] = row[p]
  BY <1>1, <1>2, <1>3, <1>5
<1> QED  BY <1>3, <1>4, <1>5

\* The ladder is climbed one rung per check and left for `removed` by the probe
\* only from its top (quarantine_check_failed; select_due_quarantine(_t2)).
THEOREM LadderIsWalked == Spec => LadderWalk
<1>1. IInv /\ [Next]_vars => [\A p \in Proxies : row[p].status = "quarantine" =>
          /\ row'[p].status = "quarantine" =>
                row'[p].ladder_step - row[p].ladder_step \in {0, 1}
          /\ Judge(p) /\ row'[p].status = "removed" =>
                row[p].ladder_step = RecheckDelays]_vars
  BY LadderStep
<1> QED  BY <1>1, Invariant, PTL DEF Spec, LadderWalk

\* An outage of the tunnel engine costs a row its `ready` at most
\* (check_engine_unavailable; the ladder's T2 lane just leaves the row due).
THEOREM OutageIsNeverCharged == Spec => OutageIsNotCharged
<1>1. ASSUME IInv, NEW p \in Proxies, Judge(p), inflight[p].outcome = "engine"
      PROVE  /\ row'[p].fail_count = row[p].fail_count
             /\ row'[p].ladder_at = row[p].ladder_at
             /\ row'[p].ladder_step = row[p].ladder_step
  <2>1. row'[p] = check_engine_unavailable(row[p]) /\ row[p] \in Row
    BY <1>1 DEF Judge, Verdict, IInv, RowsOK
  <2> QED  BY <2>1 DEF check_engine_unavailable, Row
<1>2. IInv /\ [Next]_vars =>
        [\A p \in Proxies : Judge(p) /\ inflight[p].outcome = "engine" =>
          /\ row'[p].fail_count = row[p].fail_count
          /\ row'[p].ladder_at = row[p].ladder_at
          /\ row'[p].ladder_step = row[p].ladder_step]_vars
  BY <1>1
<1> QED  BY <1>2, Invariant, PTL DEF Spec, OutageIsNotCharged

-----------------------------------------------------------------------------
(***************************************************************************)
(* The lifecycle of the code implements the status diagram: every step of  *)
(* ProxyLifecycle is an arrow of ProxyStatus taken by the arrow's owner,   *)
(* or leaves every status alone.                                           *)
(***************************************************************************)

\* The refinement mapping.
Mapped == [p \in Proxies |-> row[p].status]
Revivers == {p \in Proxies : SchemeOf[p] \in T2_REVIVAL_SCHEMES}

-----------------------------------------------------------------------------
\* The status a verdict writes, by the status it finds.
LEMMA VerdictStatus ==
  ASSUME IInv, NEW p \in Proxies, Judge(p)
  PROVE  LET old == row[p].status
             new == row'[p].status
         IN  \/ new = old
             \/ old \in {"unknown", "alive"} /\ new = "alive"
             \/ old \in Regular /\ new = "ready"
             \/ old = "ready" /\ new = "alive"
             \/ old \in Regular /\ new = "quarantine"
             \/ old = "quarantine" /\ new = "removed"
             \/ old = "quarantine" /\ new = IF p \in Revivers THEN "ready" ELSE "alive"
<1> DEFINE r == row[p]
           c == inflight[p]
<1>1. /\ r \in Row /\ c \in Check /\ RowOK(r, c, SchemeOf[p])
      /\ row'[p] = Verdict(r, c)
  BY DEF Judge, IInv, RowsOK, NoCheck, Outcomes
<1> HIDE DEF r, c
<1>2. CASE c.outcome \in {"ok", "ok_keep"} /\ r.status \in ProxyStatus \ {"removed"}
  <2>1. row'[p].status = IF c.lane \in T2Lanes \/ r.status = "ready" THEN "ready" ELSE "alive"
    BY <1>1, <1>2 DEF Verdict, check_succeeded, Row
  <2>2. CASE r.status = "quarantine"
    <3>1. c.lane \in LadderLanes
      BY <1>1, <2>2 DEF RowOK, Check, Lanes
    <3>2. c.lane \in T2Lanes <=> p \in Revivers
      BY <1>1, <3>1 DEF RowOK, LadderLanes, T2Lanes, Revivers
    <3> QED  BY <2>1, <2>2, <3>2 DEF r
  <2>3. CASE r.status \in Regular
    BY <2>1, <2>3 DEF r, Regular
  <2> QED  BY <1>2, <2>2, <2>3 DEF ProxyStatus
<1>3. CASE c.outcome \in {"ok", "ok_keep"} /\ r.status \notin ProxyStatus \ {"removed"}
  BY <1>1, <1>3 DEF Verdict, check_succeeded, r
<1>4. CASE c.outcome = "engine"
  BY <1>1, <1>4 DEF Verdict, check_engine_unavailable, Row, Regular, r
<1>5. CASE c.outcome = "fail" /\ c.lane \in LadderLanes
  BY <1>1, <1>5 DEF Verdict, quarantine_check_failed, Row, r
<1>6. CASE c.outcome \notin {"ok", "ok_keep", "engine"} /\ c.lane \notin LadderLanes
  <2>1. row'[p] = check_failed(r, c.lane = "t2")
    BY <1>1, <1>6 DEF Verdict
  <2>2. CASE r.status \notin Regular
    BY <2>1, <2>2 DEF check_failed, r
  <2>3. CASE r.status \in Regular /\ r.fail_count + 1 >= FailLimit
    <3>1. row'[p].status = "quarantine"
      BY <1>1, <2>1, <2>3 DEF check_failed, Row
    <3> QED  BY <2>3, <3>1 DEF r
  <2>4. CASE r.status \in Regular /\ ~(r.fail_count + 1 >= FailLimit)
    <3>1. row'[p].status = IF r.status = "ready" THEN "alive" ELSE r.status
      BY <1>1, <2>1, <2>4 DEF check_failed, Row
    <3> QED  BY <2>4, <3>1 DEF r
  <2> QED  BY <2>2, <2>3, <2>4
<1>7. c.outcome \in {"ok", "ok_keep", "fail", "engine"}
  BY <1>1 DEF Judge, Outcomes, c
<1> QED  BY <1>2, <1>3, <1>4, <1>5, <1>6, <1>7

\* A verdict (Judge) is a ProbeVerdict of the diagram or leaves every status alone.
LEMMA JudgeIsProbeVerdict ==
  ASSUME IInv, NEW p \in Proxies, Judge(p)
  PROVE  Diagram!ProbeVerdict(p) \/ Mapped' = Mapped
<1>1. row' = [row EXCEPT ![p] = row'[p]] /\ DOMAIN row = Proxies
  BY DEF Judge, IInv, RowsOK
<1>2. [q \in Proxies |-> row'[q].status] =
      [q \in Proxies |-> IF q \in {p} THEN row'[p].status ELSE row[q].status]
  BY <1>1
<1>3. [q \in Proxies |-> row'[q].status] = Mapped'
  BY DEF Mapped
<1>4. CASE row'[p].status = row[p].status
  BY <1>2, <1>3, <1>4 DEF Mapped
<1>5. CASE row'[p].status # row[p].status
  BY <1>2, <1>3, <1>5, VerdictStatus
  DEF Mapped, Revivers, Regular, Diagram!ProbeVerdict, Diagram!Succeed, Diagram!Fail,
      Diagram!Revive, Diagram!GiveUp, Diagram!Set, Diagram!Live
<1> QED  BY <1>4, <1>5

\* Rows inserted and rows retired in one transaction are one Feed of the diagram.
LEMMA RowsAreFeed ==
  ASSUME NEW new \in SUBSET Proxies, NEW orphans \in SUBSET Proxies,
         \A p \in new : row[p].status = "absent" /\ row'[p].status = "unknown",
         \A p \in orphans : /\ row[p].status \in ProxyStatus \ {"removed"}
                            /\ row'[p].status = "removed",
         \A p \in Proxies : p \notin new /\ p \notin orphans => row'[p] = row[p]
  PROVE  Diagram!Feed(new, orphans)
  BY DEF Diagram!Feed, Diagram!Present, Diagram!Live, ProxyStatus, Regular

\* Reconciliation inserts and retires; the orphan sweep only retires.
LEMMA ServerIsFeed ==
  ASSUME IInv, ServerStep
  PROVE  (\E new, orphans \in SUBSET Proxies : Diagram!Feed(new, orphans)) \/ Mapped' = Mapped
<1> DEFINE New == {p \in Proxies : Inserted(p)}
           Orphans == {p \in Proxies : row[p].status \in ProxyStatus \ {"removed"}
                                      /\ row'[p] = Retired(row[p])}
<1>1. CASE UNCHANGED row
  BY <1>1 DEF Mapped
<1>2. CASE \A p \in Proxies : row'[p] = row[p] \/ Inserted(p) \/ p \in Orphans
  <2>1. PICK new \in SUBSET Proxies, orphans \in SUBSET Proxies : new = New /\ orphans = Orphans
    OBVIOUS
  <2>2. \A p \in new : row[p].status = "absent" /\ row'[p].status = "unknown"
    BY <2>1 DEF Inserted, Blank
  <2>3. \A p \in orphans : /\ row[p].status \in ProxyStatus \ {"removed"}
                           /\ row'[p].status = "removed"
    BY <2>1 DEF Retired, IInv, RowsOK, Row
  <2>4. \A p \in Proxies : p \notin new /\ p \notin orphans => row'[p] = row[p]
    BY <1>2, <2>1
  <2>5. Diagram!Feed(new, orphans)
    BY <2>2, <2>3, <2>4, RowsAreFeed
  <2> QED  BY <2>5
<1>3. ASSUME NEW s \in Sources, ingest_source(s)
      PROVE  \A p \in Proxies : row'[p] = row[p] \/ Inserted(p) \/ p \in Orphans
  <2>1. PICK feed \in SUBSET Proxies : \E linger : reconcile_source(s, feed, linger)
    BY <1>3 DEF ingest_source
  <2> QED  BY <2>1 DEF reconcile_source, Inserted, IInv, LinksOK, Linked
<1>4. CASE mark_orphans_removed
  BY <1>2, <1>4 DEF mark_orphans_removed
<1>5. \/ \E s \in Sources : ingest_source(s)
      \/ mark_orphans_removed
      \/ UNCHANGED row
  BY DEF ServerStep, enqueue_checks, ServerLost, purge_requests, purge_before
<1> QED  BY <1>1, <1>2, <1>3, <1>4, <1>5

\* A bulk rewrite of S gives all of S the status the operator asked for.
LEMMA RewriteIsOperator ==
  ASSUME IInv, NEW S \in SUBSET Proxies, NEW new \in {"unknown", "removed", "purged"},
         row' = [p \in Proxies |-> IF p \in S THEN row'[p] ELSE row[p]],
         \A p \in S : row'[p].status = new,
         \A p \in S : CASE new = "unknown" -> row[p].status \in ProxyStatus
                         [] new = "removed" -> row[p].status \in ProxyStatus \ {"removed"}
                         [] new = "purged" -> row[p].status = "removed"
  PROVE  Diagram!Operator(S)
<1>1. [p \in Proxies |-> row'[p].status] =
      [p \in Proxies |-> IF p \in S THEN new ELSE row[p].status]
  BY DEF IInv, RowsOK
<1> QED  BY <1>1 DEF Diagram!Operator, Diagram!Set, Diagram!Present, Diagram!Live,
                     ProxyStatus, Regular

\* Every operator statement is an Operator step of the diagram.
LEMMA OperatorIsOperator ==
  ASSUME IInv, OperatorStep
  PROVE  (\E S \in SUBSET Proxies : Diagram!Operator(S)) \/ Mapped' = Mapped
<1>0. \A p \in Proxies : /\ row[p] \in Row /\ Pristine(row[p]).status = "unknown"
                         /\ CleanedUp(row[p]).status = "removed"
  BY PristineIsBlank DEF Blank, CleanedUp, Row, IInv, RowsOK
<1>1. ASSUME NEW S \in SUBSET Proxies, Rewrite(S, Pristine),
             \A p \in S : row[p].status \in ProxyStatus
      PROVE  Diagram!Operator(S)
  BY <1>0, <1>1, RewriteIsOperator DEF Rewrite
<1>2. ASSUME NEW S \in SUBSET Proxies, Rewrite(S, CleanedUp),
             \A p \in S : row[p].status \in ProxyStatus \ {"removed"}
      PROVE  Diagram!Operator(S)
  BY <1>0, <1>2, RewriteIsOperator DEF Rewrite
<1>3. ASSUME NEW p \in Proxies, reset_status(p)
      PROVE  Diagram!Operator({p})
  BY <1>1, <1>3 DEF reset_status
<1>4. ASSUME NEW S \in SUBSET Proxies, revive_removed(S)
      PROVE  Diagram!Operator(S)
  BY <1>1, <1>4 DEF revive_removed, ProxyStatus
<1>5. ASSUME NEW S \in SUBSET Proxies, remove_alive(S)
      PROVE  Diagram!Operator(S)
  BY <1>2, <1>5 DEF remove_alive, ProxyStatus, Regular
<1>6. CASE revive_removed_without_probe_history
  <2> DEFINE S == {p \in Proxies :
                     /\ \/ row[p].status = "removed"
                        \/ row[p].status = "unknown" /\ row[p].last_t2_failed_at = "set"
                     /\ NeverProbed(p) /\ Linked(p)}
  <2>1. Rewrite(S, Pristine)
    BY <1>6 DEF revive_removed_without_probe_history
  <2>2. \A p \in S : row[p].status \in ProxyStatus
    BY DEF ProxyStatus, Regular
  <2>3. S \in SUBSET Proxies
    OBVIOUS
  <2> QED  BY <1>1, <2>1, <2>2, <2>3
<1>7. CASE revive_quarantine
  <2> DEFINE S == {p \in Proxies : row[p].status = "quarantine" /\ Linked(p)}
  <2>1. Rewrite(S, Pristine) /\ S \in SUBSET Proxies /\ \A p \in S : row[p].status \in ProxyStatus
    BY <1>7 DEF revive_quarantine, ProxyStatus
  <2> QED  BY <1>1, <2>1
<1>8. CASE quarantine_to_removed
  <2> DEFINE S == {p \in Proxies : row[p].status = "quarantine"}
  <2>1. /\ Rewrite(S, CleanedUp) /\ S \in SUBSET Proxies
        /\ \A p \in S : row[p].status \in ProxyStatus \ {"removed"}
    BY <1>8 DEF quarantine_to_removed, ProxyStatus
  <2> QED  BY <1>2, <2>1
<1>9. CASE remove_unprobeable_unknown
  <2> DEFINE S == {p \in Proxies : row[p].status = "unknown" /\ SchemeOf[p] = "unprobeable"}
  <2>1. /\ Rewrite(S, CleanedUp) /\ S \in SUBSET Proxies
        /\ \A p \in S : row[p].status \in ProxyStatus \ {"removed"}
    BY <1>9 DEF remove_unprobeable_unknown, ProxyStatus, Regular
  <2> QED  BY <1>2, <2>1
<1>10. CASE purge_removed
  <2> DEFINE S == {p \in Proxies : row[p].status = "removed"}
  <2>1. /\ row' = [p \in Proxies |-> IF p \in S THEN Blank("purged") ELSE row[p]]
        /\ S \in SUBSET Proxies
    BY <1>10 DEF purge_removed
  <2>2. \A p \in S : row'[p].status = "purged"
    BY <2>1 DEF Blank
  <2> QED  BY <2>1, <2>2, RewriteIsOperator
<1>11. CASE \E s \in Sources : source_delete(s)
  BY <1>11 DEF source_delete, Mapped
<1> QED  BY <1>3, <1>4, <1>5, <1>6, <1>7, <1>8, <1>9, <1>10, <1>11 DEF OperatorStep

-----------------------------------------------------------------------------
\* Every step of the lifecycle is an arrow of the diagram or leaves all statuses.
LEMMA StepIsArrow ==
  ASSUME IInv, [Next]_vars
  PROVE  Diagram!Next \/ Mapped' = Mapped
<1>1. CASE CycleStep \/ CycleLost \/ UNCHANGED vars
  BY <1>1 DEF CycleStep, CycleLost, vars, probe_ladder_t2, probe_due_quarantine,
              probe_queued_checks, probe_t1_sample, probe_t2_batch, EndCycle, Mapped
<1>2. ASSUME NEW p \in Proxies, CheckStep(p) \/ Due(p)
      PROVE  Diagram!ProbeVerdict(p) \/ Mapped' = Mapped
  <2>1. CASE Judge(p)
    BY <2>1, JudgeIsProbeVerdict
  <2>2. CASE Due(p)
    BY <2>2 DEF Due, ComesDue, Mapped, IInv, RowsOK, Row
  <2>3. CASE Conclude(p) \/ LoseVerdict(p)
    BY <2>3 DEF Conclude, LoseVerdict, Mapped
  <2> QED  BY <1>2, <2>1, <2>2, <2>3 DEF CheckStep
<1> QED  BY <1>1, <1>2, ServerIsFeed, OperatorIsOperator DEF Next, Diagram!Next

\* The whole lifecycle, as run by two processes, implements the status diagram
\* of USERGUIDE.md.
THEOREM LifecycleImplementsDiagram == Spec => ImplementsDiagram
<1>1. Init => Diagram!Init
  BY DEF Init, Diagram!Init, Blank
<1>2. IInv /\ [Next]_vars => [Diagram!Next]_Mapped
  BY StepIsArrow
<1>3. IInv /\ [Next]_vars => [Diagram!Next]_([p \in Proxies |-> row[p].status])
  BY <1>2 DEF Mapped
<1> QED  BY <1>1, <1>3, Invariant, PTL DEF Spec, ImplementsDiagram, Diagram!Spec

-----------------------------------------------------------------------------
\* A feed or a source deletion inserts fresh rows and retires link-less ones; it
\* writes no other lifecycle column (reconcile_source, mark_orphans_removed).
LEMMA FeedStep ==
  ASSUME IInv, ServerStep, NEW p \in Proxies, row'[p] # row[p]
  PROVE  \/ row[p].status = "absent" /\ row'[p] = Blank("unknown")
         \/ /\ row'[p] = Retired(row[p]) /\ links'[p] = {}
            /\ TRUE \notin DropGates => row[p].status \notin {"ready", "unknown"}
<1>1. ASSUME NEW s \in Sources, ingest_source(s)
      PROVE  \/ row[p].status = "absent" /\ row'[p] = Blank("unknown")
             \/ /\ row'[p] = Retired(row[p]) /\ links'[p] = {}
                /\ TRUE \in DropGates
  <2>1. PICK feed \in SUBSET Proxies, gate \in DropGates, has_drop_rules \in BOOLEAN :
            reconcile_source(s, feed, ~(gate /\ has_drop_rules))
    BY <1>1 DEF ingest_source
  <2>2. CASE gate = TRUE
    BY <2>1, <2>2 DEF reconcile_source, Loses, IInv, TypeOK
  <2>3. CASE gate # TRUE
    BY <2>1, <2>3, SwitchAssumption DEF reconcile_source
  <2> QED  BY <2>2, <2>3
<1>2. CASE mark_orphans_removed
  <2>1. PICK gate \in DropGates :
            row' = [q \in Proxies |->
                      IF /\ row[q].status \in ProxyStatus \
                               ({"removed"} \cup (IF gate THEN {} ELSE {"ready", "unknown"}))
                         /\ ~Linked(q)
                      THEN Retired(row[q]) ELSE row[q]]
    BY <1>2 DEF mark_orphans_removed
  <2>2. links' = links
    BY <1>2 DEF mark_orphans_removed
  <2> QED  BY <2>1, <2>2, SwitchAssumption DEF Linked
<1>3. \/ \E s \in Sources : ingest_source(s)
      \/ mark_orphans_removed
      \/ UNCHANGED row
  BY DEF ServerStep, enqueue_checks, ServerLost, purge_requests, purge_before
<1> QED  BY <1>1, <1>2, <1>3

\* The feeds never take part in the lifecycle of a row they still link.
THEOREM FeedsOwnNoLifecycle == Spec => FeedOwnsNoLifecycle
<1>1. IInv /\ [Next]_vars =>
        [ServerStep =>
         \A p \in Proxies : row'[p] # row[p] =>
            \/ row[p].status = "absent" /\ row'[p] = Blank("unknown")
            \/ /\ row'[p] = Retired(row[p]) /\ links'[p] = {}
               /\ TRUE \notin DropGates => row[p].status \notin {"ready", "unknown"}]_vars
  BY FeedStep
<1> QED  BY <1>1, Invariant, PTL DEF Spec, FeedOwnsNoLifecycle

\* What a step may do to a waiting row: block it by a failed tunnel check only.
LEMMA BlockStep ==
  ASSUME IInv, [Next]_vars, NEW p \in Proxies, Blocked(row'[p]), ~Blocked(row[p])
  PROVE  /\ Judge(p) /\ row[p].status = "unknown"
         /\ inflight[p].lane \in T2Lanes /\ inflight[p].outcome \in {"fail", "engine"}
<1>1. row[p] \in Row /\ RowOK(row[p], inflight[p], SchemeOf[p])
  BY DEF IInv, RowsOK
<1>2. CASE Judge(p)
  <2>1. /\ row'[p] = Verdict(row[p], inflight[p]) /\ inflight[p] \in Check
        /\ inflight[p].outcome \in Outcomes \ {"pending"}
    BY <1>2 DEF Judge, IInv, RowsOK, NoCheck, Outcomes
  <2>2. CASE inflight[p].outcome \in {"ok", "ok_keep"}
    <3>1. row'[p].status \in {"alive", "ready"} \/ row'[p] = row[p]
      BY <1>1, <2>1, <2>2 DEF Verdict, check_succeeded, ProxyStatus, Row
    <3> QED  BY <3>1 DEF Blocked
  <2>3. CASE inflight[p].outcome = "engine"
    <3>1. row'[p] = check_engine_unavailable(row[p])
      BY <2>1, <2>3 DEF Verdict
    <3>2. row[p].status = "unknown"
      BY <1>1, <3>1 DEF check_engine_unavailable, Blocked, Row, Regular
    <3>3. inflight[p].lane \in T2Lanes
      BY <1>1, <2>3 DEF RowOK
    <3> QED  BY <1>2, <2>3, <3>2, <3>3
  <2>4. CASE inflight[p].outcome = "fail" /\ inflight[p].lane \in LadderLanes
    <3>1. row'[p] = quarantine_check_failed(row[p], inflight[p].step)
      BY <2>1, <2>4 DEF Verdict
    <3>2. row'[p] = row[p] \/ row'[p].status \in {"quarantine", "removed"}
      BY <1>1, <3>1 DEF quarantine_check_failed, Row
    <3> QED  BY <3>2 DEF Blocked
  <2>5. CASE inflight[p].outcome = "fail" /\ inflight[p].lane \notin LadderLanes
    <3>1. row'[p] = check_failed(row[p], inflight[p].lane = "t2")
      BY <2>1, <2>5 DEF Verdict
    <3>2. row[p].status = "unknown" /\ inflight[p].lane = "t2"
      BY <1>1, <3>1 DEF check_failed, Blocked, Row, Regular
    <3> QED  BY <1>2, <2>5, <3>2 DEF T2Lanes
  <2> QED  BY <2>1, <2>2, <2>3, <2>4, <2>5 DEF Outcomes
<1>3. ~Inserted(p) /\ ~Purged(p)
  BY DEF Inserted, Purged, Blank, Blocked
<1>4. ~Revived(p)
  BY <1>1, PristineIsBlank DEF Revived, Blank, Blocked
<1>5. ~Removed(p)
  BY <1>1 DEF Removed, CleanedUp, Retired, Blocked, Row
<1>6. ~BecameDue(p)
  BY <1>1 DEF BecameDue, ComesDue, Blocked, Row
<1> QED  BY <1>2, <1>3, <1>4, <1>5, <1>6, HowARowChanges DEF IInv

\* RESET_SET and the insert clear what the lanes read, so the one way to shut a
\* waiting row out of T1 is the failed tunnel check that finds it waiting.
THEOREM RowsFreezeByLateVerdictsOnly == Spec => OnlyLateVerdictsFreeze
<1>1. IInv /\ [Next]_vars =>
        [\A p \in Proxies : Blocked(row'[p]) /\ ~Blocked(row[p]) =>
          /\ Judge(p) /\ row[p].status = "unknown"
          /\ inflight[p].lane \in T2Lanes /\ inflight[p].outcome \in {"fail", "engine"}]_vars
  BY BlockStep
<1> QED  BY <1>1, Invariant, PTL DEF Spec, OnlyLateVerdictsFreeze

\* No step of either process does what the code forbids it: the five action
\* properties together.
THEOREM StepsAlwaysLawful == Spec => StepsAreLawful
BY RemovedStaysForTheProbe, LadderIsWalked, OutageIsNeverCharged, FeedsOwnNoLifecycle,
   RowsFreezeByLateVerdictsOnly
   DEF StepsAreLawful

-----------------------------------------------------------------------------
(* ProbeHistory: charges and the fail counter.                              *)

\* The rows of the queue lane: no verdict yet, a scheme the T2 batch leaves to T1.
Waiting(p) == row[p].status \notin {"alive", "ready"} /\ T1Probeable(p)

\* What the claims of a cycle say of the rows it has charged.
ClaimOK(p) ==
    /\ charged[p] \in {0, 1}
    /\ Checking(p) => inflight[p].lane = lane
    /\ Checking(p) => charged[p] = 0
    /\ Checking(p) /\ lane = "queue" => p \in queueClaimed /\ Waiting(p)
    /\ Checking(p) /\ lane = "t1" => p \in t1Claimed
    /\ charged[p] = 1 => p \in t1Claimed \/ lane = "t2" \/ (p \in queueClaimed /\ Waiting(p))
ClaimsOK ==
    /\ charged \in [Proxies -> Nat]
    /\ lane \in {"idle", "ladder_t2", "ladder"} => charged = Zero
    /\ lane \in {"idle", "ladder_t2", "ladder", "queue"} => t1Claimed = {}
    /\ lane \in {"idle", "ladder_t2", "ladder"} => queueClaimed = {}
    /\ \A p \in Proxies : ClaimOK(p)

\* What a failure in the journal says of the row, while a check of it is out and after.
CountOK(p) ==
    /\ row[p].fail_count <= streak[p]
    /\ Checking(p) => row[p].status # "absent"
    /\ inflight[p].lane \in {"queue", "t1"} => row[p].last_t2_failed_at = "null"
    /\ inflight[p].lane = "ladder_t2" /\ row[p].status \in Regular => row[p].fail_count = 0
    /\ inflight[p].outcome = "ok_keep" /\ row[p].status \in Regular => row[p].fail_count = 0
    /\ inflight[p].outcome = "fail" /\ inflight[p].lane \notin T2Lanes =>
          journal[p].failed # "t2" \/ row[p].status = "purged"
    /\ (/\ journal[p].failed = "t2" /\ row[p].last_t2_failed_at = "null"
        /\ row[p].status \in Regular
        /\ ~(inflight[p].lane \in T2Lanes /\ inflight[p].outcome \in {"fail", "engine"}))
       => row[p].fail_count = 0
CountsOK ==
    /\ streak \in [Proxies -> Nat]
    /\ faults = 0 => \A p \in Proxies : CountOK(p)

-----------------------------------------------------------------------------
(* The steps, as far as the two histories tell them apart. *)

\* The fail counter and the T2 stamp after a verdict (check_succeeded, check_failed,
\* check_engine_unavailable, quarantine_check_failed).
LEMMA VerdictCounts ==
  ASSUME NEW r \in Row, NEW c \in Check, NEW scheme \in SchemeClass, RowOK(r, c, scheme),
         c.outcome # "pending", NEW s, s = Verdict(r, c)
  PROVE  /\ s.fail_count > r.fail_count =>
               /\ c.outcome = "fail" /\ c.lane \notin LadderLanes
               /\ s.fail_count = r.fail_count + 1
               /\ s.status \in {"alive", "ready"} => r.status \in {"alive", "ready"}
         /\ c.outcome \in {"ok", "ok_keep"} /\ s.status \in {"alive", "ready"} =>
               \/ s.fail_count = 0
               \/ c.outcome = "ok_keep" /\ r.status \in Regular /\ s.fail_count = r.fail_count
         /\ s.status \in Regular /\ s.last_t2_failed_at = "null" =>
               \/ s.fail_count = 0
               \/ /\ r.status \in Regular /\ s.fail_count = r.fail_count
                  /\ c.outcome = "ok_keep" \/ (c.outcome = "fail" /\ c.lane = "ladder_t2")
               \/ c.outcome = "fail" /\ c.lane \notin T2Lanes
<1>0. r.fail_count \in Nat /\ c.lane \in Lanes /\ c.outcome \in {"ok", "ok_keep", "fail", "engine"}
  BY ColumnsOfARow DEF Check, Outcomes
<1>1. CASE c.outcome \in {"ok", "ok_keep"}
  <2>1. s = check_succeeded(r, IF c.lane \in T2Lanes THEN "ready" ELSE "alive", c.outcome = "ok")
    BY <1>1 DEF Verdict
  <2>2. CASE r.status \notin ProxyStatus \ {"removed"}
    <3>1. s = r
      BY <2>1, <2>2 DEF check_succeeded
    <3> QED  BY <1>0, <2>2, <3>1 DEF ProxyStatus, Regular
  <2>3. CASE r.status \in ProxyStatus \ {"removed"}
    <3>1. s.fail_count = IF c.outcome = "ok" THEN 0 ELSE r.fail_count
      BY <2>1, <2>3 DEF check_succeeded, Row
    <3>2. c.outcome = "ok_keep" => r.status \in Regular
      BY <1>0, <2>3 DEF RowOK, LadderLanes, Lanes, ProxyStatus
    <3> QED  BY <1>0, <1>1, <3>1, <3>2
  <2> QED  BY <2>2, <2>3
<1>2. CASE c.outcome = "engine"
  <2>1. s = check_engine_unavailable(r)
    BY <1>2 DEF Verdict
  <2>2. s.fail_count = r.fail_count
    BY <2>1 DEF check_engine_unavailable, Row
  <2>3. s.status \in Regular => s.last_t2_failed_at = "set"
    BY <2>1 DEF check_engine_unavailable, Row
  <2> QED  BY <1>0, <1>2, <2>2, <2>3
<1>3. CASE c.outcome = "fail" /\ c.lane \in LadderLanes
  <2>1. s = quarantine_check_failed(r, c.step)
    BY <1>3 DEF Verdict
  <2>2. s.fail_count = r.fail_count
    BY <2>1 DEF quarantine_check_failed, Row
  <2>3. s.status \in Regular => s = r
    BY <2>1 DEF quarantine_check_failed, Row, Regular
  <2> QED  BY <1>0, <1>3, <2>2, <2>3 DEF LadderLanes, T2Lanes
<1>4. CASE c.outcome = "fail" /\ c.lane \notin LadderLanes
  <2>1. s = check_failed(r, c.lane = "t2")
    BY <1>4 DEF Verdict
  <2>2. CASE r.status \notin Regular
    <3>1. s = r
      BY <2>1, <2>2 DEF check_failed
    <3> QED  BY <1>0, <1>4, <2>2, <3>1
  <2>3. CASE r.status \in Regular
    <3>1. s.fail_count = r.fail_count + 1
      BY <2>1, <2>3 DEF check_failed, Row
    <3>2. s.status \in {"alive", "ready"} => r.status \in {"alive", "ready"}
      BY <2>1, <2>3 DEF check_failed, Row
    <3>3. c.lane = "t2" => s.last_t2_failed_at = "set"
      BY <2>1, <2>3 DEF check_failed, Row
    <3> QED  BY <1>0, <1>4, <3>1, <3>2, <3>3 DEF Lanes, LadderLanes, T2Lanes
  <2> QED  BY <2>2, <2>3
<1> QED  BY <1>0, <1>1, <1>2, <1>3, <1>4

\* What the server, the operator and the clock do to the columns a verdict is
\* judged by: nothing, a fresh start, or a removal that keeps the counter.
Kept(p) == /\ row'[p].status = row[p].status /\ row'[p].fail_count = row[p].fail_count
           /\ row'[p].last_t2_failed_at = row[p].last_t2_failed_at
Renewed(p) == /\ row[p].status # "purged" /\ row'[p].status \in {"unknown", "purged"}
              /\ row'[p].fail_count = 0 /\ row'[p].last_t2_failed_at = "null"
Gone(p) == /\ row[p].status \in ProxyStatus /\ row'[p].status = "removed"
           /\ row'[p].fail_count = row[p].fail_count
           /\ row'[p].last_t2_failed_at = row[p].last_t2_failed_at

Around == (\E p \in Proxies : Due(p)) \/ ServerStep \/ OperatorStep

\* Whoever is not the probe leaves checks and claims alone and only forgets history.
LEMMA AroundRest ==
  ASSUME IInv, Around
  PROVE  /\ UNCHANGED <<cycleVars, inflight>> /\ faults' >= faults
         /\ \A p \in Proxies : journal'[p].failed \in {journal[p].failed, "none"}
<1>0. journal \in [Proxies -> Journal] /\ faults \in Nat
  BY QuotaAssumption DEF IInv, TypeOK
<1>1. CASE \E p \in Proxies : Due(p)
  BY <1>0, <1>1 DEF Due
<1>2. CASE ServerStep
  <2>1. ASSUME NEW s \in Sources, ingest_source(s)
        PROVE  UNCHANGED <<cycleVars, inflight, faults, journal>>
    BY <2>1 DEF ingest_source, reconcile_source
  <2>2. ASSUME NEW p \in Proxies, purge_before(p)
        PROVE  /\ UNCHANGED <<cycleVars, inflight, faults>>
               /\ \A q \in Proxies : journal'[q].failed \in {journal[q].failed, "none"}
    BY <1>0, <2>2 DEF purge_before, Journal, NoHistory
  <2>3. ASSUME enqueue_checks \/ mark_orphans_removed \/ \E S \in SUBSET Proxies : purge_requests(S)
        PROVE  UNCHANGED <<cycleVars, inflight, faults, journal>>
    BY <2>3 DEF enqueue_checks, mark_orphans_removed, purge_requests
  <2>4. CASE ServerLost
    BY <1>0, <2>4 DEF ServerLost
  <2> QED  BY <1>0, <1>2, <2>1, <2>2, <2>3, <2>4 DEF ServerStep
<1>3. CASE OperatorStep
  <2>1. UNCHANGED <<cycleVars, inflight, faults>>
    BY <1>3 DEF OperatorStep, Rewrite, reset_status, revive_removed, remove_alive,
         revive_removed_without_probe_history, revive_quarantine, quarantine_to_removed,
         remove_unprobeable_unknown, purge_removed, source_delete, serverVars
  <2>2. journal' = journal \/ purge_removed
    BY <1>3 DEF OperatorStep, Rewrite, reset_status, revive_removed, remove_alive,
         revive_removed_without_probe_history, revive_quarantine, quarantine_to_removed,
         remove_unprobeable_unknown, source_delete
  <2>3. CASE purge_removed
    BY <1>0, <2>3 DEF purge_removed, NoHistory
  <2> QED  BY <1>0, <2>1, <2>2, <2>3
<1> QED  BY <1>1, <1>2, <1>3 DEF Around

\* And no row of theirs gains a failure or a verdict.
LEMMA AroundRow ==
  ASSUME IInv, Around, NEW p \in Proxies
  PROVE  Kept(p) \/ Renewed(p) \/ Gone(p)
<1>1. row[p] \in Row /\ inflight[p] \in Check \cup {NoCheck}
  BY DEF IInv, RowsOK
<1>2. ~Judge(p)
  <2> SUFFICES ASSUME Judge(p) PROVE FALSE
    OBVIOUS
  <2>1. inflight'[p] = NoCheck /\ inflight[p].outcome \in Outcomes
    BY DEF Judge, IInv, RowsOK
  <2> QED  BY <2>1, AroundRest DEF NoCheck, Outcomes
<1>3. [Next]_vars
  BY DEF Around, Next
<1>4. row'[p] = row[p] \/ Inserted(p) \/ Revived(p) \/ Removed(p) \/ Purged(p) \/ BecameDue(p)
  BY <1>2, <1>3, HowARowChanges DEF IInv
<1>5. CASE Inserted(p)
  BY <1>5 DEF Inserted, Blank, Renewed
<1>6. CASE Revived(p)
  BY <1>1, <1>6, PristineIsBlank DEF Revived, Blank, Renewed, ProxyStatus, Regular
<1>7. CASE Removed(p)
  BY <1>1, <1>7 DEF Removed, CleanedUp, Retired, Row, Gone
<1>8. CASE Purged(p)
  BY <1>8 DEF Purged, Blank, Renewed
<1>9. CASE BecameDue(p)
  BY <1>1, <1>9 DEF BecameDue, ComesDue, Row, Kept
<1> QED  BY <1>4, <1>5, <1>6, <1>7, <1>8, <1>9 DEF Kept

-----------------------------------------------------------------------------
(* The claims. *)

\* What a lane start leaves alone, and what it demands of the rows it draws
\* (the five selectors and the claims handed from lane to lane).
Starts(l, S) ==
    /\ Start(l, S) /\ lane' = l /\ l \in Lanes /\ S \subseteq Proxies
    /\ UNCHANGED <<row, journal, faults>>

LEMMA LaneStarts ==
  ASSUME CycleStep, lane # "t2"
  PROVE  \E S \in SUBSET Proxies :
           \/ /\ lane = "idle" /\ Starts("ladder_t2", S) /\ UNCHANGED <<queueClaimed, t1Claimed>>
              /\ \A p \in S : row[p].status = "quarantine"
           \/ /\ lane = "ladder_t2" /\ Drained /\ Starts("ladder", S)
              /\ UNCHANGED <<queueClaimed, t1Claimed>>
              /\ \A p \in S : row[p].status = "quarantine"
           \/ /\ lane = "ladder" /\ Drained /\ Starts("queue", S)
              /\ queueClaimed' = S /\ UNCHANGED t1Claimed
              /\ \A p \in S : select_queued_checks(p)
           \/ /\ lane = "queue" /\ Drained /\ Starts("t1", S)
              /\ t1Claimed' = S /\ UNCHANGED queueClaimed
              /\ \A p \in S : p \notin queueClaimed /\ select_t1_candidates(p)
           \/ /\ lane = "t1" /\ Drained /\ Starts("t2", S) /\ UNCHANGED <<queueClaimed, t1Claimed>>
              /\ \A p \in S : p \notin t1Claimed /\ select_t2_candidates(p)
<1>1. CASE probe_ladder_t2
  <2>1. PICK S \in T2Draws({p \in Proxies : select_due_quarantine_t2(p)}) : Start("ladder_t2", S)
    BY <1>1 DEF probe_ladder_t2
  <2>2. S \in SUBSET Proxies /\ \A p \in S : select_due_quarantine_t2(p)
    BY <2>1, DrawsAreSubsets
  <2> QED  BY <1>1, <2>1, <2>2 DEF probe_ladder_t2, Starts, Lanes, select_due_quarantine_t2
<1>2. CASE probe_due_quarantine
  <2>1. PICK S \in Draws({p \in Proxies : select_due_quarantine(p)}) : Start("ladder", S)
    BY <1>2 DEF probe_due_quarantine
  <2>2. S \in SUBSET Proxies /\ \A p \in S : select_due_quarantine(p)
    BY <2>1 DEF Draws
  <2> QED  BY <1>2, <2>1, <2>2 DEF probe_due_quarantine, Starts, Lanes, select_due_quarantine
<1>3. CASE probe_queued_checks
  <2>1. PICK S \in Draws({p \in Proxies : select_queued_checks(p)}) :
            Start("queue", S) /\ queueClaimed' = S
    BY <1>3 DEF probe_queued_checks
  <2>2. S \in SUBSET Proxies /\ \A p \in S : select_queued_checks(p)
    BY <2>1 DEF Draws
  <2> QED  BY <1>3, <2>1, <2>2 DEF probe_queued_checks, Starts, Lanes
<1>4. CASE probe_t1_sample
  <2>1. PICK D \in Draws({p \in Proxies : select_t1_candidates(p)}) :
            Start("t1", D \ queueClaimed) /\ t1Claimed' = D \ queueClaimed
    BY <1>4 DEF probe_t1_sample
  <2>2. PICK S \in SUBSET Proxies : S = D \ queueClaimed
    BY <2>1 DEF Draws
  <2>3. \A p \in S : p \notin queueClaimed /\ select_t1_candidates(p)
    BY <2>1, <2>2 DEF Draws
  <2> QED  BY <1>4, <2>1, <2>2, <2>3 DEF probe_t1_sample, Starts, Lanes
<1>5. CASE probe_t2_batch
  <2>1. PICK D \in T2Draws({p \in Proxies : select_t2_candidates(p)}) : Start("t2", D \ t1Claimed)
    BY <1>5 DEF probe_t2_batch
  <2>2. D \subseteq {p \in Proxies : select_t2_candidates(p)}
    BY <2>1, DrawsAreSubsets
  <2>3. PICK S \in SUBSET Proxies : S = D \ t1Claimed
    BY <2>2
  <2>4. \A p \in S : p \notin t1Claimed /\ select_t2_candidates(p)
    BY <2>2, <2>3
  <2> QED  BY <1>5, <2>1, <2>3, <2>4 DEF probe_t2_batch, Starts, Lanes
<1> QED  BY <1>1, <1>2, <1>3, <1>4, <1>5 DEF CycleStep, EndCycle

\* No check is in flight between two cycles.
LEMMA IdleIsIdle ==
  ASSUME IInv, ClaimsOK, lane = "idle"
  PROVE  \A p \in Proxies : ~Checking(p)
BY DEF ClaimsOK, ClaimOK, Checking, IInv, RowsOK, Check, Lanes, NoCheck

\* The start of a lane keeps what the claims say of the rows it draws and skips.
LEMMA StartClaims ==
  ASSUME IInv, ClaimsOK, CycleStep, lane # "t2", UNCHANGED charged
  PROVE  ClaimsOK'
<1>1. PICK S \in SUBSET Proxies :
           \/ /\ lane = "idle" /\ Starts("ladder_t2", S) /\ UNCHANGED <<queueClaimed, t1Claimed>>
              /\ \A p \in S : row[p].status = "quarantine"
           \/ /\ lane = "ladder_t2" /\ Drained /\ Starts("ladder", S)
              /\ UNCHANGED <<queueClaimed, t1Claimed>>
              /\ \A p \in S : row[p].status = "quarantine"
           \/ /\ lane = "ladder" /\ Drained /\ Starts("queue", S)
              /\ queueClaimed' = S /\ UNCHANGED t1Claimed
              /\ \A p \in S : select_queued_checks(p)
           \/ /\ lane = "queue" /\ Drained /\ Starts("t1", S)
              /\ t1Claimed' = S /\ UNCHANGED queueClaimed
              /\ \A p \in S : p \notin queueClaimed /\ select_t1_candidates(p)
           \/ /\ lane = "t1" /\ Drained /\ Starts("t2", S) /\ UNCHANGED <<queueClaimed, t1Claimed>>
              /\ \A p \in S : p \notin t1Claimed /\ select_t2_candidates(p)
  BY LaneStarts
<1>2. \A p \in Proxies : inflight'[p].lane = IF p \in S THEN lane' ELSE "none"
  BY <1>1 DEF Starts, Start, NoCheck
<1>3. row' = row
  BY <1>1 DEF Starts
<1>4. CASE lane = "idle"
  BY <1>1, <1>2, <1>4 DEF ClaimsOK, ClaimOK, Checking, Zero, Starts
<1>5. CASE lane = "ladder_t2"
  BY <1>1, <1>2, <1>5 DEF ClaimsOK, ClaimOK, Checking, Zero, Starts
<1>6. CASE lane = "ladder"
  <2>1. lane' = "queue" /\ queueClaimed' = S /\ t1Claimed' = {} /\ charged' = Zero
    BY <1>1, <1>6 DEF Starts, ClaimsOK
  <2>2. \A p \in S : Waiting(p)
    BY <1>1, <1>6 DEF select_queued_checks, Waiting
  <2> QED  BY <1>2, <1>3, <2>1, <2>2 DEF ClaimsOK, ClaimOK, Checking, Zero, Waiting
<1>7. CASE lane = "queue"
  <2>1. lane' = "t1" /\ t1Claimed' = S /\ queueClaimed' = queueClaimed
    BY <1>1, <1>7 DEF Starts
  <2>2. \A p \in Proxies : charged[p] = 1 => p \in queueClaimed /\ Waiting(p)
    BY <1>7 DEF ClaimsOK, ClaimOK
  <2>3. \A p \in S : p \notin queueClaimed
    BY <1>1, <1>7
  <2> QED  BY <1>2, <1>3, <2>1, <2>2, <2>3 DEF ClaimsOK, ClaimOK, Checking, Zero, Waiting
<1>8. CASE lane = "t1"
  <2>1. lane' = "t2" /\ UNCHANGED <<queueClaimed, t1Claimed>>
    BY <1>1, <1>8 DEF Starts
  <2>2. \A p \in Proxies : charged[p] = 1 => p \in t1Claimed \/ Waiting(p)
    BY <1>8 DEF ClaimsOK, ClaimOK
  <2>3. \A p \in S : p \notin t1Claimed /\ ~Waiting(p)
    BY <1>1, <1>8 DEF select_t2_candidates, Waiting, T1Probeable, T1_EXCLUDED_SCHEMES
  <2> QED  BY <1>2, <1>3, <2>1, <2>2, <2>3 DEF ClaimsOK, ClaimOK, Checking, Zero
<1> QED  BY <1>1, <1>4, <1>5, <1>6, <1>7, <1>8

\* A verdict charges a row that no lane of the cycle has charged before.
LEMMA JudgeClaims ==
  ASSUME IInv, ClaimsOK, NEW p \in Proxies, Judge(p), Observe(p)
  PROVE  ClaimsOK'
<1> DEFINE r == row[p]
           c == inflight[p]
<1>1. /\ r \in Row /\ c \in Check /\ RowOK(r, c, SchemeOf[p]) /\ SchemeOf[p] \in SchemeClass
      /\ row'[p] = Verdict(r, c) /\ c.outcome # "pending"
  <2>1. r \in Row /\ RowOK(r, c, SchemeOf[p]) /\ SchemeOf[p] \in SchemeClass
    BY SchemeOfAssumption DEF IInv, RowsOK
  <2>2. c \in Check /\ row'[p] = Verdict(r, c)
    BY DEF Judge, IInv, RowsOK, NoCheck, Outcomes
  <2>3. c.outcome # "pending"
    BY DEF Judge
  <2> QED  BY <2>1, <2>2, <2>3
<1>2. c.lane = lane /\ charged[p] = 0 /\ c.lane \in Lanes
      /\ (lane = "queue" => p \in queueClaimed /\ Waiting(p))
      /\ (lane = "t1" => p \in t1Claimed)
  BY <1>1 DEF ClaimsOK, ClaimOK, Checking, Check, Lanes
<1>3. Charged(p) => /\ lane \in {"queue", "t1", "t2"}
                    /\ row'[p].status \in {"alive", "ready"} => r.status \in {"alive", "ready"}
  BY <1>1, <1>2, VerdictCounts DEF Charged, Lanes, LadderLanes
<1>4. /\ \A q \in Proxies \ {p} : row'[q] = row[q] /\ inflight'[q] = inflight[q]
      /\ inflight'[p] = NoCheck /\ UNCHANGED cycleVars
  BY DEF Judge, IInv, RowsOK
<1>5. charged' = IF Charged(p) THEN [charged EXCEPT ![p] = 1] ELSE charged
  BY <1>2 DEF Observe, ClaimsOK
<1>6. charged' \in [Proxies -> Nat]
  BY <1>5 DEF ClaimsOK
<1>7. lane \in {"idle", "ladder_t2", "ladder"} => charged' = Zero
  BY <1>3, <1>5 DEF ClaimsOK
<1>8. ASSUME NEW q \in Proxies PROVE ClaimOK(q)'
  <2>1. CASE q # p
    BY <1>4, <1>5, <2>1 DEF ClaimsOK, ClaimOK, Checking, Waiting, cycleVars
  <2>2. CASE q = p
    <3>1. ~Checking(p)' /\ charged'[p] \in {0, 1} /\ (charged'[p] = 1 => Charged(p))
      BY <1>2, <1>4, <1>5 DEF Checking, NoCheck, ClaimsOK
    <3>2. Charged(p) => p \in t1Claimed \/ lane = "t2" \/ (p \in queueClaimed /\ Waiting(p)')
      BY <1>2, <1>3 DEF Waiting
    <3> QED  BY <1>4, <2>2, <3>1, <3>2 DEF ClaimOK, cycleVars
  <2> QED  BY <2>1, <2>2
<1> QED  BY <1>4, <1>6, <1>7, <1>8 DEF ClaimsOK, cycleVars

\* Every step keeps what the claims say.
LEMMA ClaimsStep ==
  ASSUME IInv, ClaimsOK, [HNext]_hvars
  PROVE  ClaimsOK'
<1>1. ASSUME NEW p \in Proxies, Judge(p) /\ Observe(p)
      PROVE  ClaimsOK'
  BY <1>1, JudgeClaims
<1>2. CASE (EndCycle \/ CycleLost) /\ charged' = Zero
  <2>1. inflight' = IdleChecks /\ lane' = "idle" /\ queueClaimed' = {} /\ t1Claimed' = {}
    BY <1>2 DEF EndCycle, CycleLost, Drained
  <2> QED  BY <1>2, <2>1 DEF ClaimsOK, ClaimOK, Checking, IdleChecks, NoCheck, Zero
<1>3. CASE CycleStep /\ lane # "t2" /\ UNCHANGED charged
  BY <1>3, StartClaims
<1>4. ASSUME NEW p \in Proxies, Conclude(p) \/ LoseVerdict(p), UNCHANGED charged
      PROVE  ClaimsOK'
  <2>1. /\ \A q \in Proxies : inflight'[q].lane \in {inflight[q].lane, "none"}
        /\ UNCHANGED <<cycleVars, row>>
    BY <1>4 DEF Conclude, LoseVerdict, NoCheck, IInv, RowsOK, Check
  <2> QED  BY <1>4, <2>1 DEF ClaimsOK, ClaimOK, Checking, Waiting, cycleVars
<1>5. CASE Around /\ UNCHANGED charged
  <2>1. UNCHANGED <<cycleVars, inflight>>
    BY <1>5, AroundRest
  <2>2. \A p \in Proxies : row'[p].status \in {"alive", "ready"} => row'[p].status = row[p].status
    BY <1>5, AroundRow DEF Kept, Renewed, Gone
  <2> QED  BY <1>5, <2>1, <2>2 DEF ClaimsOK, ClaimOK, Checking, Waiting, cycleVars
<1>6. CASE UNCHANGED hvars
  BY <1>6 DEF hvars, historyVars, vars, cycleVars, ClaimsOK, ClaimOK, Checking, Waiting
<1> QED  BY <1>1, <1>2, <1>3, <1>4, <1>5, <1>6 DEF HNext, Around

-----------------------------------------------------------------------------
(* The counter. *)

\* No step takes a fault back, and only Judge writes a row without forgetting a streak.
LEMMA StartCounts ==
  ASSUME IInv, ClaimsOK, CountsOK, CycleStep, lane # "t2", Forget
  PROVE  CountsOK'
<1>1. PICK S \in SUBSET Proxies, l \in Lanes :
        /\ Starts(l, S) /\ \A p \in Proxies : ~Checking(p)
        /\ \A p \in S : /\ row[p].status # "absent"
                        /\ l \in {"queue", "t1"} => row[p].last_t2_failed_at = "null"
                        /\ l = "ladder_t2" => row[p].status = "quarantine"
  <2>1. \A p \in Proxies : Drained => ~Checking(p)
    BY DEF Drained, IdleChecks, Checking, NoCheck
  <2>2. lane = "idle" => \A p \in Proxies : ~Checking(p)
    BY IdleIsIdle
  <2> QED  BY <2>1, <2>2, LaneStarts DEF Lanes, select_queued_checks, select_t1_candidates,
                                         select_t2_candidates
<1>2. /\ \A p \in Proxies : inflight'[p] =
             IF p \in S THEN [lane |-> l, step |-> row[p].ladder_step, outcome |-> "pending"] ELSE NoCheck
      /\ UNCHANGED <<row, journal, faults>>
  BY <1>1 DEF Starts, Start
<1>3. streak' \in [Proxies -> Nat]
  BY DEF Forget, CountsOK
<1>4. ASSUME faults = 0, NEW p \in Proxies PROVE CountOK(p)'
  <2>1. CountOK(p) /\ row[p].fail_count \in Nat /\ ~Checking(p)
    BY <1>1, <1>4, ColumnsOfARow DEF CountsOK, IInv, RowsOK
  <2>2. row'[p].fail_count <= streak'[p]
    BY <1>2, <2>1 DEF Forget, CountOK
  <2>3. inflight'[p].lane = (IF p \in S THEN l ELSE "none") /\ inflight'[p].outcome \in {"pending", "none"}
    <3> DEFINE started == [lane |-> l, step |-> row[p].ladder_step, outcome |-> "pending"]
    <3>1. inflight'[p] = IF p \in S THEN started ELSE NoCheck
      BY <1>2
    <3>2. started.lane = l /\ started.outcome = "pending" /\ NoCheck.lane = "none" /\ NoCheck.outcome = "none"
      BY DEF NoCheck
    <3> HIDE DEF started
    <3> QED  BY <3>1, <3>2
  <2>4. /\ Checking(p)' => row'[p].status # "absent"
        /\ inflight'[p].lane \in {"queue", "t1"} => row'[p].last_t2_failed_at = "null"
        /\ inflight'[p].lane = "ladder_t2" => row'[p].status = "quarantine"
    BY <1>1, <1>2, <2>3 DEF Checking
  <2>5. /\ journal[p].failed = "t2" /\ row[p].last_t2_failed_at = "null" /\ row[p].status \in Regular
        => row[p].fail_count = 0
    BY <2>1 DEF CountOK, Checking, T2Lanes
  <2> QED  BY <1>2, <2>2, <2>3, <2>4, <2>5 DEF CountOK, Regular
<1> QED  BY <1>2, <1>3, <1>4 DEF CountsOK

\* A verdict: success empties the counter or finds it empty, failure is counted on
\* both sides.
LEMMA JudgeCounts ==
  ASSUME IInv, CountsOK, NEW p \in Proxies, Judge(p), Observe(p)
  PROVE  CountsOK'
<1> DEFINE r == row[p]
           c == inflight[p]
           s == row'[p]
<1>1. /\ r \in Row /\ c \in Check /\ RowOK(r, c, SchemeOf[p]) /\ SchemeOf[p] \in SchemeClass
      /\ s = Verdict(r, c) /\ c.outcome # "pending"
  <2>1. r \in Row /\ RowOK(r, c, SchemeOf[p]) /\ SchemeOf[p] \in SchemeClass
    BY SchemeOfAssumption DEF IInv, RowsOK
  <2>2. c \in Check /\ s = Verdict(r, c)
    BY DEF Judge, IInv, RowsOK, NoCheck, Outcomes
  <2>3. c.outcome # "pending"
    BY DEF Judge
  <2> QED  BY <2>1, <2>2, <2>3
<1>2. /\ \A q \in Proxies \ {p} : row'[q] = row[q] /\ inflight'[q] = inflight[q] /\ streak'[q] = streak[q]
      /\ inflight'[p] = NoCheck /\ UNCHANGED <<journal, faults>>
      /\ streak' \in [Proxies -> Nat]
      /\ streak'[p] = IF Charged(p) THEN streak[p] + 1 ELSE IF Succeeded(p) THEN 0 ELSE streak[p]
  BY DEF Judge, Observe, IInv, RowsOK, CountsOK
<1>3. s \in Row
  BY <1>1, VerdictOK
<1>4. r.fail_count \in Nat /\ s.fail_count \in Nat /\ streak[p] \in Nat
  BY <1>1, <1>3, ColumnsOfARow DEF CountsOK
<1>5. ASSUME faults = 0 PROVE CountOK(p)'
  <2>1. CountOK(p)
    BY <1>5 DEF CountsOK
  <2>2. c.outcome = "ok_keep" /\ r.status \in Regular => r.fail_count = 0
    BY <2>1 DEF CountOK
  <2>3. s.fail_count <= streak'[p]
    <3>1. CASE Charged(p)
      <4>1. s.fail_count = r.fail_count + 1
        BY <1>1, <3>1, VerdictCounts DEF Charged
      <4> QED  BY <1>2, <1>4, <2>1, <3>1, <4>1 DEF CountOK
    <3>2. CASE ~Charged(p) /\ Succeeded(p)
      <4>1. s.fail_count = 0
        BY <1>1, <2>2, <3>2, VerdictCounts DEF Succeeded
      <4> QED  BY <1>2, <3>2, <4>1
    <3>3. CASE ~Charged(p) /\ ~Succeeded(p)
      BY <1>2, <1>4, <2>1, <3>3 DEF CountOK, Charged
    <3> QED  BY <3>1, <3>2, <3>3
  <2>4. ASSUME journal[p].failed = "t2", s.last_t2_failed_at = "null", s.status \in Regular
        PROVE  s.fail_count = 0
    <3>1. \/ s.fail_count = 0
          \/ /\ r.status \in Regular /\ s.fail_count = r.fail_count
             /\ c.outcome = "ok_keep" \/ (c.outcome = "fail" /\ c.lane = "ladder_t2")
          \/ c.outcome = "fail" /\ c.lane \notin T2Lanes
      BY <1>1, <2>4, VerdictCounts
    <3>2. CASE c.outcome = "fail" /\ c.lane \notin T2Lanes
      <4>1. r.status = "purged"
        BY <2>1, <2>4, <3>2 DEF CountOK
      <4>2. s = r
        BY <1>1, <3>2, <4>1 DEF Verdict, check_failed, quarantine_check_failed, Regular
      <4> QED  BY <2>4, <4>1, <4>2 DEF Regular
    <3>3. c.lane = "ladder_t2" /\ r.status \in Regular => r.fail_count = 0
      BY <2>1 DEF CountOK
    <3> QED  BY <2>2, <3>1, <3>2, <3>3
  <2> QED  BY <1>2, <2>3, <2>4 DEF CountOK, Checking, NoCheck
<1>6. ASSUME faults = 0, NEW q \in Proxies \ {p} PROVE CountOK(q)'
  BY <1>2, <1>6 DEF CountsOK, CountOK, Checking
<1> QED  BY <1>2, <1>5, <1>6 DEF CountsOK

\* The outcome of a check: the journal decides whether a T1 success may reset.
LEMMA ConcludeCounts ==
  ASSUME IInv, CountsOK, NEW p \in Proxies, Conclude(p), Forget
  PROVE  CountsOK'
<1> DEFINE c == inflight[p]
           d == inflight'[p]
<1>1. PICK o \in {"ok", "fail", "engine"}, stored \in BOOLEAN, found \in BOOLEAN :
        /\ journal' = IF stored /\ row[p].status \in ProxyStatus
                      THEN [journal EXCEPT ![p] = Journaled(p, o)] ELSE journal
        /\ inflight' = [inflight EXCEPT ![p].outcome =
                           Decided(p, o, IF found THEN journal'[p].failed ELSE "t2")]
        /\ faults' = IF stored /\ found THEN faults ELSE faults + 1
        /\ o = "engine" => c.lane \in T2Lanes
  BY DEF Conclude
<1>2. /\ c.outcome = "pending" /\ c \in Check /\ UNCHANGED row
      /\ row[p] \in Row /\ RowOK(row[p], c, SchemeOf[p])
  <2>1. c.outcome = "pending" /\ UNCHANGED row
    BY DEF Conclude
  <2>2. c \in Check \cup {NoCheck} /\ row[p] \in Row /\ RowOK(row[p], c, SchemeOf[p])
    BY DEF IInv, RowsOK
  <2> QED  BY <2>1, <2>2 DEF NoCheck
<1>3. streak' \in [Proxies -> Nat]
      /\ \A q \in Proxies : streak'[q] = IF row[q].fail_count = 0 THEN 0 ELSE streak[q]
  BY <1>2 DEF Forget, CountsOK
<1>4. faults' = 0 => faults = 0 /\ stored = TRUE /\ found = TRUE
  BY <1>1, QuotaAssumption DEF IInv, TypeOK
<1>5. ASSUME faults' = 0, NEW q \in Proxies \ {p} PROVE CountOK(q)'
  <2>1. inflight'[q] = inflight[q] /\ journal'[q] = journal[q] /\ row'[q] = row[q]
    BY <1>1, <1>2 DEF IInv, RowsOK, TypeOK
  <2>2. CountOK(q) /\ row[q].fail_count \in Nat
    BY <1>4, <1>5, ColumnsOfARow DEF CountsOK, IInv, RowsOK
  <2>3. row'[q].fail_count <= streak'[q]
    BY <1>3, <2>1, <2>2 DEF CountOK
  <2> QED  BY <2>1, <2>2, <2>3 DEF CountOK, Checking
<1>6. ASSUME faults' = 0 PROVE CountOK(p)'
  <2>1. CountOK(p) /\ row[p].fail_count \in Nat
    BY <1>2, <1>4, <1>6, ColumnsOfARow DEF CountsOK
  <2>2. d.lane = c.lane /\ d.outcome = Decided(p, o, journal'[p].failed)
    BY <1>1, <1>2, <1>4, <1>6 DEF IInv, RowsOK, Check
  <2>3. journal'[p] = IF row[p].status \in ProxyStatus THEN Journaled(p, o) ELSE journal[p]
    BY <1>1, <1>4, <1>6 DEF IInv, TypeOK
  <2>4. journal'[p].failed = IF row[p].status \in ProxyStatus /\ o # "ok"
                             THEN LaneKind(c.lane) ELSE journal[p].failed
    BY <2>3 DEF Journaled, IInv, TypeOK, Journal
  <2>5. row'[p].fail_count <= streak'[p]
    BY <1>2, <1>3, <2>1 DEF CountOK
  <2>6. c.lane # "none" /\ c.lane \in Lanes /\ row[p].status # "absent"
    BY <1>2, <2>1 DEF CountOK, Checking, Check, Lanes
  <2>7. ASSUME d.outcome = "ok_keep", row[p].status \in Regular
        PROVE  row[p].fail_count = 0
    <3>1. o = "ok" /\ c.lane \in {"queue", "t1"} /\ journal'[p].failed = "t2"
      BY <1>1, <2>2, <2>7 DEF Decided
    <3>2. journal[p].failed = "t2" /\ row[p].last_t2_failed_at = "null"
      BY <2>1, <2>4, <3>1 DEF CountOK
    <3> QED  BY <1>2, <2>1, <2>7, <3>1, <3>2 DEF CountOK
  <2>8. ASSUME d.outcome = "fail", d.lane \notin T2Lanes
        PROVE  journal'[p].failed # "t2" \/ row[p].status = "purged"
    <3>1. o = "fail"
      BY <1>1, <2>2, <2>8 DEF Decided
    <3>2. CASE row[p].status \in ProxyStatus
      BY <2>2, <2>4, <2>8, <3>1, <3>2 DEF LaneKind
    <3>3. CASE row[p].status \notin ProxyStatus
      BY <1>2, <2>6, <3>3, ColumnsOfARow DEF Status
    <3> QED  BY <3>2, <3>3
  <2>9. ASSUME journal'[p].failed = "t2", row[p].last_t2_failed_at = "null", row[p].status \in Regular,
               ~(d.lane \in T2Lanes /\ d.outcome \in {"fail", "engine"})
        PROVE  row[p].fail_count = 0
    <3>1. CASE o = "ok"
      <4>1. journal[p].failed = "t2"
        BY <2>4, <2>9, <3>1
      <4> QED  BY <1>2, <2>1, <2>9, <4>1 DEF CountOK
    <3>2. CASE o # "ok"
      <4>1. d.outcome = o /\ o \in {"fail", "engine"}
        BY <1>1, <2>2, <3>2 DEF Decided
      <4>2. c.lane \notin T2Lanes
        BY <2>2, <2>9, <4>1
      <4>3. journal'[p].failed = "t1"
        BY <2>4, <2>9, <3>2, <4>2 DEF LaneKind, ProxyStatus
      <4> QED  BY <2>9, <4>3
    <3> QED  BY <3>1, <3>2
  <2>10. /\ Checking(p)' => row'[p].status # "absent"
         /\ inflight'[p].lane \in {"queue", "t1"} => row'[p].last_t2_failed_at = "null"
         /\ inflight'[p].lane = "ladder_t2" /\ row'[p].status \in Regular => row'[p].fail_count = 0
    BY <1>2, <2>1, <2>2, <2>6 DEF CountOK
  <2> QED  BY <1>2, <2>5, <2>7, <2>8, <2>9, <2>10 DEF CountOK
<1> QED  BY <1>3, <1>5, <1>6 DEF CountsOK

\* Everybody else starts rows afresh, or leaves their counter where it is.
LEMMA AroundCounts ==
  ASSUME IInv, CountsOK, Around, Forget
  PROVE  CountsOK'
<1>1. UNCHANGED inflight /\ (faults' = 0 => faults = 0)
  BY AroundRest, QuotaAssumption DEF IInv, TypeOK
<1>2. streak' \in [Proxies -> Nat]
  BY DEF Forget, CountsOK
<1>3. ASSUME faults' = 0, NEW p \in Proxies PROVE CountOK(p)'
  <2>1. CountOK(p) /\ row[p].fail_count \in Nat
    BY <1>1, <1>3, ColumnsOfARow DEF CountsOK, IInv, RowsOK
  <2>2. journal'[p].failed \in {journal[p].failed, "none"}
    BY AroundRest
  <2>3. streak'[p] = IF row'[p].fail_count = 0 THEN 0 ELSE streak[p]
    BY DEF Forget
  <2>4. CASE Kept(p)
    BY <1>1, <2>1, <2>2, <2>3, <2>4 DEF CountOK, Kept, Checking
  <2>5. CASE Renewed(p)
    BY <1>1, <2>1, <2>2, <2>3, <2>5 DEF CountOK, Renewed, Checking
  <2>6. CASE Gone(p)
    BY <1>1, <2>1, <2>2, <2>3, <2>6 DEF CountOK, Gone, Checking, Regular, ProxyStatus
  <2> QED  BY <2>4, <2>5, <2>6, AroundRow
<1> QED  BY <1>2, <1>3 DEF CountsOK

\* Every step keeps what the counter stands for.
LEMMA CountsStep ==
  ASSUME IInv, ClaimsOK, CountsOK, [HNext]_hvars
  PROVE  CountsOK'
<1>0. faults \in Nat
  BY QuotaAssumption DEF IInv, TypeOK
<1>1. ASSUME NEW p \in Proxies, Judge(p) /\ Observe(p)
      PROVE  CountsOK'
  BY <1>1, JudgeCounts
<1>2. CASE EndCycle /\ UNCHANGED streak
  BY <1>2 DEF EndCycle, CountsOK, CountOK, Checking
<1>3. CASE CycleLost /\ UNCHANGED streak
  BY <1>0, <1>3 DEF CycleLost, CountsOK
<1>4. CASE CycleStep /\ lane # "t2" /\ Forget
  BY <1>4, StartCounts
<1>5. ASSUME NEW p \in Proxies, Conclude(p), Forget
      PROVE  CountsOK'
  BY <1>5, ConcludeCounts
<1>6. ASSUME NEW p \in Proxies, LoseVerdict(p), Forget
      PROVE  CountsOK'
  <2>1. faults' # 0 /\ streak' \in [Proxies -> Nat]
    BY <1>0, <1>6 DEF LoseVerdict, Forget, CountsOK
  <2> QED  BY <2>1 DEF CountsOK
<1>7. CASE Around /\ Forget
  BY <1>7, AroundCounts
<1>8. CASE UNCHANGED hvars
  BY <1>8 DEF hvars, historyVars, vars, cycleVars, CountsOK, CountOK, Checking
<1> QED  BY <1>1, <1>2, <1>3, <1>4, <1>5, <1>6, <1>7, <1>8 DEF HNext, Around

-----------------------------------------------------------------------------
(* The theorems. *)

\* The histories only observe the lifecycle: every behaviour with them is one of
\* ProxyLifecycle, and what is proved of that holds here.
LEMMA HistoriesObserve == HSpec => Spec
<1>1. HInit => Init
  BY DEF HInit
<1>2. [HNext]_hvars => [Next]_vars
  BY DEF HNext, hvars, Next, CheckStep, CycleStep
<1> QED  BY <1>1, <1>2, PTL DEF HSpec, Spec

\* The initial table has charged nobody and owes nothing.
LEMMA InitHistory == HInit => ClaimsOK /\ CountsOK
<1> SUFFICES ASSUME HInit PROVE ClaimsOK /\ CountsOK
  OBVIOUS
<1>0. /\ \A p \in Proxies : /\ inflight[p].lane = "none" /\ inflight[p].outcome = "none"
                            /\ row[p].fail_count = 0
                            /\ charged[p] = 0 /\ streak[p] = 0
      /\ charged \in [Proxies -> Nat] /\ streak \in [Proxies -> Nat]
  BY DEF HInit, Init, Zero, IdleChecks, NoCheck, Blank
<1>1. ClaimsOK
  BY <1>0 DEF HInit, Init, ClaimsOK, ClaimOK, Checking
<1>2. CountsOK
  BY <1>0 DEF CountsOK, CountOK, Checking
<1> QED  BY <1>1, <1>2

\* What the claims and the counter mean holds throughout, for every number of
\* rows, every quota and every fail limit (run_cycle, probe_one, finish_check).
THEOREM HistoryInvariant == HSpec => [](IInv /\ ClaimsOK /\ CountsOK)
<1>1. IInv /\ ClaimsOK /\ CountsOK /\ [HNext]_hvars => ClaimsOK' /\ CountsOK'
  BY ClaimsStep, CountsStep
<1> QED  BY <1>1, InitHistory, HistoriesObserve, Invariant, PTL DEF HSpec

\* No cycle charges a row twice: the lanes hand their claims on, and a row the
\* queue lane charged is none the T2 batch draws.
THEOREM ChargedAtMostOnce == HSpec => []ChargedOncePerCycle
<1>1. ClaimsOK => ChargedOncePerCycle
  BY DEF ClaimsOK, ClaimOK, ChargedOncePerCycle
<1> QED  BY <1>1, HistoryInvariant, PTL

\* While no write is lost, the fail counter holds consecutive failures only: the
\* T1 success that keeps it (T2 priority) meets a counter that is zero.
THEOREM CountersAreConsecutive == HSpec => []FailuresAreConsecutive
<1>1. CountsOK => FailuresAreConsecutive
  BY DEF CountsOK, CountOK, FailuresAreConsecutive
<1> QED  BY <1>1, HistoryInvariant, PTL
=============================================================================
