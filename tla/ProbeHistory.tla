---------------------------- MODULE ProbeHistory ----------------------------
(***************************************************************************)
(* ProxyLifecycle with history variables: what the current cycle has       *)
(* already done to each row, and how many charged failures in a row it has *)
(* collected.  They only observe: every step is a step of ProxyLifecycle.  *)
(***************************************************************************)
EXTENDS ProxyLifecycle

VARIABLES charged,  \* fail_count steps each row was charged in the current cycle
          streak    \* charged failures of each row since its last success or reset

historyVars == <<charged, streak>>
hvars == <<vars, historyVars>>

Zero == [p \in Proxies |-> 0]

HInit == Init /\ charged = Zero /\ streak = Zero

Charged(p) == row'[p].fail_count > row[p].fail_count
Succeeded(p) == inflight[p].outcome \in {"ok", "ok_keep"} /\ row'[p].status \in {"alive", "ready"}

Observe(p) ==
    /\ charged' = IF Charged(p) THEN [charged EXCEPT ![p] = @ + 1] ELSE charged
    /\ streak' = [streak EXCEPT ![p] = IF Charged(p) THEN @ + 1
                                       ELSE IF Succeeded(p) THEN 0 ELSE @]

\* A reset leaves fail_count at 0, and the streak starts over with it.
Forget == streak' = [p \in Proxies |-> IF row'[p].fail_count = 0 THEN 0 ELSE streak[p]]

HNext ==
    \/ \E p \in Proxies : Judge(p) /\ Observe(p)
    \/ (EndCycle \/ CycleLost) /\ charged' = Zero /\ UNCHANGED streak
    \/ /\ \/ CycleStep /\ lane # "t2"
          \/ \E p \in Proxies : Conclude(p) \/ LoseVerdict(p) \/ Due(p)
          \/ ServerStep \/ OperatorStep
       /\ Forget /\ UNCHANGED charged

HSpec == HInit /\ [][HNext]_hvars

\* A row is charged at most one fail_count step per cycle, so it takes fail_limit
\* cycles to quarantine it: the purpose of the `claimed` hand-off of run_cycle.
ChargedOncePerCycle == \A p \in Proxies : charged[p] <= 1

\* fail_count counts consecutive failures: it never holds more than the charged
\* failures since the last success, so no old failure helps quarantine a row.
\* A lost journal row or lookup voids this: the T2-priority rule reads them.
FailuresAreConsecutive == faults = 0 => \A p \in Proxies : row[p].fail_count <= streak[p]
=============================================================================
