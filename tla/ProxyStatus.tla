---------------------------- MODULE ProxyStatus -----------------------------
(***************************************************************************)
(* What the lifecycle promises: the status diagram of USERGUIDE.md, with   *)
(* an owner for every arrow.  The probe daemon moves one row at a time     *)
(* along the diagram and alone decides that a node works; the feeds insert *)
(* rows and retire orphans; the operator restarts, removes and purges.     *)
(***************************************************************************)
CONSTANTS Proxies, TunnelRevived  \* the rows whose ladder is walked by tunnel checks

VARIABLE status

Live == {"alive", "ready"}
Present == {"unknown", "quarantine", "removed"} \cup Live

Init == status = [p \in Proxies |-> "absent"]

Set(S, new) == status' = [p \in Proxies |-> IF p \in S THEN new ELSE status[p]]

-----------------------------------------------------------------------------
Succeed(p) ==
    \/ status[p] \in {"unknown", "alive"} /\ Set({p}, "alive")
    \/ status[p] \in {"unknown"} \cup Live /\ Set({p}, "ready")

Fail(p) ==
    \/ status[p] = "ready" /\ Set({p}, "alive")
    \/ status[p] \in {"unknown"} \cup Live /\ Set({p}, "quarantine")

\* Quarantine is left for the tier the row's kind of check can prove.
Revive(p) ==
    /\ status[p] = "quarantine"
    /\ Set({p}, IF p \in TunnelRevived THEN "ready" ELSE "alive")

GiveUp(p) == status[p] = "quarantine" /\ Set({p}, "removed")

ProbeVerdict(p) == Succeed(p) \/ Fail(p) \/ Revive(p) \/ GiveUp(p)

\* New rows start as `unknown`; rows that lose their last source are retired.
Feed(new, orphans) ==
    /\ \A p \in new : status[p] = "absent"
    /\ \A p \in orphans : status[p] \in Present \ {"removed"}
    /\ status' = [p \in Proxies |-> IF p \in new THEN "unknown"
                                    ELSE IF p \in orphans THEN "removed" ELSE status[p]]

Operator(S) ==
    \/ (\A p \in S : status[p] \in Present) /\ Set(S, "unknown")
    \/ (\A p \in S : status[p] \in Present \ {"removed"}) /\ Set(S, "removed")
    \/ (\A p \in S : status[p] = "removed") /\ Set(S, "purged")

Next ==
    \/ \E p \in Proxies : ProbeVerdict(p)
    \/ \E new, orphans \in SUBSET Proxies : Feed(new, orphans)
    \/ \E S \in SUBSET Proxies : Operator(S)

Spec == Init /\ [][Next]_status
=============================================================================
