------------------------------ MODULE ProxyRow ------------------------------
(***************************************************************************)
(* One row of the `proxies` table, and every statement of                  *)
(* fumox-core/src/repo/proxies.rs that writes its lifecycle columns, as a  *)
(* function from the row before the statement to the row after it.  A      *)
(* statement whose WHERE clause refuses the row returns it unchanged.      *)
(*                                                                         *)
(* Timestamps are abstracted to what the statements test: a nullable stamp *)
(* is "null" or "set"; `ladder_at`, the one stamp that is compared with    *)
(* the clock, is "null", "later" or "due".                                 *)
(***************************************************************************)
EXTENDS Integers

CONSTANTS FailLimit,      \* [probe] fail_limit
          RecheckDelays   \* the length of [probe] recheck_delays_secs

ASSUME FailLimitAssumption == FailLimit \in Nat \ {0}
ASSUME RecheckDelaysAssumption == RecheckDelays \in Nat

Stamp == {"null", "set"}

\* The classes of `Scheme` the probe lanes tell apart: checked by T1 and by
\* T2 (vless, vmess, trojan, ss, socks5, snell, anytls), by T1 only (naive),
\* by T2 only (hysteria2), by neither (tuic, mieru).
SchemeClass == {"both", "t1_only", "hysteria2", "unprobeable"}
T1_EXCLUDED_SCHEMES == {"hysteria2", "unprobeable"}
T2_SCHEMES == {"both", "hysteria2"}
T2_REVIVAL_SCHEMES == {"hysteria2"}

\* "absent": no such id yet.  "purged": deleted, and the AUTOINCREMENT id is
\* never given out again.  The other five are `ProxyStatus`.
Regular == {"unknown", "alive", "ready"}
ProxyStatus == Regular \cup {"quarantine", "removed"}
Status == ProxyStatus \cup {"absent", "purged"}

Row == [status : Status,
        fail_count : 0 .. FailLimit,
        quarantined_at : Stamp,
        ladder_at : {"null", "later", "due"},
        ladder_step : 0 .. RecheckDelays,
        removed_at : Stamp,
        last_t2_failed_at : Stamp]

\* The column defaults a row is inserted with; also the value the model gives
\* a row that does not exist, whose columns nothing reads.
Blank(status) == [status |-> status, fail_count |-> 0,
                  quarantined_at |-> "null", ladder_at |-> "null", ladder_step |-> 0,
                  removed_at |-> "null", last_t2_failed_at |-> "null"]

-----------------------------------------------------------------------------
(* Verdicts of the probe daemon. *)

\* `to` is the tier the check proves: "ready" for a tunnel check (T2),
\* "alive" for a connect check (T1), which never demotes a `ready` row.
check_succeeded(r, to, reset_fail_count) ==
    IF r.status \in ProxyStatus \ {"removed"}
    THEN [r EXCEPT !.status = IF to = "ready" \/ @ = "ready" THEN "ready" ELSE "alive",
                   !.fail_count = IF reset_fail_count THEN 0 ELSE @,
                   !.quarantined_at = "null",
                   !.ladder_at = "null",
                   !.ladder_step = 0,
                   !.last_t2_failed_at = IF to = "ready" THEN "null" ELSE @]
    ELSE r

check_failed(r, mark_t2_failed) ==
    LET counted == [r EXCEPT !.fail_count = @ + 1,
                             !.last_t2_failed_at = IF mark_t2_failed THEN "set" ELSE @]
    IN  IF r.status \notin Regular THEN r
        ELSE IF r.fail_count + 1 >= FailLimit
             THEN [counted EXCEPT !.status = "quarantine",
                                  !.quarantined_at = "set",
                                  !.ladder_at = "later",
                                  !.ladder_step = 0]
             ELSE [counted EXCEPT !.status = IF @ = "ready" THEN "alive" ELSE @]

\* Mutations of check_engine_unavailable: `ready` survives the outage; no status
\* guard; the outage is charged like a failure.
check_engine_unavailable_keeps_ready(r) ==
    IF r.status \in Regular THEN [r EXCEPT !.last_t2_failed_at = "set"] ELSE r
check_engine_unavailable_unguarded(r) == [r EXCEPT !.last_t2_failed_at = "set"]
check_engine_unavailable_charged(r) == check_failed(r, TRUE)

check_engine_unavailable(r) ==
    IF r.status \in Regular
    THEN [r EXCEPT !.status = IF @ = "ready" THEN "alive" ELSE @,
                   !.last_t2_failed_at = "set"]
    ELSE r

\* Mutations of quarantine_check_failed: one rung too many, one rung too few.
quarantine_check_failed_overrun(r, step) ==
    IF r.status # "quarantine" THEN r
    ELSE IF step <= RecheckDelays
         THEN [r EXCEPT !.ladder_at = "later", !.ladder_step = step + 1]
         ELSE [r EXCEPT !.status = "removed", !.removed_at = "set",
                        !.ladder_at = "null", !.ladder_step = 0]
quarantine_check_failed_early(r, step) ==
    IF r.status # "quarantine" THEN r
    ELSE IF step + 1 < RecheckDelays
         THEN [r EXCEPT !.ladder_at = "later", !.ladder_step = step + 1]
         ELSE [r EXCEPT !.status = "removed", !.removed_at = "set",
                        !.ladder_at = "null", !.ladder_step = 0]

\* `step` is the ladder step the row carried when the check was selected.
quarantine_check_failed(r, step) ==
    IF r.status # "quarantine" THEN r
    ELSE IF step < RecheckDelays
         THEN [r EXCEPT !.ladder_at = "later", !.ladder_step = step + 1]
         ELSE [r EXCEPT !.status = "removed", !.removed_at = "set",
                        !.ladder_at = "null", !.ladder_step = 0]

-----------------------------------------------------------------------------
(* Statements of the server: revivals, cleanups and retirements. *)

\* Mutations of RESET_SET: the fail counter is forgotten; the T2 block is.
RESET_SET_keeps_count(r) == [r EXCEPT !.quarantined_at = "null", !.ladder_at = "null",
                                      !.ladder_step = 0, !.last_t2_failed_at = "null"]

RESET_SET_keeps_block(r) == [r EXCEPT !.fail_count = 0, !.quarantined_at = "null",
                                      !.ladder_at = "null", !.ladder_step = 0]

RESET_SET(r) == [r EXCEPT !.fail_count = 0,
                          !.quarantined_at = "null",
                          !.ladder_at = "null",
                          !.ladder_step = 0,
                          !.last_t2_failed_at = "null"]

\* RESET_SET together with the `status` and `removed_at` writes around it.
Pristine(r) == [RESET_SET(r) EXCEPT !.status = "unknown", !.removed_at = "null"]

\* The cleanup actions of the admin panel: straight to `removed`, off the
\* ladder, fail counter and T2 block kept.
CleanedUp(r) == [r EXCEPT !.status = "removed", !.removed_at = "set",
                          !.quarantined_at = "null", !.ladder_at = "null",
                          !.ladder_step = 0]

\* A retirement for want of a source link: only these two columns are written.
Retired(r) == [r EXCEPT !.status = "removed", !.removed_at = "set"]

\* Time passes: the moment in `ladder_at` arrives.
ComesDue(r) == [r EXCEPT !.ladder_at = "due"]
=============================================================================
