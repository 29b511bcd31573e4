------------------------------- MODULE WarnLog -------------------------------
(***************************************************************************)
(* The two process-wide warn registries of the public listener: failed     *)
(* secret checks by client (AuthFailLog, serve.rs) and rejected hosts of   *)
(* the export links (HostRejectLog, alive_export.rs).  Both hold the same  *)
(* code; the requests that fail come from anywhere at any time.            *)
(***************************************************************************)
EXTENDS AccessRules

CONSTANTS FailingKeys,   \* client keys, or Host values
          WarnWindow, MaxTracked, MaxWarns,
          MaxTime,       \* bound on the clock
          MaxSilence     \* bound on the suppressed keys of one window

ASSUME WarnAssumption == {WarnWindow, MaxTracked, MaxWarns} \subseteq Nat \ {0} /\ MaxTime \in Nat

VARIABLES clock,
          registry,
          named,     \* history: new keys warned about in the current window
          unsaid     \* history: keys suppressed since the last summary

logVars == <<clock, registry, named, unsaid>>

LogTypeOK ==
    /\ clock \in 0 .. MaxTime
    /\ registry.warns \in 0 .. MaxWarns
    /\ Cardinality(DOMAIN registry.seen) <= MaxTracked

LogInit == clock = 0 /\ registry = FreshLog /\ named = 0 /\ unsaid = 0

\* One failed check, decided under the registry's mutex.
Fail(key) ==
    /\ registry.total < MaxSilence
    /\ \E outcome \in should_warn(registry, key, clock, WarnWindow, MaxTracked, MaxWarns) :
        LET rolled == outcome.log.start # registry.start
            new == key \notin DOMAIN registry.seen
        IN  /\ registry' = outcome.log
            /\ named' = (IF rolled THEN 0 ELSE named) + (IF new /\ outcome.warn THEN 1 ELSE 0)
            /\ unsaid' = (IF rolled THEN 0 ELSE unsaid) + (IF new /\ ~outcome.warn THEN 1 ELSE 0)
            /\ UNCHANGED clock

LogTick == clock < MaxTime /\ clock' = clock + 1 /\ UNCHANGED <<registry, named, unsaid>>

LogNext == LogTick \/ \E key \in FailingKeys : Fail(key)
LogSpec == LogInit /\ [][LogNext]_logVars

-----------------------------------------------------------------------------
(* A new failing key is left unwarned only in a window that already warned  *)
(* about MaxWarns others, and the registry then remembers that it happened, *)
(* for the summary of the rollover (should_warn, roll_window).              *)
SilenceIsEarned ==
    /\ unsaid > 0 => named >= MaxWarns
    /\ unsaid = registry.total
    /\ unsaid > 0 <=> registry.suppressed # None
=============================================================================
