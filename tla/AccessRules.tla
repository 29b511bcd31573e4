----------------------------- MODULE AccessRules -----------------------------
(***************************************************************************)
(* The pure parts of the two listeners' protection: the client address a   *)
(* request is counted for (security.rs), the fixed-window counter, the     *)
(* hourly warn registry (serve.rs, alive_export.rs), the host gate         *)
(* (host_gate.rs) and the cross-site test of the panel (admin/auth.rs).    *)
(***************************************************************************)
EXTENDS Integers, Sequences, FiniteSets, SequencesExt, TLC

-----------------------------------------------------------------------------
(* The client address.  A forwarded header is a sequence of entries, an     *)
(* address or Opaque (_hidden, unknown, unparsable); an absent one is       *)
(* NoHeader.                                                                *)
CONSTANTS NoHeader, Opaque

Nothing == <<"nothing">>
TrustedChain == <<"trusted">>
Client(a) == <<"client", a>>

Named(header) == IF header = NoHeader THEN {} ELSE {i \in DOMAIN header : header[i] # Opaque}

\* Mutant: the leftmost untrusted entry.
walk_left(header, trusted) ==
    LET beyond == {i \in Named(header) : header[i] \notin trusted}
    IN  IF beyond # {} THEN Client(header[Min(beyond)])
        ELSE IF Named(header) # {} THEN TrustedChain ELSE Nothing

\* Right to left, over the hops inside the trust list.
walk(header, trusted) ==
    LET beyond == {i \in Named(header) : header[i] \notin trusted}
    IN  IF beyond # {} THEN Client(header[Max(beyond)])
        ELSE IF Named(header) # {} THEN TrustedChain ELSE Nothing

client_key(peer, xff, forwarded, trusted) ==
    LET x == walk(xff, trusted)
        f == walk(forwarded, trusted)
        Sole(found) == IF found[1] = "client" THEN found[2] ELSE peer
    IN  IF peer \notin trusted THEN peer
        ELSE IF forwarded = NoHeader THEN Sole(x)
        ELSE IF xff = NoHeader THEN Sole(f)
        ELSE IF x = f \/ f = TrustedChain THEN Sole(x)
        ELSE IF x = TrustedChain THEN Sole(f)
        ELSE peer

-----------------------------------------------------------------------------
(* RateLimiter: a counter lives one window from its first hit.              *)
Expired == [n |-> 0, left |-> 0]

Live(counter, window) == IF counter.left = 0 THEN [Expired EXCEPT !.left = window] ELSE counter
Counted(counter, window) == [Live(counter, window) EXCEPT !.n = @ + 1]
\* Mutant: one hit too many.
Under_inclusive(counter, limit) == counter.n <= limit

Under(counter, limit) == counter.n < limit
\* Mutant: a plain subtraction; the counter is a u64.
refund_wraps(counter, window) ==
    LET MaxU64 == 2^3 - 1
    IN  [Live(counter, window) EXCEPT !.n = IF @ = 0 THEN MaxU64 ELSE @ - 1]

refund(counter, window) ==
    [Live(counter, window) EXCEPT !.n = IF @ = 0 THEN 0 ELSE @ - 1]
Aged(counter) == IF counter.left <= 1 THEN Expired ELSE [counter EXCEPT !.left = @ - 1]

-----------------------------------------------------------------------------
(* AuthFailLog and HostRejectLog: one registry of warned keys per window.   *)
None == << >>
FreshLog == [seen |-> << >>, start |-> None, warns |-> 0, suppressed |-> None, total |-> 0]

\* Mutant: the rollover forgets the spent budget.
roll_window_keeps_budget(log, now, window) ==
    IF log.start = None THEN [log EXCEPT !.start = <<now>>]
    ELSE IF now - log.start[1] < window THEN log
    ELSE [FreshLog EXCEPT !.seen = log.seen, !.start = <<now>>, !.warns = log.warns]

roll_window(log, now, window) ==
    IF log.start = None THEN [log EXCEPT !.start = <<now>>]
    ELSE IF now - log.start[1] < window THEN log
    ELSE [FreshLog EXCEPT !.seen = log.seen, !.start = <<now>>]

\* Mutant: the registry is never trimmed.
Trimmed_never(seen, tracked) == {seen}

\* A full registry drops its oldest key; which of several is left to the map.
Trimmed(seen, tracked) ==
    LET keys == DOMAIN seen
        oldest == {k \in keys : \A other \in keys : seen[k] <= seen[other]}
    IN  IF Cardinality(keys) < tracked THEN {seen}
        ELSE {[k \in keys \ {gone} |-> seen[k]] : gone \in oldest}

\* The registry after one failure of key, and what is logged at warn level:
\* a window summary, the key, or nothing.
should_warn(old, key, now, window, tracked, maxWarns) ==
    LET log == roll_window(old, now, window)
        summary == log.start # old.start /\ old.suppressed # None
        Outcome(l, warn) == [log |-> l, warn |-> warn, summary |-> summary]
        Seen(s) == [k \in DOMAIN s \cup {key} |-> IF k = key THEN now ELSE s[k]]
    IN  IF key \in DOMAIN log.seen
        THEN IF now - log.seen[key] < window THEN {Outcome(log, FALSE)}
             ELSE {Outcome([log EXCEPT !.seen = Seen(@)], TRUE)}
        ELSE {IF log.warns >= maxWarns
              THEN Outcome([log EXCEPT !.seen = Seen(s), !.total = @ + 1,
                                       !.suppressed = IF @ = None THEN <<key>> ELSE @], FALSE)
              ELSE Outcome([log EXCEPT !.seen = Seen(s), !.warns = @ + 1], TRUE)
              : s \in Trimmed(log.seen, tracked)}

-----------------------------------------------------------------------------
(* The host gate.  A Host value is a name with the way it is spelled; what  *)
(* does not canonicalize has no name.                                       *)
NoHost == "no host"
canonical_request_host(host) ==
    IF host.spelled \in {"with userinfo", "missing"} THEN NoHost ELSE host.name
\* An entry of the list goes through the same canonicalization.
validate_request_host(host, allowed) ==
    \/ allowed = {}
    \/ /\ canonical_request_host(host) # NoHost
       /\ canonical_request_host(host) \in {canonical_request_host(h) : h \in allowed}

\* Fetch Metadata first, then Origin; a request without either is not judged.
cross_site_context(site, origin, navigation) ==
    IF site # "absent" THEN site = "cross-site" /\ ~navigation
    ELSE origin \in {"null", "other", "unparsable"}
=============================================================================
