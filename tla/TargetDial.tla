------------------------------ MODULE TargetDial ------------------------------
(***************************************************************************)
(* One reachability check (fumox-probe t1.rs run, main.rs vet_hosts): the  *)
(* host's addresses are vetted, cut to a short list and dialled in order,  *)
(* each for its own timeout; a TLS check then shakes hands on the          *)
(* connection that was made.  [probe].allow_private_targets is off.        *)
(***************************************************************************)
EXTENDS HostGate

CONSTANTS Lookups,      \* what the lookup of the host may give
          Shortlist     \* MAX_VETTED_ADDRESSES

ASSUME DialAssumption == Lookups \subseteq Seq(Address) /\ Shortlist \in Nat /\ Shortlist >= 2

VARIABLES dial,         \* [at, kind, answer, vetted, tried]
          reachable     \* the addresses that take a connection

dialVars == <<dial, reachable>>

NotDialling == [at |-> "none", kind |-> "tcp", answer |-> << >>, vetted |-> << >>, tried |-> 0]
DialInit == dial = NotDialling /\ reachable \in SUBSET UNION {{a[i] : i \in DOMAIN a} : a \in Lookups}

\* A refused host, an empty answer and a lookup that ran out end the check.
Vetted ==
    /\ dial.at = "none"
    /\ \E answer \in Lookups, kind \in {"tcp", "tls"} :
          LET vetted == vet_resolved_addrs(answer, FALSE, Shortlist)
          IN  dial' = [at |-> IF vetted = << >> THEN "refused" ELSE "dial", kind |-> kind, answer |-> answer,
                       vetted |-> vetted, tried |-> 0]
    /\ UNCHANGED reachable

Dials ==
    /\ dial.at = "dial"
    /\ dial' = IF dial.tried = Len(dial.vetted) THEN [dial EXCEPT !.at = "failed"]
               ELSE IF dial.vetted[dial.tried + 1] \in reachable
                    THEN [dial EXCEPT !.tried = @ + 1, !.at = IF dial.kind = "tcp" THEN "ok" ELSE "handshake"]
               ELSE [dial EXCEPT !.tried = @ + 1]
    /\ UNCHANGED reachable

\* No second address is tried after a handshake that fails.
Handshakes ==
    /\ dial.at = "handshake"
    /\ \E result \in {"ok", "failed"} : dial' = [dial EXCEPT !.at = result]
    /\ UNCHANGED reachable

DialNext == Vetted \/ Dials \/ Handshakes
DialSpec == DialInit /\ [][DialNext]_dialVars

-----------------------------------------------------------------------------
(* Properties.                                                              *)

\* ssrf.rs cap_vetted: shortening the list never hides a family: a host whose
\* first address of either family answers is connected to, within the short
\* list's number of dials, and no address is dialled that the gate refused.
FirstOfEachFamilyIsDialled ==
    /\ dial.tried <= Shortlist
    /\ \A i \in 1..dial.tried : LeadsOut(dial.vetted[i])
    /\ (dial.at = "failed" /\ dial.tried = Len(dial.vetted) /\ (dial.kind = "tcp" \/ dial.vetted[dial.tried] \notin reachable)) =>
          \A i \in DOMAIN dial.answer :
              (\A j \in 1..i - 1 : is_ipv4(dial.answer[j]) # is_ipv4(dial.answer[i])) => dial.answer[i] \notin reachable
=============================================================================
