----------------------------- MODULE AliveExport -----------------------------
(***************************************************************************)
(* The export links (alive_export.rs): the capability token, the gates in  *)
(* front of a body, and the body's cache entry with its inline-render      *)
(* claim.  One tier; the other has the same code and an entry of its own.  *)
(***************************************************************************)
EXTENDS AccessRules

CONSTANTS ExportSlots,     \* requests that may be in flight at once
          LinkTokens,      \* capability tokens, one per rotation
          ExportTTL,       \* EXPORT_TTL_SECS
          RenderDeadline,  \* EXPORT_RENDER_DEADLINE
          LinkHosts, LinkAllowed,  \* Host values; [admin].allowed_hosts
          MaxRenderFaults  \* bound: failed renders

ASSUME ExportAssumption == ExportTTL \in Nat \ {0} /\ RenderDeadline \in Nat \ {0} /\ 1 \in LinkTokens

VARIABLES linkToken,   \* meta.alive_export_token, or unset
          cachedBody,  \* the cached body: [left, age], or none
          leader,      \* the slot holding the claim, or nobody
          exports,     \* slot -> request
          answers,     \* history: slot -> what the last answer was
          renderFaults

exportVars == <<linkToken, cachedBody, leader, exports, answers, renderFaults>>

NoEntry == [left |-> -1, age |-> 0]
Nobody == {}
NoAnswer == [status |-> 0, age |-> 0]
Closed == [pc |-> "closed"]

\* A body stops being told apart once it is older than the freshness window.
Older(a) == IF a > ExportTTL THEN a ELSE a + 1
is_fresh(e) == e.left > 0
Body == [left : -1 .. ExportTTL, age : 0 .. ExportTTL + 1]

ExportTypeOK ==
    /\ linkToken \in LinkTokens \cup {0}
    /\ cachedBody \in Body
    /\ \A s \in ExportSlots :
        /\ exports[s].pc \in {"closed", "token", "lookup", "claim", "render", "put", "release", "wait", "woken"}
        /\ answers[s].status \in {0, 200, 400, 404, 500} /\ answers[s].age \in 0 .. ExportTTL + 1
    /\ leader \in SUBSET ExportSlots /\ Cardinality(leader) <= 1

\* main calls ensure_token before the listener is bound.
ensure_token(stored, fresh) == IF stored # 0 THEN stored ELSE fresh

ExportInit ==
    /\ linkToken = ensure_token(0, 1)
    /\ cachedBody = NoEntry /\ leader = Nobody
    /\ exports = [s \in ExportSlots |-> Closed]
    /\ answers = [s \in ExportSlots |-> NoAnswer]
    /\ renderFaults = 0

-----------------------------------------------------------------------------
Answered(s, status, age) == answers' = [answers EXCEPT ![s] = [status |-> status, age |-> age]]
Reply(s, status, age) ==
    /\ Answered(s, status, age)
    /\ exports' = [exports EXCEPT ![s] = Closed]
Goto(s, pc) == exports' = [exports EXCEPT ![s].pc = pc]

\* serve_tier up to the token read: host gate, then the unsupported format.
Open(s) ==
    /\ exports[s] = Closed
    /\ \E host \in LinkHosts, token \in LinkTokens, format \in BOOLEAN :
         IF ~validate_request_host(host, LinkAllowed) THEN Reply(s, 404, 0)
         ELSE IF format THEN Reply(s, 400, 0)
         ELSE /\ exports' = [exports EXCEPT ![s] = [pc |-> "token", token |-> token, waited |-> 0]]
              /\ answers' = [answers EXCEPT ![s] = NoAnswer]
    /\ UNCHANGED <<linkToken, cachedBody, leader, renderFaults>>

CheckLink(s) ==
    /\ exports[s].pc = "token"
    /\ \/ /\ exports[s].token # linkToken
          /\ Reply(s, 404, 0)
          /\ UNCHANGED renderFaults
       \/ /\ exports[s].token = linkToken
          /\ Goto(s, "lookup")
          /\ UNCHANGED <<answers, renderFaults>>
       \/ /\ renderFaults < MaxRenderFaults
          /\ renderFaults' = renderFaults + 1
          /\ Reply(s, 500, 0)
    /\ UNCHANGED <<linkToken, cachedBody, leader>>

\* cached_render: a fresh entry is served.
Lookup(s) ==
    /\ exports[s].pc = "lookup"
    /\ IF is_fresh(cachedBody) THEN Reply(s, 200, cachedBody.age)
       ELSE Goto(s, "claim") /\ UNCHANGED answers
    /\ UNCHANGED <<linkToken, cachedBody, leader, renderFaults>>

begin_inline_render(s) ==
    /\ exports[s].pc = "claim"
    /\ IF leader = Nobody THEN leader' = {s} /\ Goto(s, "render")
       ELSE UNCHANGED leader /\ Goto(s, "wait")
    /\ UNCHANGED <<linkToken, cachedBody, answers, renderFaults>>

\* Mutant: the claim outlives a request that does not finish.
EndClaim_leaks(s) ==
    UNCHANGED leader /\ exports' = [exports EXCEPT ![s] = Closed]

\* The claim ends when it is dropped, with a body or without one, and every
\* waiter of it wakes.
EndClaim(s) ==
    IF s \in leader
    THEN /\ leader' = Nobody
         /\ exports' = [t \in ExportSlots |-> IF t = s THEN Closed
               ELSE IF exports[t].pc = "wait" THEN [exports[t] EXCEPT !.pc = "woken"] ELSE exports[t]]
    ELSE UNCHANGED leader /\ exports' = [exports EXCEPT ![s] = Closed]

\* One bounded query; a failure ends the claim without a body.
render_tier(s) ==
    /\ exports[s].pc = "render"
    /\ \/ Goto(s, "put") /\ UNCHANGED <<leader, answers, renderFaults>>
       \/ /\ renderFaults < MaxRenderFaults
          /\ renderFaults' = renderFaults + 1
          /\ EndClaim(s)
          /\ Answered(s, 500, 0)
    /\ UNCHANGED <<linkToken, cachedBody>>

\* processed_put: the body's window starts with the fill.
Put(s) ==
    /\ exports[s].pc = "put"
    /\ cachedBody' = [left |-> ExportTTL, age |-> 0]
    /\ IF s \in leader THEN Goto(s, "release") /\ UNCHANGED answers
       ELSE Reply(s, 200, 0)
    /\ UNCHANGED <<linkToken, leader, renderFaults>>

Release(s) ==
    /\ exports[s].pc = "release"
    /\ EndClaim(s)
    /\ Answered(s, 200, 0)
    /\ UNCHANGED <<linkToken, cachedBody, renderFaults>>

\* Mutant: a waiter trusts the entry its leader should have filled.
Woken_unchecked(s, stored) == stored # NoEntry

\* The claim a waiter joined has ended: whatever entry there is by then
\* answers it, if fresh.
Woken(s, stored) == is_fresh(stored)
Wake(s) ==
    /\ exports[s].pc = "woken"
    /\ IF Woken(s, cachedBody) THEN Reply(s, 200, cachedBody.age)
       ELSE Goto(s, "render") /\ UNCHANGED answers
    /\ UNCHANGED <<linkToken, cachedBody, leader, renderFaults>>

\* The deadline passed: the waiter renders for itself.
GiveUp(s) ==
    /\ exports[s].pc = "wait"
    /\ exports[s].waited >= RenderDeadline
    /\ Goto(s, "render")
    /\ UNCHANGED <<linkToken, cachedBody, leader, answers, renderFaults>>

\* The client hangs up: the handler is dropped where it awaits.
Disconnect(s) ==
    /\ exports[s].pc \in {"token", "render", "put", "release", "wait", "woken"}
    /\ EndClaim(s)
    /\ UNCHANGED <<linkToken, cachedBody, answers, renderFaults>>

-----------------------------------------------------------------------------
\* rotate_alive_token of the import page.
rotate_token ==
    /\ linkToken + 1 \in LinkTokens
    /\ linkToken' = linkToken + 1
    /\ UNCHANGED <<cachedBody, leader, exports, answers, renderFaults>>

\* The processed cache may drop any entry.
Evict ==
    /\ cachedBody # NoEntry
    /\ cachedBody' = NoEntry
    /\ UNCHANGED <<linkToken, leader, exports, answers, renderFaults>>

ExportTick ==
    /\ cachedBody' = IF cachedBody = NoEntry THEN NoEntry
                ELSE [left |-> IF cachedBody.left > 0 THEN cachedBody.left - 1 ELSE 0, age |-> Older(cachedBody.age)]
    /\ exports' = [s \in ExportSlots |->
          IF exports[s].pc = "wait" /\ exports[s].waited < RenderDeadline
          THEN [exports[s] EXCEPT !.waited = @ + 1] ELSE exports[s]]
    /\ UNCHANGED <<linkToken, leader, answers, renderFaults>>

ExportNext ==
    \/ rotate_token \/ Evict \/ ExportTick
    \/ \E s \in ExportSlots :
        \/ Open(s) \/ CheckLink(s) \/ Lookup(s) \/ begin_inline_render(s) \/ render_tier(s)
        \/ Put(s) \/ Release(s) \/ Wake(s) \/ GiveUp(s) \/ Disconnect(s)
ExportSpec == ExportInit /\ [][ExportNext]_exportVars

-----------------------------------------------------------------------------
(* "The exports deliberately never serve a stale body, not even to a        *)
(* waiter": a body somebody else rendered is served only while it is        *)
(* younger than the window, whichever leader fails and however long the     *)
(* waiters wait (cached_render).                                            *)
ExportIsFresh ==
    \A s \in ExportSlots : answers[s].status = 200 => answers[s].age < ExportTTL

(* A waiter never waits for a claim nobody is working on: the claim ends    *)
(* with its request, served, failed or abandoned by its client, and wakes   *)
(* whoever waits (begin_inline_render, InlineRenderGuard).                  *)
ClaimHasAWorker ==
    /\ \A s \in leader : exports[s].pc \in {"render", "put", "release"}
    /\ (\E s \in ExportSlots : exports[s].pc = "wait") => leader # Nobody

(* The export link serves fresh rows or says that it cannot, and no request *)
(* is parked for good (cached_render).                                      *)
LinkServesFreshRows == ExportIsFresh /\ ClaimHasAWorker
=============================================================================
