------------------------------ MODULE PublicGate ------------------------------
(***************************************************************************)
(* The public listener's rate limiting (serve.rs): every request of a      *)
(* client is counted in its window, a refused secret check in a second,    *)
(* stricter one whose refusal gives the first hit back.  A request is in   *)
(* flight between the two middleware halves, however long its handler      *)
(* takes.  What the middleware logs is in WarnLog.                         *)
(***************************************************************************)
EXTENDS AccessRules

CONSTANTS Clients,       \* addresses subscribers have
          Strangers,      \* addresses a client may write into a header
          Proxy,         \* the trusted reverse proxy
          PublicSlots,   \* requests that may be in flight at once
          AllLimit, AllWindow,    \* [server].rate_limit
          FailLimit, FailWindow,  \* [server].auth_fail_rate_limit
          MaxHits                 \* bound on the requests of a key in one window

ASSUME PublicLimits == {AllLimit, FailLimit, AllWindow, FailWindow} \subseteq Nat \ {0}
ASSUME PublicNames == /\ Opaque \notin Clients \cup Strangers \cup {Proxy} /\ Proxy \notin Clients
                      /\ NoHeader \notin Seq(Clients \cup Strangers \cup {Proxy, Opaque})

VARIABLES hits,      \* [all, auth_failures] -> client key -> counter
          requests,  \* slot -> the request behind the first half
          landed,    \* history: requests of a key since its window opened
          admitted,    \* history: those let through
          returned   \* history: hits given back in that window

publicVars == <<hits, requests, landed, admitted, returned>>

Keys == Clients \cup Strangers \cup {Proxy}
Limiters == {"all", "auth_failures"}
LimiterWindow(l) == IF l = "all" THEN AllWindow ELSE FailWindow
\* A handler's answer as the second half sees it.
Statuses == {200, 403, 404, 500}

\* What reaches the listener: the proxy appends the address it saw to either
\* header and passes on what the client wrote in the other; or no proxy.
Written == {NoHeader, << >>} \cup {<<a>> : a \in Strangers \cup Clients \cup {Proxy, Opaque}}
Forwards(client) ==
    LET Appended(h) == IF h = NoHeader THEN <<client>> ELSE Append(h, client)
    IN  [peer : {Proxy}, xff : {Appended(h) : h \in Written}, forwarded : Written]
        \cup [peer : {Proxy}, xff : Written, forwarded : {Appended(h) : h \in Written}]
        \cup [peer : {client}, xff : Written, forwarded : Written]
KeysOf == [c \in Clients |-> {client_key(f.peer, f.xff, f.forwarded, {Proxy}) : f \in Forwards(c)}]

Idle == [pc |-> "idle"]
PublicTypeOK ==
    /\ \A l \in Limiters, k \in Keys : hits[l][k].n \in Nat /\ hits[l][k].left \in 0 .. LimiterWindow(l)
    /\ \A s \in PublicSlots : requests[s] # Idle => requests[s].key \in Keys

PublicInit ==
    /\ hits = [l \in Limiters |-> [k \in Keys |-> Expired]]
    /\ requests = [s \in PublicSlots |-> Idle]
    /\ landed = [k \in Keys |-> 0] /\ admitted = [k \in Keys |-> 0] /\ returned = [k \in Keys |-> 0]

-----------------------------------------------------------------------------
Hit(l, k) == hits' = [hits EXCEPT ![l][k] = Counted(@, LimiterWindow(l))]

\* First half of public_rate_limit: count, then refuse with 429 or go in.
Arrive(s) ==
    /\ requests[s] = Idle
    /\ \E client \in Clients : \E k \in KeysOf[client] :
        /\ landed[k] < MaxHits
        /\ Hit("all", k)
        /\ landed' = [landed EXCEPT ![k] = @ + 1]
        /\ IF Under(hits["all"][k], AllLimit)
           THEN /\ requests' = [requests EXCEPT ![s] = [pc |-> "inside", key |-> k, client |-> client]]
                /\ admitted' = [admitted EXCEPT ![k] = @ + 1]
           ELSE UNCHANGED <<requests, admitted>>
    /\ UNCHANGED returned

\* Second half: a 403 past the stricter window becomes a 429 whose general
\* hit is given back.
Answer(s) ==
    /\ requests[s] # Idle
    /\ requests' = [requests EXCEPT ![s] = Idle]
    /\ LET k == requests[s].key IN
       \E status \in Statuses :
         IF status # 403 THEN UNCHANGED <<hits, returned>>
         ELSE IF Under(hits["auth_failures"][k], FailLimit)
         THEN Hit("auth_failures", k) /\ UNCHANGED returned
         ELSE /\ hits' = [hits EXCEPT !["auth_failures"][k] = Counted(@, FailWindow),
                                      !["all"][k] = refund(@, AllWindow)]
              /\ returned' = [returned EXCEPT ![k] = @ + 1]
    /\ UNCHANGED <<landed, admitted>>

\* Time passes; a window that ends forgets its counter.
PublicTick ==
    /\ hits' = [l \in Limiters |-> [k \in Keys |-> Aged(hits[l][k])]]
    /\ LET Kept(h) == [k \in Keys |-> IF hits["all"][k].left <= 1 THEN 0 ELSE h[k]] IN
       landed' = Kept(landed) /\ admitted' = Kept(admitted) /\ returned' = Kept(returned)
    /\ UNCHANGED requests

PublicNext == PublicTick \/ \E s \in PublicSlots : Arrive(s) \/ Answer(s)
PublicSpec == PublicInit /\ [][PublicNext]_publicVars

-----------------------------------------------------------------------------
(* Whatever a client writes into a forwarded header, behind a proxy that    *)
(* names it in one of them its requests are counted for its own address or  *)
(* for the proxy's, never for an address of its choice (client_key).        *)
NeverAThirdParty ==
    \A s \in PublicSlots : requests[s] # Idle => requests[s].key \in {requests[s].client, Proxy}

(* A window never holds a hit nobody made: however late a refund comes, a   *)
(* key is not shut out before it made AllLimit requests (RateLimiter).      *)
NoPhantomHits == \A k \in Keys : hits["all"][k].n <= landed[k]

(* A window lets through no more than its limit and the hits given back in  *)
(* it (public_rate_limit).                                                  *)
WindowBudget == \A k \in Keys : admitted[k] <= AllLimit + returned[k]
=============================================================================
