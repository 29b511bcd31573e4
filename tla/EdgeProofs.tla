------------------------------ MODULE EdgeProofs ------------------------------
(***************************************************************************)
(* Theorems about what crosses the border of the program, for every set of *)
(* clients, browsers, tokens, lookups, batches and tables and every limit. *)
(*                                                                         *)
(* Requests first: the public and the admin windows, the warning           *)
(* registries, the sessions and the export links.  Each part has an        *)
(* inductive invariant of its own, PublicInv, LimiterInv, LogInv,          *)
(* SessionsOK and ExportInv.  A counter of a window is tied to the ghost   *)
(* count of what came in during that window: both are cleared by the same  *)
(* tick.  A cookie is tied to the epoch it was minted in, a cached body to *)
(* the time its window has lost.                                           *)
(*                                                                         *)
(* Then connections: reachability checks, source downloads, tunnels of the *)
(* engine, the passes over the geo columns and the database downloads.     *)
(* Every list the model filters, truncates or pages is a list of positions *)
(* in order; the lemmas of PositionsProofs say which entries such a list   *)
(* has.  What vet_host pins and what cap_vetted leaves was let out by      *)
(* check_ip, and the short list reaches the first address of each family.  *)
(* The invariants are DialInv, FetchInv, EngineInv, GeoInv, DownloadInv.   *)
(*                                                                         *)
(* The parts share no state: a step of the border is a step of each part   *)
(* or leaves it alone, so each invariant carries over.                     *)
(***************************************************************************)
EXTENDS MCEdge, PositionsProofs

-----------------------------------------------------------------------------
(* The client key: the entry of the forwarded header that no trusted proxy  *)
(* wrote.                                                                   *)

\* What one entry of a header may be.
Entry == Clients \cup Strangers \cup {Proxy, Opaque}

\* The headers a request can bring are lists of entries.
LEMMA WrittenHeaders == Written \subseteq {NoHeader} \cup Seq(Entry)
<1>1. \A a \in Entry : <<a>> \in Seq(Entry)
  OBVIOUS
<1>2. << >> \in Seq(Entry)
  OBVIOUS
<1>3. Strangers \cup Clients \cup {Proxy, Opaque} \subseteq Entry
  BY DEF Entry
<1> QED  BY <1>1, <1>2, <1>3, Zenon DEF Written

\* Walking from the right over trusted proxies stops at the client (walk).
LEMMA WalkEndsAtClient ==
  ASSUME NEW client \in Clients, NEW h \in Seq(Entry), Len(h) # 0, h[Len(h)] = client
  PROVE  h # NoHeader /\ walk(h, {Proxy}) = Client(client)
<1>1. h # NoHeader
  BY PublicNames DEF Entry
<1>2. client # Opaque /\ client # Proxy
  BY PublicNames
<1> DEFINE beyond == {i \in Named(h) : h[i] \notin {Proxy}}
<1>3. Len(h) \in Nat /\ Len(h) \in DOMAIN h /\ DOMAIN h = 1..Len(h)
  OBVIOUS
<1>4. Len(h) \in beyond /\ \A i \in beyond : i \in Nat /\ i <= Len(h)
  BY <1>1, <1>2, <1>3 DEF Named
<1> HIDE DEF beyond
<1>5. Max(beyond) = Len(h)
  <2>1. \A m \in beyond : (\A y \in beyond : m >= y) => m = Len(h)
    BY <1>3, <1>4
  <2>2. \A y \in beyond : Len(h) >= y
    BY <1>3, <1>4
  <2> QED  BY <1>4, <2>1, <2>2 DEF Max
<1>6. beyond # {}
  BY <1>4
<1> QED  BY <1>1, <1>5, <1>6 DEF walk, beyond

\* No client address is one of a trusted proxy (is_trusted).
LEMMA ClientIsNotTrusted ==
  ASSUME NEW client
  PROVE  Client(client) # TrustedChain /\ Client(client)[1] = "client" /\ Client(client)[2] = client
<1>1. Len(Client(client)) = 2 /\ Len(TrustedChain) = 1
  BY DEF Client, TrustedChain
<1> QED  BY <1>1 DEF Client

\* The key a request is counted under is its client, or the proxy it came
\* through when the header names nobody (client_key).
LEMMA KeyOfClient ==
  ASSUME NEW client \in Clients, NEW f \in Forwards(client)
  PROVE  client_key(f.peer, f.xff, f.forwarded, {Proxy}) \in {client, Proxy}
<1> DEFINE Appended(h) == IF h = NoHeader THEN <<client>> ELSE Append(h, client)
<1>0. client # Proxy
  BY PublicNames
<1>1. ASSUME NEW h \in Written
      PROVE  Appended(h) # NoHeader /\ walk(Appended(h), {Proxy}) = Client(client)
  <2>1. h = NoHeader \/ h \in Seq(Entry)
    BY WrittenHeaders
  <2>2. client \in Entry
    BY DEF Entry
  <2>3. CASE h = NoHeader
    <3> DEFINE g == <<client>>
    <3>1. g \in Seq(Entry) /\ Len(g) # 0 /\ g[Len(g)] = client
      BY <2>2
    <3> HIDE DEF g
    <3>2. g # NoHeader /\ walk(g, {Proxy}) = Client(client)
      BY <3>1, WalkEndsAtClient
    <3> QED  BY <2>3, <3>2 DEF g
  <2>4. CASE h # NoHeader
    <3> DEFINE g == Append(h, client)
    <3>1. g \in Seq(Entry) /\ Len(g) # 0 /\ g[Len(g)] = client
      BY <2>1, <2>2, <2>4
    <3> HIDE DEF g
    <3>2. g # NoHeader /\ walk(g, {Proxy}) = Client(client)
      BY <3>1, WalkEndsAtClient
    <3> QED  BY <2>4, <3>2 DEF g
  <2> QED  BY <2>3, <2>4
<1>2. /\ Client(client) # TrustedChain /\ Client(client)[1] = "client" /\ Client(client)[2] = client
  BY ClientIsNotTrusted
<1>3. CASE f.peer = client
  BY <1>0, <1>3 DEF client_key
<1>4. ASSUME f.peer = Proxy, f.xff # NoHeader, walk(f.xff, {Proxy}) = Client(client)
      PROVE  client_key(f.peer, f.xff, f.forwarded, {Proxy}) \in {client, Proxy}
  BY <1>2, <1>4 DEF client_key
<1>5. ASSUME f.peer = Proxy, f.forwarded # NoHeader, walk(f.forwarded, {Proxy}) = Client(client)
      PROVE  client_key(f.peer, f.xff, f.forwarded, {Proxy}) \in {client, Proxy}
  BY <1>2, <1>5 DEF client_key
<1>6. \/ f \in [peer : {Proxy}, xff : {Appended(h) : h \in Written}, forwarded : Written]
      \/ f \in [peer : {Proxy}, xff : Written, forwarded : {Appended(h) : h \in Written}]
      \/ f \in [peer : {client}, xff : Written, forwarded : Written]
  BY Zenon DEF Forwards
<1> HIDE DEF Appended
<1>7. \/ f.peer = Proxy /\ \E h \in Written : f.xff = Appended(h)
      \/ f.peer = Proxy /\ \E h \in Written : f.forwarded = Appended(h)
      \/ f.peer = client
  BY <1>6
<1> QED  BY <1>1, <1>3, <1>4, <1>5, <1>7

(* The fixed-window counter. *)

\* A counter, and one whose window is over.
Counter(window) == [n : Nat, left : 0..window]
Empty(c) == c.left = 0 => c.n = 0

\* A refund takes back at most one request and never reopens a window; ageing
\* clears a counter exactly when its window ends.
LEMMA CounterOps ==
  ASSUME NEW window \in Nat \ {0}, NEW c \in Counter(window), Empty(c)
  PROVE  /\ Counted(c, window) \in Counter(window) /\ Counted(c, window).n = c.n + 1 /\ Counted(c, window).left # 0
         /\ refund(c, window) \in Counter(window) /\ refund(c, window).left # 0
         /\ refund(c, window).n \in Nat /\ refund(c, window).n <= c.n /\ c.n <= refund(c, window).n + 1
         /\ Aged(c) \in Counter(window) /\ Empty(Aged(c)) /\ (c.left <= 1 => Aged(c).n = 0)
         /\ (~(c.left <= 1) => Aged(c).n = c.n /\ Aged(c).left # 0)
<1>1. c.n \in Nat /\ c.left \in 0..window
  BY DEF Counter
<1> DEFINE live == Live(c, window)
<1>2. live \in Counter(window) /\ live.n = c.n /\ live.left # 0
  <2>1. CASE c.left = 0
    <3>1. live = [n |-> 0, left |-> window]
      BY <2>1 DEF Live, Expired
    <3> QED  BY <2>1, <3>1 DEF Counter, Empty
  <2>2. CASE c.left # 0
    BY <2>2 DEF Live
  <2> QED  BY <2>1, <2>2
<1>3. Counted(c, window) = [live EXCEPT !.n = live.n + 1]
  BY DEF Counted
<1>3a. refund(c, window) = [live EXCEPT !.n = IF live.n = 0 THEN 0 ELSE live.n - 1]
  BY DEF refund
<1> HIDE DEF live
<1>4. Counted(c, window) \in Counter(window) /\ Counted(c, window).n = c.n + 1 /\ Counted(c, window).left # 0
  <2>1. live.n + 1 \in Nat
    BY <1>1, <1>2
  <2> QED  BY <1>2, <1>3, <2>1 DEF Counter
<1>5. /\ refund(c, window) \in Counter(window) /\ refund(c, window).left # 0
      /\ refund(c, window).n \in Nat /\ refund(c, window).n <= c.n /\ c.n <= refund(c, window).n + 1
  <2> DEFINE m == IF live.n = 0 THEN 0 ELSE live.n - 1
  <2>1. m \in Nat /\ m <= c.n /\ c.n <= m + 1
    BY <1>1, <1>2
  <2>2. refund(c, window) = [live EXCEPT !.n = m]
    BY <1>3a
  <2> HIDE DEF m
  <2>3. refund(c, window) \in Counter(window) /\ refund(c, window).left # 0 /\ refund(c, window).n = m
    BY <1>2, <2>1, <2>2 DEF Counter
  <2> QED  BY <2>1, <2>3
<1>6. /\ Aged(c) \in Counter(window) /\ Empty(Aged(c)) /\ (c.left <= 1 => Aged(c).n = 0)
      /\ (~(c.left <= 1) => Aged(c).n = c.n /\ Aged(c).left # 0)
  <2>1. CASE c.left <= 1
    BY <2>1 DEF Aged, Expired, Counter, Empty
  <2>2. CASE ~(c.left <= 1)
    <3>1. Aged(c) = [c EXCEPT !.left = c.left - 1] /\ c.left - 1 \in 0..window /\ c.left - 1 # 0
      BY <1>1, <2>2 DEF Aged
    <3> QED  BY <2>2, <3>1 DEF Counter, Empty
  <2> QED  BY <2>1, <2>2
<1> QED  BY <1>4, <1>5, <1>6

(* The public listener. *)
PublicCounters == [Keys -> Nat]
Hits == [Limiters -> [Keys -> [n : Nat, left : Nat]]]
Inside == [pc : {"inside"}, key : Keys, client : Clients]
\* One key's counters and histories in the general window.
KeyOK(c, came, went, back) ==
    /\ c.left = 0 => came = 0 /\ went = 0 /\ back = 0
    /\ c.n <= came /\ went <= c.n + back /\ went <= AllLimit + back

\* The inductive invariant of the public listener.  The admitted requests of a
\* key exceed its counter only by the refunds.
PublicInv ==
    /\ hits \in Hits /\ requests \in [PublicSlots -> Inside \cup {Idle}]
    /\ landed \in PublicCounters /\ admitted \in PublicCounters /\ returned \in PublicCounters
    /\ \A l \in Limiters, k \in Keys : hits[l][k] \in Counter(LimiterWindow(l)) /\ Empty(hits[l][k])
    /\ \A k \in Keys : KeyOK(hits["all"][k], landed[k], admitted[k], returned[k])
    /\ NeverAThirdParty

\* What the assumptions say of each limiter.
LEMMA PublicConstants ==
  /\ AllLimit \in Nat \ {0} /\ AllWindow \in Nat \ {0} /\ FailWindow \in Nat \ {0}
  /\ LimiterWindow("all") = AllWindow /\ LimiterWindow("auth_failures") = FailWindow
  /\ \A l \in Limiters : LimiterWindow(l) \in Nat \ {0}
  /\ "all" \in Limiters /\ "auth_failures" \in Limiters /\ Clients \subseteq Keys /\ Proxy \in Keys
BY PublicLimits DEF LimiterWindow, Limiters, Keys

\* At first every window is over.
LEMMA InitPublic == PublicInit => PublicInv
<1> SUFFICES ASSUME PublicInit PROVE PublicInv
  OBVIOUS
<1>1. Expired \in [n : Nat, left : Nat] /\ Expired.n = 0 /\ Expired.left = 0
      /\ \A l \in Limiters : Expired \in Counter(LimiterWindow(l)) /\ Empty(Expired)
  BY PublicConstants DEF Expired, Counter, Empty
<1>2. \A l \in Limiters, k \in Keys : hits[l][k] = Expired
  BY DEF PublicInit
<1>3. hits \in Hits /\ landed \in PublicCounters /\ admitted \in PublicCounters /\ returned \in PublicCounters
  BY <1>1 DEF PublicInit, Hits, PublicCounters
<1>4. requests \in [PublicSlots -> Inside \cup {Idle}] /\ NeverAThirdParty
  BY DEF PublicInit, NeverAThirdParty
<1>5. \A k \in Keys : KeyOK(hits["all"][k], landed[k], admitted[k], returned[k])
  BY <1>1, <1>2, PublicConstants DEF PublicInit, KeyOK
<1> QED  BY <1>1, <1>2, <1>3, <1>4, <1>5 DEF PublicInv

\* A request is counted in the general window of its key (public_rate_limit).
LEMMA ArriveStep == ASSUME PublicInv, NEW s \in PublicSlots, Arrive(s) PROVE PublicInv'
<1>1. PICK client \in Clients : \E k \in KeysOf[client] :
        /\ landed[k] < MaxHits /\ Hit("all", k) /\ landed' = [landed EXCEPT ![k] = landed[k] + 1]
        /\ IF Under(hits["all"][k], AllLimit)
           THEN /\ requests' = [requests EXCEPT ![s] = [pc |-> "inside", key |-> k, client |-> client]]
                /\ admitted' = [admitted EXCEPT ![k] = admitted[k] + 1]
           ELSE UNCHANGED <<requests, admitted>>
  BY DEF Arrive
<1>2. PICK k \in KeysOf[client] :
        /\ Hit("all", k) /\ landed' = [landed EXCEPT ![k] = landed[k] + 1]
        /\ IF Under(hits["all"][k], AllLimit)
           THEN /\ requests' = [requests EXCEPT ![s] = [pc |-> "inside", key |-> k, client |-> client]]
                /\ admitted' = [admitted EXCEPT ![k] = admitted[k] + 1]
           ELSE UNCHANGED <<requests, admitted>>
  BY <1>1
<1>3. k \in {client, Proxy}
  <2>1. k \in {client_key(f.peer, f.xff, f.forwarded, {Proxy}) : f \in Forwards(client)}
    BY <1>2 DEF KeysOf
  <2>2. PICK f \in Forwards(client) : k = client_key(f.peer, f.xff, f.forwarded, {Proxy})
    BY <2>1
  <2> QED  BY <2>2, KeyOfClient
<1>4. k \in Keys /\ UNCHANGED returned /\ "all" \in Limiters
  BY <1>3, PublicConstants DEF Arrive
<1> DEFINE c == hits["all"][k]
           d == Counted(c, AllWindow)
<1>5. c \in Counter(AllWindow) /\ Empty(c) /\ c.n \in Nat
  BY <1>4, PublicConstants DEF PublicInv, Counter
<1>6. d \in Counter(AllWindow) /\ d.n = c.n + 1 /\ d.left # 0
  BY <1>5, CounterOps, PublicConstants
<1>7. hits' = [hits EXCEPT !["all"][k] = d]
  BY <1>2, PublicConstants DEF Hit
<1> HIDE DEF d
<1>8. /\ \A l \in Limiters, key \in Keys : hits'[l][key] = IF l = "all" /\ key = k THEN d ELSE hits[l][key]
      /\ hits' \in Hits
  <2>1. d \in [n : Nat, left : Nat] /\ hits \in Hits
    BY <1>6, PublicConstants DEF Counter, PublicInv
  <2> QED  BY <1>4, <1>7, <2>1 DEF Hits
<1>9. \A l \in Limiters, key \in Keys : hits'[l][key] \in Counter(LimiterWindow(l)) /\ Empty(hits'[l][key])
  <2>1. Empty(d)
    BY <1>6 DEF Empty
  <2> QED  BY <1>6, <1>8, <2>1, PublicConstants DEF PublicInv
<1>10. landed' \in PublicCounters /\ \A key \in Keys : landed'[key] = IF key = k THEN landed[key] + 1 ELSE landed[key]
  BY <1>2, <1>4 DEF PublicInv, PublicCounters
<1>11. /\ requests' \in [PublicSlots -> Inside \cup {Idle}] /\ NeverAThirdParty'
       /\ admitted' \in PublicCounters
       /\ \A key \in Keys : admitted'[key] = IF key = k /\ c.n < AllLimit THEN admitted[key] + 1 ELSE admitted[key]
  <2>1. CASE Under(c, AllLimit)
    <3> DEFINE q == [pc |-> "inside", key |-> k, client |-> client]
    <3>1. requests' = [requests EXCEPT ![s] = q] /\ admitted' = [admitted EXCEPT ![k] = admitted[k] + 1] /\ c.n < AllLimit
      BY <1>2, <2>1 DEF Under
    <3>2. q \in Inside /\ q.key \in {q.client, Proxy}
      BY <1>3, <1>4 DEF Inside
    <3> HIDE DEF q
    <3>3. requests' \in [PublicSlots -> Inside \cup {Idle}] /\ NeverAThirdParty'
      BY <3>1, <3>2 DEF PublicInv, NeverAThirdParty
    <3> QED  BY <1>4, <3>1, <3>3 DEF PublicInv, PublicCounters
  <2>2. CASE ~Under(c, AllLimit)
    BY <1>2, <2>2 DEF Under, PublicInv, NeverAThirdParty
  <2> QED  BY <2>1, <2>2
<1>12. ASSUME NEW key \in Keys
       PROVE  KeyOK(hits["all"][key], landed[key], admitted[key], returned[key])'
  <2>1. KeyOK(hits["all"][key], landed[key], admitted[key], returned[key])
        /\ landed[key] \in Nat /\ admitted[key] \in Nat /\ returned[key] \in Nat /\ AllLimit \in Nat
    BY PublicConstants DEF PublicInv, PublicCounters
  <2>2. CASE key = k
    <3>1. /\ hits'["all"][key] = d /\ landed'[key] = landed[key] + 1 /\ returned'[key] = returned[key]
          /\ admitted'[key] = IF c.n < AllLimit THEN admitted[key] + 1 ELSE admitted[key]
      BY <1>4, <1>8, <1>10, <1>11, <2>2
    <3>2. c.n <= landed[key] /\ admitted[key] <= c.n + returned[key] /\ admitted[key] <= AllLimit + returned[key]
      BY <2>1, <2>2 DEF KeyOK
    <3> QED  BY <1>5, <1>6, <2>1, <3>1, <3>2 DEF KeyOK
  <2>3. CASE key # k
    BY <1>4, <1>8, <1>10, <1>11, <2>1, <2>3 DEF KeyOK
  <2> QED  BY <2>2, <2>3
<1> QED  BY <1>4, <1>8, <1>9, <1>10, <1>11, <1>12 DEF PublicInv

\* A failed authentication moves one hit from the general window to its own.
LEMMA AnswerStep == ASSUME PublicInv, NEW s \in PublicSlots, Answer(s) PROVE PublicInv'
<1> DEFINE k == requests[s].key
           a == hits["all"][k]
           f == hits["auth_failures"][k]
<1>1. /\ requests[s] # Idle /\ requests' = [requests EXCEPT ![s] = Idle] /\ UNCHANGED <<landed, admitted>>
      /\ \E status \in Statuses :
         IF status # 403 THEN UNCHANGED <<hits, returned>>
         ELSE IF Under(f, FailLimit) THEN Hit("auth_failures", k) /\ UNCHANGED returned
         ELSE /\ hits' = [hits EXCEPT !["auth_failures"][k] = Counted(f, FailWindow), !["all"][k] = refund(a, AllWindow)]
              /\ returned' = [returned EXCEPT ![k] = returned[k] + 1]
  BY DEF Answer
<1>2. k \in Keys
  BY <1>1 DEF PublicInv, Inside
<1>3. requests' \in [PublicSlots -> Inside \cup {Idle}] /\ NeverAThirdParty' /\ landed' \in PublicCounters
      /\ admitted' \in PublicCounters /\ hits \in Hits /\ returned \in PublicCounters
  BY <1>1 DEF PublicInv, NeverAThirdParty
<1>4. /\ a \in Counter(AllWindow) /\ Empty(a) /\ a.n \in Nat /\ f \in Counter(FailWindow) /\ Empty(f)
  BY <1>2, PublicConstants DEF PublicInv, Counter
<1> DEFINE g == Counted(f, FailWindow)
           b == refund(a, AllWindow)
<1>5. g \in Counter(FailWindow) /\ g.left # 0
  BY <1>4, CounterOps, PublicConstants
<1>6. b \in Counter(AllWindow) /\ b.left # 0 /\ b.n \in Nat /\ b.n <= a.n /\ a.n <= b.n + 1
  BY <1>4, CounterOps, PublicConstants
<1>7. g \in [n : Nat, left : Nat] /\ b \in [n : Nat, left : Nat] /\ Empty(g) /\ Empty(b)
  BY <1>5, <1>6, PublicConstants DEF Counter, Empty
<1>8. CASE UNCHANGED <<hits, returned>>
  BY <1>1, <1>3, <1>8 DEF PublicInv
<1>9. CASE Hit("auth_failures", k) /\ UNCHANGED returned
  <2>1. hits' = [hits EXCEPT !["auth_failures"][k] = g]
    BY <1>9, PublicConstants DEF Hit
  <2> HIDE DEF g, b, k
  <2>2. /\ \A l \in Limiters, key \in Keys : hits'[l][key] = IF l = "auth_failures" /\ key = k THEN g ELSE hits[l][key]
        /\ hits' \in Hits
    BY <1>2, <1>3, <1>7, <2>1, PublicConstants DEF Hits
  <2>3. \A l \in Limiters, key \in Keys : hits'[l][key] \in Counter(LimiterWindow(l)) /\ Empty(hits'[l][key])
    BY <1>5, <1>7, <2>2, PublicConstants DEF PublicInv
  <2>4. \A key \in Keys : KeyOK(hits["all"][key], landed[key], admitted[key], returned[key])'
    BY <1>1, <1>9, <2>2, PublicConstants DEF PublicInv
  <2> QED  BY <1>1, <1>3, <1>9, <2>2, <2>3, <2>4 DEF PublicInv
<1>10. CASE /\ hits' = [hits EXCEPT !["auth_failures"][k] = g, !["all"][k] = b]
            /\ returned' = [returned EXCEPT ![k] = returned[k] + 1]
  <2> HIDE DEF g, b, k
  <2>2. /\ \A l \in Limiters, key \in Keys :
               hits'[l][key] = IF key # k THEN hits[l][key] ELSE IF l = "all" THEN b ELSE IF l = "auth_failures" THEN g ELSE hits[l][key]
        /\ hits' \in Hits
    BY <1>2, <1>3, <1>7, <1>10, PublicConstants DEF Hits
  <2>3. \A l \in Limiters, key \in Keys : hits'[l][key] \in Counter(LimiterWindow(l)) /\ Empty(hits'[l][key])
    BY <1>5, <1>6, <1>7, <2>2, PublicConstants DEF PublicInv
  <2>4. returned' \in PublicCounters /\ \A key \in Keys : returned'[key] = IF key = k THEN returned[key] + 1 ELSE returned[key]
    BY <1>2, <1>3, <1>10 DEF PublicCounters
  <2>5. ASSUME NEW key \in Keys
        PROVE  KeyOK(hits["all"][key], landed[key], admitted[key], returned[key])'
    <3>1. KeyOK(hits["all"][key], landed[key], admitted[key], returned[key])
          /\ landed[key] \in Nat /\ admitted[key] \in Nat /\ returned[key] \in Nat /\ AllLimit \in Nat
      BY PublicConstants DEF PublicInv, PublicCounters
    <3>2. CASE key = k
      <4>1. /\ hits'["all"][key] = b /\ landed'[key] = landed[key] /\ admitted'[key] = admitted[key]
            /\ returned'[key] = returned[key] + 1
        BY <1>1, <1>2, <2>2, <2>4, <3>2, PublicConstants
      <4>2. a.n <= landed[key] /\ admitted[key] <= a.n + returned[key] /\ admitted[key] <= AllLimit + returned[key]
        BY <3>1, <3>2 DEF KeyOK
      <4> QED  BY <1>4, <1>6, <3>1, <4>1, <4>2 DEF KeyOK
    <3>3. CASE key # k
      BY <1>1, <2>2, <2>4, <3>1, <3>3, PublicConstants DEF KeyOK
    <3> QED  BY <3>2, <3>3
  <2> QED  BY <1>1, <1>3, <2>2, <2>3, <2>4, <2>5 DEF PublicInv
<1> QED  BY <1>1, <1>8, <1>9, <1>10

\* A window that ends clears its counter and its history together.
LEMMA PublicTickStep == ASSUME PublicInv, PublicTick PROVE PublicInv'
<1>1. /\ hits' = [l \in Limiters |-> [k \in Keys |-> Aged(hits[l][k])]]
      /\ landed' = [k \in Keys |-> IF hits["all"][k].left <= 1 THEN 0 ELSE landed[k]]
      /\ admitted' = [k \in Keys |-> IF hits["all"][k].left <= 1 THEN 0 ELSE admitted[k]]
      /\ returned' = [k \in Keys |-> IF hits["all"][k].left <= 1 THEN 0 ELSE returned[k]]
      /\ UNCHANGED requests
  BY DEF PublicTick
<1>2. ASSUME NEW l \in Limiters, NEW k \in Keys
      PROVE  LET c == hits[l][k]
             IN  /\ Aged(c) \in Counter(LimiterWindow(l)) /\ Empty(Aged(c)) /\ (c.left <= 1 => Aged(c).n = 0)
                 /\ (~(c.left <= 1) => Aged(c).n = c.n /\ Aged(c).left # 0)
                 /\ Aged(c) \in [n : Nat, left : Nat]
  <2> DEFINE c == hits[l][k]
  <2>1. c \in Counter(LimiterWindow(l)) /\ Empty(c) /\ LimiterWindow(l) \in Nat \ {0}
    BY PublicConstants DEF PublicInv
  <2> HIDE DEF c
  <2>2. /\ Aged(c) \in Counter(LimiterWindow(l)) /\ Empty(Aged(c)) /\ (c.left <= 1 => Aged(c).n = 0)
        /\ (~(c.left <= 1) => Aged(c).n = c.n /\ Aged(c).left # 0)
    BY <2>1, CounterOps
  <2>3. Aged(c) \in [n : Nat, left : Nat]
    BY <2>1, <2>2 DEF Counter
  <2> QED  BY <2>2, <2>3 DEF c
<1>3. hits' \in Hits
  BY <1>1, <1>2 DEF Hits
<1>4. \A l \in Limiters, k \in Keys : hits'[l][k] \in Counter(LimiterWindow(l)) /\ Empty(hits'[l][k])
  BY <1>1, <1>2
<1>5. landed' \in PublicCounters /\ admitted' \in PublicCounters /\ returned' \in PublicCounters
  BY <1>1 DEF PublicInv, PublicCounters
<1>6. ASSUME NEW k \in Keys
      PROVE  KeyOK(hits["all"][k], landed[k], admitted[k], returned[k])'
  <2> DEFINE c == hits["all"][k]
  <2>1. KeyOK(c, landed[k], admitted[k], returned[k]) /\ AllLimit \in Nat
    BY PublicConstants DEF PublicInv
  <2>2. hits'["all"][k] = Aged(c) /\ (c.left <= 1 => Aged(c).n = 0) /\ (~(c.left <= 1) => Aged(c).n = c.n /\ Aged(c).left # 0)
    BY <1>1, <1>2, PublicConstants
  <2> HIDE DEF c
  <2>3. CASE c.left <= 1
    <3>1. landed'[k] = 0 /\ admitted'[k] = 0 /\ returned'[k] = 0
      BY <1>1, <2>3 DEF c
    <3> QED  BY <2>1, <2>2, <2>3, <3>1 DEF KeyOK
  <2>4. CASE ~(c.left <= 1)
    <3>1. landed'[k] = landed[k] /\ admitted'[k] = admitted[k] /\ returned'[k] = returned[k]
      BY <1>1, <2>4 DEF c
    <3> QED  BY <2>1, <2>2, <2>4, <3>1 DEF KeyOK
  <2> QED  BY <2>3, <2>4
<1> QED  BY <1>1, <1>3, <1>4, <1>5, <1>6 DEF PublicInv, NeverAThirdParty

\* Every step keeps the invariant.
LEMMA StepPublic == PublicInv /\ [PublicNext]_publicVars => PublicInv'
<1> SUFFICES ASSUME PublicInv, [PublicNext]_publicVars PROVE PublicInv'
  OBVIOUS
<1>1. CASE UNCHANGED publicVars
  BY <1>1 DEF publicVars, PublicInv, NeverAThirdParty
<1>2. CASE PublicTick
  BY <1>2, PublicTickStep
<1>3. ASSUME NEW s \in PublicSlots, Arrive(s) \/ Answer(s)
      PROVE  PublicInv'
  BY <1>3, ArriveStep, AnswerStep
<1> QED  BY <1>1, <1>2, <1>3 DEF PublicNext

\* The invariant says what the runs check.
LEMMA PublicSafe == PublicInv => PublicTypeOK /\ NeverAThirdParty /\ NoPhantomHits /\ WindowBudget
<1> SUFFICES ASSUME PublicInv PROVE PublicTypeOK /\ NoPhantomHits /\ WindowBudget
  BY DEF PublicInv
<1>1. PublicTypeOK
  BY PublicConstants DEF PublicInv, PublicTypeOK, Counter, Inside
<1>2. NoPhantomHits /\ WindowBudget
  BY DEF PublicInv, NoPhantomHits, WindowBudget, KeyOK
<1> QED  BY <1>1, <1>2

-----------------------------------------------------------------------------
(* The admin listener's windows. *)

\* A counter holds no more than its browser asked for itself.
OwnOK(c, asked) == c.n <= asked /\ asked \in 0..MaxAdminHits
WindowsOK(counters, asked) ==
    /\ counters \in [AdminLimiters -> [Visitors -> [n : Nat, left : Nat]]]
    /\ asked \in [AdminLimiters -> [Visitors -> Nat]]
    /\ \A l \in AdminLimiters, b \in Visitors :
          /\ counters[l][b] \in Counter(AdminWindowOf(l)) /\ Empty(counters[l][b])
          /\ OwnOK(counters[l][b], asked[l][b])
\* The inductive invariant of the admin listener.
LimiterInv == WindowsOK(adminHits, own)

\* Every admin window has a length.
LEMMA AdminConstants ==
  MaxAdminHits \in Nat /\ \A l \in AdminLimiters : AdminWindowOf(l) \in Nat \ {0}
BY AdminLimits DEF AdminWindowOf

\* Empty counters are in order, at the start and after a restart.
LEMMA NoHitsOK == WindowsOK(NoHits, NoRequests)
<1>1. Expired \in [n : Nat, left : Nat] /\ Expired.n = 0
      /\ \A l \in AdminLimiters : Expired \in Counter(AdminWindowOf(l)) /\ Empty(Expired)
  BY AdminConstants DEF Expired, Counter, Empty
<1>2. \A l \in AdminLimiters, b \in Visitors : NoHits[l][b] = Expired /\ NoRequests[l][b] = 0
  BY DEF NoHits, NoRequests
<1>3. /\ NoHits \in [AdminLimiters -> [Visitors -> [n : Nat, left : Nat]]]
      /\ NoRequests \in [AdminLimiters -> [Visitors -> Nat]]
  BY <1>1 DEF NoHits, NoRequests
<1>4. OwnOK(Expired, 0)
  BY <1>1, AdminConstants DEF OwnOK
<1> QED  BY <1>1, <1>2, <1>3, <1>4 DEF WindowsOK

\* A foreign page's request is counted only as a link its user followed.
LEMMA ForeignIsNotCounted ==
  ASSUME NEW kind \in RouteKinds, NEW host, NEW signal \in Signals(kind, TRUE), Counts(kind, host, TRUE, signal)
  PROVE  kind = "link"
BY DEF Signals, Counts, cross_site_context

\* A visit that is counted was asked for by its browser (rate_limit).
LEMMA VisitStep ==
  ASSUME LimiterInv, NEW b \in Visitors, NEW kind \in RouteKinds, NEW host, NEW foreign \in BOOLEAN,
         NEW signal \in Signals(kind, foreign), Visit(b, kind, host, foreign, signal)
  PROVE  LimiterInv'
<1> DEFINE l == LimiterOf(kind)
           c == adminHits[l][b]
           d == Counted(c, AdminWindowOf(l))
<1>1. l \in AdminLimiters
  BY DEF LimiterOf, AdminLimiters
<1>2. /\ adminHits' = [adminHits EXCEPT ![l][b] = d] /\ own[l][b] < MaxAdminHits
      /\ own' = IF foreign /\ kind # "link" THEN own ELSE [own EXCEPT ![l][b] = own[l][b] + 1]
  BY DEF Visit
<1>3. own' = [own EXCEPT ![l][b] = own[l][b] + 1]
  <2>1. CASE foreign = TRUE
    <3>1. Counts(kind, host, TRUE, signal) /\ signal \in Signals(kind, TRUE)
      BY <2>1 DEF Visit
    <3> QED  BY <1>2, <3>1, ForeignIsNotCounted
  <2>2. CASE foreign = FALSE
    BY <1>2, <2>2
  <2> QED  BY <2>1, <2>2
<1>4. c \in Counter(AdminWindowOf(l)) /\ Empty(c) /\ OwnOK(c, own[l][b]) /\ c.n \in Nat /\ own[l][b] \in Nat
  BY <1>1, AdminConstants DEF LimiterInv, WindowsOK, Counter
<1>5. d \in Counter(AdminWindowOf(l)) /\ d.n = c.n + 1 /\ d.left # 0
  BY <1>1, <1>4, CounterOps, AdminConstants
<1>6. d \in [n : Nat, left : Nat] /\ Empty(d)
  BY <1>1, <1>5, AdminConstants DEF Counter, Empty
<1>7. OwnOK(d, own[l][b] + 1)
  BY <1>2, <1>4, <1>5, AdminConstants DEF OwnOK
<1> HIDE DEF d, l
<1>8. /\ adminHits' \in [AdminLimiters -> [Visitors -> [n : Nat, left : Nat]]]
      /\ \A m \in AdminLimiters, v \in Visitors : adminHits'[m][v] = IF m = l /\ v = b THEN d ELSE adminHits[m][v]
  BY <1>1, <1>2, <1>6 DEF LimiterInv, WindowsOK
<1>9. /\ own' \in [AdminLimiters -> [Visitors -> Nat]]
      /\ \A m \in AdminLimiters, v \in Visitors : own'[m][v] = IF m = l /\ v = b THEN own[l][b] + 1 ELSE own[m][v]
  BY <1>1, <1>3, <1>4 DEF LimiterInv, WindowsOK
<1> QED  BY <1>5, <1>6, <1>7, <1>8, <1>9 DEF LimiterInv, WindowsOK

\* A window that ends clears its counter and its history together.
LEMMA LimiterTickStep == ASSUME LimiterInv, LimiterTick PROVE LimiterInv'
<1>1. /\ adminHits' = [l \in AdminLimiters |-> [b \in Visitors |-> Aged(adminHits[l][b])]]
      /\ own' = [l \in AdminLimiters |-> [b \in Visitors |-> IF adminHits[l][b].left <= 1 THEN 0 ELSE own[l][b]]]
  BY DEF LimiterTick
<1>2. ASSUME NEW l \in AdminLimiters, NEW b \in Visitors
      PROVE  /\ adminHits'[l][b] \in Counter(AdminWindowOf(l)) /\ Empty(adminHits'[l][b])
             /\ adminHits'[l][b] \in [n : Nat, left : Nat] /\ own'[l][b] \in Nat /\ OwnOK(adminHits'[l][b], own'[l][b])
  <2> DEFINE c == adminHits[l][b]
             asked == own[l][b]
  <2>1. c \in Counter(AdminWindowOf(l)) /\ Empty(c) /\ AdminWindowOf(l) \in Nat \ {0} /\ OwnOK(c, asked) /\ asked \in Nat
    BY AdminConstants DEF LimiterInv, WindowsOK
  <2>2. adminHits'[l][b] = Aged(c) /\ own'[l][b] = IF c.left <= 1 THEN 0 ELSE asked
    BY <1>1
  <2> HIDE DEF c, asked
  <2>3. /\ Aged(c) \in Counter(AdminWindowOf(l)) /\ Empty(Aged(c)) /\ (c.left <= 1 => Aged(c).n = 0)
        /\ (~(c.left <= 1) => Aged(c).n = c.n /\ Aged(c).left # 0)
    BY <2>1, CounterOps
  <2>4. Aged(c) \in [n : Nat, left : Nat]
    BY <2>1, <2>3 DEF Counter
  <2> QED  BY <2>1, <2>2, <2>3, <2>4, AdminConstants DEF OwnOK
<1>3. /\ adminHits' \in [AdminLimiters -> [Visitors -> [n : Nat, left : Nat]]]
      /\ own' \in [AdminLimiters -> [Visitors -> Nat]]
  <2>1. \A l \in AdminLimiters, b \in Visitors :
           Aged(adminHits[l][b]) \in [n : Nat, left : Nat] /\ (IF adminHits[l][b].left <= 1 THEN 0 ELSE own[l][b]) \in Nat
    BY <1>1, <1>2
  <2> QED  BY <1>1, <2>1
<1> QED  BY <1>2, <1>3 DEF LimiterInv, WindowsOK

\* The first state and every step.
LEMMA InitLimiter == LimiterInit => LimiterInv
BY NoHitsOK DEF LimiterInit, LimiterInv

\* Every step keeps the invariant.
LEMMA StepLimiter == LimiterInv /\ [LimiterNext]_limiterVars => LimiterInv'
<1> SUFFICES ASSUME LimiterInv, [LimiterNext]_limiterVars PROVE LimiterInv'
  OBVIOUS
<1>1. CASE UNCHANGED limiterVars
  BY <1>1 DEF limiterVars, LimiterInv, WindowsOK
<1>2. CASE LimiterTick
  BY <1>2, LimiterTickStep
<1>3. CASE LimiterRestart
  <2>1. adminHits' = NoHits /\ own' = NoRequests
    BY <1>3 DEF LimiterRestart
  <2> QED  BY <2>1, NoHitsOK DEF LimiterInv
<1>4. ASSUME NEW b \in Visitors, NEW kind \in RouteKinds, NEW host \in RequestHosts, NEW foreign \in BOOLEAN,
             NEW signal \in Signals(kind, foreign), Visit(b, kind, host, foreign, signal)
      PROVE  LimiterInv'
  BY <1>4, VisitStep
<1> QED  BY <1>1, <1>2, <1>3, <1>4 DEF LimiterNext

\* The invariant says what the runs check.
LEMMA LimiterSafe == LimiterInv => LimiterTypeOK /\ OwnHitsOnly
<1> SUFFICES ASSUME LimiterInv, NEW l \in AdminLimiters, NEW b \in Visitors
             PROVE  /\ adminHits[l][b].n \in 0..MaxAdminHits /\ adminHits[l][b].left \in 0..AdminWindowOf(l)
                    /\ adminHits[l][b].n <= own[l][b]
  BY DEF LimiterTypeOK, OwnHitsOnly
<1>1. adminHits[l][b] \in Counter(AdminWindowOf(l)) /\ OwnOK(adminHits[l][b], own[l][b])
  BY DEF LimiterInv, WindowsOK
<1> QED  BY <1>1, AdminConstants DEF Counter, OwnOK

(* The warn registries. *)

\* A registry: what it remembers, its window, its counts.
Registries == [seen : UNION {[keys -> Nat] : keys \in SUBSET FailingKeys}, start : {None} \cup {<<t>> : t \in Nat},
               warns : Nat, suppressed : {None} \cup {<<key>> : key \in FailingKeys}, total : Nat]
FreshWindow(log) == log.warns = 0 /\ log.total = 0 /\ log.suppressed = None
\* Suppression starts when the warnings of the window are used up.
LogOK(log) ==
    /\ log \in Registries /\ IsFiniteSet(DOMAIN log.seen) /\ Cardinality(DOMAIN log.seen) <= MaxTracked
    /\ log.warns <= MaxWarns
    /\ log.total > 0 <=> log.suppressed # None
    /\ log.total > 0 => log.warns = MaxWarns
    /\ log.start = None => FreshWindow(log)
\* The inductive invariant: the ghost counts are those of the registry.
LogInv == clock \in 0..MaxTime /\ LogOK(registry) /\ named = registry.warns /\ unsaid = registry.total

\* The bounds are numbers.
LEMMA WarnConstants ==
  MaxWarns \in Nat \ {0} /\ MaxTracked \in Nat \ {0} /\ WarnWindow \in Nat \ {0} /\ MaxTime \in Nat
BY WarnAssumption

\* At first nothing is remembered.
LEMMA InitLog == LogInit => LogInv
<1> SUFFICES ASSUME LogInit PROVE LogInv
  OBVIOUS
<1>1. << >> \in UNION {[keys -> Nat] : keys \in SUBSET FailingKeys} /\ DOMAIN << >> = {}
  <2>1. << >> \in [{} -> Nat] /\ {} \in SUBSET FailingKeys
    OBVIOUS
  <2> QED  BY <2>1
<1>2. FreshLog \in Registries /\ DOMAIN FreshLog.seen = {}
  BY <1>1 DEF FreshLog, Registries
<1>3. IsFiniteSet({}) /\ Cardinality({}) = 0
  BY FS_EmptySet
<1>4. LogOK(FreshLog)
  BY <1>2, <1>3, WarnConstants DEF LogOK, FreshLog, FreshWindow
<1> QED  BY <1>4, WarnConstants DEF LogInit, LogInv, FreshLog

\* A window either goes on or starts afresh.
LEMMA Rolled ==
  ASSUME NEW log, LogOK(log), NEW now \in Nat
  PROVE  LET r == roll_window(log, now, WarnWindow)
         IN  /\ LogOK(r) /\ r.seen = log.seen /\ r.start # None
             /\ \/ r.start # log.start /\ FreshWindow(r)
                \/ r = log
<1> DEFINE r == roll_window(log, now, WarnWindow)
<1>1. log \in Registries /\ <<now>> # None /\ <<now>> \in {<<t>> : t \in Nat}
  BY DEF LogOK, None
<1>2. CASE log.start = None
  <2>1. r = [log EXCEPT !.start = <<now>>]
    BY <1>2 DEF roll_window
  <2> HIDE DEF r
  <2>2. r \in Registries /\ r.start = <<now>> /\ r.seen = log.seen /\ r.warns = log.warns /\ r.total = log.total
        /\ r.suppressed = log.suppressed
    BY <1>1, <2>1 DEF Registries
  <2>3. FreshWindow(log)
    BY <1>2 DEF LogOK
  <2>4. LogOK(r) /\ FreshWindow(r)
    BY <1>1, <2>2, <2>3 DEF LogOK, FreshWindow
  <2> QED  BY <1>1, <1>2, <2>2, <2>4 DEF r
<1>3. CASE log.start # None /\ now - log.start[1] < WarnWindow
  BY <1>3 DEF roll_window
<1>4. CASE log.start # None /\ ~(now - log.start[1] < WarnWindow)
  <2>1. r = [FreshLog EXCEPT !.seen = log.seen, !.start = <<now>>]
    BY <1>4 DEF roll_window
  <2> HIDE DEF r
  <2>2. /\ r = [seen |-> log.seen, start |-> <<now>>, warns |-> 0, suppressed |-> None, total |-> 0]
    BY <2>1 DEF FreshLog
  <2>3. r \in Registries
    BY <1>1, <2>2 DEF Registries
  <2>4. LogOK(r) /\ FreshWindow(r)
    BY <1>1, <2>2, <2>3, WarnConstants DEF LogOK, FreshWindow
  <2>5. log.start # <<now>>
    <3>1. PICK t \in Nat : log.start = <<t>>
      BY <1>1, <1>4 DEF Registries
    <3> QED  BY <1>4, <3>1, WarnConstants
  <2> QED  BY <1>1, <2>2, <2>4, <2>5 DEF r
<1> QED  BY <1>2, <1>3, <1>4


\* What the registry remembers, and how much of it fits.
Memories == UNION {[keys -> Nat] : keys \in SUBSET FailingKeys}
Small(f) == IsFiniteSet(DOMAIN f) /\ Cardinality(DOMAIN f) <= MaxTracked

Note(s, key, now) == [k \in DOMAIN s \cup {key} |-> IF k = key THEN now ELSE s[k]]

\* Trimming keeps at most MaxTracked keys, each with its time (trim).
LEMMA TrimmedFits ==
  ASSUME NEW memory \in Memories, Small(memory), NEW s \in Trimmed(memory, MaxTracked)
  PROVE  s \in Memories /\ IsFiniteSet(DOMAIN s) /\ Cardinality(DOMAIN s) + 1 <= MaxTracked
<1> DEFINE keys == DOMAIN memory
<1>1. keys \in SUBSET FailingKeys /\ memory \in [keys -> Nat] /\ IsFiniteSet(keys) /\ Cardinality(keys) \in Nat
      /\ Cardinality(keys) <= MaxTracked
  BY FS_CardinalityType DEF Memories, Small
<1>2. CASE Cardinality(keys) < MaxTracked
  <2>1. s = memory
    BY <1>2 DEF Trimmed
  <2> QED  BY <1>1, <1>2, <2>1, WarnConstants
<1>3. CASE ~(Cardinality(keys) < MaxTracked)
  <2>1. PICK gone \in keys : s = [k \in keys \ {gone} |-> memory[k]]
    BY <1>3 DEF Trimmed
  <2> HIDE DEF keys
  <2>2. DOMAIN s = keys \ {gone} /\ s \in [keys \ {gone} -> Nat] /\ keys \ {gone} \in SUBSET FailingKeys
    BY <1>1, <2>1
  <2>3. IsFiniteSet(keys \ {gone}) /\ Cardinality(keys \ {gone}) = Cardinality(keys) - 1
    BY <1>1, FS_RemoveElement
  <2> QED  BY <1>1, <2>2, <2>3, WarnConstants DEF Memories
<1> QED  BY <1>2, <1>3

\* A key that is noted is remembered.
LEMMA Remembers ==
  ASSUME NEW s \in Memories, NEW key \in FailingKeys, NEW now \in Nat
  PROVE  Note(s, key, now) \in Memories /\ DOMAIN Note(s, key, now) = DOMAIN s \cup {key}
<1>1. s \in [DOMAIN s -> Nat] /\ DOMAIN s \in SUBSET FailingKeys
  BY DEF Memories
<1>2. Note(s, key, now) \in [DOMAIN s \cup {key} -> Nat] /\ DOMAIN s \cup {key} \in SUBSET FailingKeys
  BY <1>1 DEF Note
<1> QED  BY <1>2 DEF Memories

\* A failure is named, counted for the summary, or known already
\* (should_warn).
LEMMA FailStep ==
  ASSUME LogInv, NEW key \in FailingKeys, Fail(key)
  PROVE  LogInv'
<1> DEFINE log == roll_window(registry, clock, WarnWindow)
           summary == log.start # registry.start /\ registry.suppressed # None
           Outcome(l, warn) == [log |-> l, warn |-> warn, summary |-> summary]
<1>1. PICK outcome \in should_warn(registry, key, clock, WarnWindow, MaxTracked, MaxWarns) :
        /\ registry' = outcome.log
        /\ named' = (IF outcome.log.start # registry.start THEN 0 ELSE named) + (IF key \notin DOMAIN registry.seen /\ outcome.warn THEN 1 ELSE 0)
        /\ unsaid' = (IF outcome.log.start # registry.start THEN 0 ELSE unsaid) + (IF key \notin DOMAIN registry.seen /\ ~outcome.warn THEN 1 ELSE 0)
        /\ UNCHANGED clock
  BY DEF Fail
<1>2. clock \in Nat /\ LogOK(registry) /\ named = registry.warns /\ unsaid = registry.total
  BY WarnConstants DEF LogInv
<1>3. /\ LogOK(log) /\ log.seen = registry.seen /\ log.start # None
      /\ (log.start # registry.start /\ FreshWindow(log)) \/ log = registry
  BY <1>2, Rolled
<1>4. log \in Registries /\ log.seen \in Memories /\ Small(log.seen) /\ log.warns \in Nat /\ log.total \in Nat
  BY <1>3 DEF LogOK, Registries, Memories, Small
<1>5. CASE key \in DOMAIN registry.seen
  <2>1. \/ outcome = Outcome(log, FALSE)
        \/ outcome = Outcome([log EXCEPT !.seen = Note(log.seen, key, clock)], TRUE)
    BY <1>3, <1>5 DEF should_warn, Note
  <2> HIDE DEF log
  <2>2. PICK f \in {log.seen, Note(log.seen, key, clock)} : outcome.log = [log EXCEPT !.seen = f]
    <3>1. log = [log EXCEPT !.seen = log.seen]
      BY <1>4 DEF Registries
    <3> QED  BY <2>1, <3>1
  <2>3. f \in Memories /\ DOMAIN f = DOMAIN log.seen
    <3>1. Note(log.seen, key, clock) \in Memories /\ DOMAIN Note(log.seen, key, clock) = DOMAIN log.seen \cup {key}
      BY <1>2, <1>4, Remembers
    <3>2. key \in DOMAIN log.seen
      BY <1>3, <1>5
    <3> QED  BY <1>4, <3>1, <3>2
  <2>4. /\ registry' \in Registries /\ registry'.seen = f /\ registry'.start = log.start /\ registry'.warns = log.warns
        /\ registry'.total = log.total /\ registry'.suppressed = log.suppressed
    BY <1>1, <1>4, <2>2, <2>3 DEF Registries, Memories
  <2>5. LogOK(registry')
    BY <1>3, <2>3, <2>4 DEF LogOK, FreshWindow
  <2>6. named' = registry'.warns /\ unsaid' = registry'.total
    BY <1>1, <1>2, <1>3, <1>4, <1>5, <2>2, <2>4 DEF FreshWindow
  <2> QED  BY <1>1, <2>5, <2>6 DEF LogInv, LogOK
<1>6. CASE key \notin DOMAIN registry.seen
  <2>1. PICK s \in Trimmed(log.seen, MaxTracked) :
          outcome = IF log.warns >= MaxWarns
                    THEN Outcome([log EXCEPT !.seen = Note(s, key, clock), !.total = log.total + 1,
                                             !.suppressed = IF log.suppressed = None THEN <<key>> ELSE log.suppressed], FALSE)
                    ELSE Outcome([log EXCEPT !.seen = Note(s, key, clock), !.warns = log.warns + 1], TRUE)
    BY <1>3, <1>6 DEF should_warn, Note
  <2> HIDE DEF log
  <2> DEFINE f == Note(s, key, clock)
  <2>2. s \in Memories /\ IsFiniteSet(DOMAIN s) /\ Cardinality(DOMAIN s) + 1 <= MaxTracked /\ Cardinality(DOMAIN s) \in Nat
    BY <1>4, TrimmedFits, FS_CardinalityType
  <2>3. f \in Memories /\ DOMAIN f = DOMAIN s \cup {key}
    BY <1>2, <2>2, Remembers
  <2>4. Small(f)
    <3>1. IsFiniteSet(DOMAIN s \cup {key}) /\ Cardinality(DOMAIN s \cup {key}) <= Cardinality(DOMAIN s) + 1
      <4>1. CASE key \in DOMAIN s
        <5>1. DOMAIN s \cup {key} = DOMAIN s
          BY <4>1
        <5> QED  BY <2>2, <5>1
      <4>2. CASE key \notin DOMAIN s
        <5> DEFINE keys == DOMAIN s
        <5>1. IsFiniteSet(keys) /\ key \notin keys /\ Cardinality(keys) \in Nat
          BY <2>2, <4>2
        <5> HIDE DEF keys
        <5>2. IsFiniteSet(keys \cup {key}) /\ Cardinality(keys \cup {key}) = Cardinality(keys) + 1
          BY <5>1, FS_AddElement
        <5>3. Cardinality(keys \cup {key}) <= Cardinality(keys) + 1
          BY <5>1, <5>2
        <5> QED  BY <5>2, <5>3 DEF keys
      <4> QED  BY <4>1, <4>2
    <3>2. Cardinality(DOMAIN s \cup {key}) \in Nat
      BY <3>1, FS_CardinalityType
    <3> QED  BY <2>2, <2>3, <3>1, <3>2, WarnConstants DEF Small
  <2> HIDE DEF f
  <2>5. CASE log.warns >= MaxWarns
    <3> DEFINE sup == IF log.suppressed = None THEN <<key>> ELSE log.suppressed
    <3>1. outcome.log = [log EXCEPT !.seen = f, !.total = log.total + 1, !.suppressed = sup] /\ outcome.warn = FALSE
      BY <2>1, <2>5 DEF f
    <3>2. sup # None /\ sup \in {None} \cup {<<k>> : k \in FailingKeys}
      BY <1>4 DEF Registries, None
    <3> HIDE DEF sup
    <3>3. /\ registry'.seen = f /\ registry'.start = log.start /\ registry'.warns = log.warns
          /\ registry'.total = log.total + 1 /\ registry'.suppressed = sup
      BY <1>1, <1>4, <3>1 DEF Registries
    <3>4. registry' \in Registries
      <4>1. log.total + 1 \in Nat
        BY <1>4
      <4> QED  BY <1>1, <1>4, <2>3, <3>1, <3>2, <4>1 DEF Registries, Memories
    <3>5. log.warns = MaxWarns
      BY <1>3, <1>4, <2>5, WarnConstants DEF LogOK
    <3>6. LogOK(registry')
      BY <1>3, <1>4, <2>4, <3>2, <3>3, <3>4, <3>5, WarnConstants DEF LogOK, Small
    <3>7. log = registry
      BY <1>3, <3>5, WarnConstants DEF FreshWindow
    <3>8. named' = registry'.warns /\ unsaid' = registry'.total
      <4>1. outcome.log.start = registry.start
        BY <1>1, <3>3, <3>7
      <4> QED  BY <1>1, <1>2, <1>4, <1>6, <3>1, <3>3, <3>7, <4>1
    <3> QED  BY <1>1, <3>6, <3>8 DEF LogInv, LogOK
  <2>6. CASE ~(log.warns >= MaxWarns)
    <3>1. outcome.log = [log EXCEPT !.seen = f, !.warns = log.warns + 1] /\ outcome.warn = TRUE
      BY <2>1, <2>6 DEF f
    <3>3. /\ registry'.seen = f /\ registry'.start = log.start /\ registry'.warns = log.warns + 1
          /\ registry'.total = log.total /\ registry'.suppressed = log.suppressed
      BY <1>1, <1>4, <3>1 DEF Registries
    <3>4. registry' \in Registries
      <4>1. log.warns + 1 \in Nat
        BY <1>4
      <4> QED  BY <1>1, <1>4, <2>3, <3>1, <4>1 DEF Registries, Memories
    <3>5. ~(log.total > 0) /\ log.warns + 1 <= MaxWarns
      BY <1>3, <1>4, <2>6, WarnConstants DEF LogOK
    <3>6. LogOK(registry')
      BY <1>3, <1>4, <2>4, <3>3, <3>4, <3>5 DEF LogOK, Small
    <3>8. named' = registry'.warns /\ unsaid' = registry'.total
      <4>1. outcome.log.start = log.start
        BY <1>1, <3>3
      <4>2. CASE log.start # registry.start /\ FreshWindow(log)
        BY <1>1, <1>4, <1>6, <3>1, <3>3, <4>1, <4>2 DEF FreshWindow
      <4>3. CASE log = registry
        BY <1>1, <1>2, <1>4, <1>6, <3>1, <3>3, <4>1, <4>3
      <4> QED  BY <1>3, <4>2, <4>3
    <3> QED  BY <1>1, <3>6, <3>8 DEF LogInv, LogOK
  <2> QED  BY <2>5, <2>6
<1> QED  BY <1>5, <1>6

\* Every step keeps the invariant.
LEMMA StepLog == LogInv /\ [LogNext]_logVars => LogInv'
<1> SUFFICES ASSUME LogInv, [LogNext]_logVars PROVE LogInv'
  OBVIOUS
<1>1. CASE UNCHANGED logVars
  BY <1>1 DEF logVars, LogInv, LogOK
<1>2. CASE LogTick
  <2>1. clock + 1 \in 0..MaxTime
    BY <1>2, WarnConstants DEF LogTick, LogInv
  <2> QED  BY <1>2, <2>1 DEF LogTick, LogInv, LogOK
<1>3. ASSUME NEW key \in FailingKeys, Fail(key)
      PROVE  LogInv'
  BY <1>3, FailStep
<1> QED  BY <1>1, <1>2, <1>3 DEF LogNext

\* The invariant says what the runs check.
LEMMA LogSafe == LogInv => LogTypeOK /\ SilenceIsEarned
<1> SUFFICES ASSUME LogInv PROVE LogTypeOK /\ SilenceIsEarned
  OBVIOUS
<1>1. LogOK(registry) /\ registry.warns \in Nat /\ registry.total \in Nat
  BY DEF LogInv, LogOK, Registries
<1> QED  BY <1>1, WarnConstants DEF LogInv, LogOK, LogTypeOK, SilenceIsEarned

-----------------------------------------------------------------------------

(* The sessions: epochs, cookies and the requests that carry them.          *)

Cookies == [key : Tokens, epoch : Nat, left : 0..SessionTTL, revoked : BOOLEAN] \cup {NoCookie}

\* What a slot may hold, by the step its request is at.
Logins == [pc : {"login"}, browser : Browsers, token : Tokens]
Mintings == [pc : {"minting"}, browser : Browsers, epoch : Nat, revoked : BOOLEAN]
Sessions == [pc : {"session"}, kind : {"page", "logout"}, browser : Browsers, cookie : Cookies]
            \cup [pc : {"session"}, kind : {"rotate"}, token : Tokens, cookie : Cookies]
Verifications == [pc : {"verify"}, request : Sessions, epoch : Nat, unread : BOOLEAN]
Handlers == [pc : {"handler"}, kind : {"page", "logout"}, browser : Browsers]
Rotations == [pc : {"handler", "saved", "bumped"}, kind : {"rotate"}, token : Tokens]
Calls == {Waiting} \cup Logins \cup Mintings \cup Sessions \cup Verifications
         \cup Handlers \cup Rotations

\* A cookie at epoch e: minted no later, and before e when it is revoked.
MintedBy(c, e) == c # NoCookie => c.epoch <= e /\ (c.revoked => c.epoch < e)

\* A slot while the stored epoch is e.
CallOK(r, e) ==
    /\ r.pc = "minting" => r.epoch <= e /\ (r.revoked => r.epoch < e)
    /\ r.pc = "session" => MintedBy(r.cookie, e)
    /\ r.pc = "verify" /\ ~r.unread /\ r.request.cookie # NoCookie =>
          (r.request.cookie.revoked => r.request.cookie.epoch < r.epoch)

\* The inductive invariant.
SessionsOK ==
    /\ epoch \in Nat /\ epoch <= MaxBumps /\ liveToken \in Tokens /\ fileToken \in Tokens /\ keyToken \in Tokens
    /\ jar \in [Browsers -> Cookies]
    /\ inflight \in [AdminSlots -> Calls]
    /\ \A b \in Browsers : MintedBy(jar[b], epoch)
    /\ \A s \in AdminSlots : CallOK(inflight[s], epoch)

-----------------------------------------------------------------------------
\* The step a request is at tells what its slot holds.
LEMMA CallByStep ==
  ASSUME NEW r \in Calls
  PROVE  /\ r.pc = "login" => r \in Logins
         /\ r.pc = "minting" => r \in Mintings
         /\ r.pc = "session" => r \in Sessions
         /\ r.pc = "verify" => r \in Verifications
         /\ r.pc \in {"handler", "saved", "bumped"} => r \in Handlers \cup Rotations
  BY DEF Calls, Waiting, Logins, Mintings, Sessions, Verifications, Handlers, Rotations

\* A slot that holds no cookie and is not minting one is always in order.
LEMMA PlainCall ==
  ASSUME NEW r, r \in {Waiting} \cup Logins \cup Handlers \cup Rotations, NEW e
  PROVE  r \in Calls /\ CallOK(r, e)
  BY DEF Calls, Waiting, Logins, Handlers, Rotations, CallOK

\* Writing one slot keeps the others.
LEMMA OneSlot ==
  ASSUME SessionsOK, NEW s \in AdminSlots, NEW r \in Calls, CallOK(r, epoch),
         inflight' = [inflight EXCEPT ![s] = r],
         UNCHANGED <<fileToken, liveToken, keyToken, epoch, jar>>
  PROVE  SessionsOK'
  BY DEF SessionsOK

\* A request brings its browser's cookie or a token.
LEMMA RequestOK ==
  ASSUME SessionsOK, NEW s \in AdminSlots, NEW b \in Browsers, Request(s, b)
  PROVE  SessionsOK'
<1>1. PICK r : /\ inflight' = [inflight EXCEPT ![s] = r]
               /\ \/ \E token \in Tokens : r = [pc |-> "login", browser |-> b, token |-> token]
                  \/ \E kind \in {"page", "logout"} :
                        r = [pc |-> "session", kind |-> kind, browser |-> b, cookie |-> jar[b]]
                  \/ \E token \in Tokens :
                        r = [pc |-> "session", kind |-> "rotate", token |-> token, cookie |-> jar[b]]
  BY DEF Request
<1>2. jar[b] \in Cookies /\ MintedBy(jar[b], epoch)
  BY DEF SessionsOK
<1>3. CASE r \in Logins
  BY <1>1, <1>3, PlainCall, OneSlot DEF Request
<1>4. CASE r \in Sessions /\ r.cookie = jar[b] /\ r.pc = "session"
  <2>1. r \in Calls /\ CallOK(r, epoch)
    BY <1>2, <1>4 DEF Calls, CallOK
  <2> QED  BY <1>1, <2>1, OneSlot DEF Request
<1>5. r \in Logins \/ (r \in Sessions /\ r.cookie = jar[b] /\ r.pc = "session")
  BY <1>1, <1>2 DEF Logins, Sessions
<1> QED  BY <1>3, <1>4, <1>5

\* A login that passes mints a cookie for the epoch it read, or for 0.
LEMMA LoginOK ==
  ASSUME SessionsOK, NEW s \in AdminSlots, login_submit(s)
  PROVE  SessionsOK'
<1>1. inflight[s] \in Logins /\ epoch \in Nat
  BY CallByStep DEF SessionsOK, login_submit
<1>2. PICK r : /\ inflight' = [inflight EXCEPT ![s] = r]
               /\ \/ r = Waiting
                  \/ \E e \in {epoch, 0} :
                       r = [pc |-> "minting", browser |-> inflight[s].browser, epoch |-> e, revoked |-> FALSE]
  BY DEF login_submit, ReadEpoch, Finish
<1>3. r \in Calls /\ CallOK(r, epoch)
  <2>1. CASE r = Waiting
    BY <2>1, PlainCall
  <2>2. ASSUME NEW e \in {epoch, 0},
               r = [pc |-> "minting", browser |-> inflight[s].browser, epoch |-> e, revoked |-> FALSE]
        PROVE  r \in Calls /\ CallOK(r, epoch)
    <3>1. r \in Mintings /\ r.pc = "minting" /\ r.epoch <= epoch /\ r.revoked = FALSE
      BY <1>1, <2>2 DEF Mintings, Logins
    <3> QED  BY <3>1 DEF Calls, CallOK
  <2> QED  BY <1>2, <2>1, <2>2
<1> QED  BY <1>2, <1>3, OneSlot DEF login_submit

\* The cookie handed out is as old as its login (issue_session).
LEMMA IssueOK ==
  ASSUME SessionsOK, NEW s \in AdminSlots, issue_session(s)
  PROVE  SessionsOK'
<1> DEFINE r == inflight[s]
           c == [key |-> keyToken, epoch |-> r.epoch, left |-> SessionTTL, revoked |-> r.revoked]
<1>1. r \in Mintings /\ CallOK(r, epoch) /\ r.pc = "minting"
  BY CallByStep DEF SessionsOK, issue_session
<1>2. c \in Cookies /\ MintedBy(c, epoch)
  BY <1>1, SessionAssumption DEF SessionsOK, Mintings, Cookies, MintedBy, CallOK
<1>3. jar' = [jar EXCEPT ![r.browser] = c] /\ inflight' = [inflight EXCEPT ![s] = Waiting]
      /\ UNCHANGED <<fileToken, liveToken, keyToken, epoch>>
  BY DEF issue_session, Finish
<1>4. Waiting \in Calls /\ CallOK(Waiting, epoch)
  BY PlainCall
<1> HIDE DEF c
<1> QED  BY <1>2, <1>3, <1>4 DEF SessionsOK

\* The session check reads the epoch after the request brought its cookie.
LEMMA RequireAuthOK ==
  ASSUME SessionsOK, NEW s \in AdminSlots, require_auth(s)
  PROVE  SessionsOK'
<1>1. inflight[s] \in Sessions /\ CallOK(inflight[s], epoch) /\ inflight[s].pc = "session" /\ epoch \in Nat
  BY CallByStep DEF SessionsOK, require_auth
<1>2. PICK e \in Nat, unread \in BOOLEAN :
           /\ inflight' = [inflight EXCEPT ![s] =
                 [pc |-> "verify", request |-> inflight[s], epoch |-> e, unread |-> unread]]
           /\ ~unread => e = epoch
  BY <1>1 DEF require_auth, ReadEpoch
<1> DEFINE r == [pc |-> "verify", request |-> inflight[s], epoch |-> e, unread |-> unread]
<1>3. r \in Calls
  BY <1>1 DEF Verifications, Calls
<1>4. CallOK(r, epoch)
  BY <1>1, <1>2 DEF CallOK, MintedBy
<1> QED  BY <1>2, <1>3, <1>4, OneSlot DEF require_auth

\* A verified session enters its handler without the cookie.
LEMMA EnterOK ==
  ASSUME SessionsOK, NEW s \in AdminSlots, Enter(s)
  PROVE  SessionsOK'
<1>1. inflight[s] \in Verifications
  BY CallByStep DEF SessionsOK, Enter
<1> DEFINE request == inflight[s].request
<1>2. request \in Sessions
  BY <1>1 DEF Verifications
<1>3. PICK r : /\ inflight' = [inflight EXCEPT ![s] = r]
               /\ \/ r = Waiting
                  \/ request.kind = "rotate" /\ r = [pc |-> "handler", kind |-> "rotate", token |-> request.token]
                  \/ request.kind # "rotate"
                     /\ r = [pc |-> "handler", kind |-> request.kind, browser |-> request.browser]
  BY DEF Enter, Finish
<1>4. r \in {Waiting} \cup Handlers \cup Rotations
  <2>1. CASE request.kind = "rotate" /\ r = [pc |-> "handler", kind |-> "rotate", token |-> request.token]
    BY <1>2, <2>1 DEF Sessions, Rotations
  <2>2. CASE request.kind # "rotate"
             /\ r = [pc |-> "handler", kind |-> request.kind, browser |-> request.browser]
    BY <1>2, <2>2 DEF Sessions, Handlers
  <2> QED  BY <1>3, <2>1, <2>2
<1> QED  BY <1>3, <1>4, PlainCall, OneSlot DEF Enter

\* A page touches no session.
LEMMA PageOK ==
  ASSUME SessionsOK, NEW s \in AdminSlots, Page(s)
  PROVE  SessionsOK'
BY PlainCall, OneSlot DEF Page, Finish

-----------------------------------------------------------------------------
\* What a bump leaves of a cookie or a slot is in order at the next epoch.
LEMMA BumpedCookie ==
  ASSUME NEW e \in Nat, NEW c \in Cookies, MintedBy(c, e)
  PROVE  /\ Revoked(c) \in Cookies /\ MintedBy(Revoked(c), e + 1)
         /\ MintedBy(c, e + 1)
<1>1. CASE c = NoCookie
  BY <1>1 DEF MintedBy, Revoked
<1>2. CASE c # NoCookie
  <2> DEFINE q == [c EXCEPT !.revoked = TRUE]
  <2>1. c \in [key : Tokens, epoch : Nat, left : 0..SessionTTL, revoked : BOOLEAN] /\ c.epoch \in Nat /\ c.epoch <= e
    BY <1>2 DEF Cookies, MintedBy
  <2>2. q \in Cookies /\ q.epoch = c.epoch
    BY <2>1 DEF Cookies
  <2> HIDE DEF q
  <2>3. c.epoch <= e + 1 /\ c.epoch < e + 1
    BY <2>1
  <2>4. MintedBy(q, e + 1) /\ MintedBy(c, e + 1)
    BY <2>2, <2>3 DEF MintedBy
  <2> QED  BY <1>2, <2>2, <2>4 DEF Revoked, q
<1> QED  BY <1>1, <1>2

\* So is a slot.
LEMMA BumpedCall ==
  ASSUME NEW e \in Nat, NEW r \in Calls, CallOK(r, e)
  PROVE  LET q == IF r.pc = "minting" THEN [r EXCEPT !.revoked = TRUE] ELSE r
         IN  q \in Calls /\ CallOK(q, e + 1)
<1>1. CASE r.pc = "minting"
  <2>1. r \in Mintings
    BY <1>1, CallByStep
  <2> DEFINE q == [r EXCEPT !.revoked = TRUE]
  <2>2. q \in Mintings /\ q.pc = "minting" /\ q.epoch = r.epoch /\ q.epoch \in Nat
    BY <2>1 DEF Mintings
  <2>3. q.epoch < e + 1 /\ q.epoch <= e + 1
    BY <1>1, <2>2 DEF CallOK
  <2> HIDE DEF q
  <2>4. q \in Calls /\ CallOK(q, e + 1)
    BY <2>2, <2>3 DEF Calls, CallOK
  <2> QED  BY <1>1, <2>4 DEF q
<1>2. CASE r.pc = "session"
  <2>1. r \in Sessions
    BY <1>2, CallByStep
  <2>2. r.cookie \in Cookies
    BY <2>1 DEF Sessions
  <2>3. MintedBy(r.cookie, e + 1)
    BY <1>2, <2>2, BumpedCookie DEF CallOK
  <2> QED  BY <1>2, <2>3 DEF CallOK
<1>3. CASE r.pc \notin {"minting", "session"}
  BY <1>3 DEF CallOK
<1> QED  BY <1>1, <1>2, <1>3

\* An increment, or a failure that leaves the epoch: s is left Waiting or at
\* the next step of its rotation.
LEMMA RevokeOK ==
  ASSUME SessionsOK, NEW s \in AdminSlots, NEW pc, revoke_all_sessions(s, pc),
         \/ pc = "waiting"
         \/ pc = "bumped" /\ inflight[s] \in Rotations
  PROVE  /\ epoch' = epoch \/ epoch' = epoch + 1
         /\ epoch' \in Nat /\ epoch' <= MaxBumps
         /\ inflight' \in [AdminSlots -> Calls]
         /\ \A t \in AdminSlots : CallOK(inflight'[t], epoch')
<1> DEFINE q == IF pc = "waiting" THEN Waiting ELSE [inflight[s] EXCEPT !.pc = pc]
<1>1. q \in {Waiting} \cup Rotations
  BY DEF Rotations
<1>2. q \in Calls /\ \A e : CallOK(q, e)
  BY <1>1, PlainCall
<1>3. epoch \in Nat /\ epoch <= MaxBumps /\ MaxBumps \in Nat /\ inflight \in [AdminSlots -> Calls]
  BY SessionAssumption DEF SessionsOK
<1> DEFINE Kept(t) == IF t = s THEN q ELSE inflight[t]
<1>4. \A t \in AdminSlots : Kept(t) \in Calls /\ CallOK(Kept(t), epoch)
  BY <1>2, <1>3 DEF SessionsOK
<1> HIDE DEF q
<1>5. CASE /\ epoch < MaxBumps /\ epoch' = epoch + 1
           /\ inflight' = [t \in AdminSlots |->
                 IF Kept(t).pc = "minting" THEN [Kept(t) EXCEPT !.revoked = TRUE] ELSE Kept(t)]
  <2> HIDE DEF Kept
  <2>1. \A t \in AdminSlots : inflight'[t] \in Calls /\ CallOK(inflight'[t], epoch + 1)
    BY <1>3, <1>4, <1>5, BumpedCall
  <2> QED  BY <1>3, <1>5, <2>1
<1>6. CASE epoch' = epoch /\ inflight' = [inflight EXCEPT ![s] = q]
  BY <1>3, <1>4, <1>6
<1> QED  BY <1>5, <1>6 DEF revoke_all_sessions, q

\* A logout bumps the epoch and clears its browser's cookie.
LEMMA LogoutOK ==
  ASSUME SessionsOK, NEW s \in AdminSlots, logout(s)
  PROVE  SessionsOK'
<1>1. /\ epoch' = epoch \/ epoch' = epoch + 1
      /\ epoch' \in Nat /\ epoch' <= MaxBumps
      /\ inflight' \in [AdminSlots -> Calls]
      /\ \A t \in AdminSlots : CallOK(inflight'[t], epoch')
  BY RevokeOK DEF logout
<1>2. jar' \in [Browsers -> Cookies] /\ \A b \in Browsers : MintedBy(jar'[b], epoch')
  <2>1. ASSUME NEW b \in Browsers
        PROVE  jar'[b] \in Cookies /\ MintedBy(jar'[b], epoch')
    <3>1. jar[b] \in Cookies /\ MintedBy(jar[b], epoch) /\ epoch \in Nat
      BY DEF SessionsOK
    <3>2. /\ jar'[b] \in {NoCookie, Revoked(jar[b]), jar[b]}
          /\ epoch' # epoch => jar'[b] \in {NoCookie, Revoked(jar[b])}
          /\ epoch' = epoch => jar'[b] \in {NoCookie, jar[b]}
      BY DEF logout
    <3>3. NoCookie \in Cookies /\ MintedBy(NoCookie, epoch')
      BY DEF Cookies, MintedBy
    <3> QED  BY <1>1, <3>1, <3>2, <3>3, BumpedCookie
  <2> QED  BY <2>1 DEF logout
<1> QED  BY <1>1, <1>2 DEF SessionsOK, logout

\* A rotation writes the file before it bumps the epoch.
LEMMA SaveOK ==
  ASSUME SessionsOK, NEW s \in AdminSlots, Save(s)
  PROVE  SessionsOK'
<1>1. inflight[s] \in Rotations
  BY CallByStep DEF SessionsOK, Save, Handlers
<1>2. [inflight[s] EXCEPT !.pc = "saved"] \in Rotations /\ inflight[s].token \in Tokens
  BY <1>1 DEF Rotations
<1> DEFINE q == [inflight[s] EXCEPT !.pc = "saved"]
<1>3. q \in Calls /\ CallOK(q, epoch)
  BY <1>2, PlainCall
<1>4. inflight' = [inflight EXCEPT ![s] = q]
  BY DEF Save
<1> HIDE DEF q
<1> QED  BY <1>2, <1>3, <1>4 DEF SessionsOK, Save

\* A rotation to another token bumps the epoch.
LEMMA RotateOK ==
  ASSUME SessionsOK, NEW s \in AdminSlots, Rotate(s)
  PROVE  SessionsOK'
<1>1. inflight[s] \in Rotations
  BY CallByStep DEF SessionsOK, Rotate, Handlers
<1>2. CASE inflight[s].token # liveToken
  <2>1. /\ epoch' = epoch \/ epoch' = epoch + 1
        /\ epoch' \in Nat /\ epoch' <= MaxBumps
        /\ inflight' \in [AdminSlots -> Calls]
        /\ \A t \in AdminSlots : CallOK(inflight'[t], epoch')
    BY <1>1, <1>2, RevokeOK DEF Rotate
  <2>2. jar' \in [Browsers -> Cookies] /\ \A b \in Browsers : MintedBy(jar'[b], epoch')
    BY <1>2, <2>1, BumpedCookie DEF Rotate, SessionsOK
  <2> QED  BY <2>1, <2>2 DEF SessionsOK, Rotate
<1>3. CASE inflight[s].token = liveToken
  <2> DEFINE q == [inflight[s] EXCEPT !.pc = "bumped"]
  <2>1. q \in Rotations
    BY <1>1 DEF Rotations
  <2>2. q \in Calls /\ CallOK(q, epoch)
    BY <2>1, PlainCall
  <2>3. inflight' = [inflight EXCEPT ![s] = q] /\ UNCHANGED <<fileToken, liveToken, keyToken, epoch, jar>>
    BY <1>3 DEF Rotate
  <2> HIDE DEF q
  <2> QED  BY <2>2, <2>3, OneSlot
<1> QED  BY <1>2, <1>3

\* The live configuration takes the token of the file.
LEMMA RefreshOK ==
  ASSUME SessionsOK, NEW s \in AdminSlots, refresh_live_config(s)
  PROVE  SessionsOK'
<1>1. Waiting \in Calls /\ CallOK(Waiting, epoch)
  BY PlainCall
<1> QED  BY <1>1 DEF SessionsOK, refresh_live_config, Finish

-----------------------------------------------------------------------------
\* A restart keeps the cookies and the epoch.
LEMMA RestartOK ==
  ASSUME SessionsOK, Restart
  PROVE  SessionsOK'
<1>1. Waiting \in Calls /\ CallOK(Waiting, epoch)
  BY PlainCall
<1> QED  BY <1>1 DEF SessionsOK, Restart

\* Time only shortens what is left of a cookie.
LEMMA TickOK ==
  ASSUME SessionsOK, AdminTick
  PROVE  SessionsOK'
<1> DEFINE Old(c) == IF c = NoCookie \/ c.left = 0 THEN c ELSE [c EXCEPT !.left = @ - 1]
<1>1. ASSUME NEW c \in Cookies, NEW e
      PROVE  /\ Old(c) \in Cookies
             /\ MintedBy(c, e) => MintedBy(Old(c), e)
             /\ c = NoCookie => Old(c) = NoCookie
             /\ c # NoCookie => Old(c).epoch = c.epoch /\ Old(c).revoked = c.revoked
  <2>1. CASE c = NoCookie \/ c.left = 0
    BY <2>1
  <2>2. CASE c # NoCookie /\ c.left # 0
    <3>1. c \in [key : Tokens, epoch : Nat, left : 0..SessionTTL, revoked : BOOLEAN]
      BY <2>2 DEF Cookies
    <3> DEFINE rest == c.left - 1
    <3>2. rest \in 0..SessionTTL /\ Old(c) = [c EXCEPT !.left = rest]
      BY <2>2, <3>1, SessionAssumption
    <3> HIDE DEF rest, Old
    <3>3. /\ Old(c) \in [key : Tokens, epoch : Nat, left : 0..SessionTTL, revoked : BOOLEAN]
          /\ Old(c).epoch = c.epoch /\ Old(c).revoked = c.revoked
      BY <3>1, <3>2
    <3>4. MintedBy(c, e) => MintedBy(Old(c), e)
      BY <2>2, <3>3 DEF MintedBy
    <3> QED  BY <2>2, <3>3, <3>4 DEF Cookies
  <2> QED  BY <2>1, <2>2
<1>2. /\ jar' = [b \in Browsers |-> Old(jar[b])]
      /\ inflight' = [s \in AdminSlots |->
            CASE inflight[s].pc = "session" -> [inflight[s] EXCEPT !.cookie = Old(@)]
              [] inflight[s].pc = "verify" -> [inflight[s] EXCEPT !.request.cookie = Old(@)]
              [] OTHER -> inflight[s]]
      /\ UNCHANGED <<fileToken, liveToken, keyToken, epoch>>
  BY DEF AdminTick
<1> HIDE DEF Old
<1>3. jar' \in [Browsers -> Cookies] /\ \A b \in Browsers : MintedBy(jar'[b], epoch')
  BY <1>1, <1>2 DEF SessionsOK
<1>4. ASSUME NEW s \in AdminSlots
      PROVE  inflight'[s] \in Calls /\ CallOK(inflight'[s], epoch')
  <2> DEFINE r == inflight[s]
  <2>1. r \in Calls /\ CallOK(r, epoch)
    BY DEF SessionsOK
  <2>2. CASE r.pc = "session"
    <3>1. r \in Sessions /\ r.cookie \in Cookies
      BY <2>1, <2>2, CallByStep DEF Sessions
    <3>2. Old(r.cookie) \in Cookies /\ MintedBy(Old(r.cookie), epoch)
      BY <1>1, <2>1, <2>2, <3>1 DEF CallOK
    <3>3. inflight'[s] = [r EXCEPT !.cookie = Old(r.cookie)]
      BY <1>2, <2>2
    <3>4. inflight'[s] \in Sessions /\ inflight'[s].cookie = Old(r.cookie) /\ inflight'[s].pc = "session"
      BY <2>2, <3>1, <3>2, <3>3 DEF Sessions
    <3> QED  BY <1>2, <3>2, <3>4 DEF Calls, CallOK
  <2>3. CASE r.pc = "verify"
    <3>1. r \in Verifications /\ r.request \in Sessions /\ r.request.cookie \in Cookies
      BY <2>1, <2>3, CallByStep DEF Verifications, Sessions
    <3>2. Old(r.request.cookie) \in Cookies
      BY <1>1, <3>1
    <3>3. inflight'[s] = [r EXCEPT !.request.cookie = Old(r.request.cookie)]
      BY <1>2, <2>3
    <3> DEFINE q == [r.request EXCEPT !.cookie = Old(r.request.cookie)]
    <3>4. q \in Sessions /\ q.cookie = Old(r.request.cookie)
      BY <3>1, <3>2 DEF Sessions
    <3>5. inflight'[s] = [r EXCEPT !.request = q]
      BY <3>1, <3>3 DEF Verifications, Sessions
    <3> HIDE DEF q
    <3>6. /\ inflight'[s] \in Verifications /\ inflight'[s].request = q /\ inflight'[s].pc = "verify"
          /\ inflight'[s].epoch = r.epoch /\ inflight'[s].unread = r.unread
      BY <2>3, <3>1, <3>4, <3>5 DEF Verifications
    <3>7. CallOK(inflight'[s], epoch)
      BY <1>1, <2>1, <2>3, <3>1, <3>4, <3>6 DEF CallOK
    <3> QED  BY <1>2, <3>6, <3>7 DEF Calls
  <2>4. CASE r.pc \notin {"session", "verify"}
    BY <1>2, <2>1, <2>4
  <2> QED  BY <2>2, <2>3, <2>4
<1> QED  BY <1>2, <1>3, <1>4 DEF SessionsOK

-----------------------------------------------------------------------------
\* The first state and every step.
LEMMA InitSessions == AdminInit => SessionsOK
<1> SUFFICES ASSUME AdminInit PROVE SessionsOK
  OBVIOUS
<1>1. Waiting \in Calls /\ CallOK(Waiting, epoch)
  BY PlainCall
<1>2. NoCookie \in Cookies /\ MintedBy(NoCookie, epoch)
  BY DEF Cookies, MintedBy
<1> QED  BY <1>1, <1>2, SessionAssumption DEF AdminInit, SessionsOK

\* Every step keeps the invariant.
LEMMA StepSessions == SessionsOK /\ [AdminNext]_adminVars => SessionsOK'
<1> SUFFICES ASSUME SessionsOK, [AdminNext]_adminVars PROVE SessionsOK'
  OBVIOUS
<1>1. CASE UNCHANGED adminVars
  BY <1>1 DEF SessionsOK, adminVars
<1>2. CASE Restart
  BY <1>2, RestartOK
<1>3. CASE AdminTick
  BY <1>3, TickOK
<1>4. ASSUME NEW s \in AdminSlots, NEW b \in Browsers, Request(s, b)
      PROVE  SessionsOK'
  BY <1>4, RequestOK
<1>5. ASSUME NEW s \in AdminSlots,
             \/ login_submit(s) \/ issue_session(s) \/ require_auth(s) \/ Enter(s) \/ Page(s)
             \/ logout(s) \/ Save(s) \/ Rotate(s) \/ refresh_live_config(s)
      PROVE  SessionsOK'
  BY <1>5, LoginOK, IssueOK, RequireAuthOK, EnterOK, PageOK, LogoutOK, SaveOK, RotateOK, RefreshOK
<1> QED  BY <1>1, <1>2, <1>3, <1>4, <1>5 DEF AdminNext

\* Every cookie is as old as it claims: the sessions a browser holds, those in
\* flight and those about to be minted (issue_session, revoke_all_sessions).
THEOREM EpochsBoundSessions == AdminSpec => []SessionsOK
<1>1. AdminInit => SessionsOK
  BY InitSessions
<1>2. SessionsOK /\ [AdminNext]_adminVars => SessionsOK'
  BY StepSessions
<1> QED  BY <1>1, <1>2, PTL DEF AdminSpec

\* The invariant implies the type invariant of AdminSession.
LEMMA SessionsTyped == SessionsOK => AdminTypeOK
<1> SUFFICES ASSUME SessionsOK PROVE AdminTypeOK
  OBVIOUS
<1>1. ASSUME NEW b \in Browsers, jar[b] # NoCookie
      PROVE  jar[b].key \in Tokens /\ jar[b].epoch \in 0..MaxBumps /\ jar[b].left \in 0..SessionTTL
  BY <1>1, SessionAssumption DEF SessionsOK, Cookies, MintedBy
<1>2. ASSUME NEW s \in AdminSlots
      PROVE  inflight[s].pc \in {"waiting", "login", "minting", "session", "verify", "handler", "saved", "bumped"}
  BY DEF SessionsOK, Calls, Waiting, Logins, Mintings, Sessions, Verifications, Handlers, Rotations
<1> QED  BY <1>1, <1>2, SessionAssumption DEF SessionsOK, AdminTypeOK

\* Only Enter takes a slot from the verification into a handler.
LEMMA HandlersAreEntered ==
  ASSUME SessionsOK, [AdminNext]_adminVars, NEW s \in AdminSlots,
         inflight[s].pc = "verify", inflight'[s].pc = "handler"
  PROVE  Enter(s)
<1>0. inflight \in [AdminSlots -> Calls]
  BY DEF SessionsOK
<1>1. CASE UNCHANGED adminVars
  BY <1>1 DEF adminVars
<1>2. CASE Restart
  BY <1>2 DEF Restart, Waiting
<1>3. CASE AdminTick
  <2>1. inflight[s] \in Verifications
    BY <1>0, CallByStep
  <2>2. inflight'[s].pc = "verify"
    BY <1>3, <2>1 DEF AdminTick, Verifications
  <2> QED  BY <2>2
<1>4. ASSUME NEW t \in AdminSlots, NEW b \in Browsers, Request(t, b)
      PROVE  FALSE
  BY <1>0, <1>4 DEF Request, Waiting
<1>5. ASSUME NEW t \in AdminSlots,
             \/ login_submit(t) \/ issue_session(t) \/ require_auth(t) \/ Page(t)
             \/ Save(t) \/ refresh_live_config(t)
      PROVE  FALSE
  BY <1>0, <1>5 DEF login_submit, issue_session, require_auth, Page, Save, refresh_live_config,
     ReadEpoch, Finish, Waiting
<1>6. ASSUME NEW t \in AdminSlots, logout(t) \/ Rotate(t)
      PROVE  FALSE
  BY <1>0, <1>6 DEF logout, Rotate, revoke_all_sessions, Waiting
<1>7. ASSUME NEW t \in AdminSlots, Enter(t)
      PROVE  Enter(s)
  BY <1>0, <1>7 DEF Enter, Finish
<1> QED  BY <1>1, <1>2, <1>3, <1>4, <1>5, <1>6, <1>7 DEF AdminNext

\* A session revoked before its request opens no handler while the epoch can
\* be read (require_auth, verify_session).
THEOREM RevokedStaysOut == AdminSpec => LoggedOutStaysOut
<1>1. ASSUME SessionsOK, [AdminNext]_adminVars, NEW s \in AdminSlots,
             inflight[s].pc = "verify", inflight'[s].pc = "handler", ~inflight[s].unread
      PROVE  ~inflight[s].request.cookie.revoked
  <2>1. Enter(s)
    BY <1>1, HandlersAreEntered
  <2>2. CallOK(inflight[s], epoch) /\ inflight[s] \in Verifications
    BY <1>1, CallByStep DEF SessionsOK
  <2>3. verify_session(inflight[s].request.cookie, inflight[s].epoch)
    BY <1>1, <2>1 DEF Enter, Finish, Waiting, SessionsOK
  <2>4. inflight[s].request.cookie # NoCookie
        /\ inflight[s].request.cookie.epoch = inflight[s].epoch /\ inflight[s].epoch \in Nat
    BY <2>2, <2>3 DEF verify_session, Verifications
  <2> QED  BY <1>1, <2>2, <2>4 DEF CallOK
<1>2. AdminSpec => []SessionsOK
  BY EpochsBoundSessions
<1>3. SessionsOK /\ [AdminNext]_adminVars =>
        [\A s \in AdminSlots :
           /\ inflight[s].pc = "verify" /\ inflight'[s].pc = "handler"
           /\ ~inflight[s].unread
           => ~inflight[s].request.cookie.revoked]_adminVars
  BY <1>1
<1> QED  BY <1>2, <1>3, PTL DEF AdminSpec, LoggedOutStaysOut

-----------------------------------------------------------------------------

(* The export links.                                                        *)

\* Where an open request may be.
Steps == {"token", "lookup", "claim", "render", "put", "release", "wait", "woken"}
Exports == {Closed} \cup [pc : Steps, token : LinkTokens, waited : Nat]

\* The body: while it is fresh, its age is what its window has lost.
BodyOK ==
    /\ cachedBody \in Body
    /\ is_fresh(cachedBody) => cachedBody.left + cachedBody.age = ExportTTL

\* The answers given so far.
AnswersOK ==
    /\ answers \in [ExportSlots -> [status : {0, 200, 400, 404, 500}, age : 0..ExportTTL + 1]]
    /\ ExportIsFresh

\* The claim.
ClaimOK ==
    /\ exports \in [ExportSlots -> Exports]
    /\ leader = Nobody \/ \E s \in ExportSlots : leader = {s}
    /\ ClaimHasAWorker

\* The token is never withdrawn.
TokenOK == linkToken \in LinkTokens


\* The inductive invariant of the export.
ExportInv == BodyOK /\ AnswersOK /\ ClaimOK /\ TokenOK

-----------------------------------------------------------------------------
\* An open request stays one as it moves.
LEMMA OpenRequest ==
  ASSUME NEW r \in Exports, r.pc # "closed"
  PROVE  /\ r \in [pc : Steps, token : LinkTokens, waited : Nat]
         /\ \A pc \in Steps : [r EXCEPT !.pc = pc] \in Exports /\ [r EXCEPT !.pc = pc].pc = pc
BY DEF Exports, Closed

\* Moving one request that holds no claim to a step that needs none, and
\* leaving the claim alone.
LEMMA Moved ==
  ASSUME ClaimOK, NEW s \in ExportSlots, NEW r \in Exports,
         exports' = [exports EXCEPT ![s] = r], UNCHANGED leader,
         s \in leader => r.pc \in {"render", "put", "release"},
         r.pc = "wait" => leader # Nobody
  PROVE  ClaimOK'
BY DEF ClaimOK, ClaimHasAWorker

\* Ending a request ends its claim and wakes its waiters.
LEMMA ClaimEnds ==
  ASSUME ClaimOK, NEW s \in ExportSlots, EndClaim(s)
  PROVE  ClaimOK'
<1>1. CASE s \in leader
  <2>1. leader' = {}
    BY <1>1 DEF EndClaim, Nobody
  <2>2. ASSUME NEW t \in ExportSlots
        PROVE  exports'[t] \in Exports /\ exports'[t].pc # "wait"
    <3>1. exports[t] \in Exports
      BY DEF ClaimOK
    <3>2. CASE t # s /\ exports[t].pc = "wait"
      <4>1. exports'[t] = [exports[t] EXCEPT !.pc = "woken"]
        BY <1>1, <3>2 DEF EndClaim
      <4>2. exports[t].pc # "closed" /\ "woken" \in Steps
        BY <3>2 DEF Steps
      <4> QED  BY <3>1, <4>1, <4>2, OpenRequest
    <3>3. CASE t = s \/ exports[t].pc # "wait"
      BY <1>1, <3>1, <3>3 DEF EndClaim, Exports, Closed
    <3> QED  BY <3>2, <3>3
  <2>3. exports' \in [ExportSlots -> Exports]
    BY <1>1, <2>2 DEF EndClaim
  <2> QED  BY <2>1, <2>2, <2>3 DEF ClaimOK, ClaimHasAWorker, Nobody
<1>2. CASE s \notin leader
  BY <1>2, Moved DEF EndClaim, Exports, Closed
<1> QED  BY <1>1, <1>2

\* The rows a request is answered with.
LEMMA AnswerOK ==
  ASSUME AnswersOK, NEW s \in ExportSlots, NEW status \in {0, 200, 400, 404, 500}, NEW age \in 0..ExportTTL + 1,
         status = 200 => age < ExportTTL,
         Answered(s, status, age)
  PROVE  AnswersOK'
BY DEF AnswersOK, ExportIsFresh, Answered

\* Rendering starts a window, time shortens it (processed_put, ExportTick).
LEMMA StepBody ==
  ASSUME BodyOK, [ExportNext]_exportVars
  PROVE  BodyOK'
<1> USE ExportAssumption
<1>1. CASE UNCHANGED cachedBody
  BY <1>1 DEF BodyOK, Body, is_fresh
<1>2. CASE Evict
  BY <1>2 DEF Evict, BodyOK, Body, is_fresh, NoEntry
<1>3. CASE ExportTick
  <2>1. CASE cachedBody = NoEntry
    BY <1>3, <2>1 DEF ExportTick, BodyOK, Body, is_fresh, NoEntry
  <2>2. CASE cachedBody # NoEntry
    <3>1. cachedBody' = [left |-> IF cachedBody.left > 0 THEN cachedBody.left - 1 ELSE 0,
                         age |-> Older(cachedBody.age)]
      BY <1>3, <2>2 DEF ExportTick
    <3> QED  BY <3>1 DEF BodyOK, Body, is_fresh, Older
  <2> QED  BY <2>1, <2>2
<1>4. ASSUME NEW s \in ExportSlots, Put(s)
      PROVE  BodyOK'
  BY <1>4 DEF Put, BodyOK, Body, is_fresh
<1> QED  BY <1>1, <1>2, <1>3, <1>4 DEF ExportNext, exportVars, rotate_token, Open, CheckLink, Lookup,
            begin_inline_render, render_tier, Release, Wake, GiveUp, Disconnect

\* Every answer is given from a fresh body.
LEMMA StepAnswers ==
  ASSUME BodyOK, AnswersOK, [ExportNext]_exportVars
  PROVE  AnswersOK'
<1> USE ExportAssumption
<1>1. CASE UNCHANGED answers
  BY <1>1 DEF AnswersOK, ExportIsFresh
<1>2. ASSUME NEW s \in ExportSlots, NEW status \in {0, 400, 404, 500}, Answered(s, status, 0)
      PROVE  AnswersOK'
  <2>1. 0 \in 0..ExportTTL + 1 /\ status \in {0, 200, 400, 404, 500} /\ status # 200
    OBVIOUS
  <2> QED  BY <1>2, <2>1, AnswerOK
<1>3. ASSUME NEW s \in ExportSlots, is_fresh(cachedBody), Answered(s, 200, cachedBody.age)
      PROVE  AnswersOK'
  <2>1. cachedBody.age \in 0..ExportTTL + 1 /\ cachedBody.age < ExportTTL
    BY <1>3 DEF BodyOK, Body, is_fresh
  <2>2. 200 \in {0, 200, 400, 404, 500}
    OBVIOUS
  <2> QED  BY <1>3, <2>1, <2>2, AnswerOK
<1>4. ASSUME NEW s \in ExportSlots, Answered(s, 200, 0)
      PROVE  AnswersOK'
  <2>1. 0 \in 0..ExportTTL + 1 /\ 0 < ExportTTL /\ 200 \in {0, 200, 400, 404, 500}
    OBVIOUS
  <2> QED  BY <1>4, <2>1, AnswerOK
<1>5. ASSUME NEW s \in ExportSlots, answers' = [answers EXCEPT ![s] = NoAnswer]
      PROVE  AnswersOK'
  BY <1>2, <1>5 DEF Answered, NoAnswer
<1>6. ASSUME NEW s \in ExportSlots, Open(s) \/ CheckLink(s) \/ render_tier(s)
      PROVE  AnswersOK'
  BY <1>1, <1>2, <1>5, <1>6 DEF Open, CheckLink, render_tier, Reply
<1>7. ASSUME NEW s \in ExportSlots, Lookup(s) \/ Wake(s)
      PROVE  AnswersOK'
  BY <1>1, <1>3, <1>7 DEF Lookup, Wake, Woken, Reply
<1>8. ASSUME NEW s \in ExportSlots, Put(s) \/ Release(s)
      PROVE  AnswersOK'
  BY <1>1, <1>4, <1>8 DEF Put, Release, Reply
<1> QED  BY <1>1, <1>6, <1>7, <1>8 DEF ExportNext, exportVars, rotate_token, Evict, ExportTick,
            begin_inline_render, GiveUp, Disconnect

\* A claim passes from its holder to nobody (cached_render).
LEMMA StepClaim ==
  ASSUME ClaimOK, [ExportNext]_exportVars
  PROVE  ClaimOK'
<1>0. \A s \in ExportSlots : exports[s] \in Exports
  BY DEF ClaimOK
<1>1. CASE UNCHANGED <<exports, leader>>
  BY <1>1 DEF ClaimOK, ClaimHasAWorker
<1>2. CASE ExportTick
  <2>1. ASSUME NEW s \in ExportSlots
        PROVE  exports'[s] \in Exports /\ exports'[s].pc = exports[s].pc
    <3>1. CASE exports[s].pc = "wait" /\ exports[s].waited < RenderDeadline
      <4>1. exports'[s] = [exports[s] EXCEPT !.waited = exports[s].waited + 1]
        BY <1>2, <3>1 DEF ExportTick
      <4>2. exports[s] \in [pc : Steps, token : LinkTokens, waited : Nat]
        BY <1>0, <3>1, OpenRequest
      <4> QED  BY <4>1, <4>2 DEF Exports
    <3> QED  BY <1>0, <1>2, <3>1 DEF ExportTick
  <2>2. exports' \in [ExportSlots -> Exports] /\ leader' = leader
    BY <1>2, <2>1 DEF ExportTick
  <2>3. leader' = Nobody \/ \E s \in ExportSlots : leader' = {s}
    BY <2>2 DEF ClaimOK
  <2>4. ClaimHasAWorker'
    <3>1. leader \subseteq ExportSlots
      BY DEF ClaimOK, Nobody
    <3> QED  BY <2>1, <2>2, <3>1 DEF ClaimOK, ClaimHasAWorker
  <2> QED  BY <2>2, <2>3, <2>4 DEF ClaimOK
\* One request moves, to Closed or to a later step.
<1>3. ASSUME NEW s \in ExportSlots, s \notin leader, UNCHANGED leader, exports' = [exports EXCEPT ![s] = Closed]
      PROVE  ClaimOK'
  BY <1>3, Moved DEF Exports, Closed
<1>4. ASSUME NEW s \in ExportSlots, exports[s].pc # "closed", NEW pc \in Steps, Goto(s, pc),
             UNCHANGED leader, s \in leader => pc \in {"render", "put", "release"},
             pc = "wait" => leader # Nobody
      PROVE  ClaimOK'
  <2>1. [exports[s] EXCEPT !.pc = pc] \in Exports /\ [exports[s] EXCEPT !.pc = pc].pc = pc
    BY <1>0, <1>4, OpenRequest
  <2>2. exports' = [exports EXCEPT ![s] = [exports[s] EXCEPT !.pc = pc]]
    BY <1>4 DEF Goto
  <2> QED  BY <1>4, <2>1, <2>2, Moved
<1>5. \A s \in leader : exports[s].pc \in {"render", "put", "release"}
  BY DEF ClaimOK, ClaimHasAWorker
<1>6. ASSUME NEW s \in ExportSlots, Open(s)
      PROVE  ClaimOK'
  <2>1. s \notin leader /\ UNCHANGED leader
    BY <1>5, <1>6 DEF Open, Closed
  <2>2. CASE exports' = [exports EXCEPT ![s] = Closed]
    BY <1>3, <2>1, <2>2
  <2>3. ASSUME NEW token \in LinkTokens,
               exports' = [exports EXCEPT ![s] = [pc |-> "token", token |-> token, waited |-> 0]]
        PROVE  ClaimOK'
    BY <2>1, <2>3, Moved DEF Exports, Steps
  <2> QED  BY <1>6, <2>2, <2>3 DEF Open, Reply
<1>7. ASSUME NEW s \in ExportSlots, CheckLink(s) \/ Lookup(s) \/ Wake(s)
      PROVE  ClaimOK'
  <2>1. s \notin leader /\ UNCHANGED leader /\ exports[s].pc # "closed"
    BY <1>5, <1>7 DEF CheckLink, Lookup, Wake
  <2>2. exports' = [exports EXCEPT ![s] = Closed] \/ \E pc \in {"lookup", "claim", "render"} : Goto(s, pc)
    BY <1>7 DEF CheckLink, Lookup, Wake, Reply
  <2> QED  BY <1>3, <1>4, <2>1, <2>2 DEF Steps
<1>8. ASSUME NEW s \in ExportSlots, GiveUp(s)
      PROVE  ClaimOK'
  BY <1>4, <1>8 DEF GiveUp, Steps
<1>9. ASSUME NEW s \in ExportSlots, begin_inline_render(s)
      PROVE  ClaimOK'
  <2>1. CASE leader = Nobody
    <3>1. /\ [exports[s] EXCEPT !.pc = "render"] \in Exports
          /\ [exports[s] EXCEPT !.pc = "render"].pc = "render"
      BY <1>0, <1>9, OpenRequest DEF begin_inline_render, Steps
    <3>2. exports' = [exports EXCEPT ![s] = [exports[s] EXCEPT !.pc = "render"]] /\ leader' = {s}
      BY <1>9, <2>1 DEF begin_inline_render, Goto
    <3> QED  BY <3>1, <3>2 DEF ClaimOK, ClaimHasAWorker, Nobody
  <2>2. CASE leader # Nobody
    <3>1. s \notin leader
      BY <1>5, <1>9 DEF begin_inline_render
    <3> QED  BY <1>4, <1>9, <2>2, <3>1 DEF begin_inline_render, Steps
  <2> QED  BY <2>1, <2>2
<1>10. ASSUME NEW s \in ExportSlots, render_tier(s) \/ Put(s) \/ Release(s) \/ Disconnect(s)
       PROVE  ClaimOK'
  <2>1. CASE EndClaim(s)
    BY <2>1, ClaimEnds
  <2>2. CASE UNCHANGED leader /\ \E pc \in {"put", "release"} : Goto(s, pc)
    BY <1>4, <1>10, <2>2 DEF render_tier, Put, Release, Disconnect, EndClaim, Steps
  <2>3. CASE s \notin leader /\ UNCHANGED leader /\ exports' = [exports EXCEPT ![s] = Closed]
    BY <1>3, <2>3
  <2> QED  BY <1>10, <2>1, <2>2, <2>3 DEF render_tier, Put, Release, Disconnect, Reply
<1> QED  BY <1>1, <1>2, <1>6, <1>7, <1>8, <1>9, <1>10 DEF ExportNext, exportVars, rotate_token, Evict

\* A rotation sets another token.
LEMMA StepToken ==
  ASSUME TokenOK, [ExportNext]_exportVars
  PROVE  TokenOK'
BY DEF TokenOK, ExportNext, exportVars, rotate_token, Evict, ExportTick, Open, CheckLink, Lookup,
       begin_inline_render, render_tier, Put, Release, Wake, GiveUp, Disconnect

\* At first there is no body and no request.
LEMMA InitExport == ExportInit => ExportInv
<1> SUFFICES ASSUME ExportInit PROVE ExportInv
  OBVIOUS
<1>1. BodyOK
  BY ExportAssumption DEF ExportInit, BodyOK, Body, NoEntry, is_fresh
<1>2. AnswersOK
  BY ExportAssumption DEF ExportInit, AnswersOK, ExportIsFresh, NoAnswer
<1>3. ClaimOK
  BY DEF ExportInit, ClaimOK, ClaimHasAWorker, Nobody, Closed, Exports
<1>4. TokenOK
  BY ExportAssumption DEF ExportInit, TokenOK, ensure_token
<1> QED  BY <1>1, <1>2, <1>3, <1>4 DEF ExportInv

\* The invariant implies the type invariant of AliveExport.
LEMMA ExportTyped == ExportInv => ExportTypeOK
<1> SUFFICES ASSUME ExportInv PROVE ExportTypeOK
  OBVIOUS
<1>1. ASSUME NEW s \in ExportSlots
      PROVE  /\ exports[s].pc \in {"closed", "token", "lookup", "claim", "render", "put", "release", "wait", "woken"}
             /\ answers[s].status \in {0, 200, 400, 404, 500} /\ answers[s].age \in 0 .. ExportTTL + 1
  BY DEF ExportInv, ClaimOK, AnswersOK, Exports, Closed, Steps
<1>2. leader \in SUBSET ExportSlots /\ Cardinality(leader) <= 1
  <2>1. CASE leader = {}
    BY <2>1, FS_EmptySet
  <2>2. ASSUME NEW s \in ExportSlots, leader = {s}
        PROVE  leader \in SUBSET ExportSlots /\ Cardinality(leader) <= 1
    BY <2>2, FS_Singleton
  <2> QED  BY <2>1, <2>2 DEF ExportInv, ClaimOK, Nobody
<1> QED  BY <1>1, <1>2 DEF ExportInv, BodyOK, TokenOK, ExportTypeOK

\* The inductive invariant: bodies age as their window shrinks, every claim
\* has a holder at work (cached_render, processed_put).
THEOREM ExportInvariant == ExportSpec => []ExportInv
<1>1. ExportInit => ExportInv
  BY InitExport
<1>2. ExportInv /\ [ExportNext]_exportVars => ExportInv'
  BY StepBody, StepAnswers, StepClaim, StepToken DEF ExportInv
<1> QED  BY <1>1, <1>2, PTL DEF ExportSpec

\* An export link serves fresh rows only, and no request waits for a claim
\* nobody works on (cached_render).
THEOREM LinksServeFreshRows == ExportSpec => []LinkServesFreshRows
<1>1. ExportInv => LinkServesFreshRows
  BY DEF ExportInv, AnswersOK, ClaimOK, LinkServesFreshRows
<1> QED  BY <1>1, ExportInvariant, PTL

-----------------------------------------------------------------------------
(* The parts beside one another.                                           *)

\* The public limiter counts for its client and lets through no more than its
\* limit (public_rate_limit, client_key).
THEOREM PublicWindows == PublicSpec => [](NeverAThirdParty /\ NoPhantomHits /\ WindowBudget)
<1>1. PublicSpec => []PublicInv
  BY InitPublic, StepPublic, PTL DEF PublicSpec
<1>2. PublicInv => NeverAThirdParty /\ NoPhantomHits /\ WindowBudget
  BY PublicSafe
<1> QED  BY <1>1, <1>2, PTL

\* The pages of other sites spend nobody's window (rate_limit).
THEOREM AdminWindows == LimiterSpec => []OwnHitsOnly
<1>1. LimiterSpec => []LimiterInv
  BY InitLimiter, StepLimiter, PTL DEF LimiterSpec
<1>2. LimiterInv => OwnHitsOnly
  BY LimiterSafe
<1> QED  BY <1>1, <1>2, PTL

\* A warning is left out only in a full window, and then remembered
\* (should_warn, roll_window).
THEOREM WarningsAreRemembered == LogSpec => []SilenceIsEarned
<1>1. LogSpec => []LogInv
  BY InitLog, StepLog, PTL DEF LogSpec
<1>2. LogInv => SilenceIsEarned
  BY LogSafe
<1> QED  BY <1>1, <1>2, PTL

\* A step of the border is a step of each part, or leaves that part alone.
LEMMA RequestParts ==
  ASSUME [Next]_<<part, requestVars, outboundVars>>
  PROVE  /\ [PublicNext]_publicVars /\ [LogNext]_logVars /\ [LimiterNext]_limiterVars
         /\ [AdminNext]_adminVars /\ [ExportNext]_exportVars
<1>1. CASE UNCHANGED requestVars
  <2>1. /\ UNCHANGED publicVars /\ UNCHANGED logVars /\ UNCHANGED limiterVars /\ UNCHANGED adminVars
        /\ UNCHANGED exportVars
    BY <1>1 DEF requestVars
  <2> QED  BY <2>1
<1>2. CASE PublicNext /\ UNCHANGED <<logVars, limiterVars, adminVars, exportVars>>
  <2>1. UNCHANGED logVars /\ UNCHANGED limiterVars /\ UNCHANGED adminVars /\ UNCHANGED exportVars
    BY <1>2
  <2> QED  BY <1>2, <2>1
<1>3. CASE LogNext /\ UNCHANGED <<publicVars, limiterVars, adminVars, exportVars>>
  <2>1. UNCHANGED publicVars /\ UNCHANGED limiterVars /\ UNCHANGED adminVars /\ UNCHANGED exportVars
    BY <1>3
  <2> QED  BY <1>3, <2>1
<1>4. CASE LimiterNext /\ UNCHANGED <<publicVars, logVars, adminVars, exportVars>>
  <2>1. UNCHANGED publicVars /\ UNCHANGED logVars /\ UNCHANGED adminVars /\ UNCHANGED exportVars
    BY <1>4
  <2> QED  BY <1>4, <2>1
<1>5. CASE AdminNext /\ UNCHANGED <<publicVars, logVars, limiterVars, exportVars>>
  <2>1. UNCHANGED publicVars /\ UNCHANGED logVars /\ UNCHANGED limiterVars /\ UNCHANGED exportVars
    BY <1>5
  <2> QED  BY <1>5, <2>1
<1>6. CASE ExportNext /\ UNCHANGED <<publicVars, logVars, limiterVars, adminVars>>
  <2>1. UNCHANGED publicVars /\ UNCHANGED logVars /\ UNCHANGED limiterVars /\ UNCHANGED adminVars
    BY <1>6
  <2> QED  BY <1>6, <2>1
<1>7. UNCHANGED requestVars \/ Requests
  BY DEF Next
<1> QED  BY <1>1, <1>2, <1>3, <1>4, <1>5, <1>6, <1>7 DEF Requests

\* The border starts where its parts start.
LEMMA RequestsAtFirst == Init => PublicInit /\ LogInit /\ LimiterInit /\ AdminInit /\ ExportInit
BY DEF Init

\* The inductive invariant of the requests.
RequestInv == PublicInv /\ LogInv /\ LimiterInv /\ SessionsOK /\ ExportInv

\* Counters, registries, sessions and claims keep their invariants side by
\* side (public_app, admin_app).
THEOREM RequestInvariant == Spec => []RequestInv
<1>1. Init => RequestInv
  BY RequestsAtFirst, InitPublic, InitLog, InitLimiter, InitSessions, InitExport DEF RequestInv
<1>2. RequestInv /\ [Next]_<<part, requestVars, outboundVars>> => RequestInv'
  BY RequestParts, StepPublic, StepLog, StepLimiter, StepSessions, StepBody, StepAnswers, StepClaim, StepToken
     DEF RequestInv, ExportInv
<1> QED  BY <1>1, <1>2, PTL DEF Spec

\* What crosses the border is counted honestly on every listener: a request
\* against its sender, a refund in its own window, a foreign page against
\* nobody, a suppressed warning for the summary (RateLimiter, should_warn).
THEOREM HonestLimits == Spec => []LimitsAreFair
<1>1. RequestInv => LimitsAreFair
  BY PublicSafe, LimiterSafe, LogSafe DEF RequestInv, LimitsAreFair
<1> QED  BY <1>1, RequestInvariant, PTL

-----------------------------------------------------------------------------
(* The host gate: which address is picked, and which are left.              *)

\* The first of some positions.
LEMMA MinOfPositions ==
  ASSUME NEW I \in SUBSET Nat, I # {}
  PROVE  Min(I) \in I /\ \A i \in I : Min(I) <= i
<1>1. \E m \in I : \A i \in I : m <= i
  BY LeastNat
<1> QED  BY <1>1 DEF Min

\* find returns an entry of the family asked for (pick_vetted).
LEMMA PickIsOfFamily ==
  ASSUME NEW S, NEW addrs \in Seq(S), NEW family \in Families, pick_vetted(addrs, family) # NoAddress
  PROVE  \E i \in OfFamily(addrs, family) : pick_vetted(addrs, family) = addrs[i]
<1>1. ASSUME NEW I \in SUBSET DOMAIN addrs, I # {}
      PROVE  Min(I) \in I
  <2>1. I \in SUBSET Nat
    OBVIOUS
  <2> QED  BY <1>1, <2>1, MinOfPositions
<1>2. \A f : OfFamily(addrs, f) \in SUBSET DOMAIN addrs
  BY DEF OfFamily
<1>3. OfFamily(addrs, "ipv4") \subseteq OfFamily(addrs, "any")
  BY DEF OfFamily, family_matches
<1> QED  BY <1>1, <1>2, <1>3 DEF pick_vetted, FirstAt

\* A nonempty list has an address of "any" family.
LEMMA PickOfAny ==
  ASSUME NEW S, NEW addrs \in Seq(S), addrs # << >>, NoAddress \notin S
  PROVE  pick_vetted(addrs, "any") # NoAddress
<1>1. OfFamily(addrs, "any") = DOMAIN addrs /\ 1 \in DOMAIN addrs
  <2>1. OfFamily(addrs, "any") = DOMAIN addrs
    BY DEF OfFamily, family_matches
  <2>2. Len(addrs) \in Nat /\ Len(addrs) # 0 /\ DOMAIN addrs = 1..Len(addrs)
    OBVIOUS
  <2> QED  BY <2>1, <2>2
<1>2. ASSUME NEW I \in SUBSET DOMAIN addrs, I # {}
      PROVE  addrs[Min(I)] # NoAddress
  <2>1. I \in SUBSET Nat
    OBVIOUS
  <2>2. Min(I) \in DOMAIN addrs
    BY <1>2, <2>1, MinOfPositions
  <2> QED  BY <2>2
<1>3. OfFamily(addrs, "ipv4") \in SUBSET DOMAIN addrs
  BY DEF OfFamily
<1> QED  BY <1>1, <1>2, <1>3 DEF pick_vetted, FirstAt

\* What check_ip lets through leads out (check_ip).
LEMMA CheckedLeadsOut ==
  ASSUME NEW a \in Address, check_ip(a, FALSE)
  PROVE  LeadsOut(a)
BY DEF check_ip, LeadsOut, Address, Embedding, Undecoded, OpenRanges, Refused4, Refused6

\* A refusal is no address.
LEMMA NoAddressIsNone == NoAddress \notin Address
BY DEF NoAddress, Address, Embedding, Undecoded

\* The fetcher pins an address of the family that the gate let through.
LEMMA VettedHost ==
  ASSUME NEW answer \in Seq(Address), NEW allow \in BOOLEAN, NEW family \in Families,
         vet_host(answer, allow, family) # NoAddress
  PROVE  LET ip == vet_host(answer, allow, family)
         IN  ip \in Address /\ family_matches(ip, family) /\ (allow \/ LeadsOut(ip))
<1> DEFINE ip == vet_host(answer, allow, family)
<1>1. /\ ip = pick_vetted(answer, family)
      /\ \A i \in OfFamily(answer, family) : check_ip(answer[i], allow)
  BY DEF vet_host
<1>2. PICK i \in OfFamily(answer, family) : ip = answer[i]
  BY <1>1, PickIsOfFamily
<1>3. ip \in Address /\ family_matches(ip, family) /\ check_ip(ip, allow)
  BY <1>1, <1>2 DEF OfFamily
<1>4. allow \/ LeadsOut(ip)
  BY <1>3, CheckedLeadsOut
<1> QED  BY <1>3, <1>4

-----------------------------------------------------------------------------
\* There are two families at most, so two slots suffice for them.
LEMMA ReservedAreTwo ==
  ASSUME NEW S, NEW addrs \in Seq(S)
  PROVE  IsFiniteSet(Reserved(addrs)) /\ Cardinality(Reserved(addrs)) <= 2
<1> DEFINE f == [i \in Reserved(addrs) |-> IF is_ipv4(addrs[i]) THEN 1 ELSE 2]
<1>1. ASSUME NEW i \in Reserved(addrs), NEW j \in Reserved(addrs), i < j
      PROVE  f[i] # f[j]
  <2>1. i \in 1..j - 1
    BY <1>1 DEF Reserved
  <2>2. is_ipv4(addrs[i]) # is_ipv4(addrs[j])
    BY <2>1 DEF Reserved
  <2> QED  BY <2>2 DEF is_ipv4
<1>2. \A i, j \in Reserved(addrs) : f[i] = f[j] => i = j
  <2>1. \A i \in Reserved(addrs) : i \in Nat
    BY DEF Reserved
  <2> HIDE DEF f
  <2> QED  BY <1>1, <2>1
<1>3. f \in [Reserved(addrs) -> 1..2]
  OBVIOUS
<1>4. f \in Injection(Reserved(addrs), 1..2)
  BY <1>2, <1>3 DEF Injection, IsInjective
<1>5. \A n \in Nat : IsFiniteSet(1..n) /\ Cardinality(1..n) = n
  BY FS_Interval
<1>6. IsFiniteSet(1..2) /\ Cardinality(1..2) = 2
  BY <1>5
<1> QED  BY <1>4, <1>6, FS_Injection

\* The short list has a slot for the first address of each family.
LEMMA CapKeepsFamilies ==
  ASSUME NEW S, NEW addrs \in Seq(S), NEW most \in Nat, most >= 2
  PROVE  /\ cap_vetted(addrs, most) \in Seq(S)
         /\ Len(cap_vetted(addrs, most)) <= most
         /\ addrs # << >> => cap_vetted(addrs, most) # << >>
         /\ \A i \in Reserved(addrs) : \E k \in DOMAIN cap_vetted(addrs, most) : cap_vetted(addrs, most)[k] = addrs[i]
<1>1. CASE Len(addrs) <= most
  <2>1. \A i \in Reserved(addrs) : i \in DOMAIN addrs
    BY DEF Reserved
  <2> QED  BY <1>1, <2>1 DEF cap_vetted
<1>2. CASE ~(Len(addrs) <= most)
  <2> DEFINE R == Reserved(addrs)
             rest == DOMAIN addrs \ R
             n == most - Cardinality(R)
             I == R \cup Firsts(rest, n)
  <2>1. R \in SUBSET DOMAIN addrs /\ IsFiniteSet(R) /\ Cardinality(R) <= 2 /\ Cardinality(R) \in Nat
    BY ReservedAreTwo, FS_CardinalityType DEF Reserved
  <2>2. rest \in SUBSET Nat /\ IsFiniteSet(rest) /\ n \in Nat
    <3>1. IsFiniteSet(DOMAIN addrs)
      BY FS_Interval
    <3>2. IsFiniteSet(rest)
      BY <3>1, FS_Subset
    <3> QED  BY <2>1, <3>2
  <2>3. IsFiniteSet(Firsts(rest, n)) /\ Cardinality(Firsts(rest, n)) <= n
    BY <2>2, FirstsAreFew
  <2>4. Firsts(rest, n) \in SUBSET DOMAIN addrs
    BY DEF Firsts
  <2>5. Cardinality(I) <= most
    <3>1. R \cap Firsts(rest, n) = {}
      BY DEF Firsts
    <3>2. Cardinality(I) = Cardinality(R) + Cardinality(Firsts(rest, n)) - Cardinality(R \cap Firsts(rest, n))
      BY <2>1, <2>3, FS_Union
    <3>3. Cardinality(R \cap Firsts(rest, n)) = 0
      BY <3>1, FS_EmptySet
    <3>4. Cardinality(Firsts(rest, n)) \in Nat
      BY <2>3, FS_CardinalityType
    <3> QED  BY <2>1, <2>3, <3>2, <3>3, <3>4
  <2>6. cap_vetted(addrs, most) = Entries(addrs, I)
    BY <1>2 DEF cap_vetted
  <2>7. I \in SUBSET DOMAIN addrs
    BY <2>1, <2>4
  <2> HIDE DEF I
  <2>8. /\ Entries(addrs, I) \in Seq(S) /\ Len(Entries(addrs, I)) = Cardinality(I)
        /\ \A i \in I : Rank(I, i) \in 1..Cardinality(I) /\ Entries(addrs, I)[Rank(I, i)] = addrs[i]
    BY <2>7, EntriesAreEntries
  <2>9. 1 \in R
    BY <1>2 DEF Reserved
  <2>10. \A i \in R : i \in I
    BY DEF I
  <2>11. \A i \in R : \E k \in DOMAIN Entries(addrs, I) : Entries(addrs, I)[k] = addrs[i]
    <3>1. DOMAIN Entries(addrs, I) = 1..Cardinality(I)
      BY <2>8
    <3> QED  BY <2>8, <2>10, <3>1
  <2>12. Entries(addrs, I) # << >>
    BY <2>9, <2>11
  <2> QED  BY <2>5, <2>6, <2>8, <2>11, <2>12
<1> QED  BY <1>1, <1>2

-----------------------------------------------------------------------------
\* Duplicates go, the first address of a family stays first.
LEMMA DistinctKeepsFamilies ==
  ASSUME NEW S, NEW addrs \in Seq(S)
  PROVE  /\ Distinct(addrs) \in Seq(S)
         /\ addrs # << >> => Distinct(addrs) # << >>
         /\ \A i \in Reserved(addrs) : \E k \in Reserved(Distinct(addrs)) : Distinct(addrs)[k] = addrs[i]
<1> DEFINE I == {i \in DOMAIN addrs : \A j \in 1..i - 1 : addrs[j] # addrs[i]}
<1>1. I \in SUBSET DOMAIN addrs /\ Distinct(addrs) = Entries(addrs, I)
  BY DEF Distinct
<1>2. \A i \in Reserved(addrs) : i \in I
  BY DEF Reserved
<1>3. addrs # << >> => 1 \in I
  <2>1. Len(addrs) \in Nat /\ DOMAIN addrs = 1..Len(addrs)
    OBVIOUS
  <2> QED  BY <2>1
<1> HIDE DEF I
<1>4. /\ IsFiniteSet(I) /\ I \in SUBSET Nat /\ Cardinality(I) \in Nat
      /\ Entries(addrs, I) \in Seq(S) /\ Len(Entries(addrs, I)) = Cardinality(I)
      /\ \A k \in 1..Cardinality(I) : Entries(addrs, I)[k] = addrs[Ascending(I)[k]] /\ Ascending(I)[k] \in I
      /\ \A i \in I : Rank(I, i) \in 1..Cardinality(I) /\ Entries(addrs, I)[Rank(I, i)] = addrs[i]
  BY <1>1, EntriesAreEntries
<1>5. /\ \A i \in I : Ascending(I)[Rank(I, i)] = i
      /\ \A k, l \in 1..Cardinality(I) : k < l => Ascending(I)[k] < Ascending(I)[l]
  BY <1>4, AscendingLists
<1>6. DOMAIN Entries(addrs, I) = 1..Cardinality(I)
  BY <1>4
<1>7. ASSUME NEW i \in Reserved(addrs)
      PROVE  Rank(I, i) \in Reserved(Entries(addrs, I))
  <2> DEFINE k == Rank(I, i)
  <2>1. i \in I /\ k \in 1..Cardinality(I) /\ Entries(addrs, I)[k] = addrs[i]
    BY <1>2, <1>4
  <2>2. ASSUME NEW l \in 1..k - 1
        PROVE  is_ipv4(Entries(addrs, I)[l]) # is_ipv4(Entries(addrs, I)[k])
    <3>1. l \in 1..Cardinality(I) /\ l < k
      BY <1>4, <2>1
    <3>2. Ascending(I)[l] \in I /\ Ascending(I)[l] < i /\ Entries(addrs, I)[l] = addrs[Ascending(I)[l]]
      BY <1>4, <1>5, <2>1, <3>1
    <3>3. Ascending(I)[l] \in 1..i - 1
      <4>1. \A m \in I : m \in 1..Len(addrs)
        BY <1>1
      <4> QED  BY <3>2, <4>1, <2>1
    <3>4. is_ipv4(addrs[Ascending(I)[l]]) # is_ipv4(addrs[i])
      BY <3>3 DEF Reserved
    <3> QED  BY <2>1, <3>2, <3>4
  <2> QED  BY <1>6, <2>1, <2>2 DEF Reserved
<1>8. addrs # << >> => Entries(addrs, I) # << >>
  BY <1>3, <1>4, <1>6
<1> QED  BY <1>1, <1>2, <1>4, <1>7, <1>8

\* What the probe gets of a lookup: addresses the gate let through, no more
\* than the short list holds, the first of each family among them.
LEMMA VettedList ==
  ASSUME NEW answer \in Seq(Address), NEW most \in Nat, most >= 2,
         vet_resolved_addrs(answer, FALSE, most) # << >>
  PROVE  LET vetted == vet_resolved_addrs(answer, FALSE, most)
         IN  /\ vetted \in Seq({a \in Address : LeadsOut(a)})
             /\ Len(vetted) <= most
             /\ \A i \in Reserved(answer) : \E k \in DOMAIN vetted : vetted[k] = answer[i]
<1> DEFINE Good == {a \in Address : LeadsOut(a)}
           d == Distinct(answer)
           vetted == vet_resolved_addrs(answer, FALSE, most)
<1>1. (\A i \in DOMAIN answer : check_ip(answer[i], FALSE)) /\ vetted = cap_vetted(d, most)
  BY DEF vet_resolved_addrs
<1>2. answer \in Seq(Good)
  <2>1. \A i \in DOMAIN answer : answer[i] \in Good
    <3>1. \A i \in DOMAIN answer : answer[i] \in Address
      OBVIOUS
    <3> QED  BY <1>1, <3>1, CheckedLeadsOut
  <2>2. Len(answer) \in Nat /\ DOMAIN answer = 1..Len(answer) /\ answer = [i \in 1..Len(answer) |-> answer[i]]
    OBVIOUS
  <2> HIDE DEF Good
  <2> QED  BY <2>1, <2>2
<1> HIDE DEF Good
<1>3. /\ d \in Seq(Good)
      /\ \A i \in Reserved(answer) : \E k \in Reserved(d) : d[k] = answer[i]
  BY <1>2, DistinctKeepsFamilies
<1> HIDE DEF d
<1>4. /\ cap_vetted(d, most) \in Seq(Good)
      /\ Len(cap_vetted(d, most)) <= most
      /\ \A i \in Reserved(d) : \E k \in DOMAIN cap_vetted(d, most) : cap_vetted(d, most)[k] = d[i]
  BY <1>3, CapKeepsFamilies
<1>5. \A i \in Reserved(answer) : \E k \in DOMAIN cap_vetted(d, most) : cap_vetted(d, most)[k] = answer[i]
  BY <1>3, <1>4
<1> QED  BY <1>1, <1>4, <1>5 DEF Good

-----------------------------------------------------------------------------
(* TargetDial.                                                              *)

DialRecord == [at : {"none", "refused", "dial", "handshake", "ok", "failed"}, kind : {"tcp", "tls"},
               answer : Seq(Address), vetted : Seq({a \in Address : LeadsOut(a)}), tried : Nat]

\* The addresses tried so far did not take a connection, but for the one
\* that did.
DialInv ==
    /\ dial \in DialRecord
    /\ Len(dial.vetted) <= Shortlist
    /\ dial.tried \in 0..Len(dial.vetted)
    /\ dial.at \in {"none", "refused"} => dial.tried = 0
    /\ dial.at = "handshake" => dial.kind = "tls" /\ dial.tried > 0 /\ dial.vetted[dial.tried] \in reachable
    /\ dial.at = "dial" => \A k \in 1..dial.tried : dial.vetted[k] \notin reachable
    /\ dial.at = "failed" => \/ dial.tried = Len(dial.vetted) /\ \A k \in 1..dial.tried : dial.vetted[k] \notin reachable
                             \/ dial.kind = "tls" /\ dial.tried > 0 /\ dial.vetted[dial.tried] \in reachable
    /\ dial.at \in {"dial", "handshake", "failed"} =>
          \A i \in Reserved(dial.answer) : \E k \in DOMAIN dial.vetted : dial.vetted[k] = dial.answer[i]

\* A step to another field value keeps the record.
LEMMA DialMoves ==
  ASSUME dial \in DialRecord,
         NEW at \in {"none", "refused", "dial", "handshake", "ok", "failed"}, NEW tried \in Nat,
         dial' = [dial EXCEPT !.at = at, !.tried = tried]
  PROVE  /\ dial' \in DialRecord /\ dial'.at = at /\ dial'.tried = tried
         /\ dial'.kind = dial.kind /\ dial'.vetted = dial.vetted /\ dial'.answer = dial.answer
BY DEF DialRecord

\* The first state and every step.
LEMMA InitDial == DialInit => DialInv
BY DialAssumption DEF DialInit, NotDialling, DialInv, DialRecord

LEMMA StepDial == DialInv /\ [DialNext]_dialVars => DialInv'
<1> SUFFICES ASSUME DialInv, [DialNext]_dialVars PROVE DialInv'
  OBVIOUS
<1> DEFINE Good == {a \in Address : LeadsOut(a)}
<1>1. CASE UNCHANGED dialVars
  BY <1>1 DEF dialVars, DialInv
<1>2. CASE Vetted
  <2>1. PICK answer \in Lookups, kind \in {"tcp", "tls"} :
          dial' = [at |-> IF vet_resolved_addrs(answer, FALSE, Shortlist) = << >> THEN "refused" ELSE "dial",
                   kind |-> kind, answer |-> answer, vetted |-> vet_resolved_addrs(answer, FALSE, Shortlist), tried |-> 0]
    BY <1>2 DEF Vetted
  <2> DEFINE vetted == vet_resolved_addrs(answer, FALSE, Shortlist)
  <2>2. /\ vetted \in Seq(Good) /\ Len(vetted) <= Shortlist
        /\ vetted # << >> => \A i \in Reserved(answer) : \E k \in DOMAIN vetted : vetted[k] = answer[i]
    <3>1. CASE vetted = << >>
      <4>1. << >> \in Seq(Good) /\ Len(<< >>) = 0
        OBVIOUS
      <4>2. 0 <= Shortlist
        BY DialAssumption
      <4> QED  BY <3>1, <4>1, <4>2
    <3>2. CASE vetted # << >>
      <4>1. answer \in Seq(Address) /\ Shortlist \in Nat /\ Shortlist >= 2
        BY DialAssumption
      <4> QED  BY <3>2, <4>1, VettedList
    <3> QED  BY <3>1, <3>2
  <2>5. answer \in Seq(Address)
    BY DialAssumption
  <2> HIDE DEF vetted
  <2>3. dial' = [at |-> IF vetted = << >> THEN "refused" ELSE "dial",
                 kind |-> kind, answer |-> answer, vetted |-> vetted, tried |-> 0]
    BY <2>1 DEF vetted
  <2>4. 0 \in 0..Len(vetted)
    BY <2>2
  <2> QED  BY <2>2, <2>3, <2>4, <2>5 DEF DialInv, DialRecord
<1>0. dial \in DialRecord /\ dial.tried \in Nat /\ Len(dial.vetted) \in Nat
  BY DEF DialInv, DialRecord
<1>3. CASE Dials
  <2>1. dial.at = "dial" /\ reachable' = reachable
    BY <1>3 DEF Dials
  <2> DEFINE to(at, tried) == [dial EXCEPT !.at = at, !.tried = tried]
             next == dial.tried + 1
  <2>0. next \in Nat
    BY <1>0
  <2>2. CASE dial.tried = Len(dial.vetted)
    <3>1. dial' = to("failed", dial.tried)
      BY <1>0, <1>3, <2>2 DEF Dials, DialRecord
    <3>2. /\ dial' \in DialRecord /\ dial'.at = "failed" /\ dial'.tried = dial.tried
          /\ dial'.kind = dial.kind /\ dial'.vetted = dial.vetted /\ dial'.answer = dial.answer
      BY <1>0, <2>0, <3>1, DialMoves
    <3> QED  BY <2>1, <2>2, <3>2 DEF DialInv
  <2>3. CASE dial.tried # Len(dial.vetted) /\ dial.vetted[next] \in reachable
    <3> DEFINE at == IF dial.kind = "tcp" THEN "ok" ELSE "handshake"
    <3>0. at \in {"ok", "handshake"}
      OBVIOUS
    <3>1. dial' = to(at, next)
      BY <1>0, <1>3, <2>3 DEF Dials, DialRecord
    <3> HIDE DEF at
    <3>2. /\ dial' \in DialRecord /\ dial'.at = at /\ dial'.tried = next
          /\ dial'.kind = dial.kind /\ dial'.vetted = dial.vetted /\ dial'.answer = dial.answer
      BY <1>0, <2>0, <3>0, <3>1, DialMoves
    <3>3. next \in 0..Len(dial.vetted) /\ next > 0 /\ dial.kind \in {"tcp", "tls"}
      BY <1>0, <2>3 DEF DialInv, DialRecord
    <3> QED  BY <2>1, <2>3, <3>2, <3>3 DEF DialInv, at
  <2>4. CASE dial.tried # Len(dial.vetted) /\ dial.vetted[next] \notin reachable
    <3>1. dial' = to("dial", next)
      BY <1>0, <1>3, <2>1, <2>4 DEF Dials, DialRecord
    <3>2. /\ dial' \in DialRecord /\ dial'.at = "dial" /\ dial'.tried = next
          /\ dial'.kind = dial.kind /\ dial'.vetted = dial.vetted /\ dial'.answer = dial.answer
      BY <1>0, <2>0, <3>1, DialMoves
    <3>3. next \in 0..Len(dial.vetted) /\ \A k \in 1..next : k \in 1..dial.tried \/ k = next
      BY <1>0, <2>4 DEF DialInv
    <3> QED  BY <2>1, <2>4, <3>2, <3>3 DEF DialInv
  <2> QED  BY <2>2, <2>3, <2>4
<1>4. CASE Handshakes
  <2>1. PICK result \in {"ok", "failed"} : dial' = [dial EXCEPT !.at = result]
    BY <1>4 DEF Handshakes
  <2>2. dial.at = "handshake" /\ reachable' = reachable
    BY <1>4 DEF Handshakes
  <2>3. dial' = [dial EXCEPT !.at = result, !.tried = dial.tried]
    BY <1>0, <2>1 DEF DialRecord
  <2>4. /\ dial' \in DialRecord /\ dial'.at = result /\ dial'.tried = dial.tried
        /\ dial'.kind = dial.kind /\ dial'.vetted = dial.vetted /\ dial'.answer = dial.answer
    BY <1>0, <2>3, DialMoves
  <2>5. /\ dial.tried \in 0..Len(dial.vetted)
        /\ dial.kind = "tls" /\ dial.tried > 0 /\ dial.vetted[dial.tried] \in reachable /\ Len(dial.vetted) <= Shortlist
    BY <2>2 DEF DialInv
  <2>6. /\ dial'.vetted[dial'.tried] \in reachable'
        /\ dial'.kind = "tls" /\ dial'.tried > 0 /\ dial'.tried \in 0..Len(dial'.vetted)
    BY <2>2, <2>4, <2>5
  <2> QED  BY <2>1, <2>2, <2>4, <2>5, <2>6 DEF DialInv
<1> QED  BY <1>1, <1>2, <1>3, <1>4 DEF DialNext

\* A list that was tried out has tried the first address of each family.
LEMMA TriedOut == DialInv => FirstOfEachFamilyIsDialled
<1> SUFFICES ASSUME DialInv PROVE FirstOfEachFamilyIsDialled
  OBVIOUS
<1>1. dial.tried <= Shortlist
  BY DialAssumption DEF DialInv
<1>2. \A i \in 1..dial.tried : LeadsOut(dial.vetted[i])
  BY DEF DialInv, DialRecord
<1>3. ASSUME dial.at = "failed", dial.tried = Len(dial.vetted),
             dial.kind = "tcp" \/ dial.vetted[dial.tried] \notin reachable,
             NEW i \in DOMAIN dial.answer, \A j \in 1..i - 1 : is_ipv4(dial.answer[j]) # is_ipv4(dial.answer[i])
      PROVE  dial.answer[i] \notin reachable
  <2>1. i \in Reserved(dial.answer)
    BY <1>3 DEF Reserved
  <2>2. PICK k \in DOMAIN dial.vetted : dial.vetted[k] = dial.answer[i]
    BY <1>3, <2>1 DEF DialInv
  <2>3. k \in 1..dial.tried
    BY <1>3, <2>2 DEF DialInv
  <2>4. \A m \in 1..dial.tried : dial.vetted[m] \notin reachable
    BY <1>3 DEF DialInv
  <2> QED  BY <2>2, <2>3, <2>4
<1> QED  BY <1>1, <1>2, <1>3 DEF FirstOfEachFamilyIsDialled

\* cap_vetted in the probe: whatever a host's lookup answers, a check that
\* gives up has dialled the first address of each family, all of them vetted.
THEOREM DialsCoverFamilies == DialSpec => []FirstOfEachFamilyIsDialled
<1>1. DialInit => DialInv
  BY InitDial
<1>2. DialInv /\ [DialNext]_dialVars => DialInv'
  BY StepDial
<1>3. DialInv => FirstOfEachFamilyIsDialled
  BY TriedOut
<1> QED  BY <1>1, <1>2, <1>3, PTL DEF DialSpec

-----------------------------------------------------------------------------
(* The fetcher.                                                             *)

\* What a download may hold.
Failures == {"none", "network", "permanent", "server", "client", "refused", "too large"}
Downloads == [at : {"hop", "pinned", "done"}, url : FetchUrls, current : FetchUrls, family : Families,
              retries : Nat, headers : BOOLEAN, hop : Nat, attempt : Nat, pinned : Address \cup {NoAddress},
              saved : Seq(Address), answered : Seq(Address), failure : Failures, agreed : BOOLEAN]

\* What its source was saved with stays with a download.
Keeps(f, g) ==
    /\ g.url = f.url /\ g.family = f.family /\ g.retries = f.retries /\ g.headers = f.headers
    /\ g.saved = f.saved /\ g.agreed = f.agreed

\* The requests so far are those of the finished tries and the hops of this one.
Budget(f) == f.attempt * (MaxRedirects + 1)

\* A download: what it follows was vetted, and its source agreed to.
FetchOK(f) ==
    /\ f \in Downloads /\ f.attempt <= RetryCeiling /\ f.hop <= MaxRedirects + 1
    /\ validate_url(f.url)
    /\ f.at # "done" /\ f.hop = 0 => f.current = f.url
    /\ f.at = "pinned" => f.hop <= MaxRedirects /\ f.pinned \in Address /\ family_matches(f.pinned, f.family)
                          /\ (fetchAllow \/ LeadsOut(f.pinned))
    /\ f.agreed => fetchAllow \/ vet_host(f.saved, FALSE, f.family) # NoAddress
\* What the outside has seen of it.
SeenOK(f, s) ==
    /\ s.requests \in Nat /\ s.oversize \in Nat
    /\ f.at # "done" => s.requests <= Budget(f) + f.hop /\ s.oversize = 0
    /\ f.at = "done" => s.requests <= Budget(f) + MaxRedirects + 1 /\ s.oversize <= 1
    /\ s.given \subseteq {<<f.url.scheme, f.url.host, f.url.port>>}
    /\ f.at = "done" /\ f.hop = 0 /\ f.attempt = 0 /\ s.requests = 0 /\ f.answered = f.saved /\ f.agreed => fetchAllow

\* The inductive invariant of the fetcher.
FetchInv ==
    /\ liveAllow \in BOOLEAN /\ fetchAllow \in BOOLEAN
    /\ seen \in [given : SUBSET {<<u.scheme, u.host, u.port>> : u \in FetchUrls}, dialled : SUBSET [addr : Address, family : Families, allow : BOOLEAN],
                 requests : Nat, oversize : Nat]
    /\ DialsAreVetted
    /\ \/ fetch = NotFetching /\ seen = [Unseen EXCEPT !.dialled = seen.dialled]
       \/ FetchOK(fetch) /\ SeenOK(fetch, seen)

\* A download that keeps its source stays in order.
LEMMA StillOK ==
  ASSUME NEW f, FetchOK(f), NEW g \in Downloads, Keeps(f, g), g.attempt <= RetryCeiling, g.hop <= MaxRedirects + 1,
         g.at # "done" /\ g.hop = 0 => g.current = f.url,
         g.at = "pinned" => g.hop <= MaxRedirects /\ g.pinned \in Address /\ family_matches(g.pinned, f.family)
                            /\ (fetchAllow \/ LeadsOut(g.pinned))
  PROVE  FetchOK(g)
<1>1. g.url = f.url /\ g.family = f.family /\ g.saved = f.saved /\ g.agreed = f.agreed
  BY DEF Keeps
<1>2. g.agreed => fetchAllow \/ vet_host(g.saved, FALSE, g.family) # NoAddress
  BY <1>1 DEF FetchOK
<1> QED  BY <1>1, <1>2 DEF FetchOK

\* A failed try is tried again from the start or ends (is_recoverable).
LEMMA AgainOK ==
  ASSUME NEW f, FetchOK(f), NEW failure \in Failures
  PROVE  /\ FetchOK(Again(f, failure)) /\ Keeps(f, Again(f, failure))
         /\ \/ /\ is_recoverable(failure) /\ Again(f, failure).at = "hop" /\ Again(f, failure).hop = 0
               /\ Again(f, failure).attempt = f.attempt + 1
            \/ /\ Again(f, failure).at = "done" /\ Again(f, failure).attempt = f.attempt
               /\ Again(f, failure).hop = f.hop /\ Again(f, failure).answered = f.answered
<1>0. f \in Downloads /\ f.attempt \in Nat /\ f.retries \in Nat /\ RetryCeiling \in Nat /\ MaxRedirects \in Nat
  BY FetchAssumption DEF FetchOK, Downloads
<1>1. CASE f.attempt < RetriesApplied(f.retries) /\ is_recoverable(failure)
  <2> DEFINE g == [f EXCEPT !.at = "hop", !.current = f.url, !.hop = 0, !.attempt = f.attempt + 1]
  <2>1. Again(f, failure) = g
    BY <1>0, <1>1 DEF Again, Downloads
  <2>2. g.at = "hop" /\ g.current = f.url /\ g.hop = 0 /\ g.attempt = f.attempt + 1 /\ g.pinned = f.pinned
    BY <1>0 DEF Downloads
  <2>2a. Keeps(f, g)
    BY <1>0 DEF Downloads, Keeps
  <2>2b. f.url \in FetchUrls /\ f.attempt + 1 \in Nat /\ 0 \in Nat
    BY <1>0 DEF Downloads
  <2>2c. g \in Downloads
    BY <1>0, <2>2b DEF Downloads
  <2>3. f.attempt + 1 <= RetryCeiling
    BY <1>0, <1>1 DEF RetriesApplied
  <2> HIDE DEF g
  <2>4. FetchOK(g)
    BY <1>0, <2>2, <2>2a, <2>2c, <2>3, StillOK
  <2> QED  BY <1>1, <2>1, <2>2, <2>2a, <2>4
<1>2. CASE ~(f.attempt < RetriesApplied(f.retries) /\ is_recoverable(failure))
  <2> DEFINE g == [f EXCEPT !.at = "done", !.failure = failure]
  <2>1. Again(f, failure) = g
    BY <1>2 DEF Again
  <2>2. /\ g \in Downloads /\ g.at = "done" /\ g.hop = f.hop /\ g.attempt = f.attempt
        /\ Keeps(f, g) /\ g.answered = f.answered
    BY <1>0 DEF Downloads, Keeps
  <2> HIDE DEF g
  <2>4. FetchOK(g)
    BY <1>0, <2>2, StillOK DEF FetchOK
  <2> QED  BY <2>1, <2>2, <2>4
<1> QED  BY <1>1, <1>2

\* One more try pays for the hops of the last one.
LEMMA NextBudget ==
  ASSUME NEW n \in Nat
  PROVE  (n + 1) * (MaxRedirects + 1) = n * (MaxRedirects + 1) + MaxRedirects + 1
BY FetchAssumption

\* At first there is no download.
LEMMA InitFetch == FetchInit => FetchInv
BY DEF FetchInit, FetchInv, Unseen, DialsAreVetted

\* The form saves only what the fetcher's first lookup would let through.
LEMMA SavedFetch ==
  ASSUME FetchInv, SourceSaved
  PROVE  FetchInv'
<1> DEFINE Saves(url, family, retries, headers, answer) ==
          /\ vet_url(url, answer, liveAllow, family)
          /\ fetch' = [at |-> "hop", url |-> url, current |-> url, family |-> family, retries |-> retries,
                       headers |-> headers, hop |-> 0, attempt |-> 0, pinned |-> NoAddress,
                       saved |-> answer, answered |-> answer, failure |-> "none", agreed |-> liveAllow = fetchAllow]
<1>0. fetch = NotFetching /\ UNCHANGED <<liveAllow, fetchAllow, seen>>
  BY DEF SourceSaved
<1>1. seen = [Unseen EXCEPT !.dialled = seen.dialled]
  BY <1>0 DEF FetchInv, FetchOK, Downloads, NotFetching
<1>2. PICK url \in FetchUrls, family \in Families, retries \in ConfiguredRetries, headers \in BOOLEAN :
          \E answer \in Answers[url.host] : Saves(url, family, retries, headers, answer)
  BY DEF SourceSaved
<1>2a. PICK answer \in Answers[url.host] :
          Saves(url, family, retries, headers, answer)
  BY <1>2
<1>3. answer \in Seq(Address) /\ retries \in Nat /\ RetryCeiling \in Nat /\ MaxRedirects \in Nat
  BY FetchAssumption
<1>4. fetch' \in Downloads
  BY <1>2a, <1>3 DEF Downloads, Failures
<1>5. validate_url(url) /\ (liveAllow \/ vet_host(answer, FALSE, family) # NoAddress)
  BY <1>2a DEF vet_url
<1>6. FetchOK(fetch)'
  <2>1. /\ fetch'.url = url /\ fetch'.current = url /\ fetch'.at = "hop" /\ fetch'.hop = 0 /\ fetch'.attempt = 0
        /\ fetch'.saved = answer /\ fetch'.family = family /\ fetch'.agreed = (liveAllow = fetchAllow)
    BY <1>2a
  <2>2. fetch'.agreed => fetchAllow \/ vet_host(fetch'.saved, FALSE, fetch'.family) # NoAddress
    BY <1>5, <2>1
  <2>3. FetchOK(fetch')
    <3>1. validate_url(fetch'.url) /\ fetch'.attempt <= RetryCeiling /\ fetch'.hop <= MaxRedirects + 1
      BY <1>3, <1>5, <2>1
    <3>2. fetch'.at # "pinned" /\ fetch'.current = fetch'.url
      BY <2>1
    <3> QED  BY <1>4, <2>2, <3>1, <3>2 DEF FetchOK
  <2> QED  BY <1>0, <2>3 DEF FetchOK
<1>7. SeenOK(fetch, seen)'
  <2>1. seen'.given = {} /\ seen'.requests = 0 /\ seen'.oversize = 0
    BY <1>0, <1>1 DEF Unseen
  <2>2. Budget(fetch)' = 0
    BY <1>2a, <1>3 DEF Budget
  <2> QED  BY <1>2a, <2>1, <2>2 DEF SeenOK
<1> QED  BY <1>0, <1>6, <1>7 DEF FetchInv, DialsAreVetted

\* A hop as far as the connection.
LEMMA HopFetch ==
  ASSUME FetchInv, fetch_once
  PROVE  FetchInv'
<1>0. /\ fetch.at = "hop" /\ UNCHANGED <<liveAllow, fetchAllow, seen>> /\ FetchOK(fetch) /\ SeenOK(fetch, seen)
      /\ fetch \in Downloads /\ liveAllow \in BOOLEAN /\ fetchAllow \in BOOLEAN
  <2>1. fetch.at = "hop" /\ UNCHANGED <<liveAllow, fetchAllow, seen>>
    BY DEF fetch_once, Fails
  <2>2. fetch # NotFetching
    BY <2>1 DEF NotFetching
  <2>3. FetchOK(fetch) /\ SeenOK(fetch, seen)
    BY <2>2 DEF FetchInv
  <2> QED  BY <2>1, <2>3 DEF FetchInv, FetchOK
<1>1. PICK answer \in Answers[fetch.current.host] :
          LET f == [fetch EXCEPT !.answered = answer]
              ip == vet_host(answer, fetchAllow, fetch.family)
          IN  IF fetch.hop > MaxRedirects \/ fetch.current.long THEN Fails(f, "client")
              ELSE IF fetch.current.scheme \notin {"http", "https"} THEN Fails(f, "permanent")
              ELSE IF ip = NoAddress THEN Fails(f, "refused")
              ELSE fetch' = [f EXCEPT !.at = "pinned", !.pinned = ip] /\ UNCHANGED <<liveAllow, fetchAllow>>
  BY DEF fetch_once
<1>2. answer \in Seq(Address) /\ MaxRedirects \in Nat /\ RetryCeiling \in Nat
  BY <1>0, FetchAssumption DEF Downloads
<1> DEFINE f == [fetch EXCEPT !.answered = answer]
           ip == vet_host(answer, fetchAllow, fetch.family)
<1>3. f \in Downloads /\ Keeps(fetch, f) /\ f.at = "hop" /\ f.hop = fetch.hop /\ f.attempt = fetch.attempt
      /\ f.current = fetch.current /\ f.answered = answer
  BY <1>0, <1>2 DEF Downloads, Keeps
<1> HIDE DEF f
<1>4. FetchOK(f)
  BY <1>0, <1>3, StillOK DEF FetchOK
<1>5. /\ fetch.hop \in Nat /\ fetch.attempt \in Nat /\ fetch.hop <= MaxRedirects + 1 /\ Budget(fetch) \in Nat
      /\ seen.requests \in Nat /\ seen.requests <= Budget(fetch) + fetch.hop
  <2>1. fetch.hop \in Nat /\ fetch.attempt \in Nat
    BY <1>0 DEF Downloads
  <2> QED  BY <1>0, <1>2, <2>1 DEF FetchOK, SeenOK, Budget
<1>6. ASSUME NEW failure \in {"client", "permanent", "refused"}, Fails(f, failure),
             fetch.hop = 0 /\ fetch.attempt = 0 /\ answer = fetch.saved /\ fetch.agreed => fetchAllow
      PROVE  FetchInv'
  <2>1. fetch' = Again(f, failure) /\ ~is_recoverable(failure) /\ failure \in Failures
    BY <1>6 DEF Fails, is_recoverable, Failures
  <2>2. FetchOK(fetch') /\ Keeps(f, fetch') /\ fetch'.at = "done" /\ fetch'.hop = f.hop
        /\ fetch'.attempt = f.attempt /\ fetch'.answered = answer
    BY <1>3, <1>4, <2>1, AgainOK
  <2>3. FetchOK(fetch)'
    BY <1>0, <2>2 DEF FetchOK
  <2>4. Budget(fetch)' = Budget(fetch)
    BY <1>3, <2>2 DEF Budget
  <2>5. SeenOK(fetch, seen)'
    BY <1>0, <1>2, <1>3, <1>5, <1>6, <2>2, <2>4 DEF SeenOK, Keeps
  <2> QED  BY <1>0, <2>3, <2>5 DEF FetchInv, DialsAreVetted
<1>7. CASE fetch.hop > MaxRedirects \/ fetch.current.long
  <2>1. Fails(f, "client")
    BY <1>1, <1>7 DEF f
  <2>2. ~(fetch.hop = 0)
    <3>1. fetch.hop = 0 => fetch.current = fetch.url /\ ~fetch.url.long
      BY <1>0 DEF FetchOK, validate_url
    <3> QED  BY <1>2, <1>5, <1>7, <3>1
  <2> QED  BY <1>6, <2>1, <2>2
<1>8. CASE ~(fetch.hop > MaxRedirects \/ fetch.current.long) /\ fetch.current.scheme \notin {"http", "https"}
  <2>1. Fails(f, "permanent")
    BY <1>1, <1>8 DEF f
  <2>2. ~(fetch.hop = 0)
    BY <1>0, <1>8 DEF FetchOK, validate_url
  <2> QED  BY <1>6, <2>1, <2>2
<1>2a. CASE /\ ~(fetch.hop > MaxRedirects \/ fetch.current.long) /\ fetch.current.scheme \in {"http", "https"}
           /\ ip = NoAddress
  <2>1. Fails(f, "refused")
    BY <1>1, <1>2a DEF f
  <2>2. answer = fetch.saved /\ fetch.agreed => fetchAllow
    <3>1. CASE fetchAllow
      BY <3>1
    <3>2. CASE ~fetchAllow
      <4>1. fetchAllow = FALSE
        BY <1>0, <3>2
      <4>2. vet_host(answer, FALSE, fetch.family) = NoAddress
        BY <1>2a, <4>1
      <4> QED  BY <1>0, <3>2, <4>2 DEF FetchOK
    <3> QED  BY <3>1, <3>2
  <2> QED  BY <1>6, <2>1, <2>2
<1>10. CASE /\ ~(fetch.hop > MaxRedirects \/ fetch.current.long) /\ fetch.current.scheme \in {"http", "https"}
            /\ ip # NoAddress
  <2> DEFINE g == [f EXCEPT !.at = "pinned", !.pinned = ip]
  <2>1. fetch' = g
    BY <1>1, <1>10 DEF f
  <2>2. ip \in Address /\ family_matches(ip, fetch.family) /\ (fetchAllow \/ LeadsOut(ip))
    <3>1. fetch.family \in Families
      BY <1>0 DEF Downloads
    <3> QED  BY <1>0, <1>2, <1>10, <3>1, VettedHost
  <2> HIDE DEF ip
  <2>3. /\ g \in Downloads /\ Keeps(f, g) /\ g.at = "pinned" /\ g.hop = f.hop /\ g.attempt = f.attempt
        /\ g.current = f.current /\ g.pinned = ip
    BY <1>3, <2>2 DEF Downloads, Keeps
  <2> HIDE DEF g
  <2>4. FetchOK(g)
    <3>1. g.attempt <= RetryCeiling /\ g.hop <= MaxRedirects
      BY <1>0, <1>2, <1>3, <1>5, <1>10, <2>3 DEF FetchOK
    <3>2. f.url = fetch.url /\ f.family = fetch.family /\ (g.hop = 0 => g.current = f.url)
      BY <1>0, <1>3, <2>3 DEF FetchOK, Keeps
    <3>3. g.pinned \in Address /\ family_matches(g.pinned, f.family) /\ (fetchAllow \/ LeadsOut(g.pinned))
      BY <2>2, <2>3, <3>2
    <3>4. g.hop <= MaxRedirects + 1
      BY <1>2, <1>3, <1>5, <2>3
    <3> QED  BY <1>4, <2>3, <3>1, <3>2, <3>3, <3>4, StillOK
  <2>5. FetchOK(fetch)'
    BY <1>0, <2>1, <2>4 DEF FetchOK
  <2>6. SeenOK(fetch, seen)'
    <3>1. Budget(fetch)' = Budget(fetch)
      BY <1>3, <2>1, <2>3 DEF Budget
    <3> QED  BY <1>0, <1>3, <1>5, <2>1, <2>3, <3>1 DEF SeenOK, Keeps
  <2> QED  BY <1>0, <2>5, <2>6 DEF FetchInv, DialsAreVetted
<1> QED  BY <1>7, <1>8, <1>2a, <1>10


\* What the outside may have seen.
Histories == [given : SUBSET {<<u.scheme, u.host, u.port>> : u \in FetchUrls},
              dialled : SUBSET [addr : Address, family : Families, allow : BOOLEAN], requests : Nat, oversize : Nat]

\* What a request leaves behind.
LEMMA RequestSeen ==
  ASSUME FetchInv, fetch.at = "pinned", NEW oversize \in BOOLEAN, Requested(oversize)
  PROVE  /\ FetchOK(fetch) /\ fetch.attempt \in Nat /\ fetch.hop \in Nat /\ fetch.hop <= MaxRedirects
         /\ seen' \in Histories /\ DialsAreVetted'
         /\ seen'.requests \in Nat /\ seen'.requests <= Budget(fetch) + fetch.hop + 1 /\ Budget(fetch) \in Nat
         /\ seen'.requests # 0 /\ (seen'.oversize = 0 \/ seen'.oversize = 1) /\ (~oversize => seen'.oversize = 0)
         /\ seen'.given \subseteq {<<fetch.url.scheme, fetch.url.host, fetch.url.port>>}
<1>0. MaxRedirects \in Nat
  BY FetchAssumption
<1>1. FetchOK(fetch) /\ SeenOK(fetch, seen) /\ fetch \in Downloads /\ seen \in Histories
  <2>1. fetch # NotFetching
    BY DEF NotFetching
  <2> QED  BY <2>1 DEF FetchInv, FetchOK, Histories
<1>2. /\ fetch.attempt \in Nat /\ fetch.hop \in Nat /\ fetch.hop <= MaxRedirects /\ fetch.current \in FetchUrls
      /\ fetch.family \in Families /\ family_matches(fetch.pinned, fetch.family)
      /\ (fetchAllow \/ LeadsOut(fetch.pinned))
  BY <1>1 DEF FetchOK, Downloads
<1>3. fetch.pinned \in Address /\ fetchAllow \in BOOLEAN
  BY <1>1 DEF FetchOK, FetchInv
<1> DEFINE d == [addr |-> fetch.pinned, family |-> fetch.family, allow |-> fetchAllow]
           o == <<fetch.current.scheme, fetch.current.host, fetch.current.port>>
           given == IF fetch.headers /\ origin_of(fetch.current) = origin_of(fetch.url)
                    THEN seen.given \cup {o} ELSE seen.given
           over == IF oversize THEN seen.oversize + 1 ELSE seen.oversize
<1>4. seen' = [seen EXCEPT !.dialled = seen.dialled \cup {d}, !.requests = seen.requests + 1,
                           !.oversize = over, !.given = given]
  BY DEF Requested
<1>5. d \in [addr : Address, family : Families, allow : BOOLEAN]
  BY <1>2, <1>3
<1>6. o \in {<<u.scheme, u.host, u.port>> : u \in FetchUrls}
  BY <1>2
<1>7. given \subseteq {<<u.scheme, u.host, u.port>> : u \in FetchUrls}
  BY <1>1, <1>6 DEF Histories
<1>8. given \subseteq {<<fetch.url.scheme, fetch.url.host, fetch.url.port>>}
  BY <1>1 DEF SeenOK, origin_of
<1>9. family_matches(d.addr, d.family) /\ (d.allow \/ LeadsOut(d.addr))
  BY <1>2
<1>9a. over \in Nat /\ (seen.oversize = 0 => (over = 0 \/ over = 1) /\ (~oversize => over = 0)) /\ seen.requests + 1 \in Nat
  BY <1>1 DEF Histories
<1> HIDE DEF d, o, given, over
<1>10. /\ seen'.dialled = seen.dialled \cup {d} /\ seen'.requests = seen.requests + 1 /\ seen'.given = given
       /\ seen'.oversize = over
  BY <1>1, <1>4 DEF Histories
<1>11. seen' \in Histories
  BY <1>1, <1>4, <1>5, <1>7, <1>9a DEF Histories
<1>12. DialsAreVetted'
  BY <1>9, <1>10 DEF FetchInv, DialsAreVetted
<1>13. Budget(fetch) \in Nat
  BY <1>0, <1>2 DEF Budget
<1>14. seen.requests \in Nat /\ seen.requests <= Budget(fetch) + fetch.hop /\ seen.oversize = 0
  BY <1>1 DEF SeenOK
<1> QED  BY <1>1, <1>2, <1>8, <1>9a, <1>10, <1>11, <1>12, <1>13, <1>14

\* A redirect leads to the next hop, without the headers of another origin.
LEMMA RedirectedFetch ==
  ASSUME FetchInv, Redirected
  PROVE  FetchInv'
<1>0. fetch.at = "pinned" /\ Requested(FALSE) /\ UNCHANGED <<liveAllow, fetchAllow>> /\ MaxRedirects \in Nat
  BY FetchAssumption DEF Redirected
<1>1. /\ FetchOK(fetch) /\ fetch.attempt \in Nat /\ fetch.hop \in Nat /\ fetch.hop <= MaxRedirects
      /\ seen' \in Histories /\ DialsAreVetted'
      /\ seen'.requests \in Nat /\ seen'.requests <= Budget(fetch) + fetch.hop + 1 /\ Budget(fetch) \in Nat
      /\ seen'.requests # 0 /\ seen'.oversize = 0
      /\ seen'.given \subseteq {<<fetch.url.scheme, fetch.url.host, fetch.url.port>>}
  BY <1>0, RequestSeen
<1>2. PICK to \in FetchUrls : fetch' = [fetch EXCEPT !.at = "hop", !.current = to, !.hop = fetch.hop + 1]
  BY DEF Redirected
<1>3. fetch \in Downloads /\ fetch.attempt <= RetryCeiling
  BY <1>1 DEF FetchOK
<1>4. /\ fetch'.at = "hop" /\ fetch'.current = to /\ fetch'.hop = fetch.hop + 1 /\ fetch'.attempt = fetch.attempt
      /\ fetch'.url = fetch.url
  BY <1>2, <1>3 DEF Downloads
<1>5. Keeps(fetch, fetch')
  BY <1>2, <1>3 DEF Downloads, Keeps
<1>6. fetch' \in Downloads
  <2>1. fetch.hop + 1 \in Nat
    BY <1>1
  <2> QED  BY <1>2, <1>3, <2>1 DEF Downloads
<1>7. FetchOK(fetch')
  <2>1. fetch'.hop # 0 /\ fetch'.hop <= MaxRedirects + 1
    BY <1>0, <1>1, <1>4
  <2> QED  BY <1>1, <1>3, <1>4, <1>5, <1>6, <2>1, StillOK
<1>8. FetchOK(fetch)'
  BY <1>0, <1>7 DEF FetchOK
<1>9. SeenOK(fetch, seen)'
  <2>1. Budget(fetch)' = Budget(fetch)
    BY <1>4 DEF Budget
  <2> QED  BY <1>1, <1>4, <2>1 DEF SeenOK
<1> QED  BY <1>0, <1>1, <1>8, <1>9 DEF FetchInv, Histories

\* A failed request ends the try.
LEMMA FailedFetch ==
  ASSUME FetchInv, RequestFailed
  PROVE  FetchInv'
<1>0. fetch.at = "pinned" /\ UNCHANGED <<liveAllow, fetchAllow>> /\ MaxRedirects \in Nat
  BY FetchAssumption DEF RequestFailed, Fails
<1>a. PICK failure \in Failures \ {"none", "permanent", "refused"} : Requested(failure = "too large") /\ Fails(fetch, failure)
  BY Zenon DEF RequestFailed, Failures
<1> DEFINE big == failure = "too large"
<1>b. big \in BOOLEAN /\ Requested(big)
  BY <1>a
<1>2. fetch' = Again(fetch, failure) /\ failure \in Failures /\ (is_recoverable(failure) => ~big)
  BY <1>a, Zenon DEF Fails, is_recoverable
<1> HIDE DEF big
<1>1. /\ FetchOK(fetch) /\ fetch.attempt \in Nat /\ fetch.hop \in Nat /\ fetch.hop <= MaxRedirects
      /\ seen' \in Histories /\ DialsAreVetted'
      /\ seen'.requests \in Nat /\ seen'.requests <= Budget(fetch) + fetch.hop + 1 /\ Budget(fetch) \in Nat
      /\ seen'.requests # 0 /\ (seen'.oversize = 0 \/ seen'.oversize = 1) /\ (~big => seen'.oversize = 0)
      /\ seen'.given \subseteq {<<fetch.url.scheme, fetch.url.host, fetch.url.port>>}
  BY <1>0, <1>b, RequestSeen
<1>3. /\ FetchOK(fetch') /\ Keeps(fetch, fetch')
      /\ \/ /\ is_recoverable(failure) /\ fetch'.at = "hop" /\ fetch'.hop = 0
            /\ fetch'.attempt = fetch.attempt + 1
         \/ /\ fetch'.at = "done" /\ fetch'.attempt = fetch.attempt
  BY <1>1, <1>2, AgainOK
<1>8. FetchOK(fetch)'
  BY <1>0, <1>3 DEF FetchOK
<1>9. SeenOK(fetch, seen)'
  <2>1. fetch'.url = fetch.url
    BY <1>3 DEF Keeps
  <2>2. Budget(fetch)' = fetch'.attempt * (MaxRedirects + 1) /\ Budget(fetch) = fetch.attempt * (MaxRedirects + 1)
    BY <1>0 DEF Budget
  <2>3. CASE fetch'.at = "hop"
    <3>1. Budget(fetch)' = Budget(fetch) + MaxRedirects + 1
      BY <1>1, <1>3, <2>2, <2>3, NextBudget
    <3>2. seen'.oversize = 0
      BY <1>1, <1>2, <1>3, <2>3
    <3>3. fetch'.hop = 0 /\ seen'.requests <= Budget(fetch)' + 0
      BY <1>0, <1>1, <1>3, <2>3, <3>1
    <3> QED  BY <1>1, <2>1, <2>3, <3>2, <3>3 DEF SeenOK
  <2>4. CASE fetch'.at = "done"
    <3>1. Budget(fetch)' = Budget(fetch)
      BY <1>1, <1>3, <2>2, <2>4
    <3>2. seen'.requests <= Budget(fetch)' + MaxRedirects + 1
      BY <1>0, <1>1, <3>1
    <3>3. seen'.oversize \in Nat /\ seen'.oversize <= 1
      BY <1>1
    <3> QED  BY <1>1, <2>1, <2>4, <3>2, <3>3 DEF SeenOK
  <2> QED  BY <1>3, <2>3, <2>4
<1> QED  BY <1>0, <1>1, <1>8, <1>9 DEF FetchInv, Histories

\* A body ends the download.
LEMMA DownloadedFetch ==
  ASSUME FetchInv, Downloaded
  PROVE  FetchInv'
<1>0. fetch.at = "pinned" /\ Requested(FALSE) /\ UNCHANGED <<liveAllow, fetchAllow>> /\ MaxRedirects \in Nat
  BY FetchAssumption DEF Downloaded
<1>1. /\ FetchOK(fetch) /\ fetch.attempt \in Nat /\ fetch.hop \in Nat /\ fetch.hop <= MaxRedirects
      /\ seen' \in Histories /\ DialsAreVetted'
      /\ seen'.requests \in Nat /\ seen'.requests <= Budget(fetch) + fetch.hop + 1 /\ Budget(fetch) \in Nat
      /\ seen'.requests # 0 /\ seen'.oversize = 0
      /\ seen'.given \subseteq {<<fetch.url.scheme, fetch.url.host, fetch.url.port>>}
  BY <1>0, RequestSeen
<1>2. fetch' = [fetch EXCEPT !.at = "done", !.failure = "none"]
  BY DEF Downloaded
<1>3. fetch \in Downloads /\ fetch.attempt <= RetryCeiling
  BY <1>1 DEF FetchOK
<1>4. fetch'.at = "done" /\ fetch'.hop = fetch.hop /\ fetch'.attempt = fetch.attempt /\ fetch'.url = fetch.url
  BY <1>2, <1>3 DEF Downloads
<1>5. Keeps(fetch, fetch') /\ fetch' \in Downloads
  BY <1>2, <1>3 DEF Downloads, Keeps, Failures
<1>7. FetchOK(fetch')
  <2>1. fetch'.hop <= MaxRedirects + 1
    BY <1>0, <1>1, <1>4
  <2> QED  BY <1>1, <1>3, <1>4, <1>5, <2>1, StillOK
<1>8. FetchOK(fetch)'
  BY <1>0, <1>7 DEF FetchOK
<1>9. SeenOK(fetch, seen)'
  <2>1. Budget(fetch)' = Budget(fetch)
    BY <1>4 DEF Budget
  <2> QED  BY <1>0, <1>1, <1>4, <2>1 DEF SeenOK
<1> QED  BY <1>0, <1>1, <1>8, <1>9 DEF FetchInv, Histories

\* The switch is saved, or frozen anew at a start, between downloads.
LEMMA FetchIdle ==
  ASSUME FetchInv, SwitchSaved \/ Restarted
  PROVE  FetchInv'
<1>1. fetch = NotFetching /\ UNCHANGED <<fetch, seen>>
  BY DEF SwitchSaved, Restarted
<1>2. ~FetchOK(fetch)
  BY <1>1 DEF FetchOK, Downloads, NotFetching
<1>3. liveAllow' \in BOOLEAN /\ fetchAllow' \in BOOLEAN
  BY DEF FetchInv, SwitchSaved, Restarted
<1>4. fetch' = NotFetching /\ seen' = [Unseen EXCEPT !.dialled = seen'.dialled] /\ DialsAreVetted'
  BY <1>1, <1>2 DEF FetchInv, DialsAreVetted
<1> QED  BY <1>1, <1>3, <1>4 DEF FetchInv

\* Every step keeps the invariant.
LEMMA StepFetch == FetchInv /\ [FetchNext]_fetchVars => FetchInv'
<1> SUFFICES ASSUME FetchInv, [FetchNext]_fetchVars PROVE FetchInv'
  OBVIOUS
<1>1. CASE UNCHANGED fetchVars
  BY <1>1 DEF fetchVars, FetchInv, FetchOK, SeenOK, Budget, DialsAreVetted
<1>2. CASE SourceSaved
  BY <1>2, SavedFetch
<1>3. CASE SwitchSaved \/ Restarted
  BY <1>3, FetchIdle
<1>4. CASE fetch_once
  BY <1>4, HopFetch
<1>5. CASE Redirected
  BY <1>5, RedirectedFetch
<1>6. CASE RequestFailed
  BY <1>6, FailedFetch
<1>7. CASE Downloaded
  BY <1>7, DownloadedFetch
<1> QED  BY <1>1, <1>2, <1>3, <1>4, <1>5, <1>6, <1>7 DEF FetchNext

\* Arithmetic of the bound on the requests.
LEMMA Products ==
  ASSUME NEW n \in Nat, NEW m \in Nat, NEW k \in Nat, k <= n
  PROVE  /\ k * (m + 1) + m + 1 <= (n + 1) * (m + 1) /\ k * (m + 1) \in Nat
         /\ 0 <= (n + 1) * (m + 1)
<1>1. k * (m + 1) <= n * (m + 1)
  OBVIOUS
<1>2. (n + 1) * (m + 1) = n * (m + 1) + m + 1
  OBVIOUS
<1> QED  BY <1>1, <1>2

\* The invariant says what the runs check.
LEMMA FetchSafe == FetchInv => FetchTypeOK /\ DialsAreVetted /\ DownloadKeepsToItsSource
<1> SUFFICES ASSUME FetchInv PROVE FetchTypeOK /\ DialsAreVetted /\ DownloadKeepsToItsSource
  OBVIOUS
<1>0. MaxRedirects \in Nat /\ RetryCeiling \in Nat
  BY FetchAssumption
<1>1. CASE fetch = NotFetching /\ seen = [Unseen EXCEPT !.dialled = seen.dialled]
  <2>1. seen.requests = 0 /\ seen.oversize = 0 /\ fetch.at = "none"
    BY <1>1 DEF Unseen, NotFetching
  <2>2. FetchTypeOK /\ HeadersStayHome /\ SavedSourcesAreFetched
    BY <2>1 DEF FetchTypeOK, HeadersStayHome, SavedSourcesAreFetched
  <2>3. 0 <= (RetryCeiling + 1) * (MaxRedirects + 1)
    BY <1>0, Products
  <2> QED  BY <2>1, <2>2, <2>3 DEF FetchInv, DownloadKeepsToItsSource, DownloadIsBounded
<1>2. CASE FetchOK(fetch) /\ SeenOK(fetch, seen)
  <2>1. /\ fetch.at \in {"hop", "pinned", "done"} /\ fetch.hop \in Nat /\ fetch.hop <= MaxRedirects + 1
        /\ fetch.attempt \in Nat /\ fetch.attempt <= RetryCeiling
    BY <1>2 DEF FetchOK, Downloads
  <2>2. FetchTypeOK
    BY <1>0, <2>1 DEF FetchTypeOK
  <2>3. Budget(fetch) + MaxRedirects + 1 <= (RetryCeiling + 1) * (MaxRedirects + 1) /\ Budget(fetch) \in Nat
    BY <1>0, <2>1, Products DEF Budget
  <2>4. seen.requests \in Nat /\ seen.oversize \in Nat /\ seen.requests <= Budget(fetch) + MaxRedirects + 1
        /\ seen.oversize <= 1
    BY <1>0, <1>2, <2>1, <2>3 DEF SeenOK
  <2>5. DownloadIsBounded
    <3>1. (RetryCeiling + 1) * (MaxRedirects + 1) \in Nat
      BY <1>0
    <3> QED  BY <1>0, <2>3, <2>4, <3>1 DEF DownloadIsBounded
  <2> QED  BY <1>2, <2>2, <2>5 DEF FetchInv, DownloadKeepsToItsSource, HeadersStayHome, SavedSourcesAreFetched, SeenOK
<1> QED  BY <1>1, <1>2 DEF FetchInv

\* A download asks at most its tries times its hops, gives the headers of its
\* source to its own origin only, is saved only when its host was let out, and
\* dials vetted addresses of its family (fetch, fetch_once, vet_host).
THEOREM DownloadsKeepToTheirSource == FetchSpec => [](DownloadKeepsToItsSource /\ DialsAreVetted /\ FetchTypeOK)
<1>1. FetchInit => FetchInv
  BY InitFetch
<1>2. FetchInv /\ [FetchNext]_fetchVars => FetchInv'
  BY StepFetch
<1>3. FetchInv => DownloadKeepsToItsSource /\ DialsAreVetted /\ FetchTypeOK
  BY FetchSafe
<1> QED  BY <1>1, <1>2, <1>3, PTL DEF FetchSpec

-----------------------------------------------------------------------------
(* The batches of the engine.                                               *)

\* Values of the lane, the engine, the tasks and the journal.
TaskActive == {"first", "second", "ping", "counted"}
OpenAddress == {a \in Address : LeadsOut(a)}
Pins == UNION {[hosts -> OpenAddress] : hosts \in SUBSET DOMAIN HostAnswers}
Lanes == [at : {"none", "ping", "write", "tasks", "done", "failed"}, kind : {"none", "batch", "ladder"},
          rows : SUBSET BatchRows, pins : Pins, lanes : Nat, backoffs : Nat]
Engines == [up : BOOLEAN, deaths : Nat, loaded : UNION {[rows -> SUBSET Address] : rows \in SUBSET BatchRows}]
Retries == [wait : 0..BackoffMax, backoff : BackoffInitial..BackoffMax]
Tasks == [BatchRows -> [at : {"none", "waiting", "done"} \cup TaskActive, n : Nat]]
Says == {"nothing", "refused", "fault", "unwritable", "ok", "dead", "blip"}
Records == [BatchRows -> [count : Nat, says : Says, heard : BOOLEAN]]

CountedRows == {r \in BatchRows : task[r].at \in {"counted", "done"}}

\* What has been journaled of a row.
RowsOK ==
    \A r \in BatchRows :
       /\ record[r].count <= 1
       /\ record[r].says \in {"dead", "blip"} => record[r].heard
       /\ lane.at # "tasks" => task[r].at = "none"
       /\ lane.at = "none" => record[r].count = 0
       /\ lane.at \in {"ping", "write"} /\ r \in lane.rows => record[r].count = 0
       /\ lane.at = "done" /\ r \in lane.rows => record[r].count = 1
       /\ task[r].at \in TaskActive \cup {"waiting"} => record[r].count = 0
       /\ lane.at = "tasks" /\ task[r].at \in {"none", "done"} /\ r \in lane.rows => record[r].count = 1
\* Every row of the lane has its host pinned.
PinsOK == \A r \in lane.rows : HostOf[r] \in DOMAIN lane.pins
\* A batch backs off once, after its guard gave up.
BackoffOK ==
    /\ lane.backoffs <= 1
    /\ lane.backoffs # 0 => lane.at = "done" \/ (lane.at = "tasks" /\ guard.aborted)
\* The guard has counted no more failures than rows that ended.
CountOK ==
    /\ guard.consecutive <= Cardinality(BatchRows)
    /\ lane.at = "tasks" => guard.consecutive <= Cardinality(CountedRows)
    /\ Cardinality(Holding) <= Permits

\* The inductive invariant of the engine.
EngineInv ==
    /\ lane \in Lanes /\ engine \in Engines /\ retry \in Retries /\ task \in Tasks /\ record \in Records
    /\ guard \in [consecutive : Nat, aborted : BOOLEAN]
    /\ RowsOK /\ PinsOK /\ BackoffOK /\ CountOK /\ TunnelsAreVetted

\* What the assumptions say of the bounds.
LEMMA EngineConstants ==
  /\ BatchRows \subseteq Nat /\ IsFiniteSet(BatchRows) /\ Cardinality(BatchRows) \in Nat
  /\ Permits \in Nat /\ AbortThreshold \in Nat /\ BackoffInitial \in Nat /\ BackoffMax \in Nat
  /\ BackoffMax >= BackoffInitial /\ MostAddresses \in Nat /\ MostAddresses >= 2
BY EngineAssumption, FS_CardinalityType

\* Rows of a batch can be counted.
LEMMA SomeRows ==
  ASSUME NEW R \in SUBSET BatchRows
  PROVE  /\ IsFiniteSet(R) /\ Cardinality(R) \in Nat /\ Cardinality(R) <= Cardinality(BatchRows)
         /\ \A r \in BatchRows \ R : Cardinality(R \cup {r}) = Cardinality(R) + 1
         /\ \A Q \in SUBSET R : Cardinality(Q) <= Cardinality(R)
<1>1. IsFiniteSet(R) /\ Cardinality(R) \in Nat /\ Cardinality(R) <= Cardinality(BatchRows)
  BY EngineConstants, FS_Subset, FS_CardinalityType
<1>2. ASSUME NEW r \in BatchRows \ R
      PROVE  Cardinality(R \cup {r}) = Cardinality(R) + 1
  BY <1>1, FS_AddElement
<1>3. ASSUME NEW Q \in SUBSET R
      PROVE  Cardinality(Q) <= Cardinality(R)
  BY <1>1, FS_Subset
<1> QED  BY <1>1, <1>2, <1>3

\* The retry clock stays between its bounds (backoff_meow, meow_recovered).
LEMMA BackedOff ==
  ASSUME NEW r \in Retries
  PROVE  backoff_meow(r) \in Retries /\ meow_recovered \in Retries
BY EngineConstants DEF Retries, backoff_meow, meow_recovered

\* At first there is no lane and nothing is journaled.
LEMMA InitEngine == EngineInit => EngineInv
<1> SUFFICES ASSUME EngineInit PROVE EngineInv
  OBVIOUS
<1>1. << >> \in Pins /\ << >> \in UNION {[rows -> SUBSET Address] : rows \in SUBSET BatchRows}
  <2>1. << >> \in [{} -> OpenAddress] /\ << >> \in [{} -> SUBSET Address]
    OBVIOUS
  <2>2. {} \in SUBSET DOMAIN HostAnswers /\ {} \in SUBSET BatchRows
    OBVIOUS
  <2> QED  BY <2>1, <2>2 DEF Pins
<1>2. lane \in Lanes /\ engine \in Engines
  BY <1>1 DEF EngineInit, NoLane, Lanes, Engines
<1>3. retry \in Retries /\ guard \in [consecutive : Nat, aborted : BOOLEAN]
  BY EngineConstants DEF EngineInit, Retries, FreshGuard
<1>4. task \in Tasks /\ record \in Records
  BY DEF EngineInit, NoTasks, Task, NoRecord, Tasks, Records, Says
<1>5. RowsOK /\ PinsOK /\ BackoffOK /\ TunnelsAreVetted
  BY DEF EngineInit, NoLane, NoTasks, Task, NoRecord, RowsOK, PinsOK, BackoffOK, TunnelsAreVetted, TaskActive
<1>6. CountOK
  <2>1. Holding = {}
    BY DEF EngineInit, NoTasks, Task, Holding
  <2>2. Cardinality(Holding) = 0
    BY <2>1, FS_EmptySet
  <2> QED  BY <2>2, EngineConstants DEF CountOK, EngineInit, FreshGuard, NoLane
<1> QED  BY <1>2, <1>3, <1>4, <1>5, <1>6 DEF EngineInv

\* Steps that leave the tasks and the journal alone.
LEMMA CountKept ==
  ASSUME EngineInv, UNCHANGED task, guard'.consecutive \in Nat, guard'.consecutive <= guard.consecutive,
         lane'.at = "tasks" => lane.at = "tasks"
  PROVE  CountOK'
<1>1. Holding' = Holding /\ CountedRows' = CountedRows
  BY DEF Holding, CountedRows
<1>2. Holding \in SUBSET BatchRows /\ CountedRows \in SUBSET BatchRows
  BY DEF Holding, CountedRows
<1>3. Cardinality(Holding) \in Nat /\ Cardinality(CountedRows) \in Nat
  BY <1>2, SomeRows
<1>4. guard.consecutive \in Nat
  BY DEF EngineInv
<1> QED  BY <1>1, <1>3, <1>4, EngineConstants DEF EngineInv, CountOK

\* The engine process dies or is started again.
LEMMA EngineDiesStep == ASSUME EngineInv, EngineDies \/ EngineReturns PROVE EngineInv'
<1>1. UNCHANGED <<retry, lane, task, guard, record>>
  BY DEF EngineDies, EngineReturns
<1>2. engine' \in Engines /\ engine'.loaded = engine.loaded
  <2>0. engine \in Engines
    BY DEF EngineInv
  <2>1. CASE EngineDies
    <3>1. engine' = [engine EXCEPT !.up = FALSE, !.deaths = engine.deaths + 1] /\ engine.deaths + 1 \in Nat
      BY <2>0, <2>1 DEF EngineDies, Engines
    <3> QED  BY <2>0, <3>1 DEF Engines
  <2>2. CASE EngineReturns
    BY <2>0, <2>2 DEF EngineReturns, Engines
  <2> QED  BY <2>1, <2>2
<1>3. CountOK'
  BY <1>1, CountKept DEF EngineInv
<1> QED  BY <1>1, <1>2, <1>3 DEF EngineInv, RowsOK, PinsOK, BackoffOK, TunnelsAreVetted

\* The retry clock runs.
LEMMA SecondsPassStep == ASSUME EngineInv, SecondsPass PROVE EngineInv'
<1>1. UNCHANGED <<engine, lane, task, guard, record>>
  BY DEF SecondsPass
<1>2. retry' \in Retries
  <2>1. retry \in Retries /\ retry.wait > 0 /\ retry' = [retry EXCEPT !.wait = retry.wait - 1]
    BY DEF EngineInv, SecondsPass
  <2>2. retry.wait - 1 \in 0..BackoffMax
    BY <2>1, EngineConstants DEF Retries
  <2> QED  BY <2>1, <2>2 DEF Retries
<1>3. CountOK'
  BY <1>1, CountKept DEF EngineInv
<1> QED  BY <1>1, <1>2, <1>3 DEF EngineInv, RowsOK, PinsOK, BackoffOK, TunnelsAreVetted

\* One journal row for each of some rows, outside the tasks.
LEMMA Journaled ==
  ASSUME EngineInv, NEW rows \in SUBSET BatchRows, NEW says \in Says \ {"dead", "blip"}, Journals(rows, says)
  PROVE  /\ record' \in Records
         /\ \A r \in BatchRows : record'[r].says \in {"dead", "blip"} => record'[r].heard
         /\ \A r \in rows : record'[r].count = record[r].count + 1
         /\ \A r \in BatchRows \ rows : record'[r].count = record[r].count
<1>1. record \in Records
  BY DEF EngineInv
<1>2. record' = [r \in BatchRows |-> IF r \in rows THEN [record[r] EXCEPT !.count = record[r].count + 1, !.says = says] ELSE record[r]]
  BY DEF Journals
<1>3. ASSUME NEW r \in BatchRows
      PROVE  /\ record'[r] \in [count : Nat, says : Says, heard : BOOLEAN]
             /\ record'[r].says \in {"dead", "blip"} => record'[r].heard
             /\ record'[r].count = IF r \in rows THEN record[r].count + 1 ELSE record[r].count
  <2>1. record[r] \in [count : Nat, says : Says, heard : BOOLEAN] /\ (record[r].says \in {"dead", "blip"} => record[r].heard)
    BY <1>1 DEF Records, EngineInv, RowsOK
  <2>2. CASE r \in rows
    <3>1. record'[r] = [record[r] EXCEPT !.count = record[r].count + 1, !.says = says]
      BY <1>2, <2>2
    <3>2. record[r].count + 1 \in Nat
      BY <2>1
    <3> QED  BY <2>1, <2>2, <3>1, <3>2
  <2>3. CASE r \notin rows
    BY <1>2, <2>1, <2>3
  <2> QED  BY <2>2, <2>3
<1>4. record' \in Records
  BY <1>2, <1>3 DEF Records
<1> QED  BY <1>3, <1>4

\* A fault before the tasks start journals every row of the lane.
LEMMA LaneFaultsStep == ASSUME EngineInv, lane.at \in {"ping", "write"}, LaneFaults PROVE EngineInv'
<1>1. /\ UNCHANGED <<engine, task, guard>> /\ lane \in Lanes
      /\ lane' = [lane EXCEPT !.at = "done", !.backoffs = lane.backoffs + 1] /\ lane.backoffs = 0
  BY DEF LaneFaults, EngineInv, BackoffOK
<1>2. lane' \in Lanes /\ lane'.at = "done" /\ lane'.rows = lane.rows /\ lane'.pins = lane.pins /\ lane'.backoffs = 1
  <2>1. lane' = [lane EXCEPT !.at = "done", !.backoffs = 1]
    BY <1>1
  <2>2. lane \in Lanes /\ 1 \in Nat
    BY <1>1
  <2>3. lane'.at = "done" /\ lane'.rows = lane.rows /\ lane'.pins = lane.pins /\ lane'.backoffs = 1
    BY <2>1, <2>2 DEF Lanes
  <2>4. lane' \in Lanes
    BY <2>1, <2>2 DEF Lanes
  <2> QED  BY <2>3, <2>4
<1>3. lane.rows \in SUBSET BatchRows
  BY <1>1 DEF Lanes
<1>4. /\ record' \in Records
      /\ \A r \in BatchRows : record'[r].says \in {"dead", "blip"} => record'[r].heard
      /\ \A r \in lane.rows : record'[r].count = record[r].count + 1
      /\ \A r \in BatchRows \ lane.rows : record'[r].count = record[r].count
  BY <1>3, Journaled DEF LaneFaults, Says
<1>5. ASSUME NEW r \in BatchRows
      PROVE  /\ record'[r].count <= 1 /\ (r \in lane.rows => record'[r].count = 1) /\ task[r].at = "none"
  BY <1>4 DEF EngineInv, RowsOK
<1>6. RowsOK'
  BY <1>1, <1>2, <1>4, <1>5 DEF RowsOK, TaskActive
<1>7. CountOK'
  BY <1>1, <1>2, CountKept DEF EngineInv
<1>8. retry' \in Retries
  BY BackedOff DEF LaneFaults, EngineInv
<1> QED  BY <1>1, <1>2, <1>4, <1>6, <1>7, <1>8 DEF EngineInv, PinsOK, BackoffOK, TunnelsAreVetted

\* A lane that only moves on before its tasks start.
LEMMA LaneMoves ==
  ASSUME EngineInv, lane.at \in {"ping", "write"}, NEW at \in {"write", "failed"}, lane' = [lane EXCEPT !.at = at],
         UNCHANGED <<engine, retry, task, guard, record>>
  PROVE  EngineInv'
<1>1. lane' \in Lanes /\ lane'.at = at /\ lane'.rows = lane.rows /\ lane'.pins = lane.pins /\ lane'.backoffs = lane.backoffs
  BY DEF EngineInv, Lanes
<1>2. CountOK'
  BY <1>1, CountKept DEF EngineInv
<1>3. RowsOK'
  BY <1>1 DEF EngineInv, RowsOK
<1> QED  BY <1>1, <1>2, <1>3 DEF EngineInv, PinsOK, BackoffOK, TunnelsAreVetted

\* A lane ends when its tasks have.
LEMMA LaneEndsStep == ASSUME EngineInv, LaneEnds PROVE EngineInv'
<1>1. /\ lane' = [NoLane EXCEPT !.lanes = lane.lanes] /\ task' = NoTasks /\ record' = NoRecord
      /\ UNCHANGED <<engine, retry, guard>> /\ lane \in Lanes
  BY DEF LaneEnds, EngineInv
<1>2. << >> \in Pins
  <2>1. << >> \in [{} -> OpenAddress] /\ {} \in SUBSET DOMAIN HostAnswers
    OBVIOUS
  <2> QED  BY <2>1 DEF Pins
<1>3. lane' \in Lanes /\ lane'.at = "none" /\ lane'.rows = {} /\ lane'.backoffs = 0
  BY <1>1, <1>2 DEF NoLane, Lanes
<1>4. task' \in Tasks /\ record' \in Records
  BY <1>1 DEF NoTasks, Task, NoRecord, Tasks, Records, Says
<1>5. RowsOK' /\ PinsOK' /\ BackoffOK' /\ TunnelsAreVetted'
  BY <1>1, <1>3 DEF NoTasks, Task, NoRecord, RowsOK, PinsOK, BackoffOK, TunnelsAreVetted, TaskActive
<1>6. CountOK'
  <2>1. Holding' = {}
    BY <1>1 DEF NoTasks, Task, Holding
  <2>2. Cardinality(Holding)' = 0
    BY <2>1, FS_EmptySet
  <2> QED  BY <1>1, <1>3, <2>2, EngineConstants DEF CountOK, EngineInv
<1> QED  BY <1>1, <1>3, <1>4, <1>5, <1>6 DEF EngineInv

\* A lane that is not empty has a last row.
LEMMA GreatestRow ==
  ASSUME NEW R \in SUBSET BatchRows, R # {}
  PROVE  \E m \in R : \A s \in R : s <= m
<1> DEFINE Above(m) == {s \in R : s > m}
           C == {Cardinality(Above(m)) : m \in R}
<1>1. R \subseteq Nat /\ \A m \in R : Above(m) \in SUBSET R /\ IsFiniteSet(Above(m)) /\ Cardinality(Above(m)) \in Nat
  <2>1. R \subseteq Nat /\ \A m \in R : Above(m) \in SUBSET BatchRows
    BY EngineConstants
  <2> QED  BY <2>1, SomeRows
<1>2. \E c \in C : \A d \in C : c <= d
  <2>1. C \in SUBSET Nat /\ C # {}
    BY <1>1
  <2> QED  BY <2>1, LeastNat
<1>3. PICK m \in R : \A n \in R : Cardinality(Above(m)) <= Cardinality(Above(n))
  BY <1>2
<1>4. ASSUME NEW s \in R, ~(s <= m)
      PROVE  FALSE
  <2>1. s \in Nat /\ m \in Nat /\ s \in Above(m) /\ s \notin Above(s) /\ s \in BatchRows \ Above(s)
    BY <1>1, <1>4
  <2>2. Above(s) \cup {s} \in SUBSET Above(m) /\ Above(m) \in SUBSET BatchRows /\ Above(s) \in SUBSET BatchRows
    <3>1. ASSUME NEW x \in R, x > s
          PROVE  x > m
      <4>1. x \in Nat
        BY <1>1
      <4> QED  BY <1>4, <2>1, <3>1, <4>1
    <3>2. s > m
      BY <1>4, <2>1
    <3> QED  BY <3>1, <3>2, <2>1, Zenon
  <2> HIDE DEF Above
  <2>3. Cardinality(Above(s) \cup {s}) = Cardinality(Above(s)) + 1
    BY <2>1, <2>2, SomeRows
  <2>4. Cardinality(Above(s) \cup {s}) <= Cardinality(Above(m))
    BY <2>2, SomeRows
  <2> QED  BY <1>1, <1>3, <2>3, <2>4
<1> QED  BY <1>4

\* A lane starts with the rows whose host was let out; the others are
\* journaled at once.
LEMMA LaneStartsStep == ASSUME EngineInv, LaneStarts PROVE EngineInv'
<1> DEFINE Lookedup == UNION {HostAnswers[h] : h \in DOMAIN HostAnswers}
<1>1. PICK kind \in {"batch", "ladder"}, rows \in SUBSET BatchRows \ {{}}, answer \in [BatchRows -> Lookedup] :
          /\ \A r \in BatchRows : IF r \in rows THEN answer[r] \in HostAnswers[HostOf[r]]
                                  ELSE answer[r] = CHOOSE a \in HostAnswers[HostOf[r]] : TRUE
          /\ LET vetted == [r \in rows |-> vet_resolved_addrs(answer[r], FALSE, MostAddresses)]
                 passed == {r \in rows : vetted[r] # << >>}
             IN  /\ lane' = [lane EXCEPT
                               !.at = IF passed = {} THEN "done" ELSE "ping", !.kind = kind, !.rows = passed,
                               !.pins = [h \in {HostOf[r] : r \in passed} |->
                                   pick_vetted(vetted[CHOOSE r \in passed : HostOf[r] = h
                                                 /\ \A s \in passed : HostOf[s] = h => s <= r], "any")],
                               !.backoffs = 0, !.lanes = @ + 1]
                 /\ Journals(rows \ passed, "refused")
  BY Zenon DEF LaneStarts
<1> DEFINE vetted == [r \in rows |-> vet_resolved_addrs(answer[r], FALSE, MostAddresses)]
           passed == {r \in rows : vetted[r] # << >>}
           LastOf(h) == CHOOSE r \in passed : HostOf[r] = h /\ \A s \in passed : HostOf[s] = h => s <= r
           pins == [h \in {HostOf[r] : r \in passed} |-> pick_vetted(vetted[LastOf(h)], "any")]
           at == IF passed = {} THEN "done" ELSE "ping"
<1>2. lane' = [lane EXCEPT !.at = at, !.kind = kind, !.rows = passed, !.pins = pins, !.backoffs = 0, !.lanes = lane.lanes + 1]
      /\ Journals(rows \ passed, "refused")
  BY <1>1
<1>3. /\ lane.at = "none" /\ UNCHANGED <<engine, retry, task, guard>> /\ lane \in Lanes /\ rows \in SUBSET BatchRows
      /\ passed \in SUBSET rows /\ passed \in SUBSET BatchRows
  BY DEF LaneStarts, EngineInv
<1>4. ASSUME NEW r \in passed
      PROVE  vetted[r] \in Seq(OpenAddress) /\ vetted[r] # << >>
  <2>1. answer[r] \in Seq(Address) /\ vetted[r] = vet_resolved_addrs(answer[r], FALSE, MostAddresses)
    BY <1>1, <1>3, EngineAssumption
  <2>2. vet_resolved_addrs(answer[r], FALSE, MostAddresses) \in Seq({a \in Address : LeadsOut(a)})
    BY <2>1, EngineConstants, VettedList
  <2> QED  BY <2>1, <2>2 DEF OpenAddress
<1> HIDE DEF vetted, passed
<1>5. ASSUME NEW h \in {HostOf[r] : r \in passed}
      PROVE  LastOf(h) \in passed
  <2> DEFINE R == {r \in passed : HostOf[r] = h}
  <2>1. R \in SUBSET BatchRows /\ R # {}
    BY <1>3
  <2>2. PICK m \in R : \A s \in R : s <= m
    BY <2>1, GreatestRow
  <2>3. m \in passed /\ HostOf[m] = h /\ \A s \in passed : HostOf[s] = h => s <= m
    BY <2>2
  <2> QED  BY <2>3
<1> HIDE DEF LastOf
<1>6. ASSUME NEW h \in {HostOf[r] : r \in passed}
      PROVE  pick_vetted(vetted[LastOf(h)], "any") \in OpenAddress
  <2> DEFINE a == vetted[LastOf(h)]
  <2>1. a \in Seq(OpenAddress) /\ a # << >>
    BY <1>4, <1>5
  <2>2. NoAddress \notin OpenAddress /\ "any" \in Families
    BY NoAddressIsNone DEF OpenAddress, Families
  <2> HIDE DEF a
  <2>3. pick_vetted(a, "any") # NoAddress
    BY <2>1, <2>2, PickOfAny
  <2>4. PICK i \in OfFamily(a, "any") : pick_vetted(a, "any") = a[i]
    BY <2>1, <2>2, <2>3, PickIsOfFamily
  <2>5. i \in DOMAIN a
    BY DEF OfFamily
  <2> QED  BY <2>1, <2>4, <2>5 DEF a
<1>7. pins \in Pins /\ DOMAIN pins = {HostOf[r] : r \in passed}
  <2>1. {HostOf[r] : r \in passed} \in SUBSET DOMAIN HostAnswers
    BY <1>3, EngineAssumption
  <2>2. pins \in [{HostOf[r] : r \in passed} -> OpenAddress]
    BY <1>6
  <2> QED  BY <2>1, <2>2 DEF Pins
<1> HIDE DEF pins
<1>8. at \in {"done", "ping"} /\ (at = "done" => passed = {}) /\ lane.lanes + 1 \in Nat
  BY <1>3 DEF Lanes
<1> HIDE DEF at
<1>9. /\ lane'.at = at /\ lane'.rows = passed /\ lane'.pins = pins /\ lane'.backoffs = 0
  BY <1>2, <1>3 DEF Lanes
<1>10. lane' \in Lanes
  BY <1>2, <1>3, <1>7, <1>8 DEF Lanes
<1>11. /\ record' \in Records
       /\ \A r \in BatchRows : record'[r].says \in {"dead", "blip"} => record'[r].heard
       /\ \A r \in rows \ passed : record'[r].count = record[r].count + 1
       /\ \A r \in BatchRows \ (rows \ passed) : record'[r].count = record[r].count
  BY <1>2, <1>3, Journaled DEF Says
<1>12. RowsOK'
  <2>1. ASSUME NEW r \in BatchRows
        PROVE  record'[r].count <= 1 /\ (r \in passed => record'[r].count = 0) /\ task[r].at = "none" /\ task'[r].at = "none"
    <3>1. record[r].count = 0 /\ task[r].at = "none" /\ task' = task
      BY <1>3 DEF EngineInv, RowsOK
    <3> QED  BY <1>11, <3>1
  <2> QED  BY <1>8, <1>9, <1>11, <2>1 DEF RowsOK, TaskActive
<1>13. PinsOK' /\ BackoffOK' /\ TunnelsAreVetted'
  BY <1>7, <1>8, <1>9 DEF PinsOK, BackoffOK, TunnelsAreVetted
<1>14. CountOK'
  BY <1>3, <1>8, <1>9, CountKept DEF EngineInv
<1> QED  BY <1>3, <1>10, <1>11, <1>12, <1>13, <1>14 DEF EngineInv

\* Rows the reload left out are journaled, the others wait for a permit.
LEMMA ReloadedStep == ASSUME EngineInv, Reloaded PROVE EngineInv'
<1>1. lane.at = "write"
  BY DEF Reloaded
<1>2. CASE ~engine.up
  BY <1>1, <1>2, LaneFaultsStep DEF Reloaded
<1>3. CASE engine.up
  <2> DEFINE file == generate(lane.rows, lane.pins)
  <2>1. /\ engine' = [engine EXCEPT !.loaded = file] /\ retry' = meow_recovered /\ guard' = FreshGuard
        /\ task' = [r \in BatchRows |-> IF r \in DOMAIN file THEN Task("waiting") ELSE task[r]]
        /\ lane' = [lane EXCEPT !.at = "tasks"]
        /\ Journals(lane.rows \ DOMAIN file, "unwritable")
    BY <1>3 DEF Reloaded
  <2>2. lane \in Lanes /\ lane.rows \in SUBSET BatchRows /\ lane.pins \in Pins /\ engine \in Engines /\ task \in Tasks
        /\ retry \in Retries
    BY DEF EngineInv, Lanes
  <2>3. lane' \in Lanes /\ lane'.at = "tasks" /\ lane'.rows = lane.rows /\ lane'.pins = lane.pins /\ lane'.backoffs = lane.backoffs
        /\ lane.backoffs = 0
    BY <1>1, <2>1, <2>2 DEF Lanes, EngineInv, BackoffOK
  <2>4. DOMAIN file \in SUBSET lane.rows
    BY DEF generate
  <2>5. ASSUME NEW r \in DOMAIN file
        PROVE  \A a \in file[r] : a \in OpenAddress
    <3>1. r \in lane.rows /\ file[r] = proxy_to_value(r, lane.pins)
      BY DEF generate
    <3>2. HostOf[r] \in DOMAIN lane.pins
      BY <3>1 DEF EngineInv, PinsOK
    <3>3. lane.pins[HostOf[r]] \in OpenAddress
      BY <2>2, <3>2 DEF Pins
    <3>4. file[r] = {lane.pins[HostOf[r]]}
      BY <3>1, <3>2 DEF proxy_to_value
    <3> QED  BY <3>3, <3>4
  <2>6. file \in [DOMAIN file -> SUBSET Address]
    <3>1. file = [r \in DOMAIN file |-> file[r]]
      BY DEF generate
    <3>2. \A r \in DOMAIN file : file[r] \in SUBSET Address
      BY <2>5 DEF OpenAddress
    <3> HIDE DEF file
    <3> QED  BY <3>1, <3>2
  <2> HIDE DEF file
  <2>7. engine' \in Engines /\ engine'.loaded = file
    <3>1. file \in UNION {[rows -> SUBSET Address] : rows \in SUBSET BatchRows}
      BY <2>2, <2>4, <2>6
    <3> QED  BY <2>1, <2>2, <3>1 DEF Engines
  <2>8. TunnelsAreVetted'
    BY <2>5, <2>7 DEF TunnelsAreVetted, OpenAddress
  <2>9. task' \in Tasks /\ \A r \in BatchRows : task'[r].at = IF r \in DOMAIN file THEN "waiting" ELSE "none"
    <3>1. \A r \in BatchRows : task[r].at = "none"
      BY <1>1 DEF EngineInv, RowsOK
    <3>2. Task("waiting") \in [at : {"none", "waiting", "done"} \cup TaskActive, n : Nat] /\ Task("waiting").at = "waiting"
      BY DEF Task
    <3> QED  BY <2>1, <2>2, <3>1, <3>2 DEF Tasks
  <2>10. /\ record' \in Records
         /\ \A r \in BatchRows : record'[r].says \in {"dead", "blip"} => record'[r].heard
         /\ \A r \in lane.rows \ DOMAIN file : record'[r].count = record[r].count + 1
         /\ \A r \in BatchRows \ (lane.rows \ DOMAIN file) : record'[r].count = record[r].count
    BY <2>1, <2>2, Journaled DEF Says
  <2>11. RowsOK'
    <3>1. ASSUME NEW r \in BatchRows
          PROVE  /\ record'[r].count <= 1 /\ (r \in DOMAIN file => record'[r].count = 0)
                 /\ (r \in lane.rows \ DOMAIN file => record'[r].count = 1)
      <4>1. record[r].count <= 1 /\ (r \in lane.rows => record[r].count = 0) /\ record[r].count \in Nat
        BY <1>1 DEF EngineInv, RowsOK, Records
      <4> QED  BY <2>4, <2>10, <4>1
    <3>2. "none" \notin TaskActive /\ "done" \notin TaskActive
      BY DEF TaskActive
    <3> QED  BY <2>3, <2>4, <2>9, <2>10, <3>1, <3>2 DEF RowsOK
  <2>12. CountOK'
    <3>1. Holding' = {}
      BY <2>9 DEF Holding
    <3>2. Cardinality(Holding)' = 0
      BY <3>1, FS_EmptySet
    <3>3. CountedRows' \in SUBSET BatchRows
      BY DEF CountedRows
    <3>4. Cardinality(CountedRows)' \in Nat
      BY <3>3, SomeRows
    <3> QED  BY <2>1, <3>2, <3>4, EngineConstants DEF CountOK, FreshGuard
  <2>13. retry' \in Retries /\ guard' \in [consecutive : Nat, aborted : BOOLEAN]
    BY <2>1, <2>2, BackedOff DEF FreshGuard
  <2> QED  BY <2>3, <2>7, <2>8, <2>9, <2>10, <2>11, <2>12, <2>13 DEF EngineInv, PinsOK, BackoffOK
<1> QED  BY <1>2, <1>3

\* A task at work moves, or ends with one journal row.
LEMMA TaskGoes ==
  ASSUME EngineInv, NEW r \in BatchRows, task[r].at \in TaskActive \cup {"waiting"}, NEW to \in TaskActive, NEW n \in Nat,
         task' = [task EXCEPT ![r] = [at |-> to, n |-> n]], UNCHANGED record,
         lane'.at = lane.at, lane'.rows = lane.rows
  PROVE  /\ lane.at = "tasks" /\ task' \in Tasks /\ record' \in Records /\ RowsOK'
         /\ \A s \in BatchRows : task'[s].at = IF s = r THEN to ELSE task[s].at
<1>1. task \in Tasks /\ record \in Records /\ RowsOK
  BY DEF EngineInv
<1>2. \A s \in BatchRows : task'[s].at = IF s = r THEN to ELSE task[s].at
  BY <1>1 DEF Tasks
<1>3. task' \in Tasks
  BY <1>1 DEF Tasks
<1>4. lane.at = "tasks"
  BY <1>1 DEF RowsOK, TaskActive
<1>5. to \notin {"none", "done"}
  BY DEF TaskActive
<1>6. RowsOK'
  BY <1>1, <1>2, <1>4, <1>5 DEF RowsOK
<1> QED  BY <1>1, <1>2, <1>3, <1>4, <1>6

\* A task that ends journals its row, no other.
LEMMA TaskEnds ==
  ASSUME EngineInv, NEW r \in BatchRows, task[r].at \in TaskActive \cup {"waiting"}, NEW says \in Says, NEW heard \in BOOLEAN,
         says \in {"dead", "blip"} => heard, Ends(r, says, heard),
         lane'.at = lane.at, lane'.rows = lane.rows
  PROVE  /\ lane.at = "tasks" /\ task' \in Tasks /\ record' \in Records /\ RowsOK'
         /\ \A s \in BatchRows : task'[s].at = IF s = r THEN "done" ELSE task[s].at
<1>1. task \in Tasks /\ record \in Records /\ RowsOK
  BY DEF EngineInv
<1>0. /\ task' = [task EXCEPT ![r] = [at |-> "done", n |-> 0]]
      /\ record' = [record EXCEPT ![r] = [count |-> record[r].count + 1, says |-> says, heard |-> record[r].heard \/ heard]]
  BY DEF Ends, Goes, Task
<1>2. \A s \in BatchRows : task'[s].at = IF s = r THEN "done" ELSE task[s].at
  BY <1>0, <1>1 DEF Tasks
<1>3. task' \in Tasks
  BY <1>0, <1>1 DEF Tasks
<1>4. lane.at = "tasks" /\ record[r].count = 0
  BY <1>1 DEF RowsOK, TaskActive
<1> DEFINE both == record[r].heard \/ heard
<1>5. both \in BOOLEAN /\ (says \in {"dead", "blip"} => both)
  OBVIOUS
<1>6. record' = [record EXCEPT ![r] = [count |-> 1, says |-> says, heard |-> both]]
  BY <1>0, <1>4
<1> HIDE DEF both
<1>7. record' \in Records
  BY <1>1, <1>5, <1>6 DEF Records
<1>8. /\ record'[r].count = 1 /\ (record'[r].says \in {"dead", "blip"} => record'[r].heard)
      /\ \A s \in BatchRows \ {r} : record'[s] = record[s]
  BY <1>1, <1>5, <1>6 DEF Records
<1>9. "done" \notin TaskActive /\ "none" \notin TaskActive
  BY DEF TaskActive
<1>10. ASSUME NEW s \in BatchRows
       PROVE  /\ record'[s].count <= 1
              /\ record'[s].says \in {"dead", "blip"} => record'[s].heard
              /\ task'[s].at \in TaskActive \cup {"waiting"} => record'[s].count = 0
              /\ task'[s].at \in {"none", "done"} /\ s \in lane.rows => record'[s].count = 1
  <2>1. CASE s = r
    BY <1>2, <1>8, <1>9, <2>1
  <2>2. CASE s # r
    BY <1>1, <1>2, <1>4, <1>8, <2>2 DEF RowsOK
  <2> QED  BY <2>1, <2>2
<1>11. RowsOK'
  BY <1>4, <1>10 DEF RowsOK
<1> QED  BY <1>2, <1>3, <1>4, <1>7, <1>11

\* What the counters of the batch see of a task's step.
LEMMA TaskCounts ==
  ASSUME EngineInv, lane.at = "tasks", NEW r \in BatchRows, NEW to \in TaskActive \cup {"done"},
         task[r].at \in TaskActive \cup {"waiting"},
         \A s \in BatchRows : task'[s].at = IF s = r THEN to ELSE task[s].at,
         task[r].at = "counted" => to = "done",
         task[r].at = "waiting" /\ to # "done" => Cardinality(Holding) < Permits,
         guard'.consecutive \in Nat,
         \/ guard'.consecutive <= guard.consecutive
         \/ guard'.consecutive = guard.consecutive + 1 /\ task[r].at = "ping" /\ to = "counted"
  PROVE  CountOK'
<1>1. /\ CountedRows \in SUBSET BatchRows /\ CountedRows' \in SUBSET BatchRows /\ Holding \in SUBSET BatchRows
      /\ Holding' \in SUBSET BatchRows
  BY DEF CountedRows, Holding
<1>2. /\ Cardinality(CountedRows) \in Nat /\ Cardinality(CountedRows)' \in Nat /\ Cardinality(CountedRows)' <= Cardinality(BatchRows)
      /\ Cardinality(Holding) \in Nat /\ Cardinality(Holding)' \in Nat
  BY <1>1, SomeRows
<1>3. CountedRows \in SUBSET CountedRows'
  BY DEF CountedRows, TaskActive
<1>4. Cardinality(CountedRows) <= Cardinality(CountedRows)'
  BY <1>1, <1>3, SomeRows
<1>5. guard.consecutive \in Nat /\ guard.consecutive <= Cardinality(CountedRows) /\ Cardinality(Holding) <= Permits
  BY DEF EngineInv, CountOK
<1>6. guard'.consecutive <= Cardinality(CountedRows)'
  <2>1. CASE guard'.consecutive <= guard.consecutive
    BY <1>2, <1>4, <1>5, <2>1
  <2>2. CASE guard'.consecutive = guard.consecutive + 1 /\ task[r].at = "ping" /\ to = "counted"
    <3>1. r \notin CountedRows /\ CountedRows' = CountedRows \cup {r}
      BY <2>2 DEF CountedRows
    <3>2. Cardinality(CountedRows)' = Cardinality(CountedRows) + 1
      BY <1>1, <3>1, SomeRows
    <3> QED  BY <1>2, <1>5, <2>2, <3>2
  <2> QED  BY <2>1, <2>2
<1>7. Cardinality(Holding)' <= Permits
  <2>1. CASE task[r].at = "waiting" /\ to # "done"
    <3>1. r \notin Holding /\ Holding' = Holding \cup {r}
      BY <2>1 DEF Holding, TaskActive
    <3>2. Cardinality(Holding)' = Cardinality(Holding) + 1
      BY <1>1, <3>1, SomeRows
    <3> QED  BY <1>2, <2>1, <3>2, EngineConstants
  <2>2. CASE ~(task[r].at = "waiting" /\ to # "done")
    <3>1. Holding' \in SUBSET Holding
      BY <2>2 DEF Holding, TaskActive
    <3>2. Cardinality(Holding)' <= Cardinality(Holding)
      BY <1>1, <3>1, SomeRows
    <3> QED  BY <1>2, <1>5, <3>2, EngineConstants
  <2> QED  BY <2>1, <2>2
<1> QED  BY <1>2, <1>6, <1>7, EngineConstants DEF CountOK

\* A step of a task that leaves the lane and the retry clock alone.
LEMMA LaneKept ==
  ASSUME EngineInv, UNCHANGED <<engine, retry, lane>>, lane.at = "tasks",
         guard' \in [consecutive : Nat, aborted : BOOLEAN], guard.aborted => guard'.aborted,
         task' \in Tasks, record' \in Records, RowsOK', CountOK'
  PROVE  EngineInv'
BY DEF EngineInv, PinsOK, BackoffOK, TunnelsAreVetted

\* A task takes a permit, or ends at once when the guard gave up.
LEMMA TakesPermitStep == ASSUME EngineInv, NEW r \in BatchRows, TakesPermit(r) PROVE EngineInv'
<1>1. task[r].at = "waiting" /\ Cardinality(Holding) < Permits /\ UNCHANGED <<engine, retry, lane, guard>>
  BY DEF TakesPermit
<1>2. guard \in [consecutive : Nat, aborted : BOOLEAN]
  BY DEF EngineInv
<1>3. CASE guard.aborted
  <2>1. Ends(r, "fault", FALSE)
    BY <1>3 DEF TakesPermit
  <2>2. /\ lane.at = "tasks" /\ task' \in Tasks /\ record' \in Records /\ RowsOK'
        /\ \A s \in BatchRows : task'[s].at = IF s = r THEN "done" ELSE task[s].at
    BY <1>1, <2>1, TaskEnds DEF Says
  <2>3. CountOK'
    BY <1>1, <1>2, <2>2, TaskCounts
  <2> QED  BY <1>1, <1>2, <2>2, <2>3, LaneKept
<1>4. CASE ~guard.aborted
  <2>1. task' = [task EXCEPT ![r] = [at |-> "first", n |-> 0]] /\ UNCHANGED record
    BY <1>4 DEF TakesPermit, Goes, Task
  <2>2. "first" \in TaskActive
    BY DEF TaskActive
  <2>3. /\ lane.at = "tasks" /\ task' \in Tasks /\ record' \in Records /\ RowsOK'
        /\ \A s \in BatchRows : task'[s].at = IF s = r THEN "first" ELSE task[s].at
    BY <1>1, <2>1, <2>2, TaskGoes
  <2>4. CountOK'
    BY <1>1, <1>2, <2>2, <2>3, TaskCounts
  <2> QED  BY <1>1, <1>2, <2>3, <2>4, LaneKept
<1> QED  BY <1>3, <1>4

\* A measured row is journaled and clears the guard.
LEMMA MeasuredStep == ASSUME EngineInv, NEW r \in BatchRows, Measured(r) PROVE EngineInv'
<1>1. task[r].at \in {"first", "second"} /\ UNCHANGED <<engine, retry, lane>>
      /\ guard' = [guard EXCEPT !.consecutive = IF lane.kind = "batch" THEN 0 ELSE guard.consecutive]
  BY DEF Measured, record_recovered
<1>2. PICK says \in {"ok", "dead"} : Ends(r, says, TRUE)
  BY DEF Measured
<1>3. guard \in [consecutive : Nat, aborted : BOOLEAN]
  BY DEF EngineInv
<1>4. guard' \in [consecutive : Nat, aborted : BOOLEAN] /\ guard'.aborted = guard.aborted
      /\ guard'.consecutive <= guard.consecutive
  <2>1. CASE lane.kind = "batch"
    <3>1. guard' = [guard EXCEPT !.consecutive = 0]
      BY <1>1, <2>1
    <3> QED  BY <1>3, <3>1
  <2>2. CASE lane.kind # "batch"
    <3>1. guard' = [guard EXCEPT !.consecutive = guard.consecutive]
      BY <1>1, <2>2
    <3> QED  BY <1>3, <3>1
  <2> QED  BY <2>1, <2>2
<1>5. task[r].at \in TaskActive /\ task[r].at \notin {"counted", "waiting"} /\ says \in Says
  BY <1>1 DEF TaskActive, Says
<1>6. /\ lane.at = "tasks" /\ task' \in Tasks /\ record' \in Records /\ RowsOK'
      /\ \A s \in BatchRows : task'[s].at = IF s = r THEN "done" ELSE task[s].at
  BY <1>1, <1>2, <1>5, TaskEnds
<1>7. CountOK'
  BY <1>4, <1>5, <1>6, TaskCounts
<1> QED  BY <1>1, <1>4, <1>6, <1>7, LaneKept

\* A row without a measure asks again, pings, or is journaled.
LEMMA NoMeasureStep == ASSUME EngineInv, NEW r \in BatchRows, NoMeasure(r) PROVE EngineInv'
<1>1. task[r].at \in {"first", "second"} /\ UNCHANGED <<engine, retry, lane, guard>>
  BY DEF NoMeasure
<1>2. guard \in [consecutive : Nat, aborted : BOOLEAN]
  BY DEF EngineInv
<1>3. task[r].at \in TaskActive /\ task[r].at \notin {"counted", "waiting"} /\ {"second", "ping"} \subseteq TaskActive
  BY <1>1 DEF TaskActive
<1>4. CASE Ends(r, "fault", FALSE)
  <2>1. /\ lane.at = "tasks" /\ task' \in Tasks /\ record' \in Records /\ RowsOK'
        /\ \A s \in BatchRows : task'[s].at = IF s = r THEN "done" ELSE task[s].at
    BY <1>1, <1>3, <1>4, TaskEnds DEF Says
  <2>2. CountOK'
    BY <1>1, <1>2, <1>3, <2>1, TaskCounts
  <2> QED  BY <1>1, <1>2, <2>1, <2>2, LaneKept
<1>5. ASSUME NEW to \in {"second", "ping"}, Goes(r, to), UNCHANGED record
      PROVE  EngineInv'
  <2>0. task' = [task EXCEPT ![r] = [at |-> to, n |-> 0]] /\ to \in TaskActive
    BY <1>3, <1>5 DEF Goes, Task
  <2>1. /\ lane.at = "tasks" /\ task' \in Tasks /\ record' \in Records /\ RowsOK'
        /\ \A s \in BatchRows : task'[s].at = IF s = r THEN to ELSE task[s].at
    BY <1>1, <1>3, <1>5, <2>0, TaskGoes
  <2>2. CountOK'
    BY <1>1, <1>2, <1>3, <2>0, <2>1, TaskCounts
  <2> QED  BY <1>1, <1>2, <2>1, <2>2, LaneKept
<1> QED  BY <1>4, <1>5 DEF NoMeasure

\* A ping the engine answers makes the row a blip, one it does not is counted.
LEMMA AskedStep == ASSUME EngineInv, NEW r \in BatchRows, Asked(r) PROVE EngineInv'
<1>1. task[r].at = "ping" /\ UNCHANGED <<engine, retry, lane>> /\ {"ping", "counted"} \subseteq TaskActive
  BY DEF Asked, TaskActive
<1>2. guard \in [consecutive : Nat, aborted : BOOLEAN]
  BY DEF EngineInv
<1>3. CASE engine.up
  <2>0. Ends(r, "blip", TRUE) /\ UNCHANGED guard
    <3>1. engine.up = TRUE
      BY <1>3 DEF EngineInv, Engines
    <3> QED  BY <1>3, <3>1 DEF Asked, Blames
  <2>1. /\ lane.at = "tasks" /\ task' \in Tasks /\ record' \in Records /\ RowsOK'
        /\ \A s \in BatchRows : task'[s].at = IF s = r THEN "done" ELSE task[s].at
    BY <1>1, <2>0, TaskEnds DEF Says
  <2>2. CountOK'
    BY <1>1, <1>2, <2>0, <2>1, TaskCounts
  <2> QED  BY <1>1, <1>2, <2>0, <2>1, <2>2, LaneKept
<1>4. CASE ~engine.up
  <2>0. /\ task' = [task EXCEPT ![r] = [at |-> "counted", n |-> guard.consecutive + 1]] /\ UNCHANGED record
        /\ guard' = [guard EXCEPT !.consecutive = guard.consecutive + 1] /\ guard.consecutive + 1 \in Nat
    BY <1>2, <1>4 DEF Asked, Blames
  <2>1. guard' \in [consecutive : Nat, aborted : BOOLEAN] /\ guard'.aborted = guard.aborted
        /\ guard'.consecutive = guard.consecutive + 1
    BY <1>2, <2>0
  <2>2. /\ lane.at = "tasks" /\ task' \in Tasks /\ record' \in Records /\ RowsOK'
        /\ \A s \in BatchRows : task'[s].at = IF s = r THEN "counted" ELSE task[s].at
    BY <1>1, <2>0, TaskGoes
  <2>3. CountOK'
    BY <1>1, <2>0, <2>1, <2>2, TaskCounts
  <2> QED  BY <1>1, <2>1, <2>2, <2>3, LaneKept
<1> QED  BY <1>3, <1>4

\* A counted failure is journaled, and the one that crosses the threshold
\* aborts the batch and backs off.
LEMMA RecordedStep == ASSUME EngineInv, NEW r \in BatchRows, Recorded(r) PROVE EngineInv'
<1> DEFINE crossed == Crossed(task[r].n)
           over == task[r].n >= AbortThreshold
           aborted == guard.aborted \/ over
           backoffs == IF crossed THEN lane.backoffs + 1 ELSE lane.backoffs
<1>1. /\ task[r].at = "counted" /\ Ends(r, "fault", FALSE) /\ UNCHANGED engine
      /\ guard' = [guard EXCEPT !.aborted = aborted]
      /\ retry' = (IF crossed THEN backoff_meow(retry) ELSE retry)
      /\ lane' = [lane EXCEPT !.backoffs = backoffs]
  BY DEF Recorded
<1>2. /\ guard \in [consecutive : Nat, aborted : BOOLEAN] /\ lane \in Lanes /\ retry \in Retries /\ "counted" \in TaskActive
      /\ lane.backoffs \in Nat
  BY DEF EngineInv, TaskActive, Lanes
<1>3. lane.at = "tasks" /\ lane.backoffs <= 1 /\ (lane.backoffs # 0 => guard.aborted)
  <2>1. lane.at = "tasks"
    BY <1>1 DEF EngineInv, RowsOK
  <2> QED  BY <2>1 DEF EngineInv, BackoffOK
<1>4. /\ aborted \in BOOLEAN /\ (guard.aborted => aborted) /\ (crossed => aborted)
      /\ backoffs \in Nat /\ backoffs <= 1 /\ (backoffs # 0 => aborted)
  <2>1. crossed => over /\ ~guard.aborted
    BY DEF Crossed
  <2>2. over \in BOOLEAN
    BY DEF over
  <2> HIDE DEF over, crossed
  <2>3. aborted \in BOOLEAN
    BY <2>2
  <2>4. crossed => lane.backoffs = 0
    BY <1>3, <2>1
  <2> QED  BY <1>2, <1>3, <2>1, <2>3, <2>4
<1>5. retry' \in Retries
  BY <1>1, <1>2, BackedOff
<1> HIDE DEF crossed, over, aborted, backoffs
<1>6. lane' \in Lanes /\ lane'.at = "tasks" /\ lane'.rows = lane.rows /\ lane'.pins = lane.pins /\ lane'.backoffs = backoffs
  BY <1>1, <1>2, <1>3, <1>4 DEF Lanes
<1>7. guard' \in [consecutive : Nat, aborted : BOOLEAN] /\ guard'.aborted = aborted /\ guard'.consecutive = guard.consecutive
  BY <1>1, <1>2, <1>4
<1>8. /\ lane.at = "tasks" /\ task' \in Tasks /\ record' \in Records /\ RowsOK'
      /\ \A s \in BatchRows : task'[s].at = IF s = r THEN "done" ELSE task[s].at
  BY <1>1, <1>2, <1>3, <1>6, TaskEnds DEF Says
<1>9. CountOK'
  BY <1>1, <1>2, <1>7, <1>8, TaskCounts
<1>10. PinsOK' /\ BackoffOK' /\ TunnelsAreVetted'
  BY <1>1, <1>3, <1>4, <1>6, <1>7 DEF EngineInv, PinsOK, BackoffOK, TunnelsAreVetted
<1> QED  BY <1>1, <1>5, <1>6, <1>7, <1>8, <1>9, <1>10 DEF EngineInv

\* Every step keeps the invariant.
LEMMA StepEngine == EngineInv /\ [EngineNext]_engineVars => EngineInv'
<1> SUFFICES ASSUME EngineInv, [EngineNext]_engineVars PROVE EngineInv'
  OBVIOUS
<1>1. CASE UNCHANGED engineVars
  <2>1. UNCHANGED <<engine, retry, lane, task, guard, record>>
    BY <1>1 DEF engineVars
  <2>2. CountOK'
    BY <2>1, CountKept DEF EngineInv
  <2> QED  BY <2>1, <2>2 DEF EngineInv, RowsOK, PinsOK, BackoffOK, TunnelsAreVetted
<1>2. CASE EngineDies \/ EngineReturns
  BY <1>2, EngineDiesStep
<1>3. CASE SecondsPass
  BY <1>3, SecondsPassStep
<1>4. CASE LaneStarts
  BY <1>4, LaneStartsStep
<1>5. CASE Pinged
  <2>1. CASE engine.up
    BY <1>5, <2>1, LaneMoves DEF Pinged
  <2>2. CASE ~engine.up
    BY <1>5, <2>2, LaneFaultsStep DEF Pinged
  <2> QED  BY <2>1, <2>2
<1>6. CASE WriteFails
  BY <1>6, LaneMoves DEF WriteFails
<1>7. CASE Reloaded
  BY <1>7, ReloadedStep
<1>8. CASE LaneEnds
  BY <1>8, LaneEndsStep
<1>9. ASSUME NEW r \in BatchRows, TakesPermit(r) \/ Measured(r) \/ NoMeasure(r) \/ Asked(r) \/ Recorded(r)
      PROVE  EngineInv'
  BY <1>9, TakesPermitStep, MeasuredStep, NoMeasureStep, AskedStep, RecordedStep
<1> QED  BY <1>1, <1>2, <1>3, <1>4, <1>5, <1>6, <1>7, <1>8, <1>9 DEF EngineNext

\* The invariant says what the runs check.
LEMMA EngineSafe == EngineInv => EngineTypeOK /\ BatchIsAccountedFor /\ TunnelsAreVetted
<1> SUFFICES ASSUME EngineInv PROVE EngineTypeOK /\ BatchIsAccountedFor /\ TunnelsAreVetted
  OBVIOUS
<1>1. EngineTypeOK
  <2>1. /\ retry \in Retries /\ guard.consecutive \in Nat /\ guard.consecutive <= Cardinality(BatchRows)
        /\ Cardinality(Holding) <= Permits /\ lane \in Lanes
    BY DEF EngineInv, CountOK
  <2> QED  BY <2>1, EngineConstants DEF EngineTypeOK, Retries, Lanes
<1>2. EveryRowIsJournaledOnce
  <2>1. lane.rows \subseteq BatchRows
    BY DEF EngineInv, Lanes
  <2> QED  BY <2>1 DEF EngineInv, RowsOK, EveryRowIsJournaledOnce
<1>3. OutageChargesNobody /\ OneBackoffPerLane
  BY DEF EngineInv, RowsOK, BackoffOK, OutageChargesNobody, OneBackoffPerLane
<1> QED  BY <1>1, <1>2, <1>3 DEF EngineInv, BatchIsAccountedFor

\* Every row of a finished batch has one journal row, a batch backs off at most
\* once and holds no more permits than there are, and every tunnel goes to a
\* vetted address (run_batch, probe_one, backoff_meow).
THEOREM BatchesAreAccountedFor == EngineSpec => [](BatchIsAccountedFor /\ TunnelsAreVetted /\ EngineTypeOK)
<1>1. EngineInit => EngineInv
  BY InitEngine
<1>2. EngineInv /\ [EngineNext]_engineVars => EngineInv'
  BY StepEngine
<1>3. EngineInv => BatchIsAccountedFor /\ TunnelsAreVetted /\ EngineTypeOK
  BY EngineSafe
<1> QED  BY <1>1, <1>2, <1>3, PTL DEF EngineSpec

-----------------------------------------------------------------------------
(* The facts of the geo columns. *)


\* The rows of the table and the cached answers.
GeoRow == [host : GeoHosts, facts : SUBSET Facts]
TableOK(table, last) == table \in [DOMAIN table -> GeoRow] /\ DOMAIN table \subseteq 1..last
CacheOK(known) == known \in [DOMAIN known -> SUBSET Facts] /\ DOMAIN known \subseteq GeoHosts
\* Rows that were there before only gain facts; a new one comes after them.
Grown(before, after, last) ==
    \A r \in DOMAIN after \cap 1..last : r \in DOMAIN before /\ before[r].facts \subseteq after[r].facts


\* A walk over the table.
Asked01 == [1..MaxGeoId -> {0, 1}]
Walks == [at : {"none", "list", "write", "ended"}, cursor : Nat, page : Seq(1..MaxGeoId), stamps : Seq(SUBSET Facts),
          full : BOOLEAN, late : BOOLEAN, due : SUBSET (1..MaxGeoId), asked : Asked01 \cup {<< >>}]

\* What a walk has yet to come to.
Ahead(w, r) ==
    \/ w.at = "list" /\ r > w.cursor
    \/ w.at = "write" /\ w.full /\ r > w.cursor /\ r > w.page[Len(w.page)]

\* The promises of a walk: what it has asked for lies behind its cursor or on
\* its page, what it still owes lies ahead.
WalkOK(w, table, last, mask) ==
    /\ w.at = "none" => w.asked = << >>
    /\ w.at # "none" => w.asked \in Asked01 /\ w.due \subseteq 1..last
    /\ w.at = "write" => /\ w.page # << >> /\ Len(w.stamps) = Len(w.page)
                         /\ \A i \in 1..Len(w.page) : w.page[i] <= w.page[Len(w.page)]
    /\ w.at \in {"list", "write"} =>
          \A r \in 1..MaxGeoId : w.asked[r] = 1 => r <= w.cursor \/ (w.at = "write" /\ r <= w.page[Len(w.page)])
    /\ w.at # "none" /\ ~w.late =>
          \A r \in w.due \cap DOMAIN table : ~(mask \subseteq table[r].facts) => w.asked[r] = 1 \/ Ahead(w, r)

\* The inductive invariant of the geo columns.
GeoInv ==
    /\ opened \subseteq {"city", "asn"}
    /\ geoids \in [last : 0..MaxGeoId, touches : Nat, passes : Nat]
    /\ TableOK(georow, geoids.last) /\ CacheOK(cache)
    /\ pass \in [Passes -> Walks]
    /\ \A p \in Passes : WalkOK(pass[p], georow, geoids.last, fact_mask)

-----------------------------------------------------------------------------
\* What the assumptions say of the bounds.
LEMMA GeoConstants ==
  MaxGeoId \in Nat /\ MaxTouches \in Nat /\ MaxPasses \in Nat /\ GeoBatch \in Nat \ {0} /\ Found \in [GeoHosts -> SUBSET SUBSET Facts]
BY GeoAssumption

\* A pass that has not begun is a walk.
LEMMA NoPassWalks == NoPass \in Walks
<1>1. << >> \in Seq(1..MaxGeoId) /\ << >> \in Seq(SUBSET Facts)
  OBVIOUS
<1> QED  BY <1>1 DEF NoPass, Walks

\* At first no pass walks.
LEMMA InitGeo == GeoInit => GeoInv
<1> SUFFICES ASSUME GeoInit PROVE GeoInv
  OBVIOUS
<1>1. PICK n \in 0..MaxGeoId : georow \in [1..n -> GeoRow]
  BY GeoAssumption DEF GeoInit, GeoRow
<1>2. n \in Nat /\ DOMAIN georow = 1..n /\ Cardinality(1..n) = n
  BY <1>1, GeoConstants, FS_Interval
<1>3. geoids \in [last : 0..MaxGeoId, touches : Nat, passes : Nat] /\ geoids.last = n
  BY <1>1, <1>2 DEF GeoInit
<1>4. TableOK(georow, geoids.last)
  BY <1>1, <1>2, <1>3 DEF TableOK
<1>5. CacheOK(cache)
  BY DEF GeoInit, CacheOK
<1>6. pass \in [Passes -> Walks] /\ \A p \in Passes : pass[p] = NoPass
  BY NoPassWalks DEF GeoInit
<1>7. NoPass.at = "none" /\ NoPass.asked = << >>
  BY DEF NoPass
<1>8. \A p \in Passes : WalkOK(pass[p], georow, geoids.last, fact_mask)
  BY <1>6, <1>7 DEF WalkOK
<1> QED  BY <1>3, <1>4, <1>5, <1>6, <1>8 DEF GeoInit, GeoInv

\* A walk keeps its promises while rows come, go and gain facts.
LEMMA WalkStays ==
  ASSUME NEW w \in Walks, NEW before, NEW after, NEW last \in Nat, NEW next \in Nat, last <= next, NEW mask,
         WalkOK(w, before, last, mask), Grown(before, after, last)
  PROVE  WalkOK(w, after, next, mask)
<1>1. w.at # "none" => w.due \subseteq 1..next
  BY DEF WalkOK
<1>2. ASSUME w.at # "none", ~w.late, NEW r \in w.due \cap DOMAIN after, ~(mask \subseteq after[r].facts)
      PROVE  w.asked[r] = 1 \/ Ahead(w, r)
  <2>1. r \in DOMAIN before /\ before[r].facts \subseteq after[r].facts
    BY <1>2 DEF WalkOK, Grown
  <2>2. ~(mask \subseteq before[r].facts)
    BY <1>2, <2>1
  <2> QED  BY <1>2, <2>1, <2>2 DEF WalkOK
<1> QED  BY <1>1, <1>2 DEF WalkOK

\* A step of the table that asks for nothing keeps every walk.
LEMMA TableMoves ==
  ASSUME GeoInv, UNCHANGED <<opened, pass>>, geoids' \in [last : 0..MaxGeoId, touches : Nat, passes : Nat],
         geoids.last <= geoids'.last, TableOK(georow', geoids'.last), Grown(georow, georow', geoids.last), CacheOK(cache')
  PROVE  GeoInv'
<1>1. fact_mask' = fact_mask
  BY DEF fact_mask
<1>2. geoids.last \in Nat /\ geoids'.last \in Nat
  BY GeoConstants DEF GeoInv
<1>3. \A p \in Passes : WalkOK(pass[p], georow', geoids'.last, fact_mask)
  BY <1>2, WalkStays DEF GeoInv
<1> QED  BY <1>1, <1>3 DEF GeoInv

\* A stamp only adds facts to its row (update_geo).
LEMMA UpdatedRow ==
  ASSUME NEW table, NEW last, TableOK(table, last), NEW r \in DOMAIN table, NEW stamp \in SUBSET Facts,
         NEW after, after = [table EXCEPT ![r].facts = table[r].facts \cup stamp]
  PROVE  TableOK(after, last) /\ Grown(table, after, last)
<1>1. table[r] \in GeoRow /\ table[r].facts \cup stamp \in SUBSET Facts
  BY DEF TableOK, GeoRow
<1> DEFINE all == table[r].facts \cup stamp
           q == [table[r] EXCEPT !.facts = all]
<1>2. q \in GeoRow /\ q.facts = all
  BY <1>1 DEF GeoRow
<1>3. after = [table EXCEPT ![r] = q]
  OBVIOUS
<1> HIDE DEF q
<1>4. DOMAIN after = DOMAIN table /\ \A k \in DOMAIN table : after[k] = IF k = r THEN q ELSE table[k]
  BY <1>3
<1>5. after \in [DOMAIN table -> GeoRow]
  BY <1>2, <1>3 DEF TableOK
<1>6. Grown(table, after, last)
  BY <1>2, <1>4 DEF Grown
<1> QED  BY <1>4, <1>5, <1>6 DEF TableOK

\* A table that stays has grown.
LEMMA GrownSame == ASSUME NEW table, NEW last, TableOK(table, last) PROVE Grown(table, table, last)
BY DEF Grown

\* The resolver finds facts and nothing else.
LEMMA ResolvedFacts ==
  ASSUME GeoInv, NEW host \in GeoHosts
  PROVE  /\ resolve_uncached(host) \subseteq SUBSET Facts
         /\ resolve(host) \subseteq SUBSET Facts
         /\ resolve_geo_stamps(host) \subseteq SUBSET Facts
<1>1. \A f \in Found[host] \cup {{}} : f \in SUBSET Facts
  BY GeoConstants
<1>2. resolve_uncached(host) \subseteq SUBSET Facts
  BY <1>1 DEF resolve_uncached
<1>3. resolve(host) \subseteq SUBSET Facts
  BY <1>2 DEF resolve, GeoInv, CacheOK
<1> QED  BY <1>2, <1>3 DEF resolve_geo_stamps

\* The cache stays in its type.
LEMMA RememberedOK ==
  ASSUME CacheOK(cache), NEW host \in GeoHosts, NEW facts \in SUBSET Facts, Remembered(host, facts)
  PROVE  CacheOK(cache')
<1>1. CASE is_active
  <2>1. cache' = [h \in DOMAIN cache \cup {host} |-> IF h = host THEN facts ELSE cache[h]]
    BY <1>1 DEF Remembered
  <2> QED  BY <2>1 DEF CacheOK
<1>2. CASE ~is_active
  BY <1>2 DEF Remembered
<1> QED  BY <1>1, <1>2

\* A touch is counted.
LEMMA TouchedOK ==
  ASSUME GeoInv, Touched
  PROVE  geoids' \in [last : 0..MaxGeoId, touches : Nat, passes : Nat] /\ geoids'.last = geoids.last /\ geoids.last \in Nat
BY GeoConstants DEF GeoInv, Touched

-----------------------------------------------------------------------------
\* What the steps outside the passes do to the table.
LEMMA CacheExpiresStep == ASSUME GeoInv, CacheExpires PROVE GeoInv' /\ Grown(georow, georow', geoids.last)
<1>1. PICK h \in DOMAIN cache : cache' = Restrict(cache, DOMAIN cache \ {h})
  BY DEF CacheExpires
<1>2. CacheOK(cache')
  BY <1>1 DEF GeoInv, CacheOK, Restrict
<1>3. TableOK(georow, geoids.last) /\ Grown(georow, georow, geoids.last)
  BY GrownSame DEF GeoInv
<1> QED  BY <1>2, <1>3, TouchedOK, TableMoves DEF CacheExpires

\* A new row comes after all others, and no walk owes it anything.
LEMMA NewRowStep == ASSUME GeoInv, NewRow PROVE GeoInv' /\ Grown(georow, georow', geoids.last)
<1> DEFINE id == geoids.last + 1
<1>1. PICK host \in GeoHosts, stamp \in SUBSET Facts :
        /\ Remembered(host, stamp)
        /\ georow' = [r \in DOMAIN georow \cup {id} |-> IF r = id THEN [host |-> host, facts |-> stamp] ELSE georow[r]]
  BY ResolvedFacts DEF NewRow
<1>2. /\ geoids' = [geoids EXCEPT !.last = geoids.last + 1, !.touches = geoids.touches + 1]
      /\ geoids \in [last : 0..MaxGeoId, touches : Nat, passes : Nat] /\ geoids.last < MaxGeoId
  BY DEF NewRow, GeoInv
<1>3. geoids' \in [last : 0..MaxGeoId, touches : Nat, passes : Nat] /\ geoids'.last = geoids.last + 1 /\ geoids.last \in Nat
  <2> DEFINE a == geoids.last + 1
             b == geoids.touches + 1
  <2>1. a \in 0..MaxGeoId /\ b \in Nat /\ geoids.last \in Nat
    BY <1>2, GeoConstants
  <2>2. geoids' = [geoids EXCEPT !.last = a, !.touches = b]
    BY <1>2
  <2> HIDE DEF a, b
  <2>3. geoids' \in [last : 0..MaxGeoId, touches : Nat, passes : Nat] /\ geoids'.last = a
    BY <1>2, <2>1, <2>2
  <2> QED  BY <2>1, <2>3 DEF a
<1>4. TableOK(georow, geoids.last) /\ CacheOK(cache)
  BY DEF GeoInv
<1>5. [host |-> host, facts |-> stamp] \in GeoRow
  BY DEF GeoRow
<1>6. TableOK(georow', geoids'.last)
  <2>1. DOMAIN georow' \subseteq 1..geoids'.last
    BY <1>1, <1>3, <1>4 DEF TableOK
  <2>2. georow' \in [DOMAIN georow' -> GeoRow]
    BY <1>1, <1>4, <1>5 DEF TableOK
  <2> QED  BY <2>1, <2>2 DEF TableOK
<1>7. Grown(georow, georow', geoids.last)
  <2>1. \A r \in 1..geoids.last : r # id
    BY <1>3
  <2> QED  BY <1>1, <2>1 DEF Grown
<1>8. CacheOK(cache')
  BY <1>1, <1>4, RememberedOK
<1> QED  BY <1>3, <1>6, <1>7, <1>8, TableMoves DEF NewRow

\* Ingestion and the card only add facts, a removal takes the row away.
LEMMA IngestedStep ==
  ASSUME GeoInv, NEW r \in DOMAIN georow, Ingested(r) \/ RowGone(r) \/ refresh_geo(r)
  PROVE  GeoInv' /\ Grown(georow, georow', geoids.last)
<1>1. TableOK(georow, geoids.last) /\ CacheOK(cache) /\ georow[r].host \in GeoHosts
  BY DEF GeoInv, TableOK, GeoRow
<1>2. Touched /\ UNCHANGED <<opened, pass>>
  BY DEF Ingested, RowGone, refresh_geo
<1>3. /\ geoids' \in [last : 0..MaxGeoId, touches : Nat, passes : Nat] /\ geoids'.last = geoids.last /\ geoids.last \in Nat
  BY <1>2, TouchedOK
<1>4. CASE Ingested(r)
  <2>1. PICK stamp \in SUBSET Facts : Remembered(georow[r].host, stamp) /\ georow' = update_geo(r, stamp)
    BY <1>1, <1>4, ResolvedFacts DEF Ingested
  <2>2. georow' = [georow EXCEPT ![r].facts = georow[r].facts \cup stamp]
    BY <2>1 DEF update_geo
  <2>3. CacheOK(cache')
    BY <1>1, <2>1, RememberedOK
  <2>4. TableOK(georow', geoids.last) /\ Grown(georow, georow', geoids.last)
    BY <1>1, <2>2, UpdatedRow
  <2> QED  BY <1>2, <1>3, <2>3, <2>4, TableMoves
<1>5. CASE RowGone(r)
  <2>1. georow' = [k \in DOMAIN georow \ {r} |-> georow[k]] /\ UNCHANGED cache
    BY <1>5 DEF RowGone, Restrict
  <2>2. TableOK(georow', geoids.last) /\ Grown(georow, georow', geoids.last)
    BY <1>1, <2>1 DEF TableOK, Grown
  <2> QED  BY <1>1, <1>2, <1>3, <2>1, <2>2, TableMoves
<1>6. CASE refresh_geo(r)
  <2>1. PICK stamp \in SUBSET Facts : georow' = update_geo(r, stamp)
    BY <1>1, <1>6, ResolvedFacts DEF refresh_geo
  <2>2. georow' = [georow EXCEPT ![r].facts = georow[r].facts \cup stamp] /\ UNCHANGED cache
    BY <1>6, <2>1 DEF update_geo, refresh_geo
  <2>4. TableOK(georow', geoids.last) /\ Grown(georow, georow', geoids.last)
    BY <1>1, <2>2, UpdatedRow
  <2> QED  BY <1>1, <1>2, <1>3, <2>2, <2>4, TableMoves
<1> QED  BY <1>4, <1>5, <1>6

\* A pass moves one walk.
LEMMA WalkMoves ==
  ASSUME GeoInv, NEW p \in Passes, NEW q \in Walks, pass' = [pass EXCEPT ![p] = q], UNCHANGED opened,
         geoids' \in [last : 0..MaxGeoId, touches : Nat, passes : Nat], geoids'.last = geoids.last,
         TableOK(georow', geoids.last), Grown(georow, georow', geoids.last), CacheOK(cache'),
         WalkOK(q, georow', geoids.last, fact_mask)
  PROVE  GeoInv'
<1>1. fact_mask' = fact_mask
  BY DEF fact_mask
<1>2. geoids.last \in Nat
  BY GeoConstants DEF GeoInv
<1>3. \A o \in Passes : WalkOK(pass[o], georow', geoids.last, fact_mask)
  BY <1>2, WalkStays DEF GeoInv
<1>4. pass' \in [Passes -> Walks] /\ \A o \in Passes : pass'[o] = IF o = p THEN q ELSE pass[o]
  BY DEF GeoInv
<1>5. \A o \in Passes : WalkOK(pass'[o], georow', geoids'.last, fact_mask')
  BY <1>1, <1>3, <1>4
<1> QED  BY <1>4, <1>5 DEF GeoInv

\* A pass begins at the start of the table and owes every row that misses a fact.
LEMMA PassBeginsStep == ASSUME GeoInv, NEW p \in Passes, PassBegins(p) PROVE GeoInv' /\ Grown(georow, georow', geoids.last)
<1> DEFINE due == {r \in DOMAIN georow : missing_geo_criterion(r)}
           none == [r \in 1..MaxGeoId |-> 0]
           q == [NoPass EXCEPT !.at = "list", !.due = due, !.asked = none]
<1>1. pass' = [pass EXCEPT ![p] = q] /\ UNCHANGED <<opened, georow, cache>> /\ geoids' = [geoids EXCEPT !.passes = geoids.passes + 1]
  BY DEF PassBegins
<1>2. TableOK(georow, geoids.last) /\ Grown(georow, georow, geoids.last) /\ CacheOK(cache) /\ geoids.last \in 0..MaxGeoId
      /\ geoids.passes \in Nat
  BY GrownSame DEF GeoInv
<1>3. geoids' \in [last : 0..MaxGeoId, touches : Nat, passes : Nat] /\ geoids'.last = geoids.last
  <2> DEFINE a == geoids.passes + 1
  <2>1. a \in Nat /\ geoids' = [geoids EXCEPT !.passes = a]
    BY <1>1, <1>2
  <2> HIDE DEF a
  <2> QED  BY <2>1 DEF GeoInv
<1>4. none \in Asked01 /\ \A r \in 1..MaxGeoId : none[r] = 0
  BY DEF Asked01
<1>5. due \subseteq 1..geoids.last /\ due \in SUBSET (1..MaxGeoId)
  BY <1>2, GeoConstants DEF TableOK
<1>6. \A r \in due : r > 0
  BY <1>2, <1>5, GeoConstants
<1>7. q \in Walks /\ q.at = "list" /\ q.cursor = 0 /\ q.asked = none /\ q.due = due
  <2> HIDE DEF due, none
  <2>1. NoPass.cursor = 0
    BY DEF NoPass
  <2> QED  BY <1>4, <1>5, <2>1, NoPassWalks DEF Walks
<1> HIDE DEF q, due, none
<1>8. WalkOK(q, georow, geoids.last, fact_mask)
  <2>1. \A r \in 1..MaxGeoId : q.asked[r] # 1
    BY <1>4, <1>7
  <2>2. \A r \in q.due : Ahead(q, r)
    BY <1>6, <1>7 DEF Ahead
  <2>3. q.at = "list" /\ q.asked \in Asked01 /\ q.due \subseteq 1..geoids.last
    BY <1>4, <1>5, <1>7
  <2> QED  BY <2>1, <2>2, <2>3 DEF WalkOK
<1> QED  BY <1>1, <1>2, <1>3, <1>7, <1>8, WalkMoves

\* What a pass has asked for after a page.
MoreAsked(asked, page, reached) == [r \in DOMAIN asked |-> asked[r] + Cardinality({i \in 1..reached : page[i] = r})]
\* A page without duplicates, none of it asked for before, is asked for once.
LEMMA AskedMore ==
  ASSUME NEW asked \in Asked01, NEW page \in Seq(1..MaxGeoId), NEW reached \in 0..Len(page),
         \A i, j \in DOMAIN page : page[i] = page[j] => i = j,
         \A i \in DOMAIN page : asked[page[i]] = 0
  PROVE  /\ MoreAsked(asked, page, reached) \in Asked01
         /\ \A r \in 1..MaxGeoId :
              MoreAsked(asked, page, reached)[r] = 1 => asked[r] = 1 \/ \E i \in DOMAIN page : page[i] = r
         /\ \A r \in 1..MaxGeoId : asked[r] = 1 => MoreAsked(asked, page, reached)[r] = 1
         /\ \A i \in 1..reached : MoreAsked(asked, page, reached)[page[i]] = 1
<1> DEFINE more == MoreAsked(asked, page, reached)
<1>1. DOMAIN asked = 1..MaxGeoId /\ DOMAIN page = 1..Len(page) /\ Len(page) \in Nat
      /\ \A i \in 1..reached : i \in DOMAIN page
  BY DEF Asked01
<1>2. ASSUME NEW r \in 1..MaxGeoId
      PROVE  /\ more[r] \in {0, 1}
             /\ more[r] = 1 => asked[r] = 1 \/ \E i \in DOMAIN page : page[i] = r
             /\ asked[r] = 1 => more[r] = 1
             /\ \A i \in 1..reached : page[i] = r => more[r] = 1
  <2> DEFINE places == {i \in 1..reached : page[i] = r}
  <2>0. more[r] = asked[r] + Cardinality(places) /\ asked[r] \in {0, 1}
    BY <1>1 DEF Asked01, MoreAsked
  <2> HIDE DEF more
  <2>1. CASE places = {}
    <3>1. Cardinality(places) = 0
      BY <2>1, FS_EmptySet
    <3> HIDE DEF places
    <3>2. more[r] = asked[r]
      BY <2>0, <3>1
    <3> QED  BY <2>0, <2>1, <3>2 DEF places
  <2>2. ASSUME NEW i \in places
        PROVE  /\ more[r] \in {0, 1}
               /\ more[r] = 1 => asked[r] = 1 \/ \E k \in DOMAIN page : page[k] = r
               /\ asked[r] = 1 => more[r] = 1
               /\ \A k \in 1..reached : page[k] = r => more[r] = 1
    <3>1. places = {i}
      BY <1>1, <2>2
    <3>2. Cardinality(places) = 1
      BY <3>1, FS_Singleton
    <3>3. asked[r] = 0 /\ i \in DOMAIN page /\ page[i] = r
      BY <1>1, <2>2
    <3>4. more[r] = 1
      BY <2>0, <3>2, <3>3
    <3> HIDE DEF places
    <3> QED  BY <3>3, <3>4
  <2> QED  BY <2>1, <2>2
<1>3. more \in Asked01
  <2>1. more = [r \in 1..MaxGeoId |-> more[r]]
    BY <1>1 DEF MoreAsked
  <2> HIDE DEF more
  <2> QED  BY <1>2, <2>1 DEF Asked01
<1>4. \A i \in 1..reached : page[i] \in 1..MaxGeoId
  <2> DEFINE ids == 1..MaxGeoId
  <2>1. page \in Seq(ids)
    OBVIOUS
  <2> HIDE DEF ids
  <2>2. \A i \in DOMAIN page : page[i] \in ids
    BY <2>1
  <2> QED  BY <1>1, <2>2 DEF ids
<1> QED  BY <1>2, <1>3, <1>4

\* A pass lists its next page and resolves its hosts, or ends.
LEMMA PassListsStep == ASSUME GeoInv, NEW p \in Passes, PassLists(p) PROVE GeoInv' /\ Grown(georow, georow', geoids.last)
<1> DEFINE w == pass[p]
           I == {r \in DOMAIN georow : r > w.cursor /\ missing_geo_criterion(r)}
           page == list_missing_geo(w.cursor, GeoBatch)
           last == geoids.last
<1>1. /\ w \in Walks /\ WalkOK(w, georow, last, fact_mask) /\ w.at = "list" /\ w.cursor \in Nat
      /\ UNCHANGED <<opened, georow, geoids>>
  BY DEF PassLists, GeoInv, Walks
<1>2. /\ TableOK(georow, last) /\ Grown(georow, georow, last) /\ CacheOK(cache) /\ last \in 0..MaxGeoId
      /\ geoids' \in [last : 0..MaxGeoId, touches : Nat, passes : Nat] /\ geoids'.last = last
  BY <1>1, GrownSame DEF GeoInv
<1>3. w.asked \in Asked01 /\ w.due \subseteq 1..last
  BY <1>1 DEF WalkOK
<1>4. I \in SUBSET (1..MaxGeoId) /\ I \in SUBSET Nat /\ IsFiniteSet(I)
  <2>1. I \subseteq 1..MaxGeoId
    BY <1>2, GeoConstants DEF TableOK
  <2>2. IsFiniteSet(1..MaxGeoId)
    BY GeoConstants, FS_Interval
  <2>3. IsFiniteSet(I)
    BY <2>1, <2>2, FS_Subset
  <2> QED  BY <2>1, <2>3, GeoConstants
<1>5. page = Ascending(Firsts(I, GeoBatch))
  BY DEF list_missing_geo
<1> HIDE DEF page
<1>6. /\ page \in Seq(I) /\ Len(page) \in Nat /\ DOMAIN page = 1..Len(page)
      /\ \A i, j \in DOMAIN page : page[i] = page[j] => i = j
      /\ page = << >> => I = {}
      /\ \A i \in DOMAIN page : page[i] <= page[Len(page)]
      /\ page # << >> => \A r \in I : r <= page[Len(page)] \/ Len(page) # GeoBatch => \E i \in DOMAIN page : page[i] = r
  BY <1>4, <1>5, GeoConstants, PageLists
<1>7. page \in Seq(1..MaxGeoId) /\ \A i \in DOMAIN page : page[i] \in I /\ page[i] \in DOMAIN georow /\ page[i] > w.cursor
  <2>1. \A i \in DOMAIN page : page[i] \in I
    <3> HIDE DEF I
    <3> QED  BY <1>6
  <2>2. \A i \in DOMAIN page : page[i] \in 1..MaxGeoId
    BY <1>4, <2>1
  <2>3. page \in [1..Len(page) -> 1..MaxGeoId]
    <3> HIDE DEF I
    <3>1. page = [i \in 1..Len(page) |-> page[i]]
      BY <1>6
    <3> QED  BY <1>6, <2>2, <3>1
  <2>4. page \in Seq(1..MaxGeoId)
    <3> DEFINE ids == 1..MaxGeoId
    <3>1. page \in [1..Len(page) -> ids] /\ Len(page) \in Nat
      BY <1>6, <2>3
    <3> HIDE DEF ids, I
    <3>2. page \in Seq(ids)
      BY <3>1
    <3> QED  BY <3>2 DEF ids
  <2> QED  BY <2>1, <2>4
<1>8. \A r \in w.due \cap DOMAIN georow : ~(fact_mask \subseteq georow[r].facts) /\ ~w.late => w.asked[r] = 1 \/ r \in I
  BY <1>1 DEF WalkOK, Ahead, missing_geo_criterion
<1>9. \A r \in 1..MaxGeoId : w.asked[r] = 1 => r <= w.cursor
  BY <1>1 DEF WalkOK
<1> HIDE DEF I
<1>10. \/ pass' = [pass EXCEPT ![p].at = "ended", ![p].cursor = 0, ![p].late = TRUE] /\ UNCHANGED cache
       \/ page = << >> /\ pass' = [pass EXCEPT ![p].at = "ended", ![p].cursor = 0] /\ UNCHANGED cache
       \/ page # << >> /\
          \E reached \in 0..Len(page) :
          \E stamps \in [1..reached -> UNION {resolve(georow[r].host) : r \in DOMAIN georow}] :
                      /\ \A i \in 1..reached : stamps[i] \in resolve(georow[page[i]].host)
                      /\ cache' = [h \in DOMAIN cache \cup {georow[page[i]].host : i \in 1..reached} |->
                            IF h \in DOMAIN cache THEN cache[h]
                            ELSE stamps[CHOOSE i \in 1..reached : georow[page[i]].host = h]]
                      /\ pass' = [pass EXCEPT ![p].at = "write", ![p].page = page,
                            ![p].stamps = [i \in DOMAIN page |-> IF i <= reached THEN stamps[i] ELSE {}],
                            ![p].full = Len(page) = GeoBatch, ![p].late = w.late \/ reached < Len(page),
                            ![p].asked = [r \in DOMAIN w.asked |-> w.asked[r] + Cardinality({i \in 1..reached : page[i] = r})]]
  <2>1. CASE page = << >>
    BY <2>1 DEF PassLists, page
  <2>2. CASE page # << >>
    BY <2>2 DEF PassLists, page
  <2> QED  BY <2>1, <2>2
<1>11. CASE pass' = [pass EXCEPT ![p].at = "ended", ![p].cursor = 0, ![p].late = TRUE] /\ UNCHANGED cache
  <2> DEFINE q == [w EXCEPT !.at = "ended", !.cursor = 0, !.late = TRUE]
  <2>1. pass' = [pass EXCEPT ![p] = q]
    BY <1>11
  <2>2. q \in Walks /\ q.at = "ended" /\ q.late = TRUE /\ q.asked = w.asked /\ q.due = w.due
    BY <1>1 DEF Walks
  <2> HIDE DEF q
  <2>3. WalkOK(q, georow, last, fact_mask)
    BY <1>3, <2>2 DEF WalkOK
  <2> QED  BY <1>1, <1>2, <1>11, <2>1, <2>2, <2>3, WalkMoves
<1>12. CASE page = << >> /\ pass' = [pass EXCEPT ![p].at = "ended", ![p].cursor = 0] /\ UNCHANGED cache
  <2> DEFINE q == [w EXCEPT !.at = "ended", !.cursor = 0]
  <2>1. pass' = [pass EXCEPT ![p] = q]
    BY <1>12
  <2>2. q \in Walks /\ q.at = "ended" /\ q.late = w.late /\ q.asked = w.asked /\ q.due = w.due
    BY <1>1 DEF Walks
  <2> HIDE DEF q
  <2>3. WalkOK(q, georow, last, fact_mask)
    BY <1>3, <1>6, <1>8, <1>12, <2>2 DEF WalkOK
  <2> QED  BY <1>1, <1>2, <1>12, <2>1, <2>2, <2>3, WalkMoves
<1>13. ASSUME page # << >>, NEW reached \in 0..Len(page),
              NEW stamps \in [1..reached -> UNION {resolve(georow[r].host) : r \in DOMAIN georow}],
              \A i \in 1..reached : stamps[i] \in resolve(georow[page[i]].host),
              cache' = [h \in DOMAIN cache \cup {georow[page[i]].host : i \in 1..reached} |->
                            IF h \in DOMAIN cache THEN cache[h]
                            ELSE stamps[CHOOSE i \in 1..reached : georow[page[i]].host = h]],
              pass' = [pass EXCEPT ![p].at = "write", ![p].page = page,
                            ![p].stamps = [i \in DOMAIN page |-> IF i <= reached THEN stamps[i] ELSE {}],
                            ![p].full = Len(page) = GeoBatch, ![p].late = w.late \/ reached < Len(page),
                            ![p].asked = [r \in DOMAIN w.asked |-> w.asked[r] + Cardinality({i \in 1..reached : page[i] = r})]]
       PROVE  GeoInv' /\ Grown(georow, georow', last)
  <2> DEFINE found == [i \in DOMAIN page |-> IF i <= reached THEN stamps[i] ELSE {}]
             full == Len(page) = GeoBatch
             late == w.late \/ reached < Len(page)
             more == [r \in DOMAIN w.asked |-> w.asked[r] + Cardinality({i \in 1..reached : page[i] = r})]
             q == [w EXCEPT !.at = "write", !.page = page, !.stamps = found, !.full = full, !.late = late, !.asked = more]
  <2>1. pass' = [pass EXCEPT ![p] = q]
    BY <1>13
  <2>2. \A i \in 1..reached : i \in DOMAIN page /\ georow[page[i]].host \in GeoHosts /\ stamps[i] \in SUBSET Facts
    <3>1. ASSUME NEW i \in 1..reached
          PROVE  i \in DOMAIN page /\ georow[page[i]].host \in GeoHosts /\ stamps[i] \in SUBSET Facts
      <4>1. i \in DOMAIN page
        BY <1>6, <3>1
      <4>2. georow[page[i]].host \in GeoHosts
        BY <1>2, <1>7, <4>1 DEF TableOK, GeoRow
      <4>3. stamps[i] \in resolve(georow[page[i]].host) /\ resolve(georow[page[i]].host) \subseteq SUBSET Facts
        BY <1>13, <3>1, <4>2, ResolvedFacts
      <4> QED  BY <4>1, <4>2, <4>3
    <3> QED  BY <3>1
  <2>3. CacheOK(cache')
    <3> DEFINE at(h) == CHOOSE i \in 1..reached : georow[page[i]].host = h
    <3>1. \A h \in {georow[page[i]].host : i \in 1..reached} : at(h) \in 1..reached
      OBVIOUS
    <3>2. cache' = [h \in DOMAIN cache \cup {georow[page[i]].host : i \in 1..reached} |->
                      IF h \in DOMAIN cache THEN cache[h] ELSE stamps[at(h)]]
      BY <1>13
    <3> HIDE DEF at
    <3> QED  BY <1>2, <2>2, <3>1, <3>2 DEF CacheOK
  <2>4. found \in Seq(SUBSET Facts) /\ Len(found) = Len(page)
    <3>1. \A i \in 1..Len(page) : i <= reached => i \in 1..reached
      BY <1>6
    <3>2. found \in [1..Len(page) -> SUBSET Facts]
      BY <1>6, <2>2, <3>1
    <3> QED  BY <1>6, <3>2
  <2>5. /\ more \in Asked01
        /\ \A r \in 1..MaxGeoId : more[r] = 1 => w.asked[r] = 1 \/ \E i \in DOMAIN page : page[i] = r
        /\ \A r \in 1..MaxGeoId : w.asked[r] = 1 => more[r] = 1
        /\ \A i \in 1..reached : more[page[i]] = 1
    <3>1. ASSUME NEW i \in DOMAIN page
          PROVE  w.asked[page[i]] = 0
      <4>1. page[i] \in 1..MaxGeoId /\ page[i] > w.cursor
        BY <1>4, <1>7
      <4> QED  BY <1>1, <1>3, <1>9, <4>1, GeoConstants DEF Asked01
    <3> HIDE DEF more
    <3>2. more = [r \in DOMAIN w.asked |-> w.asked[r] + Cardinality({i \in 1..reached : page[i] = r})]
      BY DEF more
    <3> HIDE DEF w
    <3>3. w.asked \in Asked01 /\ page \in Seq(1..MaxGeoId) /\ \A i, j \in DOMAIN page : page[i] = page[j] => i = j
      BY <1>3, <1>6, <1>7
    <3>4. reached \in 0..Len(page)
      OBVIOUS
    <3> DEFINE asked == w.asked
    <3>5. asked \in Asked01 /\ (\A i \in DOMAIN page : asked[page[i]] = 0)
          /\ more = MoreAsked(asked, page, reached)
      BY <3>1, <3>2, <3>3 DEF MoreAsked
    <3> HIDE DEF asked
    <3>6. /\ more \in Asked01
          /\ \A r \in 1..MaxGeoId : more[r] = 1 => asked[r] = 1 \/ \E i \in DOMAIN page : page[i] = r
          /\ \A r \in 1..MaxGeoId : asked[r] = 1 => more[r] = 1
          /\ \A i \in 1..reached : more[page[i]] = 1
      BY <3>3, <3>4, <3>5, AskedMore
    <3> QED  BY <3>6 DEF asked
  <2>6. full \in BOOLEAN /\ late \in BOOLEAN /\ (~late => ~w.late /\ reached = Len(page))
    <3>1. w.late \in BOOLEAN
      BY <1>1 DEF Walks
    <3>2. Len(page) \in Nat
      BY <1>6
    <3>3. ~(reached < Len(page)) => reached = Len(page)
      BY <3>2
    <3> QED  BY <3>1, <3>3
  <2> HIDE DEF found, full, late, more, w
  <2>7. /\ q.at = "write" /\ q.cursor = w.cursor /\ q.page = page /\ q.stamps = found /\ q.full = full /\ q.late = late
        /\ q.due = w.due /\ q.asked = more
    BY <1>1 DEF Walks
  <2>8. q \in Walks
    BY <1>1, <1>7, <2>4, <2>5, <2>6 DEF Walks
  <2> HIDE DEF q
  <2>9. ASSUME ~late, NEW r \in w.due \cap DOMAIN georow, ~(fact_mask \subseteq georow[r].facts)
        PROVE  more[r] = 1 \/ (full /\ r > w.cursor /\ r > page[Len(page)])
    <3>1. r \in 1..MaxGeoId /\ (w.asked[r] = 1 \/ r \in I)
      BY <1>1, <1>8, <2>6, <2>9 DEF Walks
    <3>2. CASE w.asked[r] = 1
      BY <2>5, <3>1, <3>2
    <3>3. CASE r \in I /\ (r <= page[Len(page)] \/ Len(page) # GeoBatch)
      <4>1. PICK i \in DOMAIN page : page[i] = r
        BY <1>6, <1>13, <3>3
      <4>2. i \in 1..reached
        BY <1>6, <2>6, <2>9, <4>1
      <4> QED  BY <2>5, <4>1, <4>2
    <3>4. CASE r \in I /\ ~(r <= page[Len(page)]) /\ Len(page) = GeoBatch
      <4>1. Len(page) \in DOMAIN page
        <5>1. page # << >> => Len(page) # 0
          BY <1>6
        <5>2. Len(page) \in Nat /\ DOMAIN page = 1..Len(page)
          BY <1>6
        <5> DEFINE n == Len(page)
        <5>3. n # 0 /\ n \in Nat
          BY <1>13, <5>1, <5>2
        <5> HIDE DEF n
        <5>4. n \in 1..n
          BY <5>3
        <5> QED  BY <5>2, <5>4 DEF n
      <4>2. page[Len(page)] \in 1..MaxGeoId
        BY <1>4, <1>7, <4>1
      <4>3. r > w.cursor
        BY <3>4 DEF I
      <4> QED  BY <3>1, <3>4, <4>2, <4>3, GeoConstants DEF full
    <3> QED  BY <3>1, <3>2, <3>3, <3>4
  <2>10. \A r \in 1..MaxGeoId : more[r] = 1 => r <= w.cursor \/ r <= page[Len(page)]
    BY <1>6, <1>9, <2>5
  <2>11. WalkOK(q, georow, last, fact_mask)
    BY <1>3, <1>6, <1>13, <2>4, <2>5, <2>7, <2>9, <2>10 DEF WalkOK, Ahead
  <2> QED  BY <1>1, <1>2, <2>1, <2>3, <2>8, <2>11, WalkMoves
<1> QED  BY <1>10, <1>11, <1>12, <1>13

\* The rest of a list.
LEMMA Rest ==
  ASSUME NEW S, NEW list \in Seq(S), list # << >>
  PROVE  /\ Len(list) \in Nat \ {0} /\ Head(list) = list[1] /\ list[1] \in S /\ list[Len(list)] \in S
         /\ Tail(list) \in Seq(S) /\ Len(Tail(list)) = Len(list) - 1
         /\ \A i \in 1..Len(list) - 1 : Tail(list)[i] = list[i + 1]
<1>1. Len(list) \in Nat \ {0} /\ DOMAIN list = 1..Len(list)
  OBVIOUS
<1> DEFINE n == Len(list)
<1>2. 1 \in 1..n /\ n \in 1..n
  <2> HIDE DEF n
  <2>1. n \in Nat \ {0}
    BY <1>1 DEF n
  <2> QED  BY <2>1
<1>3. list[1] \in S /\ list[n] \in S
  BY <1>1, <1>2
<1> QED  BY <1>1, <1>3

\* A pass writes one stamp, and its cursor follows at the end of the page.
LEMMA PassWritesStep == ASSUME GeoInv, NEW p \in Passes, PassWrites(p) PROVE GeoInv' /\ Grown(georow, georow', geoids.last)
<1> DEFINE w == pass[p]
           last == geoids.last
           page == w.page
           r == Head(page)
           stamp == Head(w.stamps)
           n == Len(page)
           alone == n = 1
           next == IF alone /\ ~w.full THEN 0 ELSE CursorAfter(w.cursor, r, stamp)
           pc == IF ~alone THEN "write" ELSE IF w.full THEN "list" ELSE "ended"
           q == [w EXCEPT !.cursor = next, !.page = Tail(page), !.stamps = Tail(w.stamps), !.at = pc]
<1>1. /\ w \in Walks /\ WalkOK(w, georow, last, fact_mask) /\ w.at = "write"
      /\ TableOK(georow, last) /\ CacheOK(cache) /\ last \in Nat /\ UNCHANGED <<opened, cache>>
      /\ w.cursor \in Nat /\ page \in Seq(1..MaxGeoId) /\ w.stamps \in Seq(SUBSET Facts)
  BY GeoConstants DEF PassWrites, GeoInv, Walks
<1>2. /\ w.asked \in Asked01 /\ w.due \subseteq 1..last /\ page # << >> /\ Len(w.stamps) = n
      /\ \A i \in 1..n : page[i] <= page[n]
      /\ \A k \in 1..MaxGeoId : w.asked[k] = 1 => k <= w.cursor \/ k <= page[n]
      /\ ~w.late => \A k \in w.due \cap DOMAIN georow : ~(fact_mask \subseteq georow[k].facts) =>
             w.asked[k] = 1 \/ (w.full /\ k > w.cursor /\ k > page[n])
  BY <1>1 DEF WalkOK, Ahead
<1>3. pass' = [pass EXCEPT ![p] = q]
  BY DEF PassWrites
<1> HIDE DEF w
<1>4. /\ n \in Nat \ {0} /\ r = page[1] /\ page[1] \in Nat /\ page[n] \in Nat /\ page[1] <= page[n]
      /\ Tail(page) \in Seq(1..MaxGeoId) /\ Len(Tail(page)) = n - 1
      /\ \A i \in 1..n - 1 : Tail(page)[i] = page[i + 1]
  <2> DEFINE ids == 1..MaxGeoId
  <2>1. page \in Seq(ids) /\ page # << >>
    BY <1>1, <1>2
  <2>2. ids \subseteq Nat
    BY GeoConstants
  <2> HIDE DEF ids
  <2>3. /\ n \in Nat \ {0} /\ r = page[1] /\ page[1] \in ids /\ page[n] \in ids
        /\ Tail(page) \in Seq(ids) /\ Len(Tail(page)) = n - 1
        /\ \A i \in 1..n - 1 : Tail(page)[i] = page[i + 1]
    BY <2>1, Rest
  <2>4. 1 \in 1..n
    BY <2>3
  <2> QED  BY <1>2, <2>2, <2>3, <2>4 DEF ids
<1>5. w.stamps # << >> /\ stamp \in SUBSET Facts /\ Tail(w.stamps) \in Seq(SUBSET Facts) /\ Len(Tail(w.stamps)) = n - 1
  <2> DEFINE S == SUBSET Facts
  <2>1. w.stamps \in Seq(S)
    BY <1>1
  <2> HIDE DEF S
  <2>2. w.stamps # << >>
    BY <1>2, <1>4, <2>1
  <2>3. stamp \in S /\ Tail(w.stamps) \in Seq(S) /\ Len(Tail(w.stamps)) = n - 1
    BY <1>2, <2>1, <2>2, Rest
  <2> QED  BY <2>2, <2>3 DEF S
<1>6. /\ TableOK(georow', last) /\ Grown(georow, georow', last)
      /\ geoids' \in [last : 0..MaxGeoId, touches : Nat, passes : Nat] /\ geoids'.last = last
  <2>1. \/ georow' = (IF r \in DOMAIN georow THEN update_geo(r, stamp) ELSE georow) /\ UNCHANGED geoids
        \/ UNCHANGED georow /\ Touched
    BY DEF PassWrites, w
  <2>2. geoids' \in [last : 0..MaxGeoId, touches : Nat, passes : Nat] /\ geoids'.last = last
    BY <2>1, TouchedOK DEF GeoInv
  <2>3. CASE UNCHANGED georow
    BY <1>1, <2>2, <2>3, GrownSame
  <2>4. CASE r \in DOMAIN georow /\ georow' = update_geo(r, stamp)
    <3>1. georow' = [georow EXCEPT ![r].facts = georow[r].facts \cup stamp]
      BY <2>4 DEF update_geo
    <3> HIDE DEF r, stamp, last
    <3>2. TableOK(georow, last) /\ r \in DOMAIN georow /\ stamp \in SUBSET Facts
      BY <1>1, <1>5, <2>4
    <3>3. TableOK(georow', last) /\ Grown(georow, georow', last)
      BY <3>1, <3>2, UpdatedRow
    <3> QED  BY <2>2, <3>3
  <2> QED  BY <2>1, <2>3, <2>4
<1>7. CASE ~alone
  <2>1. next \in Nat /\ next >= w.cursor /\ next >= page[1] /\ (next = w.cursor \/ next = page[1]) /\ pc = "write"
    BY <1>1, <1>4, <1>7 DEF CursorAfter
  <2> HIDE DEF next, pc
  <2>2. /\ q \in Walks /\ q.at = "write" /\ q.cursor = next /\ q.page = Tail(page) /\ q.stamps = Tail(w.stamps)
        /\ q.full = w.full /\ q.late = w.late /\ q.due = w.due /\ q.asked = w.asked
    BY <1>1, <1>4, <1>5, <2>1 DEF Walks
  <2> DEFINE rest == Tail(page)
  <2> HIDE DEF q
  <2>3. n - 1 \in Nat \ {0} /\ n - 1 \in 1..n - 1
    <3>1. n \in Nat \ {0} /\ n # 1
      BY <1>4, <1>7
    <3> HIDE DEF n
    <3> QED  BY <3>1
  <2>4. rest # << >> /\ rest[n - 1] = page[n] /\ Len(rest) = n - 1 /\ Len(Tail(w.stamps)) = n - 1
    <3>1. rest[n - 1] = page[(n - 1) + 1] /\ Len(rest) = n - 1
      BY <1>4, <2>3
    <3>2. (n - 1) + 1 = n
      BY <1>4
    <3> HIDE DEF rest
    <3>3. rest # << >>
      BY <2>3, <3>1
    <3> QED  BY <1>5, <3>1, <3>2, <3>3
  <2>5. \A i \in 1..n - 1 : rest[i] <= page[n]
    <3>1. \A i \in 1..n - 1 : i + 1 \in 1..n /\ rest[i] = page[i + 1]
      BY <1>4
    <3> QED  BY <1>2, <3>1
  <2>6. \A k \in 1..MaxGeoId : w.asked[k] = 1 => k <= next \/ k <= page[n]
    BY <1>1, <1>2, <1>4, <2>1, GeoConstants
  <2>7. ~w.late => \A k \in w.due \cap DOMAIN georow : ~(fact_mask \subseteq georow[k].facts) =>
             w.asked[k] = 1 \/ (w.full /\ k > next /\ k > page[n])
    <3>1. \A k \in 1..last : k > w.cursor /\ k > page[n] => k > next
      BY <1>1, <1>4, <2>1
    <3> QED  BY <1>2, <3>1
  <2> HIDE DEF rest
  <2>8. WalkOK(q, georow, last, fact_mask)
    BY <1>2, <2>2, <2>4, <2>5, <2>6, <2>7 DEF WalkOK, Ahead, rest
  <2>9. WalkOK(q, georow', last, fact_mask)
    BY <1>1, <1>6, <2>2, <2>8, WalkStays
  <2> QED  BY <1>1, <1>3, <1>6, <2>2, <2>9, WalkMoves
<1>8. CASE alone /\ w.full
  <2>1. next \in Nat /\ next >= w.cursor /\ next >= page[n] /\ (next = w.cursor \/ next = page[n]) /\ pc = "list"
    BY <1>1, <1>4, <1>8 DEF CursorAfter
  <2> HIDE DEF next, pc
  <2>2. /\ q \in Walks /\ q.at = "list" /\ q.cursor = next
        /\ q.full = w.full /\ q.late = w.late /\ q.due = w.due /\ q.asked = w.asked
    BY <1>1, <1>4, <1>5, <2>1 DEF Walks
  <2> HIDE DEF q
  <2>6. \A k \in 1..MaxGeoId : w.asked[k] = 1 => k <= next
    <3> SUFFICES ASSUME NEW k \in 1..MaxGeoId, w.asked[k] = 1 PROVE k <= next
      OBVIOUS
    <3>1. k <= w.cursor \/ k <= page[n]
      BY <1>2
    <3>2. k \in Nat /\ w.cursor \in Nat /\ page[n] \in Nat
      BY <1>1, <1>4, GeoConstants
    <3> QED  BY <2>1, <3>1, <3>2
  <2>7. ~w.late => \A k \in w.due \cap DOMAIN georow : ~(fact_mask \subseteq georow[k].facts) =>
             w.asked[k] = 1 \/ k > next
    <3>1. \A k \in 1..last : k > w.cursor /\ k > page[n] => k > next
      BY <1>1, <1>4, <2>1
    <3> QED  BY <1>2, <3>1
  <2>8. WalkOK(q, georow, last, fact_mask)
    BY <1>2, <2>2, <2>6, <2>7 DEF WalkOK, Ahead
  <2>9. WalkOK(q, georow', last, fact_mask)
    BY <1>1, <1>6, <2>2, <2>8, WalkStays
  <2> QED  BY <1>1, <1>3, <1>6, <2>2, <2>9, WalkMoves
<1>9. CASE alone /\ ~w.full
  <2>1. next = 0 /\ pc = "ended"
    BY <1>9
  <2> HIDE DEF next, pc
  <2>2. /\ q \in Walks /\ q.at = "ended"
        /\ q.late = w.late /\ q.due = w.due /\ q.asked = w.asked
    BY <1>1, <1>4, <1>5, <2>1 DEF Walks
  <2> HIDE DEF q
  <2>8. WalkOK(q, georow, last, fact_mask)
    BY <1>2, <1>9, <2>2 DEF WalkOK
  <2>9. WalkOK(q, georow', last, fact_mask)
    BY <1>1, <1>6, <2>2, <2>8, WalkStays
  <2> QED  BY <1>1, <1>3, <1>6, <2>2, <2>9, WalkMoves
<1> QED  BY <1>7, <1>8, <1>9

\* Every step keeps the invariant, and every row its facts.
LEMMA StepGeo == GeoInv /\ [GeoNext]_geoVars => GeoInv' /\ Grown(georow, georow', geoids.last)
<1> SUFFICES ASSUME GeoInv, [GeoNext]_geoVars PROVE GeoInv' /\ Grown(georow, georow', geoids.last)
  OBVIOUS
<1>1. CASE UNCHANGED geoVars
  <2>1. TableOK(georow, geoids.last)
    BY DEF GeoInv
  <2>2. fact_mask' = fact_mask
    BY <1>1 DEF geoVars, fact_mask
  <2>3. UNCHANGED <<opened, georow, cache, pass, geoids>>
    BY <1>1 DEF geoVars
  <2> QED  BY <2>1, <2>2, <2>3, GrownSame DEF GeoInv
<1>2. CASE CacheExpires \/ NewRow
  BY <1>2, CacheExpiresStep, NewRowStep
<1>3. ASSUME NEW r \in DOMAIN georow, Ingested(r) \/ RowGone(r) \/ refresh_geo(r)
      PROVE  GeoInv' /\ Grown(georow, georow', geoids.last)
  BY <1>3, IngestedStep
<1>4. ASSUME NEW p \in Passes, PassBegins(p) \/ PassLists(p) \/ PassWrites(p)
      PROVE  GeoInv' /\ Grown(georow, georow', geoids.last)
  BY <1>4, PassBeginsStep, PassListsStep, PassWritesStep
<1> QED  BY <1>1, <1>2, <1>3, <1>4 DEF GeoNext

\* A pass that ended has asked for each row it owed, once.
LEMMA GeoSafe == GeoInv => PassAsksOnce
<1> SUFFICES ASSUME GeoInv, NEW p \in Passes
             PROVE  /\ \A r \in DOMAIN pass[p].asked : pass[p].asked[r] <= 1
                    /\ pass[p].at = "ended" /\ ~pass[p].late =>
                          \A r \in pass[p].due \cap DOMAIN georow : missing_geo_criterion(r) => pass[p].asked[r] = 1
  BY DEF PassAsksOnce
<1>1. WalkOK(pass[p], georow, geoids.last, fact_mask)
  BY DEF GeoInv
<1>2. CASE pass[p].at = "none"
  BY <1>1, <1>2 DEF WalkOK
<1>3. CASE pass[p].at # "none"
  <2>1. \A r \in DOMAIN pass[p].asked : pass[p].asked[r] <= 1
    <3>1. pass[p].asked \in Asked01
      BY <1>1, <1>3 DEF WalkOK
    <3>2. \A r \in DOMAIN pass[p].asked : pass[p].asked[r] \in {0, 1}
      BY <3>1 DEF Asked01
    <3>3. \A k \in {0, 1} : k <= 1
      OBVIOUS
    <3> QED  BY <3>2, <3>3
  <2>2. \A r : pass[p].at = "ended" => ~Ahead(pass[p], r)
    BY DEF Ahead
  <2> QED  BY <1>1, <1>3, <2>1, <2>2 DEF WalkOK, missing_geo_criterion
<1> QED  BY <1>2, <1>3

\* A row never loses a fact, and a pass asks for each row that misses one once,
\* whatever ingestion, removals, the card and the other pass do meanwhile
\* (update_geo, run_backfill).
THEOREM FactsAreKept == GeoSpec => FactsAreCollected
<1>1. GeoInit => GeoInv
  BY InitGeo
<1>2. GeoInv /\ [GeoNext]_geoVars => GeoInv'
  BY StepGeo
<1>3. GeoSpec => []GeoInv
  BY <1>1, <1>2, PTL DEF GeoSpec
<1>4. ASSUME GeoInv, [GeoNext]_geoVars
      PROVE  [\A r \in DOMAIN georow \cap DOMAIN georow' : georow[r].facts \subseteq georow'[r].facts]_geoVars
  <2>1. Grown(georow, georow', geoids.last)
    BY <1>4, StepGeo
  <2>2. DOMAIN georow \subseteq 1..geoids.last
    BY <1>4 DEF GeoInv, TableOK
  <2> QED  BY <2>1, <2>2 DEF Grown
<1>5. GeoSpec => FactsNeverVanish
  BY <1>3, <1>4, PTL DEF GeoSpec, FactsNeverVanish
<1>6. GeoSpec => []PassAsksOnce
  BY <1>3, GeoSafe, PTL
<1> QED  BY <1>5, <1>6, PTL DEF FactsAreCollected

-----------------------------------------------------------------------------
(* The database downloads.                                                  *)

\* The files and what they may hold.
Kinds == {"City", "ASN"}
Contents == [type : {"absent", "page"} \cup Kinds, whole : BOOLEAN, old : BOOLEAN]
FilesOK == installed \in [Kinds -> Contents] /\ partial \in [Kinds \X Starts -> Contents]

\* A start that is about to rename has a whole file of its kind.
DownloadInv ==
    /\ FilesOK
    /\ starting \in [Starts -> [at : {"down", "done", "check", "request", "body", "verify", "rename"},
                                file : {1, 2}]]
    /\ \A p \in Starts : starting[p].at = "rename" => verified_mmdb(partial[Temporary(p)], Kind(p))

\* Each start downloads databases only.
LEMMA KindIsKind ==
  ASSUME DownloadInv, NEW p \in Starts
  PROVE  Kind(p) \in Kinds
BY DEF DownloadInv, Kind, Kinds, DatabaseKinds

\* Moving one start on and writing no temporary file but its own keeps the
\* invariant, if the start does not move to its rename.
LEMMA OneStart ==
  ASSUME DownloadInv, FilesOK', NEW p \in Starts,
         NEW to \in [at : {"down", "done", "check", "request", "body", "verify"}, file : {1, 2}],
         starting' = [starting EXCEPT ![p] = to],
         \A q \in Starts \ {p}, k \in Kinds : partial'[<<k, q>>] = partial[<<k, q>>]
  PROVE  DownloadInv'
<1>1. starting'[p].at # "rename" /\ \A q \in Starts \ {p} : starting'[q] = starting[q]
  BY DEF DownloadInv
<1>2. \A q \in Starts \ {p} : Kind(q)' = Kind(q) /\ Kind(q) \in Kinds
  BY <1>1, KindIsKind DEF Kind
<1>3. \A q \in Starts \ {p} : Temporary(q)' = Temporary(q)
                              /\ partial'[Temporary(q)] = partial[Temporary(q)]
  BY <1>2 DEF Temporary, tmp_path
<1> QED  BY <1>1, <1>2, <1>3 DEF DownloadInv, verified_mmdb

\* Finished moves to the next file, or to done.
LEMMA FinishedMoves ==
  ASSUME DownloadInv, NEW p \in Starts, Finished(p)
  PROVE  \E to \in [at : {"down", "done", "check", "request", "body", "verify"}, file : {1, 2}] :
            starting' = [starting EXCEPT ![p] = to]
<1> DEFINE to == [at |-> IF starting[p].at = "down" THEN "down" ELSE IF starting[p].file = 2 THEN "done" ELSE "check",
                  file |-> IF starting[p].file = 2 THEN 2 ELSE starting[p].file + 1]
<1>1. /\ starting[p].file \in {1, 2}
      /\ starting[p].at \in {"down", "done", "check", "request", "body", "verify", "rename"}
      /\ starting[p] = [at |-> starting[p].at, file |-> starting[p].file]
      /\ p \in DOMAIN starting
  BY DEF DownloadInv
<1>2. to \in [at : {"down", "done", "check", "request", "body", "verify"}, file : {1, 2}]
  BY <1>1
<1>3. starting' = [starting EXCEPT ![p] = to]
  <2>1. starting' = [starting EXCEPT ![p] = [[@ EXCEPT !.at = to.at] EXCEPT !.file = to.file]]
    BY <1>1 DEF Finished
  <2>2. [[starting[p] EXCEPT !.at = to.at] EXCEPT !.file = to.file] = to
    BY <1>1
  <2> QED  BY <2>1, <2>2
<1> QED  BY <1>2, <1>3

\* Every file is absent, a page, or a database of some kind.
LEMMA FilesStay ==
  ASSUME DownloadInv, [DownloadNext]_downloadVars
  PROVE  FilesOK'
<1>1. FilesOK /\ AbsentFile \in Contents /\ Served \subseteq Contents
  BY DEF DownloadInv, AbsentFile, Served, Contents, Kinds
<1>2. \A p \in Starts : Temporary(p) \in Kinds \X Starts /\ Kind(p) \in Kinds
  BY KindIsKind DEF Temporary, tmp_path
<1>3. \A c \in Contents, b \in BOOLEAN : [c EXCEPT !.whole = b] \in Contents /\ [c EXCEPT !.old = b] \in Contents
  BY DEF Contents
<1>4. CASE UNCHANGED downloadVars
  BY <1>1, <1>4 DEF downloadVars, FilesOK
<1>5. CASE MonthPasses
  <2>1. PICK k \in Kinds : installed' = [installed EXCEPT ![k] = [installed[k] EXCEPT !.old = TRUE]]
    BY <1>5 DEF MonthPasses, Kinds
  <2>2. [installed[k] EXCEPT !.old = TRUE] \in Contents
    BY <1>1, <1>3 DEF FilesOK
  <2> QED  BY <1>1, <1>5, <2>1, <2>2 DEF MonthPasses, FilesOK
<1>6. ASSUME NEW p \in Starts, \/ Begin(p) \/ Killed(p) \/ ensure_one(p) \/ ResponseArrives(p)
                                \/ DownloadFails(p) \/ Verify(p)
      PROVE  FilesOK'
  BY <1>1, <1>2, <1>6 DEF Begin, Killed, ensure_one, ResponseArrives, DownloadFails, Verify, FilesOK
<1>7. ASSUME NEW p \in Starts, BodyEnds(p)
      PROVE  FilesOK'
  <2>1. PICK b \in BOOLEAN : partial' = [partial EXCEPT ![Temporary(p)] = [partial[Temporary(p)] EXCEPT !.whole = b]]
    BY <1>7 DEF BodyEnds
  <2> QED  BY <1>1, <1>2, <1>3, <1>7, <2>1 DEF BodyEnds, FilesOK
<1>8. ASSUME NEW p \in Starts, Rename(p)
      PROVE  FilesOK'
  BY <1>1, <1>2, <1>8 DEF Rename, FilesOK
<1> QED  BY <1>4, <1>5, <1>6, <1>7, <1>8 DEF DownloadNext

\* The first state and every step.
LEMMA InitDownload == DownloadInit => DownloadInv
<1> SUFFICES ASSUME DownloadInit PROVE DownloadInv
  OBVIOUS
<1>1. AbsentFile \in Contents /\ FirstFiles \subseteq Contents
  BY DEF AbsentFile, FirstFiles, Contents, Kinds
<1>2. FilesOK
  BY <1>1 DEF DownloadInit, FilesOK, Kinds
<1> QED  BY <1>2 DEF DownloadInit, DownloadInv, Stopped

LEMMA StepDownload == DownloadInv /\ [DownloadNext]_downloadVars => DownloadInv'
<1> SUFFICES ASSUME DownloadInv, [DownloadNext]_downloadVars PROVE DownloadInv'
  OBVIOUS
<1> DEFINE Safe == [at : {"down", "done", "check", "request", "body", "verify"}, file : {1, 2}]
<1>0. FilesOK'
  BY FilesStay
<1>1. CASE UNCHANGED <<partial, starting>>
  BY <1>0, <1>1 DEF DownloadInv, Temporary, tmp_path, Kind
<1>2. ASSUME NEW p \in Starts, Begin(p) \/ Killed(p)
      PROVE  DownloadInv'
  <2>1. PICK to \in Safe : starting' = [starting EXCEPT ![p] = to]
    BY <1>2 DEF Begin, Killed, Stopped
  <2>2. partial' = partial
    BY <1>2 DEF Begin, Killed
  <2> QED  BY <1>0, <2>1, <2>2, OneStart
<1>3. ASSUME NEW p \in Starts, ensure_one(p) \/ ResponseArrives(p) \/ BodyEnds(p) \/ DownloadFails(p)
      PROVE  DownloadInv'
  <2>1. \E to \in Safe : starting' = [starting EXCEPT ![p] = to]
    <3>1. CASE Finished(p)
      BY <3>1, FinishedMoves
    <3>2. CASE \E at \in {"request", "body", "verify"} : Step(p, at)
      <4>1. PICK at \in {"request", "body", "verify"} : Step(p, at)
        BY <3>2
      <4>2. [starting[p] EXCEPT !.at = at] \in Safe
        BY DEF DownloadInv
      <4> QED  BY <4>1, <4>2 DEF Step, DownloadInv
    <3> QED  BY <1>3, <3>1, <3>2 DEF ensure_one, ResponseArrives, BodyEnds, DownloadFails
  <2>2. \A q \in Starts \ {p}, k \in Kinds : partial'[<<k, q>>] = partial[<<k, q>>]
    <3>1. partial' = partial \/ \E c : partial' = [partial EXCEPT ![Temporary(p)] = c]
      BY <1>3 DEF ensure_one, ResponseArrives, BodyEnds, DownloadFails
    <3>2. Temporary(p) = <<Kind(p), p>>
      BY DEF Temporary, tmp_path
    <3> QED  BY <3>1, <3>2 DEF DownloadInv, FilesOK
  <2> QED  BY <1>0, <2>1, <2>2, OneStart
<1>4. ASSUME NEW p \in Starts, Verify(p)
      PROVE  DownloadInv'
  <2>1. CASE verified_mmdb(partial[Temporary(p)], Kind(p))
    <3>1. Step(p, "rename") /\ partial' = partial
      BY <1>4, <2>1 DEF Verify
    <3>2. \A q \in Starts : starting'[q].file = starting[q].file /\ (q # p => starting'[q] = starting[q])
      BY <3>1 DEF Step, DownloadInv
    <3>3. \A q \in Starts : Kind(q)' = Kind(q) /\ Temporary(q)' = Temporary(q)
      BY <3>2 DEF Kind, Temporary, tmp_path
    <3>4. starting' \in [Starts -> [at : {"down", "done", "check", "request", "body", "verify", "rename"},
                                    file : {1, 2}]]
      BY <3>1 DEF Step, DownloadInv
    <3> QED  BY <1>0, <2>1, <3>1, <3>2, <3>3, <3>4 DEF DownloadInv, verified_mmdb
  <2>2. CASE ~verified_mmdb(partial[Temporary(p)], Kind(p))
    <3>1. Finished(p) /\ partial' = [partial EXCEPT ![Temporary(p)] = AbsentFile]
      BY <1>4, <2>2 DEF Verify
    <3>2. \A q \in Starts \ {p}, k \in Kinds : partial'[<<k, q>>] = partial[<<k, q>>]
      BY <3>1, KindIsKind DEF Temporary, tmp_path
    <3> QED  BY <1>0, <3>1, <3>2, FinishedMoves, OneStart
  <2> QED  BY <2>1, <2>2
<1>5. ASSUME NEW p \in Starts, Rename(p)
      PROVE  DownloadInv'
  <2>1. Finished(p) /\ partial' = [partial EXCEPT ![Temporary(p)] = AbsentFile]
    BY <1>5 DEF Rename
  <2>2. \A q \in Starts \ {p}, k \in Kinds : partial'[<<k, q>>] = partial[<<k, q>>]
    BY <2>1, KindIsKind DEF Temporary, tmp_path
  <2> QED  BY <1>0, <2>1, <2>2, FinishedMoves, OneStart
<1> QED  BY <1>1, <1>2, <1>3, <1>4, <1>5 DEF DownloadNext, MonthPasses, downloadVars

\* What Verify found in a temporary file is what Rename finds there, whatever
\* other starts do in between (verified_mmdb, tmp_path).
THEOREM VerifiedUntilRenamed == DownloadSpec => []DownloadInv
<1>1. DownloadInit => DownloadInv
  BY InitDownload
<1>2. DownloadInv /\ [DownloadNext]_downloadVars => DownloadInv'
  BY StepDownload
<1> QED  BY <1>1, <1>2, PTL DEF DownloadSpec

\* A database's name only ever receives a whole file of its own kind
\* (ensure_one).
THEOREM OnlyVerifiedInstalled == DownloadSpec => InstalledIsVerified
<1>1. ASSUME DownloadInv, [DownloadNext]_downloadVars, NEW k \in Kinds,
             installed'[k].type # installed[k].type \/ installed'[k].whole # installed[k].whole
      PROVE  installed'[k].type = k /\ installed'[k].whole
  <2>1. installed' # installed
    BY <1>1
  <2>2. CASE MonthPasses
    <3>1. PICK j \in Kinds : installed' = [installed EXCEPT ![j].old = TRUE]
      BY <2>2 DEF MonthPasses, Kinds
    <3>2. installed'[k].type = installed[k].type /\ installed'[k].whole = installed[k].whole
      BY <1>1, <3>1 DEF DownloadInv, FilesOK, Contents
    <3> QED  BY <1>1, <3>2
  <2>3. CASE \E p \in Starts : Rename(p)
    <3>1. PICK p \in Starts : Rename(p)
      BY <2>3
    <3>2. installed' = [installed EXCEPT ![Kind(p)] = partial[Temporary(p)]]
      BY <2>1, <3>1 DEF Rename
    <3>3. verified_mmdb(partial[Temporary(p)], Kind(p))
      <4>1. starting[p].at = "rename"
        BY <3>1 DEF Rename
      <4> QED  BY <1>1, <4>1 DEF DownloadInv
    <3>4. installed'[k] = IF k = Kind(p) THEN partial[Temporary(p)] ELSE installed[k]
      BY <1>1, <3>2 DEF DownloadInv, FilesOK
    <3> QED  BY <1>1, <3>3, <3>4 DEF verified_mmdb
  <2> QED  BY <1>1, <2>1, <2>2, <2>3 DEF DownloadNext, downloadVars, Begin, Killed, ensure_one,
           ResponseArrives, BodyEnds, DownloadFails, Verify
<1>2. DownloadInv /\ [DownloadNext]_downloadVars =>
        [\A k \in {"City", "ASN"} :
            installed'[k].type # installed[k].type \/ installed'[k].whole # installed[k].whole
            => installed'[k].type = k /\ installed'[k].whole]_downloadVars
  BY <1>1 DEF Kinds
<1>3. DownloadSpec => []DownloadInv
  BY VerifiedUntilRenamed
<1> QED  BY <1>2, <1>3, PTL DEF DownloadSpec, InstalledIsVerified

-----------------------------------------------------------------------------
(* The parts beside one another.                                            *)

\* A step of the border is a step of each part, or leaves that part alone.
LEMMA ConnectionParts ==
  ASSUME [Next]_<<part, requestVars, outboundVars>>
  PROVE  /\ [FetchNext]_fetchVars /\ [EngineNext]_engineVars /\ [GeoNext]_geoVars
         /\ [DownloadNext]_downloadVars /\ [DialNext]_dialVars
<1>1. CASE UNCHANGED outboundVars
  <2>1. /\ UNCHANGED fetchVars /\ UNCHANGED engineVars /\ UNCHANGED geoVars /\ UNCHANGED downloadVars
        /\ UNCHANGED dialVars
    BY <1>1 DEF outboundVars
  <2> QED  BY <2>1
<1>2. CASE FetchNext /\ UNCHANGED <<engineVars, geoVars, downloadVars, dialVars>>
  <2>1. UNCHANGED engineVars /\ UNCHANGED geoVars /\ UNCHANGED downloadVars /\ UNCHANGED dialVars
    BY <1>2
  <2> QED  BY <1>2, <2>1
<1>3. CASE EngineNext /\ UNCHANGED <<fetchVars, geoVars, downloadVars, dialVars>>
  <2>1. UNCHANGED fetchVars /\ UNCHANGED geoVars /\ UNCHANGED downloadVars /\ UNCHANGED dialVars
    BY <1>3
  <2> QED  BY <1>3, <2>1
<1>4. CASE GeoNext /\ UNCHANGED <<fetchVars, engineVars, downloadVars, dialVars>>
  <2>1. UNCHANGED fetchVars /\ UNCHANGED engineVars /\ UNCHANGED downloadVars /\ UNCHANGED dialVars
    BY <1>4
  <2> QED  BY <1>4, <2>1
<1>5. CASE DownloadNext /\ UNCHANGED <<fetchVars, engineVars, geoVars, dialVars>>
  <2>1. UNCHANGED fetchVars /\ UNCHANGED engineVars /\ UNCHANGED geoVars /\ UNCHANGED dialVars
    BY <1>5
  <2> QED  BY <1>5, <2>1
<1>6. CASE DialNext /\ UNCHANGED <<fetchVars, engineVars, geoVars, downloadVars>>
  <2>1. UNCHANGED fetchVars /\ UNCHANGED engineVars /\ UNCHANGED geoVars /\ UNCHANGED downloadVars
    BY <1>6
  <2> QED  BY <1>6, <2>1
<1>7. UNCHANGED outboundVars \/ Connections
  BY DEF Next
<1> QED  BY <1>1, <1>2, <1>3, <1>4, <1>5, <1>6, <1>7 DEF Connections

\* The border starts where its parts start.
LEMMA ConnectionsAtFirst == Init => FetchInit /\ EngineInit /\ GeoInit /\ DownloadInit /\ DialInit
BY DEF Init

\* The inductive invariant of the connections.
ConnectionInv == FetchInv /\ EngineInv /\ DialInv

\* Downloads, batches and reachability checks keep their invariants side by
\* side (fetch_source, run_batch, target_reachable).
THEOREM ConnectionInvariant == Spec => []ConnectionInv
<1>1. Init => ConnectionInv
  BY ConnectionsAtFirst, InitFetch, InitEngine, InitDial DEF ConnectionInv
<1>2. ConnectionInv /\ [Next]_<<part, requestVars, outboundVars>> => ConnectionInv'
  BY ConnectionParts, StepFetch, StepEngine, StepDial DEF ConnectionInv
<1> QED  BY <1>1, <1>2, PTL DEF Spec

\* Whoever opens a connection opens it to an address the gate let out
\* (vet_host, cap_vetted, check_ip).
THEOREM VettedConnections == Spec => []OnlyVettedAreDialled
<1>1. ConnectionInv => OnlyVettedAreDialled
  BY FetchSafe, EngineSafe, TriedOut DEF ConnectionInv, OnlyVettedAreDialled
<1> QED  BY <1>1, ConnectionInvariant, PTL

\* Every variable of the border stays in its type: counters in their windows,
\* epochs and cookies, bodies and answers, downloads and batches.
THEOREM BorderTypes == Spec => []TypeOK
<1>1. RequestInv /\ ConnectionInv => TypeOK
  BY PublicSafe, LogSafe, LimiterSafe, SessionsTyped, ExportTyped, FetchSafe, EngineSafe
     DEF RequestInv, ConnectionInv, TypeOK
<1> QED  BY <1>1, RequestInvariant, ConnectionInvariant, PTL
===============================================================================
