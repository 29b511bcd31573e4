----------------------------- MODULE AdminLimiter -----------------------------
(***************************************************************************)
(* The outer layers of the admin listener (admin/mod.rs, admin/auth.rs) in *)
(* the router's order: host gate, static and HEAD exemption, cross-site    *)
(* rejection, rate limiting.  What they let through is AdminSession's.     *)
(***************************************************************************)
EXTENDS AccessRules

CONSTANTS Visitors,
          AllowedHosts,  \* [admin].allowed_hosts
          RequestHosts,  \* Host values requests carry
          AdminLimit, AdminWindow, LoginLimit, LoginWindow,
          MaxAdminHits   \* bound: requests of a browser counted in a window

ASSUME AdminLimits == {AdminLimit, AdminWindow, LoginLimit, LoginWindow} \subseteq Nat \ {0} /\ MaxAdminHits \in Nat

VARIABLES adminHits,   \* [admin, login] -> browser -> counter
          own          \* history: a browser's own requests in its window

limiterVars == <<adminHits, own>>

AdminLimiters == {"admin", "login"}
NoHits == [l \in AdminLimiters |-> [b \in Visitors |-> Expired]]
NoRequests == [l \in AdminLimiters |-> [b \in Visitors |-> 0]]
LimiterInit == adminHits = NoHits /\ own = NoRequests

LimitOf(l) == IF l = "login" THEN LoginLimit ELSE AdminLimit
AdminWindowOf(l) == IF l = "login" THEN LoginWindow ELSE AdminWindow

LimiterTypeOK ==
    \A l \in AdminLimiters, b \in Visitors :
        adminHits[l][b].n \in 0 .. MaxAdminHits /\ adminHits[l][b].left \in 0 .. AdminWindowOf(l)

-----------------------------------------------------------------------------
\* What a request is, as far as the layers look: static assets and HEAD, the
\* login POST, a page followed from a link or loaded otherwise.
RouteKinds == {"static", "login", "link", "other"}
LimiterOf(kind) == IF kind = "login" THEN "login" ELSE "admin"

\* What a browser says of where a request comes from: with Fetch Metadata, or
\* with Origin alone, which a link does not carry.
Signals(kind, foreign) ==
    [site : {IF foreign THEN "cross-site" ELSE "same-origin"}, origin : {"absent"}]
    \cup [site : {"absent"}, origin : {IF kind = "link" THEN "absent" ELSE IF foreign THEN "other" ELSE "own"}]

\* Mutant: the window is charged before the cross-site test.
Counts_first(kind, host, foreign, signal) ==
    validate_request_host(host, AllowedHosts) /\ kind # "static"

\* Does the limiter count the request?
Counts(kind, host, foreign, signal) ==
    /\ validate_request_host(host, AllowedHosts)
    /\ kind # "static"
    /\ ~cross_site_context(signal.site, signal.origin, kind = "link")

\* A request of browser b, or one another site makes it send.
Visit(b, kind, host, foreign, signal) ==
    LET l == LimiterOf(kind) IN
    /\ Counts(kind, host, foreign, signal)
    /\ own[l][b] < MaxAdminHits
    /\ adminHits' = [adminHits EXCEPT ![l][b] = Counted(@, AdminWindowOf(l))]
    /\ own' = IF foreign /\ kind # "link" THEN own ELSE [own EXCEPT ![l][b] = @ + 1]

LimiterTick ==
    /\ adminHits' = [l \in AdminLimiters |-> [b \in Visitors |-> Aged(adminHits[l][b])]]
    /\ own' = [l \in AdminLimiters |-> [b \in Visitors |-> IF adminHits[l][b].left <= 1 THEN 0 ELSE own[l][b]]]

\* The counters are the process's own.
LimiterRestart == adminHits' = NoHits /\ own' = NoRequests

LimiterNext ==
    \/ LimiterTick \/ LimiterRestart
    \/ \E b \in Visitors, kind \in RouteKinds, host \in RequestHosts, foreign \in BOOLEAN :
        \E signal \in Signals(kind, foreign) : Visit(b, kind, host, foreign, signal)
LimiterSpec == LimiterInit /\ [][LimiterNext]_limiterVars

-----------------------------------------------------------------------------
(* The pages of other sites cannot spend the operator's windows: the        *)
(* limiter counts what the browser's user asked for, so a 429 comes only    *)
(* after LimitOf such requests (rate_limit, cross_site_context).            *)
OwnHitsOnly ==
    \A l \in AdminLimiters, b \in Visitors : adminHits[l][b].n <= own[l][b]
=============================================================================
