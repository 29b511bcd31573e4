----------------------------- MODULE AdminSession -----------------------------
(***************************************************************************)
(* The admin panel's sessions (admin/auth.rs): cookies MACed over a key    *)
(* frozen at startup and an epoch kept in the database, which logout and a *)
(* rotation of [admin].token bump.  A step is what runs between two        *)
(* awaits; the requests are those AdminLimiter lets through.               *)
(***************************************************************************)
EXTENDS Integers

CONSTANTS NoCookie,
          Browsers,      \* each with its own cookie jar
          AdminSlots,    \* requests that may be in flight at once
          Tokens,        \* values of [admin].token
          SessionTTL,
          MaxBumps,      \* bound: session epochs
          MaxAdminFaults \* bound: failed epoch reads and writes, restarts

ASSUME SessionAssumption == SessionTTL \in Nat \ {0} /\ MaxBumps \in Nat /\ MaxAdminFaults \in Nat

VARIABLES fileToken,   \* [admin].token in the configuration file
          liveToken,   \* the same in AdminState.live_config
          keyToken,    \* the token the session key was derived from at startup
          epoch,       \* meta.admin_session_epoch
          jar,         \* browser -> its session cookie
          inflight,    \* slot -> request
          adminFaults

adminVars == <<fileToken, liveToken, keyToken, epoch, jar, inflight, adminFaults>>

Waiting == [pc |-> "waiting"]

AdminInit ==
    /\ fileToken \in Tokens /\ liveToken = fileToken /\ keyToken = fileToken
    /\ epoch = 0
    /\ jar = [b \in Browsers |-> NoCookie]
    /\ inflight = [s \in AdminSlots |-> Waiting]
    /\ adminFaults = 0

AdminTypeOK ==
    /\ {fileToken, liveToken, keyToken} \subseteq Tokens
    /\ epoch \in 0 .. MaxBumps
    /\ \A b \in Browsers : jar[b] # NoCookie =>
        jar[b].key \in Tokens /\ jar[b].epoch \in 0 .. MaxBumps /\ jar[b].left \in 0 .. SessionTTL
    /\ \A s \in AdminSlots : inflight[s].pc \in
        {"waiting", "login", "minting", "session", "verify", "handler", "saved", "bumped"}

-----------------------------------------------------------------------------
Posts == {"logout", "rotate"}

\* A request of browser b: a login with some token, or one for the session
\* check with the cookie of that moment.
Request(s, b) ==
    /\ inflight[s] = Waiting
    /\ \/ \E token \in Tokens :
            inflight' = [inflight EXCEPT ![s] = [pc |-> "login", browser |-> b, token |-> token]]
       \/ \E kind \in {"page", "logout"} :
            inflight' = [inflight EXCEPT ![s] = [pc |-> "session", kind |-> kind, browser |-> b, cookie |-> jar[b]]]
       \/ \E token \in Tokens :
            inflight' = [inflight EXCEPT ![s] = [pc |-> "session", kind |-> "rotate", token |-> token, cookie |-> jar[b]]]
    /\ UNCHANGED <<fileToken, liveToken, keyToken, epoch, jar, adminFaults>>

Finish(s) == inflight' = [inflight EXCEPT ![s] = Waiting]

-----------------------------------------------------------------------------
(* session_epoch: a failed read yields 0.                                   *)
ReadEpoch(s, Continue(_, _)) ==
    \/ /\ inflight' = [inflight EXCEPT ![s] = Continue(epoch, FALSE)]
       /\ UNCHANGED adminFaults
    \/ /\ adminFaults < MaxAdminFaults
       /\ adminFaults' = adminFaults + 1
       /\ inflight' = [inflight EXCEPT ![s] = Continue(0, TRUE)]

\* The token against the live configuration, the epoch, the
\* cookie.
login_submit(s) ==
    /\ inflight[s].pc = "login"
    /\ IF inflight[s].token = liveToken
       THEN LET Minting(e, unread) == [pc |-> "minting", browser |-> inflight[s].browser, epoch |-> e, revoked |-> FALSE]
            IN  ReadEpoch(s, Minting)
       ELSE Finish(s) /\ UNCHANGED adminFaults
    /\ UNCHANGED <<fileToken, liveToken, keyToken, epoch, jar>>

issue_session(s) ==
    /\ inflight[s].pc = "minting"
    /\ jar' = [jar EXCEPT ![inflight[s].browser] =
                 [key |-> keyToken, epoch |-> inflight[s].epoch, left |-> SessionTTL,
                  revoked |-> inflight[s].revoked]]
    /\ Finish(s)
    /\ UNCHANGED <<fileToken, liveToken, keyToken, epoch, adminFaults>>

\* require_auth reads the epoch, then verifies the cookie the request brought.
require_auth(s) ==
    /\ inflight[s].pc = "session"
    /\ LET Verify(e, unread) == [pc |-> "verify", request |-> inflight[s], epoch |-> e, unread |-> unread]
       IN  ReadEpoch(s, Verify)
    /\ UNCHANGED <<fileToken, liveToken, keyToken, epoch, jar>>

\* Mutant: the epoch is left out of the MAC.
verify_session_no_epoch(cookie, current) ==
    /\ cookie # NoCookie
    /\ cookie.left > 0
    /\ cookie.key = keyToken

verify_session(cookie, current) ==
    /\ cookie # NoCookie
    /\ cookie.left > 0
    /\ cookie.key = keyToken
    /\ cookie.epoch = current

\* csrf_protect turns away a POST whose form is not the panel's own.
Enter(s) ==
    /\ inflight[s].pc = "verify"
    /\ LET request == inflight[s].request IN
       \E csrf \in BOOLEAN :
         IF verify_session(request.cookie, inflight[s].epoch) /\ (request.kind \in Posts => csrf)
         THEN inflight' = [inflight EXCEPT ![s] =
                 IF request.kind = "rotate"
                 THEN [pc |-> "handler", kind |-> "rotate", token |-> request.token]
                 ELSE [pc |-> "handler", kind |-> request.kind, browser |-> request.browser]]
         ELSE Finish(s)
    /\ UNCHANGED <<fileToken, liveToken, keyToken, epoch, jar, adminFaults>>

-----------------------------------------------------------------------------
(* revoke_all_sessions: one increment of the row, or a logged failure.  The *)
(* cookies minted before it, and the one a login read its epoch for, are    *)
(* the revoked ones.                                                        *)
Revoked(cookie) == IF cookie = NoCookie THEN cookie ELSE [cookie EXCEPT !.revoked = TRUE]
revoke_all_sessions(s, pc) ==
    LET Left(t) ==
            LET r == IF t = s THEN IF pc = "waiting" THEN Waiting ELSE [inflight[s] EXCEPT !.pc = pc]
                     ELSE inflight[t]
            IN  IF r.pc = "minting" THEN [r EXCEPT !.revoked = TRUE] ELSE r
    IN  \/ /\ epoch < MaxBumps
           /\ epoch' = epoch + 1
           /\ inflight' = [t \in AdminSlots |-> Left(t)]
           /\ UNCHANGED adminFaults
        \/ /\ adminFaults < MaxAdminFaults
           /\ adminFaults' = adminFaults + 1
           /\ inflight' = [inflight EXCEPT ![s] = IF pc = "waiting" THEN Waiting ELSE [@ EXCEPT !.pc = pc]]
           /\ UNCHANGED epoch

\* logout bumps the epoch and clears the browser's own cookie.
logout(s) ==
    /\ inflight[s].pc = "handler" /\ inflight[s].kind = "logout"
    /\ revoke_all_sessions(s, "waiting")
    /\ jar' = [b \in Browsers |-> IF b = inflight[s].browser THEN NoCookie
                                  ELSE IF epoch' # epoch THEN Revoked(jar[b]) ELSE jar[b]]
    /\ UNCHANGED <<fileToken, liveToken, keyToken>>

\* settings_update with a new [admin].token: the file, the bump when the
\* token is not the live one, then the live configuration.
Save(s) ==
    /\ inflight[s].pc = "handler" /\ inflight[s].kind = "rotate"
    /\ fileToken' = inflight[s].token
    /\ inflight' = [inflight EXCEPT ![s].pc = "saved"]
    /\ UNCHANGED <<liveToken, keyToken, epoch, jar, adminFaults>>

Rotate(s) ==
    /\ inflight[s].pc = "saved"
    /\ IF inflight[s].token # liveToken
       THEN /\ revoke_all_sessions(s, "bumped")
            /\ jar' = IF epoch' # epoch THEN [b \in Browsers |-> Revoked(jar[b])] ELSE jar
       ELSE inflight' = [inflight EXCEPT ![s].pc = "bumped"] /\ UNCHANGED <<epoch, jar, adminFaults>>
    /\ UNCHANGED <<fileToken, liveToken, keyToken>>

refresh_live_config(s) ==
    /\ inflight[s].pc = "bumped"
    /\ liveToken' = fileToken
    /\ Finish(s)
    /\ UNCHANGED <<fileToken, keyToken, epoch, jar, adminFaults>>

\* Any other page.
Page(s) ==
    /\ inflight[s].pc = "handler" /\ inflight[s].kind = "page"
    /\ Finish(s)
    /\ UNCHANGED <<fileToken, liveToken, keyToken, epoch, jar, adminFaults>>

-----------------------------------------------------------------------------
\* A restart loses what is in flight and derives the key from the token of
\* the file.
Restart ==
    /\ adminFaults < MaxAdminFaults
    /\ adminFaults' = adminFaults + 1
    /\ liveToken' = fileToken /\ keyToken' = fileToken
    /\ inflight' = [s \in AdminSlots |-> Waiting]
    /\ UNCHANGED <<fileToken, epoch, jar>>

AdminTick ==
    /\ LET Old(c) == IF c = NoCookie \/ c.left = 0 THEN c ELSE [c EXCEPT !.left = @ - 1] IN
       /\ jar' = [b \in Browsers |-> Old(jar[b])]
       /\ inflight' = [s \in AdminSlots |->
            CASE inflight[s].pc = "session" -> [inflight[s] EXCEPT !.cookie = Old(@)]
              [] inflight[s].pc = "verify" -> [inflight[s] EXCEPT !.request.cookie = Old(@)]
              [] OTHER -> inflight[s]]
    /\ UNCHANGED <<fileToken, liveToken, keyToken, epoch, adminFaults>>

AdminNext ==
    \/ Restart \/ AdminTick
    \/ \E s \in AdminSlots :
        \/ \E b \in Browsers : Request(s, b)
        \/ login_submit(s) \/ issue_session(s) \/ require_auth(s) \/ Enter(s) \/ Page(s)
        \/ logout(s) \/ Save(s) \/ Rotate(s) \/ refresh_live_config(s)
AdminSpec == AdminInit /\ [][AdminNext]_adminVars

-----------------------------------------------------------------------------
(* A cookie revoked before a request brought it opens no handler, whatever  *)
(* logins, logouts and rotations run beside it, as long as the epoch can be *)
(* read (require_auth, revoke_all_sessions).                                *)
LoggedOutStaysOut ==
    [][\A s \in AdminSlots :
         /\ inflight[s].pc = "verify" /\ inflight'[s].pc = "handler"
         /\ ~inflight[s].unread
         => ~inflight[s].request.cookie.revoked]_adminVars
=============================================================================
