-------------------------- MODULE RenderCacheProofs --------------------------
(***************************************************************************)
(* Theorems about RenderCache, for every number of requests, sources and   *)
(* concurrent changes.                                                     *)
(*                                                                         *)
(* The argument has three layers.  FlightOK ties the two claims to the     *)
(* tasks that hold them.  TypeOK needs Bounded: no version runs ahead of   *)
(* the number of commits.  SupersededIsNotKept is not inductive: what is   *)
(* cached now was read earlier, by a render that a bump may have           *)
(* superseded since.  CoverOK adds the missing half: a render that still   *)
(* holds its generation has read every change whose bump is over.          *)
(***************************************************************************)
EXTENDS RenderCache, TLAPS

RolesOK ==
    /\ pc \in [Tasks -> RequestPc \cup RenderPc \cup {"idle"}]
    /\ pc[background] \in RenderPc \cup {"idle"}
    /\ \A r \in Requests : pc[r] \in RequestPc \cup RenderPc
    /\ revalidating \in {"free", "held", "runtime"}
    /\ claim \in Claim \cup {NoClaim}
    /\ scope \in [Requests -> SUBSET Sources]
    /\ members \subseteq Sources

FlightOK == RolesOK /\ SingleFlight /\ WaitersHaveALeader

-----------------------------------------------------------------------------
(* Single flight. *)

\* The background task is no request.
LEMMA BackgroundIsNoRequest == background \notin Requests /\ background \in Tasks
  BY TaskAssumption DEF background, Tasks

\* Only a claim has a holder among the requests or in the runtime.
LEMMA HolderHasClaim ==
  ASSUME RolesOK
  PROVE  /\ claim = NoClaim <=> claim.holder = "nobody"
         /\ claim.holder \in Requests \cup Runtime \cup {"nobody"}
         /\ Requests \cap Runtime = {} /\ "nobody" \notin Requests \cup Runtime
  BY TaskAssumption DEF RolesOK, Claim, NoClaim, Runtime

\* The lookups of serve_cached move one request between states without a claim,
\* and the two ways to a render take the claim with them.
LEMMA ServeFlight ==
  ASSUME FlightOK, NEW r \in Requests, Serve(r) \/ NextRequest(r)
  PROVE  FlightOK'
<1> USE BackgroundIsNoRequest, HolderHasClaim DEF FlightOK, RolesOK, Tasks, RequestPc, RenderPc,
        Goto, SingleFlight, WaitersHaveALeader, Rendering
<1>1. CASE resolve_token(r) BY <1>1 DEF resolve_token, cacheVars, dbVars
<1>2. CASE processed_get(r) BY <1>2 DEF processed_get, cacheVars, dbVars
<1>3. CASE try_start_revalidate(r) BY <1>3 DEF try_start_revalidate, dbVars
<1>4. CASE member_source_ids(r) BY <1>4 DEF member_source_ids, cacheVars, dbVars
<1>5. CASE begin_inline_render(r)
  BY <1>5 DEF begin_inline_render, dbVars, Claim, NoClaim
<1>6. CASE WokenGet(r) BY <1>6 DEF WokenGet, cacheVars, dbVars
<1>7. CASE StopWaiting(r) BY <1>7 DEF StopWaiting, cacheVars, dbVars
<1>8. CASE NextRequest(r) BY <1>8 DEF NextRequest, cacheVars, dbVars
<1> QED  BY <1>1, <1>2, <1>3, <1>4, <1>5, <1>6, <1>7, <1>8 DEF Serve

\* The end of a claim, by its holder or by the runtime, leaves nobody waiting.
LEMMA EndClaimFlight ==
  ASSUME FlightOK, NEW h, h = claim.holder, h # "nobody", NEW woken \in {"done", "woken"},
         EndClaim(h, woken), UNCHANGED <<revalidating, scope, members>>
  PROVE  FlightOK'
<1>0. h \in Requests \cup Runtime /\ background \notin Requests /\ background \in Tasks /\ RolesOK
  BY HolderHasClaim, BackgroundIsNoRequest DEF FlightOK
<1>1. /\ claim' = NoClaim
      /\ pc' = [q \in Tasks |-> IF q = h THEN "done"
                                ELSE IF pc[q] = "waiting" THEN woken ELSE pc[q]]
  BY DEF EndClaim
<1>2. h # background /\ pc[background] # "waiting"
  BY <1>0, TaskAssumption DEF background, Runtime, RolesOK, RenderPc
<1>3. pc'[background] = pc[background]  BY <1>0, <1>1, <1>2
<1>4. \A r \in Requests : pc'[r] \in RequestPc \cup RenderPc /\ pc'[r] # "waiting"
  BY <1>0, <1>1 DEF RolesOK, RequestPc, Tasks
<1>5. RolesOK'
  BY <1>0, <1>1, <1>3, <1>4 DEF RolesOK, Tasks, RequestPc
<1>6. \A r \in Requests : ~Rendering(r)'
  BY <1>0, <1>1 DEF FlightOK, SingleFlight, Rendering, Tasks, RenderPc
<1>7. claim'.holder \notin Requests  BY <1>1, TaskAssumption DEF NoClaim
<1> QED  BY <1>3, <1>4, <1>5, <1>6, <1>7 DEF FlightOK, SingleFlight, WaitersHaveALeader, Rendering

\* A render keeps its claim until it is released, failed or handed on.
LEMMA RenderFlight ==
  ASSUME FlightOK, NEW t \in Tasks, Render(t) \/ (t \in Requests /\ LeaderFails(t))
  PROVE  FlightOK'
<1>0. Rendering(t) => IF t \in Requests THEN claim.holder = t ELSE t = background
  BY DEF FlightOK, SingleFlight, Tasks
<1>a. ASSUME NEW l \in RenderPc, Rendering(t), Goto(t, l),
             UNCHANGED <<claim, revalidating, scope, members>>
      PROVE  FlightOK'
  BY <1>a, BackgroundIsNoRequest, HolderHasClaim DEF FlightOK, RolesOK, Tasks, RequestPc, RenderPc,
     Goto, SingleFlight, WaitersHaveALeader, Rendering
<1>1. CASE get_sources(t)
  BY <1>1, <1>a DEF get_sources, cacheVars, dbVars, RenderPc, Rendering
<1>2. CASE get_many(t)
  BY <1>2, <1>a DEF get_many, cacheVars, dbVars, RenderPc, Rendering
<1>3. CASE list_with_source(t)
  BY <1>3, <1>a DEF list_with_source, cacheVars, dbVars, RenderPc, Rendering
<1>4. CASE Put(t)
  <2>1. Rendering(t) /\ UNCHANGED <<claim, revalidating, scope, members>>
    BY <1>4 DEF Put, processed_put_guarded, processed_invalidate, dbVars, RenderPc, Rendering
  <2>2. \E l \in RenderPc : Goto(t, l)
    BY <1>4 DEF Put, processed_put_guarded, processed_invalidate, RenderPc
  <2> QED  BY <2>1, <2>2, <1>a
<1>5. CASE Release(t)
  <2>1. CASE t = background
    BY <1>5, <2>1, BackgroundIsNoRequest, HolderHasClaim DEF FlightOK, RolesOK, Tasks, RequestPc,
       RenderPc, Goto, SingleFlight, WaitersHaveALeader, Rendering, Release, dbVars
  <2>2. CASE t # background /\ EndClaim(t, "woken")
    <3>1. claim.holder = t /\ t # "nobody" /\ UNCHANGED <<revalidating, scope, members>>
      BY <1>0, <1>5, <2>2, HolderHasClaim DEF Release, Rendering, RenderPc, Tasks, dbVars, FlightOK
    <3> QED  BY <2>2, <3>1, EndClaimFlight
  <2>3. CASE t # background /\ claim' = [claim EXCEPT !.holder = "runtime"] /\ Goto(t, "done")
    BY <1>0, <1>5, <2>3, BackgroundIsNoRequest, HolderHasClaim DEF FlightOK, RolesOK, Tasks,
       RequestPc, RenderPc, Goto, SingleFlight, WaitersHaveALeader, Rendering, Release, dbVars,
       Claim, NoClaim, Runtime
  <2> QED  BY <1>5, <2>1, <2>2, <2>3 DEF Release
<1>6. CASE t \in Requests /\ LeaderFails(t)
  <2>1. claim.holder = t /\ t # "nobody" /\ UNCHANGED <<revalidating, scope, members>>
    BY <1>0, <1>6, HolderHasClaim DEF LeaderFails, Rendering, RenderPc, dbVars, FlightOK
  <2>2. CASE \E woken \in {"done", "woken"} : EndClaim(t, woken)
    BY <2>1, <2>2, EndClaimFlight
  <2>3. CASE claim' = [claim EXCEPT !.holder = "runtime"] /\ Goto(t, "done")
    BY <1>6, <2>1, <2>3, BackgroundIsNoRequest, HolderHasClaim DEF FlightOK, RolesOK, Tasks,
       RequestPc, RenderPc, Goto, SingleFlight, WaitersHaveALeader, Rendering, Claim, NoClaim, Runtime
  <2>4. CASE /\ claim' = [claim EXCEPT !.holder = "runtime_failed"]
             /\ pc' = [q \in Tasks |-> IF q = t \/ pc[q] = "waiting" THEN "done" ELSE pc[q]]
    BY <1>6, <2>1, <2>4, BackgroundIsNoRequest, HolderHasClaim DEF FlightOK, RolesOK, Tasks,
       RequestPc, RenderPc, SingleFlight, WaitersHaveALeader, Rendering, Claim, NoClaim, Runtime
  <2> QED  BY <1>6, <2>2, <2>3, <2>4 DEF LeaderFails
<1> QED  BY <1>1, <1>2, <1>3, <1>4, <1>5, <1>6 DEF Render

\* No other step moves a request, and only the runtime ends a claim.
LEMMA OtherFlight ==
  ASSUME FlightOK,
         RevalidationFails \/ RuntimeRelease \/ Ages \/ (\E c \in Changers : ChangeStep(c))
  PROVE  FlightOK'
<1>1. CASE RevalidationFails
  BY <1>1, BackgroundIsNoRequest, HolderHasClaim DEF FlightOK, RolesOK, Tasks, RequestPc, RenderPc,
     Goto, SingleFlight, WaitersHaveALeader, Rendering, RevalidationFails, cacheVars, dbVars
<1>2. CASE RuntimeRelease
  <2>1. CASE /\ claim.holder \in Runtime
             /\ EndClaim(claim.holder, IF claim.holder = "runtime" THEN "woken" ELSE "done")
             /\ UNCHANGED <<dbVars, entry, revalidating, work, scope, change, ghostVars>>
    <3>1. claim.holder # "nobody"  BY <2>1, HolderHasClaim DEF FlightOK
    <3> QED  BY <2>1, <3>1, EndClaimFlight DEF dbVars
  <2>2. CASE /\ revalidating = "runtime" /\ revalidating' = "free"
             /\ UNCHANGED <<dbVars, entry, claim, taskVars, change, ghostVars>>
    BY <2>2 DEF FlightOK, RolesOK, SingleFlight, WaitersHaveALeader, Rendering, taskVars, dbVars
  <2> QED  BY <1>2, <2>1, <2>2 DEF RuntimeRelease
<1>3. CASE Ages
  BY <1>3 DEF Ages, FlightOK, RolesOK, SingleFlight, WaitersHaveALeader, Rendering, taskVars, dbVars
<1>4. ASSUME NEW c \in Changers, ChangeStep(c) PROVE FlightOK'
  <2>1. members' \subseteq Sources /\ UNCHANGED <<pc, revalidating, claim, scope>>
    BY <1>4 DEF ChangeStep, profile_update, set_sources, Abandoned, Invalidate, source_toggle, ingest, FlightOK,
       RolesOK, cacheVars, taskVars, dbVars
  <2> QED  BY <2>1 DEF FlightOK, RolesOK, SingleFlight, WaitersHaveALeader, Rendering
<1> QED  BY <1>1, <1>2, <1>3, <1>4

\* The claims and their holders match after every step.
THEOREM FlightInvariant == Spec => []FlightOK
<1>1. Init => FlightOK
  BY BackgroundIsNoRequest, TaskAssumption DEF Init, FlightOK, RolesOK, Tasks, RequestPc, RenderPc,
     SingleFlight, WaitersHaveALeader, Rendering, NoClaim, Claim
<1>2. FlightOK /\ [Next]_vars => FlightOK'
  <2>1. FlightOK /\ Next => FlightOK'
    BY ServeFlight, RenderFlight, OtherFlight DEF Next, Tasks
  <2>2. FlightOK /\ UNCHANGED vars => FlightOK'
    BY DEF vars, cacheVars, taskVars, dbVars, FlightOK, RolesOK, SingleFlight, WaitersHaveALeader,
       Rendering
  <2> QED  BY <2>1, <2>2
<1> QED  BY <1>1, <1>2, PTL DEF Spec

\* One inline render and one background render of a key at a time, however many
\* requests miss at once.
THEOREM AlwaysSingleFlight == Spec => []SingleFlight
<1>1. FlightOK => SingleFlight  BY DEF FlightOK
<1> QED  BY <1>1, FlightInvariant, PTL

\* A waiting request always has a claim to wait for: no wake-up is lost.
THEOREM WaitersAlwaysHaveALeader == Spec => []WaitersHaveALeader
<1>1. FlightOK => WaitersHaveALeader  BY DEF FlightOK
<1> QED  BY <1>1, FlightInvariant, PTL

\* Both at once, as the run on two clients checks them.
THEOREM FlightsAlwaysLed == Spec => []FlightsAreLed
<1>1. FlightOK => FlightsAreLed  BY DEF FlightOK, FlightsAreLed
<1> QED  BY <1>1, FlightInvariant, PTL

-----------------------------------------------------------------------------
(* Types. *)

\* No version runs ahead of the commits that produce versions.
Bounded == /\ config <= commits
           /\ \A s \in Sources : toggles[s] <= commits /\ rows[s] <= commits

DataOK ==
    /\ config \in Version /\ commits \in Version
    /\ toggles \in [Sources -> Version] /\ rows \in [Sources -> Version]
    /\ entry \in Entry \cup {NoEntry}
    /\ work \in [Tasks -> Work]
    /\ change \in [Changers -> Change \cup {NoChange}]
    /\ announced \in Marks /\ covered \in Marks
    /\ Bounded

\* Versions are numbers, and nothing has been read is a reading.
LEMMA VersionFacts ==
  /\ Version \subseteq Int /\ 0 \in Version
  /\ Unread \in [Sources -> Version] /\ NoWork \in Work /\ NoMarks \in Marks
  /\ \A v \in Version : v < MaxChanges => v + 1 \in Version
  BY ChangeAssumption DEF Version, Unread, NoWork, Work, NoMarks, Marks

\* Raise moves the mark of the one thing that was changed, and never back.
LEMMA RaiseFacts ==
  ASSUME NEW m \in Marks, NEW ch \in Change
  PROVE  /\ Raise(m, ch) \in Marks
         /\ \A s \in Sources :
              /\ \/ Raise(m, ch).rows[s] = m.rows[s]
                 \/ ch.kind = "ingest" /\ ch.source = s /\ Raise(m, ch).rows[s] = ch.version
              /\ \/ Raise(m, ch).toggles[s] = m.toggles[s]
                 \/ ch.kind = "toggle" /\ ch.source = s /\ Raise(m, ch).toggles[s] = ch.version
<1> DEFINE Newer(old) == IF old < ch.version THEN ch.version ELSE old
<1>0. /\ m.config \in Version /\ m.toggles \in [Sources -> Version]
      /\ m.rows \in [Sources -> Version] /\ ch.version \in Version /\ ch.source \in Sources
      /\ ch.kind \in {"save", "toggle", "ingest"}
  BY DEF Marks, Change
<1>1. CASE ch.kind = "save"
  <2>1. Raise(m, ch) = [m EXCEPT !.config = Newer(@)]  BY <1>1 DEF Raise
  <2> QED  BY <1>0, <2>1 DEF Marks
<1>2. CASE ch.kind = "toggle"
  <2>1. Raise(m, ch) = [m EXCEPT !.toggles[ch.source] = Newer(@)]  BY <1>2 DEF Raise
  <2> QED  BY <1>0, <1>2, <2>1 DEF Marks
<1>3. CASE ch.kind = "ingest"
  <2>1. Raise(m, ch) = [m EXCEPT !.rows[ch.source] = Newer(@)]  BY <1>3 DEF Raise
  <2> QED  BY <1>0, <1>3, <2>1 DEF Marks
<1> QED  BY <1>0, <1>1, <1>2, <1>3

\* A bump writes nothing but the generation flags.
LEMMA BumpedFacts ==
  ASSUME work \in [Tasks -> Work]
  PROVE  /\ Bumped \in [Tasks -> Work]
         /\ \A t \in Tasks : /\ ~Bumped[t].live /\ Bumped[t].rows = work[t].rows
                             /\ Bumped[t].toggles = work[t].toggles
  BY DEF Bumped, Work

\* The tasks copy versions they read, and store copies of what they hold.
LEMMA TaskData ==
  ASSUME DataOK, RolesOK,
         \/ \E r \in Requests : Serve(r) \/ NextRequest(r) \/ LeaderFails(r)
         \/ \E t \in Tasks : Render(t)
         \/ RevalidationFails \/ RuntimeRelease \/ Ages
  PROVE  DataOK'
<1> USE VersionFacts, BackgroundIsNoRequest
<1>1. ASSUME NEW r \in Requests, Serve(r) \/ NextRequest(r) \/ LeaderFails(r) PROVE DataOK'
  <2>1. entry' = entry /\ UNCHANGED <<dbVars, change, ghostVars>>
    BY <1>1 DEF Serve, resolve_token, processed_get, try_start_revalidate, member_source_ids,
       begin_inline_render, WokenGet, StopWaiting, NextRequest, LeaderFails, cacheVars
  <2>2. work[r] \in Work /\ r \in Tasks /\ work \in [Tasks -> Work]
    BY DEF DataOK, Tasks
  <2>3. [work[r] EXCEPT !.live = TRUE] \in Work /\ [NoWork EXCEPT !.config = config] \in Work
    BY <2>2 DEF DataOK, Work, NoWork
  <2>4. \/ work' = work
        \/ work' = [work EXCEPT ![r] = [NoWork EXCEPT !.config = config]]
        \/ work' = [work EXCEPT ![background] = [work[r] EXCEPT !.live = TRUE]]
        \/ work' = [work EXCEPT ![r] = [work[r] EXCEPT !.live = TRUE]]
        \/ work' = [work EXCEPT ![r] = NoWork]
    BY <1>1, <2>2 DEF Serve, resolve_token, processed_get, try_start_revalidate, member_source_ids,
       begin_inline_render, WokenGet, StopWaiting, NextRequest, LeaderFails
  <2>5. work' \in [Tasks -> Work]
    BY <2>2, <2>3, <2>4
  <2> QED  BY <2>1, <2>5 DEF DataOK, Bounded, dbVars, ghostVars
<1>2. ASSUME NEW t \in Tasks, Render(t) PROVE DataOK'
  <2>1. UNCHANGED <<dbVars, change, ghostVars>>
    BY <1>2 DEF Render, get_sources, get_many, list_with_source, Put, Release
  <2>2. /\ work \in [Tasks -> Work] /\ work[t] \in Work /\ members \in SUBSET Sources
        /\ toggles \in [Sources -> Version] /\ rows \in [Sources -> Version]
    BY DEF DataOK, RolesOK
  <2>3. /\ [work[t] EXCEPT !.named = members] \in Work
        /\ [work[t] EXCEPT !.named = {s \in @ : Enabled(s)}, !.toggles = toggles] \in Work
        /\ [work[t] EXCEPT !.rows = rows] \in Work
    BY <2>2 DEF Work
  <2>4. NewEntry(t) \in Entry
    BY <2>2 DEF Work, Entry, NewEntry
  <2>5. CASE get_sources(t) \/ get_many(t) \/ list_with_source(t)
    <3>1. /\ entry' = entry
          /\ \/ work' = [work EXCEPT ![t] = [work[t] EXCEPT !.named = members]]
             \/ work' = [work EXCEPT ![t] = [work[t] EXCEPT !.named = {s \in @ : Enabled(s)},
                                                            !.toggles = toggles]]
             \/ work' = [work EXCEPT ![t] = [work[t] EXCEPT !.rows = rows]]
      BY <2>2, <2>5 DEF get_sources, get_many, list_with_source, cacheVars
    <3> QED  BY <2>1, <2>2, <2>3, <3>1 DEF DataOK, Bounded, dbVars, ghostVars
  <2>6. CASE Put(t) \/ Release(t)
    <3>1. work' = work \/ work' = Bumped \/ work' = [work EXCEPT ![t] = NoWork]
      BY <2>6 DEF Put, Release, processed_put_guarded, processed_invalidate
    <3>2. entry' = entry \/ entry' = NewEntry(t) \/ entry' = NoEntry
      BY <2>6 DEF Put, Release, processed_put_guarded, processed_invalidate
    <3> QED  BY <2>1, <2>2, <2>4, <3>1, <3>2, BumpedFacts DEF DataOK, Bounded, dbVars, ghostVars
  <2> QED  BY <1>2, <2>5, <2>6 DEF Render
<1>3. CASE RevalidationFails \/ RuntimeRelease
  BY <1>3 DEF RevalidationFails, RuntimeRelease, DataOK, Bounded, dbVars, ghostVars, cacheVars,
     taskVars
<1>4. CASE Ages
  BY <1>4 DEF Ages, DataOK, Bounded, dbVars, ghostVars, taskVars, Entry
<1> QED  BY <1>1, <1>2, <1>3, <1>4

\* A commit takes the next version; an invalidation moves marks to versions.
LEMMA ChangeData ==
  ASSUME DataOK, NEW c \in Changers, ChangeStep(c)
  PROVE  DataOK'
<1> USE VersionFacts
<1>0. change[c].pc # "idle" => change[c] \in Change
  BY DEF DataOK, NoChange
<1>1. CASE profile_update(c)
  <2>1. config' \in Version /\ commits' \in Version /\ commits' = commits + 1
    BY <1>1, ChangeAssumption DEF profile_update, Commits, DataOK, Bounded, Version
  <2>2. change' \in [Changers -> Change \cup {NoChange}]
    BY <1>1, <2>1 DEF profile_update, DataOK, Change
  <2> QED  BY <1>1, <2>1, <2>2, ChangeAssumption DEF profile_update, DataOK, Bounded, Version, cacheVars,
              taskVars, ghostVars
<1>2. CASE set_sources(c)
  BY <1>0, <1>2 DEF set_sources, DataOK, Bounded, Change, cacheVars, taskVars, ghostVars
<1>6. CASE Abandoned(c)
  BY <1>6 DEF Abandoned, DataOK, Bounded, cacheVars, taskVars, ghostVars, dbVars
<1>3. ASSUME NEW s \in Sources, source_toggle(c, s) PROVE DataOK'
  <2>1. commits' \in Version /\ commits' = commits + 1
    BY <1>3, ChangeAssumption DEF source_toggle, Commits, DataOK, Bounded, Version
  <2>2. toggles' \in [Sources -> Version] /\ \A q \in Sources : toggles'[q] <= commits'
    BY <1>3, <2>1, ChangeAssumption DEF source_toggle, Commits, DataOK, Bounded, Version
  <2>3. change' \in [Changers -> Change \cup {NoChange}]
    BY <1>3, <2>2 DEF source_toggle, DataOK, Change
  <2> QED  BY <1>3, <2>1, <2>2, <2>3, ChangeAssumption DEF source_toggle, DataOK, Bounded, Version,
              cacheVars, taskVars, ghostVars
<1>4. ASSUME NEW s \in Sources, ingest(c, s) PROVE DataOK'
  <2>1. commits' \in Version /\ commits' = commits + 1
    BY <1>4, ChangeAssumption DEF ingest, Commits, DataOK, Bounded, Version
  <2>2. rows' \in [Sources -> Version] /\ \A q \in Sources : rows'[q] <= commits'
    BY <1>4, <2>1, ChangeAssumption DEF ingest, Commits, DataOK, Bounded, Version
  <2>3. change' \in [Changers -> Change \cup {NoChange}]
    BY <1>4, <2>2 DEF ingest, DataOK, Change
  <2> QED  BY <1>4, <2>1, <2>2, <2>3, ChangeAssumption DEF ingest, DataOK, Bounded, Version,
              cacheVars, taskVars, ghostVars
<1>5. CASE Invalidate(c)
  <2>1. change[c] \in Change
    BY <1>0, <1>5 DEF Invalidate, invalidate_processed_for_source, bump_generation, processed_remove
  <2>2. change' \in [Changers -> Change \cup {NoChange}]
    BY <1>5, <2>1 DEF Invalidate, invalidate_processed_for_source, bump_generation,
       processed_remove, DataOK, Change
  <2>3. announced' \in Marks /\ covered' \in Marks
    BY <1>5, <2>1, RaiseFacts DEF Invalidate, invalidate_processed_for_source, bump_generation,
       processed_remove, DataOK, ghostVars
  <2>4. entry' \in Entry \cup {NoEntry} /\ work' \in [Tasks -> Work]
    BY <1>5, BumpedFacts DEF Invalidate, invalidate_processed_for_source, bump_generation,
       processed_remove, DataOK
  <2> QED  BY <1>5, <2>2, <2>3, <2>4 DEF Invalidate, DataOK, Bounded, dbVars
<1> QED  BY <1>1, <1>2, <1>3, <1>4, <1>5, <1>6 DEF ChangeStep

\* Types and bounds hold after every step.
THEOREM DataInvariant == Spec => []DataOK
<1>1. Init => DataOK
  BY VersionFacts, ChangeAssumption DEF Init, DataOK, Bounded, Version, Unread
<1>2. DataOK /\ FlightOK /\ [Next]_vars => DataOK'
  <2>1. DataOK /\ FlightOK /\ Next => DataOK'
    BY TaskData, ChangeData DEF Next, FlightOK
  <2>2. DataOK /\ UNCHANGED vars => DataOK'
    BY DEF vars, cacheVars, taskVars, dbVars, ghostVars, DataOK, Bounded
  <2> QED  BY <2>1, <2>2
<1> QED  BY <1>1, <1>2, FlightInvariant, PTL DEF Spec

\* Every variable keeps its type: in particular a claim that ends is gone from the
\* map, and no version leaves the bound.
THEOREM TypeCorrect == Spec => []TypeOK
<1>1. FlightOK /\ DataOK => TypeOK
  BY DEF FlightOK, RolesOK, DataOK, TypeOK
<1> QED  BY <1>1, FlightInvariant, DataInvariant, PTL

-----------------------------------------------------------------------------
(* Nothing superseded is kept. *)

\* Change c has bumped the key and is about to drop the entry.
HasBumped(c, kind, s) ==
    change[c].pc = "remove" /\ change[c].kind = kind /\ change[c].source = s

SawRows(t) ==
    \A s \in Sources :
        /\ covered.rows[s] <= work[t].rows[s]
        /\ \A c \in Changers : HasBumped(c, "ingest", s) => change[c].version <= work[t].rows[s]
SawToggles(t) ==
    \A s \in Sources :
        /\ covered.toggles[s] <= work[t].toggles[s]
        /\ \A c \in Changers : HasBumped(c, "toggle", s) => change[c].version <= work[t].toggles[s]

\* Marks and versions under way never run ahead of the tables.
CommittedOK ==
    /\ \A s \in Sources : covered.rows[s] <= rows[s] /\ covered.toggles[s] <= toggles[s]
    /\ \A c \in Changers : change[c].pc # "idle" =>
          /\ change[c].kind = "ingest" => change[c].version <= rows[change[c].source]
          /\ change[c].kind = "toggle" => change[c].version <= toggles[change[c].source]

\* A render that still holds its generation has read past every bump.
LiveOK ==
    \A t \in Tasks : work[t].live =>
        /\ pc[t] \in {"rows", "check", "insert", "recheck"} => SawToggles(t)
        /\ pc[t] \in {"check", "insert", "recheck"} => SawRows(t)

EntryCovers == \A s \in Sources : /\ covered.rows[s] <= entry.rows[s]
                                  /\ covered.toggles[s] <= entry.toggles[s]
EntryOK == HasFresh => UndoPending \/ EntryCovers

CoverOK == CommittedOK /\ LiveOK /\ EntryOK

\* Commits only grow the tables, and an invalidation marks what was committed.
LEMMA CommittedStep ==
  ASSUME DataOK, CommittedOK, NEW c \in Changers, ChangeStep(c)
  PROVE  CommittedOK'
<1> USE VersionFacts
<1>0. change[c].pc # "idle" => change[c] \in Change  BY DEF DataOK, NoChange
<1>a. ASSUME NEW d \in Changers, change[d].pc # "idle"
      PROVE  change[d].version \in Int /\ change[d].source \in Sources
  <2>1. change[d] \in Change  BY <1>a DEF DataOK, NoChange
  <2> QED  BY <2>1 DEF Change
<1>1. CASE profile_update(c)
  BY <1>1 DEF profile_update, CommittedOK, DataOK, cacheVars, taskVars, ghostVars
<1>2. CASE set_sources(c)
  BY <1>0, <1>2 DEF set_sources, CommittedOK, DataOK, Change, cacheVars, taskVars, ghostVars
<1>6. CASE Abandoned(c)
  BY <1>6 DEF Abandoned, CommittedOK, DataOK, NoChange, dbVars, ghostVars
<1>3. ASSUME NEW s \in Sources, source_toggle(c, s) PROVE CommittedOK'
  <2>0. \A q \in Sources : toggles[q] \in Int  BY DEF DataOK
  <2>a. toggles' = [toggles EXCEPT ![s] = @ + 1] /\ DOMAIN toggles = Sources
    BY <1>3 DEF source_toggle, DataOK
  <2>1. \A q \in Sources : toggles[q] <= toggles'[q] /\ toggles[q] \in Int /\ toggles'[q] \in Int
    BY <2>0, <2>a
  <2>2. /\ rows' = rows /\ covered' = covered
        /\ change' = [change EXCEPT ![c] = [pc |-> "list", kind |-> "toggle", source |-> s,
                                            version |-> toggles'[s], hit |-> FALSE]]
    BY <1>3 DEF source_toggle, ghostVars
  <2>3. \A s1 \in Sources : covered.toggles[s1] \in Int  BY DEF DataOK, Marks
  <2>4. \A d \in Changers : d # c => change'[d] = change[d]  BY <2>2 DEF DataOK
  <2>5. \A d \in Changers : change[d].pc # "idle" =>
            change[d].version \in Int /\ change[d].source \in Sources
    BY <1>a
  <2>6. change'[c].kind = "toggle" /\ change'[c].source = s /\ change'[c].version = toggles'[s]
    BY <2>2 DEF DataOK
  <2> QED  BY <2>1, <2>2, <2>3, <2>4, <2>5, <2>6 DEF CommittedOK
<1>4. ASSUME NEW s \in Sources, ingest(c, s) PROVE CommittedOK'
  <2>0. \A q \in Sources : rows[q] \in Int  BY DEF DataOK
  <2>a. rows' = [rows EXCEPT ![s] = @ + 1] /\ DOMAIN rows = Sources
    BY <1>4 DEF ingest, DataOK
  <2>1. \A q \in Sources : rows[q] <= rows'[q] /\ rows[q] \in Int /\ rows'[q] \in Int
    BY <2>0, <2>a
  <2>2. /\ toggles' = toggles /\ covered' = covered
        /\ change' = [change EXCEPT ![c] = [pc |-> "list", kind |-> "ingest", source |-> s,
                                            version |-> rows'[s], hit |-> FALSE]]
    BY <1>4 DEF ingest, ghostVars
  <2>3. \A s1 \in Sources : covered.rows[s1] \in Int  BY DEF DataOK, Marks
  <2>4. \A d \in Changers : d # c => change'[d] = change[d]  BY <2>2 DEF DataOK
  <2>5. \A d \in Changers : change[d].pc # "idle" =>
            change[d].version \in Int /\ change[d].source \in Sources
    BY <1>a
  <2>6. change'[c].kind = "ingest" /\ change'[c].source = s /\ change'[c].version = rows'[s]
    BY <2>2 DEF DataOK
  <2> QED  BY <2>1, <2>2, <2>3, <2>4, <2>5, <2>6 DEF CommittedOK
<1>5. CASE Invalidate(c)
  <2>0. change[c] \in Change /\ change[c].pc # "idle"
    BY <1>0, <1>5 DEF Invalidate, invalidate_processed_for_source, bump_generation, processed_remove
  <2>1. rows' = rows /\ toggles' = toggles  BY <1>5 DEF Invalidate, dbVars
  <2>2. \A d \in Changers : change'[d].pc # "idle" =>
            /\ change[d].pc # "idle" /\ change'[d].kind = change[d].kind
            /\ change'[d].source = change[d].source /\ change'[d].version = change[d].version
    BY <1>5, <2>0 DEF Invalidate, invalidate_processed_for_source, bump_generation,
       processed_remove, DataOK, Change, NoChange
  <2>3. covered' = covered \/ covered' = Raise(covered, change[c])
    BY <1>5 DEF Invalidate, invalidate_processed_for_source, bump_generation, processed_remove,
       ghostVars
  <2>4. \A s \in Sources : covered'.rows[s] <= rows[s] /\ covered'.toggles[s] <= toggles[s]
    BY <2>0, <2>3, RaiseFacts DEF CommittedOK, DataOK
  <2> QED  BY <2>1, <2>2, <2>4 DEF CommittedOK
<1> QED  BY <1>1, <1>2, <1>3, <1>4, <1>5, <1>6 DEF ChangeStep

\* Task q has superseded work, or keeps what it read and reads nothing new.
Steady(q) ==
    \/ ~work'[q].live
    \/ pc'[q] \notin {"rows", "check", "insert", "recheck"}
    \/ /\ work'[q] = work[q]
       /\ pc'[q] = "rows" => pc[q] = "rows"
       /\ pc'[q] \in {"check", "insert", "recheck"} => pc[q] \in {"check", "insert", "recheck"}

\* Steady tasks keep what they saw while no invalidation moves.
LEMMA SteadyLive ==
  ASSUME LiveOK, UNCHANGED <<change, covered>>, NEW q \in Tasks, Steady(q)
  PROVE  work'[q].live =>
            /\ pc'[q] \in {"rows", "check", "insert", "recheck"} => SawToggles(q)'
            /\ pc'[q] \in {"check", "insert", "recheck"} => SawRows(q)'
  BY DEF LiveOK, SawRows, SawToggles, HasBumped, Steady

\* Every step of a task other than the two reads is steady for all tasks.
LEMMA TasksAreSteady ==
  ASSUME DataOK, FlightOK,
         \/ \E r \in Requests : Serve(r) \/ NextRequest(r) \/ LeaderFails(r)
         \/ \E t \in Tasks : get_sources(t) \/ Put(t) \/ Release(t)
         \/ RevalidationFails \/ RuntimeRelease \/ Ages
  PROVE  \A q \in Tasks : Steady(q)
<1> USE BackgroundIsNoRequest
<1>0. work \in [Tasks -> Work] /\ pc \in [Tasks -> RequestPc \cup RenderPc \cup {"idle"}]
  BY DEF DataOK, FlightOK, RolesOK
<1>1. ASSUME NEW r \in Requests, Serve(r) \/ NextRequest(r) PROVE \A q \in Tasks : Steady(q)
  <2>1. \A q \in Tasks : q \notin {r, background} => work'[q] = work[q] /\ pc'[q] = pc[q]
    BY <1>0, <1>1 DEF Serve, resolve_token, processed_get, try_start_revalidate,
       member_source_ids, begin_inline_render, WokenGet, StopWaiting, NextRequest, Goto
  <2>2. pc'[r] \notin {"rows", "check", "insert", "recheck"}
    BY <1>0, <1>1 DEF Serve, resolve_token, processed_get, try_start_revalidate,
       member_source_ids, begin_inline_render, WokenGet, StopWaiting, NextRequest, Goto, Tasks
  <2>3. pc'[background] = "render" \/ (pc'[background] = pc[background]
                                       /\ work'[background] = work[background])
    BY <1>0, <1>1 DEF Serve, resolve_token, processed_get, try_start_revalidate,
       member_source_ids, begin_inline_render, WokenGet, StopWaiting, NextRequest, Goto, Tasks
  <2> QED  BY <2>1, <2>2, <2>3 DEF Steady
<1>2. ASSUME NEW r \in Requests, LeaderFails(r) PROVE \A q \in Tasks : Steady(q)
  <2>1. \A q \in Tasks : pc'[q] \in {"done", "woken"} \/ pc'[q] = pc[q]
    BY <1>0, <1>2 DEF LeaderFails, EndClaim, Goto
  <2>2. \A q \in Tasks : q # r => work'[q] = work[q]
    BY <1>0, <1>2 DEF LeaderFails
  <2>3. ~work'[r].live
    BY <1>0, <1>2 DEF LeaderFails, NoWork, Tasks
  <2> QED  BY <2>1, <2>2, <2>3 DEF Steady
<1>3. ASSUME NEW t \in Tasks, get_sources(t) PROVE \A q \in Tasks : Steady(q)
  BY <1>0, <1>3 DEF get_sources, Goto, Steady
<1>4. ASSUME NEW t \in Tasks, Put(t) PROVE \A q \in Tasks : Steady(q)
  <2>1. CASE processed_put_guarded(t)
    BY <1>0, <2>1 DEF processed_put_guarded, Goto, Steady
  <2>2. CASE processed_invalidate(t)
    BY <1>0, <2>2, BumpedFacts DEF processed_invalidate, Goto, Steady
  <2> QED  BY <1>4, <2>1, <2>2 DEF Put
<1>5. ASSUME NEW t \in Tasks, Release(t) PROVE \A q \in Tasks : Steady(q)
  <2>1. \A q \in Tasks : pc'[q] \in {"done", "woken", "idle"} \/ pc'[q] = pc[q]
    BY <1>0, <1>5 DEF Release, EndClaim, Goto
  <2>2. \A q \in Tasks : q # t => work'[q] = work[q]
    BY <1>0, <1>5 DEF Release
  <2>3. ~work'[t].live
    BY <1>0, <1>5 DEF Release, NoWork
  <2> QED  BY <2>1, <2>2, <2>3 DEF Steady
<1>6. CASE RevalidationFails
  BY <1>0, <1>6 DEF RevalidationFails, Goto, Steady
<1>7. CASE RuntimeRelease
  <2>1. work' = work /\ \A q \in Tasks : pc'[q] \in {"done", "woken"} \/ pc'[q] = pc[q]
    BY <1>0, <1>7 DEF RuntimeRelease, EndClaim, taskVars
  <2> QED  BY <2>1 DEF Steady
<1>8. CASE Ages
  BY <1>8 DEF Ages, taskVars, Steady
<1> QED  BY <1>1, <1>2, <1>3, <1>4, <1>5, <1>6, <1>7, <1>8

\* What a render reads now is at least as new as every bump so far.
LEMMA ReadsAreCurrent ==
  ASSUME DataOK, CommittedOK, NEW s \in Sources
  PROVE  /\ covered.rows[s] <= rows[s] /\ covered.toggles[s] <= toggles[s]
         /\ \A c \in Changers : /\ HasBumped(c, "ingest", s) => change[c].version <= rows[s]
                                /\ HasBumped(c, "toggle", s) => change[c].version <= toggles[s]
  BY DEF CommittedOK, HasBumped

\* The steps of the tasks keep LiveOK: steady ones, and the two reads.
LEMMA TaskLive ==
  ASSUME DataOK, FlightOK, CommittedOK, LiveOK,
         \/ \E r \in Requests : Serve(r) \/ NextRequest(r) \/ LeaderFails(r)
         \/ \E t \in Tasks : Render(t)
         \/ RevalidationFails \/ RuntimeRelease \/ Ages
  PROVE  LiveOK' /\ UNCHANGED <<change, covered, rows, toggles>>
<1>0. work \in [Tasks -> Work] /\ pc \in [Tasks -> RequestPc \cup RenderPc \cup {"idle"}]
  BY DEF DataOK, FlightOK, RolesOK
<1>1. UNCHANGED <<change, covered, rows, toggles>>
  BY DEF Serve, resolve_token, processed_get, try_start_revalidate, member_source_ids,
     begin_inline_render, WokenGet, StopWaiting, NextRequest, LeaderFails, Render, get_sources,
     get_many, list_with_source, Put, Release, RevalidationFails, RuntimeRelease, Ages, dbVars,
     ghostVars
<1>2. CASE \/ \E r \in Requests : Serve(r) \/ NextRequest(r) \/ LeaderFails(r)
           \/ \E t \in Tasks : get_sources(t) \/ Put(t) \/ Release(t)
           \/ RevalidationFails \/ RuntimeRelease \/ Ages
  <2>1. \A q \in Tasks : Steady(q)  BY <1>2, TasksAreSteady
  <2> QED  BY <1>1, <2>1, SteadyLive DEF LiveOK
<1>3. ASSUME NEW t \in Tasks, get_many(t) PROVE LiveOK'
  <2>1. \A q \in Tasks : q # t => Steady(q)
    BY <1>0, <1>3 DEF get_many, Goto, Steady
  <2>2. pc'[t] = "rows" /\ work'[t].toggles = toggles
    BY <1>0, <1>3 DEF get_many, Goto, Work
  <2>3. SawToggles(t)'
    BY <1>1, <2>2, ReadsAreCurrent DEF SawToggles, HasBumped
  <2> QED  BY <1>1, <2>1, <2>2, <2>3, SteadyLive DEF LiveOK
<1>4. ASSUME NEW t \in Tasks, list_with_source(t) PROVE LiveOK'
  <2>1. \A q \in Tasks : q # t => Steady(q)
    BY <1>0, <1>4 DEF list_with_source, Goto, Steady
  <2>2. /\ pc[t] = "rows" /\ pc'[t] = "check" /\ work'[t].rows = rows
        /\ work'[t].toggles = work[t].toggles /\ work'[t].live = work[t].live
    BY <1>0, <1>4 DEF list_with_source, Goto, Work
  <2>3. SawRows(t)'
    BY <1>1, <2>2, ReadsAreCurrent DEF SawRows, HasBumped
  <2>4. work'[t].live => SawToggles(t)'
    BY <1>1, <2>2 DEF LiveOK, SawToggles, HasBumped
  <2> QED  BY <1>1, <2>1, <2>2, <2>3, <2>4, SteadyLive DEF LiveOK
<1> QED  BY <1>1, <1>2, <1>3, <1>4 DEF Render

\* A commit bumps nothing yet; a bump supersedes every render; and what a render
\* started since then has seen does not shrink when the mark follows.
LEMMA ChangeLive ==
  ASSUME DataOK, LiveOK, NEW c \in Changers, ChangeStep(c)
  PROVE  LiveOK'
<1>0. change[c].pc # "idle" => change[c] \in Change  BY DEF DataOK, NoChange
<1>1. CASE bump_generation(c) /\ Invalidate(c)
  BY <1>1, BumpedFacts DEF bump_generation, LiveOK, DataOK
<1>2. CASE processed_remove(c) /\ Invalidate(c)
  <2>1. /\ change[c] \in Change /\ change[c].pc = "remove" /\ covered \in Marks
        /\ covered' = Raise(covered, change[c]) /\ UNCHANGED <<work, pc>>
        /\ change' = [change EXCEPT ![c] = NoChange]
    BY <1>0, <1>2 DEF processed_remove, Invalidate, DataOK
  <2>2. \A d \in Changers, k \in {"ingest", "toggle"}, s \in Sources :
            HasBumped(d, k, s)' => HasBumped(d, k, s) /\ change'[d] = change[d]
    BY <2>1 DEF HasBumped, NoChange, DataOK
  <2>3. ASSUME NEW t \in Tasks, SawRows(t) PROVE SawRows(t)'
    BY <2>1, <2>2, <2>3, RaiseFacts DEF SawRows, HasBumped
  <2>4. ASSUME NEW t \in Tasks, SawToggles(t) PROVE SawToggles(t)'
    BY <2>1, <2>2, <2>4, RaiseFacts DEF SawToggles, HasBumped
  <2> QED  BY <2>1, <2>3, <2>4 DEF LiveOK
<1>3. CASE ~(bump_generation(c) /\ Invalidate(c)) /\ ~(processed_remove(c) /\ Invalidate(c))
  <2>1. UNCHANGED <<work, pc, covered>>
    BY <1>3 DEF ChangeStep, profile_update, set_sources, Abandoned, source_toggle, ingest, Invalidate,
       invalidate_processed_for_source, taskVars, ghostVars
  <2>2. change'[c].pc # "remove" /\ \A d \in Changers : d # c => change'[d] = change[d]
    BY <1>0, <1>3 DEF ChangeStep, profile_update, set_sources, Abandoned, source_toggle, ingest, Invalidate,
       invalidate_processed_for_source, DataOK, Change, NoChange
  <2> QED  BY <2>1, <2>2 DEF LiveOK, SawRows, SawToggles, HasBumped
<1> QED  BY <1>1, <1>2, <1>3

\* A pending undo stays pending until it takes the entry away.
LEMMA UndoStays ==
  ASSUME DataOK, FlightOK, UndoPending, [Next]_vars
  PROVE  UndoPending' \/ entry' = NoEntry
<1> USE BackgroundIsNoRequest
<1>0. work \in [Tasks -> Work] /\ pc \in [Tasks -> RequestPc \cup RenderPc \cup {"idle"}]
  BY DEF DataOK, FlightOK, RolesOK
<1>1. PICK u \in Tasks : (pc[u] = "recheck" /\ ~work[u].live) \/ pc[u] \in {"drop", "undo"}
  BY DEF UndoPending
<1>a. ASSUME pc'[u] = pc[u], ~work'[u].live \/ work'[u] = work[u] PROVE UndoPending'
  BY <1>1, <1>a DEF UndoPending
<1>2. CASE \E r \in Requests : Serve(r) \/ NextRequest(r)
  <2>1. PICK r \in Requests : Serve(r) \/ NextRequest(r)  BY <1>2
  <2>2. u # r
    BY <1>1, <2>1 DEF Serve, resolve_token, processed_get, try_start_revalidate,
       member_source_ids, begin_inline_render, WokenGet, StopWaiting, NextRequest
  <2>3. u = background => revalidating # "free"
    BY <1>1 DEF FlightOK, SingleFlight, Rendering, RenderPc
  <2>4. pc'[u] = pc[u] /\ work'[u] = work[u]
    BY <1>0, <2>1, <2>2, <2>3 DEF Serve, resolve_token, processed_get, try_start_revalidate,
       member_source_ids, begin_inline_render, WokenGet, StopWaiting, NextRequest, Goto, Tasks
  <2> QED  BY <2>4, <1>a
<1>3. CASE \E r \in Requests : LeaderFails(r)
  <2>1. PICK r \in Requests : LeaderFails(r)  BY <1>3
  <2>2. u # r /\ pc[u] # "waiting"  BY <1>1, <2>1 DEF LeaderFails
  <2>3. pc'[u] = pc[u] /\ work'[u] = work[u]
    BY <1>0, <2>1, <2>2 DEF LeaderFails, EndClaim, Goto
  <2> QED  BY <2>3, <1>a
<1>4. ASSUME NEW t \in Tasks, get_sources(t) \/ get_many(t) \/ list_with_source(t)
      PROVE  UndoPending'
  <2>1. u # t  BY <1>1, <1>4 DEF get_sources, get_many, list_with_source
  <2>2. pc'[u] = pc[u] /\ work'[u] = work[u]
    BY <1>0, <1>4, <2>1 DEF get_sources, get_many, list_with_source, Goto
  <2> QED  BY <2>2, <1>a
<1>5. ASSUME NEW t \in Tasks, Put(t) PROVE UndoPending' \/ entry' = NoEntry
  <2>1. CASE t = u
    BY <1>0, <1>1, <1>5, <2>1 DEF Put, processed_put_guarded, processed_invalidate, Goto, UndoPending
  <2>2. CASE t # u
    <3>1. pc'[u] = pc[u]
      BY <1>0, <1>5, <2>2 DEF Put, processed_put_guarded, processed_invalidate, Goto
    <3>2. work' = work \/ work' = Bumped
      BY <1>5 DEF Put, processed_put_guarded, processed_invalidate
    <3> QED  BY <1>0, <3>1, <3>2, <1>a, BumpedFacts
  <2> QED  BY <2>1, <2>2
<1>6. ASSUME NEW t \in Tasks, Release(t) PROVE UndoPending'
  <2>1. u # t /\ pc[u] # "waiting"  BY <1>1, <1>6 DEF Release
  <2>2. pc'[u] = pc[u] /\ work'[u] = work[u]
    BY <1>0, <1>6, <2>1 DEF Release, EndClaim, Goto
  <2> QED  BY <2>2, <1>a
<1>7. CASE RevalidationFails \/ RuntimeRelease \/ Ages
  <2>1. pc'[u] = pc[u] /\ work' = work
    <3>1. CASE RevalidationFails
      BY <1>0, <1>1, <3>1 DEF RevalidationFails, Goto
    <3>2. CASE RuntimeRelease
      <4>1. claim.holder \in Runtime => u # claim.holder
        BY TaskAssumption DEF Runtime, Tasks, background
      <4> QED  BY <1>0, <1>1, <3>2, <4>1 DEF RuntimeRelease, EndClaim, taskVars
    <3>3. CASE Ages  BY <3>3 DEF Ages, taskVars
    <3> QED  BY <1>7, <3>1, <3>2, <3>3
  <2> QED  BY <2>1, <1>a
<1>8. ASSUME NEW c \in Changers, ChangeStep(c) PROVE UndoPending'
  <2>1. pc' = pc /\ (work' = work \/ work' = Bumped)
    BY <1>8 DEF ChangeStep, profile_update, set_sources, Abandoned, source_toggle, ingest, Invalidate,
       invalidate_processed_for_source, bump_generation, processed_remove, taskVars
  <2> QED  BY <1>0, <2>1, <1>a, BumpedFacts
<1>9. CASE UNCHANGED vars  BY <1>9, <1>a DEF vars, taskVars
<1> QED  BY <1>2, <1>3, <1>4, <1>5, <1>6, <1>7, <1>8, <1>9 DEF Next, Render

\* An entry is stored by a render that has seen every bump, or by one that is
\* about to take it back.
LEMMA EntryStep ==
  ASSUME DataOK, FlightOK, LiveOK, EntryOK, [Next]_vars
  PROVE  EntryOK'
<1>0. work \in [Tasks -> Work] /\ pc \in [Tasks -> RequestPc \cup RenderPc \cup {"idle"}]
  BY DEF DataOK, FlightOK, RolesOK
<1>1. CASE entry' = NoEntry
  BY <1>1 DEF EntryOK, HasFresh, NoEntry
<1>2. CASE entry' # NoEntry /\ covered' = covered /\ (entry' = entry \/ Ages)
  <2>1. HasFresh' => HasFresh /\ entry' = entry
    BY <1>2 DEF Ages, HasFresh, DataOK, Entry
  <2> QED  BY <1>2, <2>1, UndoStays DEF EntryOK, EntryCovers
<1>3. ASSUME NEW t \in Tasks, pc[t] = "insert", processed_put_guarded(t), covered' = covered
      PROVE  EntryOK'
  <2>1. entry' = NewEntry(t) /\ pc'[t] = "recheck" /\ work' = work
    BY <1>0, <1>3 DEF processed_put_guarded, Goto
  <2>2. CASE work[t].live
    BY <1>3, <2>1, <2>2 DEF LiveOK, SawRows, SawToggles, EntryOK, EntryCovers, NewEntry
  <2>3. CASE ~work[t].live
    BY <2>1, <2>3 DEF EntryOK, UndoPending
  <2> QED  BY <2>2, <2>3
<1>4. \/ entry' = NoEntry
      \/ covered' = covered /\ (entry' = entry \/ Ages)
      \/ \E t \in Tasks : pc[t] = "insert" /\ processed_put_guarded(t) /\ covered' = covered
  <2>1. ASSUME NEW r \in Requests, Serve(r) \/ NextRequest(r) \/ LeaderFails(r)
        PROVE  covered' = covered /\ entry' = entry
    BY <2>1 DEF Serve, resolve_token, processed_get, try_start_revalidate, member_source_ids,
       begin_inline_render, WokenGet, StopWaiting, NextRequest, LeaderFails, cacheVars, ghostVars
  <2>2. ASSUME NEW t \in Tasks, Render(t)
        PROVE  \/ entry' = NoEntry
               \/ covered' = covered /\ entry' = entry
               \/ pc[t] = "insert" /\ processed_put_guarded(t) /\ covered' = covered
    <3>1. CASE Put(t)
      <4>1. covered' = covered  BY <3>1 DEF Put, ghostVars
      <4>2. CASE processed_put_guarded(t) /\ pc[t] # "insert"
        BY <4>1, <4>2 DEF processed_put_guarded
      <4>3. CASE processed_invalidate(t)
        BY <4>1, <4>3 DEF processed_invalidate
      <4> QED  BY <3>1, <4>1, <4>2, <4>3 DEF Put
    <3>2. CASE get_sources(t) \/ get_many(t) \/ list_with_source(t) \/ Release(t)
      BY <3>2 DEF get_sources, get_many, list_with_source, Release, cacheVars, ghostVars
    <3> QED  BY <2>2, <3>1, <3>2 DEF Render
  <2>3. CASE RevalidationFails \/ RuntimeRelease \/ Ages \/ UNCHANGED vars
    BY <2>3 DEF RevalidationFails, RuntimeRelease, Ages, vars, cacheVars, ghostVars
  <2>4. ASSUME NEW c \in Changers, ChangeStep(c)
        PROVE  entry' = NoEntry \/ (covered' = covered /\ entry' = entry)
    <3>1. CASE Invalidate(c)
      BY <3>1 DEF Invalidate, invalidate_processed_for_source, bump_generation, processed_remove,
         ghostVars
    <3>2. CASE profile_update(c) \/ set_sources(c) \/ Abandoned(c)
               \/ \E s \in Sources : source_toggle(c, s) \/ ingest(c, s)
      BY <3>2 DEF profile_update, set_sources, Abandoned, source_toggle, ingest, cacheVars, ghostVars
    <3> QED  BY <2>4, <3>1, <3>2 DEF ChangeStep
  <2> QED  BY <2>1, <2>2, <2>3, <2>4 DEF Next
<1> QED  BY <1>1, <1>2, <1>3, <1>4

\* Live renders and kept entries cover every completed bump, after every step.
THEOREM CoverInvariant == Spec => []CoverOK
<1>1. Init => CoverOK
  BY VersionFacts DEF Init, CoverOK, CommittedOK, LiveOK, EntryOK, HasFresh, NoEntry, NoMarks,
     NoWork, NoChange, Unread
<1>2. CoverOK /\ DataOK /\ FlightOK /\ [Next]_vars => CoverOK'
  <2>1. ASSUME CoverOK, DataOK, FlightOK, Next PROVE CommittedOK' /\ LiveOK'
    <3>1. CASE \E c \in Changers : ChangeStep(c)
      BY <2>1, <3>1, CommittedStep, ChangeLive DEF CoverOK
    <3>2. CASE \/ \E r \in Requests : Serve(r) \/ NextRequest(r) \/ LeaderFails(r)
               \/ \E t \in Tasks : Render(t)
               \/ RevalidationFails \/ RuntimeRelease \/ Ages
      <4>1. LiveOK' /\ UNCHANGED <<change, covered, rows, toggles>>
        BY <2>1, <3>2, TaskLive DEF CoverOK
      <4> QED  BY <2>1, <4>1 DEF CoverOK, CommittedOK
    <3> QED  BY <2>1, <3>1, <3>2 DEF Next
  <2>2. CoverOK /\ UNCHANGED vars => CommittedOK' /\ LiveOK'
    BY DEF CoverOK, CommittedOK, LiveOK, SawRows, SawToggles, HasBumped, vars, dbVars, taskVars,
       ghostVars
  <2>3. CoverOK /\ DataOK /\ FlightOK /\ [Next]_vars => EntryOK'
    BY EntryStep DEF CoverOK
  <2> QED  BY <2>1, <2>2, <2>3 DEF CoverOK
<1> QED  BY <1>1, <1>2, FlightInvariant, DataInvariant, PTL DEF Spec

\* Once an invalidation that bumped the key has returned, no fresh rendering of older
\* rows or older source settings stays cached: the two generation checks around the
\* insert of processed_put_guarded suffice, however the tasks interleave.
THEOREM SupersededIsNeverKept == Spec => []SupersededIsNotKept
<1>1. CoverOK /\ DataOK => SupersededIsNotKept
  <2> SUFFICES ASSUME CoverOK, DataOK, HasFresh, ~UndoPending, NEW s \in entry.named
               PROVE  /\ entry.rows[s] >= covered.rows[s]
                      /\ entry.toggles[s] >= covered.toggles[s]
    BY DEF SupersededIsNotKept
  <2>1. entry \in Entry  BY DEF DataOK, HasFresh, NoEntry
  <2>2. s \in Sources /\ EntryCovers  BY <2>1 DEF Entry, CoverOK, EntryOK
  <2> QED  BY <2>1, <2>2, VersionFacts DEF EntryCovers, Entry, DataOK, Marks
<1> QED  BY <1>1, CoverInvariant, DataInvariant, PTL
=============================================================================
