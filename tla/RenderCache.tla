----------------------------- MODULE RenderCache -----------------------------
(***************************************************************************)
(* The processed cache of fumox-server (cache.rs) under serve_cached       *)
(* (serve.rs), for one key, the subscription of one profile: requests look *)
(* the key up, revalidate it in the background or render it inline behind  *)
(* a single-flight claim, while admin saves and ingests commit changes and *)
(* then invalidate.  Every step is what runs between two await points.     *)
(*                                                                         *)
(* What a rendering has seen is the version of each part of the database   *)
(* it read.  The generation counter of the key is only ever compared with  *)
(* the value a render took when it started, so it is kept as one flag per  *)
(* render: `live`, cleared by every bump.                                  *)
(***************************************************************************)
EXTENDS Integers, FiniteSets

CONSTANTS Requests,      \* client requests for the key
          Sources,       \* sources a profile may be composed of
          Changers,      \* handlers and ingests that may run at once
          Kinds,         \* the kinds of change: subset of {"save", "toggle", "ingest"}
          MaxChanges,    \* bound: committed changes
          Ageing,        \* what time does to an entry: subset of {"stale", "evicted"}
          ClientsReturn  \* whether an answered client asks again

ASSUME ChangeAssumption == Kinds \subseteq {"save", "toggle", "ingest"} /\ MaxChanges \in Nat
ASSUME SwitchAssumption == Ageing \subseteq {"stale", "evicted"} /\ ClientsReturn \in BOOLEAN
ASSUME TaskAssumption == Requests \cap {"background", "nobody", "runtime", "runtime_failed"} = {}

background == "background"   \* the re-render serve_cached spawns
Tasks == Requests \cup {background}

VARIABLES config,       \* profiles: version of the profile's own settings
          members,      \* profile_sources: its composition
          toggles,      \* sources: how often each was switched on or off
          rows,         \* proxies: version of each source's rows
          commits,
          entry,        \* Caches.processed
          claim,        \* Caches.inline_rendering
          revalidating, \* Caches.revalidating
          pc, work, scope,
          change,       \* the handler that commits a change and invalidates
          announced,    \* versions whose invalidation has returned
          covered       \* those of them whose invalidation bumped the key

dbVars == <<config, members, toggles, rows, commits>>
cacheVars == <<entry, claim, revalidating>>
taskVars == <<pc, work, scope>>
ghostVars == <<announced, covered>>
vars == <<dbVars, cacheVars, taskVars, change, ghostVars>>

-----------------------------------------------------------------------------
Version == 0 .. MaxChanges
Unread == [s \in Sources |-> 0]

\* Sources start enabled.
Enabled(s) == toggles[s] % 2 = 0

\* One render: what it read, and whether its generation still holds.
Work == [live : BOOLEAN, config : Version, toggles : [Sources -> Version],
         rows : [Sources -> Version], named : SUBSET Sources]
NoWork == [live |-> FALSE, config |-> 0, toggles |-> Unread, rows |-> Unread, named |-> {}]

Entry == [config : Version, toggles : [Sources -> Version], rows : [Sources -> Version],
          named : SUBSET Sources, fresh : BOOLEAN]
NoEntry == [fresh |-> FALSE]

\* The guard's Drop found the map locked and spawned the removal: after a render
\* that ended without a published failure, or with one.
Runtime == {"runtime", "runtime_failed"}
Claim == [holder : Requests \cup Runtime, names : SUBSET Sources]
NoClaim == [holder |-> "nobody"]

RequestPc == {"new", "resolved", "stale", "cold", "claiming", "waiting", "woken", "done"}
RenderPc == {"render", "settings", "rows", "check", "insert", "recheck", "drop", "undo", "release"}
Rendering(t) == pc[t] \in RenderPc

Change == [pc : {"compose", "list", "claims", "bump", "remove"},
           kind : {"save", "toggle", "ingest"}, source : Sources, version : Version,
           hit : BOOLEAN]
NoChange == [pc |-> "idle"]

Marks == [config : Version, toggles : [Sources -> Version], rows : [Sources -> Version]]
NoMarks == [config |-> 0, toggles |-> Unread, rows |-> Unread]

TypeOK ==
    /\ config \in Version /\ members \subseteq Sources
    /\ toggles \in [Sources -> Version] /\ rows \in [Sources -> Version]
    /\ commits \in Version
    /\ entry \in Entry \cup {NoEntry}
    /\ claim \in Claim \cup {NoClaim}
    /\ revalidating \in {"free", "held", "runtime"}
    /\ pc \in [Tasks -> RequestPc \cup RenderPc \cup {"idle"}]
    /\ work \in [Tasks -> Work] /\ scope \in [Requests -> SUBSET Sources]
    /\ change \in [Changers -> Change \cup {NoChange}]
    /\ announced \in Marks /\ covered \in Marks

Init ==
    /\ config = 0 /\ members = Sources /\ toggles = Unread /\ rows = Unread /\ commits = 0
    /\ entry = NoEntry /\ claim = NoClaim /\ revalidating = "free"
    /\ pc = [t \in Tasks |-> IF t \in Requests THEN "new" ELSE "idle"]
    /\ work = [t \in Tasks |-> NoWork] /\ scope = [r \in Requests |-> {}]
    /\ change = [c \in Changers |-> NoChange]
    /\ announced = NoMarks /\ covered = NoMarks

Goto(t, l) == pc' = [pc EXCEPT ![t] = l]

-----------------------------------------------------------------------------
(* serve_sub and serve_cached up to the render. *)

\* The profile is loaded before the cache is looked at.
resolve_token(r) ==
    /\ pc[r] = "new"
    /\ work' = [work EXCEPT ![r] = [NoWork EXCEPT !.config = config]]
    /\ Goto(r, "resolved")
    /\ UNCHANGED <<dbVars, cacheVars, scope, change, ghostVars>>

HasFresh == entry.fresh

processed_get(r) ==
    /\ pc[r] = "resolved"
    /\ Goto(r, IF HasFresh THEN "done" ELSE IF entry # NoEntry THEN "stale" ELSE "cold")
    /\ UNCHANGED <<dbVars, cacheVars, work, scope, change, ghostVars>>

\* The stale entry is the answer either way; the first request to get here
\* spawns the background render, with the profile it loaded.
try_start_revalidate(r) ==
    /\ pc[r] = "stale"
    /\ IF revalidating = "free"
       THEN /\ revalidating' = "held"
            /\ pc' = [pc EXCEPT ![r] = "done", ![background] = "render"]
            /\ work' = [work EXCEPT ![background] = [work[r] EXCEPT !.live = TRUE]]
       ELSE Goto(r, "done") /\ UNCHANGED <<revalidating, work>>
    /\ UNCHANGED <<dbVars, entry, claim, scope, change, ghostVars>>

\* The claim's sources are resolved once, before the wait loop.
member_source_ids(r) ==
    /\ pc[r] = "cold"
    /\ scope' = [scope EXCEPT ![r] = members]
    /\ Goto(r, "claiming")
    /\ UNCHANGED <<dbVars, cacheVars, work, change, ghostVars>>

\* Mutation of begin_inline_render: every miss renders.
begin_inline_render_always(r) ==
    /\ pc[r] = "claiming"
    /\ claim' = [holder |-> r, names |-> scope[r]]
    /\ work' = [work EXCEPT ![r].live = TRUE]
    /\ Goto(r, "render")
    /\ UNCHANGED <<dbVars, entry, revalidating, scope, change, ghostVars>>

begin_inline_render(r) ==
    /\ pc[r] = "claiming"
    /\ IF claim = NoClaim
       THEN /\ claim' = [holder |-> r, names |-> scope[r]]
            /\ work' = [work EXCEPT ![r].live = TRUE]
            /\ Goto(r, "render")
       ELSE Goto(r, "waiting") /\ UNCHANGED <<claim, work>>
    /\ UNCHANGED <<dbVars, entry, revalidating, scope, change, ghostVars>>

\* Woken by the end of the claim, the outcome being Stored.
WokenGet(r) ==
    /\ pc[r] = "woken"
    /\ Goto(r, IF HasFresh THEN "done" ELSE "claiming")
    /\ UNCHANGED <<dbVars, cacheVars, work, scope, change, ghostVars>>

\* WAIT_FOR_LEADER passes, or the client goes away: nothing is left behind.
StopWaiting(r) ==
    /\ pc[r] = "waiting"
    /\ Goto(r, "done")
    /\ UNCHANGED <<dbVars, cacheVars, work, scope, change, ghostVars>>

NextRequest(r) ==
    /\ ClientsReturn /\ pc[r] = "done"
    /\ Goto(r, "new")
    /\ scope' = [scope EXCEPT ![r] = {}]
    /\ work' = [work EXCEPT ![r] = NoWork]
    /\ UNCHANGED <<dbVars, cacheVars, change, ghostVars>>

-----------------------------------------------------------------------------
(* The render, inline or in the background, and the guarded put. *)

\* render_sub reads the composition, then the sources, then their rows.
get_sources(t) ==
    /\ pc[t] = "render"
    /\ work' = [work EXCEPT ![t].named = members]
    /\ Goto(t, "settings")
    /\ UNCHANGED <<dbVars, cacheVars, scope, change, ghostVars>>

get_many(t) ==
    /\ pc[t] = "settings"
    /\ work' = [work EXCEPT ![t].named = {s \in @ : Enabled(s)}, ![t].toggles = toggles]
    /\ Goto(t, "rows")
    /\ UNCHANGED <<dbVars, cacheVars, scope, change, ghostVars>>

list_with_source(t) ==
    /\ pc[t] = "rows"
    /\ work' = [work EXCEPT ![t].rows = rows]
    /\ Goto(t, "check")
    /\ UNCHANGED <<dbVars, cacheVars, scope, change, ghostVars>>

\* Mutations of EndClaim: the map keeps the entry of the claim; the wait-channel is
\* never closed.
EndClaim_leaves_entry(r, woken) ==
    claim' = [claim EXCEPT !.holder = "nobody"] /\ Goto(r, "done")
EndClaim_forgets_waiters(r, woken) == claim' = NoClaim /\ Goto(r, "done")

\* Ends the claim of request r with the requests that wait for it.
EndClaim(r, woken) ==
    /\ claim' = NoClaim
    /\ pc' = [q \in Tasks |-> IF q = r THEN "done"
                              ELSE IF pc[q] = "waiting" THEN woken ELSE pc[q]]

\* Drop of the two guards: at once, or handed to the runtime.
Release(t) ==
    /\ pc[t] = "release"
    /\ IF t = background
       THEN /\ \E left \in {"free", "runtime"} : revalidating' = left
            /\ Goto(t, "idle") /\ UNCHANGED claim
       ELSE /\ \/ EndClaim(t, "woken")
               \/ claim' = [claim EXCEPT !.holder = "runtime"] /\ Goto(t, "done")
            /\ UNCHANGED revalidating
    /\ work' = [work EXCEPT ![t] = NoWork]
    /\ UNCHANGED <<dbVars, entry, scope, change, ghostVars>>

RuntimeRelease ==
    \/ /\ claim.holder \in Runtime
       /\ EndClaim(claim.holder, IF claim.holder = "runtime" THEN "woken" ELSE "done")
       /\ UNCHANGED <<dbVars, entry, revalidating, work, scope, change, ghostVars>>
    \/ /\ revalidating = "runtime" /\ revalidating' = "free"
       /\ UNCHANGED <<dbVars, entry, claim, taskVars, change, ghostVars>>

\* Mutation of LeaderFails: the claim is released by hand, which an unwind skips.
LeaderFails_unreleased(r) ==
    /\ pc[r] \in {"render", "settings", "rows"}
    /\ Goto(r, "done")
    /\ work' = [work EXCEPT ![r] = NoWork]
    /\ UNCHANGED <<dbVars, cacheVars, scope, change, ghostVars>>

\* The render fails, times out, panics, or its client goes away.  A leader that
\* fails publishes the failure, unless the map is locked, and its waiters answer
\* with it; after a panic or a disconnect they start over.  The claim ends at
\* once or is handed to the runtime.
LeaderFails(r) ==
    /\ pc[r] \in {"render", "settings", "rows"}
    /\ \/ \E woken \in {"done", "woken"} : EndClaim(r, woken)
       \/ claim' = [claim EXCEPT !.holder = "runtime"] /\ Goto(r, "done")
       \/ /\ claim' = [claim EXCEPT !.holder = "runtime_failed"]
          /\ pc' = [q \in Tasks |-> IF q = r \/ pc[q] = "waiting" THEN "done" ELSE pc[q]]
    /\ work' = [work EXCEPT ![r] = NoWork]
    /\ UNCHANGED <<dbVars, entry, revalidating, scope, change, ghostVars>>

\* An unrecoverable upstream answer drops the snapshot, any other failure keeps it.
RevalidationFails ==
    /\ pc[background] \in {"render", "settings", "rows"}
    /\ Goto(background, "drop") \/ Goto(background, "release")
    /\ UNCHANGED <<dbVars, cacheVars, work, scope, change, ghostVars>>

Bumped == [t \in Tasks |-> [work[t] EXCEPT !.live = FALSE]]

NewEntry(t) == [config |-> work[t].config, toggles |-> work[t].toggles,
                rows |-> work[t].rows, named |-> work[t].named, fresh |-> TRUE]

\* Mutations of processed_put_guarded: no second look at the generation; a
\* superseded put waits for its generation to come back.
processed_put_guarded_once(t) ==
    \/ /\ pc[t] = "check"
       /\ Goto(t, IF work[t].live THEN "insert" ELSE "release")
       /\ UNCHANGED <<entry, work>>
    \/ pc[t] = "insert" /\ entry' = NewEntry(t) /\ Goto(t, "release") /\ UNCHANGED work
processed_put_guarded_waits(t) ==
    \/ pc[t] = "check" /\ work[t].live /\ Goto(t, "insert") /\ UNCHANGED <<entry, work>>
    \/ pc[t] = "insert" /\ entry' = NewEntry(t) /\ Goto(t, "release") /\ UNCHANGED work

processed_put_guarded(t) ==
    \/ /\ pc[t] = "check"
       /\ Goto(t, IF work[t].live THEN "insert" ELSE "release")
       /\ UNCHANGED <<entry, work>>
    \/ /\ pc[t] = "insert"
       /\ entry' = NewEntry(t)
       /\ Goto(t, "recheck")
       /\ UNCHANGED work
    \/ /\ pc[t] = "recheck"
       /\ Goto(t, IF work[t].live THEN "release" ELSE "drop")
       /\ UNCHANGED <<entry, work>>

\* processed_invalidate by the render itself.
processed_invalidate(t) ==
    \/ pc[t] = "drop" /\ work' = Bumped /\ Goto(t, "undo") /\ UNCHANGED entry
    \/ pc[t] = "undo" /\ entry' = NoEntry /\ Goto(t, "release") /\ UNCHANGED work

Put(t) ==
    /\ processed_put_guarded(t) \/ processed_invalidate(t)
    /\ UNCHANGED <<dbVars, claim, revalidating, scope, change, ghostVars>>

-----------------------------------------------------------------------------
(* Changes: commit, then invalidate. *)

Commits == commits < MaxChanges /\ commits' = commits + 1

\* profile_update writes the profile and its composition, then drops the key.
profile_update(c) ==
    /\ change[c].pc = "idle" /\ "save" \in Kinds /\ Commits
    /\ config' = config + 1
    /\ \E s \in Sources : change' = [change EXCEPT ![c] =
           [pc |-> "compose", kind |-> "save", source |-> s, version |-> config', hit |-> TRUE]]
    /\ UNCHANGED <<members, toggles, rows, cacheVars, taskVars, ghostVars>>

set_sources(c) ==
    /\ change[c].pc = "compose"
    /\ members' \in SUBSET Sources
    /\ change' = [change EXCEPT ![c].pc = "bump"]
    /\ UNCHANGED <<config, toggles, rows, commits, cacheVars, taskVars, ghostVars>>

\* The second write of a save fails, or the handler is dropped with its client:
\* what was committed stays, and nothing is invalidated.
Abandoned(c) ==
    /\ change[c].pc \in {"compose", "list", "claims", "bump"}
    /\ change' = [change EXCEPT ![c] = NoChange]
    /\ UNCHANGED <<dbVars, cacheVars, taskVars, ghostVars>>

source_toggle(c, s) ==
    /\ change[c].pc = "idle" /\ "toggle" \in Kinds /\ Commits
    /\ toggles' = [toggles EXCEPT ![s] = @ + 1]
    /\ change' = [change EXCEPT ![c] =
           [pc |-> "list", kind |-> "toggle", source |-> s, version |-> toggles'[s], hit |-> FALSE]]
    /\ UNCHANGED <<config, members, rows, cacheVars, taskVars, ghostVars>>

ingest(c, s) ==
    /\ change[c].pc = "idle" /\ "ingest" \in Kinds /\ Commits
    /\ rows' = [rows EXCEPT ![s] = @ + 1]
    /\ change' = [change EXCEPT ![c] =
           [pc |-> "list", kind |-> "ingest", source |-> s, version |-> rows'[s], hit |-> FALSE]]
    /\ UNCHANGED <<config, members, toggles, cacheVars, taskVars, ghostVars>>

Raise(marks, ch) ==
    LET Newer(old) == IF old < ch.version THEN ch.version ELSE old
    IN  CASE ch.kind = "save" -> [marks EXCEPT !.config = Newer(@)]
          [] ch.kind = "toggle" -> [marks EXCEPT !.toggles[ch.source] = Newer(@)]
          [] ch.kind = "ingest" -> [marks EXCEPT !.rows[ch.source] = Newer(@)]

\* The entries that name the source are collected first, the claims after them.
invalidate_processed_for_source(c) ==
    \/ /\ change[c].pc = "list"
       /\ change' = [change EXCEPT ![c].pc = "claims",
                        ![c].hit = entry # NoEntry /\ change[c].source \in entry.named]
       /\ UNCHANGED <<entry, work, ghostVars>>
    \/ /\ change[c].pc = "claims"
       /\ LET hit == change[c].hit \/ (claim # NoClaim /\ change[c].source \in claim.names)
          IN  IF hit
              THEN /\ change' = [change EXCEPT ![c].pc = "bump", ![c].hit = TRUE]
                   /\ UNCHANGED ghostVars
              ELSE /\ change' = [change EXCEPT ![c] = NoChange]
                   /\ announced' = Raise(announced, change[c])
                   /\ UNCHANGED covered
       /\ UNCHANGED <<entry, work>>

bump_generation(c) ==
    /\ change[c].pc = "bump"
    /\ work' = Bumped
    /\ change' = [change EXCEPT ![c].pc = "remove"]
    /\ UNCHANGED <<entry, ghostVars>>

processed_remove(c) ==
    /\ change[c].pc = "remove"
    /\ entry' = NoEntry
    /\ change' = [change EXCEPT ![c] = NoChange]
    /\ announced' = Raise(announced, change[c])
    /\ covered' = Raise(covered, change[c])
    /\ UNCHANGED work

Invalidate(c) ==
    /\ invalidate_processed_for_source(c) \/ bump_generation(c) \/ processed_remove(c)
    /\ UNCHANGED <<dbVars, claim, revalidating, pc, scope>>

-----------------------------------------------------------------------------
\* fresh_until passes; or moka evicts the entry.
Ages ==
    /\ entry # NoEntry
    /\ \/ "stale" \in Ageing /\ entry.fresh /\ entry' = [entry EXCEPT !.fresh = FALSE]
       \/ "evicted" \in Ageing /\ entry' = NoEntry
    /\ UNCHANGED <<dbVars, claim, revalidating, taskVars, change, ghostVars>>

Serve(r) ==
    \/ resolve_token(r) \/ processed_get(r) \/ try_start_revalidate(r)
    \/ member_source_ids(r) \/ begin_inline_render(r) \/ WokenGet(r) \/ StopWaiting(r)

Render(t) == get_sources(t) \/ get_many(t) \/ list_with_source(t) \/ Put(t) \/ Release(t)

ChangeStep(c) ==
    \/ profile_update(c) \/ set_sources(c) \/ Abandoned(c) \/ Invalidate(c)
    \/ \E s \in Sources : source_toggle(c, s) \/ ingest(c, s)

Next ==
    \/ \E r \in Requests : Serve(r) \/ NextRequest(r) \/ LeaderFails(r)
    \/ \E t \in Tasks : Render(t)
    \/ RevalidationFails \/ RuntimeRelease \/ Ages
    \/ \E c \in Changers : ChangeStep(c)

Spec == Init /\ [][Next]_vars

\* Every task keeps running: waits and inline renders have WAIT_FOR_LEADER, and the
\* reads of a background render have the pool's acquire and busy timeouts.
Fairness ==
    /\ \A r \in Requests : WF_vars(Serve(r))
    /\ \A t \in Tasks : WF_vars(Render(t))
    /\ WF_vars(RuntimeRelease)

FairSpec == Spec /\ Fairness

-----------------------------------------------------------------------------
(* Properties. *)

\* Single flight: a request renders exactly while the claim is its own, the
\* background render runs exactly while its key is marked, so a burst of misses
\* costs one render at a time (begin_inline_render, the two guards).
SingleFlight ==
    /\ \A r \in Requests : Rendering(r) <=> claim.holder = r
    /\ Rendering(background) <=> revalidating = "held"

\* Nobody waits for a claim that no longer exists.
WaitersHaveALeader == (\E r \in Requests : pc[r] = "waiting") => claim # NoClaim

\* Every render in flight is led and no waiter is left behind, whoever fails,
\* panics, times out or disconnects (begin_inline_render, InlineRenderGuard).
FlightsAreLed == SingleFlight /\ WaitersHaveALeader

\* A render that lost its generation is about to take its entry back.
UndoPending == \E t \in Tasks : \/ pc[t] = "recheck" /\ ~work[t].live
                               \/ pc[t] \in {"drop", "undo"}

\* The guarded put keeps nothing a bump has superseded: once an invalidation that
\* bumped the key has returned, no fresh rendering of older rows or of older source
\* settings stays cached (check, insert, recheck in processed_put_guarded).
SupersededIsNotKept ==
    HasFresh /\ ~UndoPending =>
        \A s \in entry.named : /\ entry.rows[s] >= covered.rows[s]
                               /\ entry.toggles[s] >= covered.toggles[s]

\* Not a property of this code (README, section 6), what cache.rs says of
\* invalidations: no rendering of pre-change rows is stored
\* with a full TTL behind the change that invalidated it.
AnnouncedRowsCurrent ==
    HasFresh /\ ~UndoPending => \A s \in entry.named : entry.rows[s] >= announced.rows[s]

\* Not a property of this code (README, section 6): "Saved means immediately
\* effective" (profile_update).
SavedProfileIsEffective == HasFresh /\ ~UndoPending => entry.config >= announced.config

\* Neither claim stays taken, whatever fails, panics or is cancelled.
ClaimsAreReleased == []<>(claim = NoClaim) /\ []<>(revalidating = "free")

\* Every request is answered (clients that ask once).
RequestsAreAnswered == \A r \in Requests : <>(pc[r] = "done")
=============================================================================
