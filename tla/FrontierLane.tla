---------------------------- MODULE FrontierLane ----------------------------
(* The Step3 frontier lane: the client's coordinator asks the adapter to     *)
(* prepare the frontiers Nav2 would accept, lets the slow planner choose one *)
(* and commits the choice. In "advisor" mode the command came from the       *)
(* navigation model and is resolved the usual way when the planner gives no  *)
(* frontier; in "direct" mode there is no model and the step is stopped.     *)
EXTENDS Integers

CONSTANTS None,
          MaxGeneration,  \* bound on resets
          LastSequence,   \* bound on the commands of each generation
          Validity,       \* validity of a command, in ticks
          MaxClock        \* bound on the simulation clock

ASSUME FrontierAssumption ==
    /\ MaxGeneration \in Nat /\ LastSequence \in [0..MaxGeneration -> Nat]
    /\ Validity \in Nat /\ MaxClock \in Nat

VARIABLES
    direct,     \* step3_direct_high_level: the planner mode of the launch
    client,     \* the client node and the coordinator's resolve
    clock,      \* simulation time
    calls,      \* service requests the adapter has not handled
    at,         \* the identity the adapter committed last
    store,      \* FrontierTransactionStore._current
    goal,       \* the goal that is active at Nav2
    motion,     \* the last message on nav2_motion_enabled
    blocked,    \* step3_commit_cleanup_blocked
    up,         \* the adapter process runs
    stopping,   \* a safe-stop message is on its way to the adapter
    abandoned,  \* history: the client has stopped waiting for a call
    drives      \* history: how often commands enabled motion, by service

adapter == <<at, store, goal, motion, blocked, up>>
vars == <<direct, client, clock, calls, adapter, stopping, abandoned, drives>>

Generations == 0..MaxGeneration

\* A command is named by its generation and its sequence. Its frontiers are
\* prepared once, so that the name stands for the token of the store as well.
Commands == UNION {{g} \X (0..LastSequence[g]) : g \in Generations}

\* A goal is named by its command and by the service that sent it.
Frontier(id) == <<id, "frontier">>
Resolved(id) == <<id, "resolved">>
Goals == Commands \X {"frontier", "resolved"}

\* The requests the client sends, with the phase in which it waits for the
\* answer: abstain is a commit that selects no frontier, release the same
\* commit sent by the except clause, fallback a resolution inside the try.
Operations ==
    {"prepare", "commit", "abstain", "release", "fallback", "resolve"}
Phase == [prepare |-> "preparing", commit |-> "committing",
          abstain |-> "committing", release |-> "releasing",
          fallback |-> "falling", resolve |-> "resolving"]

Phases == {"idle", "deciding"} \cup {Phase[op] : op \in Operations}

Replies == {"none", "prepared", "committed", "released", "rejected", "driven",
            "still", "refused"}

Init ==
    /\ direct \in BOOLEAN
    /\ client = [gen |-> 0, last |-> -1, phase |-> "idle", stamp |-> 0,
                 reply |-> "none", tried |-> -1, armed |-> FALSE,
                 failed |-> FALSE]
    /\ clock = 0
    /\ calls = {}
    /\ at = <<-1, -1>>
    /\ store = None
    /\ goal = None
    /\ motion = FALSE
    /\ blocked = FALSE
    /\ up = TRUE
    /\ stopping = FALSE
    /\ abandoned = FALSE
    /\ drives = [g \in Goals |-> 0]

-----------------------------------------------------------------------------
(* The client. A direct step takes its number when it ends, a step of the    *)
(* model has been committed before it is resolved.                           *)

Idle == client.phase = "idle"
Current ==
    <<client.gen, IF direct THEN client.last + 1 ELSE client.last>>

Call(op, id, stamp) == [op |-> op, id |-> id, stamp |-> stamp]

\* The client sends the request op for the current command and waits.
Ask(op) ==
    /\ calls' = calls \cup {Call(op, Current, client.stamp)}
    /\ client' = [client EXCEPT !.phase = Phase[op], !.reply = "none"]

\* Mutant: a failed step is only reported.
FailSilently ==
    /\ client' = [client EXCEPT !.phase = "idle", !.reply = "none",
                                !.failed = TRUE]
    /\ UNCHANGED <<stopping, calls>>

\* _direct_safe_stop, or a ClientFailure that ends the step: the IPC server
\* publishes the safe stop.
Fail ==
    /\ client' = [client EXCEPT !.phase = "idle", !.reply = "none",
                                !.failed = TRUE]
    /\ stopping' = TRUE
    /\ calls' = calls

\* The step is over; the motion gate supervises the goal it sent, if any.
Succeed(sent) ==
    client' = [client EXCEPT !.phase = "idle", !.reply = "none",
                             !.last = Current[2], !.armed = sent]

\* What the except clause of resolve ends with: no frontier, once more.
Last == IF direct THEN Fail
        ELSE Ask("resolve") /\ stopping' = stopping

\* What resolve returns inside its try: in direct mode it raises instead.
Fallback == IF direct THEN Fail
            ELSE Ask("fallback") /\ stopping' = stopping

\* A direct request is tried once, the advisor once for each generation.
Untried(n) == IF direct THEN client.tried # n ELSE client.tried = -1

\* A step that prepares frontiers.
Prepare ==
    LET n == client.last + 1 IN
    /\ Idle /\ ~client.armed /\ n <= LastSequence[client.gen] /\ Untried(n)
    /\ client' = [client EXCEPT !.last = IF direct THEN @ ELSE n,
                                !.phase = "preparing", !.stamp = clock,
                                !.tried = n, !.failed = FALSE]
    /\ calls' = calls \cup {Call("prepare", <<client.gen, n>>, clock)}
    /\ UNCHANGED <<direct, clock, adapter, stopping, abandoned, drives>>

\* A step with no snapshot, with a snapshot that does not decode, or of a
\* request that was tried before.
Plain ==
    LET n == client.last + 1
        begun == [client EXCEPT !.stamp = clock, !.failed = FALSE]
    IN
    /\ Idle /\ ~client.armed /\ n <= LastSequence[client.gen]
    /\ \E tried \in {client.tried, IF Untried(n) THEN n ELSE client.tried} :
        IF direct
        THEN /\ client' = [begun EXCEPT !.tried = tried, !.failed = TRUE]
             /\ stopping' = TRUE
             /\ calls' = calls
        ELSE /\ client' = [begun EXCEPT !.tried = tried, !.last = n,
                                        !.phase = "resolving"]
             /\ calls' = calls \cup {Call("resolve", <<client.gen, n>>, clock)}
             /\ stopping' = stopping
    /\ UNCHANGED <<direct, clock, adapter, abandoned, drives>>

Answered(phase) == client.phase = phase /\ client.reply # "none"

\* The answer to prepare. A request that cannot be built leaves the prepared
\* transaction where it is; a clock that moved releases it.
TakeFrontiers ==
    /\ Answered("preparing")
    /\ \/ client.reply # "prepared" /\ Fallback
       \/ client.reply = "prepared" /\ Last
       \/ /\ client.reply = "prepared"
          /\ IF clock = client.stamp
             THEN /\ client' = [client EXCEPT !.phase = "deciding",
                                              !.reply = "none"]
                  /\ calls' = calls
             ELSE Ask("release")
          /\ stopping' = stopping
    /\ UNCHANGED <<direct, clock, adapter, abandoned, drives>>

\* The slow planner answers in time and at the same simulation time, with a
\* frontier or without.
Decide ==
    /\ client.phase = "deciding" /\ clock = client.stamp
    /\ \/ Ask("commit")
       \/ Ask("abstain")
    /\ UNCHANGED <<direct, clock, adapter, stopping, abandoned, drives>>

\* The planner fails, or the clock has moved.
DecideFails ==
    /\ client.phase = "deciding"
    /\ Ask("release")
    /\ UNCHANGED <<direct, clock, adapter, stopping, abandoned, drives>>

\* The answer to the commit. An executed frontier is never resolved again; the
\* direct step also wants the clock it began with.
TakeCommit ==
    /\ Answered("committing")
    /\ IF client.reply # "committed" THEN Fallback
       ELSE IF direct /\ clock # client.stamp THEN Fail
       ELSE Succeed(TRUE) /\ UNCHANGED <<calls, stopping>>
    /\ UNCHANGED <<direct, clock, adapter, abandoned, drives>>

TakeRelease ==
    /\ Answered("releasing")
    /\ Last
    /\ UNCHANGED <<direct, clock, adapter, abandoned, drives>>

\* The answer to a resolution inside the try: a failure is caught there, and
\* the command is resolved again.
TakeFallback ==
    /\ Answered("falling")
    /\ IF client.reply = "refused"
       THEN Ask("resolve") /\ stopping' = TRUE
       ELSE Succeed(client.reply = "driven") /\ UNCHANGED <<calls, stopping>>
    /\ UNCHANGED <<direct, clock, adapter, abandoned, drives>>

TakeResolution ==
    /\ Answered("resolving")
    /\ IF client.reply = "refused" THEN Fail
       ELSE Succeed(client.reply = "driven") /\ UNCHANGED <<calls, stopping>>
    /\ UNCHANGED <<direct, clock, adapter, abandoned, drives>>

\* A call times out; the request stays alive at the adapter, and an answer
\* that is on its way comes too late.
GiveUp ==
    /\ client.phase \notin {"idle", "deciding"}
    /\ abandoned' = TRUE
    /\ \/ client.phase \in {"preparing", "releasing"} /\ Last
       \/ /\ client.phase = "committing"
          /\ Ask("release") /\ stopping' = stopping
       \/ /\ client.phase = "falling"
          /\ Ask("resolve") /\ stopping' = stopping
       \/ client.phase = "resolving" /\ Fail
    /\ UNCHANGED <<direct, clock, adapter, drives>>

\* The motion gate's stop request between two steps, acknowledged.
ConfirmStop ==
    /\ Idle /\ client.armed /\ up
    /\ client' = [client EXCEPT !.armed = FALSE]
    /\ goal' = None /\ motion' = FALSE
    /\ UNCHANGED <<direct, clock, calls, at, store, blocked, up, stopping,
                   abandoned, drives>>

\* Mutant: the sequence goes on after a reset.
ResetContinues ==
    /\ Idle /\ up /\ client.gen < MaxGeneration
    /\ client' = [client EXCEPT !.gen = @ + 1, !.tried = -1,
                                !.armed = FALSE, !.failed = FALSE]
    /\ goal' = None /\ motion' = FALSE
    /\ UNCHANGED <<direct, clock, calls, at, store, blocked, up, stopping,
                   abandoned, drives>>

\* reset: the stop is confirmed, then the identity changes.
Reset ==
    /\ Idle /\ up /\ client.gen < MaxGeneration
    /\ client' = [client EXCEPT !.gen = @ + 1, !.last = -1, !.tried = -1,
                                !.armed = FALSE, !.failed = FALSE]
    /\ goal' = None /\ motion' = FALSE
    /\ UNCHANGED <<direct, clock, calls, at, store, blocked, up, stopping,
                   abandoned, drives>>

-----------------------------------------------------------------------------
(* The adapter. Every handler holds operation_lock from its beginning to its *)
(* end; simulation time may move while it runs.                              *)

Awaits(r) ==
    client.phase = Phase[r.op] /\ r.id = Current /\ client.reply = "none"

Answer(r, reply) ==
    /\ calls' = calls \ {r}
    /\ client' = IF Awaits(r) THEN [client EXCEPT !.reply = reply] ELSE client

NewGeneration(id) == at[1] >= 0 /\ id[1] > at[1]

\* Mutant: the command accepted last is accepted again.
IsNextOrLast(id) ==
    \/ (at[1] < 0 \/ NewGeneration(id)) /\ id[2] = 0
    \/ id[1] = at[1] /\ id[2] \in {at[2], at[2] + 1}

\* _validate_step3_next_identity and _check_identity.
IsNext(id) ==
    \/ (at[1] < 0 \/ NewGeneration(id)) /\ id[2] = 0
    \/ id[1] = at[1] /\ id[2] = at[2] + 1

Stale(r) == clock > r.stamp + Validity

\* A request to prepare that is refused: not the next command, stale, or over
\* a goal whose cancellation is not confirmed.
PrepareRefused(r) ==
    /\ up /\ r.op = "prepare"
    /\ ~IsNext(r.id) \/ Stale(r) \/ goal # None
    /\ Answer(r, "refused")
    /\ UNCHANGED <<direct, clock, adapter, stopping, abandoned, drives>>

\* The robot is stopped; then the frontiers Nav2 accepts are stored, or there
\* is none, or Nav2 does not say.
PrepareFrontiers(r) ==
    /\ up /\ r.op = "prepare" /\ IsNext(r.id) /\ ~Stale(r)
    /\ goal' = None /\ motion' = FALSE /\ blocked' = FALSE
    /\ \/ store' = [id |-> r.id, time |-> clock] /\ Answer(r, "prepared")
       \/ store' = store /\ Answer(r, "refused")
    /\ UNCHANGED <<direct, clock, at, up, stopping, abandoned, drives>>

\* consume: the transaction is used up, whether the request names it or not.
Names(r) == store # None /\ store.id = r.id

\* Mutant: a refused commit stops the robot.
CommitRefusedStops(r) ==
    /\ up /\ r.op \in {"commit", "abstain", "release"}
    /\ store' = None /\ motion' = FALSE
    /\ Answer(r, IF r.op # "commit" /\ Names(r) THEN "released"
                 ELSE "rejected")
    /\ UNCHANGED <<direct, clock, at, goal, blocked, up, stopping, abandoned,
                   drives>>

\* A commit that selects nothing, does not name the transaction, comes at
\* another time, or selects a path that is no longer valid.
CommitRefused(r) ==
    /\ up /\ r.op \in {"commit", "abstain", "release"}
    /\ store' = None
    /\ Answer(r, IF r.op # "commit" /\ Names(r) THEN "released"
                 ELSE "rejected")
    /\ UNCHANGED <<direct, clock, at, goal, motion, blocked, up, stopping,
                   abandoned, drives>>

\* Mutant: the clock is not compared with the time of the preparation.
SelectsAnyTime(r) == up /\ r.op = "commit" /\ Names(r)

Selects(r) ==
    up /\ r.op = "commit" /\ Names(r) /\ clock = store.time

\* What the except clauses do: motion off, and the goal cancelled or blocked.
Cleanup(left) ==
    /\ motion' = FALSE
    /\ \/ goal' = None /\ blocked' = FALSE
       \/ left # None /\ goal' = left /\ blocked' = TRUE

\* The identity is no longer the next one, or Nav2 does not answer.
CommitFails(r) ==
    /\ Selects(r)
    /\ store' = None
    /\ Cleanup(goal)
    /\ Answer(r, "rejected")
    /\ UNCHANGED <<direct, clock, at, up, stopping, abandoned, drives>>

\* Nav2 takes the path, but the clock has moved: the goal is cancelled, in the
\* handler or in the except clause.
CommitOvertaken(r) ==
    /\ Selects(r) /\ IsNext(r.id) /\ clock < MaxClock
    /\ clock' = clock + 1
    /\ store' = None
    /\ \/ goal' = None /\ motion' = FALSE /\ blocked' = blocked
       \/ Cleanup(Frontier(r.id))
    /\ Answer(r, "rejected")
    /\ UNCHANGED <<direct, at, up, stopping, abandoned, drives>>

Drive(g) == drives' = [drives EXCEPT ![g] = @ + 1]

\* The frontier is Nav2's goal and the identity is committed.
CommitFrontier(r) ==
    /\ Selects(r) /\ IsNext(r.id)
    /\ store' = None
    /\ at' = r.id /\ goal' = Frontier(r.id) /\ motion' = TRUE
    /\ Drive(Frontier(r.id))
    /\ Answer(r, "committed")
    /\ UNCHANGED <<direct, clock, blocked, up, stopping, abandoned>>

\* A publication fails after the identity is committed: what was sent is taken
\* back, the identity is not.
CommitBreaks(r) ==
    /\ Selects(r) /\ IsNext(r.id)
    /\ store' = None /\ at' = r.id
    /\ Cleanup(Frontier(r.id))
    /\ drives' = drives \/ Drive(Frontier(r.id))
    /\ Answer(r, "rejected")
    /\ UNCHANGED <<direct, clock, up, stopping, abandoned>>

\* Mutant: a resolution leaves the transaction in the store.
ResolvesBeside(r) ==
    /\ up /\ r.op \in {"fallback", "resolve"}
    /\ store' = store /\ blocked' = FALSE

\* _resolve: the store is invalidated first, then what a failed commit left
\* is cancelled.
Resolves(r) ==
    /\ up /\ r.op \in {"fallback", "resolve"}
    /\ store' = None /\ blocked' = FALSE

\* Mutant: what a failed commit left is not cancelled.
LeftOver == goal

Left == IF blocked THEN None ELSE goal
LeftMotion == motion /\ ~blocked

\* What a command of a new generation leaves of them.
Kept(id) == IF NewGeneration(id) THEN None ELSE Left
KeptMotion(id) == LeftMotion /\ ~NewGeneration(id)

\* A command that is not the next one, or whose generation begins over a goal
\* whose cancellation is not confirmed.
ResolveRefused(r) ==
    /\ Resolves(r)
    /\ ~IsNext(r.id) \/ (NewGeneration(r.id) /\ Left # None)
    /\ goal' = Left /\ motion' = LeftMotion
    /\ Answer(r, "refused")
    /\ UNCHANGED <<direct, clock, at, up, stopping, abandoned, drives>>

\* The identity is committed before the command turns out to be stale, to have
\* no target or to get no answer from Nav2.
ResolveFails(r) ==
    /\ Resolves(r) /\ IsNext(r.id)
    /\ at' = r.id /\ goal' = Kept(r.id) /\ motion' = KeptMotion(r.id)
    /\ Answer(r, "refused")
    /\ UNCHANGED <<direct, clock, up, stopping, abandoned, drives>>

ResolveStops(r) ==
    /\ Resolves(r) /\ IsNext(r.id) /\ ~Stale(r)
    /\ at' = r.id /\ goal' = None /\ motion' = FALSE
    /\ Answer(r, "still")
    /\ UNCHANGED <<direct, clock, up, stopping, abandoned, drives>>

\* A goal of its own, or the goal that is active.
ResolveDrives(r) ==
    /\ Resolves(r) /\ IsNext(r.id) /\ ~Stale(r)
    /\ at' = r.id /\ motion' = TRUE
    /\ goal' \in {Resolved(r.id)} \cup ({Kept(r.id)} \ {None})
    /\ Drive(Resolved(r.id))
    /\ Answer(r, "driven")
    /\ UNCHANGED <<direct, clock, up, stopping, abandoned>>

\* The cancellation of what a failed commit left is not confirmed: the
\* exception leaves the service, and the executor ends with it.
AdapterEnds(r) ==
    /\ up /\ r.op \in {"fallback", "resolve"}
    /\ blocked /\ goal # None
    /\ up' = FALSE /\ motion' = FALSE /\ store' = None
    /\ calls' = calls \ {r}
    /\ UNCHANGED <<direct, client, clock, at, goal, blocked, stopping,
                   abandoned, drives>>

GoalFinished ==
    /\ goal # None
    /\ goal' = None
    /\ UNCHANGED <<direct, client, clock, calls, at, store, motion, blocked, up,
                   stopping, abandoned, drives>>

\* Past its ttl_sec a transaction is refused like a missing one.
StoreExpires ==
    /\ store # None
    /\ store' = None
    /\ UNCHANGED <<direct, client, clock, calls, at, goal, motion, blocked, up,
                   stopping, abandoned, drives>>

StopArrives ==
    /\ stopping /\ up
    /\ stopping' = FALSE /\ motion' = FALSE
    /\ UNCHANGED <<direct, client, clock, calls, at, store, goal, blocked, up,
                   abandoned, drives>>

Tick ==
    /\ clock < MaxClock
    /\ clock' = clock + 1
    /\ UNCHANGED <<direct, client, calls, adapter, stopping, abandoned, drives>>

-----------------------------------------------------------------------------
ClientNext ==
    \/ Prepare \/ Plain \/ TakeFrontiers \/ Decide \/ DecideFails
    \/ TakeCommit \/ TakeRelease \/ TakeFallback \/ TakeResolution \/ GiveUp
    \/ ConfirmStop \/ Reset

Serve(r) ==
    \/ PrepareRefused(r) \/ PrepareFrontiers(r)
    \/ CommitRefused(r) \/ CommitFails(r) \/ CommitOvertaken(r)
    \/ CommitFrontier(r) \/ CommitBreaks(r)
    \/ ResolveRefused(r) \/ ResolveFails(r) \/ ResolveStops(r)
    \/ ResolveDrives(r) \/ AdapterEnds(r)

Next ==
    \/ ClientNext
    \/ \E r \in calls : Serve(r)
    \/ GoalFinished \/ StoreExpires \/ StopArrives \/ Tick

Spec == Init /\ [][Next]_vars

-----------------------------------------------------------------------------
ClientType ==
    /\ client \in [gen : Generations, last : Int, phase : Phases,
                  stamp : 0..MaxClock, reply : Replies, tried : Int,
                  armed : BOOLEAN, failed : BOOLEAN]
    /\ client.last \in -1..LastSequence[client.gen]
    /\ client.tried \in -1..LastSequence[client.gen]

CallsType ==
    calls \subseteq [op : Operations, id : Commands, stamp : 0..MaxClock]

AdapterType ==
    /\ at \in Commands \cup {<<-1, -1>>}
    /\ store # None => store \in [id : Commands, time : 0..MaxClock]
    /\ goal \in Goals \cup {None}
    /\ motion \in BOOLEAN /\ blocked \in BOOLEAN /\ up \in BOOLEAN

\* The types of the two nodes' state and of the requests between them.
TypeOK ==
    /\ direct \in BOOLEAN /\ stopping \in BOOLEAN /\ abandoned \in BOOLEAN
    /\ clock \in 0..MaxClock
    /\ ClientType
    /\ CallsType
    /\ AdapterType
    /\ drives \in [Goals -> Nat]

\* A transaction the adapter keeps is always for the command it will accept
\* next: a resolution in between has invalidated it
\* (lane_b_step3_adapter_node.py 60-70).
StoreIsAhead == store # None => IsNext(store.id)

\* However late a commit is, and although a failed resolution is repeated and
\* a failed advisor falls back, no command sets the robot in motion twice.
OneDrivePerCommand ==
    \A id \in Commands : drives[Frontier(id)] + drives[Resolved(id)] <= 1

\* A frontier is driven only at the simulation time at which its step began,
\* even when client and adapter read the clock apart from each other.
FrontierIsForThisInstant ==
    [][ \A r \in calls \ calls' :
            r.op = "commit" /\ drives' # drives
            => clock = r.stamp /\ clock' = clock ]_vars

\* A commit that arrives after its command was resolved does not touch the
\* goal and the motion of the resolution.
LateCommitIsInert ==
    [][ \A r \in calls \ calls' :
            r.op = "commit" /\ ~IsNext(r.id) => UNCHANGED <<goal, motion>> ]_vars

\* Motion is enabled only over goals whose command was accepted: the goal of a
\* commit that failed never moves the robot, although Nav2 may hold on to it.
MovesOnlyAcceptedGoals == motion /\ goal # None => drives[goal] >= 1

\* After a step that failed, with nothing on its way to the adapter and no
\* call abandoned, the robot is not allowed to move.
FailedStepIsStopped ==
    Idle /\ client.failed /\ ~stopping /\ ~abandoned => ~motion
=============================================================================
