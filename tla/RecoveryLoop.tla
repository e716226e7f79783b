---------------------------- MODULE RecoveryLoop ----------------------------
(***************************************************************************)
(* The recovery machine in a closed loop with what the module's docstring  *)
(* asks of an adapter: it executes the commands the handlers return and    *)
(* answers each with a correlated acknowledgement, and a planner answers   *)
(* a confirmed replan request.  Both report faithfully but over channels   *)
(* that delay, reorder, duplicate and lose: a message stays in its set     *)
(* after it is delivered, and nothing forces a delivery.  Time never runs  *)
(* backwards here.                                                         *)
(***************************************************************************)
EXTENDS RecoveryMachine

VARIABLES
    inbox,      \* commands handed to the adapter and not executed yet
    results,    \* acknowledgements: [op, success]
    answers     \* replanned trajectories: [op, plan]

loopVars == <<m, inbox, results, answers>>

LoopInit == Init /\ inbox = {} /\ results = {} /\ answers = {}

Now(step) == m.lastNow + step

\* The adapter takes what the handler just returned; a latched stop makes it
\* drop whatever it has not started.
Dispatch ==
    LET returned == Range(m'.outbox)
        stopped == \E c \in returned : c.action = "latch_safe_stop"
    IN  inbox' = (IF stopped THEN {} ELSE inbox)
                 \cup {c \in returned : c.action # "latch_safe_stop"}

Healthy == [clear |-> TRUE, estop |-> "ready", rear |-> TRUE]

Unclear == [clear |-> FALSE, estop |-> "ready", rear |-> TRUE]

LoopEpisode(step) ==
    /\ m.gen < MaxGeneration
    /\ BeginEpisode(m.gen + 1, Now(step))
    /\ Dispatch
    /\ UNCHANGED <<results, answers>>

LoopTick(step, flags) ==
    /\ Tick(Now(step), flags)
    /\ Dispatch
    /\ UNCHANGED <<results, answers>>

LoopObserve(step, goal, flags) ==
    /\ ObserveValid(Now(step), goal, flags)
    /\ Dispatch
    /\ UNCHANGED <<results, answers>>

\* The adapter finishes a command, for better or worse, once.
Execute(c, success) ==
    /\ c \in inbox
    /\ inbox' = inbox \ {c}
    /\ results' = results \cup {[op |-> c.op, success |-> success]}
    /\ UNCHANGED <<m, answers>>

\* acknowledge() with the identity the operation was issued under.
DeliverAck(step, a) ==
    /\ a \in results
    /\ LET now == Now(step)
           evidence == [kind |-> "clean", stamp |-> now]
       IN  \/ AckStaleDropped(now, a.op)
           \/ AckDuplicate(now, a.op, a.success)
           \/ AckUnknown(now, a.op, a.op.gen, a.op.rec)
           \/ a.op = m.pending.op /\ AckPending(now, a.success, evidence)
    /\ Dispatch
    /\ UNCHANGED <<results, answers>>

\* The planner answers a replan request the adapter reported as accepted.
Replan(a, p) ==
    /\ a \in results
    /\ a.success /\ a.op.act = "request_replan"
    /\ \A old \in answers : old.op # a.op
    /\ answers' = answers \cup {[op |-> a.op, plan |-> p]}
    /\ UNCHANGED <<m, inbox, results>>

\* submit_replanned_trajectory() with the identity of the request.
DeliverAnswer(step, a) ==
    /\ a \in answers
    /\ LET now == Now(step)
       IN  \/ SubmitStopped(now)
           \/ SubmitRefused(now, a.op, a.op.gen, a.op.rec)
           \/ SubmitLate(now, a.op, a.op.gen, a.op.rec)
           \/ SubmitOld(now, a.op, a.op.gen, a.op.rec, a.plan)
           \/ SubmitNovel(now, a.op, a.op.gen, a.op.rec, a.plan)
    /\ Dispatch
    /\ UNCHANGED <<results, answers>>

Steps == {step \in 0..MaxJump : m.lastNow + step <= MaxTime}

LoopNext ==
    \/ \E step \in Steps :
         \/ LoopEpisode(step)
         \/ \E flags \in {Healthy, Unclear} : LoopTick(step, flags)
         \/ \E goal \in Goals : LoopObserve(step, goal, Healthy)
         \/ \E a \in results : DeliverAck(step, a)
         \/ \E a \in answers : DeliverAnswer(step, a)
    \/ \E c \in inbox, success \in BOOLEAN : Execute(c, success)
    \/ \E a \in results, p \in Plans : Replan(a, p)

LoopSpec == LoopInit /\ [][LoopNext]_loopVars

\* A timer keeps ticking, with an advancing clock as long as the bound allows.
Timer == LoopTick(IF m.lastNow < MaxTime THEN 1 ELSE 0, Healthy)

FairLoopSpec == LoopSpec /\ WF_loopVars(Timer)

-----------------------------------------------------------------------------
\* Fewer operations than a history keeps were issued after op.
Recent(r, op) == r.opSeq - op.seq < HistoryCapacity

\* Late, duplicated or reordered acknowledgements of commands the machine itself
\* issued are never mistaken for a protocol violation, also across recoveries
\* and episodes and while the histories overflow: what the adapter still holds
\* or has reported is pending, retired, or completed with the same outcome, so
\* acknowledge drops it, unless as many operations as a history keeps were
\* issued since.  Of an older one the machine may have forgotten that it issued
\* it: acknowledge then stops it for good.
HonestAcksAreRecognised ==
    /\ \A c \in inbox :
         Recent(m, c.op) => c = m.pending \/ c.op \in Range(m.retired)
    /\ \A a \in results :
         Recent(m, a.op) =>
           \/ a.op = m.pending.op
           \/ a.op \in Range(m.retired)
           \/ a \in Range(m.completed)

\* The adapter never holds two physical motions at once, also when a recovery is
\* abandoned for a new episode while the adapter still has the old motion: the
\* latched stop that begin_episode returns precedes every motion issued later.
OneMotionInFlight ==
    \A c, d \in inbox :
        c.action \in MotionActions /\ d.action \in MotionActions => c = d

\* Every recovery that begins early enough in the run ends: the machine stops,
\* cools down or starts a new episode.
RecoveryEnds ==
    (m.state \in RecoveryStates /\ m.startedAt + MaxRecoveryDuration < MaxTime)
        ~> m.state \notin RecoveryStates
=============================================================================
