---------------------------- MODULE RecoveryLane ----------------------------
(* The recovery lane of T4: the client node that commits navigation commands *)
(* and asks the adapter to resolve each, the recovery supervisor that sees   *)
(* the same commands on a topic and runs a recovery in a thread of its own,  *)
(* and the Nav2 adapter with its recovery latch. A recovery is four typed    *)
(* calls to three servers: cancel (adapter), replan (client), clear (model)  *)
(* and arm (adapter); each names the command it is about.                    *)
EXTENDS Integers, Sequences

CONSTANTS Plans,          \* trajectory signatures
          Stop,           \* a command with no trajectory
          None,
          MaxGeneration,  \* bound on resets
          LastSequence,   \* bound on the commands of each generation
          MaxRecoveries,  \* maximum_recoveries_per_episode
          MaxRefreshes,   \* maximum_scheduled_refreshes_per_episode
          MaxLag,         \* bound on the messages to the supervisor
          HoldLimit,      \* RECOVERY_EXCLUDED_HOLD_LIMIT
          MaxLaunches,    \* bound on recoveries over all generations
          MaxFaults       \* bound on timeouts and failing calls

ASSUME LaneAssumption ==
    /\ Stop \notin Plans /\ None \notin Plans /\ None # Stop
    /\ MaxGeneration \in Nat /\ LastSequence \in [0..MaxGeneration -> Nat]
    /\ MaxRecoveries \in Nat \ {0} /\ MaxRefreshes \in Nat
    /\ HoldLimit \in Nat \ {0} /\ MaxLag \in Nat \ {0}
    /\ MaxLaunches \in Nat /\ MaxFaults \in Nat

VARIABLES
    client,      \* the client node: its last committed command and its step
    pending,     \* the client's _pending_typed_replan
    calls,       \* resolve requests the adapter has not answered
    topic,       \* commands and primes on their way to the supervisor
    supervisor,  \* the recovery supervisor
    threads,     \* its recovery thread of each generation
    requests,    \* typed recovery requests no server has handled
    served,      \* typed operations whose result a server remembers
    expired,     \* recoveries whose shared replan deadline has passed
    adapter,     \* identity, goal handle and recovery latch of the adapter
    motion,      \* the last message on nav2_motion_enabled
    stopping,    \* a stop message is on its way to the adapter
    alarms,      \* failures the client has raised about a recovery
    spins,       \* history: spins started for each generation
    launches,    \* history: recoveries started
    faults       \* timeouts and failing calls so far

vars == <<client, pending, calls, topic, supervisor, threads, requests, served,
          expired, adapter, motion, stopping, alarms, spins, launches, faults>>

Generations == 0..MaxGeneration
Commands == Plans \cup {Stop}

\* A recovery is named by its generation and its index in the generation.
Recoveries == Generations \X (1..(MaxRecoveries + MaxRefreshes))
Gen(id) == id[1]

Operations == {"cancel", "replan", "clear", "arm"}
Moving == {"executed", "reused"}
Replies == Moving \cup {"stopped", "held", "suppressed", "fallback", "refused"}
Alarms == {"late", "excluded", "repeated"}

\* What the client samples of its pending replan, the replan itself, and the
\* recovery latch of the adapter; each may be None.
SeqNumbers == Nat \cup {-1}
Samples == [id : Recoveries, expired : BOOLEAN, rejected : BOOLEAN]
Transactions == [id : Recoveries, excluded : SUBSET Plans, rejections : Nat]
Latches == [id : Recoveries, seq : SeqNumbers, armed : BOOLEAN,
            excluded : Plans \cup {None}, holds : Nat]

ASSUME NoneAssumption ==
    None \notin Recoveries \cup Samples \cup Transactions \cup Latches

NoThread == [pc |-> "idle", id |-> None, seq |-> -1, plan |-> None,
             full |-> FALSE, tries |-> 0, answer |-> "none"]

\* What adopting an identity leaves of the supervisor's state.
Supervising(g) ==
    [gen |-> g, seq |-> -1, plan |-> None, path |-> FALSE, active |-> FALSE,
     terminal |-> FALSE, recoveries |-> 0, refreshes |-> 0]

Init ==
    /\ client = [gen |-> 0, last |-> -1, phase |-> "idle", plan |-> None,
                 sampled |-> None, reply |-> None]
    /\ pending = None
    /\ calls = {}
    /\ topic = <<[gen |-> 0, seq |-> -1, plan |-> None]>>
    /\ supervisor = Supervising(-1)
    /\ threads = [g \in Generations |-> NoThread]
    /\ requests = {}
    /\ served = {}
    /\ expired = {}
    /\ adapter = [gen |-> -1, seq |-> -1, goal |-> None, latch |-> None]
    /\ motion = FALSE
    /\ stopping = FALSE
    /\ alarms = {}
    /\ spins = [g \in Generations |-> 0]
    /\ launches = 0
    /\ faults = 0

Fault == faults < MaxFaults /\ faults' = faults + 1

-----------------------------------------------------------------------------
(* The client node.                                                          *)

Idle == client.phase = "idle"

\* What _resolve_nav2 reads under the pose lock before it calls the adapter.
Sample(plan) ==
    IF pending = None \/ Gen(pending.id) # client.gen THEN None
    ELSE [id |-> pending.id, expired |-> pending.id \in expired,
          rejected |-> plan = Stop \/ plan \in pending.excluded]

\* A step: the result is committed, the command is published to the
\* supervisor and sent to the adapter. A replan of another identity is dropped.
Step(plan) ==
    LET n == client.last + 1
        command == [gen |-> client.gen, seq |-> n, plan |-> plan]
    IN
    /\ Idle /\ n <= LastSequence[client.gen] /\ Len(topic) < MaxLag
    /\ client' = [client EXCEPT !.last = n, !.phase = "resolving",
                                !.plan = plan, !.sampled = Sample(plan)]
    /\ topic' = Append(topic, command)
    /\ calls' = calls \cup {[gen |-> client.gen, seq |-> n, plan |-> plan,
                             past |-> FALSE]}
    /\ pending' = IF pending # None /\ Gen(pending.id) # client.gen
                  THEN None ELSE pending
    /\ UNCHANGED <<supervisor, threads, requests, served, expired, adapter,
                   motion, stopping, alarms, spins, faults, launches>>

Awaits(r) ==
    client.phase = "resolving" /\ r.gen = client.gen /\ r.seq = client.last

Settled == [client EXCEPT !.phase = "idle", !.plan = None, !.sampled = None,
                          !.reply = None]

\* A good response ends the step at once when it sampled no replan.
Answer(r, reply) ==
    client' = IF ~Awaits(r) THEN client
              ELSE IF client.sampled = None /\ reply # "refused" THEN Settled
              ELSE [client EXCEPT !.phase = "answered", !.reply = reply]

\* The replan the step sampled is still the pending one.
Mine ==
    pending # None /\ client.sampled # None /\ pending.id = client.sampled.id

Rejections == IF Mine THEN pending.rejections + 1 ELSE 0

\* The response after the step sampled a pending replan: the cases of
\* _resolve_nav2 in the order of the code.
FinishLate ==
    /\ client.sampled.expired /\ client.reply \in Moving
    /\ alarms' = alarms \cup {"late"} /\ stopping' = TRUE
    /\ pending' = pending

FinishOver ==
    /\ client.sampled.expired \/ client.reply = "fallback"
    /\ client.reply \notin Moving
    /\ pending' = IF Mine THEN None ELSE pending
    /\ UNCHANGED <<alarms, stopping>>

\* Mutant: a held command uses up the request.
FinishHeldConsuming ==
    /\ ~client.sampled.expired /\ client.reply = "held"
    /\ pending' = IF Mine THEN None ELSE pending
    /\ UNCHANGED <<alarms, stopping>>

FinishHeld ==
    /\ ~client.sampled.expired /\ client.reply = "held"
    /\ UNCHANGED <<pending, alarms, stopping>>

FinishReleased ==
    /\ ~client.sampled.expired /\ client.sampled.rejected
    /\ client.reply \in Moving
    /\ pending' = IF Mine THEN [pending EXCEPT !.rejections = Rejections]
                  ELSE pending
    /\ alarms' = alarms \cup {"excluded"} /\ stopping' = TRUE

FinishRejected ==
    /\ ~client.sampled.expired /\ client.sampled.rejected
    /\ client.reply \in {"stopped", "suppressed"}
    /\ pending' = IF ~Mine THEN pending
                  ELSE IF Rejections > HoldLimit - 1 THEN None
                  ELSE [pending EXCEPT !.rejections = Rejections]
    /\ IF Rejections > HoldLimit - 1
       THEN alarms' = alarms \cup {"repeated"} /\ stopping' = TRUE
       ELSE UNCHANGED <<alarms, stopping>>

\* Only a goal that was sent with a valid plan consumes the request; another
\* outcome adds the plan to the client's exclusions.
FinishFresh ==
    /\ ~client.sampled.expired /\ ~client.sampled.rejected
    /\ client.reply \in Moving \cup {"stopped", "suppressed"}
    /\ pending' = IF ~Mine THEN pending
                  ELSE IF client.reply = "executed" THEN None
                  ELSE [pending EXCEPT !.excluded = @ \cup {client.plan}]
    /\ UNCHANGED <<alarms, stopping>>

Finish ==
    /\ client.phase = "answered" /\ client.reply # "refused"
    /\ \/ FinishLate
       \/ FinishOver
       \/ FinishHeld
       \/ FinishReleased
       \/ FinishRejected
       \/ FinishFresh
    /\ client' = Settled
    /\ UNCHANGED <<calls, topic, supervisor, threads, requests, served,
                   expired, adapter, motion, spins, faults, launches>>

\* The adapter refused the command: the step fails with a stop message.
FinishRefused ==
    /\ client.phase = "answered" /\ client.reply = "refused"
    /\ stopping' = TRUE
    /\ client' = Settled
    /\ UNCHANGED <<pending, calls, topic, supervisor, threads, requests,
                   served, expired, adapter, motion, alarms, spins, faults,
                   launches>>

\* The resolution times out: the request stays alive at the adapter, and the IPC
\* server publishes a stop for the step that failed.
GiveUp ==
    /\ client.phase = "resolving"
    /\ stopping' = TRUE
    /\ IF \E r \in calls : Awaits(r) THEN Fault ELSE faults' = faults
    /\ client' = Settled
    /\ UNCHANGED <<pending, calls, topic, supervisor, threads, requests,
                   served, expired, adapter, motion, alarms, spins, launches>>

\* The stop request of the motion gate between two steps, acknowledged.
ConfirmStop ==
    /\ Idle /\ (motion \/ adapter.goal # None)
    /\ adapter' = [adapter EXCEPT !.goal = None]
    /\ motion' = FALSE
    /\ UNCHANGED <<client, pending, calls, topic, supervisor, threads,
                   requests, served, expired, stopping, alarms, spins, faults,
                   launches>>

\* reset: the stop is confirmed, the identity changes, the prime is published.
Reset ==
    /\ Idle /\ client.gen < MaxGeneration /\ Len(topic) < MaxLag
    /\ client' = [client EXCEPT !.gen = @ + 1, !.last = -1]
    /\ topic' = Append(topic, [gen |-> client.gen + 1, seq |-> -1,
                               plan |-> None])
    /\ adapter' = [adapter EXCEPT !.goal = None]
    /\ motion' = FALSE
    /\ UNCHANGED <<pending, calls, supervisor, threads, requests, served,
                   expired, stopping, alarms, spins, faults, launches>>

-----------------------------------------------------------------------------
(* The adapter: command resolution. _resolve looks at the latch under        *)
(* operation_lock and releases it before the command is executed.            *)

Latch == adapter.latch
NewGeneration(r) == adapter.gen >= 0 /\ r.gen > adapter.gen

\* _check_identity: commands are contiguous within a generation.
Contiguous(r) ==
    \/ (adapter.gen < 0 \/ NewGeneration(r)) /\ r.seq = 0
    \/ r.gen = adapter.gen /\ r.seq = adapter.seq + 1

\* A new generation cancels the goal and stops the motion of the old one.
KeptGoal(r) == IF NewGeneration(r) THEN None ELSE adapter.goal
KeptMotion(r) == motion /\ ~NewGeneration(r)

Outcome(r, goal, moving, reply, fault) ==
    [at |-> <<r.gen, r.seq>>, goal |-> goal, motion |-> moving,
     reply |-> reply, fault |-> fault]

\* What the identity check and the selection of an action may do with r: a
\* new goal, a goal close to the active one, a stop, or an exception after
\* (stale command, no answer of Nav2) or before (a cancellation that is not
\* confirmed) the identity is adopted.
Outcomes(r) ==
    IF ~Contiguous(r)
    THEN {[at |-> <<adapter.gen, adapter.seq>>, goal |-> adapter.goal,
           motion |-> motion, reply |-> "refused", fault |-> FALSE]}
    ELSE (IF r.plan = Stop THEN {Outcome(r, None, FALSE, "stopped", FALSE)}
          ELSE {Outcome(r, r.plan, TRUE, "executed", FALSE)}
               \cup IF KeptGoal(r) = None THEN {}
                    ELSE {Outcome(r, KeptGoal(r), TRUE, "reused", FALSE)})
         \cup {Outcome(r, KeptGoal(r), KeptMotion(r), "refused", TRUE)}
         \cup (IF NewGeneration(r) /\ adapter.goal # None
               THEN {[at |-> <<adapter.gen, adapter.seq>>,
                     goal |-> adapter.goal, motion |-> motion,
                     reply |-> "refused", fault |-> TRUE]}
               ELSE {})

Charge(o) == IF o.fault THEN Fault ELSE faults' = faults

\* The latch check of a command: no latch, or the latch of another identity,
\* which the command releases.
PassLatch(r) ==
    /\ ~r.past
    /\ Latch = None \/ r.gen # adapter.gen
    /\ calls' = (calls \ {r}) \cup {[r EXCEPT !.past = TRUE]}
    /\ adapter' = [adapter EXCEPT !.latch = None]
    /\ motion' = (motion /\ Latch = None)
    /\ UNCHANGED <<client, pending, topic, supervisor, threads, requests,
                   served, expired, stopping, alarms, spins, faults, launches>>

\* The command after the check, under the lock again.
Execute(r) ==
    /\ r.past
    /\ \E o \in Outcomes(r) :
        /\ Charge(o)
        /\ adapter' = [adapter EXCEPT !.gen = o.at[1], !.seq = o.at[2],
                                      !.goal = o.goal]
        /\ motion' = o.motion
        /\ Answer(r, o.reply)
    /\ calls' = calls \ {r}
    /\ UNCHANGED <<pending, topic, supervisor, threads, requests, served,
                   expired, stopping, alarms, spins, launches>>

Latched(r) == ~r.past /\ Latch # None /\ r.gen = adapter.gen

\* Mutant: the deadline of an armed latch is not looked at.
OverdueNever == FALSE

Overdue == Latch.armed /\ Latch.id \in expired

\* The armed latch is past its deadline: the command is committed and not
\* executed. A refused identity is an exception the service does not answer.
LatchFallback(r) ==
    /\ Latched(r) /\ Overdue
    /\ IF Contiguous(r)
       THEN /\ adapter' = [adapter EXCEPT !.seq = r.seq, !.latch = None]
            /\ motion' = FALSE
            /\ Answer(r, "fallback")
       ELSE UNCHANGED <<adapter, motion, client>>
    /\ calls' = calls \ {r}
    /\ UNCHANGED <<pending, topic, supervisor, threads, requests, served,
                   expired, stopping, alarms, spins, faults, launches>>

\* Mutant: any trajectory releases the armed latch.
FreshIfArmed(r) == Latch.armed /\ r.plan # Stop

\* A command under the latch that is not fresh is committed and held; the
\* latch gives up after HoldLimit commands with the excluded trajectory.
Fresh(r) == Latch.armed /\ r.plan \notin {Stop, Latch.excluded}
Repeats(r) == Latch.armed /\ r.plan = Latch.excluded
HoldsAfter(r) == Latch.holds + (IF Repeats(r) THEN 1 ELSE 0)

\* Mutant: a held command is answered without being committed.
LatchHoldUncommitted(r) ==
    /\ Latched(r) /\ ~Overdue /\ ~Fresh(r)
    /\ Answer(r, IF Latch.armed THEN "suppressed" ELSE "held")
    /\ calls' = calls \ {r}
    /\ UNCHANGED <<adapter, motion, pending, topic, supervisor, threads,
                   requests, served, expired, stopping, alarms, spins, faults,
                   launches>>

LatchHold(r) ==
    LET bounded == Repeats(r) /\ HoldsAfter(r) >= HoldLimit
        held == [Latch EXCEPT !.holds = HoldsAfter(r)]
    IN
    /\ Latched(r) /\ ~Overdue /\ ~Fresh(r)
    /\ IF ~Contiguous(r)
       THEN /\ adapter' = [adapter EXCEPT !.latch = held]
            /\ UNCHANGED motion
            /\ Answer(r, "refused")
       ELSE /\ adapter' = [adapter EXCEPT
                              !.seq = r.seq,
                              !.latch = IF bounded THEN None ELSE held]
            /\ motion' = (motion /\ ~bounded)
            /\ Answer(r, IF bounded THEN "fallback"
                         ELSE IF Latch.armed THEN "suppressed" ELSE "held")
    /\ calls' = calls \ {r}
    /\ UNCHANGED <<pending, topic, supervisor, threads, requests, served,
                   expired, stopping, alarms, spins, faults, launches>>

\* A fresh command is executed under the lock and releases the latch only when
\* Nav2 took it as a new goal.
LatchRelease(r) ==
    /\ Latched(r) /\ ~Overdue /\ Fresh(r)
    /\ \E o \in Outcomes(r) :
        /\ Charge(o)
        /\ adapter' = [gen |-> o.at[1], seq |-> o.at[2], goal |-> o.goal,
                       latch |-> IF o.reply = "executed" THEN None ELSE Latch]
        /\ motion' = (o.motion /\ o.reply = "executed")
        /\ Answer(r, o.reply)
    /\ calls' = calls \ {r}
    /\ UNCHANGED <<pending, topic, supervisor, threads, requests, served,
                   expired, stopping, alarms, spins, launches>>

\* Nav2 reports the end of the goal; motion stays as it was published.
GoalFinished ==
    /\ adapter.goal # None
    /\ adapter' = [adapter EXCEPT !.goal = None]
    /\ UNCHANGED <<client, pending, calls, topic, supervisor, threads,
                   requests, served, expired, motion, stopping, alarms, spins,
                   faults, launches>>

\* A stop message of the client or of the supervisor arrives.
StopArrives ==
    /\ stopping
    /\ stopping' = FALSE
    /\ motion' = FALSE
    /\ UNCHANGED <<client, pending, calls, topic, supervisor, threads,
                   requests, served, expired, adapter, alarms, spins, faults,
                   launches>>

-----------------------------------------------------------------------------
(* The typed operations at their servers. Each validates the identity before *)
(* it looks for a remembered result.                                         *)

Attempt(q) ==
    LET t == threads[Gen(q.id)] IN
    t.id = q.id /\ t.pc = q.op /\ t.tries = q.try /\ t.answer = "wait"

\* The server answers; a thread that stopped waiting does not see it.
Reply(q, ok) ==
    /\ requests' = requests \ {q}
    /\ threads' = IF Attempt(q)
                  THEN [threads EXCEPT ![Gen(q.id)].answer =
                            IF ok THEN "ok" ELSE "failed"]
                  ELSE threads

Remembered(q) == <<q.id, q.op>> \in served
Remember(q) == served' = served \cup {<<q.id, q.op>>}
AtAdapter(q, seq) == Gen(q.id) = adapter.gen /\ q.seq = seq

\* _on_typed_recovery_cancel: the goal is cancelled and the latch is set.
ServeCancel(q) ==
    LET valid == AtAdapter(q, adapter.seq)
        new == valid /\ ~Remembered(q)
        latch == [id |-> q.id, seq |-> q.seq, armed |-> FALSE,
                  excluded |-> None, holds |-> 0]
    IN
    /\ q.op = "cancel"
    /\ Reply(q, valid)
    /\ adapter' = IF new THEN [adapter EXCEPT !.goal = None, !.latch = latch]
                  ELSE adapter
    /\ motion' = (motion /\ ~new)
    /\ IF new THEN Remember(q) ELSE UNCHANGED served
    /\ UNCHANGED <<client, pending, calls, topic, supervisor, expired,
                   stopping, alarms, spins, faults, launches>>

\* Nav2 does not confirm the cancellation: motion is disabled, no latch is set.
CancelUnconfirmed(q) ==
    /\ q.op = "cancel" /\ adapter.goal # None
    /\ AtAdapter(q, adapter.seq) /\ ~Remembered(q)
    /\ Fault
    /\ Reply(q, FALSE)
    /\ motion' = FALSE
    /\ UNCHANGED <<client, pending, calls, topic, supervisor, served, expired,
                   adapter, stopping, alarms, spins, launches>>

\* _on_typed_replan_request: one replan is pending at a time.
ServeReplan(q) ==
    LET valid == /\ q.id \notin expired
                 /\ Gen(q.id) = client.gen /\ q.seq = client.last
        new == valid /\ ~Remembered(q) /\ pending = None
    IN
    /\ q.op = "replan"
    /\ Reply(q, new \/ (valid /\ Remembered(q)))
    /\ pending' = IF ~new THEN pending
                  ELSE [id |-> q.id, excluded |-> {q.plan}, rejections |-> 0]
    /\ IF new THEN Remember(q) ELSE UNCHANGED served
    /\ UNCHANGED <<client, calls, topic, supervisor, expired, adapter, motion,
                   stopping, alarms, spins, faults, launches>>

\* _on_typed_clear_history: the model may have committed the next command
\* already, or be busy inferring it, and then refuses.
ServeClear(q) ==
    /\ q.op = "clear"
    /\ \/ Gen(q.id) = client.gen /\ q.seq = client.last /\ Reply(q, TRUE)
       \/ Reply(q, FALSE)
    /\ UNCHANGED <<client, pending, calls, topic, supervisor, served, expired,
                   adapter, motion, stopping, alarms, spins, faults, launches>>

\* _on_typed_replan_arm: the goal identity is the one the latch froze; a
\* request past the deadline releases the latch of its own transaction.
Frozen(q) == Latch # None /\ Latch.id = q.id
ArmIdentity(q) == AtAdapter(q, IF Frozen(q) THEN Latch.seq ELSE adapter.seq)

ServeArm(q) ==
    LET late == q.id \in expired
        valid == ~late /\ ArmIdentity(q)
        new == valid /\ ~Remembered(q) /\ Frozen(q)
        release == late /\ Frozen(q) /\ ArmIdentity(q)
        armed == [Latch EXCEPT !.armed = TRUE, !.excluded = q.plan, !.holds = 0]
    IN
    /\ q.op = "arm"
    /\ Reply(q, new \/ (valid /\ Remembered(q)))
    /\ adapter' = IF new THEN [adapter EXCEPT !.latch = armed]
                  ELSE IF release THEN [adapter EXCEPT !.latch = None]
                  ELSE adapter
    /\ motion' = (motion /\ ~release)
    /\ IF new THEN Remember(q) ELSE UNCHANGED served
    /\ UNCHANGED <<client, pending, calls, topic, supervisor, expired,
                   stopping, alarms, spins, faults, launches>>

\* The shared replan deadline of a recovery passes.
Deadlines ==
    {threads[g].id : g \in {h \in Generations :
                               threads[h].pc \in {"replan", "clear",
                                                  "spinning", "arm"}}}
    \cup (IF pending = None THEN {} ELSE {pending.id})
    \cup (IF Latch # None /\ Latch.armed THEN {Latch.id} ELSE {})

DeadlinePasses ==
    /\ \E id \in Deadlines \ expired : expired' = expired \cup {id}
    /\ UNCHANGED <<client, pending, calls, topic, supervisor, threads,
                   requests, served, adapter, motion, stopping, alarms, spins,
                   faults, launches>>

-----------------------------------------------------------------------------
(* The supervisor.                                                           *)

\* _adopt_episode_identity_locked
Adopted(g) == IF g > supervisor.gen THEN Supervising(g) ELSE supervisor

\* A prime adopts its generation, a command also its sequence and signature;
\* an older generation is ignored.
Receive ==
    LET m == Head(topic)
        s == Adopted(m.gen)
    IN
    /\ topic # <<>>
    /\ topic' = Tail(topic)
    /\ supervisor' =
            IF m.gen < supervisor.gen \/ m.seq < 0 THEN s
            ELSE [s EXCEPT !.seq = m.seq,
                           !.plan = IF m.plan = Stop THEN None ELSE m.plan]
    /\ UNCHANGED <<client, pending, calls, threads, requests, served, expired,
                   adapter, motion, stopping, alarms, spins, faults, launches>>

\* The plan of the active goal arrives; it names the trajectory when the last
\* command did not.
PathArrives ==
    /\ adapter.goal # None /\ supervisor.gen >= 0
    /\ supervisor' = [supervisor EXCEPT
                         !.path = TRUE,
                         !.plan = IF @ = None THEN adapter.goal ELSE @]
    /\ supervisor' # supervisor
    /\ UNCHANGED <<client, pending, calls, topic, threads, requests, served,
                   expired, adapter, motion, stopping, alarms, spins, faults,
                   launches>>

Watching ==
    /\ supervisor.gen >= 0 /\ ~supervisor.active /\ ~supervisor.terminal
    /\ supervisor.path /\ supervisor.plan # None

Launch(full) ==
    /\ launches < MaxLaunches
    /\ launches' = launches + 1
    /\ threads' = [threads EXCEPT ![supervisor.gen] =
                    [NoThread EXCEPT !.pc = "start", !.full = full]]

\* Mutant: one recovery more than the budget.
TickFullOffByOne ==
    /\ Watching /\ motion
    /\ supervisor.recoveries <= MaxRecoveries
    /\ supervisor' = [supervisor EXCEPT !.active = TRUE, !.recoveries = @ + 1]
    /\ Launch(TRUE)
    /\ UNCHANGED <<client, pending, calls, topic, requests, served, expired,
                   adapter, motion, stopping, alarms, spins, faults>>

\* _tick finds no progress while motion is enabled: a full recovery, or a
\* terminal stop once the budget of the generation is spent.
TickFull ==
    /\ Watching /\ motion
    /\ IF supervisor.recoveries >= MaxRecoveries
       THEN /\ supervisor' = [supervisor EXCEPT !.terminal = TRUE]
            /\ stopping' = TRUE
            /\ UNCHANGED <<threads, launches>>
       ELSE /\ supervisor' = [supervisor EXCEPT !.active = TRUE,
                                                !.recoveries = @ + 1]
            /\ Launch(TRUE)
            /\ UNCHANGED stopping
    /\ UNCHANGED <<client, pending, calls, topic, requests, served, expired,
                   adapter, motion, alarms, spins, faults>>

\* _tick finds a scheduled refresh due: a recovery without a spin.
TickRefresh ==
    /\ Watching /\ supervisor.refreshes < MaxRefreshes
    /\ supervisor' = [supervisor EXCEPT !.active = TRUE, !.refreshes = @ + 1]
    /\ Launch(FALSE)
    /\ UNCHANGED <<client, pending, calls, topic, requests, served, expired,
                   adapter, motion, stopping, alarms, spins, faults>>

-----------------------------------------------------------------------------
(* The recovery thread of generation g. Its effects check, under the         *)
(* supervisor's lock, that the generation is still supervised.               *)

Owner(g) == threads[g].pc # "idle" /\ supervisor.gen = g

\* Mutant: the recovery is named before it is counted.
IndexBefore == supervisor.recoveries + supervisor.refreshes - 1

\* recovery_events_this_episode names the recovery.
Index == supervisor.recoveries + supervisor.refreshes

\* The snapshot of _recover and the first stop of the motion.
Begin(g) ==
    /\ Owner(g) /\ threads[g].pc = "start"
    /\ threads' = [threads EXCEPT ![g].pc = "cancel", ![g].id = <<g, Index>>,
                                  ![g].seq = supervisor.seq,
                                  ![g].plan = supervisor.plan]
    /\ motion' = FALSE
    /\ UNCHANGED <<client, pending, calls, topic, supervisor, requests, served,
                   expired, adapter, stopping, alarms, spins, faults,
                   launches>>

\* The operation a thread calls next: another attempt of one that failed, or
\* what follows one that succeeded.
NextOperation(t) ==
    IF t.answer # "ok" THEN t.pc
    ELSE CASE t.pc = "cancel"            -> "replan"
           [] t.pc = "replan"            -> "clear"
           [] t.pc = "clear" /\ ~t.full  -> "arm"
           [] t.pc = "clear" /\ t.full   -> "spin"
           [] OTHER                      -> "end"

\* _recovery_request refuses to name no command, or no trajectory to exclude.
Unnamed(t) == t.seq < 0 \/ (NextOperation(t) = "replan" /\ t.plan = None)

\* _call_typed: two attempts with the same operation identity. A refresh
\* disables motion before it arms.
Send(g) ==
    LET t == threads[g]
        op == NextOperation(t)
        try == IF t.answer = "ok" THEN 1 ELSE t.tries + 1
    IN
    /\ Owner(g) /\ op \in Operations /\ ~Unnamed(t)
    /\ t.answer # "wait" /\ try <= 2
    /\ requests' = requests \cup {[id |-> t.id, seq |-> t.seq, plan |-> t.plan,
                                   op |-> op, try |-> try]}
    /\ threads' = [threads EXCEPT ![g].pc = op, ![g].tries = try,
                                  ![g].answer = "wait"]
    /\ motion' = (motion /\ ~(op = "arm" /\ t.pc = "clear"))
    /\ UNCHANGED <<client, pending, calls, topic, supervisor, served, expired,
                   adapter, stopping, alarms, spins, faults, launches>>

\* An attempt times out, or its service is unavailable: the request stays
\* alive and may be served late, or never.
CallTimeout(g) ==
    /\ threads[g].answer = "wait" /\ Fault
    /\ threads' = [threads EXCEPT ![g].answer = "failed"]
    /\ UNCHANGED <<client, pending, calls, topic, supervisor, requests, served,
                   expired, adapter, motion, stopping, alarms, spins,
                   launches>>

\* The recovery enables motion for Nav2's Spin behaviour and disables it after.
SpinStart(g) ==
    /\ Owner(g) /\ NextOperation(threads[g]) = "spin"
    /\ threads' = [threads EXCEPT ![g].pc = "spinning", ![g].answer = "none",
                                  ![g].tries = 0]
    /\ motion' = TRUE
    /\ spins' = [spins EXCEPT ![g] = @ + 1]
    /\ UNCHANGED <<client, pending, calls, topic, supervisor, requests, served,
                   expired, adapter, stopping, alarms, faults, launches>>

SpinEnd(g) ==
    /\ Owner(g) /\ threads[g].pc = "spinning"
    /\ threads' = [threads EXCEPT ![g].pc = "arm"]
    /\ motion' = FALSE
    /\ UNCHANGED <<client, pending, calls, topic, supervisor, requests, served,
                   expired, adapter, stopping, alarms, spins, faults,
                   launches>>

\* Mutant: the supervisor is left with a recovery under way.
EndStillActive(g) ==
    /\ threads' = [threads EXCEPT ![g] = NoThread]
    /\ supervisor' = [supervisor EXCEPT !.path = FALSE]
    /\ motion' = FALSE
    /\ UNCHANGED <<client, pending, calls, topic, requests, served, expired,
                   adapter, alarms, spins, launches>>

\* The finally block of an owner: motion off, and a new path is needed before
\* the next recovery.
End(g) ==
    /\ threads' = [threads EXCEPT ![g] = NoThread]
    /\ supervisor' = [supervisor EXCEPT !.active = FALSE, !.path = FALSE]
    /\ motion' = FALSE
    /\ UNCHANGED <<client, pending, calls, topic, requests, served, expired,
                   adapter, alarms, spins, launches>>

\* The gate is armed; a recovery longer than its budget also asks for a stop.
Complete(g) ==
    /\ Owner(g) /\ NextOperation(threads[g]) = "end"
    /\ stopping' \in {stopping, TRUE}
    /\ End(g)
    /\ UNCHANGED faults

\* An operation failed twice or cannot be named, or Nav2's Spin fails.
Fail(g) ==
    LET t == threads[g] IN
    /\ Owner(g)
    /\ \/ t.answer = "failed" /\ t.tries = 2 /\ UNCHANGED faults
       \/ t.pc \in Operations /\ t.answer # "wait" /\ Unnamed(t)
          /\ UNCHANGED faults
       \/ t.pc = "spinning" /\ Fault
    /\ stopping' = TRUE
    /\ End(g)

\* A thread whose generation is no longer supervised ends without an effect.
LoseOwnership(g) ==
    /\ threads[g].pc # "idle" /\ ~Owner(g)
    /\ threads' = [threads EXCEPT ![g] = NoThread]
    /\ UNCHANGED <<client, pending, calls, topic, supervisor, requests, served,
                   expired, adapter, motion, stopping, alarms, spins, faults,
                   launches>>

-----------------------------------------------------------------------------
ClientNext ==
    \/ \E plan \in Commands : Step(plan)
    \/ Finish \/ FinishRefused \/ GiveUp \/ ConfirmStop \/ Reset

AdapterNext ==
    \/ \E r \in calls : \/ PassLatch(r)
                        \/ Execute(r)
                        \/ LatchFallback(r)
                        \/ LatchHold(r)
                        \/ LatchRelease(r)
    \/ GoalFinished \/ StopArrives

RequestNext ==
    \/ \E q \in requests : \/ ServeCancel(q)
                           \/ CancelUnconfirmed(q)
                           \/ ServeReplan(q)
                           \/ ServeClear(q)
                           \/ ServeArm(q)
    \/ DeadlinePasses

SupervisorNext ==
    \/ Receive \/ PathArrives \/ TickFull \/ TickRefresh
    \/ \E g \in Generations : \/ Begin(g)
                              \/ Send(g)
                              \/ CallTimeout(g)
                              \/ SpinStart(g)
                              \/ SpinEnd(g)
                              \/ Complete(g)
                              \/ Fail(g)
                              \/ LoseOwnership(g)

Next == ClientNext \/ AdapterNext \/ RequestNext \/ SupervisorNext

Spec == Init /\ [][Next]_vars

-----------------------------------------------------------------------------
\* The types of the nodes' state and of the messages between them.
TypeOK ==
    /\ client.gen \in Generations
    /\ client.last \in -1..LastSequence[client.gen]
    /\ client.phase \in {"idle", "resolving", "answered"}
    /\ client.reply \in Replies \cup {None}
    /\ client.sampled \in Samples \cup {None}
    /\ pending \in Transactions \cup {None}
    /\ supervisor.gen \in -1..MaxGeneration
    /\ supervisor.plan \in Plans \cup {None}
    /\ \A g \in Generations : /\ threads[g].id \in Recoveries \cup {None}
                              /\ threads[g].tries \in 0..2
                              /\ threads[g].answer \in
                                    {"none", "wait", "ok", "failed"}
    /\ served \subseteq Recoveries \X Operations
    /\ expired \subseteq Recoveries
    /\ adapter.gen \in -1..MaxGeneration
    /\ adapter.seq \in
          -1..(IF adapter.gen < 0 THEN -1 ELSE LastSequence[adapter.gen])
    /\ adapter.goal \in Plans \cup {None}
    /\ Latch \in Latches \cup {None}
    /\ motion \in BOOLEAN /\ stopping \in BOOLEAN
    /\ alarms \subseteq Alarms
    /\ faults \in 0..MaxFaults

\* The robot spins at most maximum_recoveries_per_episode times in a
\* generation, whichever threads, retries and resets it takes (_tick 953-971).
SpinBudget == \A g \in Generations : spins[g] <= MaxRecoveries

\* While a recovery holds the supervisor's recovery_active flag, a thread of
\* the generation runs that will clear it (_adopt_episode_identity_locked,
\* _recover 1477-1515): otherwise the generation has no recovery left.
ActiveHasAThread ==
    supervisor.active => threads[supervisor.gen].pc # "idle"

\* Without a fault the adapter has committed what the client has committed
\* whenever the client is between steps, whether a command was executed, held,
\* suppressed or answered with the bounded fallback: the next one is
\* contiguous (adapter_node.py 703-707).
InStep ==
    faults = 0 /\ Idle /\ client.last >= 0
        => adapter.gen = client.gen /\ adapter.seq = client.last

\* Without a fault an armed latch and the client's pending replan are the same
\* transaction with the same exclusion, until its deadline or until the client
\* has given it up as repeated.
OneTransaction ==
    faults = 0 /\ Idle /\ Latch # None /\ Latch.armed
        /\ Latch.id \notin expired /\ client.gen = adapter.gen
        /\ "repeated" \notin alarms
    => /\ pending # None
       /\ pending.id = Latch.id
       /\ Latch.excluded \in pending.excluded

\* Without a fault Nav2 never drives a trajectory that the client's pending
\* replan excludes before its deadline, and the client does not raise that it
\* did as long as no replan deadline has passed.
BlamedPlanStaysOut ==
    faults = 0 =>
        /\ "excluded" \in alarms => expired # {}
        /\ (pending # None /\ pending.id \notin expired
               /\ Gen(pending.id) = adapter.gen)
           => adapter.goal \notin pending.excluded

\* Under a latch Nav2 is given a goal only by a command that had passed the
\* latch check before, or as the fresh, timely trajectory that releases it.
NoGoalUnderLatch ==
    [][ Latch # None /\ adapter'.goal \notin {None, adapter.goal}
        => \/ \E r \in calls : r.past /\ r \notin calls'
           \/ /\ Latch.armed /\ Latch.id \notin expired
              /\ adapter'.goal # Latch.excluded /\ Latch' = None ]_vars

\* Without a fault no trajectory is executed for a replan that had expired at
\* the client: both consumers were given the same deadline.
ExpiredNeverExecutes == faults = 0 => "late" \notin alarms
=============================================================================
