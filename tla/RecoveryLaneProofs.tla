------------------------- MODULE RecoveryLaneProofs -------------------------
(* Proofs about RecoveryLane for all values of its constants: the types of   *)
(* the three nodes and of the messages between them, the budget of the       *)
(* supervisor, the threads behind it, the latch, the lane in step, and the   *)
(* one transaction that a recovery makes of latch and pending replan.        *)
EXTENDS RecoveryLane, TLAPS

USE LaneAssumption, NoneAssumption

Phases == {"idle", "resolving", "answered"}

Clients ==
    [gen : Generations, last : SeqNumbers, phase : Phases,
     plan : Commands \cup {None}, sampled : Samples \cup {None},
     reply : Replies \cup {None}]

Calls == [gen : Generations, seq : Nat, plan : Commands, past : BOOLEAN]

Messages == [gen : Generations, seq : SeqNumbers, plan : Commands \cup {None}]

Supervisors ==
    [gen : -1..MaxGeneration, seq : SeqNumbers, plan : Plans \cup {None},
     path : BOOLEAN, active : BOOLEAN, terminal : BOOLEAN,
     recoveries : 0..MaxRecoveries, refreshes : 0..MaxRefreshes]

Counters == Operations \cup {"idle", "start", "spinning"}

Threads ==
    [pc : Counters, id : Recoveries \cup {None}, seq : SeqNumbers,
     plan : Plans \cup {None}, full : BOOLEAN, tries : 0..2,
     answer : {"none", "wait", "ok", "failed"}]

Requests ==
    [id : Recoveries, seq : SeqNumbers, plan : Plans \cup {None}, op : Operations,
     try : 1..2]

Adapters ==
    [gen : -1..MaxGeneration, seq : SeqNumbers, goal : Plans \cup {None},
     latch : Latches \cup {None}]

\* Two bounds that types do not say, and what a step that waits or has an answer
\* has set.
CommandsBounded ==
    /\ client.last <= LastSequence[client.gen]
    /\ \A r \in calls : r.seq <= LastSequence[r.gen]
    /\ adapter.gen < 0 => adapter.seq = -1
    /\ adapter.gen >= 0 => adapter.seq <= LastSequence[adapter.gen]

StepShape ==
    /\ client.phase = "resolving" => client.last >= 0
    /\ client.phase # "idle" =>
          /\ client.plan \in Commands
          /\ client.plan = Stop /\ client.sampled # None => client.sampled.rejected
    /\ client.phase = "answered" =>
          /\ client.reply \in Replies
          /\ client.reply # "refused" => client.sampled # None

\* What a thread carries is named from its first operation on, and a typed
\* request that excludes a plan names one.
NamesSet ==
    /\ \A g \in Generations :
          /\ threads[g].pc \notin {"idle", "start"} => threads[g].id \in Recoveries
          /\ threads[g].pc \in {"replan", "clear", "spinning", "arm"} =>
                threads[g].plan \in Plans
    /\ \A q \in requests : q.op \in {"replan", "arm"} => q.plan \in Plans

Typed ==
    /\ client \in Clients
    /\ pending \in Transactions \cup {None}
    /\ calls \subseteq Calls
    /\ topic \in Seq(Messages)
    /\ supervisor \in Supervisors
    /\ threads \in [Generations -> Threads]
    /\ requests \subseteq Requests
    /\ served \subseteq Recoveries \X Operations
    /\ expired \subseteq Recoveries
    /\ adapter \in Adapters
    /\ motion \in BOOLEAN /\ stopping \in BOOLEAN
    /\ alarms \subseteq Alarms
    /\ spins \in [Generations -> Nat]
    /\ faults \in 0..MaxFaults /\ launches \in Nat
    /\ CommandsBounded
    /\ StepShape
    /\ NamesSet

-----------------------------------------------------------------------------
(* What the operators return.                                                *)

LEMMA ConstantsAre ==
    /\ MaxGeneration \in Nat /\ 0 \in Generations
    /\ Generations \subseteq Nat
    /\ \A g \in Generations : LastSequence[g] \in Nat
    /\ None \notin Plans /\ Stop \notin Plans /\ None # Stop /\ None \notin Commands
    /\ None \notin Recoveries /\ None \notin Samples /\ None \notin Transactions
    /\ None \notin Latches
    /\ MaxFaults \in Nat /\ MaxRecoveries \in Nat \ {0} /\ MaxRefreshes \in Nat
    /\ HoldLimit \in Nat \ {0}
BY DEF Generations, Commands

LEMMA RecoveriesAre ==
    /\ \A id \in Recoveries : Gen(id) \in Generations /\ id[2] \in Nat
    /\ \A g \in Generations, n \in 1..(MaxRecoveries + MaxRefreshes) :
          <<g, n>> \in Recoveries /\ Gen(<<g, n>>) = g
BY DEF Recoveries, Gen

LEMMA NoThreadIs ==
    /\ NoThread \in Threads /\ NoThread.pc = "idle" /\ NoThread.id = None
    /\ NoThread.answer = "none" /\ NoThread.tries = 0 /\ ~NoThread.full
BY DEF NoThread, Threads, Counters, SeqNumbers

\* The parts of a fully typed state that the proofs below look at.
LEMMA Parts ==
    ASSUME Typed
    PROVE  /\ client.gen \in Generations /\ client.gen \in Nat
           /\ client.last \in SeqNumbers /\ client.last \in Int
           /\ adapter.gen \in Int /\ adapter.gen <= MaxGeneration /\ adapter.gen >= -1
           /\ adapter.seq \in SeqNumbers /\ adapter.seq \in Int
           /\ adapter.gen >= 0 => adapter.gen \in Generations
           /\ supervisor.gen \in Int /\ supervisor.gen >= -1
           /\ supervisor.gen >= 0 => supervisor.gen \in Generations
           /\ supervisor.recoveries \in Nat /\ supervisor.refreshes \in Nat
           /\ faults \in Nat
BY DEF Typed, Clients, Adapters, Supervisors, Generations, SeqNumbers

\* What an execution of a command may leave behind.
LEMMA OutcomesAre ==
    ASSUME NEW r, NEW o \in Outcomes(r)
    PROVE  /\ o.fault = TRUE \/ o.fault = FALSE
           /\ ~Contiguous(r) =>
                /\ o.at = <<adapter.gen, adapter.seq>> /\ o.goal = adapter.goal
                /\ o.motion = motion /\ o.reply = "refused" /\ o.fault = FALSE
           /\ Contiguous(r) =>
                \/ /\ o.at = <<r.gen, r.seq>>
                   /\ \/ /\ r.plan = Stop /\ o.goal = None /\ o.reply = "stopped"
                         /\ o.motion = FALSE /\ o.fault = FALSE
                      \/ /\ r.plan # Stop /\ o.goal = r.plan /\ o.reply = "executed"
                         /\ o.motion = TRUE /\ o.fault = FALSE
                      \/ /\ r.plan # Stop /\ o.goal = KeptGoal(r) /\ o.goal # None
                         /\ o.reply = "reused" /\ o.motion = TRUE /\ o.fault = FALSE
                      \/ /\ o.goal = KeptGoal(r) /\ o.reply = "refused"
                         /\ o.motion = KeptMotion(r) /\ o.fault = TRUE
                \/ /\ o.at = <<adapter.gen, adapter.seq>> /\ o.goal = adapter.goal
                   /\ o.motion = motion /\ o.reply = "refused" /\ o.fault = TRUE
<1>1. CASE ~Contiguous(r)
    BY <1>1 DEF Outcomes
<1>2. CASE Contiguous(r)
    <2>1. \/ r.plan = Stop /\ o = Outcome(r, None, FALSE, "stopped", FALSE)
          \/ r.plan # Stop /\ o = Outcome(r, r.plan, TRUE, "executed", FALSE)
          \/ /\ r.plan # Stop /\ KeptGoal(r) # None
             /\ o = Outcome(r, KeptGoal(r), TRUE, "reused", FALSE)
          \/ o = Outcome(r, KeptGoal(r), KeptMotion(r), "refused", TRUE)
          \/ o = [at |-> <<adapter.gen, adapter.seq>>, goal |-> adapter.goal,
                  motion |-> motion, reply |-> "refused", fault |-> TRUE]
        BY <1>2 DEF Outcomes
    <2>2. QED
        BY <1>2, <2>1 DEF Outcome
<1>3. QED
    BY <1>1, <1>2

\* An answer that some step awaits is typed, and no other changes the client.
LEMMA AnswerIs ==
    ASSUME Typed, NEW r \in calls, NEW reply \in Replies, Answer(r, reply)
    PROVE  /\ client' \in Clients
           /\ client'.gen = client.gen /\ client'.last = client.last
           /\ StepShape'
<1>1. client \in Clients /\ StepShape
    BY DEF Typed
<1>2. CASE ~Awaits(r)
    BY <1>1, <1>2 DEF Answer, StepShape
<1>3. CASE Awaits(r) /\ client.sampled = None /\ reply # "refused"
    BY <1>1, <1>3 DEF Answer, Settled, Clients, Phases, StepShape
<1>4. CASE Awaits(r) /\ ~(client.sampled = None /\ reply # "refused")
    <2>1. client' = [client EXCEPT !.phase = "answered", !.reply = reply]
        BY <1>4 DEF Answer
    <2>2. /\ client' \in Clients /\ client'.phase = "answered"
          /\ client'.reply = reply /\ client'.plan = client.plan
          /\ client'.sampled = client.sampled
          /\ client'.gen = client.gen /\ client'.last = client.last
        BY <1>1, <2>1 DEF Clients, Phases
    <2>3. QED
        BY <1>1, <1>4, <2>2 DEF StepShape, Awaits
<1>5. QED
    BY <1>2, <1>3, <1>4

LEMMA SettledIs ==
    ASSUME Typed, client' = Settled
    PROVE  /\ client' \in Clients /\ client'.phase = "idle"
           /\ client'.gen = client.gen /\ client'.last = client.last
           /\ client'.sampled = None
           /\ StepShape'
BY DEF Typed, Settled, Clients, Phases, StepShape

LEMMA TypedSteps ==
    ASSUME Typed, NEW plan \in Commands, Step(plan)
    PROVE  Typed'
<1>1. client.last + 1 \in Nat /\ client.gen \in Generations
    BY Parts DEF SeqNumbers
<1>2. /\ Sample(plan) \in Samples \cup {None}
      /\ Sample(plan) # None => (plan = Stop => Sample(plan).rejected)
    <2>1. CASE Sample(plan) = None
        BY <2>1
    <2>2. CASE Sample(plan) # None
        <3>1. /\ pending \in Transactions
              /\ Sample(plan) = [id |-> pending.id, expired |-> pending.id \in expired,
                                 rejected |-> plan = Stop \/ plan \in pending.excluded]
            BY <2>2 DEF Sample, Typed
        <3>2. /\ (pending.id \in expired) \in BOOLEAN
              /\ (plan = Stop \/ plan \in pending.excluded) \in BOOLEAN
            OBVIOUS
        <3>3. pending.id \in Recoveries
            BY <3>1 DEF Transactions
        <3>4. Sample(plan) \in Samples
            BY <3>1, <3>2, <3>3 DEF Samples
        <3>5. Sample(plan).rejected = (plan = Stop \/ plan \in pending.excluded)
            BY <3>1
        <3>6. QED
            BY <3>4, <3>5
    <2>3. QED
        BY <2>1, <2>2
<1>3. client' = [client EXCEPT !.last = client.last + 1, !.phase = "resolving",
                               !.plan = plan, !.sampled = Sample(plan)]
    BY DEF Step
<1>4. /\ client' \in Clients /\ client'.gen = client.gen
      /\ client'.last = client.last + 1 /\ client'.phase = "resolving"
      /\ client'.plan = plan /\ client'.sampled = Sample(plan)
    BY <1>1, <1>2, <1>3 DEF Typed, Clients, Phases, SeqNumbers
<1>5. StepShape'
    BY <1>1, <1>2, <1>4 DEF StepShape
<1>6. /\ calls' \subseteq Calls
      /\ \A r \in calls' : r.seq <= LastSequence[r.gen]
    <2> DEFINE c == [gen |-> client.gen, seq |-> client.last + 1, plan |-> plan,
                     past |-> FALSE]
    <2>1. c \in Calls /\ c.gen = client.gen /\ c.seq = client.last + 1
        BY <1>1 DEF Calls
    <2>2. calls' = calls \cup {c} /\ client.last + 1 <= LastSequence[client.gen]
        BY DEF Step
    <2> HIDE DEF c
    <2>3. calls \subseteq Calls /\ \A r \in calls : r.seq <= LastSequence[r.gen]
        BY DEF Typed, CommandsBounded
    <2>4. QED
        BY <2>1, <2>2, <2>3
<1>7. topic' \in Seq(Messages)
    BY <1>1 DEF Step, Typed, Messages, SeqNumbers
<1>8. pending' \in Transactions \cup {None}
    BY DEF Step, Typed
<1>9. CommandsBounded'
    BY <1>4, <1>6 DEF Step, Typed, CommandsBounded
<1>10. QED
    BY <1>4, <1>5, <1>6, <1>7, <1>8, <1>9 DEF Step, Typed, NamesSet

LEMMA TypedFinish ==
    ASSUME Typed, Finish
    PROVE  Typed'
<1>1. /\ client.phase = "answered" /\ client.sampled \in Samples
      /\ client.plan \in Commands
      /\ client.plan = Stop => client.sampled.rejected
    BY DEF Finish, Typed, StepShape, Clients
<1>2. Mine => pending \in Transactions /\ pending.rejections + 1 \in Nat
    BY DEF Mine, Typed, Transactions
<1>3. pending' \in Transactions \cup {None}
    <2>1. FinishLate \/ FinishOver \/ FinishHeld => pending' \in Transactions \cup {None}
        BY DEF FinishLate, FinishOver, FinishHeld, Typed
    <2>2. FinishReleased \/ FinishRejected => pending' \in Transactions \cup {None}
        BY <1>2 DEF FinishReleased, FinishRejected, Rejections, Typed, Transactions
    <2>3. FinishFresh => pending' \in Transactions \cup {None}
        <3>1. FinishFresh => client.plan \in Plans
            BY <1>1 DEF FinishFresh, Commands
        <3>2. Mine /\ client.plan \in Plans =>
                [pending EXCEPT !.excluded = @ \cup {client.plan}] \in Transactions
            BY <1>2 DEF Transactions
        <3>3. QED
            BY <3>1, <3>2 DEF FinishFresh, Typed
    <2>4. QED
        BY <2>1, <2>2, <2>3 DEF Finish
<1>4. alarms' \subseteq Alarms /\ stopping' \in BOOLEAN
    BY DEF Finish, FinishLate, FinishOver, FinishHeld, FinishReleased,
           FinishRejected, FinishFresh, Typed, Alarms
<1>5. client' \in Clients /\ client'.gen = client.gen /\ client'.last = client.last
      /\ StepShape'
    BY SettledIs DEF Finish
<1>6. QED
    BY <1>3, <1>4, <1>5 DEF Finish, Typed, CommandsBounded, NamesSet

LEMMA TypedClient ==
    ASSUME Typed, FinishRefused \/ GiveUp \/ ConfirmStop \/ Reset
    PROVE  Typed'
<1>1. CASE FinishRefused
    BY <1>1, SettledIs DEF FinishRefused, Typed, CommandsBounded, NamesSet
<1>2. CASE GiveUp
    <2>1. faults' \in 0..MaxFaults
        BY <1>2 DEF GiveUp, Fault, Typed
    <2>2. QED
        BY <1>2, <2>1, SettledIs DEF GiveUp, Typed, CommandsBounded, NamesSet
<1>3. CASE ConfirmStop
    <2>1. /\ adapter' \in Adapters /\ adapter'.gen = adapter.gen
          /\ adapter'.seq = adapter.seq
        BY <1>3 DEF ConfirmStop, Typed, Adapters
    <2>2. QED
        BY <1>3, <2>1
        DEF ConfirmStop, Typed, CommandsBounded, NamesSet, StepShape
<1>4. CASE Reset
    <2>1. /\ adapter' \in Adapters /\ adapter'.gen = adapter.gen
          /\ adapter'.seq = adapter.seq
        BY <1>4 DEF Reset, Typed, Adapters
    <2>2. client.gen + 1 \in Generations /\ -1 \in SeqNumbers
        <3>1. client.gen < MaxGeneration
            BY <1>4 DEF Reset
        <3>2. QED
            BY <3>1, Parts, ConstantsAre, SMTT(30) DEF Generations, SeqNumbers
    <2>3. /\ client' \in Clients /\ client'.gen = client.gen + 1 /\ client'.last = -1
          /\ client'.phase = "idle"
        BY <1>4, <2>2 DEF Reset, Idle, Typed, Clients
    <2>4. [gen |-> client.gen + 1, seq |-> -1, plan |-> None] \in Messages
        BY <2>2 DEF Messages
    <2>5. topic' \in Seq(Messages)
        BY <1>4, <2>4 DEF Reset, Typed
    <2>6. LastSequence[client.gen + 1] \in Nat
        BY <2>2, ConstantsAre
    <2>7. CommandsBounded' /\ StepShape' /\ NamesSet'
        BY <1>4, <2>1, <2>2, <2>3, <2>6
        DEF Reset, Typed, CommandsBounded, NamesSet, StepShape
    <2>8. motion' \in BOOLEAN
        BY <1>4 DEF Reset
    <2>9. QED
        BY <1>4, <2>1, <2>3, <2>5, <2>7, <2>8 DEF Reset, Typed
<1>5. QED
    BY <1>1, <1>2, <1>3, <1>4

\* A call the adapter takes is typed and within its generation's commands.
LEMMA CallIs ==
    ASSUME Typed, NEW r \in calls
    PROVE  /\ r \in Calls /\ r.gen \in Generations /\ r.gen \in Nat /\ r.seq \in Nat
           /\ r.seq <= LastSequence[r.gen] /\ r.plan \in Commands
           /\ r.seq \in SeqNumbers /\ r.gen \in -1..MaxGeneration
BY DEF Typed, CommandsBounded, Calls, Generations, SeqNumbers

LEMMA LatchIs ==
    ASSUME Typed
    PROVE  /\ Latch \in Latches \cup {None} /\ adapter.goal \in Plans \cup {None}
           /\ Latch # None =>
                /\ Latch \in Latches /\ Latch.id \in Recoveries
                /\ Latch.seq \in SeqNumbers /\ Latch.armed \in BOOLEAN
                /\ Latch.excluded \in Plans \cup {None} /\ Latch.holds \in Nat
BY DEF Typed, Adapters, Latch, Latches

\* What an outcome makes of the adapter is typed.
LEMMA OutcomeTyped ==
    ASSUME Typed, NEW r \in calls, NEW o \in Outcomes(r)
    PROVE  /\ o.at[1] \in -1..MaxGeneration /\ o.at[2] \in SeqNumbers
           /\ o.at[1] < 0 => o.at[2] = -1
           /\ o.at[1] >= 0 => o.at[2] <= LastSequence[o.at[1]]
           /\ o.goal \in Plans \cup {None}
           /\ o.motion \in BOOLEAN
           /\ o.reply \in Replies
<1>1. /\ adapter.gen \in -1..MaxGeneration /\ adapter.seq \in SeqNumbers
      /\ adapter.gen < 0 => adapter.seq = -1
      /\ adapter.gen >= 0 => adapter.seq <= LastSequence[adapter.gen]
      /\ adapter.goal \in Plans \cup {None} /\ motion \in BOOLEAN
    BY DEF Typed, Adapters, CommandsBounded
<1>2. /\ KeptGoal(r) \in Plans \cup {None} /\ KeptMotion(r) \in BOOLEAN
    BY <1>1 DEF KeptGoal, KeptMotion
<1>3. r.plan # Stop => r.plan \in Plans
    BY CallIs DEF Commands
<1>4. \/ o.at = <<adapter.gen, adapter.seq>>
      \/ o.at = <<r.gen, r.seq>>
    BY OutcomesAre
<1>5. o.goal \in Plans \cup {None}
    BY <1>1, <1>2, <1>3, OutcomesAre
<1>6. o.motion \in BOOLEAN
    BY <1>1, <1>2, OutcomesAre
<1>7. o.reply \in Replies
    BY OutcomesAre DEF Replies, Moving
<1>8. QED
    BY <1>1, <1>4, <1>5, <1>6, <1>7, CallIs

LEMMA TypedPassLatch ==
    ASSUME Typed, NEW r \in calls, PassLatch(r)
    PROVE  Typed'
<1>1. [r EXCEPT !.past = TRUE] \in Calls
      /\ [r EXCEPT !.past = TRUE].seq = r.seq /\ [r EXCEPT !.past = TRUE].gen = r.gen
    BY CallIs DEF Calls
<1>2. calls' = (calls \ {r}) \cup {[r EXCEPT !.past = TRUE]}
    BY DEF PassLatch
<1>3. /\ calls' \subseteq Calls
      /\ \A c \in calls' : c.seq <= LastSequence[c.gen]
    BY <1>1, <1>2 DEF Typed, CommandsBounded
<1>4. /\ adapter' \in Adapters /\ adapter'.gen = adapter.gen
      /\ adapter'.seq = adapter.seq
    BY DEF PassLatch, Typed, Adapters
<1>5. motion' \in BOOLEAN
    BY DEF PassLatch
<1>6. QED
    BY <1>3, <1>4, <1>5
    DEF PassLatch, Typed, CommandsBounded, StepShape, NamesSet

\* A command that is taken: one call less, an answer, and the adapter.
LEMMA TypedAnswer ==
    ASSUME Typed, NEW r \in calls, NEW reply \in Replies,
           Answer(r, reply) \/ client' = client,
           calls' = calls \ {r},
           adapter' \in Adapters,
           adapter'.gen < 0 => adapter'.seq = -1,
           adapter'.gen >= 0 => adapter'.seq <= LastSequence[adapter'.gen],
           motion' \in BOOLEAN, faults' \in 0..MaxFaults,
           UNCHANGED <<pending, topic, supervisor, threads, requests, served,
                       expired, stopping, alarms, spins, launches>>
    PROVE  Typed'
<1>1. /\ client' \in Clients /\ client'.gen = client.gen
      /\ client'.last = client.last /\ StepShape'
    <2>1. CASE client' = client
        BY <2>1 DEF Typed, StepShape
    <2>2. CASE Answer(r, reply)
        BY <2>2, AnswerIs
    <2>3. QED
        BY <2>1, <2>2
<1>2. CommandsBounded'
    BY <1>1 DEF Typed, CommandsBounded
<1>3. NamesSet'
    BY DEF Typed, NamesSet
<1>4. QED
    BY <1>1, <1>2, <1>3 DEF Typed

LEMMA TypedExecute ==
    ASSUME Typed, NEW r \in calls, Execute(r) \/ LatchRelease(r)
    PROVE  Typed'
<1>1. PICK o \in Outcomes(r) :
        /\ Charge(o)
        /\ \/ /\ adapter' = [adapter EXCEPT !.gen = o.at[1], !.seq = o.at[2],
                                            !.goal = o.goal]
              /\ motion' = o.motion
           \/ /\ adapter' = [gen |-> o.at[1], seq |-> o.at[2], goal |-> o.goal,
                             latch |-> IF o.reply = "executed" THEN None ELSE Latch]
              /\ motion' = (o.motion /\ o.reply = "executed")
        /\ Answer(r, o.reply)
    BY DEF Execute, LatchRelease
<1>2. /\ o.at[1] \in -1..MaxGeneration /\ o.at[2] \in SeqNumbers
      /\ o.at[1] < 0 => o.at[2] = -1
      /\ o.at[1] >= 0 => o.at[2] <= LastSequence[o.at[1]]
      /\ o.goal \in Plans \cup {None}
      /\ o.motion \in BOOLEAN
      /\ o.reply \in Replies
    BY OutcomeTyped
<1>3. /\ adapter' \in Adapters /\ adapter'.gen = o.at[1] /\ adapter'.seq = o.at[2]
    <2>1. CASE adapter' = [adapter EXCEPT !.gen = o.at[1], !.seq = o.at[2],
                                          !.goal = o.goal]
        BY <1>2, <2>1 DEF Typed, Adapters
    <2>2. CASE adapter' = [gen |-> o.at[1], seq |-> o.at[2], goal |-> o.goal,
                           latch |-> IF o.reply = "executed" THEN None ELSE Latch]
        <3>1. (IF o.reply = "executed" THEN None ELSE Latch) \in Latches \cup {None}
            BY LatchIs
        <3>2. QED
            BY <1>2, <2>2, <3>1 DEF Adapters
    <2>3. QED
        BY <1>1, <2>1, <2>2
<1>4. motion' \in BOOLEAN
    BY <1>1, <1>2
<1>5. faults' \in 0..MaxFaults
    BY <1>1 DEF Charge, Fault, Typed
<1>6. QED
    BY <1>1, <1>2, <1>3, <1>4, <1>5, TypedAnswer DEF Execute, LatchRelease

LEMMA TypedLatched ==
    ASSUME Typed, NEW r \in calls, LatchFallback(r) \/ LatchHold(r)
    PROVE  Typed'
<1>1. /\ Latch \in Latches /\ HoldsAfter(r) \in Nat
      /\ r.seq \in SeqNumbers
      /\ Latched(r)
    BY LatchIs, CallIs DEF LatchFallback, LatchHold, Latched, HoldsAfter
<1>2. [Latch EXCEPT !.holds = HoldsAfter(r)] \in Latches
    BY <1>1 DEF Latches
<1>3. adapter.gen = r.gen /\ adapter \in Adapters
    BY <1>1 DEF Latched, Typed
<1>4. /\ adapter' \in Adapters
      /\ adapter'.gen < 0 => adapter'.seq = -1
      /\ adapter'.gen >= 0 => adapter'.seq <= LastSequence[adapter'.gen]
    <2>1. CASE LatchFallback(r)
        <3>1. CASE ~Contiguous(r)
            BY <2>1, <3>1 DEF LatchFallback, Typed, CommandsBounded
        <3>2. CASE Contiguous(r)
            <4>1. adapter' = [adapter EXCEPT !.seq = r.seq, !.latch = None]
                BY <2>1, <3>2 DEF LatchFallback
            <4>2. /\ adapter' \in Adapters /\ adapter'.gen = r.gen
                  /\ adapter'.seq = r.seq
                BY <1>1, <1>3, <4>1 DEF Adapters
            <4>3. QED
                BY <4>2, CallIs
        <3>3. QED
            BY <3>1, <3>2
    <2>2. CASE LatchHold(r)
        <3>1. CASE ~Contiguous(r)
            <4>1. adapter' = [adapter EXCEPT
                                !.latch = [Latch EXCEPT !.holds = HoldsAfter(r)]]
                BY <2>2, <3>1 DEF LatchHold
            <4>2. QED
                BY <1>2, <1>3, <4>1 DEF Typed, CommandsBounded, Adapters
        <3>2. CASE Contiguous(r)
            <4> DEFINE bounded == Repeats(r) /\ HoldsAfter(r) >= HoldLimit
                       latch == IF bounded THEN None
                                ELSE [Latch EXCEPT !.holds = HoldsAfter(r)]
            <4>1. adapter' = [adapter EXCEPT !.seq = r.seq, !.latch = latch]
                BY <2>2, <3>2 DEF LatchHold
            <4>2. latch \in Latches \cup {None}
                BY <1>2
            <4> HIDE DEF latch
            <4>3. /\ adapter' \in Adapters /\ adapter'.gen = r.gen
                  /\ adapter'.seq = r.seq
                BY <1>1, <1>3, <4>1, <4>2 DEF Adapters
            <4>4. QED
                BY <4>3, CallIs
        <3>3. QED
            BY <3>1, <3>2
    <2>3. QED
        BY <2>1, <2>2
<1>5. motion' \in BOOLEAN
    BY DEF LatchFallback, LatchHold, Typed
<1>6. \E reply \in Replies : Answer(r, reply) \/ client' = client
    <2>1. {"fallback", "refused", "suppressed", "held"} \subseteq Replies
        BY DEF Replies
    <2>2. QED
        BY <2>1 DEF LatchFallback, LatchHold
<1>7. faults' \in 0..MaxFaults /\ calls' = calls \ {r}
    BY DEF LatchFallback, LatchHold, Typed
<1>8. UNCHANGED <<pending, topic, supervisor, threads, requests, served,
                  expired, stopping, alarms, spins, launches>>
    BY DEF LatchFallback, LatchHold
<1>9. QED
    BY <1>4, <1>5, <1>6, <1>7, <1>8, TypedAnswer

LEMMA TypedNav ==
    ASSUME Typed, GoalFinished \/ StopArrives
    PROVE  Typed'
<1>1. /\ adapter' \in Adapters /\ adapter'.gen = adapter.gen
      /\ adapter'.seq = adapter.seq
    BY DEF GoalFinished, StopArrives, Typed, Adapters
<1>2. QED
    BY <1>1
    DEF GoalFinished, StopArrives, Typed, CommandsBounded, StepShape, NamesSet

-----------------------------------------------------------------------------
(* Types of the typed operations and of the supervisor.                      *)

\* What a reply changes: one request less, and the answer of its thread.
LEMMA ReplyIs ==
    ASSUME Typed, NEW q \in requests, NEW ok \in BOOLEAN, Reply(q, ok)
    PROVE  /\ requests' = requests \ {q}
           /\ threads' \in [Generations -> Threads]
           /\ NamesSet'
           /\ \A g \in Generations :
                /\ threads'[g].pc = threads[g].pc /\ threads'[g].id = threads[g].id
                /\ threads'[g].seq = threads[g].seq
                /\ threads'[g].plan = threads[g].plan
                /\ threads'[g].full = threads[g].full
                /\ threads'[g].tries = threads[g].tries
                /\ threads'[g].answer =
                     IF Attempt(q) /\ g = Gen(q.id) THEN IF ok THEN "ok" ELSE "failed"
                     ELSE threads[g].answer
                /\ ~(Attempt(q) /\ g = Gen(q.id)) => threads'[g] = threads[g]
<1>1. /\ threads \in [Generations -> Threads] /\ Gen(q.id) \in Generations
      /\ requests' = requests \ {q}
    BY RecoveriesAre DEF Typed, Requests, Reply
<1>2. CASE Attempt(q)
    <2> DEFINE answer == IF ok THEN "ok" ELSE "failed"
    <2>1. threads' = [threads EXCEPT ![Gen(q.id)].answer = answer]
        BY <1>2 DEF Reply
    <2>2. answer \in {"none", "wait", "ok", "failed"}
        OBVIOUS
    <2> HIDE DEF answer
    <2>3. \A g \in Generations :
             threads'[g] = IF g = Gen(q.id) THEN [threads[g] EXCEPT !.answer = answer]
                           ELSE threads[g]
        BY <1>1, <2>1
    <2>4. \A t \in Threads : /\ [t EXCEPT !.answer = answer] \in Threads
                             /\ [t EXCEPT !.answer = answer].answer = answer
                             /\ [t EXCEPT !.answer = answer].pc = t.pc
                             /\ [t EXCEPT !.answer = answer].id = t.id
                             /\ [t EXCEPT !.answer = answer].seq = t.seq
                             /\ [t EXCEPT !.answer = answer].plan = t.plan
                             /\ [t EXCEPT !.answer = answer].full = t.full
                             /\ [t EXCEPT !.answer = answer].tries = t.tries
        BY <2>2 DEF Threads
    <2>5. threads' \in [Generations -> Threads]
        BY <1>1, <2>1, <2>4
    <2>6. \A g \in Generations : threads[g] \in Threads
        BY <1>1
    <2>7. \A g \in Generations :
                /\ threads'[g].pc = threads[g].pc /\ threads'[g].id = threads[g].id
                /\ threads'[g].seq = threads[g].seq
                /\ threads'[g].plan = threads[g].plan
                /\ threads'[g].full = threads[g].full
                /\ threads'[g].tries = threads[g].tries
                /\ threads'[g].answer =
                     IF g = Gen(q.id) THEN answer ELSE threads[g].answer
        <3> SUFFICES ASSUME NEW g \in Generations
                     PROVE  /\ threads'[g].pc = threads[g].pc
                            /\ threads'[g].id = threads[g].id
                            /\ threads'[g].seq = threads[g].seq
                            /\ threads'[g].plan = threads[g].plan
                            /\ threads'[g].full = threads[g].full
                            /\ threads'[g].tries = threads[g].tries
                            /\ threads'[g].answer =
                                 IF g = Gen(q.id) THEN answer ELSE threads[g].answer
            OBVIOUS
        <3>1. CASE g = Gen(q.id)
            <4>1. threads'[g] = [threads[g] EXCEPT !.answer = answer]
                BY <2>3, <3>1
            <4>2. QED
                BY <2>4, <2>6, <3>1, <4>1
        <3>2. CASE g # Gen(q.id)
            BY <2>3, <3>2
        <3>3. QED
            BY <3>1, <3>2
    <2>8. NamesSet'
        BY <1>1, <2>7 DEF Typed, NamesSet
    <2>9. QED
        BY <1>1, <1>2, <2>3, <2>5, <2>7, <2>8 DEF answer
<1>3. CASE ~Attempt(q)
    <2>1. threads' = threads
        BY <1>3 DEF Reply
    <2>2. QED
        BY <1>1, <1>3, <2>1 DEF Typed, NamesSet
<1>4. QED
    BY <1>2, <1>3

LEMMA RequestIs ==
    ASSUME Typed, NEW q \in requests
    PROVE  /\ q \in Requests /\ q.id \in Recoveries /\ Gen(q.id) \in Generations
           /\ q.seq \in SeqNumbers /\ q.plan \in Plans \cup {None}
           /\ q.op \in Operations /\ q.try \in 1..2
           /\ <<q.id, q.op>> \in Recoveries \X Operations
           /\ q.op \in {"replan", "arm"} => q.plan \in Plans
BY RecoveriesAre DEF Typed, Requests, NamesSet

LEMMA TypedServe ==
    ASSUME Typed, NEW q \in requests,
           \/ ServeCancel(q)
           \/ CancelUnconfirmed(q)
           \/ ServeReplan(q)
           \/ ServeClear(q)
           \/ ServeArm(q)
    PROVE  Typed'
<1>1. \E ok \in BOOLEAN : Reply(q, ok)
    <2>1. /\ ServeCancel(q) => Reply(q, AtAdapter(q, adapter.seq))
          /\ CancelUnconfirmed(q) => Reply(q, FALSE)
          /\ ServeClear(q) => Reply(q, TRUE) \/ Reply(q, FALSE)
        BY DEF ServeCancel, CancelUnconfirmed, ServeClear
    <2>2. ServeReplan(q) => \E ok \in BOOLEAN : Reply(q, ok)
        BY DEF ServeReplan
    <2>3. ServeArm(q) => \E ok \in BOOLEAN : Reply(q, ok)
        BY DEF ServeArm
    <2>4. AtAdapter(q, adapter.seq) \in BOOLEAN
        BY DEF AtAdapter
    <2>5. QED
        BY <2>1, <2>2, <2>3, <2>4
<1>2. /\ requests' \subseteq Requests /\ threads' \in [Generations -> Threads]
      /\ NamesSet'
    BY <1>1, ReplyIs DEF Typed
<1>3. served' \subseteq Recoveries \X Operations
    BY RequestIs
    DEF ServeCancel, CancelUnconfirmed, ServeReplan, ServeClear, ServeArm, Remember,
        Typed
<1>4. pending' \in Transactions \cup {None}
    <2>1. ServeReplan(q) =>
            [id |-> q.id, excluded |-> {q.plan}, rejections |-> 0] \in Transactions
        BY RequestIs DEF ServeReplan, Transactions
    <2>2. QED
        BY <2>1
        DEF ServeCancel, CancelUnconfirmed, ServeReplan, ServeClear, ServeArm, Typed
<1>5. /\ adapter' \in Adapters /\ adapter'.gen = adapter.gen
      /\ adapter'.seq = adapter.seq
    <2>1. CASE ServeCancel(q)
        <3> DEFINE latch == [id |-> q.id, seq |-> q.seq, armed |-> FALSE,
                             excluded |-> None, holds |-> 0]
        <3>1. latch \in Latches
            BY RequestIs DEF Latches
        <3>2. adapter' \in {adapter, [adapter EXCEPT !.goal = None, !.latch = latch]}
            BY <2>1 DEF ServeCancel
        <3> HIDE DEF latch
        <3>3. QED
            BY <3>1, <3>2 DEF Typed, Adapters
    <2>2. CASE ServeArm(q)
        <3> DEFINE armed == [Latch EXCEPT !.armed = TRUE, !.excluded = q.plan,
                                          !.holds = 0]
        <3>1. Frozen(q) => armed \in Latches
            BY LatchIs, RequestIs DEF Frozen, Latches
        <3>2. \/ adapter' = adapter
              \/ adapter' = [adapter EXCEPT !.latch = armed] /\ Frozen(q)
              \/ adapter' = [adapter EXCEPT !.latch = None]
            BY <2>2 DEF ServeArm
        <3> HIDE DEF armed
        <3>3. QED
            BY <3>1, <3>2 DEF Typed, Adapters
    <2>3. QED
        BY <2>1, <2>2 DEF CancelUnconfirmed, ServeReplan, ServeClear, Typed
<1>6. motion' \in BOOLEAN /\ faults' \in 0..MaxFaults
    <2>1. motion \in BOOLEAN /\ faults \in 0..MaxFaults
        BY DEF Typed
    <2>2. ServeCancel(q) => motion' \in BOOLEAN /\ faults' \in 0..MaxFaults
        BY <2>1 DEF ServeCancel
    <2>3. CancelUnconfirmed(q) => motion' \in BOOLEAN /\ faults' \in 0..MaxFaults
        <3>1. CancelUnconfirmed(q) => faults' \in 0..MaxFaults
            BY <2>1, ConstantsAre DEF CancelUnconfirmed, Fault
        <3>2. CancelUnconfirmed(q) => motion' \in BOOLEAN
            BY DEF CancelUnconfirmed
        <3>3. QED
            BY <3>1, <3>2
    <2>4. ServeReplan(q) \/ ServeClear(q) =>
            motion' \in BOOLEAN /\ faults' \in 0..MaxFaults
        BY <2>1 DEF ServeReplan, ServeClear
    <2>5. ServeArm(q) => motion' \in BOOLEAN /\ faults' \in 0..MaxFaults
        BY <2>1 DEF ServeArm
    <2>6. QED
        BY <2>2, <2>3, <2>4, <2>5
<1>7. UNCHANGED <<client, calls, topic, supervisor, expired, stopping, alarms, spins,
                  launches>>
    BY DEF ServeCancel, CancelUnconfirmed, ServeReplan, ServeClear, ServeArm
<1>8. CommandsBounded' /\ StepShape'
    BY <1>5, <1>7 DEF Typed, CommandsBounded, StepShape
<1>9. QED
    BY <1>2, <1>3, <1>4, <1>5, <1>6, <1>7, <1>8 DEF Typed

LEMMA TypedDeadline ==
    ASSUME Typed, DeadlinePasses
    PROVE  Typed'
<1>1. Deadlines \subseteq Recoveries
    <2>1. \A g \in Generations :
            threads[g].pc \in {"replan", "clear", "spinning", "arm"} =>
                threads[g].id \in Recoveries
        BY DEF Typed, NamesSet
    <2>2. pending # None => pending.id \in Recoveries
        BY DEF Typed, Transactions
    <2>3. Latch # None => Latch.id \in Recoveries
        BY LatchIs
    <2>4. QED
        BY <2>1, <2>2, <2>3 DEF Deadlines
<1>2. expired' \subseteq Recoveries
    BY <1>1 DEF DeadlinePasses, Typed
<1>3. QED
    BY <1>2 DEF DeadlinePasses, Typed, CommandsBounded, StepShape, NamesSet

-----------------------------------------------------------------------------
(* The supervisor and its threads.                                           *)

\* The threads of a generation and the supervisor: a thread exists only while
\* its generation is, or was, supervised; the one of the present generation is
\* the recovery under way, and carries its name from its first operation on.
ThreadsOwned ==
    /\ supervisor.active =>
          /\ supervisor.gen >= 0 /\ Index >= 1
          /\ threads[supervisor.gen].pc # "idle"
    /\ \A g \in Generations :
          /\ threads[g].pc = "idle" => threads[g] = NoThread
          /\ threads[g].pc = "start" =>
                threads[g].id = None /\ threads[g].answer = "none"
          /\ threads[g].pc \notin {"idle", "start"} => Gen(threads[g].id) = g
          /\ supervisor.gen < g => threads[g].pc = "idle"
          /\ supervisor.gen = g /\ threads[g].pc # "idle" => supervisor.active
          /\ supervisor.gen = g /\ threads[g].pc \notin {"idle", "start"} =>
                threads[g].id = <<g, Index>>
          /\ threads[g].pc = "spinning" => threads[g].answer = "none"

\* A spin that a thread of generation g may still start.
SpinToCome(g) ==
    IF threads[g].full /\ threads[g].pc \in {"start", "cancel", "replan", "clear"}
    THEN 1 ELSE 0

\* The spins of a generation are paid for by its recoveries, the one a thread
\* has still to start included.
Spun ==
    \A g \in Generations :
        /\ spins[g] <= MaxRecoveries
        /\ supervisor.gen < g => spins[g] = 0
        /\ supervisor.gen = g => spins[g] + SpinToCome(g) <= supervisor.recoveries

Supervised == ThreadsOwned /\ Spun

LEMMA NextOperationIs ==
    ASSUME NEW t \in Threads
    PROVE  /\ t.answer # "ok" => NextOperation(t) = t.pc
           /\ t.answer = "ok" =>
                /\ t.pc = "cancel" => NextOperation(t) = "replan"
                /\ t.pc = "replan" => NextOperation(t) = "clear"
                /\ t.pc = "clear" => NextOperation(t) = IF t.full THEN "spin" ELSE "arm"
                /\ t.pc \notin {"cancel", "replan", "clear"} => NextOperation(t) = "end"
<1>1. CASE t.answer # "ok"
    BY <1>1 DEF NextOperation
<1>2. CASE t.answer = "ok" /\ t.pc = "cancel"
    BY <1>2 DEF NextOperation
<1>3. CASE t.answer = "ok" /\ t.pc = "replan"
    BY <1>3 DEF NextOperation
<1>4. CASE t.answer = "ok" /\ t.pc = "clear"
    <2>1. t.full \in BOOLEAN
        BY DEF Threads
    <2>2. CASE t.full
        BY <1>4, <2>2 DEF NextOperation
    <2>3. CASE ~t.full
        BY <1>4, <2>3 DEF NextOperation
    <2>4. QED
        BY <1>4, <2>1, <2>2, <2>3
<1>5. CASE t.answer = "ok" /\ t.pc \notin {"cancel", "replan", "clear"}
    BY <1>5 DEF NextOperation
<1>6. QED
    BY <1>1, <1>2, <1>3, <1>4, <1>5

\* A thread of an identity that is supervised now is the recovery under way.
LEMMA OwnerIs ==
    ASSUME Typed, ThreadsOwned, NEW g \in Generations, Owner(g)
    PROVE  /\ supervisor.active /\ supervisor.gen = g /\ Index >= 1
           /\ <<g, Index>> \in Recoveries /\ Gen(<<g, Index>>) = g
           /\ threads[g].pc # "idle"
<1>1. supervisor.active /\ supervisor.gen = g /\ Index >= 1 /\ threads[g].pc # "idle"
    BY DEF Owner, ThreadsOwned
<1>2. Index \in Nat /\ Index <= MaxRecoveries + MaxRefreshes
    BY DEF Index, Typed, Supervisors
<1>3. QED
    BY <1>1, <1>2, RecoveriesAre

\* One thread is replaced by another.
LEMMA ThreadIs ==
    ASSUME Typed, NEW g \in Generations, NEW t \in Threads,
           threads' = [threads EXCEPT ![g] = t],
           t.pc \notin {"idle", "start"} => t.id \in Recoveries,
           t.pc \in {"replan", "clear", "spinning", "arm"} => t.plan \in Plans,
           \A q \in requests' : q.op \in {"replan", "arm"} => q.plan \in Plans
    PROVE  /\ threads' \in [Generations -> Threads]
           /\ threads'[g] = t
           /\ \A h \in Generations : h # g => threads'[h] = threads[h]
           /\ NamesSet'
<1>1. threads \in [Generations -> Threads]
    BY DEF Typed
<1>2. /\ threads' \in [Generations -> Threads]
      /\ threads'[g] = t
      /\ \A h \in Generations : h # g => threads'[h] = threads[h]
    BY <1>1
<1>3. NamesSet'
    <2>1. \A h \in Generations :
            /\ threads'[h].pc \notin {"idle", "start"} => threads'[h].id \in Recoveries
            /\ threads'[h].pc \in {"replan", "clear", "spinning", "arm"} =>
                  threads'[h].plan \in Plans
        <3> SUFFICES ASSUME NEW h \in Generations
                     PROVE  /\ threads'[h].pc \notin {"idle", "start"} =>
                                   threads'[h].id \in Recoveries
                            /\ threads'[h].pc \in {"replan", "clear", "spinning", "arm"} =>
                                   threads'[h].plan \in Plans
            OBVIOUS
        <3>1. CASE h = g
            BY <1>2, <3>1
        <3>2. CASE h # g
            BY <1>2, <3>2 DEF Typed, NamesSet
        <3>3. QED
            BY <3>1, <3>2
    <2>2. QED
        BY <2>1 DEF NamesSet
<1>4. QED
    BY <1>2, <1>3

\* A supervisor that another thread, or none, works for.
LEMMA ThreadTyped ==
    ASSUME Typed, threads' \in [Generations -> Threads], NamesSet',
           supervisor' \in Supervisors, requests' \subseteq Requests,
           spins' \in [Generations -> Nat], launches' \in Nat,
           faults' \in 0..MaxFaults, motion' \in BOOLEAN, stopping' \in BOOLEAN,
           topic' \in Seq(Messages),
           UNCHANGED <<client, pending, calls, served, expired, adapter, alarms>>
    PROVE  Typed'
BY DEF Typed, CommandsBounded, StepShape

\* The supervisor and its threads as every other node leaves them.
LEMMA SupervisedStays ==
    ASSUME Typed, Supervised, Typed', UNCHANGED <<supervisor, spins>>,
           \/ UNCHANGED threads
           \/ \E q \in requests, ok \in BOOLEAN : Reply(q, ok)
    PROVE  Supervised'
<1>1. CASE UNCHANGED threads
    BY <1>1 DEF Supervised, ThreadsOwned, Spun, SpinToCome, Index
<1>2. CASE \E q \in requests, ok \in BOOLEAN : Reply(q, ok)
    <2>1. PICK q \in requests, ok \in BOOLEAN : Reply(q, ok)
        BY <1>2
    <2>2. \A g \in Generations :
             /\ threads'[g].pc = threads[g].pc /\ threads'[g].id = threads[g].id
             /\ threads'[g].full = threads[g].full
             /\ threads'[g].answer # threads[g].answer =>
                   threads[g].answer = "wait" /\ threads[g].pc \in Operations
             /\ threads[g].pc \notin Operations => threads'[g] = threads[g]
        <3>1. q.op \in Operations
            BY DEF Typed, Requests
        <3>2. Attempt(q) => /\ threads[Gen(q.id)].pc = q.op
                            /\ threads[Gen(q.id)].answer = "wait"
            BY DEF Attempt
        <3>3. QED
            BY <2>1, <3>1, <3>2, ReplyIs
    <2>3. ThreadsOwned'
        <3>1. supervisor'.active =>
                /\ supervisor'.gen >= 0 /\ Index' >= 1
                /\ threads'[supervisor'.gen].pc # "idle"
            BY <2>2, Parts DEF Supervised, ThreadsOwned, Index
        <3> SUFFICES ASSUME NEW g \in Generations
                     PROVE  /\ threads'[g].pc = "idle" => threads'[g] = NoThread
                            /\ threads'[g].pc = "start" =>
                                   threads'[g].id = None /\ threads'[g].answer = "none"
                            /\ threads'[g].pc \notin {"idle", "start"} =>
                                   Gen(threads'[g].id) = g
                            /\ supervisor'.gen < g => threads'[g].pc = "idle"
                            /\ supervisor'.gen = g /\ threads'[g].pc # "idle" =>
                                   supervisor'.active
                            /\ supervisor'.gen = g
                                  /\ threads'[g].pc \notin {"idle", "start"} =>
                                   threads'[g].id = <<g, Index'>>
                            /\ threads'[g].pc = "spinning" => threads'[g].answer = "none"
            BY <3>1 DEF ThreadsOwned
        <3>2. \/ threads'[g] = threads[g]
              \/ threads[g].pc \in Operations
            BY <2>2
        <3>3. threads'[g].pc = threads[g].pc /\ threads'[g].id = threads[g].id
            BY <2>2
        <3>4. QED
            BY <3>2, <3>3 DEF Supervised, ThreadsOwned, Index, Operations
    <2>4. Spun'
        BY <2>2 DEF Supervised, Spun, SpinToCome
    <2>5. QED
        BY <2>3, <2>4 DEF Supervised
<1>3. QED
    BY <1>1, <1>2

\* A thread at work goes on, its supervisor as it was.
LEMMA ThreadGoesOn ==
    ASSUME Typed, Supervised, NEW g \in Generations, NEW t \in Threads,
           threads' = [threads EXCEPT ![g] = t], supervisor' = supervisor,
           threads[g].pc # "idle", t.pc \notin {"idle", "start"}, Gen(t.id) = g,
           supervisor.gen = g => t.id = <<g, Index>>,
           t.pc = "spinning" => t.answer = "none",
           t.full = threads[g].full,
           \/ spins' = spins /\ (t.pc \in {"cancel", "replan", "clear"} =>
                                   threads[g].pc \in {"start", "cancel", "replan", "clear"})
           \/ /\ spins' = [spins EXCEPT ![g] = @ + 1] /\ supervisor.gen = g
              /\ t.full /\ threads[g].pc = "clear" /\ t.pc = "spinning"
    PROVE  Supervised'
<1>1. /\ threads'[g] = t
      /\ \A h \in Generations : h # g => threads'[h] = threads[h]
      /\ Index' = Index
    BY DEF Typed, Index
<1>2. ThreadsOwned'
    <2>1. ThreadsOwned
        BY DEF Supervised
    <2>2. supervisor'.active =>
            /\ supervisor'.gen >= 0 /\ Index' >= 1
            /\ threads'[supervisor'.gen].pc # "idle"
        <3>1. supervisor.gen \in Int /\ (supervisor.gen >= 0 => supervisor.gen \in Generations)
            BY Parts
        <3>2. supervisor.gen = g \/ supervisor.gen # g
            OBVIOUS
        <3>3. QED
            BY <1>1, <2>1, <3>1, <3>2 DEF ThreadsOwned
    <2> SUFFICES ASSUME NEW h \in Generations
                 PROVE  /\ threads'[h].pc = "idle" => threads'[h] = NoThread
                        /\ threads'[h].pc = "start" =>
                               threads'[h].id = None /\ threads'[h].answer = "none"
                        /\ threads'[h].pc \notin {"idle", "start"} =>
                               Gen(threads'[h].id) = h
                        /\ supervisor'.gen < h => threads'[h].pc = "idle"
                        /\ supervisor'.gen = h /\ threads'[h].pc # "idle" =>
                               supervisor'.active
                        /\ supervisor'.gen = h
                              /\ threads'[h].pc \notin {"idle", "start"} =>
                               threads'[h].id = <<h, Index'>>
                        /\ threads'[h].pc = "spinning" => threads'[h].answer = "none"
        BY <2>2 DEF ThreadsOwned
    <2>3. CASE h # g
        BY <1>1, <2>1, <2>3 DEF ThreadsOwned
    <2>4. CASE h = g
        BY <1>1, <2>1, <2>4 DEF ThreadsOwned
    <2>5. QED
        BY <2>3, <2>4
<1>3. Spun'
    <2>1. Spun /\ ThreadsOwned /\ spins \in [Generations -> Nat]
          /\ supervisor \in Supervisors
        BY DEF Supervised, Typed
    <2>2. \A h \in Generations : SpinToCome(h) \in {0, 1}
        BY DEF SpinToCome
    <2>3. \A h \in Generations : h # g => SpinToCome(h)' = SpinToCome(h) /\ spins'[h] = spins[h]
        BY <1>1, <2>1 DEF SpinToCome
    <2>4. CASE spins' = spins /\ (t.pc \in {"cancel", "replan", "clear"} =>
                                   threads[g].pc \in {"start", "cancel", "replan", "clear"})
        <3>1. SpinToCome(g)' <= SpinToCome(g)
            BY <1>1, <2>4 DEF SpinToCome
        <3>2. SpinToCome(g)' \in {0, 1}
            BY DEF SpinToCome
        <3>3. \A h \in Generations : SpinToCome(h)' <= SpinToCome(h)
            BY <2>2, <2>3, <3>1
        <3>4. \A h \in Generations : SpinToCome(h)' \in {0, 1}
            BY DEF SpinToCome
        <3>5. supervisor.recoveries \in Nat /\ supervisor.gen \in Int
            BY <2>1 DEF Supervisors
        <3>6. SUFFICES ASSUME NEW h \in Generations
                       PROVE  /\ spins'[h] <= MaxRecoveries
                              /\ supervisor'.gen < h => spins'[h] = 0
                              /\ supervisor'.gen = h =>
                                    spins'[h] + SpinToCome(h)' <= supervisor'.recoveries
            BY DEF Spun
        <3>7. spins'[h] = spins[h] /\ spins[h] \in Nat /\ supervisor' = supervisor
            BY <2>1, <2>4
        <3>8. /\ spins[h] <= MaxRecoveries
              /\ supervisor.gen < h => spins[h] = 0
              /\ supervisor.gen = h => spins[h] + SpinToCome(h) <= supervisor.recoveries
            BY <2>1 DEF Spun
        <3>9. QED
            BY <2>2, <3>3, <3>4, <3>5, <3>7, <3>8
    <2>5. CASE /\ spins' = [spins EXCEPT ![g] = @ + 1] /\ supervisor.gen = g
               /\ t.full /\ threads[g].pc = "clear" /\ t.pc = "spinning"
        <3>1. SpinToCome(g)' = 0 /\ SpinToCome(g) = 1 /\ spins'[g] = spins[g] + 1
            BY <1>1, <2>1, <2>5 DEF SpinToCome
        <3>2. spins[g] + 1 <= supervisor.recoveries /\ supervisor.recoveries <= MaxRecoveries
              /\ spins[g] \in Nat
            BY <2>1, <2>5, <3>1 DEF Spun, Supervisors
        <3>3. /\ spins'[g] <= MaxRecoveries /\ ~(supervisor'.gen < g)
              /\ spins'[g] + SpinToCome(g)' <= supervisor'.recoveries
            BY <2>1, <2>5, <3>1, <3>2, ConstantsAre DEF Supervisors
        <3>4. \A h \in Generations : h # g =>
                 /\ spins'[h] <= MaxRecoveries
                 /\ supervisor'.gen < h => spins'[h] = 0
                 /\ supervisor'.gen = h => spins'[h] + SpinToCome(h)' <= supervisor'.recoveries
            BY <2>1, <2>3, <2>5 DEF Spun
        <3>5. QED
            BY <3>3, <3>4 DEF Spun
    <2>6. QED
        BY <2>4, <2>5
<1>4. QED
    BY <1>2, <1>3 DEF Supervised

LEMMA BeginGoesOn ==
    ASSUME Typed, Supervised, NEW g \in Generations, Begin(g)
    PROVE  Typed' /\ Supervised'
<1> DEFINE t == [threads[g] EXCEPT !.pc = "cancel", !.id = <<g, Index>>,
                                   !.seq = supervisor.seq,
                                   !.plan = supervisor.plan]
<1>1. Owner(g) /\ threads[g].pc = "start" /\ threads[g] \in Threads
    BY DEF Begin, Typed
<1>2. <<g, Index>> \in Recoveries /\ Gen(<<g, Index>>) = g
    BY <1>1, OwnerIs DEF Supervised
<1>3. supervisor.seq \in SeqNumbers /\ supervisor.plan \in Plans \cup {None}
    BY DEF Typed, Supervisors
<1>4. /\ t \in Threads
      /\ t.pc = "cancel" /\ t.id = <<g, Index>> /\ t.full = threads[g].full
    BY <1>1, <1>2, <1>3 DEF Threads, Counters, Operations
<1>5. threads' = [threads EXCEPT ![g] = t]
    BY DEF Begin, Typed
<1> HIDE DEF t
<1>6. /\ threads' \in [Generations -> Threads] /\ NamesSet'
    <2>1. \A q \in requests' : q.op \in {"replan", "arm"} => q.plan \in Plans
        BY DEF Begin, Typed, NamesSet
    <2>2. QED
        BY <1>2, <1>4, <1>5, <2>1, ThreadIs
<1>7. Typed'
    <2>1. /\ supervisor' \in Supervisors /\ requests' \subseteq Requests
          /\ spins' \in [Generations -> Nat] /\ launches' \in Nat
          /\ faults' \in 0..MaxFaults /\ motion' \in BOOLEAN /\ stopping' \in BOOLEAN
          /\ topic' \in Seq(Messages)
        BY DEF Begin, Typed
    <2>2. UNCHANGED <<client, pending, calls, served, expired, adapter, alarms>>
        BY DEF Begin
    <2>3. QED
        BY <1>6, <2>1, <2>2, ThreadTyped
<1>8. Supervised'
    <2>1. supervisor' = supervisor /\ spins' = spins
        BY DEF Begin
    <2>2. QED
        BY <1>1, <1>2, <1>4, <1>5, <2>1, ThreadGoesOn
<1>9. QED
    BY <1>7, <1>8

\* What a thread that calls an operation is at, and what it asks for.
LEMMA SendIs ==
    ASSUME Typed, ThreadsOwned, NEW g \in Generations, Send(g)
    PROVE  LET t == threads[g]
               op == NextOperation(t)
               try == IF t.answer = "ok" THEN 1 ELSE t.tries + 1
               q == [id |-> t.id, seq |-> t.seq, plan |-> t.plan, op |-> op,
                     try |-> try]
               s == [t EXCEPT !.pc = op, !.tries = try, !.answer = "wait"]
           IN  /\ t \in Threads /\ t.pc \in Operations /\ op \in Operations
               /\ t.id = <<g, Index>> /\ t.id \in Recoveries /\ Gen(t.id) = g
               /\ op = "replan" => t.plan # None
               /\ op \in {"replan", "clear", "arm"} => t.plan \in Plans
               /\ t.answer = "ok" => t.pc # "arm"
               /\ requests' = requests \cup {q} /\ q \in Requests
               /\ threads' = [threads EXCEPT ![g] = s] /\ s \in Threads
               /\ s.pc = op /\ s.id = t.id /\ s.seq = t.seq /\ s.plan = t.plan
               /\ s.full = t.full /\ s.tries = try /\ s.answer = "wait"
               /\ try \in 1..2
<1> DEFINE t == threads[g]
           op == NextOperation(t)
           try == IF t.answer = "ok" THEN 1 ELSE t.tries + 1
           q == [id |-> t.id, seq |-> t.seq, plan |-> t.plan, op |-> op,
                 try |-> try]
           s == [t EXCEPT !.pc = op, !.tries = try, !.answer = "wait"]
<1>1. /\ Owner(g) /\ op \in Operations /\ ~Unnamed(t)
      /\ t.answer # "wait" /\ try <= 2
      /\ requests' = requests \cup {q}
      /\ threads \in [Generations -> Threads]
      /\ threads' = [threads EXCEPT ![g] = s]
    BY DEF Send, Typed
<1>2. t \in Threads
    BY <1>1
<1>3. t.pc \in Operations /\ (t.answer = "ok" => t.pc # "arm")
    <2>1. "end" \notin Operations /\ "start" \notin Operations
          /\ "spinning" \notin Operations
        BY DEF Operations
    <2>2. t.pc = "start" => t.answer # "ok"
        BY DEF ThreadsOwned
    <2>3. QED
        BY <1>1, <1>2, <2>1, <2>2, NextOperationIs DEF Operations
<1>4. t.id = <<g, Index>> /\ t.id \in Recoveries /\ Gen(t.id) = g
    <2>1. t.pc \notin {"idle", "start"}
        BY <1>3 DEF Operations
    <2>2. QED
        BY <1>1, <2>1, OwnerIs DEF ThreadsOwned
<1>5. /\ op = "replan" => t.plan # None
      /\ op \in {"replan", "clear", "arm"} => t.plan \in Plans
    <2>1. op = "replan" => t.plan # None
        BY <1>1 DEF Unnamed
    <2>2. op \in {"clear", "arm"} => t.pc \in {"replan", "clear", "arm"}
        BY <1>2, <1>3, NextOperationIs DEF Operations
    <2>3. t.plan \in Plans \cup {None}
        BY <1>2 DEF Threads
    <2>4. t.pc \in {"replan", "clear", "arm"} => t.plan \in Plans
        BY DEF Typed, NamesSet
    <2>5. QED
        BY <2>1, <2>2, <2>3, <2>4
<1>6. try \in 1..2
    <2>1. t.tries \in 0..2
        BY <1>2 DEF Threads
    <2>2. QED
        BY <1>1, <2>1
<1>7. q \in Requests
    <2>1. t.seq \in SeqNumbers /\ t.plan \in Plans \cup {None}
        BY <1>2 DEF Threads
    <2>2. QED
        BY <1>1, <1>4, <1>6, <2>1 DEF Requests
<1>8. op \in Counters /\ try \in 0..2
    BY <1>1, <1>6 DEF Counters
<1> HIDE DEF op, try
<1>9. /\ s \in Threads
      /\ s.pc = op /\ s.id = t.id /\ s.seq = t.seq /\ s.plan = t.plan
      /\ s.full = t.full /\ s.tries = try /\ s.answer = "wait"
    BY <1>2, <1>8 DEF Threads
<1>10. QED
    BY <1>1, <1>2, <1>3, <1>4, <1>5, <1>6, <1>7, <1>9 DEF op, try

LEMMA SendGoesOn ==
    ASSUME Typed, Supervised, NEW g \in Generations, Send(g)
    PROVE  Typed' /\ Supervised'
<1> DEFINE t == threads[g]
           op == NextOperation(t)
           try == IF t.answer = "ok" THEN 1 ELSE t.tries + 1
           q == [id |-> t.id, seq |-> t.seq, plan |-> t.plan, op |-> op,
                 try |-> try]
           s == [t EXCEPT !.pc = op, !.tries = try, !.answer = "wait"]
<1>1. /\ t \in Threads /\ t.pc \in Operations /\ op \in Operations
      /\ t.id = <<g, Index>> /\ t.id \in Recoveries /\ Gen(t.id) = g
      /\ op \in {"replan", "clear", "arm"} => t.plan \in Plans
      /\ requests' = requests \cup {q} /\ q \in Requests
      /\ threads' = [threads EXCEPT ![g] = s] /\ s \in Threads
      /\ s.pc = op /\ s.id = t.id /\ s.plan = t.plan /\ s.full = t.full
      /\ q.op = op /\ q.plan = t.plan
    BY SendIs DEF Supervised
<1>2. op \in {"cancel", "replan", "clear"} => t.pc \in {"cancel", "replan", "clear"}
    BY <1>1, NextOperationIs DEF Operations
<1>3. UNCHANGED <<client, pending, calls, served, expired, adapter, alarms>>
      /\ UNCHANGED <<supervisor, spins, launches, faults, stopping, topic>>
      /\ motion' \in BOOLEAN
    BY DEF Send
<1> HIDE DEF q, s, op, t
<1>4. \A p \in requests' : p.op \in {"replan", "arm"} => p.plan \in Plans
    BY <1>1 DEF Typed, NamesSet
<1>5. threads' \in [Generations -> Threads] /\ NamesSet'
    <2>1. s.pc \in {"replan", "clear", "spinning", "arm"} => s.plan \in Plans
        BY <1>1 DEF Operations
    <2>2. QED
        BY <1>1, <1>4, <2>1, ThreadIs
<1>6. Typed'
    <2>1. requests' \subseteq Requests
        BY <1>1 DEF Typed
    <2>2. QED
        BY <1>3, <1>5, <2>1, ThreadTyped DEF Typed
<1>7. Supervised'
    <2>1. threads[g].pc # "idle" /\ threads[g].pc \in Operations
          /\ s.pc \notin {"idle", "start", "spinning"}
        BY <1>1 DEF Operations, t
    <2>2. s.full = threads[g].full
          /\ (s.pc \in {"cancel", "replan", "clear"} =>
                threads[g].pc \in {"start", "cancel", "replan", "clear"})
        BY <1>1, <1>2 DEF t
    <2>3. QED
        BY <1>1, <1>3, <2>1, <2>2, ThreadGoesOn
<1>8. QED
    BY <1>6, <1>7

LEMMA TimeoutGoesOn ==
    ASSUME Typed, Supervised, NEW g \in Generations, CallTimeout(g)
    PROVE  Typed' /\ Supervised'
<1> DEFINE s == [threads[g] EXCEPT !.answer = "failed"]
<1>1. threads[g] \in Threads /\ threads[g].answer = "wait"
      /\ threads' = [threads EXCEPT ![g] = s]
    BY DEF CallTimeout, Typed
<1>2. /\ s \in Threads /\ s.pc = threads[g].pc /\ s.id = threads[g].id
      /\ s.plan = threads[g].plan /\ s.full = threads[g].full
    BY <1>1 DEF Threads
<1>3. threads[g].pc \notin {"idle", "start", "spinning"}
    BY <1>1, NoThreadIs DEF Supervised, ThreadsOwned
<1>4. UNCHANGED <<client, pending, calls, served, expired, adapter, alarms>>
      /\ UNCHANGED <<supervisor, spins, launches, requests, motion, stopping, topic>>
      /\ faults' \in 0..MaxFaults
    <2>1. faults' \in 0..MaxFaults
        BY ConstantsAre DEF CallTimeout, Fault, Typed
    <2>2. QED
        BY <2>1 DEF CallTimeout
<1> HIDE DEF s
<1>5. threads' \in [Generations -> Threads] /\ NamesSet'
    <2>1. /\ \A q \in requests' : q.op \in {"replan", "arm"} => q.plan \in Plans
          /\ s.pc \notin {"idle", "start"} => s.id \in Recoveries
          /\ s.pc \in {"replan", "clear", "spinning", "arm"} => s.plan \in Plans
        BY <1>2, <1>4 DEF Typed, NamesSet
    <2>2. QED
        BY <1>1, <1>2, <2>1, ThreadIs
<1>6. Typed'
    BY <1>4, <1>5, ThreadTyped DEF Typed
<1>7. Supervised'
    <2>1. Gen(s.id) = g /\ (supervisor.gen = g => s.id = <<g, Index>>)
        BY <1>2, <1>3 DEF Supervised, ThreadsOwned
    <2>2. QED
        BY <1>1, <1>2, <1>3, <1>4, <2>1, ThreadGoesOn
<1>8. QED
    BY <1>6, <1>7

LEMMA SpinGoesOn ==
    ASSUME Typed, Supervised, NEW g \in Generations, SpinStart(g) \/ SpinEnd(g)
    PROVE  Typed' /\ Supervised'
<1>1. /\ threads[g] \in Threads /\ Owner(g)
      /\ UNCHANGED <<client, pending, calls, served, expired, adapter, alarms>>
      /\ UNCHANGED <<supervisor, launches, requests, faults, stopping, topic>>
    BY DEF SpinStart, SpinEnd, Typed
<1>2. \A q \in requests' : q.op \in {"replan", "arm"} => q.plan \in Plans
    BY <1>1 DEF Typed, NamesSet
<1>3. CASE SpinStart(g)
    <2> DEFINE s == [threads[g] EXCEPT !.pc = "spinning", !.answer = "none",
                                       !.tries = 0]
    <2>1. threads' = [threads EXCEPT ![g] = s]
        BY <1>3 DEF SpinStart, Typed
    <2>2. /\ s \in Threads /\ s.pc = "spinning" /\ s.answer = "none"
          /\ s.id = threads[g].id /\ s.plan = threads[g].plan
          /\ s.full = threads[g].full
        <3>1. "spinning" \in Counters /\ 0 \in 0..2
            BY DEF Counters
        <3>2. QED
            BY <1>1, <3>1 DEF Threads
    <2> HIDE DEF s
    <2>3. threads[g].pc = "clear" /\ threads[g].full
        <3>1. NextOperation(threads[g]) = "spin"
            BY <1>3 DEF SpinStart
        <3>2. threads[g].pc # "spin"
            BY <1>1 DEF Threads, Counters, Operations
        <3>3. threads[g].full \in BOOLEAN
            BY <1>1 DEF Threads
        <3>4. QED
            BY <1>1, <3>1, <3>2, <3>3, NextOperationIs
    <2>4. threads[g].id \in Recoveries /\ threads[g].plan \in Plans
        BY <2>3 DEF Typed, NamesSet
    <2>5. threads' \in [Generations -> Threads] /\ NamesSet'
        BY <1>2, <2>1, <2>2, <2>4, ThreadIs
    <2>6. spins' = [spins EXCEPT ![g] = @ + 1] /\ motion' \in BOOLEAN
        BY <1>3 DEF SpinStart
    <2>7. Typed'
        <3>1. spins' \in [Generations -> Nat]
            BY <2>6 DEF Typed
        <3>2. QED
            BY <1>1, <2>5, <2>6, <3>1, ThreadTyped DEF Typed
    <2>8. Supervised'
        <3>1. threads[g].id = <<g, Index>> /\ Gen(threads[g].id) = g
              /\ supervisor.gen = g
            BY <1>1, <2>3, OwnerIs DEF Supervised, ThreadsOwned
        <3>2. QED
            BY <1>1, <2>1, <2>2, <2>3, <2>6, <3>1, ThreadGoesOn
    <2>9. QED
        BY <2>7, <2>8
<1>4. CASE SpinEnd(g)
    <2> DEFINE s == [threads[g] EXCEPT !.pc = "arm"]
    <2>1. threads' = [threads EXCEPT ![g] = s] /\ threads[g].pc = "spinning"
        BY <1>4 DEF SpinEnd, Typed
    <2>2. /\ s \in Threads /\ s.pc = "arm"
          /\ s.id = threads[g].id /\ s.plan = threads[g].plan
          /\ s.full = threads[g].full
        BY <1>1 DEF Threads, Counters, Operations
    <2> HIDE DEF s
    <2>3. threads[g].id \in Recoveries /\ threads[g].plan \in Plans
        BY <2>1 DEF Typed, NamesSet
    <2>4. threads' \in [Generations -> Threads] /\ NamesSet'
        BY <1>2, <2>1, <2>2, <2>3, ThreadIs
    <2>5. spins' = spins /\ motion' \in BOOLEAN
        BY <1>4 DEF SpinEnd
    <2>6. Typed'
        BY <1>1, <2>4, <2>5, ThreadTyped DEF Typed
    <2>7. Supervised'
        <3>1. threads[g].id = <<g, Index>> /\ Gen(threads[g].id) = g
            BY <1>1, <2>1, OwnerIs DEF Supervised, ThreadsOwned
        <3>2. QED
            BY <1>1, <2>1, <2>2, <2>5, <3>1, ThreadGoesOn
    <2>8. QED
        BY <2>6, <2>7
<1>5. QED
    BY <1>3, <1>4

\* A thread that ends, and what it leaves of the supervisor it works for.
LEMMA ThreadEnds ==
    ASSUME Typed, Supervised, NEW g \in Generations,
           threads' = [threads EXCEPT ![g] = NoThread], UNCHANGED spins,
           \/ supervisor.gen # g /\ supervisor' = supervisor
           \/ /\ supervisor.gen = g
              /\ supervisor' = [supervisor EXCEPT !.active = FALSE, !.path = FALSE]
    PROVE  Supervised' /\ supervisor' \in Supervisors
<1>1. /\ threads'[g] = NoThread
      /\ \A h \in Generations : h # g => threads'[h] = threads[h]
    BY DEF Typed
<1>2. /\ supervisor' \in Supervisors /\ supervisor'.gen = supervisor.gen
      /\ supervisor'.recoveries = supervisor.recoveries
      /\ supervisor'.refreshes = supervisor.refreshes
      /\ supervisor'.active => supervisor.gen # g /\ supervisor.active
      /\ supervisor.gen # g => supervisor'.active = supervisor.active
    BY DEF Typed, Supervisors
<1>3. Index' = Index
    BY <1>2 DEF Index
<1>4. ThreadsOwned'
    <2>1. supervisor'.active =>
            /\ supervisor'.gen >= 0 /\ Index' >= 1
            /\ threads'[supervisor'.gen].pc # "idle"
        BY <1>1, <1>2, <1>3, Parts DEF Supervised, ThreadsOwned
    <2> SUFFICES ASSUME NEW h \in Generations
                 PROVE  /\ threads'[h].pc = "idle" => threads'[h] = NoThread
                        /\ threads'[h].pc = "start" =>
                               threads'[h].id = None /\ threads'[h].answer = "none"
                        /\ threads'[h].pc \notin {"idle", "start"} =>
                               Gen(threads'[h].id) = h
                        /\ supervisor'.gen < h => threads'[h].pc = "idle"
                        /\ supervisor'.gen = h /\ threads'[h].pc # "idle" =>
                               supervisor'.active
                        /\ supervisor'.gen = h
                              /\ threads'[h].pc \notin {"idle", "start"} =>
                               threads'[h].id = <<h, Index'>>
                        /\ threads'[h].pc = "spinning" => threads'[h].answer = "none"
        BY <2>1 DEF ThreadsOwned
    <2>2. CASE h = g
        BY <1>1, <2>2, NoThreadIs
    <2>3. CASE h # g
        BY <1>1, <1>2, <1>3, <2>3 DEF Supervised, ThreadsOwned
    <2>4. QED
        BY <2>2, <2>3
<1>5. Spun'
    <2>1. \A h \in Generations : SpinToCome(h)' \in {0, SpinToCome(h)}
        <3> SUFFICES ASSUME NEW h \in Generations
                     PROVE  SpinToCome(h)' \in {0, SpinToCome(h)}
            OBVIOUS
        <3>1. CASE h = g
            BY <1>1, <3>1, NoThreadIs DEF SpinToCome
        <3>2. CASE h # g
            BY <1>1, <3>2 DEF SpinToCome
        <3>3. QED
            BY <3>1, <3>2
    <2>2. \A h \in Generations : SpinToCome(h) \in {0, 1} /\ spins[h] \in Nat
        BY DEF SpinToCome, Typed
    <2>3. supervisor.recoveries \in Nat
        BY Parts
    <2>4. QED
        BY <1>2, <2>1, <2>2, <2>3 DEF Supervised, Spun
<1>6. QED
    BY <1>2, <1>4, <1>5 DEF Supervised

LEMMA EndGoesOn ==
    ASSUME Typed, Supervised, NEW g \in Generations,
           Complete(g) \/ Fail(g) \/ LoseOwnership(g)
    PROVE  Typed' /\ Supervised'
<1>1. /\ threads' = [threads EXCEPT ![g] = NoThread] /\ UNCHANGED spins
      /\ \/ supervisor.gen # g /\ supervisor' = supervisor
         \/ /\ supervisor.gen = g
            /\ supervisor' = [supervisor EXCEPT !.active = FALSE, !.path = FALSE]
    BY DEF Complete, Fail, LoseOwnership, End, Owner
<1>2. Supervised' /\ supervisor' \in Supervisors
    BY <1>1, ThreadEnds
<1>3. UNCHANGED <<client, pending, calls, served, expired, adapter, alarms>>
      /\ UNCHANGED <<launches, requests, topic>>
    BY DEF Complete, Fail, LoseOwnership, End
<1>4. motion' \in BOOLEAN /\ stopping' \in BOOLEAN /\ faults' \in 0..MaxFaults
    <2>1. motion \in BOOLEAN /\ stopping \in BOOLEAN /\ faults \in 0..MaxFaults
        BY DEF Typed
    <2>2. CASE Complete(g)
        BY <2>1, <2>2 DEF Complete, End
    <2>3. CASE Fail(g)
        <3>1. faults' = faults \/ Fault
            BY <2>3 DEF Fail
        <3>2. faults' \in 0..MaxFaults
            BY <2>1, <3>1, ConstantsAre DEF Fault
        <3>3. QED
            BY <2>3, <3>2 DEF Fail, End
    <2>4. CASE LoseOwnership(g)
        BY <2>1, <2>4 DEF LoseOwnership
    <2>5. QED
        BY <2>2, <2>3, <2>4
<1>5. threads' \in [Generations -> Threads] /\ NamesSet'
    <2>1. \A q \in requests' : q.op \in {"replan", "arm"} => q.plan \in Plans
        BY <1>3 DEF Typed, NamesSet
    <2>2. QED
        BY <1>1, <2>1, NoThreadIs, ThreadIs
<1>6. Typed'
    <2>1. /\ requests' \subseteq Requests /\ spins' \in [Generations -> Nat]
          /\ launches' \in Nat /\ topic' \in Seq(Messages)
        BY <1>1, <1>3 DEF Typed
    <2>2. QED
        BY <1>2, <1>3, <1>4, <1>5, <2>1, ThreadTyped
<1>7. QED
    BY <1>2, <1>6

\* What receiving a message makes of the supervisor.
LEMMA AdoptedIs ==
    ASSUME Typed, Receive
    PROVE  /\ supervisor' \in Supervisors
           /\ topic # <<>> /\ Head(topic) \in Messages /\ topic' \in Seq(Messages)
           /\ \/ /\ supervisor'.gen = supervisor.gen
                 /\ supervisor'.active = supervisor.active
                 /\ supervisor'.path = supervisor.path
                 /\ supervisor'.recoveries = supervisor.recoveries
                 /\ supervisor'.refreshes = supervisor.refreshes
              \/ /\ supervisor'.gen \in Generations /\ supervisor'.gen > supervisor.gen
                 /\ supervisor'.gen = Head(topic).gen
                 /\ ~supervisor'.active /\ ~supervisor'.path
                 /\ supervisor'.recoveries = 0 /\ supervisor'.refreshes = 0
<1> DEFINE m == Head(topic)
           s == Adopted(m.gen)
<1>1. /\ topic # <<>> /\ topic \in Seq(Messages) /\ topic' = Tail(topic)
      /\ supervisor' = IF m.gen < supervisor.gen \/ m.seq < 0 THEN s
                       ELSE [s EXCEPT !.seq = m.seq,
                                      !.plan = IF m.plan = Stop THEN None ELSE m.plan]
    BY DEF Receive, Typed
<1>2. m \in Messages /\ topic' \in Seq(Messages)
    BY <1>1
<1>3. m.gen \in Generations /\ m.seq \in SeqNumbers /\ m.plan \in Commands \cup {None}
    BY <1>2 DEF Messages
<1> HIDE DEF m
<1>4. supervisor \in Supervisors
    BY DEF Typed
<1>5. /\ s \in Supervisors
      /\ \/ s = supervisor
         \/ /\ s.gen = m.gen /\ s.gen > supervisor.gen
            /\ ~s.active /\ ~s.path /\ s.recoveries = 0 /\ s.refreshes = 0
    <2>1. CASE m.gen > supervisor.gen
        <3>1. s = Supervising(m.gen)
            BY <2>1 DEF Adopted
        <3>2. m.gen \in -1..MaxGeneration
            BY <1>3 DEF Generations
        <3>3. Supervising(m.gen) \in Supervisors
            BY <3>2, ConstantsAre DEF Supervising, Supervisors, SeqNumbers
        <3>4. QED
            BY <2>1, <3>1, <3>3 DEF Supervising
    <2>2. CASE ~(m.gen > supervisor.gen)
        BY <1>4, <2>2 DEF Adopted
    <2>3. QED
        BY <2>1, <2>2
<1> HIDE DEF s
<1>6. (IF m.plan = Stop THEN None ELSE m.plan) \in Plans \cup {None}
    BY <1>3 DEF Commands
<1>7. /\ supervisor' \in Supervisors
      /\ supervisor'.gen = s.gen /\ supervisor'.active = s.active
      /\ supervisor'.path = s.path
      /\ supervisor'.recoveries = s.recoveries /\ supervisor'.refreshes = s.refreshes
    <2>1. CASE m.gen < supervisor.gen \/ m.seq < 0
        BY <1>1, <1>5, <2>1
    <2>2. CASE ~(m.gen < supervisor.gen \/ m.seq < 0)
        <3> DEFINE plan == IF m.plan = Stop THEN None ELSE m.plan
        <3>1. supervisor' = [s EXCEPT !.seq = m.seq, !.plan = plan]
            BY <1>1, <2>2
        <3>2. plan \in Plans \cup {None}
            BY <1>6
        <3> HIDE DEF plan
        <3>3. QED
            BY <1>3, <1>5, <3>1, <3>2 DEF Supervisors
    <2>3. QED
        BY <2>1, <2>2
<1>8. QED
    BY <1>1, <1>2, <1>3, <1>5, <1>7 DEF m

LEMMA ReceiveGoesOn ==
    ASSUME Typed, Supervised, Receive
    PROVE  Typed' /\ Supervised'
<1>1. UNCHANGED <<client, pending, calls, threads, requests, served, expired,
                  adapter, motion, stopping, alarms, spins, faults, launches>>
    BY DEF Receive
<1>2. Typed'
    <2>1. /\ threads' \in [Generations -> Threads] /\ NamesSet'
          /\ requests' \subseteq Requests /\ spins' \in [Generations -> Nat]
          /\ launches' \in Nat /\ faults' \in 0..MaxFaults /\ motion' \in BOOLEAN
          /\ stopping' \in BOOLEAN
        BY <1>1 DEF Typed, NamesSet
    <2>2. QED
        BY <1>1, <2>1, AdoptedIs, ThreadTyped
<1>3. CASE /\ supervisor'.gen = supervisor.gen
           /\ supervisor'.active = supervisor.active
           /\ supervisor'.recoveries = supervisor.recoveries
           /\ supervisor'.refreshes = supervisor.refreshes
    <2>1. Index' = Index
        BY <1>3 DEF Index
    <2>2. ThreadsOwned'
        BY <1>1, <1>3, <2>1 DEF Supervised, ThreadsOwned
    <2>3. Spun'
        BY <1>1, <1>3 DEF Supervised, Spun, SpinToCome
    <2>4. QED
        BY <1>2, <2>2, <2>3 DEF Supervised
<1>4. CASE /\ supervisor'.gen \in Generations /\ supervisor'.gen > supervisor.gen
           /\ ~supervisor'.active
           /\ supervisor'.recoveries = 0 /\ supervisor'.refreshes = 0
    <2>1. /\ supervisor'.gen \in Int /\ supervisor.gen \in Int
          /\ \A g \in Generations : g \in Int
        BY <1>4, Parts DEF Generations
    <2>2. ThreadsOwned'
        <3>1. \A g \in Generations : supervisor.gen < g => threads[g].pc = "idle"
            BY DEF Supervised, ThreadsOwned
        <3>2. QED
            BY <1>1, <1>4, <2>1, <3>1 DEF Supervised, ThreadsOwned
    <2>3. Spun'
        <3>1. \A g \in Generations :
                /\ supervisor.gen < g => threads[g].pc = "idle" /\ spins[g] = 0
                /\ spins[g] <= MaxRecoveries
            BY DEF Supervised, ThreadsOwned, Spun
        <3> SUFFICES ASSUME NEW g \in Generations
                     PROVE  /\ spins'[g] <= MaxRecoveries
                            /\ supervisor'.gen < g => spins'[g] = 0
                            /\ supervisor'.gen = g =>
                                  spins'[g] + SpinToCome(g)' <= supervisor'.recoveries
            BY DEF Spun
        <3>2. supervisor.gen < g => SpinToCome(g)' = 0
            BY <1>1, <3>1 DEF SpinToCome
        <3>3. QED
            BY <1>1, <1>4, <2>1, <3>1, <3>2
    <2>4. QED
        BY <1>2, <2>2, <2>3 DEF Supervised
<1>5. QED
    BY <1>3, <1>4, AdoptedIs

LEMMA PathGoesOn ==
    ASSUME Typed, Supervised, PathArrives
    PROVE  Typed' /\ Supervised'
<1>1. UNCHANGED <<client, pending, calls, topic, threads, requests, served,
                  expired, adapter, motion, stopping, alarms, spins, faults,
                  launches>>
    BY DEF PathArrives
<1>2. /\ supervisor' \in Supervisors
      /\ supervisor'.gen = supervisor.gen
      /\ supervisor'.active = supervisor.active
      /\ supervisor'.recoveries = supervisor.recoveries
      /\ supervisor'.refreshes = supervisor.refreshes
    <2> DEFINE plan == IF supervisor.plan = None THEN adapter.goal
                       ELSE supervisor.plan
    <2>1. supervisor' = [supervisor EXCEPT !.path = TRUE, !.plan = plan]
        BY DEF PathArrives
    <2>2. plan \in Plans \cup {None} /\ supervisor \in Supervisors
        BY LatchIs DEF Typed, Supervisors
    <2> HIDE DEF plan
    <2>3. QED
        BY <2>1, <2>2 DEF Supervisors
<1>3. Typed'
    BY <1>1, <1>2 DEF Typed, CommandsBounded, StepShape, NamesSet
<1>4. Index' = Index
    BY <1>2 DEF Index
<1>5. Supervised'
    BY <1>1, <1>2, <1>4 DEF Supervised, ThreadsOwned, Spun, SpinToCome
<1>6. QED
    BY <1>3, <1>5

\* A recovery begins: a thread of the supervised generation, counted.
LEMMA Launches ==
    ASSUME Typed, Supervised, Watching, NEW full \in BOOLEAN, Launch(full),
           supervisor' \in Supervisors,
           supervisor'.gen = supervisor.gen, supervisor'.active,
           supervisor'.recoveries = supervisor.recoveries + (IF full THEN 1 ELSE 0),
           supervisor'.refreshes = supervisor.refreshes + (IF full THEN 0 ELSE 1),
           UNCHANGED spins, UNCHANGED requests
    PROVE  /\ threads' \in [Generations -> Threads] /\ NamesSet'
           /\ launches' \in Nat
           /\ Supervised'
<1> DEFINE g == supervisor.gen
           t == [NoThread EXCEPT !.pc = "start", !.full = full]
<1>1. g \in Generations /\ ~supervisor.active
    BY Parts DEF Watching
<1>2. threads' = [threads EXCEPT ![g] = t]
    BY DEF Launch
<1>3. t \in Threads /\ t.pc = "start" /\ t.full = full /\ t.id = None
      /\ t.answer = "none"
    <2>1. "start" \in Counters
        BY DEF Counters
    <2>2. QED
        BY <2>1, NoThreadIs DEF Threads
<1> HIDE DEF t
<1>4. threads' \in [Generations -> Threads] /\ NamesSet'
    <2>1. \A q \in requests' : q.op \in {"replan", "arm"} => q.plan \in Plans
        BY DEF Typed, NamesSet
    <2>2. QED
        BY <1>1, <1>2, <1>3, <2>1, ThreadIs
<1>5. threads'[g] = t /\ \A h \in Generations : h # g => threads'[h] = threads[h]
    BY <1>1, <1>2 DEF Typed
<1>6. threads[g].pc = "idle" /\ threads[g] = NoThread
    BY <1>1 DEF Supervised, ThreadsOwned
<1>7. Index \in Nat /\ Index' = Index + 1
    <2>1. supervisor.recoveries \in Nat /\ supervisor.refreshes \in Nat
        BY Parts
    <2>2. CASE full
        <3>1. /\ supervisor'.recoveries = supervisor.recoveries + 1
              /\ supervisor'.refreshes = supervisor.refreshes
            BY <2>1, <2>2
        <3>2. QED
            BY <2>1, <3>1 DEF Index
    <2>3. CASE ~full
        <3>1. /\ supervisor'.recoveries = supervisor.recoveries
              /\ supervisor'.refreshes = supervisor.refreshes + 1
            BY <2>1, <2>3
        <3>2. Index' = supervisor.recoveries + (supervisor.refreshes + 1)
            BY <3>1 DEF Index
        <3>3. \A m, n \in Nat : m + (n + 1) = (m + n) + 1 /\ m + n \in Nat
            OBVIOUS
        <3>4. Index = supervisor.recoveries + supervisor.refreshes
            BY DEF Index
        <3>5. QED
            BY <2>1, <3>2, <3>3, <3>4
    <2>4. QED
        BY <2>2, <2>3
<1>8. ThreadsOwned'
    <2>1. supervisor'.active =>
            /\ supervisor'.gen >= 0 /\ Index' >= 1
            /\ threads'[supervisor'.gen].pc # "idle"
        BY <1>1, <1>3, <1>5, <1>7 DEF Watching
    <2> SUFFICES ASSUME NEW h \in Generations
                 PROVE  /\ threads'[h].pc = "idle" => threads'[h] = NoThread
                        /\ threads'[h].pc = "start" =>
                               threads'[h].id = None /\ threads'[h].answer = "none"
                        /\ threads'[h].pc \notin {"idle", "start"} =>
                               Gen(threads'[h].id) = h
                        /\ supervisor'.gen < h => threads'[h].pc = "idle"
                        /\ supervisor'.gen = h /\ threads'[h].pc # "idle" =>
                               supervisor'.active
                        /\ supervisor'.gen = h
                              /\ threads'[h].pc \notin {"idle", "start"} =>
                               threads'[h].id = <<h, Index'>>
                        /\ threads'[h].pc = "spinning" => threads'[h].answer = "none"
        BY <2>1 DEF ThreadsOwned
    <2>2. CASE h = g
        BY <1>1, <1>3, <1>5, <2>2, ConstantsAre
    <2>3. CASE h # g
        BY <1>5, <2>3 DEF Supervised, ThreadsOwned
    <2>4. QED
        BY <2>2, <2>3
<1>9. Spun'
    <2>1. \A h \in Generations : h # g => SpinToCome(h)' = SpinToCome(h)
        BY <1>5 DEF SpinToCome
    <2>2. SpinToCome(g) = 0 /\ SpinToCome(g)' = IF full THEN 1 ELSE 0
        BY <1>3, <1>5, <1>6, NoThreadIs DEF SpinToCome
    <2>3. /\ \A h \in Generations : spins[h] \in Nat
          /\ supervisor.recoveries \in Nat
        BY Parts DEF Typed
    <2>4. spins[g] <= supervisor.recoveries
        BY <1>1, <2>2, <2>3 DEF Supervised, Spun
    <2>5. spins[g] + SpinToCome(g)' <= supervisor'.recoveries
        BY <1>1, <2>2, <2>3, <2>4
    <2>6. QED
        BY <2>1, <2>5 DEF Supervised, Spun
<1>10. launches' \in Nat
    BY DEF Launch, Typed
<1>11. QED
    BY <1>4, <1>8, <1>9, <1>10 DEF Supervised

LEMMA TickGoesOn ==
    ASSUME Typed, Supervised, TickFull \/ TickRefresh
    PROVE  Typed' /\ Supervised'
<1>1. /\ UNCHANGED <<client, pending, calls, topic, requests, served, expired,
                     adapter, motion, alarms, spins, faults>>
      /\ Watching /\ supervisor \in Supervisors
    BY DEF TickFull, TickRefresh, Typed
<1>2. CASE TickFull /\ supervisor.recoveries >= MaxRecoveries
    <2>1. /\ supervisor' = [supervisor EXCEPT !.terminal = TRUE]
          /\ stopping' = TRUE /\ UNCHANGED <<threads, launches>>
        BY <1>2 DEF TickFull
    <2>2. /\ supervisor' \in Supervisors
          /\ supervisor'.gen = supervisor.gen /\ supervisor'.active = supervisor.active
          /\ supervisor'.recoveries = supervisor.recoveries
          /\ supervisor'.refreshes = supervisor.refreshes
        BY <1>1, <2>1 DEF Supervisors
    <2>3. Typed'
        BY <1>1, <2>1, <2>2 DEF Typed, CommandsBounded, StepShape, NamesSet
    <2>4. Index' = Index
        BY <2>2 DEF Index
    <2>5. ThreadsOwned' /\ Spun'
        BY <1>1, <2>1, <2>2, <2>4 DEF Supervised, ThreadsOwned, Spun, SpinToCome
    <2>6. QED
        BY <2>3, <2>5 DEF Supervised
<1>3. ASSUME NEW full \in BOOLEAN,
             full => TickFull /\ ~(supervisor.recoveries >= MaxRecoveries),
             ~full => TickRefresh
      PROVE  Typed' /\ Supervised'
    <2>1. Launch(full) /\ stopping' = stopping
        <3>1. CASE full
            BY <1>3, <3>1 DEF TickFull
        <3>2. CASE ~full
            BY <1>3, <3>2 DEF TickRefresh
        <3>3. QED
            BY <3>1, <3>2
    <2>2. /\ supervisor' \in Supervisors
          /\ supervisor'.gen = supervisor.gen /\ supervisor'.active
          /\ supervisor'.recoveries = supervisor.recoveries + (IF full THEN 1 ELSE 0)
          /\ supervisor'.refreshes = supervisor.refreshes + (IF full THEN 0 ELSE 1)
        <3>1. /\ supervisor.recoveries \in 0..MaxRecoveries
              /\ supervisor.refreshes \in 0..MaxRefreshes
            BY <1>1 DEF Supervisors
        <3>2. CASE full
            <4>1. supervisor' = [supervisor EXCEPT !.active = TRUE, !.recoveries = @ + 1]
                BY <1>3, <3>2 DEF TickFull
            <4>2. supervisor.recoveries + 1 \in 0..MaxRecoveries
                BY <1>3, <3>1, <3>2, ConstantsAre
            <4> DEFINE n == supervisor.recoveries + 1
            <4>3. supervisor' = [supervisor EXCEPT !.active = TRUE, !.recoveries = n]
                BY <4>1
            <4> HIDE DEF n
            <4>4. /\ supervisor' \in Supervisors /\ supervisor'.active
                  /\ supervisor'.gen = supervisor.gen /\ supervisor'.recoveries = n
                  /\ supervisor'.refreshes = supervisor.refreshes
                BY <1>1, <4>2, <4>3 DEF Supervisors, n
            <4>5. QED
                BY <3>1, <3>2, <4>4 DEF n
        <3>3. CASE ~full
            <4>1. supervisor' = [supervisor EXCEPT !.active = TRUE, !.refreshes = @ + 1]
                  /\ supervisor.refreshes < MaxRefreshes
                BY <1>3, <3>3 DEF TickRefresh
            <4>2. supervisor.refreshes + 1 \in 0..MaxRefreshes
                BY <3>1, <4>1, ConstantsAre
            <4> DEFINE n == supervisor.refreshes + 1
            <4>3. supervisor' = [supervisor EXCEPT !.active = TRUE, !.refreshes = n]
                BY <4>1
            <4> HIDE DEF n
            <4>4. /\ supervisor' \in Supervisors /\ supervisor'.active
                  /\ supervisor'.gen = supervisor.gen /\ supervisor'.refreshes = n
                  /\ supervisor'.recoveries = supervisor.recoveries
                BY <1>1, <4>2, <4>3 DEF Supervisors, n
            <4>5. QED
                BY <3>1, <3>3, <4>4 DEF n
        <3>4. QED
            BY <3>2, <3>3
    <2>3. threads' \in [Generations -> Threads] /\ NamesSet' /\ launches' \in Nat
          /\ Supervised'
        BY <1>1, <2>1, <2>2, Launches
    <2>4. QED
        BY <1>1, <2>1, <2>2, <2>3, ThreadTyped DEF Typed
<1>4. QED
    <2>1. CASE TickRefresh
        BY <1>3, <2>1
    <2>2. CASE TickFull /\ ~(supervisor.recoveries >= MaxRecoveries)
        BY <1>3, <2>2
    <2>3. QED
        BY <1>2, <2>1, <2>2

-----------------------------------------------------------------------------
\* The inductive invariant of this module.
Inv == Typed /\ Supervised

LEMMA InvInit ==
    ASSUME Init
    PROVE  Inv
<1>1. client \in Clients /\ client.gen = 0 /\ client.last = -1
      /\ client.phase = "idle"
    BY ConstantsAre DEF Init, Clients, SeqNumbers, Phases
<1>2. topic \in Seq(Messages)
    <2>1. [gen |-> 0, seq |-> -1, plan |-> None] \in Messages
        BY ConstantsAre DEF Messages, SeqNumbers
    <2>2. QED
        BY <2>1 DEF Init
<1>3. /\ supervisor \in Supervisors /\ supervisor.gen = -1 /\ ~supervisor.active
    <2>1. supervisor = Supervising(-1)
        BY DEF Init
    <2>2. -1 \in -1..MaxGeneration /\ -1 \in SeqNumbers
        BY ConstantsAre DEF SeqNumbers
    <2>3. QED
        BY <2>1, <2>2, ConstantsAre DEF Supervising, Supervisors
<1>4. threads \in [Generations -> Threads] /\ \A g \in Generations : threads[g] = NoThread
    BY NoThreadIs DEF Init
<1>5. adapter \in Adapters /\ adapter.gen = -1 /\ adapter.seq = -1
    BY ConstantsAre DEF Init, Adapters, SeqNumbers
<1>6. CommandsBounded /\ StepShape
    BY <1>1, <1>5, ConstantsAre DEF Init, CommandsBounded, StepShape
<1>7. NamesSet
    BY <1>4, NoThreadIs DEF Init, NamesSet
<1>8. Typed
    <2>1. /\ pending \in Transactions \cup {None} /\ calls \subseteq Calls
          /\ requests \subseteq Requests /\ served \subseteq Recoveries \X Operations
          /\ expired \subseteq Recoveries /\ alarms \subseteq Alarms
          /\ motion \in BOOLEAN /\ stopping \in BOOLEAN
        BY DEF Init
    <2>2. spins \in [Generations -> Nat] /\ launches \in Nat /\ faults \in 0..MaxFaults
        BY ConstantsAre DEF Init
    <2>3. QED
        BY <1>1, <1>2, <1>3, <1>4, <1>5, <1>6, <1>7, <2>1, <2>2 DEF Typed
<1>9. ThreadsOwned
    BY <1>3, <1>4, NoThreadIs DEF ThreadsOwned
<1>10. Spun
    <2>1. \A g \in Generations : spins[g] = 0 /\ SpinToCome(g) = 0 /\ g # -1
        BY <1>4, NoThreadIs, ConstantsAre DEF Init, SpinToCome
    <2>2. QED
        BY <1>3, <2>1, ConstantsAre DEF Spun
<1>11. QED
    BY <1>8, <1>9, <1>10 DEF Inv, Supervised

LEMMA InvClient ==
    ASSUME Inv, ClientNext
    PROVE  Inv'
<1>1. Typed'
    BY TypedSteps, TypedFinish, TypedClient DEF Inv, ClientNext
<1>2. UNCHANGED <<supervisor, spins>> /\ UNCHANGED threads
    BY DEF ClientNext, Step, Finish, FinishRefused, GiveUp, ConfirmStop, Reset
<1>3. QED
    BY <1>1, <1>2, SupervisedStays DEF Inv

LEMMA InvAdapter ==
    ASSUME Inv, AdapterNext
    PROVE  Inv'
<1>1. Typed'
    BY TypedPassLatch, TypedExecute, TypedLatched, TypedNav DEF Inv, AdapterNext
<1>2. UNCHANGED <<supervisor, spins>> /\ UNCHANGED threads
    BY DEF AdapterNext, PassLatch, Execute, LatchFallback, LatchHold, LatchRelease,
           GoalFinished, StopArrives
<1>3. QED
    BY <1>1, <1>2, SupervisedStays DEF Inv

\* A request that is served is answered.
LEMMA ServedIs ==
    ASSUME Typed, NEW q \in requests,
           \/ ServeCancel(q)
           \/ CancelUnconfirmed(q)
           \/ ServeReplan(q)
           \/ ServeClear(q)
           \/ ServeArm(q)
    PROVE  \E ok \in BOOLEAN : Reply(q, ok)
<1>1. /\ ServeCancel(q) => Reply(q, AtAdapter(q, adapter.seq))
      /\ CancelUnconfirmed(q) => Reply(q, FALSE)
      /\ ServeClear(q) => Reply(q, TRUE) \/ Reply(q, FALSE)
    BY DEF ServeCancel, CancelUnconfirmed, ServeClear
<1>2. ServeReplan(q) => \E ok \in BOOLEAN : Reply(q, ok)
    BY DEF ServeReplan
<1>3. ServeArm(q) => \E ok \in BOOLEAN : Reply(q, ok)
    BY DEF ServeArm
<1>4. AtAdapter(q, adapter.seq) \in BOOLEAN
    BY DEF AtAdapter
<1>5. QED
    BY <1>1, <1>2, <1>3, <1>4

LEMMA InvRequest ==
    ASSUME Inv, RequestNext
    PROVE  Inv'
<1>1. CASE DeadlinePasses
    <2>1. UNCHANGED <<supervisor, spins>> /\ UNCHANGED threads
        BY <1>1 DEF DeadlinePasses
    <2>2. QED
        BY <1>1, <2>1, TypedDeadline, SupervisedStays DEF Inv
<1>2. ASSUME NEW q \in requests,
             \/ ServeCancel(q)
             \/ CancelUnconfirmed(q)
             \/ ServeReplan(q)
             \/ ServeClear(q)
             \/ ServeArm(q)
      PROVE  Inv'
    <2>1. Typed'
        BY <1>2, TypedServe DEF Inv
    <2>2. UNCHANGED <<supervisor, spins>>
        BY <1>2 DEF ServeCancel, CancelUnconfirmed, ServeReplan, ServeClear, ServeArm
    <2>3. QED
        BY <1>2, <2>1, <2>2, ServedIs, SupervisedStays DEF Inv
<1>3. QED
    BY <1>1, <1>2 DEF RequestNext

LEMMA InvSupervisor ==
    ASSUME Inv, SupervisorNext
    PROVE  Inv'
BY ReceiveGoesOn, PathGoesOn, TickGoesOn, BeginGoesOn, SendGoesOn, TimeoutGoesOn,
   SpinGoesOn, EndGoesOn DEF Inv, SupervisorNext

LEMMA InvStep ==
    ASSUME Inv, [Next]_vars
    PROVE  Inv'
<1>1. CASE Next
    BY <1>1, InvClient, InvAdapter, InvRequest, InvSupervisor DEF Next
<1>2. CASE UNCHANGED vars
    BY <1>2 DEF vars, Inv, Typed, CommandsBounded, StepShape, NamesSet, Supervised,
               ThreadsOwned, Spun, SpinToCome, Index
<1>3. QED
    BY <1>1, <1>2

THEOREM Invariance == Spec => []Inv
<1>1. Init => Inv
    BY InvInit
<1>2. Inv /\ [Next]_vars => Inv'
    BY InvStep
<1>3. QED
    BY <1>1, <1>2, PTL DEF Spec

-----------------------------------------------------------------------------
(* The client and the adapter in step.                                       *)

\* The adapter has committed command n of the client's generation, or none of
\* it when n is negative.
AdapterAt(n) ==
    IF n < 0 THEN adapter.gen < client.gen
    ELSE adapter.gen = client.gen /\ adapter.seq = n

\* The request of the step that the client resolves.
Current(past) ==
    [gen |-> client.gen, seq |-> client.last, plan |-> client.plan, past |-> past]

\* No node is ahead of the client. Without a fault the adapter is one command
\* behind it, with that command on its way, or at its last command.
Positions ==
    /\ adapter.gen <= client.gen
    /\ \A r \in calls : r.gen <= client.gen
    /\ faults = 0 =>
          /\ client.phase = "resolving" =>
                /\ \E past \in BOOLEAN : calls = {Current(past)}
                /\ AdapterAt(client.last - 1)
          /\ client.phase # "resolving" => calls = {} /\ AdapterAt(client.last)

\* A fault is never taken back.
LEMMA FaultsStay ==
    ASSUME Inv, Next, faults' = 0
    PROVE  faults = 0
<1>1. faults \in Nat
    BY Parts DEF Inv
<1>2. faults' = faults \/ Fault
    <2>1. ClientNext => faults' = faults \/ Fault
        BY DEF ClientNext, Step, Finish, FinishRefused, GiveUp, ConfirmStop, Reset
    <2>2. AdapterNext => faults' = faults \/ Fault
        BY DEF AdapterNext, PassLatch, Execute, LatchFallback, LatchHold, LatchRelease,
               GoalFinished, StopArrives, Charge
    <2>3. RequestNext => faults' = faults \/ Fault
        BY DEF RequestNext, ServeCancel, CancelUnconfirmed, ServeReplan, ServeClear,
               ServeArm, DeadlinePasses
    <2>4. SupervisorNext => faults' = faults \/ Fault
        BY DEF SupervisorNext, Receive, PathArrives, TickFull, TickRefresh, Begin, Send,
               CallTimeout, SpinStart, SpinEnd, Complete, Fail, LoseOwnership, End
    <2>5. QED
        BY <2>1, <2>2, <2>3, <2>4 DEF Next
<1>3. QED
    BY <1>1, <1>2 DEF Fault

\* Without a fault a call is the one of the step under way, and contiguous.
LEMMA QuietCall ==
    ASSUME Inv, Positions, faults = 0, NEW r \in calls
    PROVE  /\ client.phase = "resolving" /\ client.last >= 0
           /\ calls = {r} /\ r = Current(r.past) /\ r.past \in BOOLEAN
           /\ r.gen = client.gen /\ r.seq = client.last /\ r.plan = client.plan
           /\ Awaits(r) /\ Contiguous(r)
           /\ NewGeneration(r) => adapter.gen # client.gen
           /\ adapter.gen = client.gen => adapter.seq = client.last - 1
<1>1. client.phase = "resolving"
    BY DEF Positions
<1>2. PICK past \in BOOLEAN : calls = {Current(past)}
    BY <1>1 DEF Positions
<1>3. /\ calls = {r} /\ r = Current(r.past) /\ r.past \in BOOLEAN
      /\ r.gen = client.gen /\ r.seq = client.last /\ r.plan = client.plan
    BY <1>2 DEF Current
<1>4. client.last >= 0
    BY <1>1 DEF Inv, Typed, StepShape
<1>5. AdapterAt(client.last - 1) /\ adapter.gen <= client.gen
    BY <1>1 DEF Positions
<1>6. client.last \in Int /\ client.gen \in Nat /\ adapter.gen \in Int /\ adapter.seq \in Int
    BY Parts DEF Inv
<1>7. Contiguous(r)
    <2>1. CASE client.last = 0
        BY <1>3, <1>5, <1>6, <2>1 DEF AdapterAt, Contiguous, NewGeneration
    <2>2. CASE client.last # 0
        BY <1>3, <1>4, <1>5, <1>6, <2>2 DEF AdapterAt, Contiguous
    <2>3. QED
        BY <2>1, <2>2
<1>8. adapter.gen = client.gen => adapter.seq = client.last - 1
    BY <1>4, <1>5, <1>6 DEF AdapterAt
<1>9. NewGeneration(r) => adapter.gen # client.gen
    BY <1>3, <1>6 DEF NewGeneration
<1>10. QED
    BY <1>1, <1>3, <1>4, <1>7, <1>8, <1>9 DEF Awaits

\* An action that moves neither the client nor the adapter keeps their positions.
LEMMA PositionsStay ==
    ASSUME Inv, Positions, Next,
           UNCHANGED calls,
           client' = client \/ (Idle' /\ client.phase = "answered"),
           client'.gen = client.gen, client'.last = client.last,
           adapter'.gen = adapter.gen, adapter'.seq = adapter.seq
    PROVE  Positions'
<1>1. faults' = 0 => faults = 0
    BY FaultsStay
<1>2. AdapterAt(client.last)' = AdapterAt(client.last)
    BY DEF AdapterAt
<1>3. CASE client' = client
    BY <1>1, <1>2, <1>3 DEF Positions, Current, AdapterAt
<1>4. CASE Idle' /\ client.phase = "answered"
    BY <1>1, <1>2, <1>4 DEF Positions, Idle
<1>5. QED
    BY <1>3, <1>4

\* A command that the adapter takes, without a fault, leaves it at the client's
\* last command and the client past its resolution.
LEMMA TakenInStep ==
    ASSUME Inv, Positions, Next, NEW r \in calls,
           calls' = calls \ {r},
           adapter'.gen \in {adapter.gen, r.gen},
           faults' = 0 =>
              /\ adapter'.gen = r.gen /\ adapter'.seq = r.seq
              /\ \E reply \in Replies : Answer(r, reply),
           \/ client' = client
           \/ \E reply \in Replies : Answer(r, reply)
    PROVE  Positions'
<1>1. Typed /\ client.gen \in Int /\ adapter.gen \in Int /\ client.last \in Int
    BY Parts DEF Inv
<1>2. client'.gen = client.gen /\ client'.last = client.last
    BY <1>1, AnswerIs
<1>3. adapter'.gen <= client'.gen /\ \A c \in calls' : c.gen <= client'.gen
    BY <1>2 DEF Positions
<1>4. ASSUME faults' = 0
      PROVE  /\ client'.phase # "resolving" /\ calls' = {}
             /\ AdapterAt(client.last)'
    <2>1. faults = 0
        BY <1>4, FaultsStay
    <2>2. /\ calls = {r} /\ Awaits(r) /\ client.last >= 0
          /\ r.gen = client.gen /\ r.seq = client.last
        BY <2>1, QuietCall
    <2>3. PICK reply \in Replies : Answer(r, reply)
        BY <1>4
    <2>4. client'.phase # "resolving"
        <3>1. client \in Clients
            BY <1>1 DEF Typed
        <3>2. CASE client.sampled = None /\ reply # "refused"
            BY <2>2, <2>3, <3>1, <3>2 DEF Answer, Settled, Clients
        <3>3. CASE ~(client.sampled = None /\ reply # "refused")
            BY <2>2, <2>3, <3>1, <3>3 DEF Answer, Clients
        <3>4. QED
            BY <3>2, <3>3
    <2>5. AdapterAt(client.last)'
        BY <1>1, <1>2, <1>4, <2>2 DEF AdapterAt
    <2>6. QED
        BY <2>2, <2>4, <2>5
<1>5. QED
    BY <1>3, <1>4 DEF Positions

LEMMA PositionsClient ==
    ASSUME Inv, Positions, Next, ClientNext
    PROVE  Positions'
<1>1. faults' = 0 => faults = 0
    BY FaultsStay
<1>2. client \in Clients /\ adapter \in Adapters /\ Typed
    BY DEF Inv, Typed
<1>3. client.gen \in Nat /\ client.last \in Int /\ adapter.gen \in Int
    BY <1>2, Parts
<1>4. ASSUME NEW plan \in Commands, Step(plan)
      PROVE  Positions'
    <2>1. /\ client.phase = "idle"
          /\ client' = [client EXCEPT !.last = client.last + 1, !.phase = "resolving",
                                      !.plan = plan, !.sampled = Sample(plan)]
          /\ calls' = calls \cup {[gen |-> client.gen, seq |-> client.last + 1,
                                   plan |-> plan, past |-> FALSE]}
          /\ adapter' = adapter
        BY <1>4 DEF Step, Idle
    <2>2. /\ client'.phase = "resolving" /\ client'.gen = client.gen
          /\ client'.last = client.last + 1 /\ client'.plan = plan
        BY <1>2, <2>1 DEF Clients
    <2>3. /\ adapter'.gen <= client'.gen
          /\ \A r \in calls' : r.gen <= client'.gen
        BY <1>3, <2>1, <2>2 DEF Positions
    <2>4. ASSUME faults' = 0
          PROVE  calls' = {Current(FALSE)'} /\ AdapterAt(client.last - 1)'
        <3>1. calls = {} /\ AdapterAt(client.last)
            BY <1>1, <2>1, <2>4 DEF Positions
        <3>2. client'.last - 1 = client.last
            BY <1>3, <2>2
        <3>3. QED
            BY <2>1, <2>2, <3>1, <3>2 DEF AdapterAt, Current
    <2>5. QED
        BY <2>2, <2>3, <2>4 DEF Positions
<1>5. CASE Finish \/ FinishRefused
    <2>1. Typed /\ client' = Settled /\ client.phase = "answered"
          /\ UNCHANGED <<calls, adapter>>
        BY <1>2, <1>5 DEF Finish, FinishRefused
    <2>2. Idle' /\ client'.gen = client.gen /\ client'.last = client.last
        BY <2>1, SettledIs DEF Idle
    <2>3. QED
        BY <2>1, <2>2, PositionsStay
<1>6. CASE GiveUp
    <2>1. /\ client.phase = "resolving" /\ UNCHANGED <<calls, adapter>>
          /\ IF \E r \in calls : Awaits(r) THEN Fault ELSE faults' = faults
          /\ client' = Settled
        BY <1>6 DEF GiveUp
    <2>2. client'.gen = client.gen
        BY <1>2, <2>1, SettledIs
    <2>3. faults' # 0
        <3> SUFFICES ASSUME faults' = 0
                     PROVE  FALSE
            OBVIOUS
        <3>1. faults = 0
            BY <1>1
        <3>2. PICK past \in BOOLEAN : calls = {Current(past)}
            BY <2>1, <3>1 DEF Positions
        <3>3. Current(past) \in calls
            BY <3>2
        <3>4. Awaits(Current(past))
            BY <3>1, <3>3, QuietCall
        <3>5. QED
            BY <2>1, <3>1, <3>3, <3>4 DEF Fault
    <2>4. QED
        BY <2>1, <2>2, <2>3 DEF Positions
<1>7. CASE ConfirmStop
    <2>1. /\ UNCHANGED <<client, calls>>
          /\ adapter' = [adapter EXCEPT !.goal = None]
        BY <1>7 DEF ConfirmStop
    <2>2. adapter'.gen = adapter.gen /\ adapter'.seq = adapter.seq
        BY <1>2, <2>1 DEF Adapters
    <2>3. QED
        BY <2>1, <2>2, PositionsStay
<1>8. CASE Reset
    <2>1. /\ client.phase = "idle" /\ UNCHANGED calls
          /\ client' = [client EXCEPT !.gen = client.gen + 1, !.last = -1]
          /\ adapter' = [adapter EXCEPT !.goal = None]
        BY <1>8 DEF Reset, Idle
    <2>2. /\ client'.gen = client.gen + 1 /\ client'.last = -1
          /\ client'.phase = "idle" /\ adapter'.gen = adapter.gen
        BY <1>2, <2>1 DEF Clients, Adapters
    <2>3. \A r \in calls : r.gen \in Nat
        BY <1>2, CallIs
    <2>4. /\ adapter'.gen <= client'.gen /\ adapter'.gen < client'.gen
          /\ \A r \in calls' : r.gen <= client'.gen
        BY <1>3, <2>1, <2>2, <2>3 DEF Positions
    <2>5. AdapterAt(client.last)'
        BY <2>2, <2>4 DEF AdapterAt
    <2>6. faults' = 0 => calls' = {}
        BY <1>1, <2>1 DEF Positions
    <2>7. QED
        BY <2>2, <2>4, <2>5, <2>6 DEF Positions
<1>9. QED
    BY <1>4, <1>5, <1>6, <1>7, <1>8 DEF ClientNext

LEMMA PositionsAdapter ==
    ASSUME Inv, Positions, Next, AdapterNext
    PROVE  Positions'
<1>1. Typed /\ adapter \in Adapters /\ client.gen \in Int /\ adapter.gen \in Int
    BY Parts DEF Inv, Typed
<1>2. faults' = 0 => faults = 0
    BY FaultsStay
<1>3. ASSUME NEW r \in calls, PassLatch(r)
      PROVE  Positions'
    <2>1. /\ calls' = (calls \ {r}) \cup {[r EXCEPT !.past = TRUE]}
          /\ UNCHANGED client /\ adapter' = [adapter EXCEPT !.latch = None]
        BY <1>3 DEF PassLatch
    <2>2. adapter'.gen = adapter.gen /\ adapter'.seq = adapter.seq
        BY <1>1, <2>1 DEF Adapters
    <2>3. r \in Calls /\ [r EXCEPT !.past = TRUE].gen = r.gen
        BY <1>1, CallIs DEF Calls
    <2>4. adapter'.gen <= client'.gen /\ \A c \in calls' : c.gen <= client'.gen
        BY <2>1, <2>2, <2>3 DEF Positions
    <2>5. ASSUME faults' = 0
          PROVE  /\ client'.phase = "resolving"
                 /\ calls' = {Current(TRUE)'} /\ AdapterAt(client.last - 1)'
        <3>1. /\ client.phase = "resolving" /\ calls = {r}
              /\ r = Current(r.past)
            BY <1>2, <2>5, QuietCall
        <3>2. [r EXCEPT !.past = TRUE] = Current(TRUE)
            <4>1. r \in Calls /\ Current(TRUE) \in Calls
                BY <2>3, <3>1 DEF Current, Calls
            <4>2. [r EXCEPT !.past = TRUE] \in Calls
                BY <4>1 DEF Calls
            <4>3. \A c, d \in Calls :
                    c.gen = d.gen /\ c.seq = d.seq /\ c.plan = d.plan /\ c.past = d.past
                    => c = d
                BY DEF Calls
            <4>4. /\ [r EXCEPT !.past = TRUE].gen = r.gen
                  /\ [r EXCEPT !.past = TRUE].seq = r.seq
                  /\ [r EXCEPT !.past = TRUE].plan = r.plan
                  /\ [r EXCEPT !.past = TRUE].past = TRUE
                BY <4>1 DEF Calls
            <4>5. /\ Current(TRUE).gen = r.gen /\ Current(TRUE).seq = r.seq
                  /\ Current(TRUE).plan = r.plan /\ Current(TRUE).past = TRUE
                <5>1. r.gen = client.gen /\ r.seq = client.last /\ r.plan = client.plan
                    BY <1>2, <2>5, QuietCall
                <5>2. QED
                    BY <5>1 DEF Current
            <4>6. QED
                BY <4>1, <4>2, <4>3, <4>4, <4>5
        <3>3. calls' = {Current(TRUE)}
            BY <2>1, <3>1, <3>2
        <3>4. AdapterAt(client.last - 1)
            BY <1>2, <2>5, <3>1 DEF Positions
        <3>5. QED
            BY <2>1, <2>2, <3>1, <3>3, <3>4 DEF Current, AdapterAt
    <2>6. QED
        BY <2>4, <2>5 DEF Positions
<1>4. ASSUME NEW r \in calls, Execute(r) \/ LatchRelease(r)
      PROVE  Positions'
    <2>1. PICK o \in Outcomes(r) :
            /\ Charge(o)
            /\ \/ adapter' = [adapter EXCEPT !.gen = o.at[1], !.seq = o.at[2],
                                             !.goal = o.goal]
               \/ adapter' = [gen |-> o.at[1], seq |-> o.at[2], goal |-> o.goal,
                              latch |-> IF o.reply = "executed" THEN None ELSE Latch]
            /\ Answer(r, o.reply)
        BY <1>4 DEF Execute, LatchRelease
    <2>2. adapter'.gen = o.at[1] /\ adapter'.seq = o.at[2]
        <3>1. CASE adapter' = [adapter EXCEPT !.gen = o.at[1], !.seq = o.at[2],
                                              !.goal = o.goal]
            BY <1>1, <3>1 DEF Adapters
        <3>2. CASE adapter' = [gen |-> o.at[1], seq |-> o.at[2], goal |-> o.goal,
                               latch |-> IF o.reply = "executed" THEN None ELSE Latch]
            BY <3>2
        <3>3. QED
            BY <2>1, <3>1, <3>2
    <2>3. o.reply \in Replies
        BY <1>1, OutcomeTyped
    <2>4. \/ o.at = <<r.gen, r.seq>>
          \/ o.at = <<adapter.gen, adapter.seq>> /\ (~Contiguous(r) \/ o.fault = TRUE)
        BY OutcomesAre
    <2>5. faults' = 0 => o.at = <<r.gen, r.seq>>
        <3>1. ASSUME faults' = 0 PROVE Contiguous(r) /\ ~o.fault
            <4>1. faults = 0
                BY <1>2, <3>1
            <4>2. Contiguous(r)
                BY <4>1, QuietCall
            <4>3. o.fault => FALSE
                BY <2>1, <3>1, <4>1 DEF Charge, Fault
            <4>4. QED
                BY <4>2, <4>3
        <3>2. QED
            BY <2>4, <3>1
    <2>6. calls' = calls \ {r}
        BY <1>4 DEF Execute, LatchRelease
    <2>7. QED
        BY <2>1, <2>2, <2>3, <2>4, <2>5, <2>6, TakenInStep
<1>5. ASSUME NEW r \in calls, LatchFallback(r) \/ LatchHold(r)
      PROVE  Positions'
    <2>1. r.gen = adapter.gen /\ calls' = calls \ {r}
        BY <1>5 DEF LatchFallback, LatchHold, Latched
    <2>2. {"fallback", "refused", "suppressed", "held"} \subseteq Replies
        BY DEF Replies
    <2>3. client' = client \/ \E reply \in Replies : Answer(r, reply)
        BY <1>5, <2>2 DEF LatchFallback, LatchHold
    <2>4. adapter'.gen = adapter.gen
        BY <1>1, <1>5 DEF LatchFallback, LatchHold, Adapters
    <2>5. ASSUME faults' = 0
          PROVE  adapter'.seq = r.seq /\ \E reply \in Replies : Answer(r, reply)
        <3>1. Contiguous(r)
            BY <1>2, <2>5, QuietCall
        <3>2. QED
            BY <1>1, <1>5, <2>2, <3>1 DEF LatchFallback, LatchHold, Adapters
    <2>6. QED
        BY <2>1, <2>3, <2>4, <2>5, TakenInStep
<1>6. CASE GoalFinished \/ StopArrives
    <2>1. /\ UNCHANGED <<client, calls>>
          /\ adapter'.gen = adapter.gen /\ adapter'.seq = adapter.seq
        BY <1>1, <1>6 DEF GoalFinished, StopArrives, Adapters
    <2>2. QED
        BY <2>1, PositionsStay
<1>7. QED
    BY <1>3, <1>4, <1>5, <1>6 DEF AdapterNext

LEMMA PositionsOthers ==
    ASSUME Inv, Positions, Next, RequestNext \/ SupervisorNext
    PROVE  Positions'
<1>1. UNCHANGED <<client, calls>>
    BY DEF RequestNext, ServeCancel, CancelUnconfirmed, ServeReplan, ServeClear, ServeArm,
           DeadlinePasses, SupervisorNext, Receive, PathArrives, TickFull, TickRefresh,
           Begin, Send, CallTimeout, SpinStart, SpinEnd, Complete, Fail, LoseOwnership,
           End
<1>2. adapter \in Adapters
    BY DEF Inv, Typed
<1>3. \/ adapter' = adapter
      \/ \E q \in requests : ServeCancel(q) \/ ServeArm(q)
    BY DEF RequestNext, CancelUnconfirmed, ServeReplan, ServeClear,
           DeadlinePasses, SupervisorNext, Receive, PathArrives, TickFull, TickRefresh,
           Begin, Send, CallTimeout, SpinStart, SpinEnd, Complete, Fail, LoseOwnership,
           End
<1>4. adapter'.gen = adapter.gen /\ adapter'.seq = adapter.seq
    <2>1. ASSUME NEW q \in requests, ServeCancel(q) \/ ServeArm(q)
          PROVE  adapter'.gen = adapter.gen /\ adapter'.seq = adapter.seq
        BY <1>2, <2>1 DEF ServeCancel, ServeArm, Adapters
    <2>2. QED
        BY <1>3, <2>1
<1>5. QED
    BY <1>1, <1>4, PositionsStay

\* No goal under a latch, step by step: a command that was past the check, or
\* the fresh and timely one that releases it.
LEMMA GoalSteps ==
    ASSUME Inv, Next, Latch # None, adapter'.goal \notin {None, adapter.goal}
    PROVE  \/ \E r \in calls : r.past /\ r \notin calls'
           \/ /\ Latch.armed /\ Latch.id \notin expired
              /\ adapter'.goal # Latch.excluded /\ Latch' = None
<1>1. adapter \in Adapters
    BY DEF Inv, Typed
<1>2. \E r \in calls : Execute(r) \/ LatchRelease(r)
    <2>1. CASE ClientNext
        BY <1>1, <2>1
        DEF ClientNext, Step, Finish, FinishRefused, GiveUp, ConfirmStop, Reset, Adapters
    <2>2. CASE AdapterNext
        BY <1>1, <2>2
        DEF AdapterNext, PassLatch, LatchFallback, LatchHold, GoalFinished, StopArrives,
            Adapters
    <2>3. CASE RequestNext
        <3>1. PICK q \in requests : ServeCancel(q) \/ ServeArm(q)
            BY <2>3
            DEF RequestNext, CancelUnconfirmed, ServeReplan, ServeClear, DeadlinePasses
        <3>2. QED
            BY <1>1, <3>1 DEF ServeCancel, ServeArm, Adapters
    <2>4. CASE SupervisorNext
        BY <2>4
        DEF SupervisorNext, Receive, PathArrives, TickFull, TickRefresh, Begin, Send,
            CallTimeout, SpinStart, SpinEnd, Complete, Fail, LoseOwnership, End
    <2>5. QED
        BY <2>1, <2>2, <2>3, <2>4 DEF Next
<1>3. PICK r \in calls : Execute(r) \/ LatchRelease(r)
    BY <1>2
<1>4. CASE Execute(r)
    BY <1>4 DEF Execute
<1>5. CASE LatchRelease(r)
    <2>1. PICK o \in Outcomes(r) :
            adapter' = [gen |-> o.at[1], seq |-> o.at[2], goal |-> o.goal,
                        latch |-> IF o.reply = "executed" THEN None ELSE Latch]
        BY <1>5 DEF LatchRelease
    <2>2. r.gen = adapter.gen /\ ~Overdue /\ Latch.armed
          /\ r.plan # Stop /\ r.plan # Latch.excluded
        BY <1>5 DEF LatchRelease, Latched, Fresh
    <2>3. adapter'.goal = o.goal
          /\ adapter'.latch = IF o.reply = "executed" THEN None ELSE Latch
        BY <2>1
    <2>4. KeptGoal(r) = adapter.goal
        <3>1. adapter.gen \in Int
            BY Parts DEF Inv
        <3>2. QED
            BY <2>2, <3>1 DEF KeptGoal, NewGeneration
    <2>5. o.goal = r.plan /\ o.reply = "executed"
        BY <2>2, <2>3, <2>4, OutcomesAre
    <2>6. QED
        BY <2>2, <2>3, <2>5 DEF Overdue, Latch
<1>6. QED
    BY <1>3, <1>4, <1>5

\* The types of the nodes' state and of the messages between them.
THEOREM TypeCorrect == Spec => []TypeOK
<1>1. Inv => TypeOK
    <2> SUFFICES ASSUME Inv
                 PROVE  TypeOK
        OBVIOUS
    <2>1. Typed
        BY DEF Inv
    <2>2. /\ client.gen \in Generations
          /\ client.last \in -1..LastSequence[client.gen]
          /\ client.phase \in {"idle", "resolving", "answered"}
          /\ client.reply \in Replies \cup {None}
          /\ client.sampled \in Samples \cup {None}
        <3>1. client \in Clients /\ client.last <= LastSequence[client.gen]
            BY <2>1 DEF Typed, CommandsBounded
        <3>2. LastSequence[client.gen] \in Nat /\ client.last \in Nat \cup {-1}
            BY <3>1, ConstantsAre DEF Clients, SeqNumbers
        <3>3. QED
            BY <3>1, <3>2 DEF Clients, Phases
    <2>3. supervisor.gen \in -1..MaxGeneration /\ supervisor.plan \in Plans \cup {None}
        BY <2>1 DEF Typed, Supervisors
    <2>4. \A g \in Generations : /\ threads[g].id \in Recoveries \cup {None}
                                 /\ threads[g].tries \in 0..2
                                 /\ threads[g].answer \in
                                       {"none", "wait", "ok", "failed"}
        BY <2>1 DEF Typed, Threads
    <2>5. /\ adapter.gen \in -1..MaxGeneration
          /\ adapter.seq \in
                -1..(IF adapter.gen < 0 THEN -1 ELSE LastSequence[adapter.gen])
        <3>1. adapter \in Adapters /\ adapter.gen \in Int
              /\ (adapter.gen >= 0 => adapter.gen \in Generations)
            BY <2>1, Parts DEF Typed
        <3>2. adapter.seq \in Nat \cup {-1}
            BY <3>1 DEF Adapters, SeqNumbers
        <3>3. CASE adapter.gen < 0
            BY <2>1, <3>1, <3>3 DEF Typed, CommandsBounded, Adapters
        <3>4. CASE adapter.gen >= 0
            <4>1. LastSequence[adapter.gen] \in Nat /\ adapter.seq <= LastSequence[adapter.gen]
                BY <2>1, <3>1, <3>4, ConstantsAre DEF Typed, CommandsBounded
            <4>2. QED
                BY <3>1, <3>2, <3>4, <4>1 DEF Adapters
        <3>5. QED
            BY <3>1, <3>3, <3>4
    <2>6. adapter.goal \in Plans \cup {None} /\ Latch \in Latches \cup {None}
        BY <2>1, LatchIs
    <2>7. QED
        BY <2>1, <2>2, <2>3, <2>4, <2>5, <2>6 DEF Typed, TypeOK
<1>2. QED
    BY <1>1, Invariance, PTL

\* However the supervisor's ticks, threads, calls and resets interleave, the
\* robot spins at most maximum_recoveries_per_episode times in a generation.
THEOREM SpinsAreBudgeted == Spec => []SpinBudget
<1>1. Inv => SpinBudget
    BY DEF Inv, Supervised, Spun, SpinBudget
<1>2. QED
    BY <1>1, Invariance, PTL

\* The recovery_active flag is never left behind by its thread.
THEOREM ActiveIsOwned == Spec => []ActiveHasAThread
<1>1. Inv => ActiveHasAThread
    BY DEF Inv, Supervised, ThreadsOwned, ActiveHasAThread
<1>2. QED
    BY <1>1, Invariance, PTL

\* Under a latch Nav2 is given no goal but by the command that had passed the
\* check, or by the fresh command that releases it.
THEOREM LatchGuardsGoals == Spec => NoGoalUnderLatch
<1>1. Inv /\ [Next]_vars =>
        [ Latch # None /\ adapter'.goal \notin {None, adapter.goal}
          => \/ \E r \in calls : r.past /\ r \notin calls'
             \/ /\ Latch.armed /\ Latch.id \notin expired
                /\ adapter'.goal # Latch.excluded /\ Latch' = None ]_vars
    <2>1. CASE Next
        BY <2>1, GoalSteps
    <2>2. CASE UNCHANGED vars
        BY <2>2
    <2>3. QED
        BY <2>1, <2>2
<1>2. QED
    BY <1>1, Invariance, PTL DEF Spec, NoGoalUnderLatch

\* The positions are kept by every step.
THEOREM PositionsHold == Spec => []Positions
<1>1. Init => Positions
    <2> SUFFICES ASSUME Init
                 PROVE  Positions
        OBVIOUS
    <2>1. /\ client.gen = 0 /\ client.last = -1 /\ client.phase = "idle"
          /\ adapter.gen = -1 /\ calls = {}
        BY DEF Init
    <2>2. QED
        BY <2>1 DEF Positions, AdapterAt
<1>2. Inv /\ Positions /\ [Next]_vars => Positions'
    <2>1. CASE UNCHANGED vars
        BY <2>1 DEF vars, Positions, AdapterAt, Current
    <2>2. CASE Next
        BY <2>2, PositionsClient, PositionsAdapter, PositionsOthers DEF Next
    <2>3. QED
        BY <2>1, <2>2
<1>3. QED
    BY <1>1, <1>2, Invariance, PTL DEF Spec

\* Without a fault the adapter has committed what the client has committed
\* whenever the client is between two steps.
THEOREM LaneInStep == Spec => []InStep
<1>1. Inv /\ Positions => InStep
    BY Parts DEF Inv, Positions, InStep, Idle, AdapterAt
<1>2. QED
    BY <1>1, Invariance, PositionsHold, PTL

-----------------------------------------------------------------------------
(* One recovery, one transaction. What follows is about a lane without a     *)
(* fault; the parts of the invariant are inductive together.                 *)

IsServed(id, op) == <<id, op>> \in served

\* A thread that has named its recovery and the requests no server has handled
\* bear the name of a recovery, its command and its plan.
Naming(g) == threads[g].pc \notin {"idle", "start"}

Bearers ==
    {[id |-> q.id, seq |-> q.seq, plan |-> q.plan] : q \in requests}
    \cup {[id |-> threads[g].id, seq |-> threads[g].seq, plan |-> threads[g].plan] :
            g \in {h \in Generations : Naming(h)}}

\* A name that was given: what the supervisor names next is another one.
Known(id) ==
    /\ Gen(id) <= supervisor.gen
    /\ Gen(id) = supervisor.gen =>
          /\ id[2] <= Index
          /\ threads[Gen(id)].pc = "start" => id[2] < Index

\* A request is the one its thread waits for, or its thread is gone for good.
Matches(q) ==
    /\ Attempt(q)
    /\ threads[Gen(q.id)].seq = q.seq /\ threads[Gen(q.id)].plan = q.plan

Orphan(q) == threads[Gen(q.id)].pc = "idle" /\ supervisor.gen > Gen(q.id)

Requested ==
    /\ \A b \in Bearers : Known(b.id)
    /\ \A s \in served : Known(s[1])
    /\ \A q \in requests : Matches(q) \/ Orphan(q)
    /\ \A p, q \in requests : Gen(p.id) = Gen(q.id) => p = q

\* Operations are served in their order.
InOrder ==
    /\ \A id \in Recoveries : IsServed(id, "replan") => IsServed(id, "cancel")
    /\ \A q \in requests :
          /\ q.op # "cancel" => IsServed(q.id, "cancel")
          /\ q.op \in {"clear", "arm"} => IsServed(q.id, "replan")
    /\ \A g \in Generations :
          /\ \/ threads[g].pc \in {"replan", "clear", "spinning", "arm"}
             \/ threads[g].pc = "cancel" /\ threads[g].answer = "ok"
             => IsServed(threads[g].id, "cancel")
          /\ \/ threads[g].pc \in {"clear", "spinning", "arm"}
             \/ threads[g].pc = "replan" /\ threads[g].answer = "ok"
             => IsServed(threads[g].id, "replan")

\* The adapter has been at the command a recovery canceled, and is still without
\* a goal if it is there.
Reached ==
    /\ \A s \in served : Gen(s[1]) <= adapter.gen
    /\ \A b \in Bearers :
          IsServed(b.id, "cancel") =>
             \/ Gen(b.id) < adapter.gen
             \/ Gen(b.id) = adapter.gen /\ b.seq < adapter.seq
             \/ AtAdapter(b, adapter.seq) /\ adapter.goal = None

\* Until the replan the latch is that of the recovery that canceled.
Canceled ==
    \A b \in Bearers :
        /\ IsServed(b.id, "cancel") /\ ~IsServed(b.id, "replan")
        /\ client.gen = adapter.gen /\ AtAdapter(b, adapter.seq)
        => Latch # None /\ Latch.id = b.id

\* What latch, pending replan and sample name was served, with what its
\* bearers bear.
Linked ==
    /\ Latch # None =>
          /\ IsServed(Latch.id, "cancel")
          /\ Latch.armed => IsServed(Latch.id, "replan")
          /\ \A b \in Bearers : b.id = Latch.id => b.seq = Latch.seq
    /\ pending # None =>
          /\ IsServed(pending.id, "replan")
          /\ \A b \in Bearers : b.id = pending.id => b.plan \in pending.excluded
    /\ client.sampled # None => IsServed(client.sampled.id, "replan")
    /\ Latch # None /\ Latch.armed /\ pending # None /\ Latch.id = pending.id
          => Latch.excluded \in pending.excluded

\* A command that is past the latch check drives under a latch only if that
\* one's replan is still to be refused.
PastCalls ==
    \A r \in calls :
        r.past /\ Latch # None =>
           /\ ~IsServed(Latch.id, "replan")
           /\ ~(Gen(Latch.id) = client.gen /\ Latch.seq = client.last)

\* What the step sampled is the pending replan.
Sampled ==
    client.phase # "idle" =>
       /\ client.sampled = None <=> pending = None
       /\ pending # None =>
             /\ Gen(pending.id) = client.gen
             /\ client.sampled.id = pending.id
             /\ client.sampled.expired => pending.id \in expired
             /\ client.sampled.rejected <=>
                   client.plan = Stop \/ client.plan \in pending.excluded
       /\ client.phase = "answered" =>
             client.sampled # None /\ client.reply # "refused"

\* A latch whose replan was served is the client's pending replan.
LatchToPending ==
    /\ Latch # None /\ IsServed(Latch.id, "replan") /\ Latch.id \notin expired
    /\ client.gen = adapter.gen /\ "repeated" \notin alarms
    => pending # None /\ pending.id = Latch.id /\ Gen(Latch.id) = client.gen

\* The answer that ends a transaction has released its latch.
AnsweredOver ==
    client.phase = "answered" /\ client.reply \in {"executed", "fallback"}
        => Latch = None \/ Latch.id # client.sampled.id

\* A pending replan is held by its latch, or the answer that ends it is here.
Held ==
    Latch # None /\ pending # None /\ Latch.id = pending.id /\ adapter.goal = None

Ended ==
    /\ client.phase = "answered"
    /\ \/ client.reply = "fallback" /\ adapter.goal = None
       \/ /\ client.reply = "executed" /\ ~client.sampled.rejected
          /\ adapter.goal \in {None, client.plan}

Timely ==
    pending # None /\ pending.id \notin expired /\ Gen(pending.id) = adapter.gen

PendingToLatch ==
    Timely =>
       /\ Held \/ Ended
       /\ \A p, q \in pending.excluded : p = q
       /\ client.phase = "answered" =>
             \/ client.reply \in {"executed", "fallback", "held"}
             \/ client.reply = "suppressed" /\ client.sampled.rejected

\* While the latch holds, no other recovery of the generation begins.
PendingBlocks ==
    Timely /\ Held /\ ~Ended =>
       /\ \A b \in Bearers : Gen(b.id) = Gen(pending.id) => b.id = pending.id
       /\ threads[Gen(pending.id)].pc # "start"
       /\ supervisor.gen = Gen(pending.id) /\ ~supervisor.active => ~supervisor.path

Blamed == "excluded" \in alarms => expired # {}

\* What a lane without a fault keeps: its names and requests, and the transaction.
Ordered == Requested /\ InOrder

Transaction ==
    /\ Reached /\ Canceled /\ Linked /\ PastCalls /\ Sampled
    /\ LatchToPending /\ AnsweredOver /\ PendingToLatch /\ PendingBlocks /\ Blamed

Calm == faults = 0 => Ordered /\ Transaction

-----------------------------------------------------------------------------
(* Names and requests.                                                       *)

\* A bearer is a request or a thread.
LEMMA BearersAre ==
    ASSUME Typed
    PROVE  /\ \A b \in Bearers : b.id \in Recoveries /\ Gen(b.id) \in Generations
           /\ \A b \in Bearers :
                \/ \E q \in requests : b = [id |-> q.id, seq |-> q.seq, plan |-> q.plan]
                \/ \E g \in Generations :
                      /\ Naming(g)
                      /\ b = [id |-> threads[g].id, seq |-> threads[g].seq,
                              plan |-> threads[g].plan]
           /\ \A q \in requests : [id |-> q.id, seq |-> q.seq, plan |-> q.plan] \in Bearers
           /\ \A g \in Generations :
                Naming(g) => [id |-> threads[g].id, seq |-> threads[g].seq,
                              plan |-> threads[g].plan] \in Bearers
<1>1. /\ \A b \in Bearers :
            \/ \E q \in requests : b = [id |-> q.id, seq |-> q.seq, plan |-> q.plan]
            \/ \E g \in Generations :
                  /\ Naming(g)
                  /\ b = [id |-> threads[g].id, seq |-> threads[g].seq,
                          plan |-> threads[g].plan]
      /\ \A q \in requests : [id |-> q.id, seq |-> q.seq, plan |-> q.plan] \in Bearers
      /\ \A g \in Generations :
            Naming(g) => [id |-> threads[g].id, seq |-> threads[g].seq,
                          plan |-> threads[g].plan] \in Bearers
    BY DEF Bearers
<1>2. \A q \in requests : q.id \in Recoveries
    BY RequestIs
<1>3. \A g \in Generations : Naming(g) => threads[g].id \in Recoveries
    BY DEF Typed, NamesSet, Naming
<1>4. \A b \in Bearers : b.id \in Recoveries
    BY <1>1, <1>2, <1>3
<1>5. QED
    BY <1>1, <1>4, RecoveriesAre

\* Requests and threads that name no recovery of their own.
LEMMA BearersShrink ==
    ASSUME Typed, Typed',
           \A q \in requests' :
              \/ q \in requests
              \/ \E g \in Generations :
                    /\ Naming(g) /\ q.id = threads[g].id
                    /\ q.seq = threads[g].seq /\ q.plan = threads[g].plan,
           \A g \in Generations :
              Naming(g)' =>
                 /\ Naming(g) /\ threads'[g].id = threads[g].id
                 /\ threads'[g].seq = threads[g].seq /\ threads'[g].plan = threads[g].plan
    PROVE  Bearers' \subseteq Bearers
<1> SUFFICES ASSUME NEW b \in Bearers'
             PROVE  b \in Bearers
    OBVIOUS
<1>1. \/ \E q \in requests' : b = [id |-> q.id, seq |-> q.seq, plan |-> q.plan]
      \/ \E g \in Generations :
            /\ Naming(g)'
            /\ b = [id |-> threads'[g].id, seq |-> threads'[g].seq,
                    plan |-> threads'[g].plan]
    BY DEF Bearers, Naming
<1>2. ASSUME NEW q \in requests', b = [id |-> q.id, seq |-> q.seq, plan |-> q.plan]
      PROVE  b \in Bearers
    <2>1. CASE q \in requests
        BY <1>2, <2>1, BearersAre
    <2>2. ASSUME NEW g \in Generations,
                 Naming(g), q.id = threads[g].id,
                 q.seq = threads[g].seq, q.plan = threads[g].plan
          PROVE  b \in Bearers
        BY <1>2, <2>2, BearersAre
    <2>3. QED
        BY <2>1, <2>2
<1>3. ASSUME NEW g \in Generations, Naming(g)',
             b = [id |-> threads'[g].id, seq |-> threads'[g].seq,
                  plan |-> threads'[g].plan]
      PROVE  b \in Bearers
    BY <1>3, BearersAre
<1>4. QED
    BY <1>1, <1>2, <1>3

\* Two bearers of one generation are one; a thread that is to name its recovery
\* is the only one of its generation.
LEMMA OneBearer ==
    ASSUME Inv, Requested
    PROVE  /\ \A b, c \in Bearers : Gen(b.id) = Gen(c.id) => b = c
           /\ \A g \in Generations : Naming(g) => Gen(threads[g].id) = g
           /\ \A g \in Generations, b \in Bearers :
                 threads[g].pc = "start" => Gen(b.id) # g
           /\ \A q \in requests : threads[Gen(q.id)].pc # "idle" => Matches(q)
<1>1. Typed /\ ThreadsOwned
    BY DEF Inv, Supervised
<1>2. \A g \in Generations : Naming(g) => Gen(threads[g].id) = g
    BY <1>1 DEF ThreadsOwned, Naming
<1>3. \A q \in requests :
          /\ Gen(q.id) \in Generations
          /\ threads[Gen(q.id)].pc # "idle" =>
                /\ Matches(q) /\ q.op \in Operations
                /\ [id |-> q.id, seq |-> q.seq, plan |-> q.plan] =
                     [id |-> threads[Gen(q.id)].id, seq |-> threads[Gen(q.id)].seq,
                      plan |-> threads[Gen(q.id)].plan]
                /\ threads[Gen(q.id)].pc = q.op
    BY <1>1, RequestIs DEF Requested, Orphan, Matches, Attempt
<1>4. \A q \in requests, g \in Generations :
          Naming(g) /\ Gen(q.id) = g =>
             [id |-> q.id, seq |-> q.seq, plan |-> q.plan] =
                [id |-> threads[g].id, seq |-> threads[g].seq, plan |-> threads[g].plan]
    BY <1>3 DEF Naming
<1>5. \A b, c \in Bearers : Gen(b.id) = Gen(c.id) => b = c
    <2> SUFFICES ASSUME NEW b \in Bearers, NEW c \in Bearers, Gen(b.id) = Gen(c.id)
                 PROVE  b = c
        OBVIOUS
    <2>1. CASE \E p \in requests : b = [id |-> p.id, seq |-> p.seq, plan |-> p.plan]
        <3>1. PICK p \in requests : b = [id |-> p.id, seq |-> p.seq, plan |-> p.plan]
            BY <2>1
        <3>2. ASSUME NEW q \in requests, c = [id |-> q.id, seq |-> q.seq, plan |-> q.plan]
              PROVE  b = c
            BY <3>1, <3>2 DEF Requested
        <3>3. ASSUME NEW g \in Generations, Naming(g),
                     c = [id |-> threads[g].id, seq |-> threads[g].seq,
                          plan |-> threads[g].plan]
              PROVE  b = c
            BY <1>2, <1>4, <3>1, <3>3
        <3>4. QED
            BY <1>1, <3>2, <3>3, BearersAre
    <2>2. CASE \E g \in Generations :
                  /\ Naming(g)
                  /\ b = [id |-> threads[g].id, seq |-> threads[g].seq,
                          plan |-> threads[g].plan]
        <3>1. PICK g \in Generations :
                  /\ Naming(g)
                  /\ b = [id |-> threads[g].id, seq |-> threads[g].seq,
                          plan |-> threads[g].plan]
            BY <2>2
        <3>2. ASSUME NEW q \in requests, c = [id |-> q.id, seq |-> q.seq, plan |-> q.plan]
              PROVE  b = c
            BY <1>2, <1>4, <3>1, <3>2
        <3>3. ASSUME NEW h \in Generations, Naming(h),
                     c = [id |-> threads[h].id, seq |-> threads[h].seq,
                          plan |-> threads[h].plan]
              PROVE  b = c
            BY <1>2, <3>1, <3>3
        <3>4. QED
            BY <1>1, <3>2, <3>3, BearersAre
    <2>3. QED
        BY <1>1, <2>1, <2>2, BearersAre
<1>6. ASSUME NEW g \in Generations, NEW b \in Bearers, threads[g].pc = "start"
      PROVE  Gen(b.id) # g
    <2>1. ASSUME NEW q \in requests, b = [id |-> q.id, seq |-> q.seq, plan |-> q.plan]
          PROVE  Gen(b.id) # g
        BY <1>3, <1>6, <2>1 DEF Operations
    <2>2. ASSUME NEW h \in Generations, Naming(h),
                 b = [id |-> threads[h].id, seq |-> threads[h].seq,
                      plan |-> threads[h].plan]
          PROVE  Gen(b.id) # g
        BY <1>2, <1>6, <2>2 DEF Naming
    <2>3. QED
        BY <1>1, <2>1, <2>2, BearersAre
<1>7. QED
    BY <1>2, <1>3, <1>5, <1>6

LEMMA OrderedStays ==
    ASSUME Ordered, UNCHANGED <<supervisor, threads, requests, served>>
    PROVE  Ordered'
BY DEF Ordered, Requested, InOrder, Bearers, Naming, Known, Index, Matches, Orphan, Attempt,
       IsServed

\* What the names of bearers and of served operations are, is enough for Requested.
LEMMA RequestedBy ==
    ASSUME Typed, Typed',
           \A q \in requests' : Known(q.id)',
           \A g \in Generations : Naming(g)' => Known(threads[g].id)',
           \A s \in served' : Known(s[1])',
           \A q \in requests' : Matches(q)' \/ Orphan(q)',
           \A p, q \in requests' : Gen(p.id) = Gen(q.id) => p = q
    PROVE  Requested'
<1>1. ASSUME NEW b \in Bearers'
      PROVE  Known(b.id)'
    <2>1. \/ \E q \in requests' : b = [id |-> q.id, seq |-> q.seq, plan |-> q.plan]
          \/ \E g \in Generations :
                /\ Naming(g)'
                /\ b = [id |-> threads'[g].id, seq |-> threads'[g].seq,
                        plan |-> threads'[g].plan]
        BY DEF Bearers, Naming
    <2>2. QED
        BY <2>1
<1>2. QED
    BY <1>1 DEF Requested

\* A request is answered.
LEMMA OrderedServe ==
    ASSUME Inv, Typed', Ordered, NEW q \in requests, NEW ok \in BOOLEAN, Reply(q, ok),
           supervisor' = supervisor,
           served' = served \/ served' = served \cup {<<q.id, q.op>>},
           ok /\ q.op \in {"cancel", "replan"} => <<q.id, q.op>> \in served'
    PROVE  /\ Ordered' /\ Bearers' \subseteq Bearers
           /\ \A g \in Generations : threads'[g].pc = threads[g].pc
<1>1. Typed /\ Requested /\ InOrder
    BY DEF Inv, Ordered
<1>2. /\ requests' = requests \ {q}
      /\ \A g \in Generations :
                /\ threads'[g].pc = threads[g].pc /\ threads'[g].id = threads[g].id
                /\ threads'[g].seq = threads[g].seq
                /\ threads'[g].plan = threads[g].plan
                /\ threads'[g].answer =
                     IF Attempt(q) /\ g = Gen(q.id) THEN IF ok THEN "ok" ELSE "failed"
                     ELSE threads[g].answer
                /\ ~(Attempt(q) /\ g = Gen(q.id)) => threads'[g] = threads[g]
    BY <1>1, ReplyIs
<1>3. Bearers' \subseteq Bearers
    <2>1. \A p \in requests' : p \in requests
        BY <1>2
    <2>2. \A g \in Generations :
              Naming(g)' =>
                 /\ Naming(g) /\ threads'[g].id = threads[g].id
                 /\ threads'[g].seq = threads[g].seq /\ threads'[g].plan = threads[g].plan
        BY <1>2 DEF Naming
    <2>3. QED
        BY <1>1, <2>1, <2>2, BearersShrink
<1>4. /\ q.id \in Recoveries /\ Gen(q.id) \in Generations
      /\ \E b \in Bearers : b.id = q.id
    BY <1>1, RequestIs, BearersAre
<1>5. \A id \in Recoveries : Known(id) => Known(id)'
    BY <1>2, RecoveriesAre DEF Known, Index
<1>6. Requested'
    <2>1. \A b \in Bearers' : Known(b.id)'
        BY <1>1, <1>3, <1>5, BearersAre DEF Requested
    <2>2. ASSUME NEW s \in served' PROVE Known(s[1])'
        <3>1. CASE s \in served
            BY <1>1, <1>5, <3>1 DEF Requested, Typed
        <3>2. CASE s = <<q.id, q.op>>
            BY <1>1, <1>4, <1>5, <3>2 DEF Requested
        <3>3. QED
            BY <3>1, <3>2
    <2>3. ASSUME NEW p \in requests' PROVE Matches(p)' \/ Orphan(p)'
        <3>1. p \in requests /\ p # q /\ Gen(p.id) \in Generations /\ Gen(p.id) # Gen(q.id)
            BY <1>1, <1>2, RequestIs DEF Requested
        <3>2. threads'[Gen(p.id)] = threads[Gen(p.id)]
            BY <1>2, <3>1
        <3>3. QED
            BY <1>1, <3>1, <3>2 DEF Requested, Matches, Attempt, Orphan
    <2>4. \A p, r \in requests' : Gen(p.id) = Gen(r.id) => p = r
        BY <1>1, <1>2 DEF Requested
    <2>5. QED
        BY <2>1, <2>2, <2>3, <2>4 DEF Requested
<1>7. InOrder'
    <2>1. served \subseteq served'
        OBVIOUS
    <2>2. \A id \in Recoveries : IsServed(id, "replan")' => IsServed(id, "cancel")'
        <3> SUFFICES ASSUME NEW id \in Recoveries, <<id, "replan">> \in served'
                     PROVE  <<id, "cancel">> \in served'
            BY DEF IsServed
        <3>1. CASE <<id, "replan">> \in served
            BY <1>1, <2>1, <3>1 DEF InOrder, IsServed
        <3>2. CASE <<id, "replan">> = <<q.id, q.op>>
            <4>1. q.op = "replan" /\ id = q.id
                BY <3>2
            <4>2. QED
                BY <1>1, <2>1, <4>1 DEF InOrder, IsServed
        <3>3. QED
            BY <3>1, <3>2
    <2>3. \A p \in requests' :
             /\ p.op # "cancel" => IsServed(p.id, "cancel")'
             /\ p.op \in {"clear", "arm"} => IsServed(p.id, "replan")'
        BY <1>1, <1>2, <2>1 DEF InOrder, IsServed
    <2>4. ASSUME NEW g \in Generations
          PROVE  /\ \/ threads'[g].pc \in {"replan", "clear", "spinning", "arm"}
                    \/ threads'[g].pc = "cancel" /\ threads'[g].answer = "ok"
                    => <<threads'[g].id, "cancel">> \in served'
                 /\ \/ threads'[g].pc \in {"clear", "spinning", "arm"}
                    \/ threads'[g].pc = "replan" /\ threads'[g].answer = "ok"
                    => <<threads'[g].id, "replan">> \in served'
        <3>1. CASE Attempt(q) /\ g = Gen(q.id) /\ ok
            <4>1. threads[g].pc = q.op /\ threads[g].id = q.id
                BY <3>1 DEF Attempt
            <4>2. QED
                BY <1>1, <1>2, <2>1, <3>1, <4>1 DEF InOrder, IsServed
        <3>2. CASE ~(Attempt(q) /\ g = Gen(q.id) /\ ok)
            <4>1. threads'[g].answer = "ok" => threads[g].answer = "ok"
                BY <1>2, <3>2
            <4>2. QED
                BY <1>1, <1>2, <2>1, <4>1 DEF InOrder, IsServed
        <3>3. QED
            BY <3>1, <3>2
    <2>5. QED
        BY <2>2, <2>3, <2>4 DEF InOrder, IsServed
<1>8. QED
    BY <1>2, <1>3, <1>6, <1>7 DEF Ordered

\* A thread goes on, or ends, with no request of its own under way.
LEMMA OrderedThread ==
    ASSUME Inv, Typed', Ordered, NEW g \in Generations, NEW t,
           threads' = [threads EXCEPT ![g] = t], t.pc # "start",
           UNCHANGED <<served, requests>>,
           supervisor'.gen = supervisor.gen, Index' = Index,
           \A q \in requests : Gen(q.id) = g => t.pc = "idle" /\ supervisor.gen > g,
           t.pc # "idle" => t.id \in Recoveries /\ Gen(t.id) = g /\ Known(t.id)',
           \/ t.pc \in {"replan", "clear", "spinning", "arm"}
           \/ t.pc = "cancel" /\ t.answer = "ok"
           => IsServed(t.id, "cancel"),
           \/ t.pc \in {"clear", "spinning", "arm"}
           \/ t.pc = "replan" /\ t.answer = "ok"
           => IsServed(t.id, "replan")
    PROVE  Ordered'
<1>1. Typed /\ Requested /\ InOrder /\ threads \in [Generations -> Threads]
    BY DEF Inv, Ordered, Typed
<1>2. threads'[g] = t /\ \A h \in Generations : h # g => threads'[h] = threads[h]
    BY <1>1
<1>3. \A id \in Recoveries : Known(id) => Known(id)'
    <2> SUFFICES ASSUME NEW id \in Recoveries, Known(id)
                 PROVE  Known(id)'
        OBVIOUS
    <2>1. threads'[Gen(id)].pc = "start" => threads[Gen(id)].pc = "start"
        BY <1>2, RecoveriesAre
    <2>2. QED
        BY <2>1 DEF Known
<1>4. Requested'
    <2>1. \A q \in requests' : Known(q.id)'
        <3>1. \A q \in requests : q.id \in Recoveries /\ Known(q.id)
            BY <1>1, RequestIs, BearersAre DEF Requested
        <3>2. QED
            BY <1>3, <3>1
    <2>2. ASSUME NEW h \in Generations, Naming(h)'
          PROVE  Known(threads[h].id)'
        <3>1. CASE h = g
            BY <1>2, <2>2, <3>1 DEF Naming, Known
        <3>2. CASE h # g
            <4>1. Naming(h) /\ threads'[h].id = threads[h].id
                BY <1>2, <2>2, <3>2 DEF Naming
            <4>2. threads[h].id \in Recoveries /\ Known(threads[h].id)
                <5>1. PICK b \in Bearers : b.id = threads[h].id
                    BY <1>1, <4>1, BearersAre
                <5>2. QED
                    BY <1>1, <5>1, BearersAre DEF Requested
            <4>3. QED
                BY <1>3, <4>1, <4>2 DEF Known
        <3>3. QED
            BY <3>1, <3>2
    <2>3. \A s \in served' : Known(s[1])'
        <3>1. \A s \in served : s[1] \in Recoveries
            BY <1>1 DEF Typed
        <3>2. QED
            BY <1>1, <1>3, <3>1 DEF Requested
    <2>4. ASSUME NEW q \in requests' PROVE Matches(q)' \/ Orphan(q)'
        <3>1. q \in requests /\ Gen(q.id) \in Generations
            BY <1>1, RequestIs
        <3>2. CASE Gen(q.id) = g
            BY <1>2, <3>1, <3>2 DEF Orphan
        <3>3. CASE Gen(q.id) # g
            <4>1. threads'[Gen(q.id)] = threads[Gen(q.id)]
                BY <1>2, <3>1, <3>3
            <4>2. QED
                BY <1>1, <3>1, <4>1 DEF Requested, Matches, Attempt, Orphan
        <3>4. QED
            BY <3>2, <3>3
    <2>5. \A p, q \in requests' : Gen(p.id) = Gen(q.id) => p = q
        BY <1>1 DEF Requested
    <2>6. QED
        BY <1>1, <2>1, <2>2, <2>3, <2>4, <2>5, RequestedBy
<1>5. InOrder'
    <2>1. ASSUME NEW h \in Generations
          PROVE  /\ \/ threads'[h].pc \in {"replan", "clear", "spinning", "arm"}
                    \/ threads'[h].pc = "cancel" /\ threads'[h].answer = "ok"
                    => <<threads'[h].id, "cancel">> \in served'
                 /\ \/ threads'[h].pc \in {"clear", "spinning", "arm"}
                    \/ threads'[h].pc = "replan" /\ threads'[h].answer = "ok"
                    => <<threads'[h].id, "replan">> \in served'
        <3>1. CASE h = g
            <4>1. threads'[h] = t
                BY <1>2, <3>1
            <4>2. served' = served
                OBVIOUS
            <4>3. QED
                BY <4>1, <4>2, SMT DEF IsServed
        <3>2. CASE h # g
            BY <1>1, <1>2, <3>2 DEF InOrder, IsServed
        <3>3. QED
            BY <3>1, <3>2
    <2>2. QED
        BY <1>1, <2>1 DEF InOrder, IsServed
<1>6. QED
    BY <1>4, <1>5 DEF Ordered

\* The bearers stay, and no thread is launched but that of generation started
\* (-1: none).
Going(started) ==
    /\ Ordered' /\ Bearers' \subseteq Bearers
    /\ \A g \in Generations :
          threads'[g].pc = "start" => threads[g].pc = "start" \/ g = started

LEMMA ThreadGoing ==
    ASSUME Inv, Typed', Ordered, NEW g \in Generations, NEW t,
           threads' = [threads EXCEPT ![g] = t], t.pc # "start",
           UNCHANGED <<served, requests>>,
           supervisor'.gen = supervisor.gen, Index' = Index,
           \A q \in requests : Gen(q.id) = g => t.pc = "idle" /\ supervisor.gen > g,
           t.pc # "idle" =>
              /\ Naming(g) /\ t.id = threads[g].id
              /\ t.seq = threads[g].seq /\ t.plan = threads[g].plan,
           \/ t.pc \in {"replan", "clear", "spinning", "arm"}
           \/ t.pc = "cancel" /\ t.answer = "ok"
           => IsServed(t.id, "cancel"),
           \/ t.pc \in {"clear", "spinning", "arm"}
           \/ t.pc = "replan" /\ t.answer = "ok"
           => IsServed(t.id, "replan")
    PROVE  Going(-1)
<1>1. Typed /\ Requested /\ threads \in [Generations -> Threads]
    BY DEF Inv, Ordered, Typed
<1>2. threads'[g] = t /\ \A h \in Generations : h # g => threads'[h] = threads[h]
    BY <1>1
<1>3. t.pc # "idle" => t.id \in Recoveries /\ Gen(t.id) = g /\ Known(t.id)'
    <2> SUFFICES ASSUME t.pc # "idle"
                 PROVE  t.id \in Recoveries /\ Gen(t.id) = g /\ Known(t.id)'
        OBVIOUS
    <2>1. Gen(t.id) = g
        BY OneBearer DEF Ordered
    <2>2. PICK b \in Bearers : b.id = t.id
        BY <1>1, BearersAre
    <2>3. t.id \in Recoveries /\ Known(t.id)
        BY <1>1, <2>2, BearersAre DEF Requested
    <2>4. QED
        BY <1>2, <2>1, <2>3 DEF Known
<1>4. Ordered'
    BY <1>3, OrderedThread
<1>5. Bearers' \subseteq Bearers
    <2>1. \A h \in Generations :
              Naming(h)' =>
                 /\ Naming(h) /\ threads'[h].id = threads[h].id
                 /\ threads'[h].seq = threads[h].seq /\ threads'[h].plan = threads[h].plan
        BY <1>2 DEF Naming
    <2>2. \A q \in requests' : q \in requests
        OBVIOUS
    <2>3. QED
        BY <1>1, <2>1, <2>2, BearersShrink
<1>6. QED
    BY <1>2, <1>4, <1>5 DEF Going

\* A thread that does not wait has no request, unless it is gone.
LEMMA NoRequest ==
    ASSUME Inv, Requested, NEW g \in Generations,
           threads[g].pc # "idle",
           threads[g].answer # "wait" \/ threads[g].pc \notin Operations
    PROVE  \A q \in requests : Gen(q.id) # g
<1>1. \A q \in requests : Gen(q.id) \in Generations /\ q.op \in Operations
    BY RequestIs DEF Inv
<1>2. \A q \in requests : threads[Gen(q.id)].pc # "idle" => Matches(q)
    BY OneBearer
<1>3. \A q \in requests :
         Matches(q) => threads[Gen(q.id)].answer = "wait" /\ threads[Gen(q.id)].pc = q.op
    BY DEF Matches, Attempt
<1>4. QED
    BY <1>1, <1>2, <1>3

LEMMA SendGoing ==
    ASSUME Inv, Typed', Ordered, NEW g \in Generations, Send(g)
    PROVE  Going(-1)
<1> DEFINE t == threads[g]
           op == NextOperation(t)
           try == IF t.answer = "ok" THEN 1 ELSE t.tries + 1
           q == [id |-> t.id, seq |-> t.seq, plan |-> t.plan, op |-> op,
                 try |-> try]
           s == [t EXCEPT !.pc = op, !.tries = try, !.answer = "wait"]
<1>1. /\ t \in Threads /\ t.pc \in Operations /\ op \in Operations
      /\ t.id \in Recoveries /\ Gen(t.id) = g
      /\ requests' = requests \cup {q} /\ q \in Requests
      /\ threads' = [threads EXCEPT ![g] = s] /\ s \in Threads
      /\ s.pc = op /\ s.id = t.id /\ s.seq = t.seq /\ s.plan = t.plan
      /\ s.tries = try /\ s.answer = "wait"
    BY SendIs DEF Inv, Supervised
<1>2. /\ q.id = t.id /\ q.seq = t.seq /\ q.plan = t.plan /\ q.op = op /\ q.try = try
      /\ t.answer # "wait" /\ t.pc # "idle" /\ Naming(g)
    BY <1>1 DEF Send, Operations, Naming
<1>3. /\ t.answer # "ok" => op = t.pc
      /\ t.answer = "ok" =>
           /\ t.pc = "cancel" => op = "replan"
           /\ t.pc = "replan" => op = "clear"
           /\ t.pc = "clear" => op = "arm"
           /\ t.pc # "arm"
    <2>1. "spin" \notin Operations /\ "end" \notin Operations
        BY DEF Operations
    <2>2. QED
        BY <1>1, <2>1, NextOperationIs
<1> HIDE DEF op, try, q, s
<1>4. Typed /\ Requested /\ InOrder /\ threads \in [Generations -> Threads]
    BY DEF Inv, Ordered, Typed
<1>5. threads'[g] = s /\ \A h \in Generations : h # g => threads'[h] = threads[h]
    BY <1>1, <1>4
<1>6. \A p \in requests : Gen(p.id) # g
    BY <1>2, <1>4, NoRequest
<1>7. /\ op # "cancel" => IsServed(t.id, "cancel")
      /\ op \in {"clear", "arm"} => IsServed(t.id, "replan")
    BY <1>1, <1>3, <1>4 DEF InOrder, Operations
<1>8. UNCHANGED <<served, supervisor>> /\ Index' = Index
    BY DEF Send, Index
<1>9. \A id \in Recoveries : Known(id) => Known(id)'
    <2>1. s.pc # "start"
        BY <1>1 DEF Operations
    <2> SUFFICES ASSUME NEW id \in Recoveries, Known(id)
                 PROVE  Known(id)'
        OBVIOUS
    <2>2. threads'[Gen(id)].pc = "start" => threads[Gen(id)].pc = "start"
        BY <1>5, <2>1, RecoveriesAre
    <2>3. QED
        BY <1>8, <2>2 DEF Known
<1>10. Bearers' \subseteq Bearers
    <2>1. \A h \in Generations :
              Naming(h)' =>
                 /\ Naming(h) /\ threads'[h].id = threads[h].id
                 /\ threads'[h].seq = threads[h].seq /\ threads'[h].plan = threads[h].plan
        BY <1>1, <1>2, <1>5 DEF Naming
    <2>2. \A p \in requests' :
              \/ p \in requests
              \/ \E h \in Generations :
                    /\ Naming(h) /\ p.id = threads[h].id
                    /\ p.seq = threads[h].seq /\ p.plan = threads[h].plan
        BY <1>1, <1>2
    <2>3. QED
        BY <1>4, <2>1, <2>2, BearersShrink
<1>11. Requested'
    <2>1. \A b \in Bearers' : Known(b.id)'
        BY <1>4, <1>9, <1>10, BearersAre DEF Requested
    <2>2. \A x \in served' : Known(x[1])'
        <3>1. \A x \in served : x[1] \in Recoveries
            BY <1>4 DEF Typed
        <3>2. QED
            BY <1>4, <1>8, <1>9, <3>1 DEF Requested
    <2>3. ASSUME NEW p \in requests' PROVE Matches(p)' \/ Orphan(p)'
        <3>1. CASE p = q
            <4>1. Gen(p.id) = g
                BY <1>1, <1>2, <3>1
            <4>2. QED
                BY <1>1, <1>2, <1>5, <3>1, <4>1 DEF Matches, Attempt
        <3>2. CASE p \in requests
            <4>1. Gen(p.id) \in Generations /\ Gen(p.id) # g
                BY <1>4, <1>6, <3>2, RequestIs
            <4>2. threads'[Gen(p.id)] = threads[Gen(p.id)]
                BY <1>5, <4>1
            <4>3. QED
                BY <1>4, <1>8, <3>2, <4>2 DEF Requested, Matches, Attempt, Orphan
        <3>3. QED
            BY <1>1, <3>1, <3>2
    <2>4. \A p, r \in requests' : Gen(p.id) = Gen(r.id) => p = r
        BY <1>1, <1>2, <1>4, <1>6 DEF Requested
    <2>5. QED
        BY <2>1, <2>2, <2>3, <2>4 DEF Requested
<1>12. InOrder'
    <2>1. \A p \in requests' :
             /\ p.op # "cancel" => IsServed(p.id, "cancel")'
             /\ p.op \in {"clear", "arm"} => IsServed(p.id, "replan")'
        BY <1>1, <1>2, <1>4, <1>7, <1>8 DEF InOrder, IsServed
    <2>2. ASSUME NEW h \in Generations
          PROVE  /\ \/ threads'[h].pc \in {"replan", "clear", "spinning", "arm"}
                    \/ threads'[h].pc = "cancel" /\ threads'[h].answer = "ok"
                    => <<threads'[h].id, "cancel">> \in served'
                 /\ \/ threads'[h].pc \in {"clear", "spinning", "arm"}
                    \/ threads'[h].pc = "replan" /\ threads'[h].answer = "ok"
                    => <<threads'[h].id, "replan">> \in served'
        <3>1. served' = served
            BY <1>8
        <3>2. CASE h = g
            <4>1. threads'[h] = s /\ s.answer = "wait" /\ s.pc = op /\ s.id = t.id
                BY <1>1, <1>5, <3>2
            <4>2. op \notin {"start", "idle", "spinning"}
                BY <1>1 DEF Operations
            <4>3. /\ op # "cancel" => <<t.id, "cancel">> \in served'
                  /\ op \in {"clear", "arm"} => <<t.id, "replan">> \in served'
                BY <1>7, <3>1 DEF IsServed
            <4>4. QED
                BY <4>1, <4>2, <4>3
        <3>3. CASE h # g
            BY <1>4, <1>5, <3>1, <3>3 DEF InOrder, IsServed
        <3>4. QED
            BY <3>2, <3>3
    <2>3. QED
        BY <1>4, <1>8, <2>1, <2>2 DEF InOrder, IsServed
<1>13. \A h \in Generations : threads'[h].pc = "start" => threads[h].pc = "start"
    BY <1>1, <1>5 DEF Operations
<1>14. QED
    BY <1>10, <1>11, <1>12, <1>13 DEF Going, Ordered


LEMMA SpinGoing ==
    ASSUME Inv, Typed', Ordered, NEW g \in Generations, SpinStart(g) \/ SpinEnd(g)
    PROVE  Going(-1)
<1>1. /\ Typed /\ Requested /\ InOrder /\ threads[g] \in Threads
      /\ threads[g].pc = "spinning" => threads[g].answer = "none"
    BY DEF Inv, Ordered, Typed, Supervised, ThreadsOwned
<1>2. UNCHANGED <<served, requests, supervisor>> /\ Index' = Index
    BY DEF SpinStart, SpinEnd, Index
<1>3. CASE SpinStart(g)
    <2> DEFINE s == [threads[g] EXCEPT !.pc = "spinning", !.answer = "none", !.tries = 0]
    <2>1. threads[g].answer = "ok" /\ threads[g].pc = "clear"
        <3>1. NextOperation(threads[g]) = "spin" /\ threads[g].pc # "spin"
            BY <1>1, <1>3 DEF SpinStart, Threads, Counters, Operations
        <3>2. QED
            BY <1>1, <3>1, NextOperationIs, SMTT(30)
    <2>2. threads' = [threads EXCEPT ![g] = s]
        BY <1>1, <1>3 DEF SpinStart
    <2>3. /\ s.pc = "spinning" /\ s.id = threads[g].id
          /\ s.seq = threads[g].seq /\ s.plan = threads[g].plan
        BY <1>1 DEF Threads
    <2> HIDE DEF s
    <2>4. \A q \in requests : Gen(q.id) # g
        BY <1>1, <2>1, NoRequest
    <2>5. IsServed(threads[g].id, "cancel") /\ IsServed(threads[g].id, "replan")
        BY <1>1, <2>1 DEF InOrder
    <2>6. Naming(g)
        BY <2>1 DEF Naming
    <2>7. QED
        BY <1>2, <2>2, <2>3, <2>4, <2>5, <2>6, ThreadGoing
<1>4. CASE SpinEnd(g)
    <2> DEFINE s == [threads[g] EXCEPT !.pc = "arm"]
    <2>1. threads[g].pc = "spinning" /\ threads' = [threads EXCEPT ![g] = s]
        BY <1>1, <1>4 DEF SpinEnd
    <2>2. /\ s.pc = "arm" /\ s.id = threads[g].id
          /\ s.seq = threads[g].seq /\ s.plan = threads[g].plan
        BY <1>1 DEF Threads
    <2> HIDE DEF s
    <2>3. \A q \in requests : Gen(q.id) # g
        BY <1>1, <2>1, NoRequest DEF Operations
    <2>4. IsServed(threads[g].id, "cancel") /\ IsServed(threads[g].id, "replan")
        BY <1>1, <2>1 DEF InOrder
    <2>5. Naming(g)
        BY <2>1 DEF Naming
    <2>6. QED
        BY <1>2, <2>1, <2>2, <2>3, <2>4, <2>5, ThreadGoing
<1>5. QED
    BY <1>3, <1>4

\* Without a timeout, a thread that ends has had its answer.
LEMMA EndGoing ==
    ASSUME Inv, Typed', Ordered, NEW g \in Generations,
           Complete(g) \/ Fail(g) \/ LoseOwnership(g)
    PROVE  Going(-1)
<1>1. /\ Typed /\ Requested /\ Supervised /\ threads[g] \in Threads
      /\ threads[g].pc = "spinning" => threads[g].answer = "none"
    BY DEF Inv, Ordered, Typed, Supervised, ThreadsOwned
<1>2. /\ UNCHANGED <<served, requests>> /\ Index' = Index
      /\ supervisor'.gen = supervisor.gen
      /\ threads' = [threads EXCEPT ![g] = NoThread]
      /\ threads[g].pc # "idle"
    <2>1. supervisor' = supervisor
          \/ supervisor' = [supervisor EXCEPT !.active = FALSE, !.path = FALSE]
        BY DEF Complete, Fail, LoseOwnership, End
    <2>2. /\ supervisor'.gen = supervisor.gen
          /\ supervisor'.recoveries = supervisor.recoveries
          /\ supervisor'.refreshes = supervisor.refreshes
        BY <1>1, <2>1 DEF Typed, Supervisors
    <2>3. QED
        BY <2>2 DEF Complete, Fail, LoseOwnership, End, Index, Owner
<1>3. \A q \in requests : Gen(q.id) = g => supervisor.gen > g
    <2>1. CASE LoseOwnership(g)
        <3>1. supervisor.gen # g /\ ~(supervisor.gen < g)
            BY <1>1, <1>2, <2>1 DEF LoseOwnership, Owner, Supervised, ThreadsOwned
        <3>2. supervisor.gen \in Int /\ g \in Int
            BY <1>1, Parts, ConstantsAre
        <3>3. QED
            BY <3>1, <3>2
    <2>2. CASE Complete(g) \/ Fail(g)
        <3>1. threads[g].answer # "wait" \/ threads[g].pc \notin Operations
            <4>1. CASE Complete(g)
                <5>1. NextOperation(threads[g]) = "end" /\ threads[g].pc # "end"
                    BY <1>1, <4>1 DEF Complete, Threads, Counters, Operations
                <5>2. QED
                    BY <1>1, <5>1, NextOperationIs
            <4>2. CASE Fail(g)
                BY <4>2 DEF Fail, Operations
            <4>3. QED
                BY <2>2, <4>1, <4>2
        <3>2. QED
            BY <1>1, <1>2, <3>1, NoRequest
    <2>3. QED
        BY <2>1, <2>2
<1>4. NoThread.pc = "idle" /\ NoThread.answer = "none"
    BY NoThreadIs
<1>5. QED
    BY <1>2, <1>3, <1>4, ThreadGoing

\* A recovery takes a name that no request or served operation bears.
LEMMA BeginNames ==
    ASSUME Inv, Typed', Ordered, NEW g \in Generations, Begin(g)
    PROVE  /\ Ordered'
           /\ \A b \in Bearers' :
                 \/ b \in Bearers
                 \/ /\ b.id = <<g, Index>> /\ Gen(b.id) = g /\ b.id \in Recoveries
                    /\ \A op \in Operations : ~IsServed(b.id, op)
           /\ \A h \in Generations : threads'[h].pc = "start" => threads[h].pc = "start"
           /\ threads[g].pc = "start" /\ supervisor.gen = g
<1> DEFINE s == [threads[g] EXCEPT !.pc = "cancel", !.id = <<g, Index>>,
                                   !.seq = supervisor.seq, !.plan = supervisor.plan]
<1>1. /\ Typed /\ Requested /\ InOrder /\ ThreadsOwned /\ threads[g] \in Threads
      /\ threads \in [Generations -> Threads]
    BY DEF Inv, Ordered, Typed, Supervised
<1>2. /\ threads[g].pc = "start" /\ Owner(g)
      /\ threads' = [threads EXCEPT ![g] = s]
      /\ UNCHANGED <<served, requests, supervisor>>
    BY <1>1 DEF Begin
<1>3. /\ s.pc = "cancel" /\ s.id = <<g, Index>>
      /\ s.seq = supervisor.seq /\ s.plan = supervisor.plan
      /\ s.answer = threads[g].answer
    BY <1>1 DEF Threads
<1>4. supervisor.gen = g /\ <<g, Index>> \in Recoveries /\ Gen(<<g, Index>>) = g
      /\ Index' = Index /\ Index \in Nat /\ <<g, Index>>[2] = Index
    <2>1. Index \in Nat
        BY <1>1, Parts DEF Index
    <2>2. QED
        BY <1>1, <1>2, <2>1, OwnerIs DEF Index
<1> HIDE DEF s
<1>5. threads'[g] = s /\ \A h \in Generations : h # g => threads'[h] = threads[h]
    BY <1>1, <1>2
<1>6. \A q \in requests : Gen(q.id) # g
    <2>1. threads[g].pc \notin Operations /\ threads[g].pc # "idle"
        BY <1>2 DEF Operations
    <2>2. QED
        BY <1>1, <2>1, NoRequest
<1>7. Ordered'
    <2>1. s.answer = "none"
        BY <1>1, <1>2, <1>3 DEF ThreadsOwned
    <2>2. PICK t : t = s
        OBVIOUS
    <2>3. /\ t.pc = "cancel" /\ t.id \in Recoveries /\ Gen(t.id) = g /\ t.id[2] = Index
          /\ threads' = [threads EXCEPT ![g] = t] /\ threads'[g].pc = "cancel"
        BY <1>2, <1>3, <1>4, <1>5, <2>2
    <2>4. supervisor'.gen = supervisor.gen /\ supervisor'.gen = g /\ g \in Int
        BY <1>2, <1>4, ConstantsAre
    <2>5. Known(t.id)'
        BY <1>4, <2>3, <2>4 DEF Known
    <2>6. QED
        BY <1>2, <1>3, <1>4, <1>6, <2>1, <2>2, <2>3, <2>4, <2>5, OrderedThread
<1>8. \A op \in Operations : ~IsServed(<<g, Index>>, op)
    <2> SUFFICES ASSUME NEW op \in Operations, <<<<g, Index>>, op>> \in served
                 PROVE  FALSE
        BY DEF IsServed
    <2>1. Known(<<g, Index>>)
        <3>1. \A s1 \in served : Known(s1[1])
            BY <1>1 DEF Requested
        <3>2. <<<<g, Index>>, op>>[1] = <<g, Index>>
            OBVIOUS
        <3>3. QED
            BY <3>1, <3>2
    <2>2. QED
        BY <1>2, <1>4, <2>1 DEF Known
<1>9. ASSUME NEW b \in Bearers'
      PROVE  b \in Bearers \/ b.id = <<g, Index>>
    <2>1. \/ \E q \in requests' : b = [id |-> q.id, seq |-> q.seq, plan |-> q.plan]
          \/ \E h \in Generations :
                /\ Naming(h)'
                /\ b = [id |-> threads'[h].id, seq |-> threads'[h].seq,
                        plan |-> threads'[h].plan]
        BY DEF Bearers, Naming
    <2>2. ASSUME NEW q \in requests', b = [id |-> q.id, seq |-> q.seq, plan |-> q.plan]
          PROVE  b \in Bearers
        BY <1>1, <1>2, <2>2, BearersAre
    <2>3. ASSUME NEW h \in Generations, Naming(h)',
                 b = [id |-> threads'[h].id, seq |-> threads'[h].seq,
                      plan |-> threads'[h].plan]
          PROVE  b \in Bearers \/ b.id = <<g, Index>>
        <3>1. CASE h = g
            BY <1>3, <1>5, <2>3, <3>1
        <3>2. CASE h # g
            <4>1. Naming(h) /\ threads'[h] = threads[h]
                BY <1>5, <2>3, <3>2 DEF Naming
            <4>2. QED
                BY <1>1, <2>3, <4>1, BearersAre
        <3>3. QED
            BY <3>1, <3>2
    <2>4. QED
        BY <2>1, <2>2, <2>3
<1>10. \A h \in Generations : threads'[h].pc = "start" => threads[h].pc = "start"
    BY <1>3, <1>5
<1>11. QED
    BY <1>2, <1>4, <1>7, <1>8, <1>9, <1>10

\* The supervisor adopts a later generation, or keeps its own.
LEMMA OrderedAdopts ==
    ASSUME Inv, Typed', Ordered, UNCHANGED <<threads, requests, served>>,
           \/ supervisor'.gen = supervisor.gen /\ Index' = Index
           \/ supervisor'.gen > supervisor.gen
    PROVE  Going(-1)
<1>1. Typed /\ Requested /\ InOrder /\ supervisor.gen \in Int /\ supervisor'.gen \in Int
    <2>1. Typed /\ Requested /\ InOrder
        BY DEF Inv, Ordered
    <2>2. supervisor \in Supervisors /\ supervisor' \in Supervisors
        BY <2>1 DEF Typed
    <2>3. QED
        BY <2>1, <2>2 DEF Supervisors
<1>2. Bearers' = Bearers
    BY DEF Bearers, Naming
<1>3. \A id \in Recoveries : Known(id) => Known(id)'
    <2>1. \A id \in Recoveries : Gen(id) \in Int
        BY RecoveriesAre DEF Generations
    <2>2. QED
        BY <1>1, <2>1 DEF Known
<1>4. Requested'
    <2>1. \A b \in Bearers' : Known(b.id)'
        BY <1>1, <1>2, <1>3, BearersAre DEF Requested
    <2>2. \A s \in served' : Known(s[1])'
        <3>1. \A s \in served : s[1] \in Recoveries
            BY <1>1 DEF Typed
        <3>2. QED
            BY <1>1, <1>3, <3>1 DEF Requested
    <2>3. ASSUME NEW q \in requests' PROVE Matches(q)' \/ Orphan(q)'
        <3>1. q \in requests /\ Gen(q.id) \in Int
            <4>1. q \in requests
                OBVIOUS
            <4>2. Gen(q.id) \in Generations
                BY <1>1, <4>1, RequestIs
            <4>3. QED
                BY <4>1, <4>2 DEF Generations
        <3>2. Orphan(q) => Orphan(q)'
            BY <1>1, <3>1 DEF Orphan
        <3>3. Matches(q) => Matches(q)'
            BY DEF Matches, Attempt
        <3>4. QED
            BY <1>1, <3>1, <3>2, <3>3 DEF Requested
    <2>4. \A p, q \in requests' : Gen(p.id) = Gen(q.id) => p = q
        BY <1>1 DEF Requested
    <2>5. QED
        BY <2>1, <2>2, <2>3, <2>4 DEF Requested
<1>5. InOrder'
    BY <1>1 DEF InOrder, IsServed
<1>6. QED
    BY <1>2, <1>4, <1>5 DEF Going, Ordered

\* A recovery is launched: its thread has named nothing yet.
LEMMA OrderedLaunch ==
    ASSUME Inv, Typed', Ordered, Watching, NEW full \in BOOLEAN, Launch(full),
           UNCHANGED <<requests, served>>,
           supervisor'.gen = supervisor.gen, Index' = Index + 1
    PROVE  Going(supervisor.gen)
<1> DEFINE g == supervisor.gen
<1>1. /\ Typed /\ Requested /\ InOrder /\ threads \in [Generations -> Threads]
      /\ ThreadsOwned /\ g \in Generations /\ g \in Int /\ Index \in Int
    <2>1. Typed /\ Requested /\ InOrder /\ ThreadsOwned
        BY DEF Inv, Ordered, Supervised
    <2>2. threads \in [Generations -> Threads]
        BY <2>1 DEF Typed
    <2>3. g \in Generations /\ g \in Int
        BY <2>1, Parts DEF Watching
    <2>4. Index \in Int
        <3>1. supervisor.recoveries \in Nat /\ supervisor.refreshes \in Nat
            BY <2>1, Parts
        <3>2. QED
            BY <3>1 DEF Index
    <2>5. QED
        BY <2>1, <2>2, <2>3, <2>4
<1>2. threads[g].pc = "idle"
    BY <1>1 DEF Watching, ThreadsOwned
<1>3. PICK t : /\ t = [NoThread EXCEPT !.pc = "start", !.full = full]
               /\ threads' = [threads EXCEPT ![g] = t]
    BY DEF Launch
<1>4. t.pc = "start"
    BY <1>3 DEF NoThread
<1> HIDE DEF g
<1>5. threads'[g] = t /\ \A h \in Generations : h # g => threads'[h] = threads[h]
    BY <1>1, <1>3
<1>6. \A q \in requests : Gen(q.id) \in Generations /\ Gen(q.id) # g
    <2> SUFFICES ASSUME NEW q \in requests
                 PROVE  Gen(q.id) \in Generations /\ Gen(q.id) # g
        OBVIOUS
    <2>1. Gen(q.id) \in Generations /\ q.op \in Operations
        BY <1>1, RequestIs
    <2>2. Gen(q.id) = g => ~Matches(q)
        BY <1>2, <2>1 DEF Matches, Attempt, Operations
    <2>3. Gen(q.id) = g => ~Orphan(q)
        BY <1>1 DEF Orphan, g
    <2>4. QED
        BY <1>1, <2>1, <2>2, <2>3 DEF Requested
<1>7. Bearers' \subseteq Bearers
    <2>1. \A h \in Generations :
              Naming(h)' =>
                 /\ Naming(h) /\ threads'[h].id = threads[h].id
                 /\ threads'[h].seq = threads[h].seq /\ threads'[h].plan = threads[h].plan
        BY <1>4, <1>5 DEF Naming
    <2>2. \A q \in requests' : q \in requests
        OBVIOUS
    <2>3. QED
        BY <1>1, <2>1, <2>2, BearersShrink
<1>8. ASSUME NEW id \in Recoveries, Known(id)
      PROVE  Known(id)'
    <2>1. id[2] \in Int /\ Gen(id) \in Generations
        BY RecoveriesAre
    <2>2. supervisor'.gen = g /\ Index' = Index + 1
        BY DEF g
    <2>3. Gen(id) <= g /\ (Gen(id) = g => id[2] <= Index)
        BY <1>8 DEF Known, g
    <2>4. Gen(id) = g => id[2] < Index + 1
        BY <1>1, <2>1, <2>3
    <2>5. QED
        BY <1>1, <2>1, <2>2, <2>3, <2>4 DEF Known
<1>9. Requested'
    <2>1. \A b \in Bearers' : Known(b.id)'
        BY <1>1, <1>7, <1>8, BearersAre DEF Requested
    <2>2. \A s \in served' : Known(s[1])'
        <3>1. \A s \in served : s[1] \in Recoveries
            BY <1>1 DEF Typed
        <3>2. QED
            BY <1>1, <1>8, <3>1 DEF Requested
    <2>3. ASSUME NEW q \in requests' PROVE Matches(q)' \/ Orphan(q)'
        <3>1. q \in requests /\ threads'[Gen(q.id)] = threads[Gen(q.id)]
            BY <1>5, <1>6
        <3>2. QED
            BY <1>1, <3>1 DEF Requested, Matches, Attempt, Orphan
    <2>4. \A p, q \in requests' : Gen(p.id) = Gen(q.id) => p = q
        BY <1>1 DEF Requested
    <2>5. QED
        BY <2>1, <2>2, <2>3, <2>4 DEF Requested
<1>10. InOrder'
    <2>1. ASSUME NEW h \in Generations
          PROVE  /\ \/ threads'[h].pc \in {"replan", "clear", "spinning", "arm"}
                    \/ threads'[h].pc = "cancel" /\ threads'[h].answer = "ok"
                    => <<threads'[h].id, "cancel">> \in served'
                 /\ \/ threads'[h].pc \in {"clear", "spinning", "arm"}
                    \/ threads'[h].pc = "replan" /\ threads'[h].answer = "ok"
                    => <<threads'[h].id, "replan">> \in served'
        <3>1. CASE h = g
            BY <1>4, <1>5, <3>1
        <3>2. CASE h # g
            BY <1>1, <1>5, <3>2 DEF InOrder, IsServed
        <3>3. QED
            BY <3>1, <3>2
    <2>2. QED
        BY <1>1, <2>1 DEF InOrder, IsServed
<1>11. \A h \in Generations : threads'[h].pc = "start" => threads[h].pc = "start" \/ h = g
    BY <1>5
<1>12. QED
    BY <1>7, <1>9, <1>10, <1>11 DEF Going, Ordered, g

-----------------------------------------------------------------------------
(* The transaction, step by step.                                            *)

\* A name that no server has served an operation of.
Unserved(b) == \A op \in Operations : ~IsServed(b.id, op)

\* Steps of the supervisor and requests that change nothing else.
LEMMA TransactionStays ==
    ASSUME Transaction,
           UNCHANGED <<client, pending, calls, served, expired, adapter, alarms>>,
           \A b \in Bearers' : b \in Bearers \/ Unserved(b),
           PendingBlocks'
    PROVE  Transaction'
<1>1. Latch' = Latch
    BY DEF Latch
<1>2. \A id, op : IsServed(id, op)' <=> IsServed(id, op)
    BY DEF IsServed
<1>3. /\ client' = client /\ pending' = pending /\ calls' = calls
      /\ served' = served /\ expired' = expired /\ adapter' = adapter
      /\ alarms' = alarms
    OBVIOUS
<1>4. "cancel" \in Operations /\ "replan" \in Operations
    BY DEF Operations
<1>5. ASSUME NEW b \in Bearers', IsServed(b.id, "cancel") \/ IsServed(b.id, "replan")
      PROVE  b \in Bearers
    BY <1>4, <1>5 DEF Unserved
<1>6. Reached'
    <2>1. \A s \in served' : Gen(s[1]) <= adapter'.gen
        BY <1>3 DEF Transaction, Reached
    <2>2. ASSUME NEW b \in Bearers', IsServed(b.id, "cancel")
          PROVE  \/ Gen(b.id) < adapter'.gen
                 \/ Gen(b.id) = adapter'.gen /\ b.seq < adapter'.seq
                 \/ AtAdapter(b, adapter.seq) /\ adapter'.goal = None
        <3>1. b \in Bearers
            BY <1>5, <2>2
        <3>2. QED
            BY <1>3, <2>2, <3>1 DEF Transaction, Reached
    <2>3. QED
        BY <1>2, <1>3, <2>1, <2>2 DEF Reached, IsServed, AtAdapter
<1>7. Canceled'
    <2>1. ASSUME NEW b \in Bearers',
                 IsServed(b.id, "cancel"), ~IsServed(b.id, "replan"),
                 client.gen = adapter.gen, AtAdapter(b, adapter.seq)
          PROVE  Latch # None /\ Latch.id = b.id
        <3>1. b \in Bearers
            BY <1>5, <2>1
        <3>2. QED
            BY <2>1, <3>1 DEF Transaction, Canceled
    <2>2. QED
        BY <1>1, <1>3, <2>1 DEF Canceled, IsServed, AtAdapter
<1>8. Linked'
    <2>1. Linked
        BY DEF Transaction
    <2>2. Latch # None => \A b \in Bearers' : b.id = Latch.id => b.seq = Latch.seq
        BY <1>5, <2>1 DEF Linked
    <2>3. pending # None =>
            \A b \in Bearers' : b.id = pending.id => b.plan \in pending.excluded
        BY <1>5, <2>1 DEF Linked
    <2>4. QED
        BY <1>1, <1>3, <2>1, <2>2, <2>3 DEF Linked, IsServed
<1>9. PastCalls' /\ Sampled' /\ LatchToPending' /\ AnsweredOver'
    BY <1>1, <1>3
    DEF Transaction, PastCalls, Sampled, LatchToPending, AnsweredOver, IsServed
<1>10. PendingToLatch' /\ Blamed'
    BY <1>1, <1>3 DEF Transaction, PendingToLatch, Blamed, Timely, Held, Ended
<1>11. QED
    BY <1>6, <1>7, <1>8, <1>9, <1>10 DEF Transaction

\* The bearers, threads and supervisor that a pending replan blocks.
LEMMA BlocksStay ==
    ASSUME Inv, PendingBlocks, UNCHANGED <<client, pending, expired, adapter>>,
           pending # None /\ adapter.goal = None =>
              /\ \A b \in Bearers' : b \in Bearers \/ Gen(b.id) # Gen(pending.id)
              /\ threads'[Gen(pending.id)].pc = "start" =>
                    threads[Gen(pending.id)].pc = "start"
              /\ supervisor'.gen = Gen(pending.id) /\ ~supervisor'.active
                    /\ supervisor'.path
                 => supervisor.gen = Gen(pending.id) /\ ~supervisor.active
                       /\ supervisor.path
    PROVE  PendingBlocks'
<1>1. /\ client' = client /\ pending' = pending /\ expired' = expired
      /\ adapter' = adapter /\ Latch' = Latch
    BY DEF Latch
<1>2. Timely' = Timely /\ Held' = Held /\ Ended' = Ended
    BY <1>1 DEF Timely, Held, Ended
<1> SUFFICES ASSUME Timely, Held, ~Ended
             PROVE  /\ \A b \in Bearers' : Gen(b.id) = Gen(pending.id) => b.id = pending.id
                    /\ threads'[Gen(pending.id)].pc # "start"
                    /\ supervisor'.gen = Gen(pending.id) /\ ~supervisor'.active
                          => ~supervisor'.path
    BY <1>1, <1>2 DEF PendingBlocks
<1>3. pending # None /\ adapter.goal = None
    BY DEF Held
<1>4. QED
    BY <1>3 DEF PendingBlocks

LEMMA CalmSupervisor ==
    ASSUME Inv, Inv', Ordered, Transaction, SupervisorNext, faults = 0, faults' = 0
    PROVE  Ordered' /\ Transaction'
<1>1. /\ Typed /\ Typed' /\ Requested /\ ThreadsOwned /\ PendingBlocks
      /\ threads \in [Generations -> Threads] /\ supervisor \in Supervisors
      /\ pending # None => Gen(pending.id) \in Generations
    <2>1. Typed /\ Typed' /\ Requested /\ ThreadsOwned /\ PendingBlocks
        BY DEF Inv, Ordered, Supervised, Transaction
    <2>2. pending # None => pending.id \in Recoveries
        BY <2>1 DEF Typed, Transactions
    <2>3. QED
        BY <2>1, <2>2, RecoveriesAre DEF Typed
<1>2. UNCHANGED <<client, pending, calls, served, expired, adapter, alarms>>
    BY DEF SupervisorNext, Receive, PathArrives, TickFull, TickRefresh, Begin, Send,
           CallTimeout, SpinStart, SpinEnd, Complete, Fail, LoseOwnership, End
<1>3. ASSUME Going(-1),
             \/ supervisor'.gen = supervisor.gen /\ supervisor'.active = supervisor.active
                   /\ supervisor'.path = supervisor.path
             \/ ~supervisor'.path
             \/ adapter.goal # None
      PROVE  Ordered' /\ Transaction'
    <2>1. /\ Ordered' /\ Bearers' \subseteq Bearers
          /\ \A g \in Generations : threads'[g].pc = "start" => threads[g].pc = "start"
        BY <1>3 DEF Going, Generations
    <2>2. PendingBlocks'
        BY <1>1, <1>2, <1>3, <2>1, BlocksStay
    <2>3. QED
        BY <1>2, <2>1, <2>2, TransactionStays
<1>4. CASE Receive
    <2>1. UNCHANGED <<threads, requests, served>>
        BY <1>4 DEF Receive
    <2>2. \/ /\ supervisor'.gen = supervisor.gen
             /\ supervisor'.active = supervisor.active
             /\ supervisor'.path = supervisor.path
             /\ supervisor'.recoveries = supervisor.recoveries
             /\ supervisor'.refreshes = supervisor.refreshes
          \/ supervisor'.gen > supervisor.gen /\ ~supervisor'.path
        BY <1>1, <1>4, AdoptedIs
    <2>3. \/ supervisor'.gen = supervisor.gen /\ Index' = Index
          \/ supervisor'.gen > supervisor.gen
        BY <2>2 DEF Index
    <2>4. Going(-1)
        BY <1>1, <2>1, <2>3, OrderedAdopts
    <2>5. QED
        BY <1>3, <2>2, <2>4
<1>5. CASE PathArrives
    <2>1. UNCHANGED <<threads, requests, served>> /\ adapter.goal # None
        BY <1>5 DEF PathArrives
    <2>2. supervisor'.gen = supervisor.gen /\ Index' = Index
        BY <1>1, <1>5 DEF PathArrives, Index, Supervisors
    <2>3. Going(-1)
        BY <1>1, <2>1, <2>2, OrderedAdopts
    <2>4. QED
        BY <1>3, <2>1, <2>3
<1>6. CASE TickFull /\ supervisor.recoveries >= MaxRecoveries
    <2>1. /\ UNCHANGED <<threads, requests, served>>
          /\ supervisor' = [supervisor EXCEPT !.terminal = TRUE]
        BY <1>6 DEF TickFull
    <2>2. /\ supervisor'.gen = supervisor.gen /\ Index' = Index
          /\ supervisor'.active = supervisor.active /\ supervisor'.path = supervisor.path
        BY <1>1, <2>1 DEF Index, Supervisors
    <2>3. Going(-1)
        BY <1>1, <2>1, <2>2, OrderedAdopts
    <2>4. QED
        BY <1>3, <2>2, <2>3
<1>7. CASE (TickFull /\ ~(supervisor.recoveries >= MaxRecoveries)) \/ TickRefresh
    <2>1. PICK full \in BOOLEAN :
             /\ Launch(full)
             /\ supervisor' = IF full THEN [supervisor EXCEPT !.active = TRUE,
                                                              !.recoveries = @ + 1]
                              ELSE [supervisor EXCEPT !.active = TRUE, !.refreshes = @ + 1]
        BY <1>7 DEF TickFull, TickRefresh
    <2>2. Watching /\ UNCHANGED <<requests, served>>
        BY <1>7 DEF TickFull, TickRefresh
    <2>3. supervisor.recoveries \in Nat /\ supervisor.refreshes \in Nat
        BY <1>1, Parts
    <2>4. /\ supervisor'.gen = supervisor.gen /\ supervisor'.active
          /\ supervisor'.recoveries + supervisor'.refreshes =
                supervisor.recoveries + supervisor.refreshes + 1
        <3>1. CASE full
            BY <1>1, <2>1, <2>3, <3>1 DEF Supervisors
        <3>2. CASE ~full
            BY <1>1, <2>1, <2>3, <3>2 DEF Supervisors
        <3>3. QED
            BY <3>1, <3>2
    <2>5. Index' = Index + 1
        BY <2>4 DEF Index
    <2>6. Going(supervisor.gen)
        BY <1>1, <2>1, <2>2, <2>4, <2>5, OrderedLaunch
    <2>7. PendingBlocks'
        <3>1. ~supervisor.active /\ supervisor.path
            BY <2>2 DEF Watching
        <3>2. CASE pending # None /\ Gen(pending.id) = supervisor.gen
            <4>1. ~(Timely /\ Held /\ ~Ended)
                BY <3>1, <3>2 DEF Transaction, PendingBlocks
            <4>2. Latch' = Latch
                BY <1>2 DEF Latch
            <4>3. ~(Timely' /\ Held' /\ ~Ended')
                BY <1>2, <4>1, <4>2 DEF Timely, Held, Ended
            <4>4. QED
                BY <4>3 DEF PendingBlocks
        <3>3. CASE ~(pending # None /\ Gen(pending.id) = supervisor.gen)
            <4>1. \A g \in Generations :
                     threads'[g].pc = "start" /\ g # supervisor.gen => threads[g].pc = "start"
                BY <2>6 DEF Going
            <4>2. Bearers' \subseteq Bearers
                BY <2>6 DEF Going
            <4>3. QED
                BY <1>1, <1>2, <2>4, <3>3, <4>1, <4>2, BlocksStay
        <3>4. QED
            BY <3>2, <3>3
    <2>8. Ordered' /\ Bearers' \subseteq Bearers
        BY <2>6 DEF Going
    <2>9. QED
        BY <1>2, <2>7, <2>8, TransactionStays
<1>8. ASSUME NEW g \in Generations, Begin(g)
      PROVE  Ordered' /\ Transaction'
    <2>1. /\ Ordered'
          /\ \A b \in Bearers' :
                b \in Bearers \/ (Gen(b.id) = g /\ Unserved(b))
          /\ \A h \in Generations : threads'[h].pc = "start" => threads[h].pc = "start"
          /\ threads[g].pc = "start"
        BY <1>1, <1>8, BeginNames DEF Unserved
    <2>2. supervisor' = supervisor
        BY <1>8 DEF Begin
    <2>3. PendingBlocks'
        <3>1. CASE pending # None /\ Gen(pending.id) = g
            <4>1. ~(Timely /\ Held /\ ~Ended)
                BY <2>1, <3>1 DEF Transaction, PendingBlocks
            <4>2. Latch' = Latch
                BY <1>2 DEF Latch
            <4>3. ~(Timely' /\ Held' /\ ~Ended')
                BY <1>2, <4>1, <4>2 DEF Timely, Held, Ended
            <4>4. QED
                BY <4>3 DEF PendingBlocks
        <3>2. CASE ~(pending # None /\ Gen(pending.id) = g)
            BY <1>1, <1>2, <2>1, <2>2, <3>2, BlocksStay
        <3>3. QED
            BY <3>1, <3>2
    <2>4. QED
        BY <1>2, <2>1, <2>3, TransactionStays
<1>9. ASSUME NEW g \in Generations, Send(g) \/ SpinStart(g) \/ SpinEnd(g)
      PROVE  Ordered' /\ Transaction'
    <2>1. Going(-1)
        BY <1>1, <1>9, SendGoing, SpinGoing
    <2>2. supervisor' = supervisor
        BY <1>9 DEF Send, SpinStart, SpinEnd
    <2>3. QED
        BY <1>3, <2>1, <2>2
<1>10. ASSUME NEW g \in Generations, Complete(g) \/ Fail(g) \/ LoseOwnership(g)
       PROVE  Ordered' /\ Transaction'
    <2>1. Going(-1)
        BY <1>1, <1>10, EndGoing
    <2>2. supervisor' = supervisor
          \/ supervisor' = [supervisor EXCEPT !.active = FALSE, !.path = FALSE]
        BY <1>10 DEF Complete, Fail, LoseOwnership, End
    <2>3. supervisor' = supervisor \/ ~supervisor'.path
        BY <1>1, <2>2 DEF Supervisors
    <2>4. QED
        BY <1>3, <2>1, <2>3
<1>11. ASSUME NEW g \in Generations, CallTimeout(g)
       PROVE  FALSE
    BY <1>11 DEF CallTimeout, Fault
<1>12. QED
    BY <1>4, <1>5, <1>6, <1>7, <1>8, <1>9, <1>10, <1>11 DEF SupervisorNext

LEMMA SameBearers ==
    ASSUME UNCHANGED <<threads, requests, served>>
    PROVE  Bearers' = Bearers /\ \A id, op : IsServed(id, op)' <=> IsServed(id, op)
BY DEF Bearers, Naming, IsServed

\* The goal ends, between two commands or in the middle of one.
LEMMA GoalCleared ==
    ASSUME Inv, Transaction,
           UNCHANGED <<client, pending, calls, supervisor, threads, requests, served,
                       expired, alarms>>,
           adapter' = [adapter EXCEPT !.goal = None]
    PROVE  Transaction'
<1>1. /\ adapter'.gen = adapter.gen /\ adapter'.seq = adapter.seq
      /\ adapter'.goal = None /\ Latch' = Latch
    BY DEF Inv, Typed, Adapters, Latch
<1>2. Bearers' = Bearers
    BY SameBearers
<1>3. /\ client' = client /\ pending' = pending /\ calls' = calls
      /\ served' = served /\ expired' = expired /\ alarms' = alarms
      /\ supervisor' = supervisor /\ threads' = threads
    OBVIOUS
<1>4. Reached' /\ Canceled'
    BY <1>1, <1>2, <1>3 DEF Transaction, Reached, Canceled, IsServed, AtAdapter
<1>5. Linked' /\ PastCalls' /\ Sampled' /\ LatchToPending' /\ AnsweredOver' /\ Blamed'
    BY <1>1, <1>2, <1>3
    DEF Transaction, Linked, PastCalls, Sampled, LatchToPending, AnsweredOver, Blamed,
        IsServed
<1>6. Timely' = Timely /\ (Held => Held') /\ (Ended => Ended')
    BY <1>1, <1>3 DEF Timely, Held, Ended
<1>7. PendingToLatch'
    BY <1>3, <1>6 DEF Transaction, PendingToLatch
<1>8. PendingBlocks'
    <2>1. Timely' /\ Held' /\ ~Ended' => Timely /\ Held /\ ~Ended
        BY <1>6 DEF Transaction, PendingToLatch
    <2>2. QED
        BY <1>2, <1>3, <2>1 DEF Transaction, PendingBlocks
<1>9. QED
    BY <1>4, <1>5, <1>7, <1>8 DEF Transaction

LEMMA DeadlineCalm ==
    ASSUME Transaction, DeadlinePasses
    PROVE  Transaction'
<1>1. /\ client' = client /\ pending' = pending /\ calls' = calls
      /\ served' = served /\ alarms' = alarms /\ adapter' = adapter
      /\ supervisor' = supervisor /\ threads' = threads /\ requests' = requests
      /\ expired \subseteq expired' /\ expired' # {}
    BY DEF DeadlinePasses
<1>2. Bearers' = Bearers /\ Latch' = Latch
    BY <1>1, SameBearers DEF Latch
<1>3. Reached' /\ Canceled'
    BY <1>1, <1>2 DEF Transaction, Reached, Canceled, IsServed, AtAdapter
<1>4. Linked' /\ PastCalls' /\ Sampled' /\ LatchToPending' /\ AnsweredOver' /\ Blamed'
    BY <1>1, <1>2
    DEF Transaction, Linked, PastCalls, Sampled, LatchToPending, AnsweredOver, Blamed,
        IsServed
<1>5. (Timely' => Timely) /\ Held' = Held /\ Ended' = Ended
    BY <1>1, <1>2 DEF Timely, Held, Ended
<1>6. PendingToLatch' /\ PendingBlocks'
    BY <1>1, <1>2, <1>5 DEF Transaction, PendingToLatch, PendingBlocks
<1>7. QED
    BY <1>3, <1>4, <1>6 DEF Transaction

LEMMA ResetCalm ==
    ASSUME Inv, Positions, Transaction, faults = 0, Reset
    PROVE  Transaction'
<1>1. /\ pending' = pending /\ calls' = calls
      /\ served' = served /\ expired' = expired /\ alarms' = alarms
      /\ supervisor' = supervisor /\ threads' = threads /\ requests' = requests
      /\ client.phase = "idle"
    BY DEF Reset, Idle
<1>2. /\ adapter'.gen = adapter.gen /\ adapter'.seq = adapter.seq
      /\ adapter'.goal = None /\ Latch' = Latch
    BY DEF Reset, Inv, Typed, Adapters, Latch
<1>3. /\ client'.gen = client.gen + 1 /\ client'.phase = "idle"
      /\ client'.sampled = client.sampled
    BY <1>1 DEF Reset, Inv, Typed, Clients
<1>4. client'.gen # adapter'.gen
    BY <1>2, <1>3, Parts DEF Positions, Inv
<1>5. Bearers' = Bearers /\ calls' = {}
    BY <1>1, SameBearers DEF Positions
<1>6. Reached' /\ Canceled'
    BY <1>1, <1>2, <1>4, <1>5 DEF Transaction, Reached, Canceled, IsServed, AtAdapter
<1>7. Linked' /\ PastCalls' /\ Blamed'
    BY <1>1, <1>2, <1>3, <1>5 DEF Transaction, Linked, PastCalls, Blamed, IsServed
<1>8. Sampled' /\ LatchToPending' /\ AnsweredOver'
    BY <1>3, <1>4 DEF Sampled, LatchToPending, AnsweredOver
<1>9. Timely' = Timely /\ (Held => Held') /\ ~Ended
    BY <1>1, <1>2 DEF Timely, Held, Ended
<1>10. PendingToLatch'
    BY <1>1, <1>3, <1>9 DEF Transaction, PendingToLatch
<1>11. PendingBlocks'
    <2>1. Timely' => Timely /\ Held /\ ~Ended
        BY <1>9 DEF Transaction, PendingToLatch
    <2>2. QED
        BY <1>1, <1>5, <2>1 DEF Transaction, PendingBlocks
<1>12. QED
    BY <1>6, <1>7, <1>8, <1>10, <1>11 DEF Transaction

\* A step samples the pending replan, and drops that of another identity.
LEMMA StepCalm ==
    ASSUME Inv, Positions, Transaction, faults = 0, NEW plan \in Commands, Step(plan)
    PROVE  Transaction'
<1>1. /\ served' = served /\ expired' = expired /\ alarms' = alarms
      /\ adapter' = adapter /\ Latch' = Latch
      /\ supervisor' = supervisor /\ threads' = threads /\ requests' = requests
      /\ client.phase = "idle"
    BY DEF Step, Idle, Latch
<1>2. /\ client' = [client EXCEPT !.last = client.last + 1, !.phase = "resolving",
                                  !.plan = plan, !.sampled = Sample(plan)]
      /\ client \in Clients
    BY DEF Step, Inv, Typed
<1>3. /\ client'.gen = client.gen /\ client'.phase = "resolving"
      /\ client'.plan = plan /\ client'.sampled = Sample(plan)
    BY <1>2 DEF Clients
<1>4. /\ pending' # None => pending' = pending /\ Gen(pending.id) = client.gen
      /\ pending' = None => pending = None \/ Gen(pending.id) # client.gen
    BY DEF Step
<1>5. /\ pending' = None => Sample(plan) = None
      /\ pending' # None =>
            /\ Sample(plan).id = pending.id
            /\ Sample(plan).expired = (pending.id \in expired)
            /\ Sample(plan).rejected = (plan = Stop \/ plan \in pending.excluded)
            /\ Sample(plan) # None
    <2>1. pending' = None => Sample(plan) = None
        BY <1>4 DEF Sample
    <2>2. ASSUME pending' # None
          PROVE  /\ Sample(plan).id = pending.id
                 /\ Sample(plan).expired = (pending.id \in expired)
                 /\ Sample(plan).rejected = (plan = Stop \/ plan \in pending.excluded)
                 /\ Sample(plan) # None
        <3>1. Sample(plan) = [id |-> pending.id, expired |-> pending.id \in expired,
                              rejected |-> plan = Stop \/ plan \in pending.excluded]
            BY <1>4, <2>2 DEF Sample
        <3>2. pending.id \in Recoveries
            BY <1>4, <2>2 DEF Inv, Typed, Transactions
        <3>3. /\ (pending.id \in expired) \in BOOLEAN
              /\ (plan = Stop \/ plan \in pending.excluded) \in BOOLEAN
            OBVIOUS
        <3>4. Sample(plan) \in Samples
            BY <3>1, <3>2, <3>3 DEF Samples
        <3>5. QED
            BY <3>1, <3>4, ConstantsAre
    <2>3. QED
        BY <2>1, <2>2
<1>6. Bearers' = Bearers
    BY <1>1, SameBearers
<1>7. Reached' /\ Canceled'
    BY <1>1, <1>3, <1>6 DEF Transaction, Reached, Canceled, IsServed, AtAdapter
<1>8. Linked'
    <2>1. Linked
        BY DEF Transaction
    <2>2. client'.sampled # None => <<client'.sampled.id, "replan">> \in served'
        <3>1. ASSUME client'.sampled # None
              PROVE  <<client'.sampled.id, "replan">> \in served'
            <4>1. pending' # None /\ pending # None /\ client'.sampled.id = pending.id
                BY <1>3, <1>4, <1>5, <3>1
            <4>2. QED
                BY <1>1, <2>1, <4>1 DEF Linked, IsServed
        <3>2. QED
            BY <3>1
    <2>3. QED
        BY <1>1, <1>4, <1>6, <2>1, <2>2 DEF Linked, IsServed
<1>9. PastCalls'
    <2>1. calls = {}
        BY <1>1 DEF Positions
    <2>2. \A r \in calls' : r.past = FALSE
        BY <2>1 DEF Step
    <2>3. QED
        BY <2>2 DEF PastCalls
<1>10. Sampled'
    <2>1. client'.sampled = None <=> pending' = None
        BY <1>3, <1>5
    <2>2. ASSUME pending' # None
          PROVE  /\ Gen(pending'.id) = client'.gen
                 /\ client'.sampled.id = pending'.id
                 /\ client'.sampled.expired => pending'.id \in expired'
                 /\ client'.sampled.rejected <=>
                       client'.plan = Stop \/ client'.plan \in pending'.excluded
        <3>1. pending' = pending /\ Gen(pending.id) = client.gen
            BY <1>4, <2>2
        <3>2. /\ client'.sampled.id = pending.id
              /\ client'.sampled.expired = (pending.id \in expired)
              /\ client'.sampled.rejected = (plan = Stop \/ plan \in pending.excluded)
            BY <1>3, <1>5, <2>2
        <3>3. QED
            BY <1>1, <1>3, <3>1, <3>2
    <2>3. QED
        BY <1>3, <2>1, <2>2 DEF Sampled
<1>11. LatchToPending'
    BY <1>1, <1>3, <1>4 DEF Transaction, LatchToPending, IsServed
<1>12. AnsweredOver' /\ Blamed'
    BY <1>1, <1>3 DEF Transaction, AnsweredOver, Blamed
<1>13. Timely' => Timely /\ Held /\ Held' /\ ~Ended
    BY <1>1, <1>4 DEF Transaction, PendingToLatch, Timely, Held, Ended
<1>14. PendingToLatch'
    BY <1>3, <1>4, <1>13 DEF Transaction, PendingToLatch, Timely
<1>15. PendingBlocks'
    BY <1>1, <1>4, <1>6, <1>13 DEF Transaction, PendingBlocks, Timely
<1>16. QED
    BY <1>7, <1>8, <1>9, <1>10, <1>11, <1>12, <1>14, <1>15 DEF Transaction

\* The answer of a step that sampled the pending replan.
LEMMA FinishCalm ==
    ASSUME Inv, Positions, Transaction, Finish
    PROVE  Transaction'
<1>1. /\ served' = served /\ expired' = expired /\ calls' = calls
      /\ adapter' = adapter /\ Latch' = Latch
      /\ supervisor' = supervisor /\ threads' = threads /\ requests' = requests
      /\ client.phase = "answered"
    BY DEF Finish, Latch
<1>2. /\ client'.gen = client.gen /\ client'.last = client.last
      /\ client'.phase = "idle" /\ client'.sampled = None
    BY SettledIs DEF Inv, Finish
<1>3. /\ client.sampled # None /\ pending # None /\ Gen(pending.id) = client.gen
      /\ client.sampled.id = pending.id
      /\ client.sampled.expired => pending.id \in expired
    BY <1>1 DEF Transaction, Sampled
<1>4. Mine
    BY <1>3 DEF Mine
<1>5. pending \in Transactions
    BY <1>3 DEF Inv, Typed
<1>6. /\ alarms \subseteq alarms'
      /\ pending' # None =>
            pending'.id = pending.id /\ pending.excluded \subseteq pending'.excluded
    <2>1. alarms \subseteq alarms'
        BY DEF Finish, FinishLate, FinishOver, FinishHeld, FinishReleased, FinishRejected,
               FinishFresh
    <2>2. CASE FinishLate \/ FinishOver \/ FinishHeld
        BY <2>2 DEF FinishLate, FinishOver, FinishHeld
    <2>3. CASE FinishReleased \/ FinishRejected
        <3>1. pending' \in {None, pending, [pending EXCEPT !.rejections = Rejections]}
            BY <2>3 DEF FinishReleased, FinishRejected
        <3>2. QED
            BY <1>5, <2>1, <3>1 DEF Transactions
    <2>4. CASE FinishFresh
        <3>1. pending' \in {None, pending,
                            [pending EXCEPT !.excluded = @ \cup {client.plan}]}
            BY <2>4 DEF FinishFresh
        <3>2. QED
            BY <1>5, <2>1, <3>1 DEF Transactions
    <2>5. QED
        BY <2>1, <2>2, <2>3, <2>4 DEF Finish
<1>7. pending' = None =>
        \/ client.sampled.expired
        \/ client.reply \in {"executed", "fallback"}
        \/ "repeated" \in alarms'
    <2>1. CASE FinishLate \/ FinishHeld
        BY <1>3, <2>1 DEF FinishLate, FinishHeld
    <2>2. CASE FinishOver
        BY <2>2 DEF FinishOver
    <2>3. CASE FinishReleased
        <3>1. pending' = [pending EXCEPT !.rejections = Rejections]
            BY <1>4, <2>3 DEF FinishReleased
        <3>2. pending' # None
            <4>1. Rejections \in Nat
                BY <1>4, <1>5 DEF Rejections, Transactions
            <4>2. pending' \in Transactions
                BY <1>5, <3>1, <4>1 DEF Transactions
            <4>3. QED
                BY <4>2, ConstantsAre
        <3>3. QED
            BY <3>2
    <2>4. CASE FinishRejected
        <3>1. CASE Rejections > HoldLimit - 1
            BY <2>4, <3>1 DEF FinishRejected
        <3>2. CASE ~(Rejections > HoldLimit - 1)
            <4>1. pending' = [pending EXCEPT !.rejections = Rejections]
                BY <1>4, <2>4, <3>2 DEF FinishRejected
            <4>2. Rejections \in Nat
                BY <1>4, <1>5 DEF Rejections, Transactions
            <4>3. pending' \in Transactions
                BY <1>5, <4>1, <4>2 DEF Transactions
            <4>4. QED
                BY <4>3, ConstantsAre
        <3>3. QED
            BY <3>1, <3>2
    <2>5. CASE FinishFresh
        <3>1. CASE client.reply = "executed"
            BY <3>1
        <3>2. CASE client.reply # "executed"
            <4>1. pending' = [pending EXCEPT !.excluded = @ \cup {client.plan}]
                BY <1>4, <2>5, <3>2 DEF FinishFresh
            <4>2. client.plan \in Plans
                <5>1. client.plan \in Commands /\ (client.plan = Stop => client.sampled.rejected)
                    BY <1>1, <1>3 DEF Inv, Typed, StepShape
                <5>2. QED
                    BY <2>5, <5>1 DEF FinishFresh, Commands
            <4>3. pending' \in Transactions
                BY <1>5, <4>1, <4>2 DEF Transactions
            <4>4. QED
                BY <4>3, ConstantsAre
        <3>3. QED
            BY <3>1, <3>2
    <2>6. QED
        BY <2>1, <2>2, <2>3, <2>4, <2>5 DEF Finish
<1>8. Bearers' = Bearers
    BY <1>1, SameBearers
<1>9. Reached' /\ Canceled'
    BY <1>1, <1>2, <1>8 DEF Transaction, Reached, Canceled, IsServed, AtAdapter
<1>10. Linked'
    <2>1. Linked
        BY DEF Transaction
    <2>2. pending' # None =>
             /\ <<pending'.id, "replan">> \in served'
             /\ \A b \in Bearers' : b.id = pending'.id => b.plan \in pending'.excluded
        BY <1>1, <1>3, <1>6, <1>8, <2>1 DEF Linked, IsServed
    <2>3. Latch' # None /\ Latch'.armed /\ pending' # None /\ Latch'.id = pending'.id
            => Latch'.excluded \in pending'.excluded
        BY <1>1, <1>3, <1>6, <2>1 DEF Linked
    <2>4. QED
        BY <1>1, <1>2, <1>8, <2>1, <2>2, <2>3 DEF Linked, IsServed
<1>11. PastCalls' /\ Sampled' /\ AnsweredOver'
    BY <1>1, <1>2 DEF Transaction, PastCalls, Sampled, AnsweredOver, IsServed
<1>12. LatchToPending'
    <2> SUFFICES ASSUME Latch # None, <<Latch.id, "replan">> \in served,
                        Latch.id \notin expired, client.gen = adapter.gen,
                        "repeated" \notin alarms'
                 PROVE  pending' # None /\ pending'.id = Latch.id
                        /\ Gen(Latch.id) = client.gen
        BY <1>1, <1>2 DEF LatchToPending, IsServed
    <2>1. pending.id = Latch.id /\ Gen(Latch.id) = client.gen
        BY <1>6 DEF Transaction, LatchToPending, IsServed
    <2>2. ~client.sampled.expired
        BY <1>3, <2>1
    <2>3. client.reply \notin {"executed", "fallback"}
        BY <1>1, <1>3, <2>1 DEF Transaction, AnsweredOver
    <2>4. QED
        BY <1>6, <1>7, <2>1, <2>2, <2>3
\* Under a timely replan the answer is one that leaves latch and replan as they
\* are, or the one that ends both.
<1>13. ASSUME Timely
       PROVE  \/ pending' = None
              \/ /\ Held /\ ~Ended /\ pending'.id = pending.id
                 /\ pending'.excluded = pending.excluded
    <2>1. ~client.sampled.expired
        BY <1>3, <1>13 DEF Timely
    <2>2. Held => client.reply \notin {"executed", "fallback"}
        BY <1>1, <1>3 DEF Transaction, AnsweredOver, Held
    <2>3. CASE Ended
        <3>1. CASE client.reply = "fallback"
            <4>1. FinishOver
                BY <2>1, <3>1 DEF Finish, FinishLate, FinishHeld, FinishReleased,
                                  FinishRejected, FinishFresh, Moving
            <4>2. QED
                BY <1>4, <4>1 DEF FinishOver
        <3>2. CASE client.reply # "fallback"
            <4>1. client.reply = "executed" /\ ~client.sampled.rejected
                BY <2>3, <3>2 DEF Ended
            <4>2. FinishFresh
                BY <2>1, <4>1 DEF Finish, FinishLate, FinishOver, FinishHeld, FinishReleased,
                                  FinishRejected
            <4>3. QED
                BY <1>4, <4>1, <4>2 DEF FinishFresh
        <3>3. QED
            BY <3>1, <3>2
    <2>4. CASE ~Ended
        <3>1. Held
            BY <1>13, <2>4 DEF Transaction, PendingToLatch
        <3>2. client.reply \in {"held", "suppressed"}
              /\ (client.reply = "suppressed" => client.sampled.rejected)
            <4>1. client.reply \notin {"executed", "fallback"}
                BY <2>2, <3>1
            <4>2. client.reply \in {"executed", "fallback", "held", "suppressed"}
                BY <1>1, <1>13 DEF Transaction, PendingToLatch
            <4>3. client.reply = "suppressed" => client.sampled.rejected
                BY <1>1, <1>13 DEF Transaction, PendingToLatch
            <4>4. QED
                BY <4>1, <4>2, <4>3
        <3>3. FinishHeld \/ FinishRejected
            BY <2>1, <3>2 DEF Finish, FinishLate, FinishOver, FinishReleased, FinishFresh,
                              Moving
        <3>4. pending' \in {None, pending, [pending EXCEPT !.rejections = Rejections]}
            BY <3>3 DEF FinishHeld, FinishRejected
        <3>5. QED
            BY <1>5, <2>4, <3>1, <3>4 DEF Transactions
    <2>5. QED
        BY <2>3, <2>4
<1>14. Timely' => /\ Timely /\ pending' # None /\ Held /\ ~Ended /\ Held'
                  /\ pending'.id = pending.id /\ pending'.excluded = pending.excluded
    <2>1. Timely' => Timely /\ pending' # None
        BY <1>1, <1>3, <1>6 DEF Timely
    <2>2. QED
        BY <1>1, <1>13, <2>1 DEF Held
<1>15. PendingToLatch'
    BY <1>2, <1>14 DEF Transaction, PendingToLatch
<1>16. PendingBlocks'
    BY <1>1, <1>8, <1>14 DEF Transaction, PendingBlocks
\* A trajectory that is moving under its own exclusion was released by nobody.
<1>17. Blamed'
    <2>1. CASE FinishReleased /\ expired = {}
        <3>1. client.reply \in {"executed", "reused"} /\ client.sampled.rejected
            BY <2>1 DEF FinishReleased, Moving
        <3>2. Timely
            <4>1. <<pending.id, "replan">> \in served
                BY <1>3 DEF Transaction, Linked, IsServed
            <4>2. Gen(pending.id) <= adapter.gen
                <5>1. <<pending.id, "replan">>[1] = pending.id
                    OBVIOUS
                <5>2. QED
                    BY <4>1, <5>1 DEF Transaction, Reached
            <4>3. adapter.gen <= client.gen /\ adapter.gen \in Int /\ client.gen \in Int
                BY Parts DEF Positions, Inv
            <4>4. QED
                BY <1>3, <2>1, <4>2, <4>3 DEF Timely
        <3>3. Held \/ Ended
            BY <3>2 DEF Transaction, PendingToLatch
        <3>4. client.reply = "executed"
            BY <1>1, <3>1, <3>2 DEF Transaction, PendingToLatch
        <3>5. ~Ended
            BY <3>1, <3>4 DEF Ended
        <3>6. ~Held
            BY <1>1, <1>3, <3>4 DEF Transaction, AnsweredOver, Held
        <3>7. QED
            BY <3>3, <3>5, <3>6
    <2>2. CASE FinishReleased /\ expired # {}
        BY <1>1, <2>2 DEF Blamed
    <2>3. CASE ~FinishReleased
        <3>1. "excluded" \in alarms' => "excluded" \in alarms
            BY <2>3 DEF Finish, FinishLate, FinishOver, FinishHeld, FinishRejected,
                        FinishFresh
        <3>2. QED
            BY <1>1, <3>1 DEF Transaction, Blamed
    <2>4. QED
        BY <2>1, <2>2, <2>3
<1>18. QED
    BY <1>9, <1>10, <1>11, <1>12, <1>15, <1>16, <1>17 DEF Transaction

\* The latch check of a command. A latch of another identity that it releases
\* holds no timely replan.
LEMMA PassCalm ==
    ASSUME Inv, Positions, Transaction, faults = 0, NEW r \in calls, PassLatch(r)
    PROVE  Transaction'
<1>1. /\ client' = client /\ pending' = pending /\ served' = served
      /\ expired' = expired /\ alarms' = alarms
      /\ supervisor' = supervisor /\ threads' = threads /\ requests' = requests
      /\ Latch = None \/ r.gen # adapter.gen
    BY DEF PassLatch
<1>2. /\ adapter'.gen = adapter.gen /\ adapter'.seq = adapter.seq
      /\ adapter'.goal = adapter.goal /\ Latch' = None
    BY DEF PassLatch, Inv, Typed, Adapters, Latch
<1>3. r.gen = client.gen /\ client.phase = "resolving"
    BY QuietCall
<1>4. Bearers' = Bearers
    BY <1>1, SameBearers
<1>5. Reached'
    BY <1>1, <1>2, <1>4 DEF Transaction, Reached, IsServed, AtAdapter
<1>6. Canceled'
    <2>1. CASE Latch = None
        BY <1>1, <1>2, <1>4, <2>1 DEF Transaction, Canceled, IsServed, AtAdapter
    <2>2. CASE r.gen # adapter.gen
        BY <1>1, <1>2, <1>3, <2>2 DEF Canceled
    <2>3. QED
        BY <1>1, <2>1, <2>2
<1>7. Linked' /\ PastCalls' /\ Sampled' /\ LatchToPending' /\ AnsweredOver' /\ Blamed'
    BY <1>1, <1>2, <1>4
    DEF Transaction, Linked, PastCalls, Sampled, LatchToPending, AnsweredOver, Blamed,
        IsServed
<1>8. ~Timely'
    <2> SUFFICES ASSUME Timely
                 PROVE  FALSE
        BY <1>1, <1>2 DEF Timely
    <2>1. Latch # None
        BY <1>3 DEF Transaction, PendingToLatch, Held, Ended
    <2>2. Gen(pending.id) = client.gen
        BY <1>3 DEF Transaction, Sampled, Timely
    <2>3. QED
        BY <1>1, <1>3, <2>1, <2>2 DEF Timely
<1>9. PendingToLatch' /\ PendingBlocks'
    BY <1>8 DEF PendingToLatch, PendingBlocks
<1>10. QED
    BY <1>5, <1>6, <1>7, <1>9 DEF Transaction

\* What a command that the adapter commits has to do with the transaction: the
\* latch stays what it is or is released, and what becomes of a timely replan is
\* what the answer says.
Resolves(r, reply) ==
    /\ calls' = calls \ {r} /\ Answer(r, reply) /\ reply # "refused"
    /\ UNCHANGED <<pending, supervisor, threads, requests, served, expired, alarms>>
    /\ adapter'.gen = r.gen /\ adapter'.seq = r.seq
    /\ adapter'.latch # None =>
          /\ Latch # None /\ adapter'.latch.id = Latch.id
          /\ adapter'.latch.seq = Latch.seq /\ adapter'.latch.armed = Latch.armed
          /\ adapter'.latch.excluded = Latch.excluded
          /\ IsServed(Latch.id, "replan") =>
                r.gen = adapter.gen /\ reply \notin {"executed", "fallback"}
    /\ Timely /\ Held =>
          \/ /\ adapter'.latch # None /\ adapter'.goal = None
             /\ reply \in {"held", "suppressed"}
             /\ reply = "suppressed" => r.plan = Stop \/ r.plan \in pending.excluded
          \/ /\ reply = "fallback" /\ adapter'.goal = None
          \/ /\ reply = "executed" /\ adapter'.goal = r.plan
             /\ r.plan # Stop /\ r.plan \notin pending.excluded

LEMMA CommandCalm ==
    ASSUME Inv, Positions, Transaction, faults = 0, NEW r \in calls,
           NEW reply \in Replies, Resolves(r, reply)
    PROVE  Transaction'
<1>1. /\ pending' = pending /\ served' = served
      /\ expired' = expired /\ alarms' = alarms
      /\ supervisor' = supervisor /\ threads' = threads /\ requests' = requests
      /\ adapter'.gen = r.gen /\ adapter'.seq = r.seq
    BY DEF Resolves
<1>2. /\ client.phase = "resolving" /\ calls = {r} /\ Awaits(r)
      /\ r.gen = client.gen /\ r.seq = client.last /\ r.plan = client.plan
      /\ client.last >= 0
      /\ adapter.gen = client.gen => adapter.seq = client.last - 1
    BY QuietCall
<1>3. calls' = {} /\ Bearers' = Bearers /\ Latch' = adapter'.latch
    BY <1>1, <1>2, SameBearers DEF Resolves, Latch
<1>4. /\ client'.gen = client.gen /\ client'.last = client.last
      /\ client.sampled = None => client'.phase = "idle" /\ client'.sampled = None
      /\ client.sampled # None =>
            /\ client'.phase = "answered" /\ client'.reply = reply
            /\ client'.sampled = client.sampled /\ client'.plan = client.plan
    <2>1. client \in Clients
        BY DEF Inv, Typed
    <2>2. client' = IF client.sampled = None THEN Settled
                    ELSE [client EXCEPT !.phase = "answered", !.reply = reply]
        BY <1>2 DEF Resolves, Answer
    <2>3. QED
        BY <2>1, <2>2 DEF Settled, Clients
<1>5. /\ adapter.gen \in Int /\ client.gen \in Int /\ adapter.gen <= client.gen
      /\ adapter.seq \in Int /\ client.last \in Int
    BY Parts DEF Inv, Positions
\* The adapter has moved on from whatever a recovery canceled.
<1>6. \A b \in Bearers :
         IsServed(b.id, "cancel") =>
            \/ Gen(b.id) < adapter'.gen
            \/ Gen(b.id) = adapter'.gen /\ b.seq < adapter'.seq
    <2> SUFFICES ASSUME NEW b \in Bearers, IsServed(b.id, "cancel")
                 PROVE  \/ Gen(b.id) < adapter'.gen
                        \/ Gen(b.id) = adapter'.gen /\ b.seq < adapter'.seq
        OBVIOUS
    <2>1. Gen(b.id) \in Int /\ b.seq \in Int
        <3>1. Gen(b.id) \in Generations
            BY BearersAre DEF Inv
        <3>2. b.seq \in SeqNumbers
            <4>1. \/ \E q \in requests : b = [id |-> q.id, seq |-> q.seq, plan |-> q.plan]
                  \/ \E g \in Generations :
                        b = [id |-> threads[g].id, seq |-> threads[g].seq,
                             plan |-> threads[g].plan]
                BY BearersAre DEF Inv
            <4>2. \A q \in requests : q.seq \in SeqNumbers
                BY RequestIs DEF Inv
            <4>3. \A g \in Generations : threads[g].seq \in SeqNumbers
                BY DEF Inv, Typed, Threads
            <4>4. QED
                BY <4>1, <4>2, <4>3
        <3>3. QED
            BY <3>1, <3>2 DEF Generations, SeqNumbers
    <2>2. \/ Gen(b.id) < adapter.gen
          \/ Gen(b.id) = adapter.gen /\ b.seq < adapter.seq
          \/ Gen(b.id) = adapter.gen /\ b.seq = adapter.seq
        BY DEF Transaction, Reached, AtAdapter
    <2>3. QED
        BY <1>1, <1>2, <1>5, <2>1, <2>2
<1>7. Reached'
    <2>1. \A s \in served : Gen(s[1]) <= adapter'.gen
        <3>1. \A s \in served : Gen(s[1]) \in Int
            <4>1. \A s \in served : s[1] \in Recoveries
                BY DEF Inv, Typed
            <4>2. QED
                BY <4>1, RecoveriesAre DEF Generations
        <3>2. \A s \in served : Gen(s[1]) <= adapter.gen
            BY DEF Transaction, Reached
        <3>3. QED
            BY <1>1, <1>2, <1>5, <3>1, <3>2
    <2>2. QED
        BY <1>1, <1>3, <1>6, <2>1 DEF Reached, IsServed
<1>8. Canceled'
    <2>1. ASSUME NEW b \in Bearers, IsServed(b.id, "cancel"),
                 Gen(b.id) = adapter'.gen /\ b.seq = adapter'.seq
          PROVE  FALSE
        BY <1>1, <1>2, <1>5, <1>6, <2>1
    <2>2. QED
        BY <1>1, <1>3, <2>1 DEF Canceled, IsServed, AtAdapter
<1>9. Latch' # None =>
         /\ Latch # None /\ Latch'.id = Latch.id /\ Latch'.seq = Latch.seq
         /\ Latch'.armed = Latch.armed /\ Latch'.excluded = Latch.excluded
         /\ IsServed(Latch.id, "replan") =>
               r.gen = adapter.gen /\ reply \notin {"executed", "fallback"}
    BY <1>3 DEF Resolves
<1>10. Linked'
    <2>1. Linked /\ client'.sampled = client.sampled
        BY <1>4 DEF Transaction
    <2>2. Latch' # None =>
            /\ <<Latch'.id, "cancel">> \in served'
            /\ Latch'.armed => <<Latch'.id, "replan">> \in served'
            /\ \A b \in Bearers' : b.id = Latch'.id => b.seq = Latch'.seq
            /\ Latch'.armed /\ pending' # None /\ Latch'.id = pending'.id
                  => Latch'.excluded \in pending'.excluded
        BY <1>1, <1>3, <1>9, <2>1 DEF Linked, IsServed
    <2>3. QED
        BY <1>1, <1>3, <2>1, <2>2 DEF Linked, IsServed
<1>11. PastCalls' /\ Blamed'
    BY <1>1, <1>3 DEF Transaction, PastCalls, Blamed
<1>12. Sampled'
    <2>1. Sampled
        BY DEF Transaction
    <2>2. CASE client.sampled = None
        BY <1>4, <2>2 DEF Sampled
    <2>3. CASE client.sampled # None
        <3>1. /\ pending # None /\ Gen(pending.id) = client.gen
              /\ client.sampled.id = pending.id
              /\ client.sampled.expired => pending.id \in expired
              /\ client.sampled.rejected <=>
                    client.plan = Stop \/ client.plan \in pending.excluded
            BY <1>2, <2>1, <2>3 DEF Sampled
        <3>2. reply # "refused"
            BY DEF Resolves
        <3>3. QED
            BY <1>1, <1>4, <2>3, <3>1, <3>2 DEF Sampled
    <2>4. QED
        BY <2>2, <2>3
<1>13. LatchToPending'
    <2> SUFFICES ASSUME Latch' # None, <<Latch'.id, "replan">> \in served',
                        Latch'.id \notin expired', "repeated" \notin alarms'
                 PROVE  pending' # None /\ pending'.id = Latch'.id
                        /\ Gen(Latch'.id) = client'.gen
        BY DEF LatchToPending, IsServed
    <2>1. /\ Latch # None /\ Latch'.id = Latch.id /\ IsServed(Latch.id, "replan")
          /\ Latch.id \notin expired /\ client.gen = adapter.gen
          /\ "repeated" \notin alarms
        BY <1>1, <1>2, <1>9 DEF IsServed
    <2>2. pending # None /\ pending.id = Latch.id /\ Gen(Latch.id) = client.gen
        BY <2>1 DEF Transaction, LatchToPending
    <2>3. QED
        BY <1>1, <1>4, <2>1, <2>2
<1>14. AnsweredOver'
    <2>1. CASE client.sampled = None
        BY <1>4, <2>1 DEF AnsweredOver
    <2>2. CASE client.sampled # None
        <3>1. IsServed(client.sampled.id, "replan")
            BY <2>2 DEF Transaction, Linked
        <3>2. Latch' # None /\ reply \in {"executed", "fallback"}
                 => Latch'.id # client.sampled.id
            BY <1>9, <3>1
        <3>3. QED
            BY <1>4, <2>2, <3>2 DEF AnsweredOver
    <2>3. QED
        BY <2>1, <2>2
\* A replan that is timely after the command was it before, and was latched.
<1>15. ASSUME Timely'
       PROVE  /\ Timely /\ Held /\ ~Ended /\ client.sampled # None
              /\ pending # None
              /\ client.sampled.rejected <=>
                    r.plan = Stop \/ r.plan \in pending.excluded
    <2>1. pending # None /\ pending.id \notin expired
        BY <1>1, <1>15 DEF Timely
    <2>2. /\ client.sampled # None /\ Gen(pending.id) = client.gen
          /\ client.sampled.rejected <=>
                client.plan = Stop \/ client.plan \in pending.excluded
        BY <1>2, <2>1 DEF Transaction, Sampled
    <2>3. Gen(pending.id) <= adapter.gen
        <3>1. <<pending.id, "replan">> \in served
            BY <2>1 DEF Transaction, Linked, IsServed
        <3>2. <<pending.id, "replan">>[1] = pending.id
            OBVIOUS
        <3>3. QED
            BY <3>1, <3>2 DEF Transaction, Reached
    <2>4. Timely
        BY <1>5, <2>1, <2>2, <2>3 DEF Timely
    <2>5. ~Ended
        BY <1>2 DEF Ended
    <2>6. Held
        BY <2>4, <2>5 DEF Transaction, PendingToLatch
    <2>7. QED
        BY <1>2, <2>1, <2>2, <2>4, <2>5, <2>6
<1>16. ASSUME Timely'
       PROVE  \/ /\ Held' /\ client'.reply \in {"held", "suppressed"}
                 /\ client'.reply = "suppressed" => client'.sampled.rejected
              \/ Ended' /\ client'.reply \in {"executed", "fallback"}
    <2>1. /\ client'.phase = "answered" /\ client'.reply = reply
          /\ client'.sampled = client.sampled /\ client'.plan = r.plan
        BY <1>2, <1>4, <1>15, <1>16
    <2>2. CASE /\ adapter'.latch # None /\ adapter'.goal = None
               /\ reply \in {"held", "suppressed"}
               /\ reply = "suppressed" => r.plan = Stop \/ r.plan \in pending.excluded
        <3>1. Latch' # None /\ Latch'.id = Latch.id
            BY <1>3, <1>9, <2>2
        <3>2. Held'
            BY <1>1, <1>15, <1>16, <2>2, <3>1 DEF Held
        <3>3. QED
            BY <1>15, <1>16, <2>1, <2>2, <3>2
    <2>3. CASE reply = "fallback" /\ adapter'.goal = None
        BY <2>1, <2>3 DEF Ended
    <2>4. CASE /\ reply = "executed" /\ adapter'.goal = r.plan
               /\ r.plan # Stop /\ r.plan \notin pending.excluded
        <3>1. ~client'.sampled.rejected
            <4>1. client.sampled.rejected <=> r.plan = Stop \/ r.plan \in pending.excluded
                BY <1>15, <1>16
            <4>2. ~(r.plan = Stop \/ r.plan \in pending.excluded)
                BY <2>4
            <4>3. client'.sampled = client.sampled
                BY <2>1
            <4>4. QED
                BY <4>1, <4>2, <4>3
        <3>2. QED
            BY <2>1, <2>4, <3>1 DEF Ended
    <2>5. QED
        BY <1>15, <1>16, <2>2, <2>3, <2>4 DEF Resolves
<1>17. PendingToLatch'
    <2> SUFFICES ASSUME Timely'
                 PROVE  /\ Held' \/ Ended'
                        /\ \A p, q \in pending'.excluded : p = q
                        /\ \/ client'.reply \in {"executed", "fallback", "held"}
                           \/ client'.reply = "suppressed" /\ client'.sampled.rejected
        BY DEF PendingToLatch
    <2>1. \A p, q \in pending'.excluded : p = q
        BY <1>1, <1>15 DEF Transaction, PendingToLatch
    <2>2. Held' \/ Ended'
        BY <1>16
    <2>3. \/ client'.reply \in {"executed", "fallback", "held"}
          \/ client'.reply = "suppressed" /\ client'.sampled.rejected
        BY <1>16
    <2>4. QED
        BY <2>1, <2>2, <2>3
<1>18. PendingBlocks'
    BY <1>1, <1>3, <1>15 DEF Transaction, PendingBlocks
<1>19. QED
    BY <1>7, <1>8, <1>10, <1>11, <1>12, <1>13, <1>14, <1>17, <1>18 DEF Transaction

\* Past the check a command meets a latch only before its replan, so none that
\* holds a timely one.
LEMMA ExecuteResolves ==
    ASSUME Inv, Positions, Transaction, faults = 0, faults' = 0, NEW r \in calls, Execute(r)
    PROVE  \E reply \in Replies : Resolves(r, reply)
<1>1. PICK o \in Outcomes(r) :
        /\ Charge(o)
        /\ adapter' = [adapter EXCEPT !.gen = o.at[1], !.seq = o.at[2], !.goal = o.goal]
        /\ Answer(r, o.reply)
    BY DEF Execute
<1>2. Contiguous(r) /\ ~(o.fault = TRUE)
    BY <1>1, QuietCall DEF Charge, Fault
<1>3. /\ o.at = <<r.gen, r.seq>>
      /\ o.reply \in {"stopped", "executed", "reused"}
    BY <1>2, OutcomesAre
<1>4. o.reply \in Replies
    BY OutcomeTyped DEF Inv
<1>5. /\ adapter'.gen = r.gen /\ adapter'.seq = r.seq /\ adapter'.latch = Latch
    <2>1. adapter \in Adapters
        BY DEF Inv, Typed
    <2>2. QED
        BY <1>1, <1>3, <2>1 DEF Adapters, Latch
<1>6. Latch # None => ~IsServed(Latch.id, "replan")
    BY DEF Execute, Transaction, PastCalls
<1>7. ~(Timely /\ Held)
    BY <1>6 DEF Transaction, Linked, Timely, Held
<1>8. /\ calls' = calls \ {r}
      /\ UNCHANGED <<pending, supervisor, threads, requests, served, expired, alarms>>
    BY DEF Execute
<1>9. Resolves(r, o.reply)
    BY <1>1, <1>3, <1>5, <1>6, <1>7, <1>8 DEF Resolves
<1>10. QED
    BY <1>4, <1>9

LEMMA LatchedResolves ==
    ASSUME Inv, Positions, Transaction, faults = 0, faults' = 0, NEW r \in calls,
           LatchFallback(r) \/ LatchHold(r) \/ LatchRelease(r)
    PROVE  \E reply \in Replies : Resolves(r, reply)
<1>1. Contiguous(r)
    BY QuietCall
<1>2. /\ adapter \in Adapters /\ Latch # None /\ Latch \in Latches
      /\ r.gen = adapter.gen
    <2>1. Latched(r)
        BY DEF LatchFallback, LatchHold, LatchRelease
    <2>2. QED
        BY <2>1, LatchIs DEF Latched, Inv, Typed
<1>3. /\ calls' = calls \ {r}
      /\ UNCHANGED <<pending, supervisor, threads, requests, served, expired, alarms>>
    BY DEF LatchFallback, LatchHold, LatchRelease
<1>4. /\ "fallback" \in Replies /\ "held" \in Replies /\ "suppressed" \in Replies
      /\ "executed" \in Replies /\ "reused" \in Replies
    BY DEF Replies, Moving
\* Under a timely replan the latch is that replan's.
<1>5. ASSUME Timely, Held
      PROVE  /\ Latch.id \notin expired /\ adapter.goal = None
             /\ Latch.armed => Latch.excluded \in pending.excluded
             /\ \A p, q \in pending.excluded : p = q
    BY <1>5 DEF Transaction, Timely, Held, Linked, PendingToLatch
<1>6. CASE LatchFallback(r)
    <2>1. /\ adapter' = [adapter EXCEPT !.seq = r.seq, !.latch = None]
          /\ Answer(r, "fallback") /\ Latch.id \in expired
        BY <1>1, <1>6 DEF LatchFallback, Overdue
    <2>2. adapter'.gen = r.gen /\ adapter'.seq = r.seq /\ adapter'.latch = None
        BY <1>2, <2>1 DEF Adapters
    <2>3. Resolves(r, "fallback")
        BY <1>3, <1>5, <2>1, <2>2 DEF Resolves
    <2>4. QED
        BY <1>4, <2>3
<1>7. CASE LatchHold(r)
    <2> DEFINE bounded == Repeats(r) /\ HoldsAfter(r) >= HoldLimit
               held == [Latch EXCEPT !.holds = HoldsAfter(r)]
    <2>1. /\ adapter' = [adapter EXCEPT !.seq = r.seq,
                                        !.latch = IF bounded THEN None ELSE held]
          /\ Answer(r, IF bounded THEN "fallback"
                       ELSE IF Latch.armed THEN "suppressed" ELSE "held")
          /\ ~Fresh(r)
        BY <1>1, <1>7 DEF LatchHold
    <2> HIDE DEF bounded
    <2>2. /\ held.id = Latch.id /\ held.seq = Latch.seq
          /\ held.armed = Latch.armed /\ held.excluded = Latch.excluded
          /\ held # None
        <3>1. HoldsAfter(r) \in Nat
            BY <1>2 DEF HoldsAfter, Latches
        <3>2. held \in Latches
            BY <1>2, <3>1 DEF Latches
        <3>3. QED
            BY <1>2, <3>2, ConstantsAre DEF Latches
    <2> HIDE DEF held
    <2>3. CASE bounded
        <3>1. /\ adapter'.gen = r.gen /\ adapter'.seq = r.seq /\ adapter'.latch = None
              /\ adapter'.goal = adapter.goal /\ Answer(r, "fallback")
            BY <1>2, <2>1, <2>3 DEF Adapters
        <3>2. Resolves(r, "fallback")
            BY <1>3, <1>5, <3>1 DEF Resolves
        <3>3. QED
            BY <1>4, <3>2
    <2>4. CASE ~bounded
        <3>1. /\ adapter'.gen = r.gen /\ adapter'.seq = r.seq /\ adapter'.latch = held
              /\ adapter'.goal = adapter.goal
            BY <1>2, <2>1, <2>4 DEF Adapters
        <3>2. CASE Latch.armed
            <4>1. Answer(r, "suppressed")
                BY <2>1, <2>4, <3>2
            <4>2. r.plan = Stop \/ r.plan = Latch.excluded
                BY <2>1, <3>2 DEF Fresh
            <4>3. Resolves(r, "suppressed")
                BY <1>2, <1>3, <1>5, <2>2, <3>1, <3>2, <4>1, <4>2 DEF Resolves
            <4>4. QED
                BY <1>4, <4>3
        <3>3. CASE ~Latch.armed
            <4>1. Answer(r, "held")
                BY <2>1, <2>4, <3>3
            <4>2. Resolves(r, "held")
                BY <1>2, <1>3, <1>5, <2>2, <3>1, <4>1 DEF Resolves
            <4>3. QED
                BY <1>4, <4>2
        <3>4. QED
            BY <3>2, <3>3
    <2>5. QED
        BY <2>3, <2>4
<1>8. CASE LatchRelease(r)
    <2>1. PICK o \in Outcomes(r) :
            /\ Charge(o)
            /\ adapter' = [gen |-> o.at[1], seq |-> o.at[2], goal |-> o.goal,
                           latch |-> IF o.reply = "executed" THEN None ELSE Latch]
            /\ Answer(r, o.reply)
        BY <1>8 DEF LatchRelease
    <2>2. Latch.armed /\ r.plan # Stop /\ r.plan # Latch.excluded
        BY <1>8 DEF LatchRelease, Fresh
    <2>3. KeptGoal(r) = adapter.goal
        <3>1. adapter.gen \in Int
            BY Parts DEF Inv
        <3>2. QED
            BY <1>2, <3>1 DEF KeptGoal, NewGeneration
    <2>4. ~(o.fault = TRUE)
        BY <2>1 DEF Charge, Fault
    <2>5. /\ o.at = <<r.gen, r.seq>>
          /\ \/ o.reply = "executed" /\ o.goal = r.plan
             \/ o.reply = "reused" /\ adapter.goal # None
        BY <1>1, <2>2, <2>3, <2>4, OutcomesAre
    <2>6. /\ adapter'.gen = r.gen /\ adapter'.seq = r.seq /\ adapter'.goal = o.goal
          /\ adapter'.latch = IF o.reply = "executed" THEN None ELSE Latch
        BY <2>1, <2>5
    <2>7. CASE o.reply = "executed"
        <3>1. Timely /\ Held => r.plan \notin pending.excluded
            BY <1>5, <2>2
        <3>2. Resolves(r, "executed")
            BY <1>3, <2>1, <2>2, <2>5, <2>6, <2>7, <3>1 DEF Resolves
        <3>3. QED
            BY <1>4, <3>2
    <2>8. CASE o.reply = "reused"
        <3>1. ~(Timely /\ Held)
            BY <1>5, <2>5, <2>8
        <3>2. Resolves(r, "reused")
            BY <1>2, <1>3, <2>1, <2>6, <2>8, <3>1 DEF Resolves
        <3>3. QED
            BY <1>4, <3>2
    <2>9. QED
        BY <2>5, <2>7, <2>8
<1>9. QED
    BY <1>6, <1>7, <1>8

LEMMA CalmAdapter ==
    ASSUME Inv, Positions, Ordered, Transaction, AdapterNext, faults = 0, faults' = 0
    PROVE  Ordered' /\ Transaction'
<1>1. UNCHANGED <<supervisor, threads, requests, served>>
    BY DEF AdapterNext, PassLatch, Execute, LatchFallback, LatchHold, LatchRelease,
           GoalFinished, StopArrives
<1>2. Ordered'
    BY <1>1, OrderedStays
<1> SUFFICES Transaction'
    BY <1>2
<1>3. ASSUME NEW r \in calls, PassLatch(r)
      PROVE  Transaction'
    BY <1>3, PassCalm
<1>4. ASSUME NEW r \in calls,
             Execute(r) \/ LatchFallback(r) \/ LatchHold(r) \/ LatchRelease(r)
      PROVE  Transaction'
    <2>1. PICK reply \in Replies : Resolves(r, reply)
        BY <1>4, ExecuteResolves, LatchedResolves
    <2>2. QED
        BY <2>1, CommandCalm
<1>5. CASE GoalFinished
    <2>1. /\ UNCHANGED <<client, pending, calls, supervisor, threads, requests, served,
                         expired, alarms>>
          /\ adapter' = [adapter EXCEPT !.goal = None]
        BY <1>5 DEF GoalFinished
    <2>2. QED
        BY <2>1, GoalCleared
<1>6. CASE StopArrives
    <2>1. UNCHANGED <<client, pending, calls, served, expired, adapter, alarms>>
        BY <1>6 DEF StopArrives
    <2>2. Bearers' = Bearers /\ threads' = threads /\ supervisor' = supervisor
        BY <1>1, SameBearers
    <2>3. PendingBlocks'
        BY <2>1, <2>2, BlocksStay DEF Transaction
    <2>4. QED
        BY <2>1, <2>2, <2>3, TransactionStays
<1>7. QED
    BY <1>2, <1>3, <1>4, <1>5, <1>6 DEF AdapterNext

LEMMA CalmClient ==
    ASSUME Inv, Positions, Ordered, Transaction, ClientNext, faults = 0, faults' = 0
    PROVE  Ordered' /\ Transaction'
<1>1. UNCHANGED <<supervisor, threads, requests, served>>
    BY DEF ClientNext, Step, Finish, FinishRefused, GiveUp, ConfirmStop, Reset
<1>2. Ordered'
    BY <1>1, OrderedStays
<1> SUFFICES Transaction'
    BY <1>2
<1>3. ASSUME NEW plan \in Commands, Step(plan)
      PROVE  Transaction'
    BY <1>3, StepCalm
<1>4. CASE Finish
    BY <1>4, FinishCalm
<1>5. CASE FinishRefused
    BY <1>5 DEF FinishRefused, Transaction, Sampled
<1>6. CASE GiveUp
    <2>1. client.phase = "resolving"
        BY <1>6 DEF GiveUp
    <2>2. PICK past \in BOOLEAN : calls = {Current(past)}
        BY <2>1 DEF Positions
    <2>3. Awaits(Current(past))
        BY <2>1 DEF Awaits, Current
    <2>4. Fault
        BY <1>6, <2>2, <2>3 DEF GiveUp
    <2>5. QED
        BY <2>4 DEF Fault
<1>7. CASE ConfirmStop
    <2>1. /\ UNCHANGED <<client, pending, calls, supervisor, threads, requests, served,
                         expired, alarms>>
          /\ adapter' = [adapter EXCEPT !.goal = None]
        BY <1>7 DEF ConfirmStop
    <2>2. QED
        BY <2>1, GoalCleared
<1>8. CASE Reset
    BY <1>8, ResetCalm
<1>9. QED
    BY <1>2, <1>3, <1>4, <1>5, <1>6, <1>7, <1>8 DEF ClientNext

\* A request that is answered and changes nothing else.
LEMMA ReplyCalm ==
    ASSUME Inv, Typed', Ordered, Transaction, NEW q \in requests, NEW ok \in BOOLEAN,
           Reply(q, ok), ok /\ q.op \in {"cancel", "replan"} => <<q.id, q.op>> \in served,
           UNCHANGED <<client, pending, calls, supervisor, served, expired, adapter, alarms>>
    PROVE  Ordered' /\ Transaction'
<1>1. /\ Ordered' /\ Bearers' \subseteq Bearers
      /\ \A g \in Generations : threads'[g].pc = threads[g].pc
    BY OrderedServe
<1>2. pending # None => Gen(pending.id) \in Generations
    <2>1. pending # None => pending.id \in Recoveries
        BY DEF Inv, Typed, Transactions
    <2>2. QED
        BY <2>1, RecoveriesAre
<1>3. PendingBlocks'
    BY <1>1, <1>2, BlocksStay DEF Transaction
<1>4. QED
    BY <1>1, <1>3, TransactionStays

\* The bearer of a request, and what the others are to it.
LEMMA BearerOf ==
    ASSUME Inv, Requested, NEW q \in requests
    PROVE  /\ Gen(q.id) \in Generations /\ q.id \in Recoveries
           /\ \E b \in Bearers : b.id = q.id /\ b.seq = q.seq /\ b.plan = q.plan
           /\ \A b \in Bearers :
                 Gen(b.id) = Gen(q.id) => b.id = q.id /\ b.seq = q.seq /\ b.plan = q.plan
<1>1. Typed
    BY DEF Inv
<1>2. Gen(q.id) \in Generations /\ q.id \in Recoveries
    BY <1>1, RequestIs
<1>3. [id |-> q.id, seq |-> q.seq, plan |-> q.plan] \in Bearers
    BY <1>1, BearersAre
<1>4. PICK c \in Bearers : c = [id |-> q.id, seq |-> q.seq, plan |-> q.plan]
    BY <1>3
<1>5. c.id = q.id /\ c.seq = q.seq /\ c.plan = q.plan
    BY <1>4
<1>6. \A b \in Bearers : Gen(b.id) = Gen(q.id) => b = c
    BY <1>4, <1>5, OneBearer
<1>7. QED
    BY <1>2, <1>5, <1>6

\* A cancel sets the latch of its recovery, whose replan is not served, so that no
\* pending replan and no answer is about it.
LEMMA CancelCalm ==
    ASSUME Inv, Typed', Positions, Ordered, Transaction, faults = 0,
           NEW q \in requests, ServeCancel(q)
    PROVE  Ordered' /\ Transaction'
<1> DEFINE valid == AtAdapter(q, adapter.seq)
           new == valid /\ ~Remembered(q)
<1>1. /\ client' = client /\ pending' = pending /\ calls' = calls
      /\ supervisor' = supervisor /\ expired' = expired /\ alarms' = alarms
      /\ q.op = "cancel" /\ valid \in BOOLEAN /\ Reply(q, valid)
    BY DEF ServeCancel, AtAdapter
<1>2. CASE ~new
    <2>1. served' = served /\ adapter' = adapter
        BY <1>2 DEF ServeCancel
    <2>2. valid => <<q.id, q.op>> \in served
        BY <1>2 DEF Remembered
    <2> HIDE DEF valid, new
    <2>3. QED
        BY <1>1, <2>1, <2>2, ReplyCalm
<1>3. CASE new
    <2>1. /\ Gen(q.id) = adapter.gen /\ q.seq = adapter.seq
          /\ <<q.id, "cancel">> \notin served /\ valid
        BY <1>1, <1>3 DEF Remembered, AtAdapter
    <2>2. /\ served' = served \cup {<<q.id, "cancel">>}
          /\ adapter' = [adapter EXCEPT !.goal = None,
                            !.latch = [id |-> q.id, seq |-> q.seq, armed |-> FALSE,
                                       excluded |-> None, holds |-> 0]]
        BY <1>1, <1>3 DEF ServeCancel, Remember
    <2>3. /\ adapter'.gen = adapter.gen /\ adapter'.seq = adapter.seq
          /\ adapter'.goal = None
          /\ adapter'.latch = [id |-> q.id, seq |-> q.seq, armed |-> FALSE,
                               excluded |-> None, holds |-> 0]
        BY <2>2 DEF Inv, Typed, Adapters
    <2>4. /\ Latch'.id = q.id /\ Latch'.seq = q.seq /\ ~Latch'.armed
          /\ Latch' # None
        <3>1. Latch' = [id |-> q.id, seq |-> q.seq, armed |-> FALSE,
                        excluded |-> None, holds |-> 0]
            BY <2>3 DEF Latch
        <3>2. Latch' \in Latches
            BY <3>1, RequestIs DEF Latches, Inv
        <3>3. QED
            BY <3>1, <3>2, ConstantsAre
    <2>5. /\ q.id \in Recoveries /\ Gen(q.id) \in Generations
          /\ \A b \in Bearers :
                Gen(b.id) = Gen(q.id) => b.id = q.id /\ b.seq = q.seq /\ b.plan = q.plan
        BY BearerOf DEF Ordered
    <2>6. <<q.id, "replan">> \notin served
        BY <2>1, <2>5 DEF Ordered, InOrder, IsServed
    <2> HIDE DEF valid, new
    <2>7. /\ Ordered' /\ Bearers' \subseteq Bearers
          /\ \A g \in Generations : threads'[g].pc = threads[g].pc
        BY <1>1, <2>2, OrderedServe
    <2>8. /\ served \subseteq served'
          /\ \A id : <<id, "replan">> \in served' <=> <<id, "replan">> \in served
          /\ \A id : <<id, "cancel">> \in served' <=> <<id, "cancel">> \in served \/ id = q.id
        BY <2>2
    <2>9. Reached'
        <3>1. \A s \in served' : Gen(s[1]) <= adapter'.gen
            <4>1. ASSUME NEW s \in served' PROVE Gen(s[1]) <= adapter'.gen
                <5>1. CASE s \in served
                    BY <2>3, <5>1 DEF Transaction, Reached
                <5>2. CASE s = <<q.id, "cancel">>
                    <6>1. s[1] = q.id /\ adapter.gen \in Int
                        BY <5>2, Parts DEF Inv
                    <6>2. QED
                        BY <2>1, <2>3, <6>1
                <5>3. QED
                    BY <2>2, <5>1, <5>2
            <4>2. QED
                BY <4>1
        <3>2. ASSUME NEW b \in Bearers', <<b.id, "cancel">> \in served'
              PROVE  \/ Gen(b.id) < adapter'.gen
                     \/ Gen(b.id) = adapter'.gen /\ b.seq < adapter'.seq
                     \/ Gen(b.id) = adapter'.gen /\ b.seq = adapter'.seq
            <4>1. b \in Bearers
                BY <2>7
            <4>2. CASE <<b.id, "cancel">> \in served
                BY <2>3, <4>1, <4>2 DEF Transaction, Reached, IsServed, AtAdapter
            <4>3. CASE b.id = q.id
                BY <2>1, <2>3, <2>5, <4>1, <4>3
            <4>4. QED
                BY <2>8, <3>2, <4>2, <4>3
        <3>3. QED
            BY <2>3, <3>1, <3>2 DEF Reached, IsServed, AtAdapter
    <2>10. Canceled'
        <3>1. ASSUME NEW b \in Bearers', Gen(b.id) = adapter.gen
              PROVE  Latch'.id = b.id
            BY <2>1, <2>4, <2>5, <2>7, <3>1
        <3>2. QED
            BY <2>3, <2>4, <3>1 DEF Canceled, AtAdapter
    <2>11. Linked'
        <3>1. Linked
            BY DEF Transaction
        <3>2. /\ <<Latch'.id, "cancel">> \in served'
              /\ \A b \in Bearers' : b.id = Latch'.id => b.seq = Latch'.seq
            BY <2>4, <2>5, <2>7, <2>8
        <3>3. pending' # None =>
                /\ <<pending'.id, "replan">> \in served'
                /\ \A b \in Bearers' : b.id = pending'.id => b.plan \in pending'.excluded
            BY <1>1, <2>7, <2>8, <3>1 DEF Linked, IsServed
        <3>4. client'.sampled # None => <<client'.sampled.id, "replan">> \in served'
            BY <1>1, <2>8, <3>1 DEF Linked, IsServed
        <3>5. QED
            BY <2>4, <3>2, <3>3, <3>4 DEF Linked, IsServed
    <2>12. PastCalls'
        <3>1. <<Latch'.id, "replan">> \notin served'
            BY <2>4, <2>6, <2>8
        <3>2. ASSUME NEW r \in calls
              PROVE  ~(Gen(Latch'.id) = client'.gen /\ Latch'.seq = client'.last)
            <4>1. /\ adapter.gen = client.gen => adapter.seq = client.last - 1
                  /\ client.last \in Int
                BY QuietCall, Parts DEF Inv
            <4>2. QED
                BY <1>1, <2>1, <2>4, <4>1
        <3>3. QED
            BY <1>1, <3>1, <3>2 DEF PastCalls, IsServed
    <2>13. Sampled' /\ Blamed'
        BY <1>1 DEF Transaction, Sampled, Blamed
    <2>14. LatchToPending'
        BY <2>4, <2>6, <2>8 DEF LatchToPending, IsServed
    <2>15. AnsweredOver'
        <3>1. client.phase = "answered" => client.sampled # None
            BY DEF Transaction, Sampled
        <3>2. client.sampled # None => <<client.sampled.id, "replan">> \in served
            BY DEF Transaction, Linked, IsServed
        <3>3. QED
            BY <1>1, <2>4, <2>6, <3>1, <3>2 DEF AnsweredOver
    <2>16. Timely' => Timely /\ Ended /\ Ended'
        <3> SUFFICES ASSUME Timely'
                     PROVE  Timely /\ Ended /\ Ended'
            OBVIOUS
        <3>1. Timely /\ pending # None
            BY <1>1, <2>3 DEF Timely
        <3>2. <<pending.id, "replan">> \in served
            BY <3>1 DEF Transaction, Linked, IsServed
        <3>3. Ended
            <4>1. SUFFICES ASSUME ~Ended PROVE FALSE
                OBVIOUS
            <4>2. Held
                BY <3>1, <4>1 DEF Transaction, PendingToLatch
            <4>3. \A b \in Bearers : Gen(b.id) = Gen(pending.id) => b.id = pending.id
                BY <3>1, <4>1, <4>2 DEF Transaction, PendingBlocks
            <4>4. \E b \in Bearers : b.id = q.id
                BY BearerOf DEF Ordered
            <4>5. Gen(pending.id) = Gen(q.id)
                BY <2>1, <3>1 DEF Timely
            <4>6. QED
                BY <2>6, <3>2, <4>3, <4>4, <4>5
        <3>4. QED
            BY <1>1, <2>3, <3>1, <3>3 DEF Ended
    <2>17. PendingToLatch'
        BY <1>1, <2>16 DEF Transaction, PendingToLatch
    <2>18. PendingBlocks'
        BY <2>16 DEF PendingBlocks
    <2>19. QED
        BY <2>7, <2>9, <2>10, <2>11, <2>12, <2>13, <2>14, <2>15, <2>17, <2>18
        DEF Transaction
<1>4. QED
    BY <1>2, <1>3

\* A replan becomes pending under the latch of its own recovery, between two
\* commands, at the command that was canceled.
LEMMA ReplanCalm ==
    ASSUME Inv, Typed', Positions, Ordered, Transaction, faults = 0,
           NEW q \in requests, ServeReplan(q)
    PROVE  Ordered' /\ Transaction'
<1> DEFINE valid == q.id \notin expired /\ Gen(q.id) = client.gen /\ q.seq = client.last
           new == valid /\ ~Remembered(q) /\ pending = None
           ok == new \/ (valid /\ Remembered(q))
<1>1. /\ client' = client /\ calls' = calls /\ adapter' = adapter /\ Latch' = Latch
      /\ supervisor' = supervisor /\ expired' = expired /\ alarms' = alarms
      /\ q.op = "replan" /\ ok \in BOOLEAN /\ Reply(q, ok)
    BY DEF ServeReplan, Latch
<1>2. CASE ~new
    <2>1. served' = served /\ pending' = pending
        BY <1>2 DEF ServeReplan
    <2>2. ok => <<q.id, q.op>> \in served
        BY <1>2 DEF Remembered
    <2> HIDE DEF valid, new, ok
    <2>3. QED
        BY <1>1, <2>1, <2>2, ReplyCalm
<1>3. CASE new
    <2>1. /\ q.id \notin expired /\ Gen(q.id) = client.gen /\ q.seq = client.last
          /\ <<q.id, "replan">> \notin served /\ pending = None /\ ok
        BY <1>1, <1>3 DEF Remembered
    <2>2. /\ served' = served \cup {<<q.id, "replan">>}
          /\ pending' = [id |-> q.id, excluded |-> {q.plan}, rejections |-> 0]
        BY <1>1, <1>3 DEF ServeReplan, Remember
    <2>3. /\ pending'.id = q.id /\ pending'.excluded = {q.plan} /\ pending' # None
        <3>1. q.plan \in Plans /\ q.id \in Recoveries
            BY <1>1, RequestIs DEF Inv
        <3>2. pending' \in Transactions
            BY <2>2, <3>1 DEF Transactions
        <3>3. QED
            BY <2>2, <3>2, ConstantsAre
    <2>4. /\ q.id \in Recoveries /\ Gen(q.id) \in Generations
          /\ \A b \in Bearers :
                Gen(b.id) = Gen(q.id) => b.id = q.id /\ b.seq = q.seq /\ b.plan = q.plan
        BY BearerOf DEF Ordered
    <2>5. PICK b \in Bearers : b.id = q.id /\ b.seq = q.seq /\ b.plan = q.plan
        BY BearerOf DEF Ordered
    <2>6. <<q.id, "cancel">> \in served
        BY <1>1 DEF Ordered, InOrder, IsServed
    <2> HIDE DEF valid, new, ok
    <2>7. /\ Ordered' /\ Bearers' \subseteq Bearers
          /\ \A g \in Generations : threads'[g].pc = threads[g].pc
        BY <1>1, <2>2, OrderedServe
    <2>8. /\ served \subseteq served'
          /\ \A id : <<id, "replan">> \in served' <=> <<id, "replan">> \in served \/ id = q.id
          /\ \A id : <<id, "cancel">> \in served' <=> <<id, "cancel">> \in served
        BY <2>2
\* The adapter is still where the recovery canceled, and the client with it.
    <2>9. /\ adapter.gen = client.gen /\ adapter.seq = client.last
          /\ adapter.goal = None
        <3>1. /\ adapter.gen \in Int /\ client.gen \in Int /\ adapter.gen <= client.gen
              /\ adapter.seq \in Int /\ client.last \in Int
            BY Parts DEF Inv, Positions
        <3>2. \/ Gen(q.id) < adapter.gen
              \/ Gen(q.id) = adapter.gen /\ q.seq < adapter.seq
              \/ Gen(q.id) = adapter.gen /\ q.seq = adapter.seq /\ adapter.goal = None
            BY <2>5, <2>6 DEF Transaction, Reached, IsServed, AtAdapter
        <3>3. adapter.gen = client.gen
            BY <2>1, <3>1, <3>2
        <3>4. adapter.seq <= client.last
            BY <3>1, <3>3 DEF Positions, AdapterAt
        <3>5. QED
            BY <2>1, <3>1, <3>2, <3>3, <3>4
    <2>10. client.phase = "idle" /\ calls = {}
        <3>1. client.phase # "resolving"
            <4>1. SUFFICES ASSUME client.phase = "resolving" PROVE FALSE
                OBVIOUS
            <4>2. AdapterAt(client.last - 1)
                BY <4>1 DEF Positions
            <4>3. client.last \in Int /\ client.gen \in Int
                BY Parts DEF Inv
            <4>4. QED
                BY <2>9, <4>2, <4>3 DEF AdapterAt
        <3>2. client.phase # "answered"
            BY <2>1 DEF Transaction, Sampled
        <3>3. client.phase \in Phases
            BY DEF Inv, Typed, Clients
        <3>4. QED
            BY <3>1, <3>2, <3>3 DEF Phases, Positions
    <2>11. Latch # None /\ Latch.id = q.id
        BY <2>1, <2>5, <2>6, <2>9 DEF Transaction, Canceled, IsServed, AtAdapter
    <2>12. ~Latch.armed
        BY <2>1, <2>11 DEF Transaction, Linked, IsServed
    <2>13. Reached'
        <3>1. \A s \in served' : Gen(s[1]) <= adapter'.gen
            <4>1. ASSUME NEW s \in served' PROVE Gen(s[1]) <= adapter'.gen
                <5>1. CASE s \in served
                    BY <1>1, <5>1 DEF Transaction, Reached
                <5>2. CASE s = <<q.id, "replan">>
                    <6>1. s[1] = q.id /\ adapter.gen \in Int
                        BY <5>2, Parts DEF Inv
                    <6>2. QED
                        BY <1>1, <2>1, <2>9, <6>1
                <5>3. QED
                    BY <2>2, <5>1, <5>2
            <4>2. QED
                BY <4>1
        <3>2. QED
            BY <1>1, <2>7, <2>8, <3>1 DEF Transaction, Reached, IsServed, AtAdapter
    <2>14. Canceled'
        BY <1>1, <2>7, <2>8 DEF Transaction, Canceled, IsServed, AtAdapter
    <2>15. Linked'
        <3>1. Linked
            BY DEF Transaction
        <3>2. /\ <<Latch'.id, "cancel">> \in served'
              /\ ~Latch'.armed
              /\ \A c \in Bearers' : c.id = Latch'.id => c.seq = Latch'.seq
            BY <1>1, <2>7, <2>8, <2>11, <2>12, <3>1 DEF Linked, IsServed
        <3>3. /\ <<pending'.id, "replan">> \in served'
              /\ \A c \in Bearers' : c.id = pending'.id => c.plan \in pending'.excluded
            BY <2>3, <2>4, <2>7, <2>8
        <3>4. client'.sampled # None => <<client'.sampled.id, "replan">> \in served'
            BY <1>1, <2>8, <3>1 DEF Linked, IsServed
        <3>5. QED
            BY <3>2, <3>3, <3>4 DEF Linked, IsServed
    <2>16. PastCalls' /\ Sampled' /\ AnsweredOver'
        BY <1>1, <2>10 DEF PastCalls, Sampled, AnsweredOver
    <2>17. LatchToPending'
        BY <1>1, <2>1, <2>3, <2>11 DEF LatchToPending
    <2>18. Blamed'
        BY <1>1 DEF Transaction, Blamed
    <2>19. Held' /\ ~Ended'
        BY <1>1, <2>3, <2>9, <2>10, <2>11 DEF Held, Ended
    <2>20. PendingToLatch'
        <3>1. \A p, r \in pending'.excluded : p = r
            BY <2>3
        <3>2. client'.phase # "answered"
            BY <1>1, <2>10
        <3>3. QED
            BY <2>19, <3>1, <3>2 DEF PendingToLatch
    <2>21. PendingBlocks'
        <3>1. \A c \in Bearers' : Gen(c.id) = Gen(q.id) => c.id = q.id
            BY <2>4, <2>7
        <3>2. threads'[Gen(q.id)].pc # "start"
            <4>1. threads[Gen(q.id)].pc # "start"
                BY <2>4, <2>5, OneBearer DEF Ordered
            <4>2. QED
                BY <2>4, <2>7, <4>1
        <3>3. supervisor.gen = Gen(q.id) => supervisor.active
            <4>1. ASSUME supervisor.gen = Gen(q.id)
                  PROVE  supervisor.active
                <5>1. ~Orphan(q)
                    BY <2>4, <4>1 DEF Orphan, Generations
                <5>2. threads[Gen(q.id)].pc # "idle"
                    <6>1. Matches(q)
                        BY <5>1 DEF Ordered, Requested
                    <6>2. QED
                        BY <1>1, <6>1 DEF Matches, Attempt
                <5>3. QED
                    BY <2>4, <4>1, <5>2 DEF Inv, Supervised, ThreadsOwned
            <4>2. QED
                BY <4>1
        <3>4. QED
            BY <1>1, <2>3, <3>1, <3>2, <3>3 DEF PendingBlocks
    <2>22. QED
        BY <2>7, <2>13, <2>14, <2>15, <2>16, <2>17, <2>18, <2>20, <2>21 DEF Transaction
<1>4. QED
    BY <1>2, <1>3

\* An arm names the plan of its own replan; one past the deadline releases the
\* latch of a recovery whose replan is no longer timely.
LEMMA ArmCalm ==
    ASSUME Inv, Typed', Positions, Ordered, Transaction, faults = 0,
           NEW q \in requests, ServeArm(q)
    PROVE  Ordered' /\ Transaction'
<1> DEFINE late == q.id \in expired
           valid == ~late /\ ArmIdentity(q)
           new == valid /\ ~Remembered(q) /\ Frozen(q)
           release == late /\ Frozen(q) /\ ArmIdentity(q)
           ok == new \/ (valid /\ Remembered(q))
<1>1. /\ client' = client /\ pending' = pending /\ calls' = calls
      /\ supervisor' = supervisor /\ expired' = expired /\ alarms' = alarms
      /\ q.op = "arm" /\ ok \in BOOLEAN /\ Reply(q, ok)
    BY DEF ServeArm
<1>2. adapter \in Adapters
    BY DEF Inv, Typed
<1>3. CASE ~new /\ ~release
    <2>1. served' = served /\ adapter' = adapter
        BY <1>3 DEF ServeArm
    <2> HIDE DEF late, valid, new, release, ok
    <2>2. QED
        BY <1>1, <2>1, ReplyCalm
<1>4. CASE new \/ release
    <2>1. Latch # None /\ Latch.id = q.id /\ Latch \in Latches
        BY <1>4, LatchIs DEF Frozen, Inv
    <2>2. \/ /\ served' = served \cup {<<q.id, "arm">>} /\ q.id \notin expired
             /\ adapter' = [adapter EXCEPT !.latch = [Latch EXCEPT !.armed = TRUE,
                                                         !.excluded = q.plan, !.holds = 0]]
          \/ /\ served' = served /\ q.id \in expired
             /\ adapter' = [adapter EXCEPT !.latch = None]
        BY <1>1, <1>4 DEF ServeArm, Remember
    <2>3. /\ adapter'.gen = adapter.gen /\ adapter'.seq = adapter.seq
          /\ adapter'.goal = adapter.goal
        BY <1>2, <2>2 DEF Adapters
    <2>4. \/ Latch' = None /\ q.id \in expired
          \/ /\ Latch' # None /\ Latch'.id = q.id /\ Latch'.seq = Latch.seq
             /\ Latch'.excluded = q.plan
        <3> DEFINE armed == [Latch EXCEPT !.armed = TRUE, !.excluded = q.plan, !.holds = 0]
        <3>1. q.plan \in Plans
            BY <1>1, RequestIs DEF Inv
        <3>2. /\ armed \in Latches /\ armed.id = q.id /\ armed.seq = Latch.seq
              /\ armed.excluded = q.plan
            BY <2>1, <3>1 DEF Latches
        <3> HIDE DEF armed
        <3>3. \/ adapter'.latch = armed
              \/ adapter'.latch = None /\ q.id \in expired
            BY <1>2, <2>2 DEF Adapters, armed
        <3>4. QED
            BY <3>2, <3>3, ConstantsAre DEF Latch
    <2>5. /\ <<q.id, "cancel">> \in served /\ <<q.id, "replan">> \in served
        BY <1>1 DEF Ordered, InOrder, IsServed
    <2>6. PICK b \in Bearers : b.id = q.id /\ b.seq = q.seq /\ b.plan = q.plan
        BY BearerOf DEF Ordered
    <2> HIDE DEF late, valid, new, release, ok
    <2>7. served' = served \/ served' = served \cup {<<q.id, q.op>>}
        BY <1>1, <2>2
    <2>8. /\ Ordered' /\ Bearers' \subseteq Bearers
          /\ \A g \in Generations : threads'[g].pc = threads[g].pc
        BY <1>1, <2>7, OrderedServe
    <2>9. /\ \A id : <<id, "replan">> \in served' <=> <<id, "replan">> \in served
          /\ \A id : <<id, "cancel">> \in served' <=> <<id, "cancel">> \in served
          /\ \A s \in served' : s \in served \/ s = <<q.id, "arm">>
        BY <2>2
    <2>10. Reached'
        <3>1. Gen(q.id) <= adapter.gen
            <4>1. <<q.id, "cancel">>[1] = q.id
                OBVIOUS
            <4>2. QED
                BY <2>5, <4>1 DEF Transaction, Reached
        <3>2. ASSUME NEW s \in served' PROVE Gen(s[1]) <= adapter'.gen
            <4>1. CASE s \in served
                BY <2>3, <4>1 DEF Transaction, Reached
            <4>2. CASE s = <<q.id, "arm">>
                <5>1. s[1] = q.id
                    BY <4>2
                <5>2. QED
                    BY <2>3, <3>1, <5>1
            <4>3. QED
                BY <2>9, <4>1, <4>2
        <3>3. QED
            BY <2>3, <2>8, <2>9, <3>2 DEF Transaction, Reached, IsServed, AtAdapter
    <2>11. Canceled'
        <3>1. ASSUME NEW c \in Bearers, <<c.id, "cancel">> \in served,
                     <<c.id, "replan">> \notin served, client.gen = adapter.gen,
                     AtAdapter(c, adapter.seq)
              PROVE  FALSE
            BY <2>1, <2>5, <3>1 DEF Transaction, Canceled, IsServed
        <3>2. QED
            BY <1>1, <2>3, <2>8, <2>9, <3>1 DEF Canceled, IsServed, AtAdapter
    <2>12. Linked'
        <3>1. Linked
            BY DEF Transaction
        <3>2. Latch' # None =>
                /\ <<Latch'.id, "cancel">> \in served'
                /\ <<Latch'.id, "replan">> \in served'
                /\ \A c \in Bearers' : c.id = Latch'.id => c.seq = Latch'.seq
            BY <2>1, <2>4, <2>5, <2>8, <2>9, <3>1 DEF Linked
        <3>3. pending # None =>
                /\ <<pending.id, "replan">> \in served
                /\ \A c \in Bearers : c.id = pending.id => c.plan \in pending.excluded
            BY <3>1 DEF Linked, IsServed
        <3>4. Latch' # None /\ pending # None /\ Latch'.id = pending.id
                 => Latch'.excluded \in pending.excluded
            BY <2>4, <2>6, <3>3
        <3>5. client.sampled # None => <<client.sampled.id, "replan">> \in served
            BY <3>1 DEF Linked, IsServed
        <3>6. QED
            BY <1>1, <2>8, <2>9, <3>2, <3>3, <3>4, <3>5 DEF Linked, IsServed
    <2>13. PastCalls'
        BY <1>1, <2>1, <2>4, <2>9 DEF Transaction, PastCalls, IsServed
    <2>14. Sampled' /\ Blamed'
        BY <1>1 DEF Transaction, Sampled, Blamed
    <2>15. LatchToPending' /\ AnsweredOver'
        BY <1>1, <2>1, <2>3, <2>4, <2>9
        DEF Transaction, LatchToPending, AnsweredOver, IsServed
    <2>16. /\ Timely' = Timely /\ Ended' = Ended
           /\ Timely => (Held' <=> Held)
        BY <1>1, <2>1, <2>3, <2>4 DEF Timely, Ended, Held
    <2>17. PendingToLatch'
        BY <1>1, <2>16 DEF Transaction, PendingToLatch
    <2>18. PendingBlocks'
        <3>1. Timely => Gen(pending.id) \in Generations
            <4>1. pending # None => pending.id \in Recoveries
                BY DEF Inv, Typed, Transactions
            <4>2. QED
                BY <4>1, RecoveriesAre DEF Timely
        <3>2. QED
            BY <1>1, <2>8, <2>16, <3>1 DEF Transaction, PendingBlocks
    <2>19. QED
        BY <2>8, <2>10, <2>11, <2>12, <2>13, <2>14, <2>15, <2>17, <2>18 DEF Transaction
<1>5. QED
    BY <1>3, <1>4

LEMMA CalmRequest ==
    ASSUME Inv, Inv', Positions, Ordered, Transaction, RequestNext, faults = 0, faults' = 0
    PROVE  Ordered' /\ Transaction'
<1>1. Typed'
    BY DEF Inv
<1>2. ASSUME NEW q \in requests, ServeCancel(q) \/ ServeReplan(q) \/ ServeArm(q)
      PROVE  Ordered' /\ Transaction'
    BY <1>1, <1>2, CancelCalm, ReplanCalm, ArmCalm
<1>3. ASSUME NEW q \in requests, ServeClear(q)
      PROVE  Ordered' /\ Transaction'
    <2>1. /\ q.op = "clear" /\ \E ok \in BOOLEAN : Reply(q, ok)
          /\ UNCHANGED <<client, pending, calls, supervisor, served, expired, adapter,
                         alarms>>
        BY <1>3 DEF ServeClear
    <2>2. QED
        BY <1>1, <2>1, ReplyCalm
<1>4. ASSUME NEW q \in requests, CancelUnconfirmed(q)
      PROVE  FALSE
    BY <1>4 DEF CancelUnconfirmed, Fault
<1>5. CASE DeadlinePasses
    <2>1. UNCHANGED <<supervisor, threads, requests, served>>
        BY <1>5 DEF DeadlinePasses
    <2>2. QED
        BY <1>5, <2>1, DeadlineCalm, OrderedStays
<1>6. QED
    BY <1>2, <1>3, <1>4, <1>5 DEF RequestNext

-----------------------------------------------------------------------------
\* Before the first command there is no transaction, and no name.
LEMMA CalmInit ==
    ASSUME Init
    PROVE  Calm
<1>1. Typed
    BY InvInit DEF Inv
<1>2. /\ pending = None /\ calls = {} /\ requests = {} /\ served = {} /\ alarms = {}
      /\ client.phase = "idle" /\ client.sampled = None /\ Latch = None
      /\ \A g \in Generations : threads[g].pc = "idle"
    BY NoThreadIs DEF Init, Latch
<1>3. Bearers = {}
    BY <1>2 DEF Bearers, Naming
<1>4. Ordered
    BY <1>2, <1>3 DEF Ordered, Requested, InOrder, IsServed
<1>5. Reached /\ Canceled /\ Linked /\ PastCalls /\ Sampled
    BY <1>2, <1>3 DEF Reached, Canceled, Linked, PastCalls, Sampled
<1>6. LatchToPending /\ AnsweredOver /\ PendingToLatch /\ PendingBlocks /\ Blamed
    BY <1>2 DEF LatchToPending, AnsweredOver, PendingToLatch, PendingBlocks, Blamed, Timely
<1>7. QED
    BY <1>4, <1>5, <1>6 DEF Calm, Transaction

LEMMA CalmStep ==
    ASSUME Inv, Positions, Calm, [Next]_vars
    PROVE  Calm'
<1> SUFFICES ASSUME faults' = 0
             PROVE  Ordered' /\ Transaction'
    BY DEF Calm
<1>1. CASE Next
    <2>1. faults = 0
        BY <1>1, FaultsStay
    <2>2. Ordered /\ Transaction /\ Inv'
        BY <2>1, InvStep DEF Calm
    <2>3. QED
        BY <1>1, <2>1, <2>2, CalmClient, CalmAdapter, CalmRequest, CalmSupervisor DEF Next
<1>2. CASE UNCHANGED vars
    <2>1. /\ client' = client /\ pending' = pending /\ calls' = calls
          /\ supervisor' = supervisor /\ threads' = threads /\ requests' = requests
          /\ served' = served /\ expired' = expired /\ adapter' = adapter
          /\ alarms' = alarms /\ faults' = faults
        BY <1>2 DEF vars
    <2>2. Ordered /\ Transaction
        BY <2>1 DEF Calm
    <2>3. Bearers' = Bearers
        BY <2>1, SameBearers
    <2>4. PendingBlocks'
        BY <2>1, <2>2, <2>3, BlocksStay DEF Transaction
    <2>5. QED
        BY <2>1, <2>2, <2>3, <2>4, OrderedStays, TransactionStays
<1>3. QED
    BY <1>1, <1>2

\* Names, order and transaction are kept by every step of a lane without a fault.
THEOREM CalmHolds == Spec => []Calm
<1>1. Init => Calm
    BY CalmInit
<1>2. Inv /\ Positions /\ Calm /\ [Next]_vars => Calm'
    BY CalmStep
<1>3. QED
    BY <1>1, <1>2, Invariance, PositionsHold, PTL DEF Spec

\* Without a fault, latch and pending replan are one transaction: an armed latch
\* has its client's replan pending, with the plan it excludes.
THEOREM LatchHasItsReplan == Spec => []OneTransaction
<1>1. Calm => OneTransaction
    BY DEF Calm, Transaction, LatchToPending, Linked, OneTransaction
<1>2. QED
    BY <1>1, CalmHolds, PTL

\* Without a fault, what a replan excludes is not driven before the deadline.
THEOREM BlamedPlanIsNotDriven == Spec => []BlamedPlanStaysOut
<1>1. Inv /\ Calm => BlamedPlanStaysOut
    <2> SUFFICES ASSUME Inv, Calm, faults = 0
                 PROVE  /\ "excluded" \in alarms => expired # {}
                        /\ (pending # None /\ pending.id \notin expired
                               /\ Gen(pending.id) = adapter.gen)
                           => adapter.goal \notin pending.excluded
        BY DEF BlamedPlanStaysOut
    <2>1. Transaction
        BY DEF Calm
    <2>2. ASSUME Timely
          PROVE  adapter.goal \notin pending.excluded
        <3>1. None \notin pending.excluded
            <4>1. pending.excluded \subseteq Plans
                BY <2>2 DEF Timely, Inv, Typed, Transactions
            <4>2. QED
                BY <4>1, ConstantsAre
        <3>2. CASE Ended /\ client.reply = "executed" /\ adapter.goal = client.plan
            <4>1. pending # None /\ client.phase # "idle" /\ ~client.sampled.rejected
                BY <2>2, <3>2 DEF Timely, Ended
            <4>2. QED
                BY <2>1, <3>2, <4>1 DEF Transaction, Sampled
        <3>3. CASE adapter.goal = None
            BY <3>1, <3>3
        <3>4. QED
            BY <2>1, <2>2, <3>2, <3>3 DEF Transaction, PendingToLatch, Held, Ended
    <2>3. QED
        BY <2>1, <2>2 DEF Transaction, Blamed, Timely
<1>2. QED
    BY <1>1, Invariance, CalmHolds, PTL

=============================================================================
