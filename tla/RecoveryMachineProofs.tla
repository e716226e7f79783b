----------------------- MODULE RecoveryMachineProofs -----------------------
(***************************************************************************)
(* Theorems about the recovery machine, for every value of its constants.  *)
(*                                                                         *)
(* The handlers are compositions of the internal methods, so the proofs    *)
(* are too: one lemma per method says what it does to a machine r, and the *)
(* step lemmas put the methods together handler by handler.                *)
(***************************************************************************)
EXTENDS RecoveryMachine, TLAPS

\* The fields of the machine, as __init__ creates them.
LEMMA Fields ==
    DOMAIN InitialMachine =
      {"state", "gen", "goal", "recoveries", "lastNow", "safety", "observedAt",
       "samples", "arrivals", "seen", "active", "accepted", "taboo", "pending",
       "outbox", "completed", "retired", "attempt", "notBefore", "startedAt",
       "planDeadline", "awaiting", "cooldownUntil", "fallback", "replans",
       "rejections", "commands", "opSeq", "reason", "blamed"}
BY DEF InitialMachine

\* A bounded deque of S, once appended to, is a nonempty sequence over S.
LEMMA PushBoundedType ==
    ASSUME NEW S, NEW q \in Seq(S), NEW x \in S, NEW capacity \in Nat \ {0}
    PROVE  /\ PushBounded(q, x, capacity) \in Seq(S)
           /\ PushBounded(q, x, capacity) # <<>>
           /\ Last(PushBounded(q, x, capacity)) \in S
<1>1. \A t \in Seq(S) : /\ Append(t, x) \in Seq(S)
                        /\ Append(t, x) # <<>>
                        /\ Last(Append(t, x)) \in S
  BY DEF Last
<1>2. ~(Len(q) < capacity) => Tail(q) \in Seq(S)
  OBVIOUS
<1> QED
  BY <1>1, <1>2 DEF PushBounded

\* The null command, operation and safety flags have their types.
LEMMA Constants ==
    /\ NoCommand \in Commands
    /\ NoOperation \in Operations
    /\ NoSafety \in SafetyFlags
    /\ NoCommand.action = "none"
    /\ "latch_safe_stop" \notin ActionStates
BY DEF NoCommand, Commands, NoOperation, Operations, NoSafety, SafetyFlags, ActionStates, NoPlan

\* A machine that __init__ has just built is well typed.
LEMMA InitialType == MachineType(InitialMachine)
BY Fields, Constants DEF MachineType, InitialMachine, States, RecoveryStates, ActionStates, NoTime, NoSamples

\* _transition to a known state keeps the machine well typed.
LEMMA TransitionType ==
    ASSUME NEW r, MachineType(r), NEW s \in States
    PROVE  MachineType(Transition(r, s))
BY Fields DEF MachineType, Transition

\* Retiring the outstanding command keeps the machine well typed.
LEMMA RetirePendingType ==
    ASSUME NEW r, MachineType(r)
    PROVE  MachineType(RetirePending(r))
<1>1. r.retired \in Seq(Operations) /\ r.pending.op \in Operations
  BY DEF MachineType, Commands
<1>2. PushBounded(r.retired, r.pending.op, HistoryCapacity) \in Seq(Operations)
  BY <1>1, PushBoundedType, ConfigAssumption
<1> QED
  BY <1>2, Fields, Constants DEF MachineType, RetirePending

\* Counters stay natural numbers when they grow.
LEMMA Succ == \A n \in Nat : n + 1 \in Nat
OBVIOUS

\* The counters and clocks of a well-typed machine, each one step on.
LEMMA Counters ==
    ASSUME NEW r, MachineType(r)
    PROVE  /\ r.lastNow \in Nat
           /\ {r.recoveries + 1, r.attempt + 1, r.commands + 1, r.opSeq + 1,
               r.replans + 1, r.rejections + 1} \subseteq Nat
           /\ \A d \in Nat : r.lastNow + d \in Nat
<1>1. /\ r.recoveries \in Nat /\ r.attempt \in Nat /\ r.commands \in Nat
      /\ r.opSeq \in Nat /\ r.replans \in Nat /\ r.rejections \in Nat
      /\ r.lastNow \in Nat
  BY DEF MachineType
<1>2. \A d \in Nat : r.lastNow + d \in Nat
  BY <1>1
<1> QED
  BY <1>1, <1>2, Succ

\* Queueing a latched safe stop keeps the machine well typed.
LEMMA QueueSafeStopType ==
    ASSUME NEW r, MachineType(r)
    PROVE  MachineType(QueueSafeStop(r))
<1> DEFINE op == NewOperation(r, "latch_safe_stop")
           command == [action |-> "latch_safe_stop", op |-> op,
                       issued |-> r.lastNow, deadline |-> r.lastNow, plan |-> NoPlan]
<1>1. op \in Operations
  BY Counters DEF MachineType, NewOperation, Operations, ActionStates
<1>2. command \in Commands
  BY <1>1 DEF MachineType, Commands
<1>3. Append(r.outbox, command) \in Seq(Commands)
  BY <1>2 DEF MachineType
<1> QED
  BY <1>3, Fields DEF MachineType, QueueSafeStop

\* _enter_terminal returns a well-typed machine, and always a terminal one.
LEMMA EnterTerminalType ==
    ASSUME NEW r, MachineType(r), NEW why
    PROVE  /\ MachineType(EnterTerminal(r, why))
           /\ EnterTerminal(r, why).state = "terminal_safe_stop"
<1> DEFINE q == [RetirePending(r) EXCEPT !.state = "terminal_safe_stop", !.reason = why]
<1>1. MachineType(q)
  BY RetirePendingType, Fields DEF MachineType, States
<1>2. q.state = "terminal_safe_stop"
  BY RetirePendingType, Fields DEF MachineType
<1> HIDE DEF q
<1>3. MachineType(QueueSafeStop(q)) /\ QueueSafeStop(q).state = q.state
  BY <1>1, QueueSafeStopType, Fields DEF QueueSafeStop, MachineType
<1> QED
  BY <1>2, <1>3 DEF EnterTerminal, q

\* _validate_time keeps the machine well typed, whatever instant it is given.
LEMMA ValidateTimeType ==
    ASSUME NEW r, MachineType(r), NEW now \in Nat
    PROVE  MachineType(ValidateTime(r, now))
<1> DEFINE drained == [r EXCEPT !.outbox = <<>>]
<1>1. MachineType(drained)
  BY Fields DEF MachineType
<1>2. MachineType([drained EXCEPT !.lastNow = now])
  BY <1>1, Fields DEF MachineType
<1> QED
  BY <1>1, <1>2, EnterTerminalType DEF ValidateTime

\* The recovery deadline check returns a well-typed machine, and the very
\* machine it was given unless it stopped it.
LEMMA RecoveryDeadlineType ==
    ASSUME NEW r, MachineType(r)
    PROVE  /\ MachineType(RecoveryDeadline(r))
           /\ RecoveryDeadline(r).state # "terminal_safe_stop" => RecoveryDeadline(r) = r
BY EnterTerminalType DEF RecoveryDeadline

\* _start_recovery keeps the machine well typed, whatever the extra plans are.
LEMMA StartRecoveryType ==
    ASSUME NEW r, MachineType(r), NEW extras
    PROVE  MachineType(StartRecovery(r, extras))
<1> DEFINE q == [r EXCEPT !.recoveries = @ + 1, !.startedAt = r.lastNow,
                     !.fallback = FALSE, !.replans = 0, !.rejections = 0,
                     !.commands = 0, !.accepted = NoPlan,
                     !.taboo = AddTabooAll(@, <<r.active>> \o extras),
                     !.samples = NoSamples, !.blamed = r.active]
<1>1. MachineType(q)
  BY Fields, Counters, ZenonT(60) DEF MachineType, NoSamples
<1>2. MachineType(Transition(q, "cancel_goal"))
  BY <1>1, TransitionType DEF States, RecoveryStates, ActionStates
<1> QED
  BY <1>2, EnterTerminalType DEF StartRecovery

\* _start_safe_retreat_or_terminal keeps the machine well typed.
LEMMA StartRetreatOrStopType ==
    ASSUME NEW r, MachineType(r), NEW why
    PROVE  MachineType(StartRetreatOrStop(r, why))
<1> DEFINE q == [r EXCEPT !.planDeadline = NoTime]
           p == [q EXCEPT !.fallback = TRUE]
<1>1. MachineType(q)
  BY Fields DEF MachineType
<1>2. MachineType(p)
  BY <1>1, Fields DEF MachineType
<1> HIDE DEF p, q
<1>3. MachineType(Transition(p, "safe_retreat"))
  BY <1>2, TransitionType DEF States, RecoveryStates, ActionStates
<1> QED
  BY <1>1, <1>3, EnterTerminalType DEF StartRetreatOrStop, p, q

\* Issuing a command keeps the machine well typed.
LEMMA IssueCommandType ==
    ASSUME NEW r, MachineType(r), NEW action \in ActionStates
    PROVE  MachineType(IssueCommand(r, action))
<1> DEFINE op == NewOperation(r, action)
           plan == IF action = "accept_fresh_plan" THEN r.accepted ELSE NoPlan
           command == [action |-> action, op |-> op, issued |-> r.lastNow,
                       deadline |-> r.lastNow + ActionTimeout, plan |-> plan]
<1>1. op \in Operations
  BY Counters DEF MachineType, NewOperation, Operations, ActionStates
<1>2. plan \in Plans \cup {NoPlan}
  BY DEF MachineType
<1>3. r.lastNow \in Nat /\ r.lastNow + ActionTimeout \in Nat
  BY Counters, ConfigAssumption
<1> HIDE DEF op, plan
<1>4. command \in Commands /\ command.action # "latch_safe_stop"
  BY <1>1, <1>2, <1>3, Constants DEF Commands
<1> HIDE DEF command
<1>5. Append(r.outbox, command) \in Seq(Commands)
  BY <1>4 DEF MachineType
<1> DEFINE n == IF action = "request_replan" THEN r.replans + 1 ELSE r.replans
           q == [r EXCEPT !.attempt = @ + 1, !.commands = @ + 1, !.opSeq = @ + 1,
                          !.replans = n, !.pending = command,
                          !.outbox = Append(@, command)]
<1>6. n \in Nat
  BY Counters DEF MachineType
<1> DEFINE counted == [r EXCEPT !.attempt = @ + 1, !.commands = @ + 1, !.opSeq = @ + 1,
                                !.replans = n]
<1> HIDE DEF n
<1>7. MachineType(counted)
  BY <1>6, Fields, Counters, SMTT(30) DEF MachineType
<1>8. MachineType(q)
  <2>1. q = [counted EXCEPT !.pending = command, !.outbox = Append(r.outbox, command)]
    OBVIOUS
  <2> HIDE DEF counted, q
  <2> QED
    BY <1>4, <1>5, <1>7, <2>1, Fields DEF MachineType
<1> QED
  BY <1>8 DEF IssueCommand, n, command, op, plan

\* _issue_current_action keeps the machine well typed.
LEMMA IssueCurrentActionType ==
    ASSUME NEW r, MachineType(r), r.state \in ActionStates
    PROVE  MachineType(IssueCurrentAction(r))
BY EnterTerminalType, StartRetreatOrStopType, IssueCommandType
   DEF IssueCurrentAction, ActionByState

\* _retry_or_fail_action keeps the machine well typed.
LEMMA RetryOrFailType ==
    ASSUME NEW r, MachineType(r), NEW why
    PROVE  MachineType(RetryOrFail(r, why))
<1> DEFINE q == RetirePending(r)
<1>1. MachineType(q)
  BY RetirePendingType
<1> HIDE DEF q
<1>2. MachineType([q EXCEPT !.notBefore = r.lastNow + RetryBackoff])
  <2>1. r.lastNow + RetryBackoff \in Nat
    BY Counters, ConfigAssumption
  <2> QED
    BY <1>1, <2>1, Fields DEF MachineType
<1> QED
  BY <1>1, <1>2, EnterTerminalType, StartRetreatOrStopType DEF RetryOrFail, q

\* Remembering a completion keeps the machine well typed and leaves its
\* operation as the last one, which is where _complete_action takes it from.
LEMMA RememberCompletionType ==
    ASSUME NEW r, MachineType(r), NEW op \in Operations, NEW success \in BOOLEAN
    PROVE  LET c == RememberCompletion(r, op, success)
           IN  MachineType(c) /\ Last(c.completed).op \in Operations
<1> DEFINE e == [op |-> op, success |-> success]
           S == [op : Operations, success : BOOLEAN]
           q == PushBounded(r.completed, e, HistoryCapacity)
<1>1. e \in S
  OBVIOUS
<1>2. r.completed \in Seq(S)
  BY DEF MachineType
<1>3. HistoryCapacity \in Nat \ {0}
  BY ConfigAssumption
<1>4. q \in Seq(S) /\ Last(q) \in S
  BY <1>1, <1>2, <1>3, PushBoundedType
<1> HIDE DEF q
<1>5. MachineType([r EXCEPT !.completed = q])
  BY <1>4, Fields DEF MachineType
<1>6. [r EXCEPT !.completed = q].completed = q
  BY Fields DEF MachineType
<1> QED
  BY <1>4, <1>5, <1>6 DEF RememberCompletion, q

\* Forgetting the outstanding command keeps the machine well typed.
LEMMA DropPendingType ==
    ASSUME NEW r, MachineType(r)
    PROVE  MachineType([r EXCEPT !.pending = NoCommand])
<1>1. NoCommand \in Commands /\ NoCommand.action # "latch_safe_stop"
  BY Constants
<1> QED
  BY <1>1, Fields DEF MachineType

\* Counting a rejected plan keeps the machine well typed.
LEMMA RejectPlanType ==
    ASSUME NEW r, MachineType(r), NEW taboo
    PROVE  MachineType([r EXCEPT !.taboo = taboo, !.rejections = @ + 1])
<1>1. r.rejections + 1 \in Nat
  BY Counters
<1> QED
  BY <1>1, Fields DEF MachineType

\* Accepting a plan at the execution barrier keeps the machine well typed.
LEMMA CompleteAcceptType ==
    ASSUME NEW r, MachineType(r)
    PROVE  MachineType(CompleteAccept(r))
<1> DEFINE q == [r EXCEPT !.seen = @ \cup {r.accepted.shape}, !.active = r.accepted,
                   !.startedAt = NoTime, !.state = "cooldown",
                   !.cooldownUntil = r.lastNow + CooldownTime]
<1>1. r.lastNow + CooldownTime \in Nat
  BY Counters, ConfigAssumption
<1>2. r.accepted # NoPlan => MachineType(q)
  BY <1>1, Fields DEF MachineType, States
<1> QED
  BY <1>2, EnterTerminalType DEF CompleteAccept

\* _complete_action keeps the machine well typed.
LEMMA CompleteActionType ==
    ASSUME NEW r, MachineType(r), Last(r.completed).op \in Operations,
           NEW action \in ActionStates
    PROVE  MachineType(CompleteAction(r, action))
<1> DEFINE w == [r EXCEPT !.state = "wait_fresh_plan", !.attempt = 0,
                     !.planDeadline = r.lastNow + PlanWaitTimeout,
                     !.awaiting = Last(r.completed).op]
           z == [r EXCEPT !.replans = 0, !.rejections = 0]
<1>1. r.lastNow + PlanWaitTimeout \in Nat
  BY Counters, ConfigAssumption
<1>2. MachineType(w)
  BY <1>1, Fields DEF MachineType, States, RecoveryStates
<1>3. MachineType(z)
  BY Fields DEF MachineType
<1>4. {"clear_local_cache", "scan", "request_replan"} \subseteq States
  BY DEF States, RecoveryStates, ActionStates
<1> HIDE DEF w, z
<1>5. /\ MachineType(Transition(r, "clear_local_cache"))
      /\ MachineType(Transition(r, "scan"))
      /\ MachineType(Transition(r, "request_replan"))
      /\ MachineType(Transition(z, "scan"))
  BY <1>3, <1>4, TransitionType
<1>6. MachineType(CompleteAccept(r))
  BY CompleteAcceptType
<1> QED
  BY <1>2, <1>5, <1>6 DEF CompleteAction, w, z, ActionStates

\* Storing the safety flags of a tick keeps the machine well typed.
LEMMA SetSafetyType ==
    ASSUME NEW r, MachineType(r), NEW flags \in SafetyFlags, NEW cached \in BOOLEAN
    PROVE  MachineType(SetSafety(r, flags, cached))
BY Fields DEF MachineType, SetSafety

\* The safety paragraph of tick keeps the machine well typed.
LEMMA SafetyGateType ==
    ASSUME NEW r, MachineType(r)
    PROVE  MachineType(SafetyGate(r))
BY EnterTerminalType DEF SafetyGate

\* The action deadline paragraph of tick keeps the machine well typed.
LEMMA PendingExpiryType ==
    ASSUME NEW r, MachineType(r)
    PROVE  MachineType(PendingExpiry(r))
BY RetryOrFailType DEF PendingExpiry

\* The plan deadline paragraph of tick keeps the machine well typed.
LEMMA PlanWaitExpiryType ==
    ASSUME NEW r, MachineType(r)
    PROVE  MachineType(PlanWaitExpiry(r))
<1>1. MachineType(Transition(r, "request_replan"))
  BY TransitionType DEF States, RecoveryStates, ActionStates
<1> QED
  BY <1>1, StartRetreatOrStopType DEF PlanWaitExpiry

\* The cooldown paragraph of tick keeps the machine well typed.
LEMMA CooldownExpiryType ==
    ASSUME NEW r, MachineType(r)
    PROVE  MachineType(CooldownExpiry(r))
<1> DEFINE q == Transition(r, "monitoring")
<1>1. MachineType(q)
  BY TransitionType DEF States
<1> HIDE DEF q
<1>2. MachineType([q EXCEPT !.samples = NoSamples, !.arrivals = <<>>,
                            !.cooldownUntil = NoTime])
  BY <1>1, Fields DEF MachineType, NoSamples
<1> QED
  BY <1>2 DEF CooldownExpiry, q

\* The issuing paragraph of tick keeps the machine well typed.
LEMMA IssueWhenDueType ==
    ASSUME NEW r, MachineType(r)
    PROVE  MachineType(IssueWhenDue(r))
BY IssueCurrentActionType DEF IssueWhenDue

\* tick keeps the machine well typed.
LEMMA TickWithType ==
    ASSUME NEW r, MachineType(r), NEW flags \in SafetyFlags, NEW cached \in BOOLEAN
    PROVE  MachineType(TickWith(r, flags, cached))
BY SetSafetyType, SafetyGateType, RecoveryDeadlineType, PendingExpiryType,
   PlanWaitExpiryType, CooldownExpiryType, IssueWhenDueType DEF TickWith

\* The tick at the end of a handler keeps the machine well typed.
LEMMA CachedTickType ==
    ASSUME NEW r, MachineType(r)
    PROVE  MachineType(CachedTick(r))
BY TickWithType DEF CachedTick, MachineType

\* A plan update keeps the machine well typed, whatever cycle it detects.
LEMMA PlanArrivalType ==
    ASSUME NEW r, MachineType(r), NEW p \in Plans, NEW running, NEW window, NEW order
    PROVE  MachineType(PlanArrival(r, p, running, window, order))
<1> DEFINE push == PushBounded(r.arrivals, p, TabooCapacity)
           a == [r EXCEPT !.active = p, !.arrivals = push]
           seen == a.seen \cup {p.shape}
           b == [a EXCEPT !.seen = seen]
<1>1. push \in Seq(Plans)
  <2>1. r.arrivals \in Seq(Plans) /\ TabooCapacity \in Nat \ {0}
    BY ConfigAssumption DEF MachineType
  <2> QED
    BY <2>1, PushBoundedType
<1> HIDE DEF push
<1>2. MachineType(a)
  BY <1>1, Fields DEF MachineType
<1> HIDE DEF a
<1>3. MachineType(b)
  <2>1. seen \subseteq {q.shape : q \in Plans}
    BY <1>2 DEF MachineType
  <2> HIDE DEF seen
  <2> QED
    BY <1>2, <2>1, Fields DEF MachineType
<1> HIDE DEF b
<1>4. \A extras : MachineType(StartRecovery(a, extras))
  BY <1>2, StartRecoveryType
<1>5. \A why : MachineType(EnterTerminal(a, why))
  BY <1>2, EnterTerminalType
<1>6. \A q : MachineType(q) => \A extras : MachineType(StartRecovery(q, extras))
  BY StartRecoveryType
<1> QED
  BY <1>2, <1>3, <1>4, <1>5, <1>6 DEF PlanArrival, a, b, push

\* The progress check of observe keeps the machine well typed.
LEMMA ObserveProgressType ==
    ASSUME NEW r, MachineType(r), NEW flags \in SafetyFlags, NEW running, NEW stuck
    PROVE  MachineType(ObserveProgress(r, flags, running, stuck))
<1>1. MachineType([r EXCEPT !.samples = NoSamples])
  BY Fields DEF MachineType, NoSamples
<1>2. MachineType(AddSample(r))
  <2> DEFINE kept == IF r.lastNow - r.samples.last > MaxObservationGap THEN 0
                     ELSE r.samples.count
             n == IF kept < MinSamples THEN kept + 1 ELSE kept
  <2>1. kept \in Nat
    BY DEF MachineType
  <2> HIDE DEF kept
  <2>2. n \in Nat
    BY <2>1
  <2> HIDE DEF n
  <2>3. [count |-> n, last |-> r.lastNow] \in [count : Nat, last : Nat]
    BY <2>2, Counters
  <2>4. MachineType([r EXCEPT !.samples = [count |-> n, last |-> r.lastNow]])
    BY <2>3, Fields DEF MachineType
  <2> QED
    BY <2>4 DEF AddSample, n, kept
<1> QED
  BY <1>1, <1>2, StartRecoveryType, TickWithType DEF ObserveProgress

\* Every handler keeps the machine well typed.
LEMMA TypeStep ==
    ASSUME TypeOK, Next
    PROVE  TypeOK'
<1> USE DEF TypeOK
<1>1. \A now \in CallTimes : now \in Nat /\ MachineType(ValidateTime(m, now))
  BY ValidateTimeType, ConfigAssumption DEF CallTimes, Time
<1>2. \A now \in CallTimes : MachineType(RecoveryDeadline(ValidateTime(m, now)))
  BY <1>1, RecoveryDeadlineType
<1>3. CASE Episode
  <2>1. PICK now \in CallTimes, generation \in Generations :
          BeginEpisode(generation, now) \/ BeginEpisodeRefused(generation, now)
    BY <1>3 DEF Episode
  <2>2. CASE BeginEpisodeRefused(generation, now)
    <3>1. MachineType([m EXCEPT !.outbox = <<>>])
      BY Fields DEF MachineType
    <3> QED
      BY <2>2, <3>1, EnterTerminalType DEF BeginEpisodeRefused
  <2>3. CASE BeginEpisode(generation, now)
    <3> DEFINE fresh == [InitialMachine EXCEPT
                       !.state = "monitoring", !.gen = generation,
                       !.lastNow = now, !.notBefore = now,
                       !.opSeq = m.opSeq, !.completed = m.completed,
                       !.retired = RetirePending(m).retired]
    <3>1. generation \in Int
      BY ConfigAssumption DEF Generations
    <3>2. /\ RetirePending(m).retired \in Seq(Operations)
          /\ m.opSeq \in Nat
          /\ m.completed \in Seq([op : Operations, success : BOOLEAN])
      BY RetirePendingType DEF MachineType
    <3>3. MachineType(fresh)
      <4> DEFINE retired == RetirePending(m).retired
      <4> HIDE DEF retired
      <4>1. retired \in Seq(Operations) /\ now \in Nat
        BY <1>1, <3>2 DEF retired
      <4> DEFINE f == [InitialMachine EXCEPT
                       !.state = "monitoring", !.gen = generation,
                       !.lastNow = now, !.notBefore = now,
                       !.opSeq = m.opSeq, !.completed = m.completed,
                       !.retired = retired]
      <4>2. MachineType(f)
        BY <4>1, <3>1, <3>2, InitialType, Fields DEF MachineType, States
      <4> QED
        BY <4>2 DEF retired
    <3> QED
      BY <2>3, <3>3, QueueSafeStopType DEF BeginEpisode
  <2> QED
    BY <2>1, <2>2, <2>3
<1>4. CASE Clocked
  BY <1>4, <1>1, EnterTerminalType, TickWithType DEF Clocked, TickInvalid, Tick
<1>5. CASE Acknowledge
  <2>1. PICK now \in CallTimes :
          \/ AckMalformed(now)
          \/ \E op \in AckOps :
               \/ AckStaleDropped(now, op)
               \/ \E success \in BOOLEAN : AckDuplicate(now, op, success)
               \/ \E gen \in Generations, rec \in Recoveries :
                    AckUnknown(now, op, gen, rec)
          \/ \E success \in BOOLEAN, evidence \in Evidence :
               AckPending(now, success, evidence)
    BY <1>5 DEF Acknowledge
  <2> DEFINE v == ValidateTime(m, now)
             d == RecoveryDeadline(v)
  <2>2. MachineType(v) /\ MachineType(d)
    BY <1>1, <1>2
  <2>3. CASE AckMalformed(now)
    BY <2>2, <2>3, EnterTerminalType DEF AckMalformed
  <2>4. ASSUME NEW op, AckStaleDropped(now, op)
        PROVE  MachineType(m')
    BY <2>2, <2>4 DEF AckStaleDropped
  <2>5. ASSUME NEW op, NEW success, AckDuplicate(now, op, success)
        PROVE  MachineType(m')
    BY <2>2, <2>5, EnterTerminalType DEF AckDuplicate
  <2>6. ASSUME NEW op, NEW gen, NEW rec, AckUnknown(now, op, gen, rec)
        PROVE  MachineType(m')
    BY <2>2, <2>6, EnterTerminalType DEF AckUnknown
  <2>7. ASSUME NEW success \in BOOLEAN, NEW evidence, AckPending(now, success, evidence)
        PROVE  MachineType(m')
    <3> DEFINE c == RememberCompletion(d, d.pending.op, success)
               e == [c EXCEPT !.pending = NoCommand]
    <3> HIDE DEF v, d
    <3>1. d.pending.op \in Operations
      BY <2>2 DEF MachineType, Commands
    <3>2. MachineType(c) /\ Last(c.completed).op \in Operations
      BY <2>2, <3>1, RememberCompletionType
    <3> HIDE DEF c
    <3>3. MachineType(e) /\ e.completed = c.completed
      <4>1. e.completed = c.completed
        BY <3>2, Fields DEF MachineType
      <4>2. MachineType(e)
        BY <3>2, DropPendingType
      <4> QED
        BY <4>1, <4>2
    <3> HIDE DEF e
    <3>4. ASSUME d.pending.action \in ActionStates
          PROVE  MachineType(CachedTick(CompleteAction(e, d.pending.action)))
      BY <3>2, <3>3, <3>4, CompleteActionType, CachedTickType
    <3>5. d.state # "terminal_safe_stop" => d = v
      BY <1>1, RecoveryDeadlineType DEF d, v
    <3>6. HasPending(v) /\ d = v => d.pending.action \in ActionStates
      BY <2>2 DEF HasPending, MachineType, Commands
    <3>7. \A why : /\ MachineType(RetryOrFail(d, why)) /\ MachineType(RetryOrFail(c, why))
                  /\ MachineType(EnterTerminal(d, why))
      BY <2>2, <3>2, RetryOrFailType, EnterTerminalType
    <3> QED
      BY <2>2, <2>7, <3>4, <3>5, <3>6, <3>7 DEF AckPending, c, d, e, v
  <2> QED
    BY <2>1, <2>3, <2>4, <2>5, <2>6, <2>7
<1>6. CASE Observe
  <2>1. PICK now \in CallTimes :
          \/ ObserveIdle(now)
          \/ ObserveInvalid(now)
          \/ \E goal \in Goals :
               \/ ObserveForeignGoal(now, goal)
               \/ \E flags \in SafetyFlags : ObserveValid(now, goal, flags)
    BY <1>6 DEF Observe
  <2> DEFINE v == ValidateTime(m, now)
  <2>2. MachineType(v)
    BY <1>1
  <2>3. CASE ObserveIdle(now) \/ ObserveInvalid(now)
    BY <2>2, <2>3, EnterTerminalType DEF ObserveIdle, ObserveInvalid
  <2>4. ASSUME NEW goal, ObserveForeignGoal(now, goal)
        PROVE  MachineType(m')
    BY <2>2, <2>4, EnterTerminalType DEF ObserveForeignGoal
  <2>5. ASSUME NEW goal \in Goals, NEW flags \in SafetyFlags,
               ObserveValid(now, goal, flags)
        PROVE  MachineType(m')
    <3> DEFINE t == TickWith(AdoptGoal(v, goal), flags, FALSE)
    <3> HIDE DEF v
    <3>1. MachineType(AdoptGoal(v, goal))
      <4>1. MachineType([v EXCEPT !.samples = NoSamples, !.arrivals = <<>>, !.seen = {},
                                  !.active = NoPlan, !.goal = goal])
        BY <2>2, Fields DEF MachineType, NoSamples
      <4>2. MachineType([v EXCEPT !.goal = goal])
        BY <2>2, Fields DEF MachineType
      <4> QED
        BY <4>1, <4>2 DEF AdoptGoal
    <3>2. MachineType(t)
      BY <3>1, TickWithType
    <3> HIDE DEF t
    <3>3. \A running, stuck \in BOOLEAN :
            MachineType(ObserveProgress(t, flags, running, stuck))
      BY <3>2, ObserveProgressType
    <3>4. \A p \in Plans : \A running, stuck, window, order :
            MachineType(ObserveProgress(PlanArrival(t, p, running, window, order),
                                        flags, running, stuck))
      BY <3>2, PlanArrivalType, ObserveProgressType
    <3> QED
      BY <2>5, <3>2, <3>3, <3>4 DEF ObserveValid, t, v
  <2> QED
    BY <2>1, <2>3, <2>4, <2>5
<1>7. CASE Submit
  <2>1. PICK now \in CallTimes :
          \/ SubmitStopped(now)
          \/ \E op \in {m.awaiting, NoOperation}, gen \in Generations,
                rec \in Recoveries :
               \/ SubmitRefused(now, op, gen, rec)
               \/ SubmitLate(now, op, gen, rec)
               \/ SubmitInvalid(now, op, gen, rec)
               \/ \E p \in Plans : \/ SubmitOld(now, op, gen, rec, p)
                                   \/ SubmitNovel(now, op, gen, rec, p)
    BY <1>7 DEF Submit
  <2> DEFINE d == RecoveryDeadline(ValidateTime(m, now))
  <2>2. MachineType(d)
    BY <1>2
  <2>3. \A q : MachineType(q) =>
          /\ MachineType(CachedTick(Transition(q, "request_replan")))
          /\ MachineType(CachedTick(Transition(q, "accept_fresh_plan")))
          /\ \A why : MachineType(CachedTick(StartRetreatOrStop(q, why)))
    BY TransitionType, StartRetreatOrStopType, CachedTickType
       DEF States, RecoveryStates, ActionStates
  <2>4. CASE SubmitStopped(now)
    BY <2>2, <2>4 DEF SubmitStopped
  <2>5. ASSUME NEW op, NEW gen, NEW rec, SubmitRefused(now, op, gen, rec)
        PROVE  MachineType(m')
    BY <2>2, <2>5, EnterTerminalType DEF SubmitRefused
  <2>6. ASSUME NEW op, NEW gen, NEW rec, SubmitInvalid(now, op, gen, rec)
        PROVE  MachineType(m')
    BY <2>2, <2>6, EnterTerminalType DEF SubmitInvalid
  <2>7. ASSUME NEW op, NEW gen, NEW rec, SubmitLate(now, op, gen, rec)
        PROVE  MachineType(m')
    <3> DEFINE q == [d EXCEPT !.awaiting = NoOperation, !.planDeadline = NoTime]
    <3> HIDE DEF d
    <3>1. MachineType(q)
      BY <2>2, Constants, Fields DEF MachineType
    <3> HIDE DEF q
    <3> QED
      BY <2>3, <2>7, <3>1 DEF SubmitLate, d, q
  <2>8. ASSUME NEW op, NEW gen, NEW rec, NEW p \in Plans,
               SubmitOld(now, op, gen, rec, p)
        PROVE  MachineType(m')
    <3> DEFINE q == [d EXCEPT !.taboo = AddTaboo(@, p), !.rejections = @ + 1]
    <3> HIDE DEF d
    <3>1. MachineType(q)
      BY <2>2, RejectPlanType
    <3> HIDE DEF q
    <3> QED
      BY <2>3, <2>8, <3>1 DEF SubmitOld, d, q
  <2>9. ASSUME NEW op, NEW gen, NEW rec, NEW p \in Plans,
               SubmitNovel(now, op, gen, rec, p)
        PROVE  MachineType(m')
    <3> DEFINE q == [d EXCEPT !.accepted = p, !.planDeadline = NoTime,
                              !.awaiting = NoOperation]
    <3> HIDE DEF d
    <3>1. MachineType(q)
      BY <2>2, Constants, Fields DEF MachineType
    <3> HIDE DEF q
    <3> QED
      BY <2>2, <2>3, <2>9, <3>1, EnterTerminalType DEF SubmitNovel, d, q
  <2> QED
    BY <2>1, <2>4, <2>5, <2>6, <2>7, <2>8, <2>9
<1> QED
  BY <1>3, <1>4, <1>5, <1>6, <1>7 DEF Next

\* Every field of the recovery machine keeps its type through every handler, for
\* every configuration, clock and caller: no early return of tick, acknowledge,
\* observe or submit_replanned_trajectory leaves a half-written record behind.
THEOREM TypeCorrect == Spec => []TypeOK
<1>1. Init => TypeOK
  BY InitialType DEF Init, TypeOK
<1>2. TypeOK /\ UNCHANGED m => TypeOK'
  BY DEF TypeOK
<1> QED
  BY <1>1, <1>2, TypeStep, PTL DEF Spec

-----------------------------------------------------------------------------
(* The inductive invariant.                                                *)

\* The outstanding command is the action of the current state.
PendingMatches(r) == HasPending(r) => r.pending.action = r.state

\* What tick relies on when it is given new safety flags.
Sound(r) == PendingMatches(r) /\ BarrierNovel(r) /\ WayForward(r)

\* The invariant between handlers, without the types.
Guarded(r) == Sound(r) /\ GatedSafe(r)

\* The inductive invariant.
Settled(r) == MachineType(r) /\ Guarded(r)

\* Outside the action states nothing is outstanding.
LEMMA NoStrayPending ==
    ASSUME NEW r, MachineType(r), PendingMatches(r), r.state \notin ActionStates
    PROVE  ~HasPending(r)
BY DEF MachineType, PendingMatches, HasPending, Commands

\* Without an outstanding command the safety gate has nothing to withdraw.
LEMMA NoPendingIsGated ==
    ASSUME NEW r, ~HasPending(r)
    PROVE  GatedSafe(r)
BY DEF GatedSafe, HasPending, SafetyGatedActions, MotionActions

\* Retiring the outstanding command leaves a sound machine with none.
LEMMA RetirePendingSound ==
    ASSUME NEW r, MachineType(r), Sound(r)
    PROVE  LET q == RetirePending(r)
           IN  /\ MachineType(q) /\ Guarded(q) /\ ~HasPending(q)
               /\ q.state = r.state /\ q.startedAt = r.startedAt
               /\ q.lastNow = r.lastNow
<1> DEFINE q == RetirePending(r)
<1>1. MachineType(q)
  BY RetirePendingType
<1>2. ~HasPending(q) /\ q.state = r.state /\ q.startedAt = r.startedAt /\ q.lastNow = r.lastNow
  BY Fields DEF RetirePending, HasPending, NoCommand, MachineType
<1>3. Sound(q)
  BY Fields DEF RetirePending, HasPending, NoCommand, MachineType, Sound, PendingMatches,
                BarrierNovel, WayForward, IsOld, IsTaboo
<1> QED
  BY <1>1, <1>2, <1>3, NoPendingIsGated DEF Guarded

\* _enter_terminal leaves every part of the invariant true: it needs nothing of
\* the machine it stops but its types.
LEMMA EnterTerminalSound ==
    ASSUME NEW r, MachineType(r), NEW why,
           r.state = "terminal_safe_stop" => Sound(r)
    PROVE  Settled(EnterTerminal(r, why))
<1> DEFINE e == EnterTerminal(r, why)
<1>1. MachineType(e) /\ e.state = "terminal_safe_stop"
  BY EnterTerminalType
<1>2. CASE r.state = "terminal_safe_stop"
  <2>1. e = r
    BY <1>2 DEF EnterTerminal
  <2>2. ~HasPending(r)
    BY <1>2, NoStrayPending DEF Sound, ActionStates
  <2> QED
    BY <1>1, <1>2, <2>1, <2>2, NoPendingIsGated DEF Settled, Guarded
<1>3. CASE r.state # "terminal_safe_stop"
  <2> DEFINE p == RetirePending(r)
             q == [p EXCEPT !.state = "terminal_safe_stop", !.reason = why]
  <2>1. DOMAIN p = DOMAIN InitialMachine /\ p.pending.action = "none"
    BY Fields, Constants DEF RetirePending, HasPending, MachineType
  <2> HIDE DEF p
  <2>2. DOMAIN q = DOMAIN InitialMachine /\ q.pending.action = "none"
    BY <2>1, Fields
  <2> HIDE DEF q
  <2>3. e = QueueSafeStop(q)
    BY <1>3 DEF EnterTerminal, p, q
  <2>4. e.pending.action = "none"
    BY <2>2, <2>3, Fields DEF QueueSafeStop
  <2>5. ~HasPending(e)
    BY <2>4 DEF HasPending
  <2>6. Sound(e)
    BY <1>1, <2>5, <2>4 DEF Sound, PendingMatches, BarrierNovel, WayForward, RecoveryStates, ActionStates
  <2> QED
    BY <1>1, <2>5, <2>6, NoPendingIsGated DEF Settled, Guarded
<1> QED
  BY <1>2, <1>3

\* _transition to an action other than the acceptance arms the next issue.
LEMMA TransitionSound ==
    ASSUME NEW r, MachineType(r), ~HasPending(r), r.startedAt # NoTime,
           NEW s \in ActionStates \ {"accept_fresh_plan"}
    PROVE  Settled(Transition(r, s))
<1> DEFINE t == Transition(r, s)
<1>1. MachineType(t)
  BY TransitionType DEF States, RecoveryStates
<1>2. /\ t.state = s /\ t.pending = r.pending /\ t.startedAt = r.startedAt
      /\ t.lastNow = r.lastNow /\ t.notBefore = r.lastNow
  BY Fields DEF Transition, MachineType
<1>3. ~HasPending(t) /\ t.pending.action = "none"
  BY <1>2 DEF HasPending
<1>4. t.notBefore <= t.lastNow + RetryBackoff
  BY <1>2, Counters, ConfigAssumption
<1> HIDE DEF t
<1>5. Sound(t)
  BY <1>2, <1>3, <1>4 DEF Sound, PendingMatches, BarrierNovel, WayForward, RecoveryStates, ActionStates
<1> QED
  BY <1>1, <1>3, <1>5, NoPendingIsGated DEF Settled, Guarded, t

\* The fallback either arms a retreat or stops the machine.
LEMMA StartRetreatOrStopSound ==
    ASSUME NEW r, MachineType(r), ~HasPending(r), r.startedAt # NoTime,
           r.state # "terminal_safe_stop", NEW why
    PROVE  Settled(StartRetreatOrStop(r, why))
<1> DEFINE q == [r EXCEPT !.planDeadline = NoTime]
           p == [q EXCEPT !.fallback = TRUE]
<1>1. MachineType(q) /\ q.state = r.state /\ q.pending = r.pending /\ q.startedAt = r.startedAt
  BY Fields DEF MachineType
<1> HIDE DEF q
<1>2. MachineType(p) /\ p.pending = r.pending /\ p.startedAt = r.startedAt
  BY <1>1, Fields DEF MachineType
<1> HIDE DEF p
<1>3. Settled(Transition(p, "safe_retreat"))
  BY <1>2, TransitionSound DEF HasPending, ActionStates
<1>4. Settled(EnterTerminal(q, why))
  BY <1>1, EnterTerminalSound
<1>5. StartRetreatOrStop(r, why) \in {Transition(p, "safe_retreat"), EnterTerminal(q, why)}
  BY DEF StartRetreatOrStop, p, q
<1> QED
  BY <1>3, <1>4, <1>5

\* A command issued after its gates passed matches its state, has a deadline, and
\* is permitted by the flags the gates looked at.
LEMMA IssueCommandSound ==
    ASSUME NEW r, Settled(r), r.state \in ActionStates, ~HasPending(r),
           r.state \in SafetyGatedActions => CachedSafetyIsFresh(r),
           r.state = "safe_retreat" => r.safety.rear
    PROVE  Settled(IssueCommand(r, r.state))
<1> DEFINE c == [action |-> r.state, op |-> NewOperation(r, r.state),
                 issued |-> r.lastNow, deadline |-> r.lastNow + ActionTimeout,
                 plan |-> IF r.state = "accept_fresh_plan" THEN r.accepted ELSE NoPlan]
           i == IssueCommand(r, r.state)
<1>1. MachineType(i)
  BY IssueCommandType DEF Settled
<1>2. /\ i.pending = c /\ i.state = r.state /\ i.lastNow = r.lastNow
      /\ i.notBefore = r.notBefore /\ i.startedAt = r.startedAt
      /\ i.planDeadline = r.planDeadline /\ i.cooldownUntil = r.cooldownUntil
      /\ i.accepted = r.accepted /\ i.seen = r.seen /\ i.taboo = r.taboo
      /\ i.safety = r.safety
  BY Fields DEF IssueCommand, Settled, MachineType
<1>3. /\ c.action = r.state /\ c.deadline = r.lastNow + ActionTimeout
      /\ r.state = "accept_fresh_plan" => c.plan = r.accepted
  OBVIOUS
<1>4. r.lastNow + ActionTimeout <= r.lastNow + ActionTimeout
  BY Counters, ConfigAssumption DEF Settled
<1> HIDE DEF i, c
<1>5. PendingMatches(i)
  BY <1>2, <1>3 DEF PendingMatches
<1>6. BarrierNovel(i)
  BY <1>2, <1>3 DEF BarrierNovel, IsOld, IsTaboo, Settled, Guarded, Sound
<1>7. WayForward(i)
  BY <1>2, <1>3, <1>4 DEF WayForward, Settled, Guarded, Sound
<1>8. GatedSafe(i)
  BY <1>2, <1>3 DEF GatedSafe, CachedSafetyIsFresh
<1> QED
  BY <1>1, <1>5, <1>6, <1>7, <1>8 DEF Settled, Guarded, Sound, i

\* _issue_current_action keeps the invariant: its gates are the ones
\* IssueCommandSound asks for.
LEMMA IssueCurrentActionSound ==
    ASSUME NEW r, Settled(r), r.state \in ActionStates, ~HasPending(r)
    PROVE  Settled(IssueCurrentAction(r))
<1>1. /\ MachineType(r) /\ r.state # "terminal_safe_stop" /\ r.startedAt # NoTime
  BY DEF Settled, Guarded, Sound, WayForward, ActionStates, RecoveryStates
<1>2. \A why : Settled(EnterTerminal(r, why)) /\ Settled(StartRetreatOrStop(r, why))
  BY <1>1, EnterTerminalSound, StartRetreatOrStopSound
<1> QED
  BY <1>2, IssueCommandSound DEF IssueCurrentAction, ActionByState

\* An outstanding command is the action of the state the machine is in.
LEMMA PendingInActionState ==
    ASSUME NEW r, MachineType(r), PendingMatches(r), HasPending(r)
    PROVE  r.state \in ActionStates /\ r.pending.action = r.state
BY DEF MachineType, PendingMatches, HasPending, Commands

\* _retry_or_fail_action withdraws the command and arms a retry, a fallback or
\* the stop.
LEMMA RetryOrFailSound ==
    ASSUME NEW r, MachineType(r), Sound(r), HasPending(r), NEW why
    PROVE  Settled(RetryOrFail(r, why))
<1> DEFINE q == RetirePending(r)
           b == [q EXCEPT !.notBefore = r.lastNow + RetryBackoff]
<1>1. r.state \in ActionStates /\ r.state # "terminal_safe_stop" /\ r.startedAt # NoTime
  BY PendingInActionState DEF Sound, WayForward, ActionStates, RecoveryStates
<1>2. /\ MachineType(q) /\ Guarded(q) /\ ~HasPending(q)
      /\ q.state = r.state /\ q.startedAt = r.startedAt /\ q.lastNow = r.lastNow
  BY RetirePendingSound
<1> HIDE DEF q
<1>3. \A any : Settled(EnterTerminal(q, any)) /\ Settled(StartRetreatOrStop(q, any))
  BY <1>1, <1>2, EnterTerminalSound, StartRetreatOrStopSound
<1>4. Settled(b)
  <2> DEFINE after == r.lastNow + RetryBackoff
  <2>1. after \in Nat /\ after <= q.lastNow + RetryBackoff
    BY <1>2, Counters, ConfigAssumption
  <2> HIDE DEF after
  <2> DEFINE z == [q EXCEPT !.notBefore = after]
  <2>2. MachineType(z)
    BY <1>2, <2>1, Fields DEF MachineType
  <2>3. ~HasPending(z)
    BY <1>2, Fields DEF MachineType, HasPending
  <2>4. PendingMatches(z) /\ BarrierNovel(z)
    BY <1>2, <2>3, Fields DEF MachineType, PendingMatches, BarrierNovel, IsOld, IsTaboo, Guarded, Sound
  <2>5. WayForward(z)
    BY <1>2, <2>1, <2>3, Fields DEF MachineType, WayForward, Guarded, Sound, HasPending
  <2> QED
    BY <2>2, <2>3, <2>4, <2>5, NoPendingIsGated DEF Settled, Guarded, Sound, after
<1> QED
  BY <1>3, <1>4 DEF RetryOrFail, q

\* Remembering a completion disturbs nothing but the history.
LEMMA RememberCompletionSound ==
    ASSUME NEW r, Settled(r), NEW op \in Operations, NEW success \in BOOLEAN
    PROVE  LET c == RememberCompletion(r, op, success)
           IN  /\ Settled(c) /\ c.state = r.state /\ c.pending = r.pending
               /\ Last(c.completed).op \in Operations
<1> DEFINE c == RememberCompletion(r, op, success)
<1>1. MachineType(c) /\ Last(c.completed).op \in Operations
  BY RememberCompletionType DEF Settled
<1>2. /\ c.state = r.state /\ c.pending = r.pending /\ c.lastNow = r.lastNow
      /\ c.notBefore = r.notBefore /\ c.startedAt = r.startedAt
      /\ c.planDeadline = r.planDeadline /\ c.cooldownUntil = r.cooldownUntil
      /\ c.accepted = r.accepted /\ c.seen = r.seen /\ c.taboo = r.taboo
      /\ c.safety = r.safety
  BY Fields DEF RememberCompletion, Settled, MachineType
<1> HIDE DEF c
<1>3. Guarded(c)
  BY <1>2 DEF Settled, Guarded, Sound, PendingMatches, BarrierNovel, WayForward, GatedSafe,
              IsOld, IsTaboo, HasPending
<1> QED
  BY <1>1, <1>2, <1>3 DEF Settled, c

\* Once its acknowledgement is accepted a command is no longer outstanding.
LEMMA DropPendingSound ==
    ASSUME NEW r, Settled(r)
    PROVE  LET q == [r EXCEPT !.pending = NoCommand]
           IN  /\ Settled(q) /\ ~HasPending(q) /\ q.state = r.state
               /\ q.completed = r.completed
<1> DEFINE q == [r EXCEPT !.pending = NoCommand]
<1>1. MachineType(q)
  BY DropPendingType DEF Settled
<1>2. /\ q.state = r.state /\ q.pending.action = "none" /\ q.lastNow = r.lastNow
      /\ q.notBefore = r.notBefore /\ q.startedAt = r.startedAt
      /\ q.planDeadline = r.planDeadline /\ q.cooldownUntil = r.cooldownUntil
      /\ q.accepted = r.accepted /\ q.seen = r.seen /\ q.taboo = r.taboo
      /\ q.completed = r.completed
  BY Fields, Constants DEF Settled, MachineType
<1> HIDE DEF q
<1>3. ~HasPending(q)
  BY <1>2 DEF HasPending
<1>4. Sound(q)
  BY <1>2, <1>3 DEF Settled, Guarded, Sound, PendingMatches, BarrierNovel, WayForward,
              IsOld, IsTaboo
<1> QED
  BY <1>1, <1>2, <1>3, <1>4, NoPendingIsGated DEF Settled, Guarded, q

\* The acceptance ends in a cooldown with its end armed and the recovery clock
\* stopped, or in the stop.
LEMMA CompleteAcceptSound ==
    ASSUME NEW r, Settled(r), ~HasPending(r), r.state # "terminal_safe_stop"
    PROVE  Settled(CompleteAccept(r))
<1> DEFINE until == r.lastNow + CooldownTime
           q == [r EXCEPT !.seen = @ \cup {r.accepted.shape}, !.active = r.accepted,
                   !.startedAt = NoTime, !.state = "cooldown",
                   !.cooldownUntil = until]
<1>1. MachineType(r) /\ MachineType(CompleteAccept(r))
  BY CompleteAcceptType DEF Settled
<1>2. \A why : Settled(EnterTerminal(r, why))
  BY <1>1, EnterTerminalSound
<1>3. until # NoTime
  BY <1>1, Counters, ConfigAssumption DEF NoTime
<1> HIDE DEF until
<1>4. /\ q.state = "cooldown" /\ q.pending = r.pending /\ q.startedAt = NoTime
      /\ q.cooldownUntil # NoTime
  BY <1>1, <1>3, Fields DEF MachineType
<1> HIDE DEF q
<1>5. ~HasPending(q) /\ q.pending.action = "none"
  BY <1>4 DEF HasPending
<1>6. Guarded(q)
  BY <1>4, <1>5, NoPendingIsGated DEF Guarded, Sound, PendingMatches, BarrierNovel, WayForward,
     ActionStates, RecoveryStates
<1> QED
  BY <1>1, <1>2, <1>6 DEF CompleteAccept, Settled, q, until

\* _complete_action arms the next step of the recovery, whichever it is.
LEMMA CompleteActionSound ==
    ASSUME NEW r, Settled(r), ~HasPending(r), r.state \in ActionStates,
           Last(r.completed).op \in Operations
    PROVE  Settled(CompleteAction(r, r.state))
<1> DEFINE deadline == r.lastNow + PlanWaitTimeout
           w == [r EXCEPT !.state = "wait_fresh_plan", !.attempt = 0,
                          !.planDeadline = deadline,
                          !.awaiting = Last(r.completed).op]
           f == [r EXCEPT !.replans = 0, !.rejections = 0]
<1>1. /\ MachineType(r) /\ r.startedAt # NoTime /\ r.state # "terminal_safe_stop"
      /\ MachineType(CompleteAction(r, r.state))
  BY CompleteActionType DEF Settled, Guarded, Sound, WayForward, ActionStates, RecoveryStates
<1>2. \A s \in ActionStates \ {"accept_fresh_plan"} : Settled(Transition(r, s))
  BY <1>1, TransitionSound
<1>3. Settled(CompleteAccept(r))
  BY <1>1, CompleteAcceptSound
<1>4. Guarded(w)
  <2>1. deadline # NoTime
    BY <1>1, Counters, ConfigAssumption DEF NoTime
  <2> HIDE DEF deadline
  <2>2. /\ w.state = "wait_fresh_plan" /\ w.pending = r.pending
        /\ w.startedAt = r.startedAt /\ w.planDeadline # NoTime
    BY <1>1, <2>1, Fields DEF MachineType
  <2> HIDE DEF w
  <2>3. ~HasPending(w) /\ w.pending.action = "none"
    BY <2>2 DEF HasPending
  <2> QED
    BY <1>1, <2>2, <2>3, NoPendingIsGated DEF Guarded, Sound, PendingMatches, BarrierNovel,
       WayForward, ActionStates, RecoveryStates
<1>5. Settled(Transition(f, "scan"))
  <2>1. MachineType(f) /\ f.pending = r.pending /\ f.startedAt = r.startedAt
    BY <1>1, Fields DEF MachineType
  <2> HIDE DEF f
  <2> QED
    BY <1>1, <2>1, TransitionSound DEF HasPending, ActionStates
<1>6. r.state = "request_replan" => CompleteAction(r, r.state) = w
  BY DEF CompleteAction
<1>7. r.state # "request_replan" =>
        CompleteAction(r, r.state) \in
          {Transition(r, "clear_local_cache"), Transition(r, "scan"),
           Transition(r, "request_replan"), Transition(f, "scan"), CompleteAccept(r)}
  BY DEF CompleteAction, ActionStates
<1> HIDE DEF f, w
<1>8. Settled(Transition(r, "clear_local_cache")) /\ Settled(Transition(r, "scan"))
      /\ Settled(Transition(r, "request_replan"))
  BY <1>2 DEF ActionStates
<1> QED
  BY <1>1, <1>3, <1>4, <1>5, <1>6, <1>7, <1>8 DEF Settled

\* New safety flags disturb everything that does not depend on them.  They may
\* forbid the outstanding command: SafetyGateSound is what follows them.
LEMMA SetSafetySound ==
    ASSUME NEW r, MachineType(r), Sound(r), NEW flags \in SafetyFlags, NEW cached \in BOOLEAN
    PROVE  LET q == SetSafety(r, flags, cached)
           IN  MachineType(q) /\ Sound(q) /\ q.state = r.state
<1> DEFINE q == SetSafety(r, flags, cached)
<1>1. MachineType(q)
  BY SetSafetyType
<1>2. /\ q.state = r.state /\ q.pending = r.pending /\ q.lastNow = r.lastNow
      /\ q.notBefore = r.notBefore /\ q.startedAt = r.startedAt
      /\ q.planDeadline = r.planDeadline /\ q.cooldownUntil = r.cooldownUntil
      /\ q.accepted = r.accepted /\ q.seen = r.seen /\ q.taboo = r.taboo
  BY Fields DEF SetSafety, MachineType
<1> HIDE DEF q
<1>3. Sound(q)
  BY <1>2 DEF Sound, PendingMatches, BarrierNovel, WayForward, IsOld, IsTaboo, HasPending
<1> QED
  BY <1>1, <1>2, <1>3 DEF q

\* After the safety paragraph of tick the outstanding command is permitted by the
\* flags just stored, whatever they are.
LEMMA SafetyGateSound ==
    ASSUME NEW r, MachineType(r), Sound(r)
    PROVE  Settled(SafetyGate(r))
<1>1. \A why : Settled(EnterTerminal(r, why))
  BY EnterTerminalSound
<1>2. SafetyGate(r) = r => GatedSafe(r) \/ r.state = "terminal_safe_stop"
  <2>1. \A why : EnterTerminal(r, why).state = "terminal_safe_stop"
    BY EnterTerminalType
  <2>2. CASE r.state # "terminal_safe_stop"
    BY <2>1, <2>2 DEF SafetyGate, GatedSafe, CachedSafetyIsFresh, SafetyFlags, MachineType
  <2> QED
    BY <2>2
<1>3. r.state = "terminal_safe_stop" => GatedSafe(r)
  BY NoStrayPending, NoPendingIsGated DEF Sound, ActionStates
<1>4. SafetyGate(r) = r \/ \E why : SafetyGate(r) = EnterTerminal(r, why)
  BY DEF SafetyGate
<1> QED
  BY <1>1, <1>2, <1>3, <1>4 DEF Settled, Guarded

\* The recovery deadline paragraph keeps the invariant.
LEMMA RecoveryDeadlineSound ==
    ASSUME NEW r, Settled(r)
    PROVE  Settled(RecoveryDeadline(r))
BY EnterTerminalSound DEF RecoveryDeadline, Settled, Guarded

\* The action deadline paragraph keeps the invariant.
LEMMA PendingExpirySound ==
    ASSUME NEW r, Settled(r)
    PROVE  Settled(PendingExpiry(r))
BY RetryOrFailSound DEF PendingExpiry, Settled, Guarded

\* The plan deadline paragraph keeps the invariant.
LEMMA PlanWaitExpirySound ==
    ASSUME NEW r, Settled(r)
    PROVE  Settled(PlanWaitExpiry(r))
<1>1. CASE r.state = "wait_fresh_plan"
  <2>1. MachineType(r) /\ ~HasPending(r) /\ r.startedAt # NoTime
    BY <1>1, NoStrayPending DEF Settled, Guarded, Sound, WayForward, RecoveryStates, ActionStates
  <2>2. Settled(Transition(r, "request_replan"))
    BY <2>1, TransitionSound DEF ActionStates
  <2>3. \A why : Settled(StartRetreatOrStop(r, why))
    BY <1>1, <2>1, StartRetreatOrStopSound
  <2> QED
    BY <2>2, <2>3 DEF PlanWaitExpiry
<1>2. CASE r.state # "wait_fresh_plan"
  BY <1>2 DEF PlanWaitExpiry
<1> QED
  BY <1>1, <1>2

\* A cooldown that ends leaves no recovery clock and nothing outstanding.
LEMMA CooldownExpirySound ==
    ASSUME NEW r, Settled(r)
    PROVE  Settled(CooldownExpiry(r))
<1>1. CASE CooldownExpiry(r) = r
  BY <1>1
<1>2. CASE CooldownExpiry(r) # r
  <2> DEFINE t == Transition(r, "monitoring")
             q == [t EXCEPT !.samples = NoSamples, !.arrivals = <<>>,
                            !.cooldownUntil = NoTime]
  <2>1. MachineType(CooldownExpiry(r)) /\ MachineType(r) /\ r.state = "cooldown"
    BY <1>2, CooldownExpiryType DEF Settled, CooldownExpiry
  <2>2. ~HasPending(r) /\ r.startedAt = NoTime
    BY <2>1, NoStrayPending DEF Settled, Guarded, Sound, WayForward, ActionStates
  <2>3. DOMAIN t = DOMAIN InitialMachine /\ t.state = "monitoring" /\ t.pending = r.pending
        /\ t.startedAt = r.startedAt
    BY <2>1, Fields DEF Transition, MachineType
  <2> HIDE DEF t
  <2>4. q.state = "monitoring" /\ q.pending = r.pending /\ q.startedAt = r.startedAt
    BY <2>3, Fields
  <2>5. CooldownExpiry(r) = q
    BY <1>2 DEF CooldownExpiry, t
  <2> HIDE DEF q
  <2>6. ~HasPending(q) /\ q.pending.action = "none"
    BY <2>2, <2>4 DEF HasPending
  <2>7. Guarded(q)
    BY <2>2, <2>4, <2>6, NoPendingIsGated DEF Guarded, Sound, PendingMatches, BarrierNovel,
       WayForward, ActionStates, RecoveryStates
  <2> QED
    BY <2>1, <2>5, <2>7 DEF Settled
<1> QED
  BY <1>1, <1>2

\* The issuing paragraph keeps the invariant.
LEMMA IssueWhenDueSound ==
    ASSUME NEW r, Settled(r)
    PROVE  Settled(IssueWhenDue(r))
BY IssueCurrentActionSound DEF IssueWhenDue

\* tick restores the gate on the outstanding command whatever flags it is given,
\* and keeps the rest of the invariant.
LEMMA TickWithSound ==
    ASSUME NEW r, MachineType(r), Sound(r), NEW flags \in SafetyFlags, NEW cached \in BOOLEAN
    PROVE  Settled(TickWith(r, flags, cached))
<1> DEFINE q == SetSafety(r, flags, cached)
<1>1. MachineType(q) /\ Sound(q)
  BY SetSafetySound
<1> HIDE DEF q
<1>2. q.state = "idle" => Settled(q)
  BY <1>1, NoStrayPending, NoPendingIsGated DEF Settled, Guarded, Sound, ActionStates
<1>3. Settled(IssueWhenDue(CooldownExpiry(PlanWaitExpiry(PendingExpiry(
               RecoveryDeadline(SafetyGate(q)))))))
  BY <1>1, SafetyGateSound, RecoveryDeadlineSound, PendingExpirySound, PlanWaitExpirySound,
     CooldownExpirySound, IssueWhenDueSound
<1> QED
  BY <1>2, <1>3 DEF TickWith, q

\* So does the tick at the end of a handler.
LEMMA CachedTickSound ==
    ASSUME NEW r, MachineType(r), Sound(r)
    PROVE  Settled(CachedTick(r))
BY TickWithSound DEF CachedTick, MachineType

\* _start_recovery, from monitoring, starts the recovery clock and arms the first
\* action.
LEMMA StartRecoverySound ==
    ASSUME NEW r, Settled(r), r.state = "monitoring", NEW extras
    PROVE  Settled(StartRecovery(r, extras))
<1> DEFINE taboo == AddTabooAll(r.taboo, <<r.active>> \o extras)
           q == [r EXCEPT !.recoveries = @ + 1, !.startedAt = r.lastNow,
                     !.fallback = FALSE, !.replans = 0, !.rejections = 0,
                     !.commands = 0, !.accepted = NoPlan,
                     !.taboo = taboo, !.samples = NoSamples, !.blamed = r.active]
<1>1. MachineType(r) /\ r.recoveries + 1 \in Nat /\ r.lastNow \in Nat /\ r.lastNow # NoTime
  BY Counters DEF Settled, NoTime
<1>2. ~HasPending(r)
  BY <1>1, NoStrayPending DEF Settled, Guarded, Sound, ActionStates
<1>3. \A why : Settled(EnterTerminal(r, why))
  BY <1>1, EnterTerminalSound
<1>4. StartRecovery(r, extras) \in
        {EnterTerminal(r, "episode_recovery_budget_exhausted"), Transition(q, "cancel_goal")}
  BY DEF StartRecovery
<1> HIDE DEF taboo
<1>5. MachineType(q)
  BY <1>1, Fields, ZenonT(60) DEF MachineType, NoSamples
<1>6. q.pending = r.pending /\ q.startedAt = r.lastNow
  BY <1>1, Fields DEF MachineType
<1> HIDE DEF q
<1>7. Settled(Transition(q, "cancel_goal"))
  BY <1>1, <1>2, <1>5, <1>6, TransitionSound DEF HasPending, ActionStates
<1> QED
  BY <1>3, <1>4, <1>7

\* A later instant moves no deadline out of reach; an earlier one stops the
\* machine.
LEMMA ValidateTimeSound ==
    ASSUME NEW r, Settled(r), NEW now \in Nat
    PROVE  Settled(ValidateTime(r, now))
<1> DEFINE drained == [r EXCEPT !.outbox = <<>>]
           q == [drained EXCEPT !.lastNow = now]
<1>0. MachineType(r) /\ MachineType(ValidateTime(r, now))
  BY ValidateTimeType DEF Settled
<1>1. MachineType(drained)
  BY <1>0, Fields DEF MachineType
<1>2. /\ drained.state = r.state /\ drained.pending = r.pending /\ drained.lastNow = r.lastNow
      /\ drained.notBefore = r.notBefore /\ drained.startedAt = r.startedAt
      /\ drained.planDeadline = r.planDeadline /\ drained.cooldownUntil = r.cooldownUntil
      /\ drained.accepted = r.accepted /\ drained.seen = r.seen /\ drained.taboo = r.taboo
      /\ drained.safety = r.safety
  BY <1>0, Fields DEF MachineType
<1> HIDE DEF drained
<1>3. Guarded(drained)
  BY <1>2 DEF Settled, Guarded, Sound, PendingMatches, BarrierNovel, WayForward, GatedSafe,
              IsOld, IsTaboo, HasPending
<1>4. \A why : Settled(EnterTerminal(drained, why))
  BY <1>1, <1>3, EnterTerminalSound DEF Guarded
<1>5. /\ q.state = r.state /\ q.pending = r.pending /\ q.lastNow = now
      /\ q.notBefore = r.notBefore /\ q.startedAt = r.startedAt
      /\ q.planDeadline = r.planDeadline /\ q.cooldownUntil = r.cooldownUntil
      /\ q.accepted = r.accepted /\ q.seen = r.seen /\ q.taboo = r.taboo
      /\ q.safety = r.safety
  BY <1>1, <1>2, Fields DEF MachineType
<1> HIDE DEF q
<1>6. ASSUME ~(now < r.lastNow)
      PROVE  Guarded(q)
  <2>1. /\ \A x \in Nat : x <= r.lastNow + RetryBackoff => x <= now + RetryBackoff
        /\ \A x \in Nat : x <= r.lastNow + ActionTimeout => x <= now + ActionTimeout
    BY <1>0, <1>6, Counters, ConfigAssumption
  <2>2. r.notBefore \in Nat /\ r.pending.deadline \in Nat
    BY <1>0 DEF MachineType, Commands
  <2> QED
    BY <1>5, <2>1, <2>2 DEF Settled, Guarded, Sound, PendingMatches, BarrierNovel, WayForward,
                GatedSafe, IsOld, IsTaboo, HasPending
<1> QED
  BY <1>0, <1>2, <1>4, <1>6 DEF ValidateTime, Settled, drained, q

\* A new goal forgets the plans seen, which only matters while one waits at the
\* barrier: observe admits a new goal in monitoring and cooldown alone.
LEMMA AdoptGoalSound ==
    ASSUME NEW r, Settled(r), NEW goal \in Goals, GoalAdmitted(r, goal)
    PROVE  Settled(AdoptGoal(r, goal))
<1> DEFINE p == [r EXCEPT !.samples = NoSamples, !.arrivals = <<>>, !.seen = {},
                          !.active = NoPlan, !.goal = goal]
           q == [r EXCEPT !.goal = goal]
<1>1. MachineType(r)
  BY DEF Settled
<1>2. MachineType(p) /\ MachineType(q)
  BY <1>1, Fields DEF MachineType, NoSamples
<1>3. /\ q.state = r.state /\ q.pending = r.pending /\ q.lastNow = r.lastNow
      /\ q.notBefore = r.notBefore /\ q.startedAt = r.startedAt
      /\ q.planDeadline = r.planDeadline /\ q.cooldownUntil = r.cooldownUntil
      /\ q.accepted = r.accepted /\ q.seen = r.seen /\ q.taboo = r.taboo
      /\ q.safety = r.safety
  BY <1>1, Fields DEF MachineType
<1>4. /\ p.state = r.state /\ p.pending = r.pending
      /\ p.startedAt = r.startedAt /\ p.cooldownUntil = r.cooldownUntil
  BY <1>1, Fields DEF MachineType
<1> HIDE DEF p, q
<1>5. Guarded(q)
  BY <1>3 DEF Settled, Guarded, Sound, PendingMatches, BarrierNovel, WayForward, GatedSafe,
              IsOld, IsTaboo, HasPending
<1>6. ASSUME GoalChanged(r, goal)
      PROVE  Guarded(p)
  <2>1. r.state \in {"monitoring", "cooldown"}
    BY <1>6 DEF GoalAdmitted
  <2>2. ~HasPending(r)
    BY <1>1, <2>1, NoStrayPending DEF Settled, Guarded, Sound, ActionStates
  <2>3. ~HasPending(p) /\ p.pending.action = "none"
    BY <1>4, <2>2 DEF HasPending
  <2> QED
    BY <1>4, <2>1, <2>3, NoPendingIsGated DEF Settled, Guarded, Sound, PendingMatches,
       BarrierNovel, WayForward, ActionStates, RecoveryStates
<1> QED
  BY <1>2, <1>5, <1>6 DEF AdoptGoal, Settled, p, q

\* A plan update marks a plan as seen in monitoring alone, so never the one that
\* waits at the barrier.
LEMMA PlanArrivalSound ==
    ASSUME NEW r, Settled(r), NEW p \in Plans, NEW running, NEW window, NEW order
    PROVE  Settled(PlanArrival(r, p, running, window, order))
<1> DEFINE push == PushBounded(r.arrivals, p, TabooCapacity)
           a == [r EXCEPT !.active = p, !.arrivals = push]
           marked == [a EXCEPT !.seen = @ \cup {p.shape}]
<1>1. MachineType(r)
  BY DEF Settled
<1>2. push \in Seq(Plans)
  BY <1>1, PushBoundedType, ConfigAssumption DEF MachineType
<1> HIDE DEF push
<1>3. MachineType(a) /\ MachineType(marked)
  BY <1>1, <1>2, Fields DEF MachineType
<1>4. /\ a.state = r.state /\ a.pending = r.pending /\ a.lastNow = r.lastNow
      /\ a.notBefore = r.notBefore /\ a.startedAt = r.startedAt
      /\ a.planDeadline = r.planDeadline /\ a.cooldownUntil = r.cooldownUntil
      /\ a.accepted = r.accepted /\ a.seen = r.seen /\ a.taboo = r.taboo
      /\ a.safety = r.safety
      /\ marked.state = r.state /\ marked.pending = r.pending
      /\ marked.startedAt = r.startedAt
  BY <1>1, Fields DEF MachineType
<1> HIDE DEF a, marked
<1>5. Settled(a)
  BY <1>3, <1>4 DEF Settled, Guarded, Sound, PendingMatches, BarrierNovel, WayForward,
              GatedSafe, IsOld, IsTaboo, HasPending
<1>6. ASSUME r.state = "monitoring"
      PROVE  Settled(marked)
  <2>1. ~HasPending(r)
    BY <1>1, <1>6, NoStrayPending DEF Settled, Guarded, Sound, ActionStates
  <2>2. ~HasPending(marked) /\ marked.pending.action = "none"
    BY <1>4, <2>1 DEF HasPending
  <2> QED
    BY <1>3, <1>4, <1>6, <2>2, NoPendingIsGated DEF Settled, Guarded, Sound, PendingMatches,
       BarrierNovel, WayForward, ActionStates, RecoveryStates
<1>7. \A why : Settled(EnterTerminal(a, why))
  BY <1>5, EnterTerminalSound DEF Settled, Guarded
<1>8. \A q, extras : Settled(q) /\ q.state = "monitoring" => Settled(StartRecovery(q, extras))
  BY StartRecoverySound
<1> DEFINE recent == RecentSignatures(a.arrivals)
           Extras(S) == InOrder(order, S)
           b == IF ~(r.state = "monitoring" /\ running) THEN a
                ELSE IF p.shape \in r.seen THEN StartRecovery(a, Extras(recent))
                ELSE IF Cardinality(r.seen) >= TabooCapacity
                THEN EnterTerminal(a, "plan_history_capacity_exhausted")
                ELSE marked
           cycle == PlanCycle(b.arrivals, window)
           cycled == Extras({q \in recent : q.shape \in cycle})
<1> HIDE DEF recent, Extras
<1>9. Settled(b)
  BY <1>4, <1>5, <1>6, <1>7, <1>8
<1> HIDE DEF b, cycle
<1>10. PlanArrival(r, p, running, window, order) =
         IF cycle # {} /\ b.state = "monitoring" /\ running
         THEN StartRecovery(b, cycled) ELSE b
  BY DEF PlanArrival, b, cycle, recent, Extras, a, push, marked
<1> HIDE DEF cycled
<1> QED
  BY <1>8, <1>9, <1>10

\* Progress samples disturb no part of the invariant.
LEMMA SamplesSound ==
    ASSUME NEW r, Settled(r), NEW samples \in [count : Nat, last : Nat]
    PROVE  Settled([r EXCEPT !.samples = samples])
<1> DEFINE q == [r EXCEPT !.samples = samples]
<1>1. MachineType(r)
  BY DEF Settled
<1>2. MachineType(q)
  BY <1>1, Fields DEF MachineType
<1>3. /\ q.state = r.state /\ q.pending = r.pending /\ q.lastNow = r.lastNow
      /\ q.notBefore = r.notBefore /\ q.startedAt = r.startedAt
      /\ q.planDeadline = r.planDeadline /\ q.cooldownUntil = r.cooldownUntil
      /\ q.accepted = r.accepted /\ q.seen = r.seen /\ q.taboo = r.taboo
      /\ q.safety = r.safety
  BY <1>1, Fields DEF MachineType
<1> HIDE DEF q
<1> QED
  BY <1>2, <1>3 DEF Settled, Guarded, Sound, PendingMatches, BarrierNovel, WayForward,
              GatedSafe, IsOld, IsTaboo, HasPending, q

\* The progress check keeps the invariant.
LEMMA ObserveProgressSound ==
    ASSUME NEW r, Settled(r), NEW flags \in SafetyFlags, NEW running, NEW stuck
    PROVE  Settled(ObserveProgress(r, flags, running, stuck))
<1>1. \A q : Settled(q) => Settled(TickWith(q, flags, FALSE))
  BY TickWithSound DEF Settled, Guarded
<1>2. Settled([r EXCEPT !.samples = NoSamples])
  BY SamplesSound DEF NoSamples
<1>3. Settled(AddSample(r)) /\ AddSample(r).state = r.state
  <2> DEFINE gap == r.lastNow - r.samples.last > MaxObservationGap
             kept == IF gap THEN 0 ELSE r.samples.count
             count == IF kept < MinSamples THEN kept + 1 ELSE kept
             s == [count |-> count, last |-> r.lastNow]
  <2> HIDE DEF gap
  <2>1. MachineType(r) /\ r.samples.count \in Nat /\ r.lastNow \in Nat
    BY DEF Settled, MachineType
  <2>2. count \in Nat
    BY <2>1
  <2> HIDE DEF count
  <2>3. s \in [count : Nat, last : Nat]
    BY <2>1, <2>2
  <2> HIDE DEF s
  <2>4. Settled([r EXCEPT !.samples = s])
    BY <2>3, SamplesSound
  <2>5. [r EXCEPT !.samples = s].state = r.state
    BY <2>1, Fields DEF MachineType
  <2> QED
    BY <2>4, <2>5 DEF AddSample, s, count, gap
<1>4. r.state = "monitoring" => Settled(StartRecovery(AddSample(r), <<>>))
  BY <1>3, StartRecoverySound
<1> QED
  BY <1>1, <1>2, <1>3, <1>4 DEF ObserveProgress

\* begin_episode keeps the invariant, whether it resets the machine or refuses.
LEMMA EpisodeSound ==
    ASSUME Settled(m), Episode
    PROVE  Settled(m)'
<1>1. PICK now \in CallTimes, generation \in Generations :
        BeginEpisode(generation, now) \/ BeginEpisodeRefused(generation, now)
  BY DEF Episode
<1>2. TypeOK'
  BY TypeStep DEF Settled, TypeOK, Next
<1>3. CASE BeginEpisodeRefused(generation, now)
  <2> DEFINE p == [m EXCEPT !.outbox = <<>>]
  <2>1. MachineType(m) /\ MachineType(p)
    BY Fields DEF Settled, MachineType
  <2>2. p.state = m.state /\ p.pending = m.pending
    BY <2>1, Fields DEF MachineType
  <2>3. p.state = "terminal_safe_stop" => Sound(p)
    <3>1. SUFFICES ASSUME p.state = "terminal_safe_stop" PROVE Sound(p)
      OBVIOUS
    <3>2. ~HasPending(m)
      BY <2>1, <2>2, <3>1, NoStrayPending DEF Settled, Guarded, Sound, ActionStates
    <3> HIDE DEF p
    <3>3. ~HasPending(p) /\ p.pending.action = "none"
      BY <2>2, <3>2 DEF HasPending
    <3> QED
      BY <3>1, <3>3 DEF Sound, PendingMatches, BarrierNovel, WayForward, ActionStates, RecoveryStates
  <2> HIDE DEF p
  <2> QED
    BY <1>3, <2>1, <2>3, EnterTerminalSound DEF BeginEpisodeRefused, p
<1>4. CASE BeginEpisode(generation, now)
  <2> DEFINE completed == m.completed
             retired == RetirePending(m).retired
             number == m.opSeq
             fresh == [InitialMachine EXCEPT
                       !.state = "monitoring", !.gen = generation,
                       !.lastNow = now, !.notBefore = now,
                       !.opSeq = number, !.completed = completed,
                       !.retired = retired]
  <2>1. m' \in {fresh, QueueSafeStop(fresh)}
    BY <1>4 DEF BeginEpisode
  <2> HIDE DEF completed, retired, number
  <2>2. /\ DOMAIN fresh = DOMAIN InitialMachine
        /\ fresh.state = "monitoring" /\ fresh.startedAt = NoTime
        /\ fresh.pending.action = "none"
    BY Fields, Constants DEF InitialMachine
  <2> HIDE DEF fresh
  <2>3. \A q \in {fresh, QueueSafeStop(fresh)} :
          q.state = "monitoring" /\ q.startedAt = NoTime /\ q.pending.action = "none"
    BY <2>2, Fields DEF QueueSafeStop
  <2>4. m'.state = "monitoring" /\ m'.startedAt = NoTime /\ m'.pending.action = "none"
    BY <2>1, <2>3
  <2>5. ~HasPending(m')
    BY <2>4 DEF HasPending
  <2> QED
    BY <1>2, <2>4, <2>5, NoPendingIsGated DEF TypeOK, Settled, Guarded, Sound, PendingMatches,
       BarrierNovel, WayForward, ActionStates, RecoveryStates
<1> QED
  BY <1>1, <1>3, <1>4

\* What every handler but begin_episode starts from: the machine at the time of
\* the call, and after the recovery deadline check.
LEMMA CalledSound ==
    ASSUME Settled(m), NEW now \in CallTimes
    PROVE  LET v == ValidateTime(m, now)
               d == RecoveryDeadline(v)
           IN  /\ Settled(v)
               /\ Settled(d)
               /\ d.state # "terminal_safe_stop" => d = v
<1>1. now \in Nat
  BY ConfigAssumption DEF CallTimes, Time
<1> QED
  BY <1>1, ValidateTimeSound, RecoveryDeadlineSound, RecoveryDeadlineType DEF Settled

\* Stopping a machine that satisfies the invariant keeps it.
LEMMA StopSound ==
    ASSUME NEW r, Settled(r), NEW why
    PROVE  Settled(EnterTerminal(r, why))
BY EnterTerminalSound DEF Settled, Guarded

\* tick, as a handler, keeps the invariant.
LEMMA ClockedSound ==
    ASSUME Settled(m), Clocked
    PROVE  Settled(m)'
<1>1. PICK now \in CallTimes :
        TickInvalid(now) \/ \E flags \in SafetyFlags : Tick(now, flags)
  BY DEF Clocked
<1> DEFINE v == ValidateTime(m, now)
<1>2. Settled(v)
  BY CalledSound
<1>3. CASE TickInvalid(now)
  BY <1>2, <1>3, StopSound DEF TickInvalid
<1>4. ASSUME NEW flags \in SafetyFlags, Tick(now, flags)
      PROVE  Settled(m')
  BY <1>2, <1>4, TickWithSound DEF Tick, Settled, Guarded
<1> QED
  BY <1>1, <1>3, <1>4

\* An acknowledgement of the outstanding command keeps the invariant on each of
\* its paths: stopped, late, refused, rejected, completed.
LEMMA AckPendingSound ==
    ASSUME Settled(m), NEW now \in CallTimes, NEW success \in BOOLEAN, NEW evidence,
           AckPending(now, success, evidence)
    PROVE  Settled(m)'
<1> DEFINE v == ValidateTime(m, now)
           d == RecoveryDeadline(v)
           c == RememberCompletion(d, d.pending.op, success)
           e == [c EXCEPT !.pending = NoCommand]
<1>1. HasPending(v) /\ Settled(v) /\ Settled(d) /\ (d.state # "terminal_safe_stop" => d = v)
  BY CalledSound DEF AckPending
<1> HIDE DEF v, d
<1>2. CASE d.state = "terminal_safe_stop"
  BY <1>1, <1>2 DEF AckPending, d, v
<1>3. CASE d.state # "terminal_safe_stop"
  <2>1. HasPending(d) /\ MachineType(d) /\ Sound(d)
    BY <1>1, <1>3 DEF Settled, Guarded
  <2>2. d.state \in ActionStates /\ d.pending.action = d.state
    BY <2>1, PendingInActionState DEF Sound
  <2>3. d.pending.op \in Operations
    BY <2>1 DEF MachineType, Commands
  <2>4. /\ Settled(c) /\ c.state = d.state /\ c.pending = d.pending
        /\ Last(c.completed).op \in Operations
    BY <1>1, <2>3, RememberCompletionSound
  <2> HIDE DEF c
  <2>5. Settled(e) /\ ~HasPending(e) /\ e.state = d.state /\ e.completed = c.completed
    BY <2>4, DropPendingSound
  <2> HIDE DEF e
  <2>6. Settled(CachedTick(CompleteAction(e, d.pending.action)))
    BY <2>2, <2>4, <2>5, CompleteActionSound, CachedTickSound DEF Settled, Guarded
  <2>7. \A why : /\ Settled(EnterTerminal(d, why))
                 /\ Settled(RetryOrFail(d, why))
                 /\ Settled(RetryOrFail(c, why))
    BY <1>1, <2>1, <2>4, StopSound, RetryOrFailSound DEF HasPending, Settled, Guarded
  <2> QED
    BY <1>3, <2>6, <2>7 DEF AckPending, v, d, c, e
<1> QED
  BY <1>2, <1>3

\* acknowledge keeps the invariant.
LEMMA AcknowledgeSound ==
    ASSUME Settled(m), Acknowledge
    PROVE  Settled(m)'
<1>1. PICK now \in CallTimes :
        \/ AckMalformed(now)
        \/ \E op \in AckOps :
             \/ AckStaleDropped(now, op)
             \/ \E success \in BOOLEAN : AckDuplicate(now, op, success)
             \/ \E gen \in Generations, rec \in Recoveries :
                  AckUnknown(now, op, gen, rec)
        \/ \E success \in BOOLEAN, evidence \in Evidence :
             AckPending(now, success, evidence)
  BY DEF Acknowledge
<1> DEFINE v == ValidateTime(m, now)
           d == RecoveryDeadline(v)
<1>2. Settled(v) /\ Settled(d)
  BY CalledSound
<1>3. CASE AckMalformed(now)
  BY <1>2, <1>3, StopSound DEF AckMalformed
<1>4. ASSUME NEW op, AckStaleDropped(now, op)
      PROVE  Settled(m')
  BY <1>2, <1>4 DEF AckStaleDropped
<1>5. ASSUME NEW op, NEW success, AckDuplicate(now, op, success)
      PROVE  Settled(m')
  BY <1>2, <1>5, StopSound DEF AckDuplicate
<1>6. ASSUME NEW op, NEW gen, NEW rec, AckUnknown(now, op, gen, rec)
      PROVE  Settled(m')
  BY <1>2, <1>6, StopSound DEF AckUnknown
<1>7. ASSUME NEW success \in BOOLEAN, NEW evidence, AckPending(now, success, evidence)
      PROVE  Settled(m')
  BY <1>7, AckPendingSound
<1> QED
  BY <1>1, <1>3, <1>4, <1>5, <1>6, <1>7

\* observe keeps the invariant.
LEMMA ObserveSound ==
    ASSUME Settled(m), Observe
    PROVE  Settled(m)'
<1>1. PICK now \in CallTimes :
        \/ ObserveIdle(now)
        \/ ObserveInvalid(now)
        \/ \E goal \in Goals :
             \/ ObserveForeignGoal(now, goal)
             \/ \E flags \in SafetyFlags : ObserveValid(now, goal, flags)
  BY DEF Observe
<1> DEFINE v == ValidateTime(m, now)
<1>2. Settled(v)
  BY CalledSound
<1>3. CASE ObserveIdle(now) \/ ObserveInvalid(now)
  BY <1>2, <1>3, StopSound DEF ObserveIdle, ObserveInvalid
<1>4. ASSUME NEW goal, ObserveForeignGoal(now, goal)
      PROVE  Settled(m')
  BY <1>2, <1>4, StopSound DEF ObserveForeignGoal
<1>5. ASSUME NEW goal \in Goals, NEW flags \in SafetyFlags,
             ObserveValid(now, goal, flags)
      PROVE  Settled(m')
  <2> DEFINE t == TickWith(AdoptGoal(v, goal), flags, FALSE)
  <2>1. GoalAdmitted(v, goal)
    BY <1>5 DEF ObserveValid
  <2> HIDE DEF v
  <2>2. Settled(t)
    BY <1>2, <2>1, AdoptGoalSound, TickWithSound DEF Settled, Guarded
  <2> HIDE DEF t
  <2>3. \A running, stuck \in BOOLEAN :
          Settled(ObserveProgress(t, flags, running, stuck))
    BY <2>2, ObserveProgressSound
  <2>4. \A p \in Plans : \A running, stuck, window, order :
          Settled(ObserveProgress(PlanArrival(t, p, running, window, order),
                                  flags, running, stuck))
    BY <2>2, PlanArrivalSound, ObserveProgressSound
  <2> QED
    BY <1>5, <2>2, <2>3, <2>4 DEF ObserveValid, t, v
<1> QED
  BY <1>1, <1>3, <1>4, <1>5

\* A novel plan can be put at the execution barrier.
LEMMA AcceptTransitionSound ==
    ASSUME NEW r, MachineType(r), ~HasPending(r), r.startedAt # NoTime,
           r.accepted # NoPlan, ~IsOld(r, r.accepted),
           ~(Cardinality(r.seen) >= TabooCapacity)
    PROVE  Settled(Transition(r, "accept_fresh_plan"))
<1> DEFINE t == Transition(r, "accept_fresh_plan")
<1>1. MachineType(t)
  BY TransitionType DEF States, RecoveryStates, ActionStates
<1>2. /\ t.state = "accept_fresh_plan" /\ t.pending = r.pending
      /\ t.startedAt = r.startedAt /\ t.lastNow = r.lastNow /\ t.notBefore = r.lastNow
      /\ t.accepted = r.accepted /\ t.seen = r.seen /\ t.taboo = r.taboo
  BY Fields DEF Transition, MachineType
<1>3. t.notBefore <= t.lastNow + RetryBackoff
  BY <1>2, Counters, ConfigAssumption
<1> HIDE DEF t
<1>4. ~HasPending(t) /\ t.pending.action = "none"
  BY <1>2 DEF HasPending
<1>5. BarrierNovel(t)
  BY <1>2, <1>4 DEF BarrierNovel, IsOld, IsTaboo
<1>6. PendingMatches(t) /\ WayForward(t)
  BY <1>2, <1>3, <1>4 DEF PendingMatches, WayForward, RecoveryStates, ActionStates
<1> QED
  BY <1>1, <1>4, <1>5, <1>6, NoPendingIsGated DEF Settled, Guarded, Sound, t

\* submit_replanned_trajectory keeps the invariant.
LEMMA SubmitSound ==
    ASSUME Settled(m), Submit
    PROVE  Settled(m)'
<1>1. PICK now \in CallTimes :
        \/ SubmitStopped(now)
        \/ \E op \in {m.awaiting, NoOperation}, gen \in Generations,
              rec \in Recoveries :
             \/ SubmitRefused(now, op, gen, rec)
             \/ SubmitLate(now, op, gen, rec)
             \/ SubmitInvalid(now, op, gen, rec)
             \/ \E p \in Plans : \/ SubmitOld(now, op, gen, rec, p)
                                 \/ SubmitNovel(now, op, gen, rec, p)
  BY DEF Submit
<1> DEFINE d == RecoveryDeadline(ValidateTime(m, now))
<1>2. Settled(d) /\ MachineType(d)
  BY CalledSound DEF Settled
<1>3. ASSUME NEW q, MachineType(q), ~HasPending(q), q.startedAt # NoTime,
             q.state # "terminal_safe_stop"
      PROVE  /\ Settled(CachedTick(Transition(q, "request_replan")))
             /\ \A why : Settled(CachedTick(StartRetreatOrStop(q, why)))
  <2>1. Settled(Transition(q, "request_replan"))
    BY <1>3, TransitionSound DEF ActionStates
  <2>2. \A why : Settled(StartRetreatOrStop(q, why))
    BY <1>3, StartRetreatOrStopSound
  <2> QED
    BY <2>1, <2>2, CachedTickSound DEF Settled, Guarded
<1>4. ASSUME NEW op, NEW gen, NEW rec, Answers(d, op, gen, rec)
      PROVE  d.state = "wait_fresh_plan" /\ ~HasPending(d) /\ d.startedAt # NoTime
  BY <1>2, <1>4, NoStrayPending DEF Answers, Settled, Guarded, Sound, WayForward, RecoveryStates, ActionStates
<1>5. CASE SubmitStopped(now)
  BY <1>2, <1>5 DEF SubmitStopped
<1>6. ASSUME NEW op, NEW gen, NEW rec, SubmitRefused(now, op, gen, rec)
      PROVE  Settled(m')
  BY <1>2, <1>6, StopSound DEF SubmitRefused
<1>7. ASSUME NEW op, NEW gen, NEW rec, SubmitInvalid(now, op, gen, rec)
      PROVE  Settled(m')
  BY <1>2, <1>7, StopSound DEF SubmitInvalid
<1>8. ASSUME NEW op, NEW gen, NEW rec, SubmitLate(now, op, gen, rec)
      PROVE  Settled(m')
  <2> DEFINE q == [d EXCEPT !.awaiting = NoOperation, !.planDeadline = NoTime]
  <2>1. d.state = "wait_fresh_plan" /\ ~HasPending(d) /\ d.startedAt # NoTime
    BY <1>4, <1>8 DEF SubmitLate
  <2> HIDE DEF d
  <2>2. MachineType(q)
    BY <1>2, Constants, Fields DEF MachineType
  <2>3. q.state = d.state /\ q.pending = d.pending /\ q.startedAt = d.startedAt
    BY <1>2, Fields DEF MachineType
  <2> HIDE DEF q
  <2> QED
    BY <1>3, <1>8, <2>1, <2>2, <2>3 DEF SubmitLate, HasPending, d, q
<1>9. ASSUME NEW op, NEW gen, NEW rec, NEW p \in Plans, SubmitOld(now, op, gen, rec, p)
      PROVE  Settled(m')
  <2> DEFINE taboo == AddTaboo(d.taboo, p)
             q == [d EXCEPT !.taboo = taboo, !.rejections = @ + 1]
  <2>1. d.state = "wait_fresh_plan" /\ ~HasPending(d) /\ d.startedAt # NoTime
    BY <1>4, <1>9 DEF SubmitOld
  <2> HIDE DEF d, taboo
  <2>2. MachineType(q)
    BY <1>2, RejectPlanType
  <2>3. q.state = d.state /\ q.pending = d.pending /\ q.startedAt = d.startedAt
    BY <1>2, Fields DEF MachineType
  <2> HIDE DEF q
  <2> QED
    BY <1>3, <1>9, <2>1, <2>2, <2>3 DEF SubmitOld, HasPending, d, q, taboo
<1>10. ASSUME NEW op, NEW gen, NEW rec, NEW p \in Plans, SubmitNovel(now, op, gen, rec, p)
       PROVE  Settled(m')
  <2> DEFINE q == [d EXCEPT !.accepted = p, !.planDeadline = NoTime,
                            !.awaiting = NoOperation]
  <2>1. d.state = "wait_fresh_plan" /\ ~HasPending(d) /\ d.startedAt # NoTime
    BY <1>4, <1>10 DEF SubmitNovel
  <2>2. ~IsOld(d, p) /\ p # NoPlan
    BY <1>10, PlansAssumption DEF SubmitNovel
  <2> HIDE DEF d
  <2>3. MachineType(q)
    BY <1>2, Constants, Fields DEF MachineType
  <2>4. /\ q.state = d.state /\ q.pending = d.pending /\ q.startedAt = d.startedAt
        /\ q.accepted = p /\ q.seen = d.seen /\ q.taboo = d.taboo
    BY <1>2, Fields DEF MachineType
  <2> HIDE DEF q
  <2>5. ~HasPending(q) /\ ~IsOld(q, p)
    BY <2>1, <2>2, <2>4 DEF HasPending, IsOld, IsTaboo
  <2>6. ~(Cardinality(d.seen) >= TabooCapacity) =>
          Settled(CachedTick(Transition(q, "accept_fresh_plan")))
    BY <2>1, <2>2, <2>3, <2>4, <2>5, AcceptTransitionSound, CachedTickSound DEF Settled, Guarded
  <2> QED
    BY <1>2, <1>10, <2>6, StopSound DEF SubmitNovel, d, q
<1> QED
  BY <1>1, <1>5, <1>6, <1>7, <1>8, <1>9, <1>10

\* The initial machine is idle and has nothing outstanding.
LEMMA InitialSettled == Init => Settled(m)
<1> SUFFICES ASSUME Init PROVE Settled(m)
  OBVIOUS
<1>1. MachineType(m) /\ m.state = "idle" /\ m.pending.action = "none"
  BY InitialType, Constants DEF Init, InitialMachine
<1>2. ~HasPending(m)
  BY <1>1 DEF HasPending
<1> QED
  BY <1>1, <1>2, NoPendingIsGated DEF Settled, Guarded, Sound, PendingMatches,
     BarrierNovel, WayForward, ActionStates, RecoveryStates

\* The inductive invariant of the recovery machine: types, the outstanding command
\* matches the state, the barrier holds a novel plan, a way forward is armed, and
\* the last safety flags permit what is outstanding.  Neither of the last three is
\* inductive alone: each needs that the command matches the state.
THEOREM SettledAlways == Spec => []Settled(m)
<1>1. Init => Settled(m)
  BY InitialSettled
<1>2. Settled(m) /\ [Next]_m => Settled(m)'
  <2>1. ASSUME Settled(m), UNCHANGED m PROVE Settled(m)'
    BY <2>1
  <2> QED
    BY <2>1, EpisodeSound, ClockedSound, AcknowledgeSound, ObserveSound, SubmitSound DEF Next
<1> QED
  BY <1>1, <1>2, PTL DEF Spec

\* A scan, a retreat or an acceptance is outstanding only while the last safety
\* flags given to the machine permit it, for every configuration and any caller.
THEOREM GatedCommandsStaySafe == Spec => []GatedCommandIsSafe
<1>1. Settled(m) => GatedCommandIsSafe
  BY DEF Settled, Guarded, GatedCommandIsSafe
<1> QED
  BY <1>1, SettledAlways, PTL

\* From its submission to its acknowledgement the plan at the execution barrier is
\* neither taboo nor seen, and the command names it: the repeated checks of
\* _complete_action are never what stops a recovery.
THEOREM BarrierPlanStaysNovel == Spec => []BarrierPlanIsNovel
<1>1. Settled(m) => BarrierPlanIsNovel
  BY DEF Settled, Guarded, Sound, BarrierPlanIsNovel
<1> QED
  BY <1>1, SettledAlways, PTL

\* Every recovery state has a deadline or a due time armed and the recovery clock
\* running: no sequence of handlers strands the machine.
THEOREM AlwaysAWayForward == Spec => []NeverStranded
<1>1. Settled(m) => NeverStranded
  BY DEF Settled, Guarded, Sound, NeverStranded
<1> QED
  BY <1>1, SettledAlways, PTL

-----------------------------------------------------------------------------
(* Action properties.                                                      *)

\* A stopped machine as a handler finds it, its outbox drained.
Latched(r) == /\ MachineType(r)
              /\ r.state = "terminal_safe_stop"
              /\ ~HasPending(r)
              /\ r.outbox = <<>>

\* tick changes nothing that matters in a stopped machine.
LEMMA TickLatched ==
    ASSUME NEW r, Latched(r), NEW flags \in SafetyFlags, NEW cached \in BOOLEAN
    PROVE  Latched(TickWith(r, flags, cached))
<1> DEFINE q == SetSafety(r, flags, cached)
<1>1. MachineType(q)
  BY SetSafetyType DEF Latched
<1>2. q.state = r.state /\ q.pending = r.pending /\ q.outbox = r.outbox
  BY Fields DEF SetSafety, Latched, MachineType
<1> HIDE DEF q
<1>3. q.state = "terminal_safe_stop" /\ ~HasPending(q)
  BY <1>2 DEF Latched, HasPending
<1>4. \A why : EnterTerminal(q, why) = q
  BY <1>3 DEF EnterTerminal
<1>5. SafetyGate(q) = q /\ RecoveryDeadline(q) = q
  BY <1>4 DEF SafetyGate, RecoveryDeadline
<1>6. PendingExpiry(q) = q /\ PlanWaitExpiry(q) = q /\ CooldownExpiry(q) = q /\ IssueWhenDue(q) = q
  BY <1>3 DEF PendingExpiry, PlanWaitExpiry, CooldownExpiry, IssueWhenDue, ActionStates
<1>7. TickWith(r, flags, cached) = q
  BY <1>5, <1>6 DEF TickWith, q
<1> QED
  BY <1>1, <1>2, <1>3, <1>7 DEF Latched

\* A stopped machine stays stopped, silent and unchanged by the time checks that
\* open a handler.
LEMMA CallLatched ==
    ASSUME Settled(m), m.state = "terminal_safe_stop", NEW now \in CallTimes
    PROVE  LET v == ValidateTime(m, now)
           IN  /\ Latched(v)
               /\ RecoveryDeadline(v) = v
               /\ \A why : EnterTerminal(v, why) = v
<1> DEFINE drained == [m EXCEPT !.outbox = <<>>]
           q == [drained EXCEPT !.lastNow = now]
           v == ValidateTime(m, now)
<1>1. MachineType(m) /\ ~HasPending(m) /\ now \in Nat
  BY NoStrayPending, ConfigAssumption DEF Settled, Guarded, Sound, ActionStates, CallTimes, Time
<1>2. MachineType(drained)
  BY <1>1, Fields DEF MachineType
<1>3. drained.state = m.state /\ drained.pending = m.pending /\ drained.outbox = <<>>
  BY <1>1, Fields DEF MachineType
<1> HIDE DEF drained
<1>4. q.state = m.state /\ q.pending = m.pending /\ q.outbox = <<>>
  BY <1>2, <1>3, Fields DEF MachineType
<1> HIDE DEF q
<1>5. EnterTerminal(drained, "monotonic_time_regression") = drained
  BY <1>3 DEF EnterTerminal
<1>6. v \in {drained, q}
  BY <1>5 DEF ValidateTime, drained, q
<1>7. MachineType(v)
  BY <1>1, ValidateTimeType
<1> HIDE DEF v
<1>8. Latched(v)
  BY <1>1, <1>3, <1>4, <1>6, <1>7 DEF Latched, HasPending
<1>9. \A why : EnterTerminal(v, why) = v
  BY <1>8 DEF Latched, EnterTerminal
<1> QED
  BY <1>8, <1>9 DEF v, RecoveryDeadline

\* begin_episode that is not refused changes the generation.
LEMMA NewEpisodeNewGeneration ==
    ASSUME MachineType(m), NEW generation \in Generations, NEW now \in CallTimes,
           BeginEpisode(generation, now)
    PROVE  m'.gen # m.gen
<1> DEFINE completed == m.completed
           retired == RetirePending(m).retired
           number == m.opSeq
           fresh == [InitialMachine EXCEPT
                     !.state = "monitoring", !.gen = generation,
                     !.lastNow = now, !.notBefore = now,
                     !.opSeq = number, !.completed = completed,
                     !.retired = retired]
<1>1. m' \in {fresh, QueueSafeStop(fresh)}
  BY DEF BeginEpisode
<1> HIDE DEF completed, retired, number
<1>2. DOMAIN fresh = DOMAIN InitialMachine /\ fresh.gen = generation
  BY Fields
<1> HIDE DEF fresh
<1>3. QueueSafeStop(fresh).gen = generation
  BY <1>2, Fields DEF QueueSafeStop
<1>4. m'.gen = generation
  BY <1>1, <1>2, <1>3
<1>5. generation \in Nat
  BY ConfigAssumption DEF Generations
<1>6. m.gen \in Int
  BY DEF MachineType
<1> QED
  BY <1>4, <1>5, <1>6 DEF BeginEpisode

\* No handler but begin_episode leaves the terminal stop or returns a command in it.
LEMMA LatchedStep ==
    ASSUME Settled(m), m.state = "terminal_safe_stop", m'.gen = m.gen, Next
    PROVE  m'.state = "terminal_safe_stop" /\ m'.outbox = <<>>
<1>1. CASE Episode
  <2>1. PICK now \in CallTimes, generation \in Generations :
          BeginEpisode(generation, now) \/ BeginEpisodeRefused(generation, now)
    BY <1>1 DEF Episode
  <2>2. CASE BeginEpisodeRefused(generation, now)
    <3> DEFINE p == [m EXCEPT !.outbox = <<>>]
    <3>1. p.state = "terminal_safe_stop" /\ p.outbox = <<>>
      BY Fields DEF Settled, MachineType
    <3> HIDE DEF p
    <3>2. m' = p
      BY <2>2, <3>1 DEF BeginEpisodeRefused, EnterTerminal, p
    <3> QED
      BY <3>1, <3>2
  <2>3. ~BeginEpisode(generation, now)
    BY NewEpisodeNewGeneration DEF Settled
  <2> QED
    BY <2>1, <2>2, <2>3
<1>2. CASE Clocked
  <2>1. PICK now \in CallTimes :
          TickInvalid(now) \/ \E flags \in SafetyFlags : Tick(now, flags)
    BY <1>2 DEF Clocked
  <2> DEFINE v == ValidateTime(m, now)
  <2>2. Latched(v) /\ \A why : EnterTerminal(v, why) = v
    BY CallLatched
  <2>3. Latched(m')
    BY <2>1, <2>2, TickLatched DEF TickInvalid, Tick
  <2> QED
    BY <2>3 DEF Latched
<1>3. CASE Acknowledge
  <2>1. PICK now \in CallTimes :
          \/ AckMalformed(now)
          \/ \E op \in AckOps :
               \/ AckStaleDropped(now, op)
               \/ \E success \in BOOLEAN : AckDuplicate(now, op, success)
               \/ \E gen \in Generations, rec \in Recoveries :
                    AckUnknown(now, op, gen, rec)
          \/ \E success \in BOOLEAN, evidence \in Evidence :
               AckPending(now, success, evidence)
    BY <1>3 DEF Acknowledge
  <2> DEFINE v == ValidateTime(m, now)
  <2>2. Latched(v) /\ RecoveryDeadline(v) = v /\ \A why : EnterTerminal(v, why) = v
    BY CallLatched
  <2>3. \A success, evidence : ~AckPending(now, success, evidence)
    BY <2>2 DEF AckPending, Latched
  <2>4. m' = v
    BY <2>1, <2>2, <2>3 DEF AckMalformed, AckStaleDropped, AckDuplicate, AckUnknown
  <2> QED
    BY <2>2, <2>4 DEF Latched
<1>4. CASE Observe
  <2>1. PICK now \in CallTimes :
          \/ ObserveIdle(now)
          \/ ObserveInvalid(now)
          \/ \E goal \in Goals :
               \/ ObserveForeignGoal(now, goal)
               \/ \E flags \in SafetyFlags : ObserveValid(now, goal, flags)
    BY <1>4 DEF Observe
  <2> DEFINE v == ValidateTime(m, now)
  <2>2. Latched(v) /\ \A why : EnterTerminal(v, why) = v
    BY CallLatched
  <2>3. ASSUME NEW goal \in Goals, NEW flags \in SafetyFlags, ObserveValid(now, goal, flags)
        PROVE  Latched(m')
    <3> DEFINE t == TickWith(AdoptGoal(v, goal), flags, FALSE)
               g == [v EXCEPT !.goal = goal]
    <3>1. GoalAdmitted(v, goal)
      BY <2>3 DEF ObserveValid
    <3> HIDE DEF v
    <3>2. AdoptGoal(v, goal) = g
      BY <2>2, <3>1 DEF AdoptGoal, GoalAdmitted, Latched
    <3>3. MachineType(g)
      BY <2>2, Fields DEF Latched, MachineType
    <3>4. g.state = v.state /\ g.pending = v.pending /\ g.outbox = v.outbox
      BY <2>2, Fields DEF Latched, MachineType
    <3> HIDE DEF g
    <3>5. Latched(t)
      BY <2>2, <3>2, <3>3, <3>4, TickLatched DEF Latched, HasPending
    <3> HIDE DEF t
    <3>6. t.state = "terminal_safe_stop"
      BY <3>5 DEF Latched
    <3> QED
      BY <2>3, <3>5, <3>6 DEF ObserveValid, t, v
  <2>4. Latched(m')
    BY <2>1, <2>2, <2>3 DEF ObserveIdle, ObserveInvalid, ObserveForeignGoal
  <2> QED
    BY <2>4 DEF Latched
<1>5. CASE Submit
  <2>1. PICK now \in CallTimes :
          \/ SubmitStopped(now)
          \/ \E op \in {m.awaiting, NoOperation}, gen \in Generations,
                rec \in Recoveries :
               \/ SubmitRefused(now, op, gen, rec)
               \/ SubmitLate(now, op, gen, rec)
               \/ SubmitInvalid(now, op, gen, rec)
               \/ \E p \in Plans : \/ SubmitOld(now, op, gen, rec, p)
                                   \/ SubmitNovel(now, op, gen, rec, p)
    BY <1>5 DEF Submit
  <2> DEFINE v == ValidateTime(m, now)
  <2>2. Latched(v) /\ RecoveryDeadline(v) = v
    BY CallLatched
  <2>3. v.state = "terminal_safe_stop" /\ \A op, gen, rec : ~Answers(v, op, gen, rec)
    BY <2>2 DEF Latched, Answers
  <2>4. m' = v
    BY <2>1, <2>2, <2>3 DEF SubmitStopped, SubmitRefused, SubmitLate, SubmitInvalid, SubmitOld, SubmitNovel
  <2> QED
    BY <2>2, <2>4 DEF Latched
<1> QED
  BY <1>1, <1>2, <1>3, <1>4, <1>5 DEF Next

\* A terminal safe stop is latched for the rest of its generation: no tick,
\* acknowledgement, observation or submission, late or repeated, moves the machine
\* out of it or makes it return a command.
THEOREM StopIsLatched == Spec => TerminalIsLatched
<1>1. Settled(m) /\ [Next]_m =>
        [m.state = "terminal_safe_stop" /\ m'.gen = m.gen =>
           m'.state = "terminal_safe_stop" /\ m'.outbox = <<>>]_m
  BY LatchedStep
<1> QED
  BY <1>1, SettledAlways, PTL DEF Spec, TerminalIsLatched

\* The machine is in a recovery, or stopped.
Recovering(r) == /\ MachineType(r)
                 /\ r.state \in RecoveryStates \cup {"terminal_safe_stop"}

\* Stopping never ends a recovery well.
LEMMA StopRecovering ==
    ASSUME NEW r, MachineType(r), NEW why
    PROVE  Recovering(EnterTerminal(r, why))
BY EnterTerminalType DEF Recovering

\* A transition to an action state stays in the recovery.
LEMMA TransitionRecovering ==
    ASSUME NEW r, MachineType(r), NEW s \in ActionStates
    PROVE  Recovering(Transition(r, s))
<1>1. MachineType(Transition(r, s))
  BY TransitionType DEF States, RecoveryStates
<1>2. Transition(r, s).state = s
  BY Fields DEF Transition, MachineType
<1> QED
  BY <1>1, <1>2 DEF Recovering, RecoveryStates

\* The fallback stays in the recovery or stops.
LEMMA RetreatOrStopRecovering ==
    ASSUME NEW r, MachineType(r), NEW why
    PROVE  Recovering(StartRetreatOrStop(r, why))
<1> DEFINE q == [r EXCEPT !.planDeadline = NoTime]
           p == [q EXCEPT !.fallback = TRUE]
<1>1. MachineType(q)
  BY Fields DEF MachineType
<1> HIDE DEF q
<1>2. MachineType(p)
  BY <1>1, Fields DEF MachineType
<1> HIDE DEF p
<1>3. Recovering(Transition(p, "safe_retreat")) /\ Recovering(EnterTerminal(q, why))
  BY <1>1, <1>2, TransitionRecovering, StopRecovering DEF ActionStates
<1>4. StartRetreatOrStop(r, why) \in {Transition(p, "safe_retreat"), EnterTerminal(q, why)}
  BY DEF StartRetreatOrStop, p, q
<1> QED
  BY <1>3, <1>4

\* Issuing stays in the recovery or stops.
LEMMA IssueRecovering ==
    ASSUME NEW r, MachineType(r), r.state \in ActionStates
    PROVE  Recovering(IssueCurrentAction(r))
<1>1. \A why : Recovering(EnterTerminal(r, why)) /\ Recovering(StartRetreatOrStop(r, why))
  BY StopRecovering, RetreatOrStopRecovering
<1>2. Recovering(IssueCommand(r, r.state))
  <2>1. MachineType(IssueCommand(r, r.state))
    BY IssueCommandType
  <2>2. IssueCommand(r, r.state).state = r.state
    BY Fields DEF IssueCommand, MachineType
  <2> QED
    BY <2>1, <2>2 DEF Recovering, RecoveryStates
<1> QED
  BY <1>1, <1>2 DEF IssueCurrentAction, ActionByState

\* A retry stays in the recovery or stops.
LEMMA RetryOrFailRecovering ==
    ASSUME NEW r, Recovering(r), NEW why
    PROVE  Recovering(RetryOrFail(r, why))
<1> DEFINE q == RetirePending(r)
           after == r.lastNow + RetryBackoff
           b == [q EXCEPT !.notBefore = after]
<1>1. MachineType(q)
  BY RetirePendingType DEF Recovering
<1>2. q.state = r.state
  BY Fields DEF RetirePending, Recovering, MachineType
<1> HIDE DEF q, after
<1>3. b.state = q.state
  BY <1>1, Fields DEF MachineType
<1>4. MachineType(RetryOrFail(r, why))
  BY RetryOrFailType DEF Recovering
<1>5. \A any : Recovering(EnterTerminal(q, any)) /\ Recovering(StartRetreatOrStop(q, any))
  BY <1>1, StopRecovering, RetreatOrStopRecovering
<1>6. \/ RetryOrFail(r, why) = b
      \/ \E any : RetryOrFail(r, why) \in {EnterTerminal(q, any), StartRetreatOrStop(q, any)}
  BY DEF RetryOrFail, q, after
<1> HIDE DEF b
<1> QED
  BY <1>2, <1>3, <1>4, <1>5, <1>6 DEF Recovering

\* The paragraphs of tick after the safety gate stay in the recovery or stop.
LEMMA LaterParagraphsRecovering ==
    ASSUME NEW r, Recovering(r)
    PROVE  Recovering(IssueWhenDue(CooldownExpiry(PlanWaitExpiry(PendingExpiry(
             RecoveryDeadline(r))))))
<1>1. \A x : Recovering(x) => Recovering(RecoveryDeadline(x))
  BY StopRecovering DEF RecoveryDeadline, Recovering
<1>2. \A x : Recovering(x) => Recovering(PendingExpiry(x))
  BY RetryOrFailRecovering DEF PendingExpiry
<1>3. \A x : Recovering(x) => Recovering(PlanWaitExpiry(x))
  BY TransitionRecovering, RetreatOrStopRecovering DEF PlanWaitExpiry, Recovering, ActionStates
<1>4. \A x : Recovering(x) => CooldownExpiry(x) = x
  BY DEF CooldownExpiry, Recovering, RecoveryStates, ActionStates
<1>5. \A x : Recovering(x) => Recovering(IssueWhenDue(x))
  BY IssueRecovering DEF IssueWhenDue, Recovering
<1> QED
  BY <1>1, <1>2, <1>3, <1>4, <1>5

\* tick never ends a recovery well.
LEMMA TickRecovering ==
    ASSUME NEW r, Recovering(r), NEW flags \in SafetyFlags, NEW cached \in BOOLEAN
    PROVE  Recovering(TickWith(r, flags, cached))
<1> DEFINE q == SetSafety(r, flags, cached)
<1>1. MachineType(q)
  BY SetSafetyType DEF Recovering
<1>2. q.state = r.state
  BY Fields DEF SetSafety, Recovering, MachineType
<1> HIDE DEF q
<1>3. Recovering(q)
  BY <1>1, <1>2 DEF Recovering
<1>4. Recovering(SafetyGate(q))
  BY <1>3, StopRecovering DEF SafetyGate, Recovering
<1> QED
  BY <1>3, <1>4, LaterParagraphsRecovering DEF TickWith, q

\* What a handler called during a recovery starts from.
LEMMA CallRecovering ==
    ASSUME MachineType(m), m.state \in RecoveryStates, NEW now \in CallTimes
    PROVE  LET v == ValidateTime(m, now)
           IN  /\ Recovering(v)
               /\ Recovering(RecoveryDeadline(v))
               /\ RecoveryDeadline(v).state # "terminal_safe_stop" =>
                    /\ RecoveryDeadline(v) = v
                    /\ v.pending = m.pending /\ v.seen = m.seen
<1> DEFINE drained == [m EXCEPT !.outbox = <<>>]
           q == [drained EXCEPT !.lastNow = now]
           v == ValidateTime(m, now)
<1>1. now \in Nat
  BY ConfigAssumption DEF CallTimes, Time
<1>2. MachineType(v)
  BY <1>1, ValidateTimeType
<1>3. MachineType(drained)
  BY Fields DEF MachineType
<1>4. q.state = m.state /\ q.pending = m.pending /\ q.seen = m.seen
  BY Fields DEF MachineType
<1> HIDE DEF drained
<1>5. \A why : EnterTerminal(drained, why).state = "terminal_safe_stop"
  BY <1>3, EnterTerminalType
<1>6. v = q \/ v.state = "terminal_safe_stop"
  BY <1>5 DEF ValidateTime, drained, q
<1> HIDE DEF v, q
<1>7. Recovering(v)
  BY <1>2, <1>4, <1>6 DEF Recovering
<1>8. /\ Recovering(RecoveryDeadline(v))
      /\ RecoveryDeadline(v).state # "terminal_safe_stop" => RecoveryDeadline(v) = v
  BY <1>2, <1>7, RecoveryDeadlineType, StopRecovering DEF RecoveryDeadline
<1> QED
  BY <1>4, <1>6, <1>7, <1>8 DEF v

\* The tick after an acceptance leaves the cooldown as it is, or stops.
LEMMA AcceptedTick ==
    ASSUME NEW r, MachineType(r), r.state = "cooldown", ~HasPending(r),
           r.startedAt = NoTime, r.cooldownUntil = r.lastNow + CooldownTime
    PROVE  \/ Recovering(CachedTick(r))
           \/ /\ CachedTick(r).active = r.active
              /\ CachedTick(r).lastNow = r.lastNow
              /\ CachedTick(r).observedAt = r.observedAt
<1> DEFINE q == SetSafety(r, r.safety, TRUE)
<1>1. MachineType(q)
  BY SetSafetyType DEF MachineType
<1>2. /\ q.state = "cooldown" /\ q.pending = r.pending /\ q.startedAt = NoTime
      /\ q.cooldownUntil = r.cooldownUntil /\ q.lastNow = r.lastNow
      /\ q.active = r.active /\ q.observedAt = r.observedAt
  BY Fields DEF SetSafety, MachineType
<1> HIDE DEF q
<1>3. ~(q.lastNow >= q.cooldownUntil)
  BY <1>2, Counters, ConfigAssumption
<1>4. /\ RecoveryDeadline(q) = q /\ PendingExpiry(q) = q /\ PlanWaitExpiry(q) = q
      /\ CooldownExpiry(q) = q /\ IssueWhenDue(q) = q
  BY <1>2, <1>3 DEF RecoveryDeadline, PendingExpiry, PlanWaitExpiry, CooldownExpiry,
     IssueWhenDue, HasPending, ActionStates
<1>5. SafetyGate(q) = q \/ \E why : SafetyGate(q) = EnterTerminal(q, why)
  BY DEF SafetyGate
<1>6. \A why : Recovering(EnterTerminal(q, why))
  BY <1>1, StopRecovering
<1>7. Recovering(SafetyGate(q)) => Recovering(CachedTick(r))
  BY <1>2, LaterParagraphsRecovering DEF CachedTick, TickWith, q
<1>8. SafetyGate(q) = q => CachedTick(r) = q
  BY <1>2, <1>4 DEF CachedTick, TickWith, q
<1> QED
  BY <1>2, <1>5, <1>6, <1>7, <1>8

\* An acknowledgement ends a recovery well only if it is that of the acceptance,
\* and then with fresh safety and a plan not seen before.
LEMMA AckPendingAccepts ==
    ASSUME Settled(m), m.state \in RecoveryStates,
           NEW now \in CallTimes, NEW success \in BOOLEAN, NEW evidence,
           AckPending(now, success, evidence)
    PROVE  \/ Recovering(m')
           \/ /\ m.pending.action = "accept_fresh_plan"
              /\ m'.active = m.pending.plan
              /\ m.pending.plan.shape \notin m.seen
              /\ m'.lastNow - m'.observedAt <= SafetyFreshness
<1> DEFINE v == ValidateTime(m, now)
           d == RecoveryDeadline(v)
           c == RememberCompletion(d, d.pending.op, success)
           e == [c EXCEPT !.pending = NoCommand]
<1>1. /\ Recovering(d) /\ Settled(d) /\ HasPending(v)
      /\ d.state # "terminal_safe_stop" =>
           d = v /\ v.pending = m.pending /\ v.seen = m.seen
  BY CallRecovering, CalledSound DEF AckPending, Settled
<1> HIDE DEF v, d
<1>2. CASE d.state = "terminal_safe_stop"
  BY <1>1, <1>2 DEF AckPending, d, v
<1>3. CASE d.state # "terminal_safe_stop"
  <2>1. /\ HasPending(d) /\ MachineType(d) /\ Sound(d)
        /\ d.pending = m.pending /\ d.seen = m.seen
    BY <1>1, <1>3 DEF Settled, Guarded
  <2>2. d.state \in ActionStates /\ d.pending.action = d.state
    BY <2>1, PendingInActionState DEF Sound
  <2>3. d.pending.op \in Operations
    BY <2>1 DEF MachineType, Commands
  <2>4. /\ Settled(c) /\ c.state = d.state /\ c.pending = d.pending
        /\ Last(c.completed).op \in Operations
    BY <1>1, <2>3, RememberCompletionSound
  <2>5. /\ c.accepted = d.accepted /\ c.lastNow = d.lastNow
        /\ c.observedAt = d.observedAt
    BY <2>1, Fields DEF RememberCompletion, MachineType
  <2> HIDE DEF c
  <2>6. Settled(e) /\ ~HasPending(e) /\ e.state = d.state /\ e.completed = c.completed
    BY <2>4, DropPendingSound
  <2>7. /\ e.accepted = d.accepted /\ e.lastNow = d.lastNow
        /\ e.observedAt = d.observedAt
    BY <2>4, <2>5, Fields DEF Settled, MachineType
  <2> HIDE DEF e
  <2>8. \A why : /\ Recovering(EnterTerminal(d, why))
                 /\ Recovering(RetryOrFail(d, why))
                 /\ Recovering(RetryOrFail(c, why))
    BY <1>1, <2>1, <2>4, StopRecovering, RetryOrFailRecovering DEF Recovering, Settled
  <2>9. \/ \E why : \/ m' = EnterTerminal(d, why)
                    \/ m' = RetryOrFail(d, why)
                    \/ m' = RetryOrFail(c, why)
        \/ /\ d.pending.action = "accept_fresh_plan" => CachedSafetyIsFresh(d)
           /\ m' = CachedTick(CompleteAction(e, d.pending.action))
    BY <1>3 DEF AckPending, v, d, c, e
  <2>10. CASE /\ d.state # "accept_fresh_plan"
              /\ m' = CachedTick(CompleteAction(e, d.pending.action))
    <3> DEFINE f == CompleteAction(e, d.state)
    <3>1. MachineType(f)
      BY <2>2, <2>4, <2>6, CompleteActionType DEF Settled
    <3>2. f.state \in RecoveryStates
      BY <2>2, <2>6, <2>10, Fields
         DEF CompleteAction, Transition, Settled, MachineType, ActionStates, RecoveryStates
    <3> HIDE DEF f
    <3>3. Recovering(CachedTick(f))
      BY <3>1, <3>2, TickRecovering DEF CachedTick, Recovering, MachineType
    <3> QED
      BY <2>2, <2>10, <3>3 DEF f
  <2>11. CASE /\ d.state = "accept_fresh_plan"
              /\ CachedSafetyIsFresh(d)
              /\ m' = CachedTick(CompleteAction(e, d.pending.action))
    <3> DEFINE until == e.lastNow + CooldownTime
               q == [e EXCEPT !.seen = @ \cup {e.accepted.shape}, !.active = e.accepted,
                              !.startedAt = NoTime, !.state = "cooldown",
                              !.cooldownUntil = until]
    <3>1. m' = CachedTick(CompleteAccept(e))
      BY <2>2, <2>11 DEF CompleteAction
    <3>2. MachineType(CompleteAccept(e))
      BY <2>6, CompleteAcceptType DEF Settled
    <3>3. CompleteAccept(e) = q \/ \E why : CompleteAccept(e) = EnterTerminal(e, why)
      BY DEF CompleteAccept
    <3> HIDE DEF until
    <3>4. /\ q.state = "cooldown" /\ q.pending = e.pending /\ q.startedAt = NoTime
          /\ q.cooldownUntil = until /\ q.lastNow = e.lastNow
          /\ q.active = e.accepted /\ q.observedAt = e.observedAt
      BY <2>6, Fields DEF Settled, MachineType
    <3> HIDE DEF q
    <3>5. CASE \E why : CompleteAccept(e) = EnterTerminal(e, why)
      <4>1. Recovering(CompleteAccept(e))
        BY <2>6, <3>5, StopRecovering DEF Settled
      <4>2. Recovering(m')
        BY <3>1, <4>1, TickRecovering DEF CachedTick, Recovering, MachineType
      <4> QED
        BY <4>2
    <3>6. CASE CompleteAccept(e) = q
      <4>1. \/ Recovering(m')
            \/ m'.active = q.active /\ m'.lastNow = q.lastNow /\ m'.observedAt = q.observedAt
        BY <2>6, <3>1, <3>2, <3>4, <3>6, AcceptedTick DEF HasPending, until
      <4>2. d.pending.plan = d.accepted /\ d.accepted.shape \notin d.seen
        BY <2>1, <2>2, <2>11 DEF Sound, BarrierNovel, IsOld
      <4>3. d.lastNow - d.observedAt <= SafetyFreshness
        BY <2>11 DEF CachedSafetyIsFresh
      <4> QED
        BY <2>1, <2>2, <2>7, <2>11, <3>4, <4>1, <4>2, <4>3
    <3> QED
      BY <3>3, <3>5, <3>6
  <2> QED
    BY <2>2, <2>8, <2>9, <2>10, <2>11
<1> QED
  BY <1>2, <1>3

\* No other handler ends a recovery well.
LEMMA BarrierStep ==
    ASSUME Settled(m), m.state \in RecoveryStates, m'.gen = m.gen, Next
    PROVE  \/ Recovering(m')
           \/ /\ m.pending.action = "accept_fresh_plan"
              /\ m'.active = m.pending.plan
              /\ m.pending.plan.shape \notin m.seen
              /\ m'.lastNow - m'.observedAt <= SafetyFreshness
<1>0. MachineType(m)
  BY DEF Settled
<1>1. CASE Episode
  <2>1. PICK now \in CallTimes, generation \in Generations :
          BeginEpisode(generation, now) \/ BeginEpisodeRefused(generation, now)
    BY <1>1 DEF Episode
  <2>2. ~BeginEpisode(generation, now)
    BY <1>0, NewEpisodeNewGeneration
  <2>3. MachineType([m EXCEPT !.outbox = <<>>])
    BY <1>0, Fields DEF MachineType
  <2> QED
    BY <2>1, <2>2, <2>3, StopRecovering DEF BeginEpisodeRefused
<1>2. CASE Clocked
  <2>1. PICK now \in CallTimes :
          TickInvalid(now) \/ \E flags \in SafetyFlags : Tick(now, flags)
    BY <1>2 DEF Clocked
  <2> DEFINE v == ValidateTime(m, now)
  <2>2. Recovering(v) /\ MachineType(v)
    BY <1>0, CallRecovering DEF Recovering
  <2> QED
    BY <2>1, <2>2, StopRecovering, TickRecovering DEF TickInvalid, Tick
<1>3. CASE Acknowledge
  <2>1. PICK now \in CallTimes :
          \/ AckMalformed(now)
          \/ \E op \in AckOps :
               \/ AckStaleDropped(now, op)
               \/ \E success \in BOOLEAN : AckDuplicate(now, op, success)
               \/ \E gen \in Generations, rec \in Recoveries :
                    AckUnknown(now, op, gen, rec)
          \/ \E success \in BOOLEAN, evidence \in Evidence :
               AckPending(now, success, evidence)
    BY <1>3 DEF Acknowledge
  <2> DEFINE v == ValidateTime(m, now)
             d == RecoveryDeadline(v)
  <2>2. Recovering(v) /\ Recovering(d)
    BY <1>0, CallRecovering
  <2>3. \A why : Recovering(EnterTerminal(v, why)) /\ Recovering(EnterTerminal(d, why))
    BY <2>2, StopRecovering DEF Recovering
  <2>4. \/ Recovering(m')
        \/ \E success \in BOOLEAN, evidence \in Evidence :
             AckPending(now, success, evidence)
    BY <2>1, <2>2, <2>3 DEF AckMalformed, AckStaleDropped, AckDuplicate, AckUnknown
  <2> QED
    BY <2>4, AckPendingAccepts
<1>4. CASE Observe
  <2>1. PICK now \in CallTimes :
          \/ ObserveIdle(now)
          \/ ObserveInvalid(now)
          \/ \E goal \in Goals :
               \/ ObserveForeignGoal(now, goal)
               \/ \E flags \in SafetyFlags : ObserveValid(now, goal, flags)
    BY <1>4 DEF Observe
  <2> DEFINE v == ValidateTime(m, now)
  <2>2. Recovering(v) /\ MachineType(v)
    BY <1>0, CallRecovering DEF Recovering
  <2>3. ASSUME NEW goal \in Goals, NEW flags \in SafetyFlags, ObserveValid(now, goal, flags)
        PROVE  Recovering(m')
    <3> DEFINE g == AdoptGoal(v, goal)
               t == TickWith(g, flags, FALSE)
    <3> HIDE DEF v
    <3>1. Recovering(g)
      <4> DEFINE x == [v EXCEPT !.samples = NoSamples, !.arrivals = <<>>, !.seen = {},
                                !.active = NoPlan, !.goal = goal]
                 y == [v EXCEPT !.goal = goal]
      <4>1. MachineType(x) /\ x.state = v.state
        BY <2>2, Fields DEF MachineType, NoSamples
      <4>2. MachineType(y) /\ y.state = v.state
        BY <2>2, Fields DEF MachineType
      <4> HIDE DEF x, y
      <4> QED
        BY <2>2, <4>1, <4>2 DEF AdoptGoal, Recovering, x, y
    <3> HIDE DEF g
    <3>2. Recovering(t)
      BY <3>1, TickRecovering
    <3> HIDE DEF t
    <3>3. \A x, running, stuck : Recovering(x) =>
            Recovering(ObserveProgress(x, flags, running, stuck))
      BY TickRecovering DEF ObserveProgress, Recovering, RecoveryStates, ActionStates
    <3>4. ASSUME NEW p \in Plans, NEW running, NEW window, NEW order
          PROVE  Recovering(PlanArrival(t, p, running, window, order))
      <4> DEFINE push == PushBounded(t.arrivals, p, TabooCapacity)
                 a == [t EXCEPT !.active = p, !.arrivals = push]
      <4> HIDE DEF push
      <4>1. a.state = t.state /\ t.state # "monitoring" /\ MachineType(t)
        BY <3>2, Fields DEF Recovering, MachineType, RecoveryStates, ActionStates
      <4> HIDE DEF a
      <4>2. PlanArrival(t, p, running, window, order) = a
        BY <4>1 DEF PlanArrival, a, push
      <4>3. MachineType(PlanArrival(t, p, running, window, order))
        BY <4>1, PlanArrivalType
      <4> QED
        BY <3>2, <4>1, <4>2, <4>3 DEF Recovering
    <3> QED
      BY <2>3, <3>2, <3>3, <3>4 DEF ObserveValid, t, g, v
  <2>4. \A why : Recovering(EnterTerminal(v, why))
    BY <2>2, StopRecovering
  <2> QED
    BY <2>1, <2>2, <2>3, <2>4 DEF ObserveIdle, ObserveInvalid, ObserveForeignGoal
<1>5. CASE Submit
  <2>1. PICK now \in CallTimes :
          \/ SubmitStopped(now)
          \/ \E op \in {m.awaiting, NoOperation}, gen \in Generations,
                rec \in Recoveries :
               \/ SubmitRefused(now, op, gen, rec)
               \/ SubmitLate(now, op, gen, rec)
               \/ SubmitInvalid(now, op, gen, rec)
               \/ \E p \in Plans : \/ SubmitOld(now, op, gen, rec, p)
                                   \/ SubmitNovel(now, op, gen, rec, p)
    BY <1>5 DEF Submit
  <2> DEFINE d == RecoveryDeadline(ValidateTime(m, now))
  <2>2. Recovering(d) /\ MachineType(d)
    BY <1>0, CallRecovering DEF Recovering
  <2> HIDE DEF d
  <2>3. \A q : MachineType(q) =>
          /\ Recovering(CachedTick(Transition(q, "request_replan")))
          /\ Recovering(CachedTick(Transition(q, "accept_fresh_plan")))
          /\ \A why : Recovering(CachedTick(StartRetreatOrStop(q, why)))
    <3>1. \A x : Recovering(x) => Recovering(CachedTick(x))
      BY TickRecovering DEF CachedTick, Recovering, MachineType
    <3> QED
      BY <3>1, TransitionRecovering, RetreatOrStopRecovering DEF ActionStates
  <2>4. \A why : Recovering(EnterTerminal(d, why))
    BY <2>2, StopRecovering
  <2>5. \A taboo : MachineType([d EXCEPT !.taboo = taboo, !.rejections = @ + 1])
    BY <2>2, RejectPlanType
  <2>6. MachineType([d EXCEPT !.awaiting = NoOperation, !.planDeadline = NoTime])
    BY <2>2, Constants, Fields DEF MachineType
  <2>7. \A p \in Plans : MachineType([d EXCEPT !.accepted = p, !.planDeadline = NoTime,
                                               !.awaiting = NoOperation])
    BY <2>2, Constants, Fields DEF MachineType
  <2>8. \A op, gen, rec : SubmitLate(now, op, gen, rec) => Recovering(m')
    BY <2>3, <2>6 DEF SubmitLate, d
  <2>9. \A op, gen, rec, p : SubmitOld(now, op, gen, rec, p) => Recovering(m')
    BY <2>3, <2>5 DEF SubmitOld, d
  <2>10. \A op, gen, rec : \A p \in Plans :
           SubmitNovel(now, op, gen, rec, p) => Recovering(m')
    BY <2>3, <2>4, <2>7 DEF SubmitNovel, d
  <2>11. Recovering(m')
    BY <2>1, <2>2, <2>4, <2>8, <2>9, <2>10 DEF SubmitStopped, SubmitRefused, SubmitInvalid, d
  <2> QED
    BY <2>11
<1> QED
  BY <1>1, <1>2, <1>3, <1>4, <1>5 DEF Next

\* A recovery returns to following a plan only through the acknowledged acceptance,
\* under fresh safety observations and with the plan that command carried, which
\* was not seen since the goal changed: no timeout, retry, late submission or
\* observation is a way around the execution barrier.
THEOREM RecoveryEndsAtTheBarrier == Spec => AcceptOnlyThroughBarrier
<1>1. Recovering(m') => m'.state \notin {"cooldown", "monitoring"}
  BY DEF Recovering, RecoveryStates, ActionStates
<1>2. Settled(m) /\ [Next]_m =>
        [m.state \in RecoveryStates /\ m'.state \in {"cooldown", "monitoring"}
           /\ m'.gen = m.gen =>
           /\ m.pending.action = "accept_fresh_plan"
           /\ m'.active = m.pending.plan
           /\ m.pending.plan.shape \notin m.seen
           /\ m'.lastNow - m'.observedAt <= SafetyFreshness]_m
  BY <1>1, BarrierStep
<1> QED
  BY <1>2, SettledAlways, PTL DEF Spec, AcceptOnlyThroughBarrier
=============================================================================
