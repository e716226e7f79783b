-------------------------- MODULE RecoveryMachine --------------------------
(***************************************************************************)
(* The T4.5 recovery core, t4_completion/recovery/state_machine.py.        *)
(*                                                                         *)
(* One RecoveryMachine object is driven by five handlers: begin_episode,   *)
(* tick, acknowledge, observe and submit_replanned_trajectory.  A handler  *)
(* runs to completion, may fall through several internal steps (an         *)
(* acknowledgement completes an action, ticks, and issues the next one)    *)
(* and returns the commands it queued.  The internal methods are operators *)
(* from a machine to a machine, named after them; the handlers are actions *)
(* on the variable m, one per early return.                                *)
(*                                                                         *)
(* Abstractions.  An (episode_id, reset_generation) identity is its        *)
(* generation, because a new episode needs a larger generation.  A         *)
(* trajectory is its signature.  Rear clearance is whether it covers the   *)
(* configured minimum.  Event records and counters that are only reported  *)
(* are left out.  Times are integers; -1 stands for None.                  *)
(***************************************************************************)
EXTENDS Integers, Sequences, FiniteSets, SequencesExt

CONSTANTS
    Plans,               \* signatures: a set of records [abs, shape]
    Goals,               \* goal identifiers
    MaxTime,             \* bound: last instant of the monotonic clock
    MaxJump,             \* bound: how far one call may advance the clock
    MaxGeneration,       \* bound: last reset generation
    TabooCapacity,       \* taboo_capacity
    HistoryCapacity,     \* 256 in the code: retired and completed operations
    MinSamples,          \* minimum_sample_count
    MaxObservationGap,   \* maximum_observation_gap_sec
    PlanCycleRepetitions,\* plan_cycle_repetitions
    ActionTimeout,       \* action_timeout_sec
    PlanWaitTimeout,     \* plan_wait_timeout_sec
    RetryBackoff,        \* retry_backoff_sec
    CooldownTime,        \* cooldown_sec
    SafetyFreshness,     \* safety_freshness_timeout_sec
    MaxRecoveryDuration, \* maximum_recovery_duration_sec
    MaxActionAttempts,   \* maximum_action_attempts
    MaxReplanRequests,   \* maximum_replan_requests_per_stage
    MaxPlanRejections,   \* maximum_plan_rejections_per_stage
    MaxRecoveries,       \* maximum_recoveries_per_episode
    MaxCommands,         \* maximum_commands_per_recovery
    RetreatEnabled       \* retreat_enabled

\* config.py checks every field of a profile before a machine exists; the
\* positive lower bounds are the ones _validate_config_instance enforces.
ASSUME ConfigAssumption ==
    /\ \A p \in Plans : p = [abs |-> p.abs, shape |-> p.shape]
    /\ {MaxTime, MaxJump, MaxGeneration, MaxObservationGap, RetryBackoff} \subseteq Nat
    /\ {TabooCapacity, HistoryCapacity, MinSamples, PlanCycleRepetitions,
        ActionTimeout, PlanWaitTimeout, CooldownTime, SafetyFreshness,
        MaxRecoveryDuration, MaxActionAttempts, MaxReplanRequests,
        MaxPlanRejections, MaxRecoveries, MaxCommands} \subseteq Nat \ {0}
    /\ MaxRecoveryDuration >= ActionTimeout
    /\ RetreatEnabled \in BOOLEAN

VARIABLE m               \* the RecoveryMachine object; its fields reason (of
                         \* the last stop) and blamed (the plan that was active
                         \* when the recovery began) are history

-----------------------------------------------------------------------------
(* RecoveryState, RecoveryAction and the tables that relate them.          *)

ActionStates == {"cancel_goal", "clear_local_cache", "scan",
                 "request_replan", "accept_fresh_plan", "safe_retreat"}

RecoveryStates == ActionStates \cup {"wait_fresh_plan"}

States == RecoveryStates \cup {"idle", "monitoring", "cooldown",
                               "terminal_safe_stop"}

MotionActions == {"scan", "safe_retreat"}

SafetyGatedActions == MotionActions \cup {"accept_fresh_plan"}

\* The values of RecoveryState and RecoveryAction are the same strings.
ActionByState(state) == state

NoTime == -1

Time == 0..MaxTime

NoGoal == "no_goal"

NoPlan == [abs |-> "no_plan", shape |-> "no_plan"]

ASSUME PlansAssumption == NoPlan \notin Plans

\* TrajectorySignature.tokens
PlanTokens(p) == <<<<"absolute", p.abs>>, <<"shape", p.shape>>>>

\* An operation_id spells out its generation, recovery, action and number.
NoOperation == [seq |-> 0, gen |-> -1, rec |-> 0, act |-> "none"]

NoCommand == [action |-> "none", op |-> NoOperation,
              issued |-> 0, deadline |-> 0, plan |-> NoPlan]

\* The safety flags of a tick.  estop is sim_estop_ready and _active together.
SafetyFlags == [clear : BOOLEAN, estop : {"ready", "not_ready", "active"},
                rear : BOOLEAN]

NoSafety == [clear |-> FALSE, estop |-> "not_ready", rear |-> FALSE]

NoSamples == [count |-> 0, last |-> 0]

-----------------------------------------------------------------------------
(* __init__                                                                *)

InitialMachine ==
    [state |-> "idle", gen |-> -1, goal |-> NoGoal, recoveries |-> 0,
     lastNow |-> 0, safety |-> NoSafety, observedAt |-> NoTime,
     samples |-> NoSamples, arrivals |-> <<>>, seen |-> {},
     active |-> NoPlan, accepted |-> NoPlan, taboo |-> <<>>,
     pending |-> NoCommand, outbox |-> <<>>, completed |-> <<>>,
     retired |-> <<>>, attempt |-> 0, notBefore |-> 0,
     startedAt |-> NoTime, planDeadline |-> NoTime, awaiting |-> NoOperation,
     cooldownUntil |-> NoTime, fallback |-> FALSE, replans |-> 0,
     rejections |-> 0, commands |-> 0, opSeq |-> 0, reason |-> "none",
     blamed |-> NoPlan]

Init == m = InitialMachine

-----------------------------------------------------------------------------
(* Internal methods.  The time of a handler is r.lastNow: _validate_time   *)
(* stores it there before anything else looks at the clock.                *)

HasPending(r) == r.pending.action # "none"

\* Variant: the capacity is checked one entry too late.
PushBoundedLate(q, x, capacity) ==
    IF Len(q) <= capacity THEN Append(q, x) ELSE Append(Tail(q), x)

\* deque(maxlen=...).append
PushBounded(q, x, capacity) ==
    IF Len(q) < capacity THEN Append(q, x) ELSE Append(Tail(q), x)

Transition(r, state) ==
    [r EXCEPT !.state = state, !.attempt = 0, !.notBefore = r.lastNow]

\* Variant: the command is remembered instead of its operation id.
RetireWholeCommand(r) ==
    IF HasPending(r)
    THEN [r EXCEPT !.retired = PushBounded(@, r.pending, HistoryCapacity),
                   !.pending = NoCommand]
    ELSE r

RetirePending(r) ==
    IF HasPending(r)
    THEN [r EXCEPT !.retired = PushBounded(@, r.pending.op, HistoryCapacity),
                   !.pending = NoCommand]
    ELSE r

NewOperation(r, action) ==
    [seq |-> r.opSeq + 1, gen |-> r.gen, rec |-> r.recoveries, act |-> action]

QueueSafeStop(r) ==
    LET command == [action |-> "latch_safe_stop",
                    op |-> NewOperation(r, "latch_safe_stop"),
                    issued |-> r.lastNow, deadline |-> r.lastNow, plan |-> NoPlan]
    IN  [r EXCEPT !.opSeq = @ + 1, !.outbox = Append(@, command)]

\* Variant: the early return is missing.
EnterTerminalAgain(r, why) ==
    QueueSafeStop([RetirePending(r) EXCEPT !.state = "terminal_safe_stop",
                                           !.reason = why])

\* Variant: the outstanding command is not retired.
EnterTerminalKeepsPending(r, why) ==
    IF r.state = "terminal_safe_stop" THEN r
    ELSE QueueSafeStop([r EXCEPT !.state = "terminal_safe_stop", !.reason = why])

EnterTerminal(r, why) ==
    IF r.state = "terminal_safe_stop" THEN r
    ELSE QueueSafeStop([RetirePending(r) EXCEPT !.state = "terminal_safe_stop",
                                                !.reason = why])

\* The handler's outbox was drained when the previous one returned.
ValidateTime(r, now) ==
    LET drained == [r EXCEPT !.outbox = <<>>]
    IN  IF now < r.lastNow
        THEN EnterTerminal(drained, "monotonic_time_regression")
        ELSE [drained EXCEPT !.lastNow = now]

\* Variant: the clock restarts with every step of the recovery.
RecoveryDeadlineOfStep(r) ==
    IF /\ r.startedAt # NoTime
       /\ r.lastNow - r.notBefore > MaxRecoveryDuration
    THEN EnterTerminal(r, "recovery_deadline_exhausted")
    ELSE r

RecoveryDeadline(r) ==
    IF /\ r.startedAt # NoTime
       /\ r.lastNow - r.startedAt > MaxRecoveryDuration
    THEN EnterTerminal(r, "recovery_deadline_exhausted")
    ELSE r

\* Variant: the flags are trusted whatever their age.
CachedSafetyAgeless(r) ==
    /\ r.safety.estop = "ready"
    /\ r.safety.clear
    /\ r.observedAt # NoTime

CachedSafetyIsFresh(r) ==
    /\ r.safety.estop = "ready"
    /\ r.safety.clear
    /\ r.observedAt # NoTime
    /\ r.lastNow - r.observedAt <= SafetyFreshness

\* One token of _add_taboo: the set _taboo is the range of _taboo_order.
AddToken(taboo, token) ==
    IF token \in Range(taboo) THEN taboo
    ELSE PushBounded(taboo, token, TabooCapacity)

AddTaboo(taboo, p) ==
    IF p = NoPlan THEN taboo
    ELSE AddToken(AddToken(taboo, PlanTokens(p)[1]), PlanTokens(p)[2])

AddTabooAll(taboo, plans) ==
    LET after[i \in 0..Len(plans)] ==
            IF i = 0 THEN taboo ELSE AddTaboo(after[i - 1], plans[i])
    IN  after[Len(plans)]

IsTaboo(r, p) == \E i \in 1..2 : PlanTokens(p)[i] \in Range(r.taboo)

\* Variant: only the plans of the detected cycle become taboo.
StartRecoverySparingActive(r, extras) ==
    IF r.recoveries >= MaxRecoveries
    THEN EnterTerminal(r, "episode_recovery_budget_exhausted")
    ELSE Transition(
           [r EXCEPT !.recoveries = @ + 1, !.startedAt = r.lastNow,
                     !.fallback = FALSE, !.replans = 0, !.rejections = 0,
                     !.commands = 0, !.accepted = NoPlan,
                     !.taboo = AddTabooAll(@, extras),
                     !.samples = NoSamples, !.blamed = r.active],
           "cancel_goal")

StartRecovery(r, extras) ==
    IF r.recoveries >= MaxRecoveries
    THEN EnterTerminal(r, "episode_recovery_budget_exhausted")
    ELSE Transition(
           [r EXCEPT !.recoveries = @ + 1, !.startedAt = r.lastNow,
                     !.fallback = FALSE, !.replans = 0, !.rejections = 0,
                     !.commands = 0, !.accepted = NoPlan,
                     !.taboo = AddTabooAll(@, <<r.active>> \o extras),
                     !.samples = NoSamples, !.blamed = r.active],
           "cancel_goal")

StartRetreatOrStop(r, why) ==
    LET q == [r EXCEPT !.planDeadline = NoTime]
    IN  IF RetreatEnabled /\ ~r.fallback
        THEN Transition([q EXCEPT !.fallback = TRUE], "safe_retreat")
        ELSE EnterTerminal(q, why)

\* The tail of _issue_current_action: every gate has passed.
IssueCommand(r, action) ==
    LET command == [action |-> action, op |-> NewOperation(r, action),
                    issued |-> r.lastNow, deadline |-> r.lastNow + ActionTimeout,
                    plan |-> IF action = "accept_fresh_plan" THEN r.accepted
                             ELSE NoPlan]
    IN  [r EXCEPT !.attempt = @ + 1, !.commands = @ + 1, !.opSeq = @ + 1,
                  !.replans = IF action = "request_replan" THEN @ + 1 ELSE @,
                  !.pending = command, !.outbox = Append(@, command)]

IssueCurrentAction(r) ==
    LET action == ActionByState(r.state)
    IN  IF r.commands >= MaxCommands
        THEN EnterTerminal(r, "recovery_command_budget_exhausted")
        ELSE IF action \in SafetyGatedActions /\ ~CachedSafetyIsFresh(r)
        THEN EnterTerminal(r, "recovery_motion_safety_gate_closed")
        ELSE IF action = "safe_retreat" /\ ~r.safety.rear
        THEN EnterTerminal(r, "rear_clearance_missing_or_insufficient")
        ELSE IF action = "request_replan" /\ r.replans >= MaxReplanRequests
        THEN StartRetreatOrStop(r, "replan_stage_budget_exhausted")
        ELSE IssueCommand(r, action)

RememberCompletion(r, op, success) ==
    [r EXCEPT !.completed =
        PushBounded(@, [op |-> op, success |-> success], HistoryCapacity)]

\* Variant: motions are retried like any other action.
RetryAnyAction(r, why) ==
    LET q == RetirePending(r)
    IN  IF r.attempt < MaxActionAttempts
        THEN [q EXCEPT !.notBefore = r.lastNow + RetryBackoff]
        ELSE IF r.pending.action = "request_replan"
        THEN StartRetreatOrStop(q, why)
        ELSE EnterTerminal(q, why)

\* A motion that timed out or was rejected may have moved the robot already.
RetryOrFail(r, why) ==
    LET action == r.pending.action
        q == RetirePending(r)
    IN  IF action \in MotionActions
        THEN EnterTerminal(q, "motion_retry_forbidden")
        ELSE IF r.attempt < MaxActionAttempts
        THEN [q EXCEPT !.notBefore = r.lastNow + RetryBackoff]
        ELSE IF action = "request_replan"
        THEN StartRetreatOrStop(q, why)
        ELSE EnterTerminal(q, why)

\* Variant: the recovery clock is left running.
CompleteAcceptKeepsClock(r) ==
    IF r.accepted = NoPlan \/ IsTaboo(r, r.accepted)
                           \/ Cardinality(r.seen) >= TabooCapacity
    THEN EnterTerminal(r, "taboo_plan_reached_execution_barrier")
    ELSE [r EXCEPT !.seen = @ \cup {r.accepted.shape}, !.active = r.accepted,
                   !.state = "cooldown",
                   !.cooldownUntil = r.lastNow + CooldownTime]

\* The ACCEPT_FRESH_PLAN branch of _complete_action.
CompleteAccept(r) ==
    IF r.accepted = NoPlan
    THEN EnterTerminal(r, "accepted_signature_missing")
    ELSE IF IsTaboo(r, r.accepted)
    THEN EnterTerminal(r, "taboo_plan_reached_execution_barrier")
    ELSE IF Cardinality(r.seen) >= TabooCapacity
    THEN EnterTerminal(r, "plan_history_capacity_exhausted")
    ELSE [r EXCEPT !.seen = @ \cup {r.accepted.shape}, !.active = r.accepted,
                   !.startedAt = NoTime, !.state = "cooldown",
                   !.cooldownUntil = r.lastNow + CooldownTime]

CompleteAction(r, action) ==
    CASE action = "cancel_goal" -> Transition(r, "clear_local_cache")
      [] action = "clear_local_cache" -> Transition(r, "scan")
      [] action = "scan" -> Transition(r, "request_replan")
      [] action = "request_replan" ->
           [r EXCEPT !.state = "wait_fresh_plan", !.attempt = 0,
                     !.planDeadline = r.lastNow + PlanWaitTimeout,
                     !.awaiting = Last(r.completed).op]
      [] action = "safe_retreat" ->
           Transition([r EXCEPT !.replans = 0, !.rejections = 0], "scan")
      [] action = "accept_fresh_plan" -> CompleteAccept(r)

-----------------------------------------------------------------------------
(* tick, as the sequence of its paragraphs.                                *)

SetSafety(r, flags, cached) ==
    [r EXCEPT !.safety = flags, !.observedAt = IF cached THEN @ ELSE r.lastNow]

\* Variant: an outstanding motion is not looked at.
SafetyGateEstopOnly(r) ==
    IF r.safety.estop # "ready" THEN EnterTerminal(r, "simulation_estop") ELSE r

SafetyGate(r) ==
    IF r.safety.estop = "not_ready"
    THEN EnterTerminal(r, "simulation_estop_not_ready")
    ELSE IF r.safety.estop = "active"
    THEN EnterTerminal(r, "simulation_estop_active")
    ELSE IF /\ r.pending.action \in SafetyGatedActions
            /\ ~CachedSafetyIsFresh(r)
    THEN EnterTerminal(r, "safety_lost_during_recovery_motion")
    ELSE IF r.pending.action = "safe_retreat" /\ ~r.safety.rear
    THEN EnterTerminal(r, "rear_clearance_lost_during_retreat")
    ELSE r

PendingExpiry(r) ==
    IF HasPending(r) /\ r.lastNow > r.pending.deadline
    THEN RetryOrFail(r, "action_timeout_budget_exhausted")
    ELSE r

\* _awaiting_replan_operation_id survives this timeout.
PlanWaitExpiry(r) ==
    IF /\ r.state = "wait_fresh_plan"
       /\ r.planDeadline # NoTime
       /\ r.lastNow > r.planDeadline
    THEN IF r.replans < MaxReplanRequests
         THEN Transition(r, "request_replan")
         ELSE StartRetreatOrStop(r, "fresh_plan_timeout_budget_exhausted")
    ELSE r

CooldownExpiry(r) ==
    IF /\ r.state = "cooldown"
       /\ r.cooldownUntil # NoTime
       /\ r.lastNow >= r.cooldownUntil
    THEN [Transition(r, "monitoring") EXCEPT
            !.samples = NoSamples, !.arrivals = <<>>, !.cooldownUntil = NoTime]
    ELSE r

IssueWhenDue(r) ==
    IF /\ r.state \in ActionStates
       /\ ~HasPending(r)
       /\ r.lastNow >= r.notBefore
    THEN IssueCurrentAction(r)
    ELSE r

\* Once the machine is terminal the later paragraphs change nothing: that is
\* tick's early return.
TickWith(r, flags, cached) ==
    LET q == SetSafety(r, flags, cached)
    IN  IF q.state = "idle" THEN q
        ELSE IssueWhenDue(CooldownExpiry(PlanWaitExpiry(PendingExpiry(
               RecoveryDeadline(SafetyGate(q))))))

\* tick(..., _safety_input_is_cached=True), called at the end of a handler.
CachedTick(r) == TickWith(r, r.safety, TRUE)

-----------------------------------------------------------------------------
(* The handlers.  A call may carry any instant, so also one in the past.   *)

\* Every regression has the same effect: one past instant stands for all.
CallTimes == {now \in Time : m.lastNow - 1 <= now /\ now <= m.lastNow + MaxJump}

\* begin_episode returns its fail-closed commands before touching the identity.
BeginEpisodeRefused(generation, now) ==
    /\ now < m.lastNow \/ (m.gen >= 0 /\ generation <= m.gen)
    /\ m' = EnterTerminal([m EXCEPT !.outbox = <<>>], "episode_refused")

\* Variant: the old episode's command is dropped, not retired.
BeginEpisodeForgetting(generation, now) ==
    /\ now >= m.lastNow
    /\ m.gen >= 0 => generation > m.gen
    /\ LET fresh == [InitialMachine EXCEPT
                       !.state = "monitoring", !.gen = generation,
                       !.lastNow = now, !.notBefore = now,
                       !.opSeq = m.opSeq, !.completed = m.completed,
                       !.retired = m.retired]
       IN  m' = IF m.state = "idle" THEN fresh ELSE QueueSafeStop(fresh)

\* Variant: the old episode's motion is not stopped.
BeginEpisodeWithoutStop(generation, now) ==
    /\ now >= m.lastNow
    /\ m.gen >= 0 => generation > m.gen
    /\ m' = [InitialMachine EXCEPT
               !.state = "monitoring", !.gen = generation,
               !.lastNow = now, !.notBefore = now,
               !.opSeq = m.opSeq, !.completed = m.completed,
               !.retired = RetirePending(m).retired]

BeginEpisode(generation, now) ==
    /\ now >= m.lastNow
    /\ m.gen >= 0 => generation > m.gen
    /\ LET fresh == [InitialMachine EXCEPT
                       !.state = "monitoring", !.gen = generation,
                       !.lastNow = now, !.notBefore = now,
                       !.opSeq = m.opSeq, !.completed = m.completed,
                       !.retired = RetirePending(m).retired]
       IN  m' = IF m.state = "idle" THEN fresh ELSE QueueSafeStop(fresh)

-----------------------------------------------------------------------------
Tick(now, flags) == m' = TickWith(ValidateTime(m, now), flags, FALSE)

\* A flag that is no boolean or a clearance that is no finite number.
TickInvalid(now) ==
    m' = EnterTerminal(ValidateTime(m, now), "invalid_safety_input")

-----------------------------------------------------------------------------
(* acknowledge.  The caller names an operation, repeats the identity it    *)
(* was issued under, and reports success and motion evidence.              *)

CompletedOps(r) == {c.op : c \in Range(r.completed)}

Known(r) == CompletedOps(r) \cup Range(r.retired)

\* NoOperation stands for every id in neither history that is not pending.
AckOps == Known(m) \cup {m.pending.op, NoOperation}

\* What _check_measured_velocity finds in the details of an acknowledgement,
\* and the stamp of the safety observation they carry.
Evidence == [kind : {"missing", "malformed", "unclean", "speeding"}, stamp : {0}]
            \cup [kind : {"clean"}, stamp : Time]

\* _check_measured_velocity
EvidenceAccepted(r, evidence) ==
    /\ evidence.kind \notin {"malformed", "speeding"}
    /\ r.pending.action \in MotionActions =>
         /\ evidence.kind = "clean"
         /\ r.pending.issued <= evidence.stamp
         /\ evidence.stamp <= r.lastNow
         /\ r.lastNow - evidence.stamp <= SafetyFreshness

AckMalformed(now) ==
    m' = EnterTerminal(ValidateTime(m, now), "invalid_ack_contract")

AckStaleDropped(now, op) ==
    LET v == ValidateTime(m, now) IN
    /\ op \in Range(v.retired)
    /\ m' = v

AckDuplicate(now, op, success) ==
    LET v == ValidateTime(m, now) IN
    /\ op \in CompletedOps(v) \ Range(v.retired)
    /\ m' = IF [op |-> op, success |-> success] \in Range(v.completed) THEN v
            ELSE EnterTerminal(v, "conflicting_duplicate_ack")

\* The operation is in no history; idle and monitoring machines get here too.
AckUnknown(now, op, gen, rec) ==
    LET v == ValidateTime(m, now)
        d == RecoveryDeadline(v) IN
    /\ op \notin Known(v)
    /\ \/ ~HasPending(v)
       \/ op # v.pending.op
       \/ gen # v.gen
       \/ rec # v.recoveries
    /\ m' = EnterTerminal(d, "unexpected_ack")

\* op is the pending operation under its own identity.
AckPending(now, success, evidence) ==
    LET v == ValidateTime(m, now)
        d == RecoveryDeadline(v) IN
    /\ HasPending(v)
    /\ v.pending.op \notin Known(v)
    /\ \/ /\ d.state = "terminal_safe_stop"
          /\ m' = d
       \/ /\ d.state # "terminal_safe_stop"
          /\ d.lastNow > d.pending.deadline
          /\ m' = RetryOrFail(d, "action_timeout_budget_exhausted")
       \/ /\ d.state # "terminal_safe_stop"
          /\ d.lastNow <= d.pending.deadline
          /\ \/ d.pending.action = "accept_fresh_plan" /\ ~CachedSafetyIsFresh(d)
             \/ ~EvidenceAccepted(d, evidence)
          /\ m' = EnterTerminal(d, "ack_evidence_refused")
       \/ /\ d.state # "terminal_safe_stop"
          /\ d.lastNow <= d.pending.deadline
          /\ d.pending.action = "accept_fresh_plan" => CachedSafetyIsFresh(d)
          /\ EvidenceAccepted(d, evidence)
          /\ LET c == RememberCompletion(d, d.pending.op, success)
             IN  m' = IF success
                      THEN CachedTick(CompleteAction([c EXCEPT !.pending = NoCommand],
                                                     d.pending.action))
                      ELSE RetryOrFail(c, "action_rejected_budget_exhausted")

-----------------------------------------------------------------------------
(* observe                                                                 *)

\* Shapes of the latest arrivals, newest last; the loop window keeps a suffix.
PlanCycle(arrivals, window) ==
    LET first == IF window < Len(arrivals) THEN Len(arrivals) - window + 1 ELSE 1
        history == SubSeq(arrivals, first, Len(arrivals))
        Repeats(period) ==
            LET width == period * PlanCycleRepetitions
                base == Len(history) - width
            IN  \A i \in 1..width :
                  history[base + i].shape = history[base + ((i - 1) % period) + 1].shape
        periods == {p \in 1..(Len(history) \div PlanCycleRepetitions) : Repeats(p)}
    IN  IF periods = {} THEN {}
        ELSE LET period == CHOOSE p \in periods : \A q \in periods : p <= q
             IN  {history[i].shape : i \in (Len(history) - period + 1)..Len(history)}

\* _recent_signatures: the newest arrival of every shape still in the deque.
RecentSignatures(arrivals) ==
    {arrivals[i] : i \in {j \in DOMAIN arrivals :
        \A k \in DOMAIN arrivals : k > j => arrivals[k].shape # arrivals[j].shape}}

\* The plans of S as order lists them.
InOrder(order, S) ==
    LET after[i \in 0..Len(order)] ==
            IF i = 0 THEN <<>>
            ELSE IF order[i] \in S THEN Append(after[i - 1], order[i])
            ELSE after[i - 1]
    IN  after[Len(order)]

\* A plan update.  running is goal_active and motion_requested; order lists the
\* plans in the iteration order of the dict or set the extras come from.
PlanArrival(r, p, running, window, order) ==
    LET a == [r EXCEPT !.active = p,
                       !.arrivals = PushBounded(@, p, TabooCapacity)]
        recent == RecentSignatures(a.arrivals)
        b == IF ~(r.state = "monitoring" /\ running) THEN a
             ELSE IF p.shape \in r.seen THEN StartRecovery(a, InOrder(order, recent))
             ELSE IF Cardinality(r.seen) >= TabooCapacity
             THEN EnterTerminal(a, "plan_history_capacity_exhausted")
             ELSE [a EXCEPT !.seen = @ \cup {p.shape}]
        cycle == PlanCycle(b.arrivals, window)
    IN  IF cycle # {} /\ b.state = "monitoring" /\ running
        THEN StartRecovery(b, InOrder(order, {q \in recent : q.shape \in cycle}))
        ELSE b

\* Progress samples.  Only their number and the newest stamp are kept.
AddSample(r) ==
    LET gap == r.lastNow - r.samples.last > MaxObservationGap
        kept == IF gap THEN 0 ELSE r.samples.count
    IN  [r EXCEPT !.samples = [count |-> IF kept < MinSamples THEN kept + 1 ELSE kept,
                               last |-> r.lastNow]]

\* The rest of observe once the first tick and any plan update are done.
ObserveProgress(r, flags, running, stuck) ==
    IF r.state # "monitoring" THEN TickWith(r, flags, FALSE)
    ELSE IF ~running THEN [r EXCEPT !.samples = NoSamples]
    ELSE LET s == AddSample(r)
         IN  IF stuck /\ s.samples.count >= MinSamples
             THEN TickWith(StartRecovery(s, <<>>), flags, FALSE)
             ELSE s

\* observe raises RuntimeError: only the clock has moved.
ObserveIdle(now) ==
    LET v == ValidateTime(m, now) IN
    /\ v.state = "idle"
    /\ m' = v

\* Foreign identity, malformed field, or malformed plan.
ObserveInvalid(now) ==
    LET v == ValidateTime(m, now) IN
    /\ v.state # "idle"
    /\ m' = EnterTerminal(v, "invalid_observation")

GoalChanged(r, goal) == r.goal # NoGoal /\ r.goal # goal

ObserveForeignGoal(now, goal) ==
    LET v == ValidateTime(m, now) IN
    /\ v.state \notin {"idle", "monitoring", "cooldown"}
    /\ GoalChanged(v, goal)
    /\ m' = EnterTerminal(v, "goal_changed_during_recovery")

AdoptGoal(r, goal) ==
    IF GoalChanged(r, goal)
    THEN [r EXCEPT !.samples = NoSamples, !.arrivals = <<>>, !.seen = {},
                   !.active = NoPlan, !.goal = goal]
    ELSE [r EXCEPT !.goal = goal]

GoalAdmitted(r, goal) ==
    /\ r.state # "idle"
    /\ GoalChanged(r, goal) => r.state \in {"monitoring", "cooldown"}

\* A plan update consults the cycle window and the recent plans only where a
\* recovery may begin with it; elsewhere one choice stands for all.
MayBegin(r, running) == r.state = "monitoring" /\ running

Windows(r, running) ==
    IF MayBegin(r, running) THEN 1..(Len(r.arrivals) + 1) ELSE {1}

Orders(r, p, running) ==
    IF MayBegin(r, running) THEN SetToSeqs(Range(r.arrivals) \cup {p})
    ELSE {<<>>}

\* A well-formed observation: a tick, then unless that stopped the machine the
\* plan update if there is one, then the progress check.
ObserveValid(now, goal, flags) ==
    LET v == ValidateTime(m, now)
        t == TickWith(AdoptGoal(v, goal), flags, FALSE) IN
    /\ GoalAdmitted(v, goal)
    /\ \/ /\ t.state = "terminal_safe_stop"
          /\ m' = t
       \/ /\ t.state # "terminal_safe_stop"
          /\ \E running, stuck \in BOOLEAN :
               \/ m' = ObserveProgress(t, flags, running, stuck)
               \/ \E p \in Plans, window \in Windows(t, running) :
                  \E order \in Orders(t, p, running) :
                    m' = ObserveProgress(PlanArrival(t, p, running, window, order),
                                         flags, running, stuck)

-----------------------------------------------------------------------------
(* submit_replanned_trajectory                                             *)

SubmitStopped(now) ==
    LET d == RecoveryDeadline(ValidateTime(m, now)) IN
    /\ d.state = "terminal_safe_stop"
    /\ m' = d

\* The answer matches the request the machine is waiting on.
Answers(r, op, gen, rec) ==
    /\ gen = r.gen
    /\ rec = r.recoveries
    /\ r.state = "wait_fresh_plan"
    /\ op = r.awaiting
    /\ op # NoOperation
    /\ r.planDeadline # NoTime

SubmitRefused(now, op, gen, rec) ==
    LET d == RecoveryDeadline(ValidateTime(m, now)) IN
    /\ d.state # "terminal_safe_stop"
    /\ ~Answers(d, op, gen, rec)
    /\ m' = EnterTerminal(d, "replanned_trajectory_refused")

SubmitLate(now, op, gen, rec) ==
    LET d == RecoveryDeadline(ValidateTime(m, now))
        q == [d EXCEPT !.awaiting = NoOperation, !.planDeadline = NoTime] IN
    /\ Answers(d, op, gen, rec)
    /\ d.lastNow > d.planDeadline
    /\ m' = CachedTick(
              IF d.replans < MaxReplanRequests THEN Transition(q, "request_replan")
              ELSE StartRetreatOrStop(q, "late_trajectory_budget_exhausted"))

SubmitInvalid(now, op, gen, rec) ==
    LET d == RecoveryDeadline(ValidateTime(m, now)) IN
    /\ Answers(d, op, gen, rec)
    /\ d.lastNow <= d.planDeadline
    /\ m' = EnterTerminal(d, "invalid_replanned_trajectory")

IsOld(r, p) == IsTaboo(r, p) \/ p.shape \in r.seen

SubmitOld(now, op, gen, rec, p) ==
    LET d == RecoveryDeadline(ValidateTime(m, now))
        q == [d EXCEPT !.taboo = AddTaboo(@, p), !.rejections = @ + 1] IN
    /\ Answers(d, op, gen, rec)
    /\ d.lastNow <= d.planDeadline
    /\ IsOld(d, p)
    /\ m' = CachedTick(
              IF \/ q.rejections >= MaxPlanRejections
                 \/ q.replans >= MaxReplanRequests
              THEN StartRetreatOrStop(q, "old_trajectory_budget_exhausted")
              ELSE Transition(q, "request_replan"))

\* Variant: only the taboo is consulted, not the plans seen for this goal.
SubmitNotTaboo(now, op, gen, rec, p) ==
    LET d == RecoveryDeadline(ValidateTime(m, now))
        q == [d EXCEPT !.accepted = p, !.planDeadline = NoTime,
                       !.awaiting = NoOperation] IN
    /\ Answers(d, op, gen, rec)
    /\ d.lastNow <= d.planDeadline
    /\ ~IsTaboo(d, p)
    /\ m' = IF Cardinality(d.seen) >= TabooCapacity
            THEN EnterTerminal(d, "plan_history_capacity_exhausted")
            ELSE CachedTick(Transition(q, "accept_fresh_plan"))

SubmitNovel(now, op, gen, rec, p) ==
    LET d == RecoveryDeadline(ValidateTime(m, now))
        q == [d EXCEPT !.accepted = p, !.planDeadline = NoTime,
                       !.awaiting = NoOperation] IN
    /\ Answers(d, op, gen, rec)
    /\ d.lastNow <= d.planDeadline
    /\ ~IsOld(d, p)
    /\ m' = IF Cardinality(d.seen) >= TabooCapacity
            THEN EnterTerminal(d, "plan_history_capacity_exhausted")
            ELSE CachedTick(Transition(q, "accept_fresh_plan"))

-----------------------------------------------------------------------------
Generations == 0..MaxGeneration

Recoveries == 0..MaxRecoveries

Episode ==
    \E now \in CallTimes, generation \in Generations :
        BeginEpisode(generation, now) \/ BeginEpisodeRefused(generation, now)

Clocked ==
    \E now \in CallTimes :
        \/ TickInvalid(now)
        \/ \E flags \in SafetyFlags : Tick(now, flags)

Acknowledge ==
    \E now \in CallTimes :
        \/ AckMalformed(now)
        \/ \E op \in AckOps :
             \/ AckStaleDropped(now, op)
             \/ \E success \in BOOLEAN : AckDuplicate(now, op, success)
             \/ \E gen \in Generations, rec \in Recoveries :
                  AckUnknown(now, op, gen, rec)
        \/ \E success \in BOOLEAN, evidence \in Evidence :
             AckPending(now, success, evidence)

Observe ==
    \E now \in CallTimes :
        \/ ObserveIdle(now)
        \/ ObserveInvalid(now)
        \/ \E goal \in Goals :
             \/ ObserveForeignGoal(now, goal)
             \/ \E flags \in SafetyFlags : ObserveValid(now, goal, flags)

Submit ==
    \E now \in CallTimes :
        \/ SubmitStopped(now)
        \/ \E op \in {m.awaiting, NoOperation}, gen \in Generations,
              rec \in Recoveries :
             \/ SubmitRefused(now, op, gen, rec)
             \/ SubmitLate(now, op, gen, rec)
             \/ SubmitInvalid(now, op, gen, rec)
             \/ \E p \in Plans : \/ SubmitOld(now, op, gen, rec, p)
                                 \/ SubmitNovel(now, op, gen, rec, p)

Next == Episode \/ Clocked \/ Acknowledge \/ Observe \/ Submit

Spec == Init /\ [][Next]_m

-----------------------------------------------------------------------------
(* Properties.                                                             *)

Operations == [seq : Nat, gen : Int, rec : Nat,
               act : ActionStates \cup {"none", "latch_safe_stop"}]

Commands == [action : ActionStates \cup {"none", "latch_safe_stop"},
             op : Operations, issued : Nat, deadline : Nat,
             plan : Plans \cup {NoPlan}]

MachineType(r) ==
    /\ DOMAIN r = DOMAIN InitialMachine
    /\ r.state \in States
    /\ r.gen \in Int
    /\ r.goal \in Goals \cup {NoGoal}
    /\ r.recoveries \in Nat
    /\ r.lastNow \in Nat
    /\ r.safety \in SafetyFlags
    /\ r.observedAt \in Nat \cup {NoTime}
    /\ r.samples \in [count : Nat, last : Nat]
    /\ r.arrivals \in Seq(Plans)
    /\ r.seen \subseteq {p.shape : p \in Plans}
    /\ r.active \in Plans \cup {NoPlan}
    /\ r.accepted \in Plans \cup {NoPlan}
    /\ r.blamed \in Plans \cup {NoPlan}
    /\ r.pending \in Commands /\ r.pending.action # "latch_safe_stop"
    /\ r.outbox \in Seq(Commands)
    /\ r.completed \in Seq([op : Operations, success : BOOLEAN])
    /\ r.retired \in Seq(Operations)
    /\ r.attempt \in Nat
    /\ r.notBefore \in Nat
    /\ r.startedAt \in Nat \cup {NoTime}
    /\ r.planDeadline \in Nat \cup {NoTime}
    /\ r.awaiting \in Operations
    /\ r.cooldownUntil \in Nat \cup {NoTime}
    /\ r.fallback \in BOOLEAN
    /\ r.replans \in Nat
    /\ r.rejections \in Nat
    /\ r.commands \in Nat
    /\ r.opSeq \in Nat

\* Every field of the machine keeps its type.
TypeOK == MachineType(m)

\* The taboo queue holds no token twice and it, the arrivals and both operation
\* histories stay within the capacities that __init__ and _add_taboo give them.
MemoryIsBounded ==
    /\ Cardinality(Range(m.taboo)) = Len(m.taboo)
    /\ Len(m.taboo) <= TabooCapacity
    /\ Len(m.arrivals) <= TabooCapacity
    /\ Cardinality(m.seen) <= TabooCapacity
    /\ Len(m.retired) <= HistoryCapacity
    /\ Len(m.completed) <= HistoryCapacity
    /\ m.commands <= MaxCommands
    /\ m.replans <= MaxReplanRequests

GatedSafe(r) ==
    /\ r.pending.action \in SafetyGatedActions =>
         r.safety.clear /\ r.safety.estop = "ready"
    /\ r.pending.action = "safe_retreat" => r.safety.rear

\* While a scan, a retreat or a plan acceptance is outstanding, the last safety
\* flags the machine was given still permit it: whichever handler took the
\* permission away also withdrew the command (_SAFETY_GATED_ACTIONS in tick).
GatedCommandIsSafe == GatedSafe(m)

BarrierNovel(r) ==
    /\ r.state = "accept_fresh_plan" =>
         /\ r.accepted # NoPlan
         /\ ~IsOld(r, r.accepted)
         /\ ~(Cardinality(r.seen) >= TabooCapacity)
    /\ r.pending.action = "accept_fresh_plan" => r.pending.plan = r.accepted

\* From the submission that found a plan novel until the acknowledgement that
\* makes it active, the plan stays novel and the command names that very plan:
\* the checks repeated in _complete_action can never fail.
BarrierPlanIsNovel == BarrierNovel(m)

\* The recovery does not accept the plan it blames: they share no fingerprint.
AcceptsAnother(r) ==
    r.state = "accept_fresh_plan" /\ r.blamed # NoPlan =>
        /\ r.accepted.shape # r.blamed.shape
        /\ r.accepted.abs # r.blamed.abs

\* The plan the robot was following when a recovery began is not the plan that
\* recovery accepts, whatever plans are offered in between, unless the full taboo
\* queue has dropped a token of it: _add_taboo drops the oldest token, and does not
\* renew a token that is already in it.
BlamedPlanNotAccepted ==
    \/ AcceptsAnother(m)
    \/ /\ Len(m.taboo) = TabooCapacity
       /\ \E token \in Range(PlanTokens(m.blamed)) : token \notin Range(m.taboo)

OutstandingCurrent(r) ==
    /\ HasPending(r) =>
         /\ r.state \in ActionStates
         /\ r.pending.action = ActionByState(r.state)
         /\ r.pending.op.gen = r.gen
         /\ r.pending.op.rec = r.recoveries
         /\ r.pending.op \notin Known(r)
    /\ r.state = "wait_fresh_plan" =>
         /\ r.awaiting.act = "request_replan"
         /\ r.awaiting.gen = r.gen
         /\ r.awaiting.rec = r.recoveries

\* An outstanding command belongs to the state the machine is in and to the
\* current generation and recovery, its id is in no history, and a replan
\* request that is awaited was issued by the current recovery.
OutstandingIsCurrent == OutstandingCurrent(m)

\* Operations of the running recovery, whatever became of them.
IssuedInRecovery(action) ==
    {op \in Known(m) \cup {m.pending.op} :
        op.gen = m.gen /\ op.rec = m.recoveries /\ op.act = action}

\* Physical motion is bounded: a recovery retreats at most once and scans at
\* most twice (once more after the retreat), counting motions that failed.
MotionBudget ==
    /\ Cardinality(IssuedInRecovery("safe_retreat")) <= 1
    /\ Cardinality(IssuedInRecovery("scan")) <=
         1 + Cardinality(IssuedInRecovery("safe_retreat"))

WayForward(r) ==
    /\ r.state \in ActionStates => r.notBefore <= r.lastNow + RetryBackoff
    /\ HasPending(r) => r.pending.deadline <= r.lastNow + ActionTimeout
    /\ r.state = "wait_fresh_plan" => r.planDeadline # NoTime
    /\ r.state = "cooldown" => r.cooldownUntil # NoTime
    /\ r.state \in RecoveryStates => r.startedAt # NoTime
    /\ r.state \in {"monitoring", "cooldown"} => r.startedAt = NoTime

\* Every recovery state has a way forward armed: an issue that is due within the
\* backoff, a pending deadline, a plan deadline, a cooldown end; and the recovery
\* clock runs in every recovery state and in no other that goes on.
NeverStranded == WayForward(m)

\* A handler returns at most one command, and after the recovery deadline that
\* can only be the latched stop.
OneTimelyCommand ==
    /\ Len(m.outbox) <= 1
    /\ \A c \in Range(m.outbox) : c.action # "latch_safe_stop" =>
         /\ m.state \in ActionStates
         /\ m.lastNow - m.startedAt <= MaxRecoveryDuration

\* A terminal stop is latched until begin_episode: nothing else leaves it, and
\* no handler returns a command while it holds.
TerminalIsLatched ==
    [][m.state = "terminal_safe_stop" /\ m'.gen = m.gen =>
         m'.state = "terminal_safe_stop" /\ m'.outbox = <<>>]_m

\* A recovery ends well only by the acknowledgement of the accept command, under
\* fresh safety, and activates the plan that command carried, which the robot
\* has not been given since the goal last changed.
AcceptOnlyThroughBarrier ==
    [][m.state \in RecoveryStates /\ m'.state \in {"cooldown", "monitoring"}
         /\ m'.gen = m.gen =>
         /\ m.pending.action = "accept_fresh_plan"
         /\ m'.active = m.pending.plan
         /\ m.pending.plan.shape \notin m.seen
         /\ m'.lastNow - m'.observedAt <= SafetyFreshness]_m
=============================================================================
