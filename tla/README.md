# E-MARS: specifications and proofs

E-MARS drives a simulated Go2 robot with a vision-language navigation model.
An evaluator sends camera frames over a socket to a client node; the client asks
a model service for the next action, a Nav2 adapter turns the action into a goal,
and several guards stop the robot, recover it when it is stuck, and keep the
model from acting on old sensors.  These modules describe the guards and the
protocols between the nodes, because that is where interleavings, timeouts and
restarts decide whether the robot stops and whether a step is executed once.

## Inventory

| Part | State | Operations | Talks to | What is hard | What makes it correct |
|---|---|---|---|---|---|
| Recovery core `t4_completion/recovery/state_machine.py` | one state machine: phase, pending command, budgets, plan memory, histories | `begin_episode`, `tick`, `acknowledge`, `observe`, `submit_replanned_trajectory` | returns commands; the caller answers with acknowledgements and plans | retries against late answers, fall-through handlers, stale safety flags, bounded histories | motion only under fresh safety, bounded motion, no recovery that hangs, only novel plans accepted, a stop that stays |
| Motion/observation gate `motion_observation_gate.py` | pending motion, stop barrier | `arm`, `observe`, `fail_active_motion`, `require_stop_barrier`, `acknowledge_stop`, `inherit_confirmed_stop_barrier`, `reset` | called by the T5 client | spans evaluator requests | a motion ends in a confirmed stop; then new sensors before new inference |
| T5 client `internvla_t4_sensors/client_node.py` | sensor caches, epoch, fault flag, identity | odometry callback, stop handshake, `initialize`, `reset`, `step` | gate, model service, adapter | two threads and one lock, a handshake that waits under the lock, resets during callbacks, failures after a goal was sent | every goal is watched, no gate call is refused, resets carry only confirmed stops |
| Base client and IPC server `internvla_ros2/client_node.py` | identity, sequence, retries | `initialize`, `reset`, `step_arrays`, `_resolve_nav2`, `serve` | model service, adapter, evaluator | lost answers, retries, abandoned requests | at most one commit per sequence |
| Model service `model_node.py`, `protocol.py`, `observation_guard.py` | generation barrier, idempotency cache, observation tuples | initialize, reset, step action, cancel | base client | cancel, deadline or newer observation while the model mutates | a stale or aborted step leaves no usable answer |
| Nav2 adapter `active_node.py` | active goal, frozen target, motion forwarding | `_resolve`, `_on_stop_request`, `_on_safe_stop`, `_goal_finished` | Nav2, both clients | late requests, cancellation races | stop requests are answered under their own token |
| Frontier transaction `lane_b_frontier_transaction.py` | one prepared transaction | prepare, consume | Step3 client, adapter | late or repeated consumption | one-shot, fresh, identity bound; a late commit is inert |
| Recovery ROS nodes `internvla_t4_recovery/` | owner of a recovery, its thread, the adapter's latch, the client's pending replan | detect, recover, four typed calls, hold, release | client, model, Nav2 | a thread that outlives its generation, typed calls served late, deadlines on both sides | bounded spins, no recovery without a thread, client and adapter in step, no blamed plan under a latch |
| Step3 client and coordinator `lane_b_step3_client_node.py`, `lane_b_step3_live.py` | attempted requests, the step's simulation time | prepare, decide, commit, release, fall back, safe stop | adapter, planner | abandoned calls, a clock read by two nodes, a fallback that fails | no command drives twice, a frontier only at its instant, a failed step stands |
| Step3 arrival gate | holds, escapes, budgets | hold, escape | T5 client | late advice | bounded holds |
| Go2 controller | watchdog, latch | command, tick, stop | robot | late commands | latched stop |
| Sensor bridge and supervisors | readiness, child processes | start, watch, restart | ROS | restarts | no stale readiness |
| Step scheduler `omninav_step_scheduler` | outstanding request, mux | request, response, mux | planner, Nav2 | stale responses | only the newest answer acts |
| Slow planner, graph navigation, Cosmos, benchmark, localization/map/ablation, sensor runtime, scripts | mostly data and processes | - | - | - | not modelled, see `PROJECT.json` |

## Modules

* `RecoveryMachine` is the recovery core.  Its variable `m` is the object; each
  internal method is an operator from a machine to a machine under the method's
  name (`_enter_terminal` is `EnterTerminal`), and each handler is a set of actions,
  one per early return.  `tick` is the composition of its paragraphs (`SafetyGate`,
  `RecoveryDeadline`, `PendingExpiry`, `PlanWaitExpiry`, `CooldownExpiry`,
  `IssueWhenDue`); since a terminal machine is left alone by all of them, that
  composition is also tick's early return.
* `RecoveryLoop` puts the machine in a loop with an adapter and a planner that
  report honestly over channels that delay, reorder, duplicate and lose.
* `MotionObservationGate` holds the gate's methods as operators from a gate to a
  gate, with an `...Allowed` predicate where the method raises.
* `MotionGateClient` composes the gate with the client's IPC thread, its odometry
  callback (read, cache, decide: three steps that resets interleave with), the
  stop handshake, the Nav2 adapter and the generation of the model service.
* `ModelService` is the model server: the barrier, the idempotency cache, the
  observation epoch, the inference lock, and `_execute_step` cut where it takes
  or leaves the lock.  A goal is refused, answered from the cache, committed,
  discarded with its generation, or raises.
* `ModelSession` composes it with the base client (calls that time out and stay
  alive in the server, results that are lost, late or replayed, the bounded
  repetition of a reset, the summary file) and with the maintenance script that
  captures, restarts and verifies the model process.
* `StepLedger` is what the two promise together: one log per generation, a sequence
  number executed once in it, every OK answer the logged one.  `ModelSession`
  implements it (`RefinesLedger`: `generation` is the barrier's, `answers` are the OK
  results in the action server, `log` is a history variable of the service).
* `RecoveryLane` puts the recovery ROS node (ownership, its thread, the holds), the
  T5 client (the pending replan), the model (clear and replan) and the adapter's
  recovery latch and spins together; each typed call is a request that may be
  served late, once its caller has given up.
* `FrontierLane` composes the Step3 coordinator and client (attempted requests,
  prepare, decide, commit, release, fallback, safe stop) with the adapter and its
  one-shot store, both reading one simulation clock.
* `MCRecoveryMachine`, `MCRecoveryLoop`, `MCMotionGateClient`, `MCModelSession`,
  `MCRecoveryLane` and `MCFrontierLane` give TLC its plans, views and symmetries; the
  `.cfg` files give the bounds.
* `RecoveryMachineProofs`, `RecoveryOperationsProofs`, `RecoveryMemoryProofs`, `RecoveryLoopProofs`,
  `MotionGateClientProofs`, `ModelSessionProofs`, `RecoveryLaneProofs` and `FrontierLaneProofs` hold the
  theorems; the first four build on one another.

Operators commented "Variant" or "Mutant" are plausible slips of the definition that
follows; each one is used to see that a property notices it.

### Abstractions

An identity is its generation, since generations only grow.  A trajectory is its
signature (two tokens); a pose is whether the required progress is reached; times
are small integers.  Reports, counters, audits and the post-recovery anchor are
left out; that an audit line cannot be written is kept where the code reacts to it.
The loop window of `_plan_cycle` and the order of the dict it iterates are arbitrary.
Assumed of code outside the repository: a resolution that sends a goal comes from a
FORWARD, LEFT or RIGHT model action; Nav2 creates no goal without telling the adapter.

## Runs

| Run | Question | Result and size |
|---|---|---|
| `RecoveryProtocol` | does any order of handler calls break the recovery protocol? | holds, about 79,000 states |
| `RecoveryPlans` | can an old plan slip through while the plan memory overflows? | only one that the full taboo queue has dropped; about 34,000 states |
| `RecoveryLoop` | are honest but late answers taken for violations, and is motion exclusive, across episodes and overflowing histories? | holds for answers no older than the histories, about 291,000 states |
| `RecoveryEnds` | does every recovery end if only a timer is fair? | holds, about 20,000 states |
| `Gate` | is each goal watched and each inference preceded by settled sensors, across resets, repeated initializations and generation changes? | holds, about 4.9 million states |
| `GateMoving` | is inference ever admitted while a goal moves the robot? | violated: an abandoned resolution is executed late |
| `GateIdentity` | do only initialize and reset change the identity? | violated: a step error adopts a generation |
| `ModelSession` | is a step executed once and answered with its own result whatever is lost, late, repeated, canceled or restarted? | holds, about 3 million states |
| `RestartContinuity` | does a verified restart leave client and service where they were? | violated: nothing waits for a step under way |
| `RecoveryLane` | do client, supervisor and adapter agree when typed calls are late and goals or generations end under a recovery? | holds, about 2.5 million states |
| `RecoveryLate` | is a command executed only while its caller waits for it? | violated: a late arm releases a latch and a goal after the deadline |
| `FrontierLane` | can a command drive twice, or a frontier be used past its instant, when calls are abandoned? | holds, about 1.7 million states |

**Bounds.**  The recovery runs use a clock of one to three ticks with timeouts of one or
two, so every timer can fire, coincide with a message and fire again, and budgets of
one or two, so each is exhausted.  `RecoveryPlans` has three plans of two shapes, five tokens in
all, for a taboo queue of three: it overflows, and a blamed plan is dropped from it within one
recovery.  Its histories and those of `RecoveryLoop` hold three operations and overflow too.  The
other recovery runs have one plan, which is new once and old ever after, and histories of twelve
operations, more than they issue (the real capacity is 256); `RecoveryProtocol` has two goals.
`RecoveryLoop` crosses from one episode to the next; the others stay in one and try
to begin it again.  The gate runs allow two or three stop tokens (one stop can time out, its
late acknowledgement meet the next, and a third cross the identity change that follows), two cached
odometry samples, a clock of two to four instants, and one change of generation.  The views drop
only fields that no later step reads; the MC modules say why.  `ModelSession` has two goals (so an abandoned one overlaps the current one), two
observations (so an identity is reused with another observation), a cache of one entry
(so the first is evicted by the second), two generations, two sequence numbers, and one fault: a
restart or a request that is given up on before it is served (the theorems about it hold for any
number of all of these, but one restart).  `RecoveryLane` has three commands and one
after its reset, two launches, a hold that is given up after two looks (three in the
profile), and one abandoned call; a stop may arrive one command late (two in `RecoveryLate`).
`FrontierLane` has one reset, two commands and then one, frontiers valid for one tick and a
clock of two, and any call may be abandoned.  Clients may stop calling
and the clocks are bounded, so these runs do not check deadlock.

`ModelSession` has one restart for a reason beyond size (`MaxRestarts`; `MaxFaults` is only a
size).  With two, the untimed model breaks `RefinesLedger`: the client holds the result of
sequence 0 and is in the Nav2 resolution while a restart from a capture of `-1` is verified; it
records 0; the next capture cannot tell -1 from 0, since the number is unsigned on the wire, and
the second restart restores a 0 nothing has executed.  A resolution is given up after four seconds
and a restart takes longer than that, so the code does not reach it; the model has no such clock.

**Scaled constants.**  `config.py` demands a taboo capacity of 32 to 256, at least four
samples and two to four repetitions of a cycle.  TLC uses smaller values; the
proofs assume only what `ConfigAssumption` states, which every valid profile meets, and
`BlamedPlanNeverAccepted` the condition it names.

**Fairness.**  `RecoveryEnds` assumes weak fairness of one action: a timer that calls
`tick` with an advancing clock, which the module's contract asks of its owner.
Nothing is assumed of the adapter, the planner or the channels.  The clock is
bounded, so the property speaks of recoveries that begin early enough in a run.

## Findings

1. *Inference while moving* (`GateMoving`).  The client gives up on a Nav2 resolution
   after four seconds of wall time; the failure leaves `step_arrays` before the gate
   arms, the next step is admitted, and the adapter may execute the abandoned command
   afterwards.
2. *Identity without reset* (`GateIdentity`).  A step error of another generation changes
   the client's generation; the gate keeps the old one, and the reset that follows
   meets an exception that the IPC server does not catch.
3. *A restart that is not continuous* (`RestartContinuity`).  The session is captured while
   a step is under way.  The step is then discarded with its generation, the client adopts
   the next generation without writing its file, the restarted service resumes the
   captured one, and file and service agree: the receipt confirms a continuity that
   the next step refutes.  The answer takes the client back to the captured generation, where it
   numbers from zero; if the captured number is above 1, neither a step nor a reset is accepted any
   more, because the one bounded repetition of a reset makes up for one sequence number.
4. *A late arm* (`RecoveryLate`).  The adapter serves an arm or a resolution whose caller's
   deadline has passed; the latch is released, or the command executed, for a client that has
   recorded a failure.  The client waits 30 s for a replan by default, a recovery may take
   60 s (65 s in the T5 lane's configuration).

## Proofs

`RecoveryMachineProofs` proves, for every configuration that meets `ConfigAssumption` and
`PlansAssumption`, every clock and every caller:

| Theorem | Property | Says |
|---|---|---|
| `TypeCorrect` | `TypeOK` | every field keeps its type |
| `GatedCommandsStaySafe` | `GatedCommandIsSafe` | what is outstanding is permitted by the last safety flags |
| `BarrierPlanStaysNovel` | `BarrierPlanIsNovel` | the plan at the execution barrier stays novel and is the one the command names |
| `AlwaysAWayForward` | `NeverStranded` | every recovery state has a due time or a deadline armed |
| `StopIsLatched` | `TerminalIsLatched` | no handler but a new episode leaves the stop or speaks in it |
| `RecoveryEndsAtTheBarrier` | `AcceptOnlyThroughBarrier` | a recovery ends well only through the acknowledged acceptance |

`ConfigAssumption` is weaker than what `config.py` enforces; `PlansAssumption` says that the
`None` of an absent trajectory is not a trajectory.

*Types.*  A machine is one record, so `TypeOK` is inductive.  There is one lemma for each
internal method, and a handler is their composition; `TypeStep` goes through the handlers.

*Invariant.*  `GatedCommandIsSafe` is not inductive.  A command is withdrawn by
`_enter_terminal` unless the machine is already stopped, so one has to know that a
stopped machine has nothing outstanding; a retry after a timeout stays in the state, so
one has to know that the state is the command's.  That is `PendingMatches`.  The novelty of
the plan at the barrier needs it too (a new goal forgets the plans seen, but only where
nothing waits at the barrier), and so do the armed deadlines (a retry must not start
outside a recovery).  `Settled` is the conjunction of these with the types.  Inside `tick`,
between storing new flags and the paragraph that looks at them, the gate on the
outstanding command does not hold: `SetSafetySound` shows the rest (`Sound`) and
`SafetyGateSound` restores it.  `SettledAlways` collects one lemma per handler.

*Action properties.*  `StopIsLatched` follows from `Settled`: in a stopped machine with nothing
outstanding each paragraph of `tick` is the identity (`TickLatched`).  For
`RecoveryEndsAtTheBarrier`, `Recovering` (in a recovery, or stopped) is kept by every
operator except the acceptance in `_complete_action`, and `AckPendingAccepts` shows under
what conditions that one is reached.

`RecoveryOperationsProofs` adds, from the same assumptions:

| Theorem | Property | Says |
|---|---|---|
| `OutstandingStaysCurrent` | `OutstandingIsCurrent` | what is outstanding is of the current recovery and in no history |
| `MotionIsBounded` | `MotionBudget` | a recovery retreats once and scans twice at most |
| `CommandsAreTimely` | `OneTimelyCommand` | a call returns one command at most, and that is in time |

*Invariant.*  `AccountedAlways` is the inductive one.  `MotionBudget` speaks of the motions that the
machine remembers, and its histories are bounded; the proof needs what the state says of those it
has forgotten.  Histories keep the order of completions and lose the oldest first (`Pushed`), so that
between any two scans that are remembered there is a retreat (`Ordered`), and the state tells which
motions cannot have been completed yet (`Placed`).  A motion that times out or is rejected stops the
machine, so none is retired in a recovery that goes on (`Clean`); in the stop only the count itself is
left (`Budgeted`).  An operation number is new because those in the histories are behind the counter
(`Numbered`, `PendingIsFresh`).  For `CommandsAreTimely`, no paragraph of `tick` speaks after one that
spoke: a `Hushed` machine has returned nothing or the stop, in an `Uttered` one the returned command has
just been issued, and one or the other is so at the end (`Said`).  `observe` runs `tick` twice, and the second finds nothing due at
the instant the first has already seen.

`RecoveryMemoryProofs` adds:

| Theorem | Property | Says |
|---|---|---|
| `MemoryStaysBounded` | `MemoryIsBounded` | deques and counters stay within their capacities |
| `BlamedPlanStaysTaboo` | `BlamedPlanNotAccepted` | a blamed plan is accepted only after the full deque has dropped a token of it |
| `BlamedPlanNeverAccepted` | `AcceptsAnother` | a blamed plan is never accepted if the deque has room for both tokens of every plan (`Ample`) |

*Invariant.*  `Room` says that the deque holds no token twice and that a blamed plan's tokens are in it
(as long as it is not full); what is accepted is novel (`BarrierPlanIsNovel`), so it has neither of
them.  `_start_recovery` tabooes
plans in loops, which the model has as recursive functions; their values are reached step by step from
the first (`Walk`), by an induction over the numbers that is stated with a set (`Climb`).
Without the condition the last statement is false: see below.

`RecoveryLoopProofs` proves of the closed loop, for any number of operations under way:

| Theorem | Property | Says |
|---|---|---|
| `LoopImplementsMachine` | `Spec` of `RecoveryMachine` | the loop's steps are steps of the machine called by anyone |
| `MotionsNeverOverlap` | `OneMotionInFlight` | the adapter never holds two physical motions |
| `HonestAcksStayRecognised` | `HonestAcksAreRecognised` | it holds for histories of any capacity, however often they overflow |

*Invariant.*  One relation between the machine before and after a method carries `LoopInv` through
all of them: `Follows` (new operations have new numbers, a machine that stops says so, what was
outstanding is still outstanding or remembered) and `Steady` (a motion is not forgotten without a
stop); it is transitive (`FollowsTwice`), so a handler is treated method by method.  A motion
the adapter holds is the outstanding one (`Held`): if it is not, the machine has stopped, and the stop
took it away.  Every answer
under way is to an operation that was issued (`Reported`) and every command is executed once (`Once`).
`HonestAcksAreRecognised` speaks of operations after which fewer were issued than a history keeps: an
older one may have been evicted, is then unknown to `_apply_ack`, and the honest answer to it stops
the machine.  Both histories are in the order of issue (`Chronological`, `Spaced`), so what an append
evicts is as many numbers older as the history has entries (`PushedSpaced`).

`ModelSessionProofs` proves, for any number of goals, observations, episodes, generations, sequence
numbers and faults and any size of the cache:

| Theorem | Property | Says |
|---|---|---|
| `TypeCorrect` | `TypeOK` | server and client keep their types; a request identity is complete |
| `AdmissionIsHeld` | `AdmissionHolds` | what is in the model call holds the lock and stays the request the barrier expects next |
| `StepsLeaveTheAgent` | `DiscardedStepsLeaveTheAgent` | no canceled, late or failed step stays in the agent |
| `AnswersMatch` | `AnswersAreForTheirObservation` | an OK answer is for the observation and identity asked about |
| `KeepsTheLedger` | `RefinesLedger` | with at most one restart, client, server and maintenance implement the step ledger |
| `DriftIsBounded` | `DriftIsReconcilable` | with at most one restart, a client that has not gone back is at most one step behind |
| `RestartStaysBehind` | `RestartNeverRunsAhead` | with at most one restart, a verified one is never ahead of the client |

*Invariant.*  `Safe` is the types, the goal the client waits for (`GoalIsAwaited`: it still asks for
the step the client is at), one cache entry for an identity, and the three invariants above; it is
inductive for any number of restarts.  One lemma for each handler of the service and of the
client shows that it keeps `Safe`; `SafeStep` collects them.

*Refinement.*  `Kept` adds `Logged` (the current log is as long as the barrier says, later ones
are empty, every cache entry is in the log) and `Learned` (before the restart, what client, files,
responses and results tell is within the logs).  `Learned` is what makes a restart safe: the captured
session is one the server has executed.  After the restart it may tell too much, hence one
restart.  Each step maps to the ledger: `Commit` executes, an answer from the cache replays,
submitting over a result or taking it forgets, a reset, a discarded step or an aborted generation
renews, the restart recovers, and all else stutters (`NextMaps`).  TLC's view of
`ModelSession` merges states that differ in what nothing reads; the proof knows no view.

*Drift.*  `Tracked` says why the client stays near.  Above the client's generation nothing but a
first step has been executed or will be (`Counted`): a client that adopts a later generation starts
at zero and is at most one behind there.  In its own generation no live goal asks for more than the
client's next step (`NotBeyond`).  A response that is under way is the answer to its one live
call (`CallsAreLive`), so a reset leads to the next generation.  For the restart, `FileIsBehind` keeps
file and capture at or behind the client.  `TrackedStep` needs `Kept`, and with it the one restart.

`FrontierLaneProofs` proves, from `FrontierAssumption` alone:

| Theorem | Property | Says |
|---|---|---|
| `TypeCorrect` | `TypeOK` | client, requests and adapter keep their types |
| `StoreStaysAhead` | `StoreIsAhead` | a prepared transaction is for the command accepted next |
| `DrivesOnce` | `OneDrivePerCommand` | no command sets the robot in motion twice |
| `AcceptedGoals` | `MovesOnlyAcceptedGoals` | motion is enabled only over accepted goals |
| `LateCommits` | `LateCommitIsInert` | a late commit leaves goal and motion alone |
| `FailedStepsAreStopped` | `FailedStepIsStopped` | after a failed step the robot stands |
| `FrontiersAreForTheirInstant` | `FrontierIsForThisInstant` | a frontier is driven only at the instant its step began |

`OneDrivePerCommand` is not inductive: a second drive is impossible because what has driven is
behind the adapter's next command (`DrivenOnce`), a request in flight is for a command that was
issued (`CurrentIsACommand`), and a client that has stopped for good sends nothing (`BlockedIsStill`).

`FailedStepIsStopped` needs that nothing is left under way for a step that is over unless a call
was abandoned (`NothingLeft`), and that a failed step has asked for its stop (`FailedIsOver`).
`FrontierIsForThisInstant` is about the sending of a commit, not its serving: the transaction that a
commit names was stored no earlier than the client began the step, and no later preparation can
replace it, because each command is prepared once (`PreparedOnce`, `StoreInTime`).

`MotionGateClientProofs` proves, from `MotionTimeoutAssumption` and `ClientAssumption`, for any number
of stops, samples and generations and any clock:

| Theorem | Property | Says |
|---|---|---|
| `TypeCorrect` | `TypeOK` | client, gate, callback, adapter and messages keep their types |
| `SensorsAreSettled` | `InferenceSeesSettledSensors` | inference sees sensors newer than the last confirmed stop |
| `GoalsAreSupervised` | `GoalIsSupervised` | a goal that reached the client is watched until its cancellation is confirmed |
| `GateIsUsedRight` | `NoGateMisuse` | no path calls a gate method that rejects the call |
| `MotionsEndInConfirmedStops` | `MotionEndsInConfirmedStop` | a motion ends in a stop barrier, and a barrier falls only when acknowledged |

*Invariant.*  Every property follows from `Inv`.  `Exclusive` (the gate has a motion or a barrier,
never both) and `LockProtects` (what the holder of the operation lock relies on until it releases it)
say which gate methods may be called.  `ConfirmedIsCancelled` links the waiter's token to the adapter: a
positive acknowledgement of the current token means that the goal is gone; tokens of older stops are
told apart because none is above the counter (`TokensKnown`).  `MotionIsOurs` is what a step error of
another generation could have broken: it arrives only where no motion is armed.  `CallbackIsCached` is what
the epoch check buys the three-step callback, and `Settled` carries the cut-offs of the last
confirmed stop through barriers and resets.

`RecoveryLaneProofs` proves, from `LaneAssumption` and `NoneAssumption`, for any number of
generations, commands, recoveries, faults and plans:

| Theorem | Property | Says |
|---|---|---|
| `TypeCorrect` | `TypeOK` | the three nodes and the messages between them keep their types |
| `SpinsAreBudgeted` | `SpinBudget` | a generation does not spin more often than its budget |
| `ActiveIsOwned` | `ActiveHasAThread` | an active supervisor has a thread that will clear the flag |
| `LatchGuardsGoals` | `NoGoalUnderLatch` | under a latch only a command past it, or the one that releases it, gives Nav2 a goal |
| `LaneInStep` | `InStep` | without a fault, adapter and client agree between steps |
| `LatchHasItsReplan` | `OneTransaction` | without a fault, an armed latch has its own replan pending at the client |
| `BlamedPlanIsNotDriven` | `BlamedPlanStaysOut` | without a fault, what a timely replan excludes is not driven |

*Invariant.*  The first three need `Supervised`: a thread that still owns the supervisor carries its
operation, and the recoveries charged are the spins that happened and those to come
(`ThreadsOwned`, `Spun`); a thread whose generation is gone may still be anywhere in its calls, but every
effect of it checks the owner.  `LaneInStep` has an invariant of its own, `Positions`: without a fault
the adapter is at the client's last command, or one behind with exactly that command on its way.

The last two rest on `Calm`, of which TLC checked every part on a small instance before the proof.  It
has two halves.  `Ordered` is about names: whoever bears the name of a recovery (a thread or a request
under way) bears one that the supervisor has given, alone in its generation; a request is the one its thread waits
for, or its thread is gone with its generation (`Requested`); and operations are served in their
order (`InOrder`).  `Transaction` is about adapter and client.  Until the replan is served the latch
is that of the recovery that canceled, at the command it canceled (`Reached`, `Canceled`); so a
replan becomes pending only under its own latch, between two commands.  From then on latch and replan are held
together from both sides: a served latch has its replan pending (`LatchToPending`), and a timely
replan has its latch and no goal, or the answer that ends both is here (`PendingToLatch`, `AnsweredOver`).  What
could cut in between is excluded by the other parts: a command past the latch check
(`PastCalls`), a stale sample (`Sampled`), and another recovery of the generation
(`PendingBlocks`), which would need a path, and Nav2 has no goal to plan one for.

## What the proofs found

A proof that failed was a fact about the model or the code.  Five led to changes of the model:

* The gate runs were too small twice.  With three stop tokens the waiter can hold the barrier of
  a generation that a late answer has left: `acknowledge_stop` then raises a `ValueError` that nobody
  catches (`client_node.py:1123`), an action the model did not have (`StopUnderForeignIdentity`).
* With three odometry samples, an `initialize` that fails for want of a clock resets the odometry cache but raises no
  barrier (`client_node.py:2737`), so a sample stamped before the stop may be the first one cached
  afterwards; its serial is new, its stamp is not.  `InferenceSeesSettledSensors` now says so (`blind`).
* `TypeOK` of `RecoveryLane` had a bound on holds and rejections that only the small instance kept.
* `NextOperation` of `RecoveryLane` had overlapping guards in a `CASE`: TLC takes the first, the logic any.
* The loops over plans in `RecoveryMachine` were folds over an operator, which the provers cannot
  instantiate; `AddTabooAll` and `InOrder` are recursive functions now, with the same values.

One is a limit of the code: a recovery may accept the plan it was started for.  While it waits, an
old plan is rejected, `_add_taboo` (`state_machine.py:517`) appends its tokens and the full deque drops those of
the blamed plan, which are not renewed when that plan is offered again; had the blamed plan arrived
before monitoring began, it is not among the plans seen either.  `RecoveryPlans` reaches such states, and
`BlamedPlanNotAccepted` allows exactly them.  A valid profile has 32 to 256 tokens, so this takes more
than 16 to 128 plans in one episode; no document or comment rules it out.

## Only model-checked

`RecoveryEnds`: liveness under fairness is out of the prover's reach.

## Not modelled

Components listed in `PROJECT.json` as `not_modelled` are data (localization, map, ablation,
footprint), process supervision, or the work planned below.  Within the modelled ones:

* *Model service.*  The state topics, shutdown, the decoding of observations, the rotation of
  action clients and the lifetime of finished goals.  The clock is a choice at each place the code
  reads it.  An observation that arrives while the agent holds a step it will not commit is covered by
  `DiscardedStepsLeaveTheAgent` only.
* *Recovery lane.*  The deadlines of cancel and clear are one `CallTimeout`; the age of a path and
  the cooldown are choices; the optional `BackUp` after a spin
  (`recovery_node.py:1395`) is left out; the motion topic is delivered at once, the stop topic late; a stop
  is any command without a trajectory.  A latch whose owner is gone (`adapter_node.py:887`) has no
  property.  `InStep`, `OneTransaction` and `BlamedPlanStaysOut` speak of runs without a
  fault (an abandoned or failing call) only.
* *Frontier lane.*  The recovery latch is left out; there is one attempt for each command, so its identity
  stands for the token; an expired store is an empty one; the gate confirms its stop at once.
  Answers may arrive after their caller left, and the clock may move at any time, although
  the evaluator freezes it during a step.  There is one clock: each node has its own `/clock`
  subscription, and how far they may lie apart while the clock is not frozen is outside the model.  An
  audit record that cannot be written at the end of a commit (`lane_b_step3_adapter_node.py:452`) ends
  the node and is not modelled.  `FailedStepIsStopped` leaves out steps that abandoned a call.
* *Gate.*  The frame the gate compares at a barrier is the last cached one, not one newer than the
  acknowledgement; a goal for `STAND` is not armed (`client_node.py:3257`) and does not occur in the
  model; a callback that sampled before a motion began may stop it (`client_node.py:2384`),
  which is safe and wasteful.  A stop request served late cancels a newer goal
  (`active_node.py:406`), which `GoalIsSupervised` allows.  None of these has a property.

## Plan

Done: the recovery core with its loop, the gate with its client, the model service with client,
restart and step ledger, the recovery lane, the frontier lane, and the theorems above.  Next:

1. `ControllerBridge`: watchdog and latch of the Go2 controller, with the sensor bridge's readiness.
2. `StepScheduler`: stale-response gate and command multiplexer, with the slow planner.
3. `Step3ArrivalGate`: bounded holds and late advice, on top of the frontier lane.
4. An abstract specification of the recovery core (idle, monitoring, recovering,
   stopped; at most one outstanding command) refined by `RecoveryMachine`, with a proof of every step.
5. What of the lane's transaction survives a fault: `OneTransaction` and `BlamedPlanStaysOut` assume
   that no call has timed out or failed.
