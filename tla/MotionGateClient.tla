-------------------------- MODULE MotionGateClient --------------------------
(***************************************************************************)
(* The T5 client around the gate: internvla_t4_sensors/client_node.py with *)
(* the base client it extends and the Nav2 adapter it drives               *)
(* (internvla_nav2_adapter/active_node.py, continuous mode).               *)
(*                                                                         *)
(* Threads.  The IPC thread runs initialize, reset and step, each under    *)
(* operation_lock; the odometry callback updates the sensor cache under    *)
(* the pose lock and then asks the gate under operation_lock.  Whoever     *)
(* holds operation_lock is the variable op.  A stop handshake keeps the    *)
(* lock while it waits for the adapter, whose acknowledgements arrive in a *)
(* callback group of their own.  Topics delay and may never deliver.       *)
(*                                                                         *)
(* Left out: the Step3 advisor and the oracle shadow, which only add holds *)
(* or replace the action of a step; audit files, except that writing one   *)
(* may fail.                                                               *)
(***************************************************************************)
EXTENDS MotionObservationGate

CONSTANTS
    FutureTolerance,   \* sensor_future_tolerance_sec
    OdomTimeout,       \* navigation_odometry_timeout
    MaxTime,           \* bound: last instant of the simulation clock
    MaxGeneration,     \* bound: last reset generation
    MaxOdometry,       \* bound: odometry samples received
    MaxStops           \* bound: stop tokens

ASSUME ClientAssumption ==
    /\ {FutureTolerance, OdomTimeout, MaxGeneration, MaxOdometry, MaxStops}
           \subseteq Nat
    /\ MaxTime \in Nat \ {0}

VARIABLES
    clock,     \* the simulation clock
    gate,      \* _motion_gate
    client,    \* identity, sensor caches and fault flag of the client
    op,        \* what the holder of operation_lock is doing
    cb,        \* the odometry callback in progress
    nav,       \* the adapter: active_goal, motion forwarding
    wire,      \* messages between client and adapter
    service    \* the reset generation of the model service

vars == <<clock, gate, client, op, cb, nav, wire, service>>

-----------------------------------------------------------------------------
Free == [kind |-> "free", then |-> "none", token |-> 0]

Busy(kind) == [Free EXCEPT !.kind = kind]

NoCallback == [phase |-> "none", epoch |-> 0, sim |-> 0, odom |-> 0, serial |-> 0]

Standing == [goal |-> FALSE, motion |-> FALSE, orphan |-> FALSE]

Moving == [goal |-> TRUE, motion |-> TRUE, orphan |-> FALSE]

InitialClient ==
    [initialized |-> FALSE, gen |-> -1, epoch |-> 0, fault |-> FALSE, stops |-> 0,
     odom |-> 0, serial |-> 0, serialBarrier |-> 0, simBarrier |-> 0,
     cam |-> 0, camSerial |-> 0,
     settled |-> Zero,      \* history: the baselines of the last confirmed stop
     blind |-> FALSE,       \* history: an initialize has failed since then
     misuse |-> FALSE]      \* history: a gate method raised RuntimeError

Init ==
    /\ clock = 1
    /\ gate = InitialGate
    /\ client = InitialClient
    /\ op = Free
    /\ cb = NoCallback
    /\ nav = Standing
    /\ wire = [requests |-> {}, acks |-> {}, stop |-> FALSE, resolve |-> FALSE]
    /\ service = 0

\* The baselines a stop request or an acknowledgement is stamped with.
Sensors(sim) ==
    [Zero EXCEPT !["sim"] = sim, !["odom"] = client.odom,
                 !["odomSerial"] = client.serial,
                 !["cam"] = client.cam, !["camSerial"] = client.camSerial]

\* _safe_stop: the Bool that disables command forwarding.  A ClientFailure that
\* leaves an operation reaches the IPC server, which publishes it too.
SafeStopped == [wire EXCEPT !.stop = TRUE]

Advance ==
    /\ clock < MaxTime
    /\ clock' = clock + 1
    /\ UNCHANGED <<gate, client, op, cb, nav, wire, service>>

-----------------------------------------------------------------------------
(* _request_motion_stop_and_wait: publish, then hold the lock and wait.    *)

Request(then) ==
    /\ client.stops < MaxStops
    /\ op' = [kind |-> "stopping", then |-> then, token |-> client.stops + 1]
    /\ wire' = [SafeStopped EXCEPT !.requests = @ \cup {client.stops + 1}]

Stopping == op.kind = "stopping"

\* The waiter takes the acknowledgement of its own token, if there is one.
Popped == [wire EXCEPT !.acks = {a \in @ : a.token # op.token}]

\* The operation ends in a ClientFailure with the gate's fault flag raised; the
\* IPC server publishes one more safe stop, the odometry callback does not.
StopFailed ==
    /\ client' = [client EXCEPT !.fault = TRUE]
    /\ op' = Free
    /\ cb' = IF op.then = "callback" THEN NoCallback ELSE cb
    /\ wire' = IF op.then = "callback" THEN Popped ELSE [Popped EXCEPT !.stop = TRUE]
    /\ UNCHANGED <<clock, gate, nav, service>>

StopTimesOut ==
    /\ Stopping
    /\ \A a \in wire.acks : a.token # op.token
    /\ StopFailed

StopNotConfirmed ==
    /\ Stopping
    /\ [token |-> op.token, ok |-> FALSE] \in wire.acks
    /\ StopFailed

\* The acknowledgement is ours, but the clock reads zero or runs backwards.
StopWithoutClock ==
    /\ Stopping
    /\ [token |-> op.token, ok |-> TRUE] \in wire.acks
    /\ StopFailed

\* Variant: whatever the adapter answered, the cancellation counts as confirmed.
StopConfirmedAnyStatus(audited) ==
    /\ Stopping
    /\ \E a \in wire.acks : a.token = op.token
    /\ LET s == Sensors(clock)
           allowed == AcknowledgeAllowed(gate, client.gen, s)
       IN  /\ gate' = IF allowed THEN AcknowledgeStop(gate, s) ELSE gate
           /\ client' = [client EXCEPT !.fault = ~audited, !.settled = s,
                                       !.blind = FALSE,
                                       !.misuse = @ \/ ~allowed]
    /\ op' = IF op.then = "reset" /\ audited THEN Busy("resetting") ELSE Free
    /\ cb' = IF op.then = "callback" THEN NoCallback ELSE cb
    /\ wire' = Popped
    /\ UNCHANGED <<clock, nav, service>>

\* audited: every audit line could be written; otherwise the fault is raised
\* again after the gate has accepted the acknowledgement.
StopConfirmed(audited) ==
    /\ Stopping
    /\ [token |-> op.token, ok |-> TRUE] \in wire.acks
    /\ gate.gen = client.gen
    /\ LET s == Sensors(clock)
           allowed == AcknowledgeAllowed(gate, client.gen, s)
       IN  /\ gate' = IF allowed THEN AcknowledgeStop(gate, s) ELSE gate
           /\ client' = [client EXCEPT !.fault = ~audited, !.settled = s,
                                       !.blind = FALSE,
                                       !.misuse = @ \/ ~allowed]
    /\ op' = IF op.then = "reset" /\ audited THEN Busy("resetting") ELSE Free
    /\ cb' = IF op.then = "callback" THEN NoCallback ELSE cb
    /\ wire' = IF op.then = "callback" \/ (audited /\ op.then # "failure")
               THEN Popped ELSE [Popped EXCEPT !.stop = TRUE]
    /\ UNCHANGED <<clock, nav, service>>

\* The barrier that is acknowledged belongs to another identity: acknowledge_stop
\* raises a ValueError, which the IPC server does not catch.
StopUnderForeignIdentity ==
    /\ Stopping
    /\ [token |-> op.token, ok |-> TRUE] \in wire.acks
    /\ gate.gen # client.gen
    /\ op' = Busy("dead")
    /\ wire' = Popped
    /\ UNCHANGED <<clock, gate, client, cb, nav, service>>

-----------------------------------------------------------------------------
(* _on_t4_odometry in its three steps.                                     *)

\* Reads the epoch and the clock; sim = 0 when the clock is unavailable.
OdometryReceived(sim, odom) ==
    /\ cb.phase = "none"
    /\ client.serial < MaxOdometry
    /\ cb' = [phase |-> "received", epoch |-> client.epoch, sim |-> sim,
              odom |-> odom, serial |-> 0]
    /\ UNCHANGED <<clock, gate, client, op, nav, wire, service>>

\* The checks before the pose lock.
Malformed == \/ cb.sim = 0
             \/ cb.odom = 0
             \/ cb.odom - cb.sim > FutureTolerance
             \/ cb.sim - cb.odom > OdomTimeout

CrossedReset == cb.epoch # client.epoch \/ cb.odom <= client.simBarrier

\* classify_odometry_stamp
Duplicate == client.odom > 0 /\ cb.odom = client.odom

Backwards == client.odom > 0 /\ cb.odom < client.odom

OdometryCached ==
    /\ cb.phase = "received"
    /\ LET valid == ~CrossedReset /\ ~Malformed /\ ~Duplicate /\ ~Backwards
           ignored == Duplicate /\ ~CrossedReset /\ ~Malformed
       IN  /\ client' = IF valid
                        THEN [client EXCEPT !.odom = cb.odom, !.serial = @ + 1]
                        ELSE client
           /\ cb' = IF ignored \/ ~client.initialized THEN NoCallback
                    ELSE [cb EXCEPT !.phase = IF valid THEN "valid" ELSE "invalid",
                                    !.serial = client'.serial]
    /\ UNCHANGED <<clock, gate, op, nav, wire, service>>

\* The gate observation of the callback; the camera comes from the cache.
CallbackSample ==
    [Sensors(Larger(cb.sim, cb.odom)) EXCEPT !["odom"] = cb.odom,
                                             !["odomSerial"] = cb.serial]

\* Stale epoch, a standing fault or a foreign identity: the gate is untouched.
CallbackDropped ==
    /\ op = Free
    /\ \/ cb.phase \in {"valid", "invalid"} /\ cb.epoch # client.epoch
       \/ cb.phase = "valid" /\ (client.fault \/ gate.gen # client.gen)
       \/ cb.phase = "invalid" /\ ~gate.pending.armed
    /\ cb' = NoCallback
    /\ UNCHANGED <<clock, gate, client, op, nav, wire, service>>

\* _fail_active_motion_from_callback
CallbackFailsMotion ==
    /\ op = Free
    /\ cb.phase = "invalid" /\ cb.epoch = client.epoch
    /\ gate.pending.armed
    /\ gate' = FailActiveMotion(gate, [CallbackSample EXCEPT !["sim"] = cb.sim])
    /\ client' = [client EXCEPT !.stops = @ + 1,
                                !.misuse = @ \/ ~FailAllowed(gate, client.gen)]
    /\ Request("callback")
    /\ UNCHANGED <<clock, cb, nav, service>>

\* _observe_motion_gate from the callback; a permission to step is discarded.
CallbackObserves(reached) ==
    LET decision == ObserveDecision(gate, CallbackSample, reached) IN
    /\ op = Free
    /\ cb.phase = "valid" /\ cb.epoch = client.epoch
    /\ ~client.fault /\ gate.gen = client.gen
    /\ gate' = Observe(gate, CallbackSample, reached)
    /\ \/ /\ RequiresSafeStop(decision)
          /\ client' = [client EXCEPT !.stops = @ + 1]
          /\ Request("callback")
          /\ UNCHANGED cb
       \/ /\ ~RequiresSafeStop(decision)
          /\ cb' = NoCallback
          /\ UNCHANGED <<client, op, wire>>
    /\ UNCHANGED <<clock, nav, service>>

-----------------------------------------------------------------------------
(* initialize and reset                                                    *)

\* _arm_odometry_barrier
ArmOdometryBarrier(c, sim) ==
    [c EXCEPT !.epoch = @ + 1, !.simBarrier = sim, !.serialBarrier = c.serial,
              !.odom = 0]

\* The service answers a repeated initialize with the generation it is at.
Initialize ==
    /\ op = Free
    /\ LET c == ArmOdometryBarrier(
                  [client EXCEPT !.initialized = TRUE, !.gen = service, !.fault = FALSE,
                                 !.stops = @ + 1], clock)
       IN  /\ client' = c
           /\ gate' = RequireStopBarrier(GateReset(gate, service),
                                         [Sensors(clock) EXCEPT !["odom"] = 0])
    /\ Request("initialize")
    /\ UNCHANGED <<clock, cb, nav, service>>

\* The clock is unavailable: the fault is cleared, the gate is left as it was.
InitializeWithoutClock ==
    /\ op = Free
    /\ client' = ArmOdometryBarrier(
                   [client EXCEPT !.initialized = TRUE, !.gen = service,
                                  !.fault = FALSE, !.blind = TRUE], 0)
    /\ wire' = SafeStopped
    /\ UNCHANGED <<clock, gate, op, cb, nav, service>>

\* _confirm_stop_before_identity_change.  The gate rejects a foreign identity
\* with a ValueError, which the IPC server does not catch: the process ends.
ResetUnderForeignIdentity ==
    /\ op = Free
    /\ client.initialized
    /\ gate.gen # client.gen
    /\ ~gate.barrier.up
    /\ op' = Busy("dead")
    /\ UNCHANGED <<clock, gate, client, cb, nav, wire, service>>

ResetWithoutClock ==
    /\ op = Free
    /\ client.initialized
    /\ wire' = SafeStopped
    /\ UNCHANGED <<clock, gate, client, op, cb, nav, service>>

\* Variant: an active motion gets a fresh barrier.
ConfirmStopOverMotion ==
    /\ op = Free
    /\ client.initialized
    /\ gate.gen = client.gen
    /\ ~gate.barrier.acked
    /\ client' = [client EXCEPT !.stops = @ + 1,
                                !.misuse = @ \/ ~RequireAllowed(gate, client.gen)]
    /\ gate' = IF gate.barrier.up THEN gate ELSE RequireStopBarrier(gate, Sensors(clock))
    /\ Request("reset")
    /\ UNCHANGED <<clock, cb, nav, service>>

\* An unacknowledged barrier is kept and its stop requested again.
ConfirmStop ==
    /\ op = Free
    /\ client.initialized
    /\ gate.gen = client.gen \/ gate.barrier.up
    /\ ~gate.barrier.acked
    /\ client' = [client EXCEPT !.stops = @ + 1]
    /\ gate' = IF gate.pending.armed THEN FailActiveMotion(gate, Sensors(clock))
               ELSE IF gate.barrier.up THEN gate
               ELSE RequireStopBarrier(gate, Sensors(clock))
    /\ Request("reset")
    /\ UNCHANGED <<clock, cb, nav, service>>

\* A cancellation that is already acknowledged is retained.
RetainConfirmedStop ==
    /\ op = Free
    /\ client.initialized
    /\ gate.barrier.acked
    /\ op' = Busy("resetting")
    /\ wire' = SafeStopped
    /\ UNCHANGED <<clock, gate, client, cb, nav, service>>

\* The service may move to its next generation without the client hearing of it.
ServiceMoves == service' \in {service, service + 1} /\ service' <= MaxGeneration

\* Refused (the generation expected is not the service's), or the answer is lost.
ModelResetFails ==
    /\ op.kind = "resetting"
    /\ op' = Free
    /\ wire' = SafeStopped
    /\ ServiceMoves
    /\ UNCHANGED <<clock, gate, client, cb, nav>>

ModelResets ==
    /\ op.kind = "resetting"
    /\ service = client.gen
    /\ service < MaxGeneration
    /\ service' = service + 1

\* _install_post_reset_sensor_barrier: cutoffs from the clock, the caches, the
\* reset barrier and the confirmed stop, whichever is newest.
PostResetCutoffs(c) ==
    LET ack == gate.barrier.ack
        cutoff == Larger(Larger(clock, c.simBarrier), ack["sim"])
    IN  [Zero EXCEPT !["sim"] = cutoff,
                     !["odom"] = Larger(cutoff, ack["odom"]),
                     !["odomSerial"] = Larger(c.serial, ack["odomSerial"]),
                     !["cam"] = Larger(cutoff, ack["cam"]),
                     !["camSerial"] = Larger(c.camSerial, ack["camSerial"])]

NewIdentity == ArmOdometryBarrier([client EXCEPT !.gen = @ + 1], clock)

ModelReset ==
    /\ ModelResets
    /\ LET s == PostResetCutoffs(NewIdentity)
       IN  /\ gate' = InheritConfirmedStop(GateReset(gate, NewIdentity.gen), s)
           /\ client' = [NewIdentity EXCEPT !.fault = FALSE, !.settled = s,
                                         !.blind = FALSE]
    /\ op' = Free
    /\ wire' = SafeStopped
    /\ UNCHANGED <<clock, cb, nav>>

\* The model has reset, but the clock is unavailable when the barrier is due:
\* the gate keeps the old identity and its acknowledged barrier.
ModelResetWithoutClock ==
    /\ ModelResets
    /\ client' = ArmOdometryBarrier([client EXCEPT !.gen = @ + 1], 0)
    /\ op' = Free
    /\ wire' = SafeStopped
    /\ UNCHANGED <<clock, gate, cb, nav>>

-----------------------------------------------------------------------------
(* step_arrays                                                             *)

\* The camera frame is refused before it is cached.
CameraRefused(serial, stamp) ==
    \/ stamp = 0
    \/ stamp - clock > FutureTolerance
    \/ clock - stamp > OdomTimeout
    \/ serial <= client.camSerial
    \/ stamp <= client.cam

StepRefused(serial, stamp) ==
    /\ op = Free
    /\ client.initialized
    /\ CameraRefused(serial, stamp)
    /\ wire' = SafeStopped
    /\ UNCHANGED <<clock, gate, client, op, cb, nav, service>>

StepBegins(serial, stamp) ==
    /\ op = Free
    /\ client.initialized
    /\ ~CameraRefused(serial, stamp)
    /\ client' = [client EXCEPT !.cam = stamp, !.camSerial = serial]
    /\ op' = Busy("posing")
    /\ UNCHANGED <<clock, gate, cb, nav, wire, service>>

\* _navigation_pose; the map generation is taken as caught up.
PoseAvailable ==
    /\ client.odom > client.simBarrier
    /\ client.serial > client.serialBarrier
    /\ clock - client.odom <= OdomTimeout

\* The observation of a step.
StepSample == Sensors(Larger(clock, Larger(client.odom, client.cam)))

\* No fresh pose in time, a standing fault, or a foreign identity.
StepFails ==
    /\ op.kind = "posing"
    /\ ~PoseAvailable \/ client.fault \/ gate.gen # client.gen
    /\ op' = Free
    /\ wire' = SafeStopped
    /\ UNCHANGED <<clock, gate, client, cb, nav, service>>

StepObserves(reached) ==
    LET decision == ObserveDecision(gate, StepSample, reached) IN
    /\ op.kind = "posing"
    /\ PoseAvailable /\ ~client.fault /\ gate.gen = client.gen
    /\ gate' = Observe(gate, StepSample, reached)
    /\ \/ /\ RequiresSafeStop(decision)
          /\ client' = [client EXCEPT !.stops = @ + 1]
          /\ Request("step")
       \/ /\ PermitsModelStep(decision)
          /\ op' = Busy("inferring")
          /\ UNCHANGED <<client, wire>>
       \/ /\ ~RequiresSafeStop(decision) /\ ~PermitsModelStep(decision)
          /\ op' = Free
          /\ UNCHANGED <<client, wire>>
    /\ UNCHANGED <<clock, cb, nav, service>>

\* The model step or the resolution fails and leaves no new goal behind; the
\* first command of a generation has cancelled the one there was.
InferenceFails ==
    /\ op.kind = "inferring"
    /\ op' = Free
    /\ nav' \in {nav, Standing}
    /\ wire' = SafeStopped
    /\ ServiceMoves
    /\ UNCHANGED <<clock, gate, client, cb>>

\* The answer is an error of another generation: the base client adopts it.
GenerationAdopted ==
    /\ op.kind = "inferring"
    /\ ServiceMoves
    /\ service' # client.gen
    /\ client' = [client EXCEPT !.gen = service']
    /\ op' = Free
    /\ wire' = SafeStopped
    /\ UNCHANGED <<clock, gate, cb, nav>>

\* The model has answered under the identity the client asked with.
Answered == op.kind = "inferring" /\ service = client.gen

\* nav2_resolution_timeout_sec passes; the request is still with the adapter.
ResolutionAbandoned ==
    /\ Answered
    /\ op' = Free
    /\ wire' = [SafeStopped EXCEPT !.resolve = TRUE]
    /\ UNCHANGED <<clock, gate, client, cb, nav, service>>

\* STOP or STAND, or a path too short for a goal.
ResolvedToStand ==
    /\ Answered
    /\ op' = Free
    /\ nav' = Standing
    /\ UNCHANGED <<clock, gate, client, cb, wire, service>>

\* The adapter keeps the goal it has: valid plan, no goal sent, nothing to arm.
ResolvedToOldGoal ==
    /\ Answered
    /\ nav.goal
    /\ op' = Free
    /\ nav' = [nav EXCEPT !.motion = TRUE]
    /\ UNCHANGED <<clock, gate, client, cb, wire, service>>

\* _motion_start_baseline
BaselineAvailable ==
    PoseAvailable /\ client.odom - clock <= FutureTolerance

ResolvedToMotion ==
    LET s == WithoutCamera(Sensors(Larger(clock, client.odom))) IN
    /\ Answered
    /\ BaselineAvailable
    /\ gate' = Arm(gate, s)
    /\ client' = [client EXCEPT !.misuse = @ \/ ~ArmAllowed(gate, client.gen, s)]
    /\ op' = Free
    /\ nav' = Moving
    /\ UNCHANGED <<clock, cb, wire, service>>

\* A goal was sent, but the motion cannot be armed or recorded:
\* _stop_resolved_goal_after_failure.
ResolvedButNotArmed ==
    /\ Answered
    /\ gate' = RequireStopBarrier(gate, Sensors(clock))
    /\ client' = [client EXCEPT !.stops = @ + 1,
                                !.misuse = @ \/ ~RequireAllowed(gate, client.gen)
                                             \/ gate.barrier.up]
    /\ nav' = Moving
    /\ Request("failure")
    /\ UNCHANGED <<clock, cb, service>>

\* The motion is armed, but cannot be recorded: it is failed again.
ResolvedButNotRecorded ==
    LET s == WithoutCamera(Sensors(Larger(clock, client.odom))) IN
    /\ Answered
    /\ BaselineAvailable
    /\ gate' = FailActiveMotion(Arm(gate, s), Sensors(clock))
    /\ client' = [client EXCEPT !.stops = @ + 1,
                                !.misuse = @ \/ ~ArmAllowed(gate, client.gen, s)]
    /\ nav' = Moving
    /\ Request("failure")
    /\ UNCHANGED <<clock, cb, service>>

-----------------------------------------------------------------------------
(* The adapter.                                                            *)

\* _on_safe_stop
AdapterDisablesMotion ==
    /\ wire.stop
    /\ wire' = [wire EXCEPT !.stop = FALSE]
    /\ nav' = [nav EXCEPT !.motion = FALSE]
    /\ UNCHANGED <<clock, gate, client, op, cb, service>>

\* Variant: the error path answers before the token was read.
AdapterStopsUnnamed(token, ok) ==
    /\ token \in wire.requests
    /\ ok \/ nav.goal
    /\ nav' = IF ok THEN Standing ELSE [nav EXCEPT !.motion = FALSE]
    /\ wire' = [wire EXCEPT !.requests = @ \ {token},
                            !.acks = @ \cup {[token |-> IF ok THEN token ELSE 0,
                                              ok |-> ok]}]
    /\ UNCHANGED <<clock, gate, client, op, cb, service>>

\* _on_stop_request.  A cancellation that times out is repeated without waiting
\* and counts as confirmed; one that Nav2 refuses is reported as an error.
AdapterStops(token, ok) ==
    /\ token \in wire.requests
    /\ ok \/ nav.goal
    /\ nav' = IF ok THEN Standing
              ELSE [nav EXCEPT !.motion = FALSE]
    /\ wire' = [wire EXCEPT !.requests = @ \ {token},
                            !.acks = @ \cup {[token |-> token, ok |-> ok]}]
    /\ UNCHANGED <<clock, gate, client, op, cb, service>>

\* _resolve of a request whose caller has given up: refused as stale, resolved
\* to a stand, or executed.
AdapterResolvesLate ==
    /\ wire.resolve
    /\ wire' = [wire EXCEPT !.resolve = FALSE]
    /\ nav' \in {nav, Standing, [Moving EXCEPT !.orphan = TRUE]}
    /\ UNCHANGED <<clock, gate, client, op, cb, service>>

\* _goal_finished; forwarding stays enabled.
GoalFinishes ==
    /\ nav.goal
    /\ nav' = [nav EXCEPT !.goal = FALSE]
    /\ UNCHANGED <<clock, gate, client, op, cb, wire, service>>

-----------------------------------------------------------------------------
Handshake ==
    \/ StopTimesOut
    \/ StopNotConfirmed
    \/ StopWithoutClock
    \/ \E audited \in BOOLEAN : StopConfirmed(audited)
    \/ StopUnderForeignIdentity

Stamps == {s \in 0..MaxTime : clock - 1 <= s /\ s <= clock + 1}

Odometry ==
    \/ \E odom \in Stamps : OdometryReceived(clock, odom)
    \/ OdometryReceived(0, clock)
    \/ OdometryCached
    \/ CallbackDropped
    \/ CallbackFailsMotion
    \/ \E reached \in BOOLEAN : CallbackObserves(reached)

Episode ==
    \/ Initialize
    \/ InitializeWithoutClock
    \/ ResetWithoutClock
    \/ ResetUnderForeignIdentity
    \/ ConfirmStop
    \/ RetainConfirmedStop
    \/ ModelResetFails
    \/ ModelReset
    \/ ModelResetWithoutClock

Step ==
    \/ \E serial \in {client.camSerial, client.camSerial + 1}, stamp \in Stamps :
         StepRefused(serial, stamp) \/ StepBegins(serial, stamp)
    \/ StepFails
    \/ \E reached \in BOOLEAN : StepObserves(reached)
    \/ InferenceFails
    \/ GenerationAdopted
    \/ ResolutionAbandoned
    \/ ResolvedToStand
    \/ ResolvedToOldGoal
    \/ ResolvedToMotion
    \/ ResolvedButNotArmed
    \/ ResolvedButNotRecorded

Adapter ==
    \/ AdapterDisablesMotion
    \/ \E token \in wire.requests, ok \in BOOLEAN : AdapterStops(token, ok)
    \/ AdapterResolvesLate
    \/ GoalFinishes

Next == Advance \/ Handshake \/ Odometry \/ Episode \/ Step \/ Adapter

Spec == Init /\ [][Next]_vars

-----------------------------------------------------------------------------
(* Properties.                                                             *)

\* The gate, the client's caches, the lock holder, the callback, the adapter
\* and the messages keep the shapes their Python classes declare.
TypeOK ==
    /\ clock \in 1..MaxTime
    /\ gate.gen \in -1..MaxGeneration
    /\ gate.pending \in [armed : BOOLEAN, start : Baselines]
    /\ gate.barrier \in [up : BOOLEAN, acked : BOOLEAN, asked : Baselines, ack : Baselines]
    /\ client.gen \in -1..MaxGeneration
    /\ {client.epoch, client.serialBarrier, client.simBarrier} \subseteq Nat
    /\ {client.stops, client.odom, client.serial, client.cam, client.camSerial} \subseteq Nat
    /\ client.settled \in Baselines
    /\ {client.initialized, client.fault, client.misuse} \subseteq BOOLEAN
    /\ op.kind \in {"free", "stopping", "resetting", "posing", "inferring", "dead"}
    /\ op.then \in {"none", "callback", "initialize", "reset", "step", "failure"}
    /\ op.token \in 0..client.stops
    /\ cb.phase \in {"none", "received", "valid", "invalid"}
    /\ nav \in [goal : BOOLEAN, motion : BOOLEAN, orphan : BOOLEAN]
    /\ wire.requests \subseteq 1..client.stops
    /\ wire.acks \subseteq [token : 1..client.stops, ok : BOOLEAN]
    /\ service \in 0..MaxGeneration

\* While the model infers, the odometry and the camera frame in the caches are
\* strictly newer than those of the last confirmed stop or reset, although the
\* caches are refreshed, and cleared by a reset, while stops are under way.  One
\* stamp is excepted: an initialize that fails for want of a clock empties the
\* odometry cache and its cutoff but raises no barrier, so a sample stamped
\* before the stop may be the first one cached afterwards.
InferenceSeesSettledSensors ==
    op.kind = "inferring" =>
        /\ client.odom > client.settled["odom"] \/ client.blind
        /\ client.serial > client.settled["odomSerial"]
        /\ client.cam > client.settled["cam"]
        /\ client.camSerial > client.settled["camSerial"]

\* A Nav2 goal whose resolution reached the client is watched until the adapter
\* has confirmed its cancellation: the gate has the motion armed or a barrier
\* that still waits for the acknowledgement, whatever failed in between.
GoalIsSupervised ==
    nav.goal /\ ~nav.orphan =>
        gate.pending.armed \/ (gate.barrier.up /\ ~gate.barrier.acked)

\* No path of the client calls a gate method in a state the method rejects: its
\* RuntimeError would pass the IPC server's ClientFailure handler.  A reset under
\* a foreign identity is the one call that raises; it ends the process.
NoGateMisuse == ~client.misuse

\* An armed motion ends only in a stop barrier that is not acknowledged yet, and
\* a barrier is lifted only after its acknowledgement.
MotionEndsInConfirmedStop ==
    [][/\ gate.pending.armed /\ ~gate'.pending.armed =>
            gate'.barrier.up /\ ~gate'.barrier.acked
       /\ gate.barrier.up /\ ~gate'.barrier.up => gate.barrier.acked]_vars

\* What motion_observation_gate.py promises: a motion is stopped, and a new
\* observation required, before another model inference is admitted.
NoInferenceWhileMoving == op.kind = "inferring" => ~(nav.goal /\ nav.motion)

\* What _observe_motion_gate says: initialize and reset own the identity
\* transition, so nothing else changes the client's generation.
IdentityIsOwnedByReset ==
    [][client'.gen # client.gen =>
          op.kind = "resetting" \/ (op = Free /\ client'.epoch = client.epoch + 1)]_vars
=============================================================================
