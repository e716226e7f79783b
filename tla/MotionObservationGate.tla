----------------------- MODULE MotionObservationGate -----------------------
(***************************************************************************)
(* The sim-time motion/observation gate of the T5 client,                  *)
(* internvla_t4_sensors/motion_observation_gate.py.                        *)
(*                                                                         *)
(* The gate object spans evaluator requests: a resolved Nav2 motion arms   *)
(* it, odometry completes or fails the motion, a stop barrier then waits   *)
(* for the cancellation acknowledgement and for sensors newer than it.     *)
(* Callers provide the synchronisation, so the methods are operators from  *)
(* a gate to a gate; a method that raises is refused by its ...Allowed     *)
(* predicate.                                                              *)
(*                                                                         *)
(* Abstractions.  An (episode_id, reset_generation) identity is its        *)
(* generation.  Stamps are integers.  A pose is whether the required       *)
(* progress has been reached.  Reasons and request ids are left out.       *)
(***************************************************************************)
EXTENDS Integers

CONSTANT MotionTimeout      \* turn_timeout_sec and forward_timeout_sec

ASSUME MotionTimeoutAssumption == MotionTimeout \in Nat \ {0}

-----------------------------------------------------------------------------
\* The five baselines of a barrier: simulation clock, odometry stamp and
\* receipt serial, camera stamp and serial.
Channels == {"sim", "odom", "odomSerial", "cam", "camSerial"}

Baselines == [Channels -> Nat]

Zero == [c \in Channels |-> 0]

Larger(a, b) == IF a >= b THEN a ELSE b

Join(s, t) == [c \in Channels |-> Larger(s[c], t[c])]

StrictlyNewer(s, t) == \A c \in Channels : s[c] > t[c]

NoPending == [armed |-> FALSE, start |-> Zero]

NoBarrier == [up |-> FALSE, acked |-> FALSE, asked |-> Zero, ack |-> Zero]

InitialGate == [gen |-> -1, pending |-> NoPending, barrier |-> NoBarrier]

\* The property state.
Ready(g) == ~g.pending.armed /\ ~g.barrier.up

GateReset(g, gen) == [gen |-> gen, pending |-> NoPending, barrier |-> NoBarrier]

-----------------------------------------------------------------------------
(* arm                                                                     *)

ArmAllowed(g, gen, s) ==
    /\ gen = g.gen
    /\ Ready(g)
    /\ s["sim"] > 0 /\ s["odom"] > 0 /\ s["odomSerial"] > 0

Arm(g, s) == [g EXCEPT !.pending = [armed |-> TRUE, start |-> s]]

-----------------------------------------------------------------------------
(* Stop requests.  A motion that stops leaves no camera baseline.          *)

WithoutCamera(s) == [s EXCEPT !["cam"] = 0, !["camSerial"] = 0]

\* Variant: the barrier does not wait for the cancellation.
TransitionToStopUnasked(g, s) ==
    [g EXCEPT !.pending = NoPending,
              !.barrier = [up |-> TRUE, acked |-> TRUE, asked |-> s, ack |-> s]]

TransitionToStop(g, s) ==
    [g EXCEPT !.pending = NoPending,
              !.barrier = [NoBarrier EXCEPT !.up = TRUE, !.asked = WithoutCamera(s)]]

FailAllowed(g, gen) == gen = g.gen /\ g.pending.armed

FailActiveMotion(g, s) == TransitionToStop(g, Join(s, g.pending.start))

RequireAllowed(g, gen) == gen = g.gen /\ ~g.pending.armed

RequireStopBarrier(g, s) ==
    [g EXCEPT !.barrier = [NoBarrier EXCEPT !.up = TRUE, !.asked = s]]

-----------------------------------------------------------------------------
(* observe: the decision, and the gate it leaves behind.                   *)

Regressed(start, s) ==
    \/ \E c \in {"sim", "odom", "odomSerial"} : s[c] <= 0 \/ s[c] < start[c]
    \/ s["odom"] > s["sim"]

\* The deadline is exclusive and is looked at before the progress.
MotionDecision(start, s, reached) ==
    IF Regressed(start, s) THEN "safe_stop_stale"
    ELSE IF s["sim"] - start["sim"] >= MotionTimeout THEN "safe_stop_timeout"
    ELSE IF reached THEN "safe_stop_complete"
    ELSE "hold_motion"

BarrierDecision(barrier, s) ==
    IF ~barrier.acked THEN "hold_cancel_ack"
    ELSE IF StrictlyNewer(s, barrier.ack) THEN "ready"
    ELSE "hold_post_stop"

ObserveDecision(g, s, reached) ==
    IF g.barrier.up THEN BarrierDecision(g.barrier, s)
    ELSE IF g.pending.armed THEN MotionDecision(g.pending.start, s, reached)
    ELSE "ready"

PermitsModelStep(decision) == decision = "ready"

RequiresSafeStop(decision) ==
    decision \in {"safe_stop_stale", "safe_stop_timeout", "safe_stop_complete"}

Observe(g, s, reached) ==
    LET decision == ObserveDecision(g, s, reached)
    IN  CASE decision = "ready" -> [g EXCEPT !.barrier = NoBarrier]
          [] decision = "safe_stop_stale" -> FailActiveMotion(g, s)
          [] decision \in {"safe_stop_timeout", "safe_stop_complete"} ->
               TransitionToStop(g, s)
          [] OTHER -> g

-----------------------------------------------------------------------------
(* acknowledge_stop and inherit_confirmed_stop_barrier                     *)

AcknowledgeAllowed(g, gen, s) ==
    gen = g.gen /\ g.barrier.up /\ ~g.barrier.acked /\ s["sim"] > 0

\* Variant: the sensors seen when the stop was asked for are enough.
AcknowledgeAtRequest(g, s) ==
    [g EXCEPT !.barrier.acked = TRUE, !.barrier.ack = g.barrier.asked]

AcknowledgeStop(g, s) ==
    [g EXCEPT !.barrier.acked = TRUE, !.barrier.ack = Join(s, g.barrier.asked)]

InheritAllowed(g, gen, s) == gen = g.gen /\ Ready(g) /\ s["sim"] > 0

InheritConfirmedStop(g, s) ==
    [g EXCEPT !.barrier = [up |-> TRUE, acked |-> TRUE, asked |-> s, ack |-> s]]
=============================================================================
