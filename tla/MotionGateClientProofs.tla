------------------------ MODULE MotionGateClientProofs ------------------------
(* Proofs about MotionGateClient for all values of its constants: the types  *)
(* of the client, the gate and the adapter, and what the stop handshake      *)
(* guarantees whatever the callbacks, the resets and the adapter do between. *)
EXTENDS MotionGateClient, TLAPS

USE MotionTimeoutAssumption, ClientAssumption

Generations == -1..MaxGeneration

Pendings == [armed : BOOLEAN, start : Baselines]

Barriers == [up : BOOLEAN, acked : BOOLEAN, asked : Baselines, ack : Baselines]

Gates == [gen : Generations, pending : Pendings, barrier : Barriers]

Clients ==
    [initialized : BOOLEAN, gen : Generations, epoch : Nat, fault : BOOLEAN,
     stops : Nat, odom : Nat, serial : Nat, serialBarrier : Nat,
     simBarrier : Nat, cam : Nat, camSerial : Nat, settled : Baselines,
     blind : BOOLEAN, misuse : BOOLEAN]

Holders ==
    [kind : {"free", "stopping", "resetting", "posing", "inferring", "dead"},
     then : {"none", "callback", "initialize", "reset", "step", "failure"},
     token : Nat]

Callbacks ==
    [phase : {"none", "received", "valid", "invalid"}, epoch : Nat, sim : Nat,
     odom : Nat, serial : Nat]

Adapters == [goal : BOOLEAN, motion : BOOLEAN, orphan : BOOLEAN]

Wires ==
    [requests : SUBSET (Nat \ {0}), acks : SUBSET [token : Nat \ {0}, ok : BOOLEAN],
     stop : BOOLEAN, resolve : BOOLEAN]

\* No message names a stop that was not requested yet.
TokensKnown ==
    /\ op.token <= client.stops
    /\ \A t \in wire.requests : t <= client.stops
    /\ \A a \in wire.acks : a.token <= client.stops

Typed ==
    /\ clock \in 1..MaxTime
    /\ gate \in Gates
    /\ client \in Clients
    /\ op \in Holders
    /\ cb \in Callbacks
    /\ nav \in Adapters
    /\ wire \in Wires
    /\ service \in 0..MaxGeneration
    /\ TokensKnown

-----------------------------------------------------------------------------
\* The gate has a motion or a barrier, never both.
Exclusive(g) ==
    /\ ~(g.pending.armed /\ g.barrier.up)
    /\ g.barrier.acked => g.barrier.up

\* What the holder of operation_lock may rely on until it releases it.
LockProtects ==
    /\ client.initialized => client.gen >= 0
    /\ op.kind = "posing" => client.initialized
    /\ op.kind = "inferring" =>
          Ready(gate) /\ gate.gen = client.gen /\ client.gen >= 0
    /\ op.kind = "stopping" => gate.barrier.up /\ ~gate.barrier.acked
    /\ op.kind = "resetting" => gate.barrier.acked

\* An armed motion belongs to the generation client and service agree on.
MotionIsOurs ==
    gate.pending.armed => gate.gen = client.gen /\ service = client.gen

Supervisable == nav.goal /\ ~nav.orphan

\* A confirmation on its way to the waiter means that the goal is gone.
ConfirmedIsCancelled ==
    \A a \in wire.acks :
        op.kind = "stopping" /\ a.token = op.token /\ a.ok => ~Supervisable

\* A callback that no reset has overtaken carries the sample in the cache.
CallbackIsCached ==
    /\ cb.epoch <= client.epoch
    /\ cb.phase = "valid" /\ cb.epoch = client.epoch =>
          cb.odom = client.odom /\ cb.serial = client.serial

\* The caches are newer than the last confirmed stop.
CachesAreNewer ==
    /\ client.odom > client.settled["odom"] \/ client.blind
    /\ client.serial > client.settled["odomSerial"]
    /\ client.cam > client.settled["cam"]
    /\ client.camSerial > client.settled["camSerial"]

\* An acknowledged barrier is not older than the stop it confirms, and without
\* a barrier the caches have passed it.
Settled ==
    /\ gate.barrier.acked =>
          \A c \in Channels : gate.barrier.ack[c] >= client.settled[c]
    /\ ~gate.barrier.up /\ gate.gen >= 0 => CachesAreNewer

\* The inductive invariant.
Inv ==
    /\ Typed
    /\ Exclusive(gate)
    /\ LockProtects
    /\ MotionIsOurs
    /\ GoalIsSupervised
    /\ ConfirmedIsCancelled
    /\ CallbackIsCached
    /\ Settled
    /\ NoGateMisuse

-----------------------------------------------------------------------------
(* Baselines and the operations of the gate.                                 *)

\* The baselines, one channel at a time.
LEMMA BaselinesAre ==
    ASSUME NEW s \in Baselines
    PROVE  /\ s["sim"] \in Nat /\ s["odom"] \in Nat /\ s["odomSerial"] \in Nat
           /\ s["cam"] \in Nat /\ s["camSerial"] \in Nat
BY DEF Baselines, Channels

\* Changing channels to other numbers gives baselines again.
LEMMA BaselinesChange ==
    ASSUME NEW s \in Baselines, NEW c \in Channels, NEW n \in Nat
    PROVE  /\ [s EXCEPT ![c] = n] \in Baselines
           /\ [s EXCEPT ![c] = n][c] = n
           /\ \A d \in Channels \ {c} : [s EXCEPT ![c] = n][d] = s[d]
BY DEF Baselines

LEMMA ChannelsAre ==
    /\ "sim" \in Channels /\ "odom" \in Channels /\ "odomSerial" \in Channels
    /\ "cam" \in Channels /\ "camSerial" \in Channels
    /\ Zero \in Baselines
BY DEF Channels, Zero, Baselines

\* A join is an upper bound of both.
LEMMA JoinIs ==
    ASSUME NEW s \in Baselines, NEW t \in Baselines
    PROVE  /\ Join(s, t) \in Baselines
           /\ \A c \in Channels : Join(s, t)[c] >= s[c] /\ Join(s, t)[c] >= t[c]
BY DEF Join, Larger, Baselines

LEMMA WithoutCameraIs ==
    ASSUME NEW s \in Baselines
    PROVE  /\ WithoutCamera(s) \in Baselines
           /\ \A c \in {"sim", "odom", "odomSerial"} : WithoutCamera(s)[c] = s[c]
BY DEF WithoutCamera, Baselines, Channels

\* What a stop request leaves of a gate.
Stopped(g, h) ==
    /\ h \in Gates /\ h.gen = g.gen
    /\ ~h.pending.armed /\ h.barrier.up /\ ~h.barrier.acked

LEMMA TransitionIs ==
    ASSUME NEW g \in Gates, NEW s \in Baselines
    PROVE  Stopped(g, TransitionToStop(g, s))
<1>1. NoPending \in Pendings /\ ~NoPending.armed
    BY ChannelsAre DEF NoPending, Pendings
<1>2. NoBarrier \in Barriers /\ ~NoBarrier.acked
    BY ChannelsAre DEF NoBarrier, Barriers
<1> DEFINE b == [NoBarrier EXCEPT !.up = TRUE, !.asked = WithoutCamera(s)]
<1>3. b \in Barriers /\ b.up /\ ~b.acked
    BY <1>2, WithoutCameraIs DEF Barriers
<1>4. TransitionToStop(g, s) = [g EXCEPT !.pending = NoPending, !.barrier = b]
    BY DEF TransitionToStop
<1> HIDE DEF b
<1>5. QED
    BY <1>1, <1>3, <1>4 DEF Stopped, Gates

LEMMA FailIs ==
    ASSUME NEW g \in Gates, NEW s \in Baselines
    PROVE  Stopped(g, FailActiveMotion(g, s))
<1>1. g.pending.start \in Baselines
    BY DEF Gates, Pendings
<1>2. Join(s, g.pending.start) \in Baselines
    BY <1>1, JoinIs
<1>3. QED
    BY <1>2, TransitionIs DEF FailActiveMotion

LEMMA RequireIs ==
    ASSUME NEW g \in Gates, NEW s \in Baselines, ~g.pending.armed
    PROVE  Stopped(g, RequireStopBarrier(g, s))
<1>1. NoBarrier \in Barriers /\ ~NoBarrier.acked
    BY ChannelsAre DEF NoBarrier, Barriers
<1> DEFINE b == [NoBarrier EXCEPT !.up = TRUE, !.asked = s]
<1>2. b \in Barriers /\ b.up /\ ~b.acked
    BY <1>1 DEF Barriers
<1>3. RequireStopBarrier(g, s) = [g EXCEPT !.barrier = b]
    BY DEF RequireStopBarrier
<1> HIDE DEF b
<1>4. QED
    BY <1>2, <1>3 DEF Stopped, Gates

LEMMA ResetIs ==
    ASSUME NEW g \in Gates, NEW gen \in Generations
    PROVE  /\ GateReset(g, gen) \in Gates /\ GateReset(g, gen).gen = gen
           /\ Ready(GateReset(g, gen))
<1>1. NoPending \in Pendings /\ ~NoPending.armed
    BY ChannelsAre DEF NoPending, Pendings
<1>2. NoBarrier \in Barriers /\ ~NoBarrier.up
    BY ChannelsAre DEF NoBarrier, Barriers
<1>3. QED
    BY <1>1, <1>2 DEF GateReset, Gates, Ready

\* Arming a gate.
LEMMA ArmIs ==
    ASSUME NEW g \in Gates, NEW s \in Baselines
    PROVE  /\ Arm(g, s) \in Gates /\ Arm(g, s).gen = g.gen
           /\ Arm(g, s).barrier = g.barrier /\ Arm(g, s).pending.armed
<1> DEFINE p == [armed |-> TRUE, start |-> s]
<1>1. p \in Pendings /\ p.armed
    BY DEF Pendings
<1>2. Arm(g, s) = [g EXCEPT !.pending = p]
    BY DEF Arm
<1> HIDE DEF p
<1>3. QED
    BY <1>1, <1>2 DEF Gates

\* Acknowledging a barrier takes the newer of both baselines.
LEMMA AcknowledgeIs ==
    ASSUME NEW g \in Gates, NEW s \in Baselines
    PROVE  LET h == AcknowledgeStop(g, s) IN
           /\ h \in Gates /\ h.gen = g.gen /\ h.pending = g.pending
           /\ h.barrier.up = g.barrier.up /\ h.barrier.acked
           /\ \A c \in Channels : h.barrier.ack[c] >= s[c]
<1>1. g.barrier \in Barriers /\ g.barrier.asked \in Baselines
    BY DEF Gates, Barriers
<1>2. /\ Join(s, g.barrier.asked) \in Baselines
      /\ \A c \in Channels : Join(s, g.barrier.asked)[c] >= s[c]
    BY <1>1, JoinIs
<1> DEFINE j == Join(s, g.barrier.asked)
           b == [g.barrier EXCEPT !.acked = TRUE, !.ack = j]
<1>3. AcknowledgeStop(g, s) = [g EXCEPT !.barrier = b]
    BY DEF AcknowledgeStop, Gates
<1>4. b \in Barriers /\ b.up = g.barrier.up /\ b.acked /\ b.ack = j
    <2> HIDE DEF j
    <2>1. j \in Baselines
        BY <1>2 DEF j
    <2>2. QED
        BY <1>1, <2>1 DEF Barriers
<1> HIDE DEF b
<1>5. QED
    BY <1>2, <1>3, <1>4 DEF Gates

\* A reset inherits the confirmed stop of the identity it replaces.
LEMMA InheritIs ==
    ASSUME NEW g \in Gates, NEW s \in Baselines, Ready(g)
    PROVE  LET h == InheritConfirmedStop(g, s) IN
           /\ h \in Gates /\ h.gen = g.gen /\ Exclusive(h)
           /\ ~h.pending.armed /\ h.barrier.up /\ h.barrier.acked
           /\ h.barrier.ack = s
<1> DEFINE b == [up |-> TRUE, acked |-> TRUE, asked |-> s, ack |-> s]
<1>1. b \in Barriers /\ b.up /\ b.acked /\ b.ack = s
    BY DEF Barriers
<1>2. InheritConfirmedStop(g, s) = [g EXCEPT !.barrier = b]
    BY DEF InheritConfirmedStop
<1> HIDE DEF b
<1>3. QED
    BY <1>1, <1>2 DEF Gates, Ready, Exclusive

\* An observation stops an active motion, lifts an acknowledged barrier that the
\* sample has passed, or leaves the gate alone.
LEMMA ObserveIs ==
    ASSUME NEW g \in Gates, NEW s \in Baselines, NEW reached \in BOOLEAN,
           Exclusive(g)
    PROVE  LET h == Observe(g, s, reached)
               decision == ObserveDecision(g, s, reached)
           IN
           /\ ~(RequiresSafeStop(decision) /\ PermitsModelStep(decision))
           /\ RequiresSafeStop(decision) => Stopped(g, h) /\ g.pending.armed
           /\ PermitsModelStep(decision) =>
                /\ h \in Gates /\ h.gen = g.gen
                /\ Ready(h) /\ ~h.barrier.acked /\ ~g.pending.armed
                /\ g.barrier.up => g.barrier.acked /\ StrictlyNewer(s, g.barrier.ack)
           /\ ~RequiresSafeStop(decision) /\ ~PermitsModelStep(decision) => h = g
<1> DEFINE decision == ObserveDecision(g, s, reached)
<1>1. CASE g.barrier.up
    <2>1. decision \in {"hold_cancel_ack", "ready", "hold_post_stop"}
        BY <1>1 DEF ObserveDecision, BarrierDecision
    <2>2. decision = "ready" => g.barrier.acked /\ StrictlyNewer(s, g.barrier.ack)
        BY <1>1 DEF ObserveDecision, BarrierDecision
    <2>3. NoBarrier \in Barriers /\ ~NoBarrier.up /\ ~NoBarrier.acked
        BY ChannelsAre DEF NoBarrier, Barriers
    <2>4. decision = "ready" =>
            Observe(g, s, reached) = [g EXCEPT !.barrier = NoBarrier]
        BY DEF Observe
    <2>5. decision # "ready" => Observe(g, s, reached) = g
        BY <2>1 DEF Observe
    <2>6. ~g.pending.armed
        BY <1>1 DEF Exclusive
    <2> HIDE DEF decision
    <2>7. decision = "ready" =>
            LET h == Observe(g, s, reached) IN
            h \in Gates /\ h.gen = g.gen /\ Ready(h) /\ ~h.barrier.acked
        BY <2>3, <2>4, <2>6 DEF Gates, Ready
    <2>8. QED
        BY <2>1, <2>2, <2>5, <2>6, <2>7
        DEF decision, RequiresSafeStop, PermitsModelStep
<1>2. CASE ~g.barrier.up /\ g.pending.armed
    <2>1. decision \in {"safe_stop_stale", "safe_stop_timeout",
                        "safe_stop_complete", "hold_motion"}
        BY <1>2 DEF ObserveDecision, MotionDecision
    <2>2. decision = "safe_stop_stale" =>
            Observe(g, s, reached) = FailActiveMotion(g, s)
        BY DEF Observe
    <2>3. decision \in {"safe_stop_timeout", "safe_stop_complete"} =>
            Observe(g, s, reached) = TransitionToStop(g, s)
        BY DEF Observe
    <2>4. decision = "hold_motion" => Observe(g, s, reached) = g
        BY DEF Observe
    <2> HIDE DEF decision
    <2>5. QED
        BY <1>2, <2>1, <2>2, <2>3, <2>4, FailIs, TransitionIs
        DEF decision, RequiresSafeStop, PermitsModelStep
<1>3. CASE ~g.barrier.up /\ ~g.pending.armed
    <2>1. decision = "ready"
        BY <1>3 DEF ObserveDecision
    <2>2. NoBarrier \in Barriers /\ ~NoBarrier.up /\ ~NoBarrier.acked
        BY ChannelsAre DEF NoBarrier, Barriers
    <2>3. Observe(g, s, reached) = [g EXCEPT !.barrier = NoBarrier]
        BY <2>1 DEF Observe
    <2>4. QED
        BY <1>3, <2>1, <2>2, <2>3
        DEF Gates, Ready, RequiresSafeStop, PermitsModelStep
<1>4. QED
    BY <1>1, <1>2, <1>3

\* What the client stamps a request or an acknowledgement with.
LEMMA SensorsAre ==
    ASSUME client \in Clients, NEW sim \in Nat
    PROVE  /\ Sensors(sim) \in Baselines
           /\ Sensors(sim)["sim"] = sim
           /\ Sensors(sim)["odom"] = client.odom
           /\ Sensors(sim)["odomSerial"] = client.serial
           /\ Sensors(sim)["cam"] = client.cam
           /\ Sensors(sim)["camSerial"] = client.camSerial
<1>1. /\ client.odom \in Nat /\ client.serial \in Nat
      /\ client.cam \in Nat /\ client.camSerial \in Nat
    BY DEF Clients
<1>2. QED
    BY <1>1 DEF Sensors, Zero, Baselines, Channels

-----------------------------------------------------------------------------
(* Steps by what they change.                                                *)

\* Publishing a stop and taking an acknowledgement.
LEMMA WiresAre ==
    ASSUME wire \in Wires
    PROVE  /\ SafeStopped \in Wires
           /\ SafeStopped.requests = wire.requests /\ SafeStopped.acks = wire.acks
           /\ Popped \in Wires
           /\ Popped.requests = wire.requests /\ Popped.acks \subseteq wire.acks
           /\ [Popped EXCEPT !.stop = TRUE] \in Wires
           /\ [Popped EXCEPT !.stop = TRUE].requests = wire.requests
           /\ [Popped EXCEPT !.stop = TRUE].acks \subseteq wire.acks
BY DEF Wires, SafeStopped, Popped

\* Publishing a stop request.
LEMMA RequestIs ==
    ASSUME Typed, NEW then \in {"callback", "initialize", "reset", "step", "failure"},
           Request(then)
    PROVE  /\ op' \in Holders /\ op'.kind = "stopping"
           /\ op'.token = client.stops + 1
           /\ wire' \in Wires
           /\ wire'.requests = wire.requests \cup {client.stops + 1}
           /\ wire'.acks = wire.acks
<1>1. client.stops \in Nat /\ wire \in Wires
    BY DEF Typed, Clients
<1>2. op' = [kind |-> "stopping", then |-> then, token |-> client.stops + 1]
    BY DEF Request
<1>3. wire' = [SafeStopped EXCEPT !.requests = @ \cup {client.stops + 1}]
    BY DEF Request
<1>4. client.stops + 1 \in Nat \ {0}
    BY <1>1
<1>5. op' \in Holders /\ op'.kind = "stopping" /\ op'.token = client.stops + 1
    BY <1>2, <1>4 DEF Holders
<1>6. QED
    BY <1>1, <1>3, <1>4, <1>5, WiresAre DEF Wires

\* The client's fields that say who it is and what it has seen.
SameClient ==
    /\ client'.initialized = client.initialized /\ client'.gen = client.gen
    /\ client'.epoch = client.epoch /\ client'.stops = client.stops
    /\ client'.odom = client.odom /\ client'.serial = client.serial
    /\ client'.cam = client.cam /\ client'.camSerial = client.camSerial
    /\ client'.settled = client.settled /\ client'.blind = client.blind
    /\ client'.misuse = client.misuse

\* A step that leaves the gate and what the client knows alone, delivers or adds
\* no request and no acknowledgement, and starts no goal the client must watch.
QuietStep ==
    /\ clock' \in 1..MaxTime
    /\ gate' = gate
    /\ client' \in Clients /\ SameClient
    /\ op' \in Holders /\ op'.token <= client.stops /\ LockProtects'
    /\ op'.kind = "stopping" => op' = op
    /\ cb' \in Callbacks /\ cb'.epoch <= client.epoch
    /\ cb' = cb \/ cb'.phase # "valid"
    /\ nav' \in Adapters /\ (Supervisable' => Supervisable)
    /\ wire' \in Wires
    /\ wire'.requests \subseteq wire.requests /\ wire'.acks \subseteq wire.acks
    /\ service' \in 0..MaxGeneration
    /\ service' = service \/ ~gate.pending.armed

LEMMA QuietKeeps ==
    ASSUME Inv, QuietStep
    PROVE  Inv'
<1>1. Typed'
    <2>1. TokensKnown'
        BY DEF Inv, Typed, TokensKnown, QuietStep, SameClient
    <2>2. QED
        BY <2>1 DEF Inv, Typed, QuietStep
<1>2. Exclusive(gate)' /\ MotionIsOurs' /\ NoGateMisuse'
    BY DEF Inv, QuietStep, SameClient, Exclusive, MotionIsOurs, NoGateMisuse
<1>3. GoalIsSupervised' /\ ConfirmedIsCancelled'
    BY DEF Inv, QuietStep, GoalIsSupervised, ConfirmedIsCancelled, Supervisable
<1>4. CallbackIsCached'
    BY DEF Inv, QuietStep, SameClient, CallbackIsCached
<1>5. Settled'
    BY DEF Inv, QuietStep, SameClient, Settled, CachesAreNewer
<1>6. LockProtects'
    BY DEF QuietStep
<1>7. QED
    BY <1>1, <1>2, <1>3, <1>4, <1>5, <1>6 DEF Inv

\* A step that asks for a stop and waits: a barrier is up that nobody has
\* acknowledged, whatever becomes of the goal.
StopStep ==
    /\ clock' \in 1..MaxTime
    /\ gate' \in Gates
    /\ gate'.barrier.up /\ ~gate'.barrier.acked /\ ~gate'.pending.armed
    /\ client' \in Clients /\ client'.stops = client.stops + 1
    /\ ~client'.misuse /\ (client'.initialized => client'.gen >= 0)
    /\ \/ client'.epoch > client.epoch
       \/ /\ client'.epoch = client.epoch
          /\ client'.odom = client.odom /\ client'.serial = client.serial
    /\ \E then \in {"callback", "initialize", "reset", "step", "failure"} :
          Request(then)
    /\ cb' = cb
    /\ nav' \in Adapters
    /\ service' = service

LEMMA StopKeeps ==
    ASSUME Inv, StopStep
    PROVE  Inv'
<1>1. /\ op' \in Holders /\ op'.kind = "stopping"
      /\ op'.token = client.stops + 1
      /\ wire' \in Wires
      /\ wire'.requests = wire.requests \cup {client.stops + 1}
      /\ wire'.acks = wire.acks
    BY RequestIs DEF Inv, StopStep
<1>2. client.stops \in Nat /\ client'.stops = client.stops + 1
    BY DEF Inv, Typed, Clients, StopStep
<1>2a. /\ \A t \in wire.requests : t \in Nat /\ t <= client.stops
       /\ \A a \in wire.acks : a.token \in Nat /\ a.token <= client.stops
    BY DEF Inv, Typed, Wires, TokensKnown
<1>3. TokensKnown'
    BY <1>1, <1>2, <1>2a DEF TokensKnown
<1>4. Typed'
    BY <1>1, <1>3 DEF Inv, Typed, StopStep
<1>5. Exclusive(gate)' /\ MotionIsOurs' /\ GoalIsSupervised' /\ Settled'
    BY DEF StopStep, Exclusive, MotionIsOurs, GoalIsSupervised, Settled
<1>6. LockProtects'
    BY <1>1 DEF StopStep, LockProtects
<1>7. ConfirmedIsCancelled'
    BY <1>1, <1>2, <1>2a DEF ConfirmedIsCancelled
<1>8. CallbackIsCached'
    BY DEF Inv, Typed, Callbacks, Clients, StopStep, CallbackIsCached
<1>9. QED
    BY <1>4, <1>5, <1>6, <1>7, <1>8 DEF Inv, StopStep, NoGateMisuse

-----------------------------------------------------------------------------
(* The actions that are quiet.                                               *)

LEMMA HoldersKeep ==
    ASSUME Inv, gate' = gate, client' \in Clients, SameClient,
           \/ op' \in {op, Free, Busy("dead")}
           \/ op' = Busy("resetting") /\ gate.barrier.acked
    PROVE  /\ op' \in Holders /\ op'.token <= client.stops /\ LockProtects'
           /\ op'.kind = "stopping" => op' = op
<1>1. op \in Holders /\ op.token <= client.stops /\ client.stops \in Nat
    BY DEF Inv, Typed, TokensKnown, Clients
<1>2. /\ Free \in Holders /\ Free.token = 0 /\ Free.kind = "free"
      /\ Busy("dead") \in Holders /\ Busy("dead").token = 0
      /\ Busy("dead").kind = "dead"
      /\ Busy("resetting") \in Holders /\ Busy("resetting").token = 0
      /\ Busy("resetting").kind = "resetting"
    BY DEF Free, Busy, Holders
<1>3. LockProtects'
    BY <1>2 DEF Inv, LockProtects, SameClient
<1>4. QED
    BY <1>1, <1>2, <1>3

\* What may stay as it is in a quiet step.
LEMMA QuietParts ==
    ASSUME Inv
    PROVE  /\ client \in Clients /\ cb \in Callbacks /\ cb.epoch <= client.epoch
           /\ nav \in Adapters /\ wire \in Wires /\ gate \in Gates /\ op \in Holders
           /\ client.epoch \in Nat /\ client.stops \in Nat
           /\ NoCallback \in Callbacks /\ NoCallback.epoch = 0
           /\ NoCallback.phase = "none"
           /\ Standing \in Adapters /\ ~Standing.goal
           /\ clock \in 1..MaxTime /\ service \in 0..MaxGeneration
BY DEF Inv, Typed, CallbackIsCached, Clients, NoCallback, Callbacks, Standing,
       Adapters

\* A step that leaves the client and the gate alone and the lock free or held
\* as before is quiet if its other parts are.
LEMMA QuietUnless ==
    ASSUME Inv, gate' = gate, client' = client,
           \/ op' \in {op, Free, Busy("dead")}
           \/ op' = Busy("resetting") /\ gate.barrier.acked,
           clock' \in 1..MaxTime,
           cb' \in Callbacks, cb'.epoch <= client.epoch,
           cb' = cb \/ cb'.phase # "valid",
           nav' \in Adapters, Supervisable' => Supervisable,
           wire' \in Wires,
           wire'.requests \subseteq wire.requests, wire'.acks \subseteq wire.acks,
           service' \in 0..MaxGeneration,
           service' = service \/ ~gate.pending.armed
    PROVE  Inv'
<1>1. client' \in Clients /\ SameClient
    BY QuietParts DEF SameClient
<1>2. /\ op' \in Holders /\ op'.token <= client.stops /\ LockProtects'
      /\ op'.kind = "stopping" => op' = op
    BY <1>1, HoldersKeep
<1>3. QED
    BY <1>1, <1>2, QuietKeeps DEF QuietStep

\* Time passes, a callback starts or is dropped.
LEMMA CallbackSteps ==
    ASSUME Inv,
           \/ Advance
           \/ \E sim \in Nat, odom \in Nat : OdometryReceived(sim, odom)
           \/ CallbackDropped
    PROVE  Inv'
<1>1. CASE Advance
    <2>1. clock' \in 1..MaxTime
        BY <1>1, QuietParts DEF Advance
    <2>2. QED
        BY <1>1, <2>1, QuietParts, QuietUnless DEF Advance, Supervisable
<1>2. CASE \E sim \in Nat, odom \in Nat : OdometryReceived(sim, odom)
    <2>1. PICK sim \in Nat, odom \in Nat : OdometryReceived(sim, odom)
        BY <1>2
    <2>2. /\ cb' \in Callbacks /\ cb'.epoch <= client.epoch
          /\ cb'.phase = "received"
        BY <2>1, QuietParts DEF OdometryReceived, Callbacks
    <2>3. QED
        BY <2>1, <2>2, QuietParts, QuietUnless DEF OdometryReceived, Supervisable
<1>3. CASE CallbackDropped
    <2>1. QED
        BY <1>3, QuietParts, QuietUnless DEF CallbackDropped, Supervisable
<1>4. QED
    BY <1>1, <1>2, <1>3

\* A stop that is not confirmed, and one the gate refuses to confirm.
LEMMA UnconfirmedStops ==
    ASSUME Inv, StopFailed \/ StopUnderForeignIdentity
    PROVE  Inv'
<1>1. CASE StopFailed
    <2>1. client' \in Clients /\ SameClient
        BY <1>1, QuietParts DEF StopFailed, Clients, SameClient
    <2>2. /\ wire' \in Wires /\ wire'.requests = wire.requests
          /\ wire'.acks \subseteq wire.acks
        BY <1>1, QuietParts, WiresAre DEF StopFailed
    <2>3. /\ op' \in Holders /\ op'.token <= client.stops /\ LockProtects'
          /\ op'.kind = "stopping" => op' = op
        BY <1>1, <2>1, HoldersKeep DEF StopFailed
    <2>4. QED
        BY <1>1, <2>1, <2>2, <2>3, QuietParts, QuietKeeps
        DEF StopFailed, QuietStep, Supervisable
<1>2. CASE StopUnderForeignIdentity
    <2>1. QED
        BY <1>2, QuietParts, WiresAre, QuietUnless
        DEF StopUnderForeignIdentity, Supervisable
<1>3. QED
    BY <1>1, <1>2

\* Resets that end before the model is asked, or go no further than asking it.
LEMMA QuietResets ==
    ASSUME Inv,
           \/ ResetWithoutClock
           \/ ResetUnderForeignIdentity
           \/ RetainConfirmedStop
           \/ ModelResetFails
    PROVE  Inv'
<1>1. ModelResetFails => service' \in 0..MaxGeneration /\ ~gate.pending.armed
    BY QuietParts DEF ModelResetFails, ServiceMoves, Inv, LockProtects, Exclusive
<1>2. QED
    BY <1>1, QuietParts, WiresAre, QuietUnless
    DEF ResetWithoutClock, ResetUnderForeignIdentity, RetainConfirmedStop,
        ModelResetFails, Supervisable

\* Steps that end without a new goal.
LEMMA QuietStepsOfTheModel ==
    ASSUME Inv,
           \/ \E serial \in Nat, stamp \in Nat : StepRefused(serial, stamp)
           \/ StepFails
           \/ InferenceFails
           \/ ResolutionAbandoned
           \/ ResolvedToStand
           \/ ResolvedToOldGoal
    PROVE  Inv'
<1>1. InferenceFails => service' \in 0..MaxGeneration /\ ~gate.pending.armed
    BY QuietParts DEF InferenceFails, ServiceMoves, Inv, LockProtects, Ready
<1>2. ResolvedToOldGoal => nav' \in Adapters /\ (Supervisable' => Supervisable)
    BY QuietParts DEF ResolvedToOldGoal, Adapters, Supervisable
<1>3. ResolutionAbandoned => /\ wire' \in Wires /\ wire'.requests = wire.requests
                             /\ wire'.acks = wire.acks
    BY QuietParts, WiresAre DEF ResolutionAbandoned, Wires
<1>4. (InferenceFails \/ ResolvedToStand) =>
        nav' \in Adapters /\ (Supervisable' => Supervisable)
    BY QuietParts DEF InferenceFails, ResolvedToStand, Supervisable
<1>5. QED
    <2>1. /\ clock' \in 1..MaxTime /\ gate' = gate /\ client' = client /\ cb' = cb
          /\ op' \in {op, Free}
        BY QuietParts
        DEF StepRefused, StepFails, InferenceFails, ResolutionAbandoned,
            ResolvedToStand, ResolvedToOldGoal
    <2>2. nav' \in Adapters /\ (Supervisable' => Supervisable)
        BY <1>2, <1>4, QuietParts
        DEF StepRefused, StepFails, ResolutionAbandoned, Supervisable
    <2>3. /\ wire' \in Wires /\ wire'.requests \subseteq wire.requests
          /\ wire'.acks \subseteq wire.acks
        BY <1>3, QuietParts, WiresAre
        DEF StepRefused, StepFails, InferenceFails, ResolvedToStand,
            ResolvedToOldGoal
    <2>4. /\ service' \in 0..MaxGeneration
          /\ service' = service \/ ~gate.pending.armed
        BY <1>1, QuietParts
        DEF StepRefused, StepFails, ResolutionAbandoned, ResolvedToStand,
            ResolvedToOldGoal
    <2>5. QED
        BY <2>1, <2>2, <2>3, <2>4, QuietParts, QuietUnless

\* The adapter forgets a goal, stops forwarding, or takes up an abandoned plan.
LEMMA QuietAdapter ==
    ASSUME Inv, AdapterDisablesMotion \/ AdapterResolvesLate \/ GoalFinishes
    PROVE  Inv'
<1>1. /\ wire' \in Wires /\ wire'.requests = wire.requests
      /\ wire'.acks = wire.acks
    BY QuietParts
    DEF AdapterDisablesMotion, AdapterResolvesLate, GoalFinishes, Wires
<1>2. nav' \in Adapters /\ (Supervisable' => Supervisable)
    BY QuietParts
    DEF AdapterDisablesMotion, AdapterResolvesLate, GoalFinishes, Moving,
        Adapters, Supervisable
<1>3. QED
    BY <1>1, <1>2, QuietParts, QuietUnless
    DEF AdapterDisablesMotion, AdapterResolvesLate, GoalFinishes

-----------------------------------------------------------------------------
(* The actions that request a stop and wait.                                 *)

LEMMA SamplesAre ==
    ASSUME Inv
    PROVE  /\ CallbackSample \in Baselines
           /\ CallbackSample["odom"] = cb.odom
           /\ CallbackSample["odomSerial"] = cb.serial
           /\ CallbackSample["cam"] = client.cam
           /\ CallbackSample["camSerial"] = client.camSerial
           /\ [CallbackSample EXCEPT !["sim"] = cb.sim] \in Baselines
           /\ StepSample \in Baselines
           /\ StepSample["odom"] = client.odom
           /\ StepSample["odomSerial"] = client.serial
           /\ StepSample["cam"] = client.cam
           /\ StepSample["camSerial"] = client.camSerial
<1>1. /\ client \in Clients /\ client.odom \in Nat /\ client.cam \in Nat
      /\ cb.sim \in Nat /\ cb.odom \in Nat /\ cb.serial \in Nat /\ clock \in Nat
    BY DEF Inv, Typed, Clients, Callbacks
<1>2. /\ Larger(cb.sim, cb.odom) \in Nat
      /\ Larger(clock, Larger(client.odom, client.cam)) \in Nat
    BY <1>1 DEF Larger
<1>3. CallbackSample \in Baselines
    BY <1>1, <1>2, SensorsAre, ChannelsAre, BaselinesChange DEF CallbackSample, Baselines
<1>4. /\ CallbackSample["odom"] = cb.odom
      /\ CallbackSample["odomSerial"] = cb.serial
      /\ CallbackSample["cam"] = client.cam
      /\ CallbackSample["camSerial"] = client.camSerial
    BY <1>1, <1>2, SensorsAre, ChannelsAre DEF CallbackSample, Baselines
<1>5. [CallbackSample EXCEPT !["sim"] = cb.sim] \in Baselines
    BY <1>1, <1>3, ChannelsAre, BaselinesChange
<1>6. QED
    BY <1>1, <1>2, <1>3, <1>4, <1>5, SensorsAre DEF StepSample

\* The caches as they are when the client counts one more stop.
LEMMA CountsStop ==
    ASSUME Inv, NEW misused \in BOOLEAN,
           client' = [client EXCEPT !.stops = @ + 1, !.misuse = @ \/ misused],
           ~misused
    PROVE  /\ client' \in Clients /\ client'.stops = client.stops + 1
           /\ ~client'.misuse /\ (client'.initialized => client'.gen >= 0)
           /\ client'.epoch = client.epoch
           /\ client'.odom = client.odom /\ client'.serial = client.serial
<1>1. client \in Clients /\ client.stops + 1 \in Nat /\ ~client.misuse
    BY QuietParts DEF Inv, NoGateMisuse
<1>2. client.initialized => client.gen >= 0
    BY DEF Inv, LockProtects
<1>3. QED
    BY <1>1, <1>2 DEF Clients

\* A new odometry barrier empties the cache and begins a new epoch.
LEMMA ArmedOdometryIs ==
    ASSUME NEW c \in Clients, NEW sim \in Nat
    PROVE  LET d == ArmOdometryBarrier(c, sim) IN
           /\ d \in Clients /\ d.epoch = c.epoch + 1 /\ d.odom = 0
           /\ d.simBarrier = sim /\ d.serialBarrier = c.serial
           /\ d.gen = c.gen /\ d.stops = c.stops /\ d.serial = c.serial
           /\ d.cam = c.cam /\ d.camSerial = c.camSerial
           /\ d.settled = c.settled /\ d.blind = c.blind /\ d.misuse = c.misuse
           /\ d.initialized = c.initialized
<1>1. c.epoch + 1 \in Nat /\ c.serial \in Nat
    BY DEF Clients
<1>2. QED
    BY <1>1 DEF ArmOdometryBarrier, Clients

LEMMA CallbackFailsMotionKeeps ==
    ASSUME Inv, CallbackFailsMotion
    PROVE  Inv'
<1>1. Stopped(gate, gate')
    BY QuietParts, SamplesAre, FailIs DEF CallbackFailsMotion
<1>2. FailAllowed(gate, client.gen)
    BY DEF CallbackFailsMotion, FailAllowed, Inv, MotionIsOurs
<1>3. /\ client' \in Clients /\ client'.stops = client.stops + 1
      /\ ~client'.misuse /\ (client'.initialized => client'.gen >= 0)
      /\ client'.epoch = client.epoch
      /\ client'.odom = client.odom /\ client'.serial = client.serial
    BY <1>2, CountsStop DEF CallbackFailsMotion
<1>4. QED
    BY <1>1, <1>3, QuietParts, StopKeeps DEF CallbackFailsMotion, StopStep, Stopped

\* The branch of an observation that stops an active motion.
LEMMA ObservationStops ==
    ASSUME Inv, NEW s \in Baselines, NEW reached \in BOOLEAN,
           NEW then \in {"callback", "step"},
           gate' = Observe(gate, s, reached),
           RequiresSafeStop(ObserveDecision(gate, s, reached)),
           client' = [client EXCEPT !.stops = @ + 1], Request(then),
           UNCHANGED <<clock, cb, nav, service>>
    PROVE  Inv'
<1>1. Stopped(gate, gate')
    BY QuietParts, ObserveIs DEF Inv
<1>2. client' = [client EXCEPT !.stops = @ + 1, !.misuse = @ \/ FALSE]
    BY QuietParts DEF Clients
<1>3. /\ client' \in Clients /\ client'.stops = client.stops + 1
      /\ ~client'.misuse /\ (client'.initialized => client'.gen >= 0)
      /\ client'.epoch = client.epoch
      /\ client'.odom = client.odom /\ client'.serial = client.serial
    BY <1>2, CountsStop
<1>4. QED
    BY <1>1, <1>3, QuietParts, StopKeeps DEF StopStep, Stopped

LEMMA InitializeKeeps ==
    ASSUME Inv, Initialize
    PROVE  Inv'
<1>1. clock \in Nat /\ service \in Generations /\ service >= 0
    BY QuietParts DEF Generations
<1>2. /\ client' \in Clients /\ client'.stops = client.stops + 1
      /\ ~client'.misuse /\ client'.gen >= 0
      /\ client'.epoch > client.epoch
    <2> DEFINE c == [client EXCEPT !.initialized = TRUE, !.gen = service,
                                   !.fault = FALSE, !.stops = @ + 1]
    <2>0. client \in Clients /\ client.stops + 1 \in Nat /\ TRUE \in BOOLEAN
        BY QuietParts
    <2>1. /\ c \in Clients /\ c.stops = client.stops + 1 /\ c.misuse = client.misuse
          /\ c.gen = service /\ c.epoch = client.epoch /\ c.serial = client.serial
        BY <1>1, <2>0 DEF Clients
    <2>2. client' = ArmOdometryBarrier(c, clock)
        BY DEF Initialize
    <2> HIDE DEF c
    <2>3. /\ client' \in Clients /\ client'.stops = c.stops
          /\ client'.misuse = c.misuse /\ client'.gen = c.gen
          /\ client'.epoch = c.epoch + 1
        BY <1>1, <2>1, <2>2, ArmedOdometryIs
    <2>4. QED
        BY <1>1, <2>1, <2>3, QuietParts DEF Inv, NoGateMisuse
<1>3. [Sensors(clock) EXCEPT !["odom"] = 0] \in Baselines
    BY <1>1, QuietParts, SensorsAre, ChannelsAre, BaselinesChange
<1>4. GateReset(gate, service) \in Gates /\ ~GateReset(gate, service).pending.armed
    BY <1>1, QuietParts, ResetIs DEF Ready
<1>5. Stopped(GateReset(gate, service), gate')
    BY <1>3, <1>4, RequireIs DEF Initialize
<1>6. QED
    BY <1>2, <1>5, QuietParts, StopKeeps DEF Initialize, StopStep, Stopped

LEMMA ConfirmStopKeeps ==
    ASSUME Inv, ConfirmStop
    PROVE  Inv'
<1>1. Sensors(clock) \in Baselines
    BY QuietParts, SensorsAre
<1>2. Stopped(gate, gate')
    <2>1. CASE gate.pending.armed
        BY <1>1, <2>1, QuietParts, FailIs DEF ConfirmStop
    <2>2. CASE ~gate.pending.armed /\ gate.barrier.up
        BY <2>2, QuietParts DEF ConfirmStop, Stopped
    <2>3. CASE ~gate.pending.armed /\ ~gate.barrier.up
        BY <1>1, <2>3, QuietParts, RequireIs DEF ConfirmStop
    <2>4. QED
        BY <2>1, <2>2, <2>3
<1>3. client' = [client EXCEPT !.stops = @ + 1, !.misuse = @ \/ FALSE]
    BY QuietParts DEF ConfirmStop, Clients
<1>4. /\ client' \in Clients /\ client'.stops = client.stops + 1
      /\ ~client'.misuse /\ (client'.initialized => client'.gen >= 0)
      /\ client'.epoch = client.epoch
      /\ client'.odom = client.odom /\ client'.serial = client.serial
    BY <1>3, CountsStop
<1>5. QED
    BY <1>2, <1>4, QuietParts, StopKeeps DEF ConfirmStop, StopStep, Stopped

\* The baselines a motion is armed with are the gate's to accept.
LEMMA MotionCanBeArmed ==
    ASSUME Inv, Answered, BaselineAvailable
    PROVE  LET s == WithoutCamera(Sensors(Larger(clock, client.odom))) IN
           s \in Baselines /\ ArmAllowed(gate, client.gen, s)
<1>1. /\ clock \in Nat /\ clock > 0 /\ client.odom \in Nat /\ client.odom > 0
      /\ client.serial \in Nat /\ client.serial > 0
    BY DEF Inv, Typed, Clients, BaselineAvailable, PoseAvailable
<1>2. Larger(clock, client.odom) \in Nat /\ Larger(clock, client.odom) > 0
    BY <1>1 DEF Larger
<1>3. Ready(gate) /\ gate.gen = client.gen
    BY DEF Inv, LockProtects, Answered
<1>4. QED
    BY <1>1, <1>2, <1>3, QuietParts, SensorsAre, WithoutCameraIs DEF ArmAllowed

LEMMA ResolvedButNotArmedKeeps ==
    ASSUME Inv, ResolvedButNotArmed
    PROVE  Inv'
<1>1. Ready(gate) /\ gate.gen = client.gen
    BY DEF Inv, LockProtects, ResolvedButNotArmed, Answered
<1>2. Stopped(gate, gate')
    BY <1>1, QuietParts, SensorsAre, RequireIs DEF ResolvedButNotArmed, Ready
<1>3. RequireAllowed(gate, client.gen) /\ ~gate.barrier.up
    BY <1>1 DEF RequireAllowed, Ready
<1>4. client' = [client EXCEPT !.stops = @ + 1, !.misuse = @ \/ FALSE]
    BY <1>3 DEF ResolvedButNotArmed
<1>5. /\ client' \in Clients /\ client'.stops = client.stops + 1
      /\ ~client'.misuse /\ (client'.initialized => client'.gen >= 0)
      /\ client'.epoch = client.epoch
      /\ client'.odom = client.odom /\ client'.serial = client.serial
    BY <1>4, CountsStop
<1>6. Moving \in Adapters
    BY DEF Moving, Adapters
<1>7. QED
    BY <1>2, <1>5, <1>6, QuietParts, StopKeeps
    DEF ResolvedButNotArmed, StopStep, Stopped

LEMMA ResolvedButNotRecordedKeeps ==
    ASSUME Inv, ResolvedButNotRecorded
    PROVE  Inv'
<1> DEFINE s == WithoutCamera(Sensors(Larger(clock, client.odom)))
<1>1. s \in Baselines /\ ArmAllowed(gate, client.gen, s)
    BY MotionCanBeArmed DEF ResolvedButNotRecorded
<1>2. Arm(gate, s) \in Gates
    BY <1>1, QuietParts, ArmIs
<1>3. gate' = FailActiveMotion(Arm(gate, s), Sensors(clock))
    BY DEF ResolvedButNotRecorded
<1>4. client' = [client EXCEPT !.stops = @ + 1, !.misuse = @ \/ FALSE]
    BY <1>1 DEF ResolvedButNotRecorded
<1> HIDE DEF s
<1>5. Stopped(Arm(gate, s), gate')
    BY <1>2, <1>3, QuietParts, SensorsAre, FailIs
<1>6. /\ client' \in Clients /\ client'.stops = client.stops + 1
      /\ ~client'.misuse /\ (client'.initialized => client'.gen >= 0)
      /\ client'.epoch = client.epoch
      /\ client'.odom = client.odom /\ client'.serial = client.serial
    BY <1>4, CountsStop
<1>7. Moving \in Adapters
    BY DEF Moving, Adapters
<1>8. QED
    BY <1>5, <1>6, <1>7, QuietParts, StopKeeps
    DEF ResolvedButNotRecorded, StopStep, Stopped

-----------------------------------------------------------------------------
(* The actions that settle something.                                        *)

LEMMA StopConfirmedKeeps ==
    ASSUME Inv, NEW audited \in BOOLEAN, StopConfirmed(audited)
    PROVE  Inv'
<1> DEFINE s == Sensors(clock)
<1>1. s \in Baselines /\ s["sim"] = clock /\ clock > 0
    BY QuietParts, SensorsAre
<1>2. gate.barrier.up /\ ~gate.barrier.acked /\ ~gate.pending.armed
    BY DEF StopConfirmed, Stopping, Inv, LockProtects, Exclusive
<1>3. AcknowledgeAllowed(gate, client.gen, s)
    BY <1>1, <1>2 DEF StopConfirmed, AcknowledgeAllowed
<1>4. gate' = AcknowledgeStop(gate, s)
    BY <1>3 DEF StopConfirmed
<1>5. client' = [client EXCEPT !.fault = ~audited, !.settled = s, !.blind = FALSE,
                               !.misuse = @ \/ FALSE]
    BY <1>3 DEF StopConfirmed
<1> HIDE DEF s
<1>6. /\ gate' \in Gates /\ gate'.gen = gate.gen
      /\ gate'.barrier.up /\ gate'.barrier.acked /\ ~gate'.pending.armed
      /\ \A c \in Channels : gate'.barrier.ack[c] >= s[c]
    BY <1>1, <1>2, <1>4, QuietParts, AcknowledgeIs
<1>7. /\ client' \in Clients /\ client'.settled = s
      /\ client'.initialized = client.initialized /\ client'.gen = client.gen
      /\ client'.stops = client.stops /\ client'.epoch = client.epoch
      /\ client'.odom = client.odom /\ client'.serial = client.serial
      /\ ~client'.misuse
    <2>1. (~audited) \in BOOLEAN
        OBVIOUS
    <2>2. ~client.misuse
        BY DEF Inv, NoGateMisuse
    <2>3. QED
        BY <1>1, <1>5, <2>1, <2>2, QuietParts DEF Clients
<1>8. /\ op' \in {Busy("resetting"), Free} /\ op' \in Holders /\ op'.token = 0
      /\ op'.kind \in {"resetting", "free"}
    BY DEF StopConfirmed, Busy, Free, Holders
<1>9. /\ wire' \in Wires /\ wire'.requests = wire.requests
      /\ wire'.acks \subseteq wire.acks
    BY QuietParts, WiresAre DEF StopConfirmed
<1>10. cb' \in Callbacks /\ (cb' = cb \/ (cb'.phase = "none" /\ cb'.epoch = 0))
    <2>1. cb' \in {cb, NoCallback}
        BY DEF StopConfirmed
    <2>2. CASE cb' = cb
        BY <2>2, QuietParts
    <2>3. CASE cb' = NoCallback
        BY <2>3, QuietParts
    <2>4. QED
        BY <2>1, <2>2, <2>3
<1>11. ~Supervisable
    <2>1. [token |-> op.token, ok |-> TRUE] \in wire.acks /\ op.kind = "stopping"
        BY DEF StopConfirmed, Stopping
    <2>2. QED
        BY <2>1 DEF Inv, ConfirmedIsCancelled
<1>12. nav' = nav /\ clock' = clock /\ service' = service
    BY DEF StopConfirmed
<1>13. TokensKnown'
    BY <1>7, <1>8, <1>9, QuietParts DEF Inv, Typed, TokensKnown
<1>14. Typed'
    BY <1>6, <1>7, <1>8, <1>9, <1>10, <1>12, <1>13, QuietParts DEF Typed
<1>15. Exclusive(gate)' /\ LockProtects' /\ MotionIsOurs' /\ NoGateMisuse'
    BY <1>6, <1>7, <1>8
    DEF Inv, Exclusive, LockProtects, MotionIsOurs, NoGateMisuse
<1>16. GoalIsSupervised' /\ ConfirmedIsCancelled'
    BY <1>8, <1>11, <1>12 DEF GoalIsSupervised, ConfirmedIsCancelled, Supervisable
<1>17. CallbackIsCached'
    BY <1>7, <1>10, QuietParts DEF Inv, CallbackIsCached
<1>18. Settled'
    BY <1>6, <1>7 DEF Settled
<1>19. QED
    BY <1>14, <1>15, <1>16, <1>17, <1>18 DEF Inv

LEMMA OdometryCachedKeeps ==
    ASSUME Inv, OdometryCached
    PROVE  Inv'
<1> DEFINE valid == ~CrossedReset /\ ~Malformed /\ ~Duplicate /\ ~Backwards
<1>1. /\ gate' = gate /\ op' = op /\ nav' = nav /\ wire' = wire /\ clock' = clock
      /\ service' = service
    BY DEF OdometryCached
<1>2. /\ cb.odom \in Nat /\ cb.serial \in Nat /\ cb.sim \in Nat /\ cb.epoch \in Nat
      /\ client.odom \in Nat /\ client.serial \in Nat /\ client.serial + 1 \in Nat
      /\ client.settled["odom"] \in Nat
    BY QuietParts, BaselinesAre DEF Callbacks, Clients
<1>3. /\ client' \in Clients
      /\ client'.initialized = client.initialized /\ client'.gen = client.gen
      /\ client'.epoch = client.epoch /\ client'.stops = client.stops
      /\ client'.cam = client.cam /\ client'.camSerial = client.camSerial
      /\ client'.settled = client.settled /\ client'.blind = client.blind
      /\ client'.misuse = client.misuse
    BY <1>2, QuietParts DEF OdometryCached, Clients
<1>4. /\ valid => client'.odom = cb.odom /\ client'.serial = client.serial + 1
      /\ ~valid => client'.odom = client.odom /\ client'.serial = client.serial
    BY QuietParts DEF OdometryCached, Clients
<1>5. client'.serial \in Nat
    BY <1>3 DEF Clients
<1>6. /\ cb' \in Callbacks /\ cb'.epoch <= client.epoch
      /\ cb'.phase = "valid" =>
            valid /\ cb'.odom = cb.odom /\ cb'.serial = client'.serial
    <2>1. \/ cb' = NoCallback
          \/ cb' = [cb EXCEPT !.phase = IF valid THEN "valid" ELSE "invalid",
                              !.serial = client'.serial]
        BY DEF OdometryCached
    <2> HIDE DEF valid
    <2>2. CASE cb' = NoCallback
        BY <2>2, QuietParts
    <2>3. CASE cb' # NoCallback
        <3> DEFINE phase == IF valid THEN "valid" ELSE "invalid"
        <3>1. /\ phase \in {"none", "received", "valid", "invalid"}
              /\ phase = "valid" => valid
            OBVIOUS
        <3>2. cb' = [cb EXCEPT !.phase = phase, !.serial = client'.serial]
            BY <2>1, <2>3
        <3> HIDE DEF phase
        <3>3. QED
            BY <1>5, <3>1, <3>2, QuietParts DEF Callbacks
    <2>4. QED
        BY <2>2, <2>3
<1>7. valid => cb.odom > client.odom \/ client.odom = 0
    BY <1>2 DEF Duplicate, Backwards
<1> HIDE DEF valid
<1>8. Typed'
    <2>1. TokensKnown'
        BY <1>1, <1>3 DEF Inv, Typed, TokensKnown
    <2>2. QED
        BY <1>1, <1>3, <1>6, <2>1 DEF Inv, Typed
<1>9. Exclusive(gate)' /\ LockProtects' /\ MotionIsOurs' /\ NoGateMisuse'
    BY <1>1, <1>3 DEF Inv, Exclusive, LockProtects, MotionIsOurs, NoGateMisuse
<1>10. GoalIsSupervised' /\ ConfirmedIsCancelled'
    BY <1>1 DEF Inv, GoalIsSupervised, ConfirmedIsCancelled, Supervisable
<1>11. CallbackIsCached'
    BY <1>3, <1>4, <1>6 DEF CallbackIsCached
<1>12. Settled'
    <2>1. client.settled \in Baselines
        BY QuietParts DEF Clients
    <2>2. CachesAreNewer => CachesAreNewer'
        <3>1. client.settled["odomSerial"] \in Nat
            BY <2>1, BaselinesAre
        <3>2. QED
            BY <1>2, <1>3, <1>4, <1>7, <3>1 DEF CachesAreNewer
    <2>3. QED
        BY <1>1, <1>3, <2>2 DEF Inv, Settled
<1>13. QED
    BY <1>8, <1>9, <1>10, <1>11, <1>12 DEF Inv

\* An observation with the samples in the caches that holds, or lifts the
\* barrier: what is settled stays settled.
LEMMA ObservationProceeds ==
    ASSUME Inv, NEW s \in Baselines, NEW reached \in BOOLEAN,
           s["odom"] = client.odom, s["odomSerial"] = client.serial,
           s["cam"] = client.cam, s["camSerial"] = client.camSerial,
           ~RequiresSafeStop(ObserveDecision(gate, s, reached))
    PROVE  LET g == Observe(gate, s, reached) IN
           \/ /\ PermitsModelStep(ObserveDecision(gate, s, reached))
              /\ g \in Gates /\ g.gen = gate.gen /\ Ready(g) /\ ~g.barrier.acked
              /\ ~Supervisable
              /\ gate.gen >= 0 => CachesAreNewer
           \/ /\ ~PermitsModelStep(ObserveDecision(gate, s, reached))
              /\ g = gate
<1> DEFINE decision == ObserveDecision(gate, s, reached)
           g == Observe(gate, s, reached)
<1>1. Exclusive(gate) /\ gate \in Gates
    BY QuietParts DEF Inv
<1>2. /\ PermitsModelStep(decision) =>
           /\ g \in Gates /\ g.gen = gate.gen
           /\ Ready(g) /\ ~g.barrier.acked /\ ~gate.pending.armed
           /\ gate.barrier.up =>
                gate.barrier.acked /\ StrictlyNewer(s, gate.barrier.ack)
      /\ ~PermitsModelStep(decision) => g = gate
    BY <1>1, ObserveIs
<1>3. CASE PermitsModelStep(decision)
    <2>1. ~Supervisable
        BY <1>2, <1>3 DEF Inv, GoalIsSupervised, Supervisable
    <2>2. gate.gen >= 0 => CachesAreNewer
        <3>1. CASE gate.barrier.up
            <4>1. gate.barrier.ack \in Baselines /\ client.settled \in Baselines
                BY QuietParts DEF Gates, Barriers, Clients
            <4>2. \A c \in Channels : s[c] > gate.barrier.ack[c]
                BY <1>2, <1>3, <3>1 DEF StrictlyNewer
            <4>3. \A c \in Channels : gate.barrier.ack[c] >= client.settled[c]
                BY <1>2, <1>3, <3>1 DEF Inv, Settled
            <4>4. \A c \in Channels : s[c] > client.settled[c]
                BY <4>1, <4>2, <4>3 DEF Baselines
            <4>5. QED
                BY <4>4, ChannelsAre DEF CachesAreNewer
        <3>2. CASE ~gate.barrier.up
            BY <3>2 DEF Inv, Settled
        <3>3. QED
            BY <3>1, <3>2
    <2>3. QED
        BY <1>2, <1>3, <2>1, <2>2
<1>4. CASE ~PermitsModelStep(decision)
    BY <1>2, <1>4
<1>5. QED
    BY <1>3, <1>4

LEMMA CallbackObservesKeeps ==
    ASSUME Inv, NEW reached \in BOOLEAN, CallbackObserves(reached)
    PROVE  Inv'
<1> DEFINE decision == ObserveDecision(gate, CallbackSample, reached)
<1>1. /\ CallbackSample \in Baselines
      /\ CallbackSample["odom"] = client.odom
      /\ CallbackSample["odomSerial"] = client.serial
      /\ CallbackSample["cam"] = client.cam
      /\ CallbackSample["camSerial"] = client.camSerial
    BY SamplesAre DEF CallbackObserves, Inv, CallbackIsCached
<1>2. CASE RequiresSafeStop(decision)
    BY <1>1, <1>2, ObservationStops DEF CallbackObserves
<1>3. CASE ~RequiresSafeStop(decision)
    <2>1. /\ cb' = NoCallback /\ client' = client /\ op' = op /\ wire' = wire
          /\ clock' = clock /\ nav' = nav /\ service' = service /\ op.kind = "free"
          /\ gate' = Observe(gate, CallbackSample, reached)
        BY <1>3 DEF CallbackObserves, Free
    <2>2. CASE PermitsModelStep(decision)
        <3>1. /\ gate' \in Gates /\ gate'.gen = gate.gen /\ Ready(gate')
              /\ ~gate'.barrier.acked /\ ~Supervisable
              /\ gate.gen >= 0 => CachesAreNewer
            BY <1>1, <1>3, <2>1, <2>2, ObservationProceeds
        <3>2. Typed'
            BY <2>1, <3>1, QuietParts DEF Inv, Typed, TokensKnown
        <3>3. /\ Exclusive(gate)' /\ LockProtects' /\ MotionIsOurs'
              /\ NoGateMisuse' /\ CallbackIsCached'
            BY <2>1, <3>1, QuietParts
            DEF Inv, Exclusive, LockProtects, MotionIsOurs, NoGateMisuse, Ready,
                CallbackIsCached
        <3>4. GoalIsSupervised' /\ ConfirmedIsCancelled' /\ Settled'
            BY <2>1, <3>1
            DEF GoalIsSupervised, ConfirmedIsCancelled, Supervisable, Settled,
                CachesAreNewer, Ready
        <3>5. QED
            BY <3>2, <3>3, <3>4 DEF Inv
    <2>3. CASE ~PermitsModelStep(decision)
        <3>1. gate' = gate
            BY <1>1, <1>3, <2>1, <2>3, ObservationProceeds
        <3>2. QED
            BY <2>1, <3>1, QuietParts, QuietUnless DEF Supervisable
    <2>4. QED
        BY <2>2, <2>3
<1>4. QED
    BY <1>2, <1>3

LEMMA StepObservesKeeps ==
    ASSUME Inv, NEW reached \in BOOLEAN, StepObserves(reached)
    PROVE  Inv'
<1> DEFINE decision == ObserveDecision(gate, StepSample, reached)
<1>1. /\ StepSample \in Baselines
      /\ StepSample["odom"] = client.odom
      /\ StepSample["odomSerial"] = client.serial
      /\ StepSample["cam"] = client.cam
      /\ StepSample["camSerial"] = client.camSerial
    BY SamplesAre
<1>2. /\ cb' = cb /\ clock' = clock /\ nav' = nav /\ service' = service
      /\ gate' = Observe(gate, StepSample, reached)
      /\ gate.gen = client.gen /\ client.gen >= 0
    BY DEF StepObserves, Inv, LockProtects
<1>3. CASE RequiresSafeStop(decision)
    <2>1. client' = [client EXCEPT !.stops = @ + 1] /\ Request("step")
        <3>1. ~PermitsModelStep(decision)
            BY <1>1, <1>3, QuietParts, ObserveIs DEF Inv
        <3>2. QED
            BY <1>3, <3>1 DEF StepObserves
    <2>2. QED
        BY <1>1, <1>2, <1>3, <2>1, ObservationStops
<1>4. CASE ~RequiresSafeStop(decision) /\ PermitsModelStep(decision)
    <2>1. client' = client /\ wire' = wire /\ op' = Busy("inferring")
        BY <1>4 DEF StepObserves
    <2>2. op' \in Holders /\ op'.kind = "inferring" /\ op'.token = 0
        BY <2>1 DEF Busy, Free, Holders
    <2>3. /\ gate' \in Gates /\ gate'.gen = gate.gen /\ Ready(gate')
          /\ ~gate'.barrier.acked /\ ~Supervisable
          /\ gate.gen >= 0 => CachesAreNewer
        BY <1>1, <1>2, <1>4, ObservationProceeds
    <2>4. Typed'
        BY <1>2, <2>1, <2>2, <2>3, QuietParts DEF Inv, Typed, TokensKnown
    <2>5. /\ Exclusive(gate)' /\ LockProtects' /\ MotionIsOurs'
          /\ NoGateMisuse' /\ CallbackIsCached'
        BY <1>2, <2>1, <2>2, <2>3, QuietParts
        DEF Inv, Exclusive, LockProtects, MotionIsOurs, NoGateMisuse, Ready,
            CallbackIsCached
    <2>6. GoalIsSupervised' /\ ConfirmedIsCancelled' /\ Settled'
        BY <1>2, <2>1, <2>2, <2>3
        DEF GoalIsSupervised, ConfirmedIsCancelled, Supervisable, Settled,
            CachesAreNewer, Ready
    <2>7. QED
        BY <2>4, <2>5, <2>6 DEF Inv
<1>5. CASE ~RequiresSafeStop(decision) /\ ~PermitsModelStep(decision)
    <2>1. client' = client /\ wire' = wire /\ op' = Free
        BY <1>5 DEF StepObserves
    <2>2. gate' = gate
        BY <1>1, <1>2, <1>5, ObservationProceeds
    <2>3. QED
        BY <1>2, <2>1, <2>2, QuietParts, QuietUnless DEF Supervisable
<1>6. QED
    BY <1>3, <1>4, <1>5

LEMMA InitializeWithoutClockKeeps ==
    ASSUME Inv, InitializeWithoutClock
    PROVE  Inv'
<1> DEFINE c == [client EXCEPT !.initialized = TRUE, !.gen = service,
                               !.fault = FALSE, !.blind = TRUE]
<1>1. service \in Generations /\ service >= 0
    BY QuietParts DEF Generations
<1>2. /\ c \in Clients /\ c.gen = service /\ c.blind /\ c.epoch = client.epoch
      /\ c.stops = client.stops /\ c.serial = client.serial /\ c.cam = client.cam
      /\ c.camSerial = client.camSerial /\ c.settled = client.settled
      /\ c.misuse = client.misuse
    BY <1>1, QuietParts DEF Clients
<1>3. client' = ArmOdometryBarrier(c, 0)
    BY DEF InitializeWithoutClock
<1> HIDE DEF c
<1>4. /\ client' \in Clients /\ client'.gen = service /\ client'.blind
      /\ client'.epoch = client.epoch + 1
      /\ client'.stops = client.stops /\ client'.serial = client.serial
      /\ client'.cam = client.cam /\ client'.camSerial = client.camSerial
      /\ client'.settled = client.settled /\ client'.misuse = client.misuse
    <2> DEFINE d == ArmOdometryBarrier(c, 0)
    <2>1. /\ d \in Clients /\ d.epoch = c.epoch + 1 /\ d.gen = c.gen
          /\ d.stops = c.stops /\ d.serial = c.serial /\ d.cam = c.cam
          /\ d.camSerial = c.camSerial /\ d.settled = c.settled
          /\ d.blind = c.blind /\ d.misuse = c.misuse
        <3>1. \A n \in Nat : n = 0 =>
                LET e == ArmOdometryBarrier(c, n) IN
                /\ e \in Clients /\ e.epoch = c.epoch + 1 /\ e.gen = c.gen
                /\ e.stops = c.stops /\ e.serial = c.serial /\ e.cam = c.cam
                /\ e.camSerial = c.camSerial /\ e.settled = c.settled
                /\ e.blind = c.blind /\ e.misuse = c.misuse
            BY <1>2, ArmedOdometryIs
        <3>2. QED
            BY <3>1
    <2> HIDE DEF d
    <2>2. client' = d
        BY <1>3 DEF d
    <2>3. QED
        BY <1>2, <2>1, <2>2
<1>5. /\ clock' = clock /\ gate' = gate /\ op' = op /\ cb' = cb /\ nav' = nav
      /\ service' = service /\ op.kind = "free"
    BY DEF InitializeWithoutClock, Free
<1>6. /\ wire' \in Wires /\ wire'.requests = wire.requests
      /\ wire'.acks = wire.acks
    BY QuietParts, WiresAre DEF InitializeWithoutClock
<1>7. Typed'
    BY <1>4, <1>5, <1>6, QuietParts DEF Inv, Typed, TokensKnown
<1>8. /\ Exclusive(gate)' /\ LockProtects' /\ NoGateMisuse'
      /\ GoalIsSupervised' /\ ConfirmedIsCancelled'
    BY <1>1, <1>4, <1>5, <1>6
    DEF Inv, Exclusive, LockProtects, NoGateMisuse, GoalIsSupervised,
        ConfirmedIsCancelled
<1>9. MotionIsOurs'
    BY <1>4, <1>5 DEF Inv, MotionIsOurs
<1>10. CallbackIsCached'
    BY <1>4, <1>5, QuietParts DEF Inv, Typed, Callbacks, CallbackIsCached
<1>11. Settled'
    BY <1>4, <1>5 DEF Inv, Settled, CachesAreNewer
<1>12. QED
    BY <1>7, <1>8, <1>9, <1>10, <1>11 DEF Inv

\* The identity a reset begins.
LEMMA NewIdentityIs ==
    ASSUME Inv, ModelResets, NEW sim \in Nat
    PROVE  LET c == ArmOdometryBarrier([client EXCEPT !.gen = @ + 1], sim) IN
           /\ c \in Clients /\ c.gen = client.gen + 1 /\ c.gen \in Generations
           /\ c.gen >= 0 /\ c.epoch = client.epoch + 1 /\ c.simBarrier = sim
           /\ c.stops = client.stops /\ c.serial = client.serial
           /\ c.cam = client.cam /\ c.camSerial = client.camSerial
           /\ c.settled = client.settled /\ c.misuse = client.misuse
<1>1. /\ client.gen = service /\ service + 1 \in 0..MaxGeneration
      /\ client.gen + 1 \in Generations
    BY QuietParts DEF ModelResets, Generations
<1> DEFINE b == [client EXCEPT !.gen = @ + 1]
<1>2. /\ b \in Clients /\ b.gen = client.gen + 1 /\ b.epoch = client.epoch
      /\ b.stops = client.stops /\ b.serial = client.serial
      /\ b.cam = client.cam /\ b.camSerial = client.camSerial
      /\ b.settled = client.settled /\ b.misuse = client.misuse
    BY <1>1, QuietParts DEF Clients
<1> HIDE DEF b
<1> DEFINE c == ArmOdometryBarrier(b, sim)
<1>3. /\ c \in Clients /\ c.epoch = b.epoch + 1 /\ c.gen = b.gen
      /\ c.simBarrier = sim /\ c.stops = b.stops /\ c.serial = b.serial
      /\ c.cam = b.cam /\ c.camSerial = b.camSerial /\ c.settled = b.settled
      /\ c.misuse = b.misuse
    BY <1>2, ArmedOdometryIs
<1> HIDE DEF c
<1>4. /\ c \in Clients /\ c.gen = client.gen + 1 /\ c.gen \in Generations
      /\ c.gen >= 0 /\ c.epoch = client.epoch + 1 /\ c.simBarrier = sim
      /\ c.stops = client.stops /\ c.serial = client.serial
      /\ c.cam = client.cam /\ c.camSerial = client.camSerial
      /\ c.settled = client.settled /\ c.misuse = client.misuse
    BY <1>1, <1>2, <1>3, QuietParts
<1>5. QED
    BY <1>4 DEF c, b

LEMMA CutoffsAre ==
    ASSUME Inv, NEW c \in Clients
    PROVE  PostResetCutoffs(c) \in Baselines
<1>1. gate.barrier.ack \in Baselines
    BY QuietParts DEF Gates, Barriers
<1>2. /\ clock \in Nat /\ c.simBarrier \in Nat /\ c.serial \in Nat
      /\ c.camSerial \in Nat
    BY QuietParts DEF Clients
<1>3. \A m, n \in Nat : Larger(m, n) \in Nat
    BY DEF Larger
<1>4. \A j, k, l, m, n \in Nat :
        [Zero EXCEPT !["sim"] = j, !["odom"] = k, !["odomSerial"] = l,
                     !["cam"] = m, !["camSerial"] = n] \in Baselines
    BY DEF Zero, Baselines
<1>5. Larger(Larger(clock, c.simBarrier), gate.barrier.ack["sim"]) \in Nat
    BY <1>1, <1>2, <1>3, BaselinesAre
<1>6. QED
    BY <1>1, <1>2, <1>3, <1>4, <1>5, BaselinesAre DEF PostResetCutoffs

\* The lock is free again, and a confirmed stop is up: no motion, no goal.
LEMMA ConfirmedThenFree ==
    ASSUME Inv, op.kind = "resetting", op' = Free,
           clock' = clock, cb' = cb, nav' = nav, wire' = SafeStopped,
           service' \in 0..MaxGeneration,
           gate' \in Gates, ~gate'.pending.armed,
           gate'.barrier.up, gate'.barrier.acked,
           client' \in Clients, client'.gen >= 0, client'.stops = client.stops,
           client'.epoch > client.epoch, ~client'.misuse,
           \A c \in Channels : gate'.barrier.ack[c] >= client'.settled[c]
    PROVE  Inv'
<1>1. gate.barrier.acked /\ gate.barrier.up /\ ~gate.pending.armed /\ ~Supervisable
    BY DEF Inv, LockProtects, Exclusive, GoalIsSupervised, Supervisable
<1>2. op' \in Holders /\ op'.kind = "free" /\ op'.token = 0
    BY DEF Free, Holders
<1>3. /\ wire' \in Wires /\ wire'.requests = wire.requests
      /\ wire'.acks = wire.acks
    BY QuietParts, WiresAre
<1>4. Typed'
    BY <1>2, <1>3, QuietParts DEF Inv, Typed, TokensKnown
<1>5. Exclusive(gate)' /\ LockProtects' /\ MotionIsOurs' /\ NoGateMisuse'
    BY <1>2 DEF Exclusive, LockProtects, MotionIsOurs, NoGateMisuse
<1>6. GoalIsSupervised' /\ ConfirmedIsCancelled'
    BY <1>1, <1>2 DEF GoalIsSupervised, ConfirmedIsCancelled, Supervisable
<1>7. CallbackIsCached'
    BY QuietParts DEF Inv, Typed, Callbacks, Clients, CallbackIsCached
<1>8. Settled'
    BY DEF Settled
<1>9. QED
    BY <1>4, <1>5, <1>6, <1>7, <1>8 DEF Inv

LEMMA ModelResetKeeps ==
    ASSUME Inv, ModelReset
    PROVE  Inv'
<1> DEFINE c == NewIdentity
           s == PostResetCutoffs(c)
           g == GateReset(gate, c.gen)
<1>1. /\ c \in Clients /\ c.gen \in Generations /\ c.gen >= 0
      /\ c.epoch = client.epoch + 1 /\ c.stops = client.stops
      /\ c.misuse = client.misuse
    BY NewIdentityIs, QuietParts DEF ModelReset, NewIdentity
<1>2. s \in Baselines
    BY <1>1, CutoffsAre
<1>3. g \in Gates /\ Ready(g)
    BY <1>1, QuietParts, ResetIs
<1>4. gate' = InheritConfirmedStop(g, s)
    BY DEF ModelReset
<1>5. client' = [c EXCEPT !.fault = FALSE, !.settled = s, !.blind = FALSE]
    BY DEF ModelReset
<1> HIDE DEF c, s, g
<1>6. /\ gate' \in Gates /\ ~gate'.pending.armed
      /\ gate'.barrier.up /\ gate'.barrier.acked /\ gate'.barrier.ack = s
    BY <1>2, <1>3, <1>4, InheritIs
<1>7. /\ client' \in Clients /\ client'.gen = c.gen /\ client'.stops = c.stops
      /\ client'.epoch = c.epoch /\ client'.misuse = c.misuse
      /\ client'.settled = s
    BY <1>1, <1>2, <1>5 DEF Clients
<1>8. \A ch \in Channels : gate'.barrier.ack[ch] >= client'.settled[ch]
    BY <1>2, <1>6, <1>7 DEF Baselines
<1>9. service' \in 0..MaxGeneration
    BY QuietParts DEF ModelReset, ModelResets
<1>10. /\ op.kind = "resetting" /\ op' = Free /\ clock' = clock /\ cb' = cb
       /\ nav' = nav /\ wire' = SafeStopped
    BY DEF ModelReset, ModelResets
<1>11. ~client.misuse
    BY DEF Inv, NoGateMisuse
<1>12. QED
    BY <1>1, <1>6, <1>7, <1>8, <1>9, <1>10, <1>11, QuietParts, ConfirmedThenFree

LEMMA ModelResetWithoutClockKeeps ==
    ASSUME Inv, ModelResetWithoutClock
    PROVE  Inv'
<1>1. /\ client' \in Clients /\ client'.gen >= 0
      /\ client'.epoch = client.epoch + 1 /\ client'.stops = client.stops
      /\ client'.misuse = client.misuse /\ client'.settled = client.settled
    BY NewIdentityIs DEF ModelResetWithoutClock
<1>2. /\ op.kind = "resetting" /\ op' = Free /\ clock' = clock /\ cb' = cb
      /\ nav' = nav /\ wire' = SafeStopped /\ gate' = gate
    BY DEF ModelResetWithoutClock, ModelResets
<1>3. service' \in 0..MaxGeneration
    BY QuietParts DEF ModelResetWithoutClock, ModelResets
<1>4. /\ gate.barrier.acked /\ gate.barrier.up /\ ~gate.pending.armed
      /\ ~client.misuse
      /\ \A c \in Channels : gate.barrier.ack[c] >= client.settled[c]
    BY <1>2 DEF Inv, LockProtects, Exclusive, NoGateMisuse, Settled
<1>5. QED
    BY <1>1, <1>2, <1>3, <1>4, QuietParts, ConfirmedThenFree

LEMMA StepBeginsKeeps ==
    ASSUME Inv, NEW serial \in Nat, NEW stamp \in Nat, StepBegins(serial, stamp)
    PROVE  Inv'
<1>1. serial > client.camSerial /\ stamp > client.cam
    BY QuietParts DEF StepBegins, CameraRefused, Clients
<1>2. client' = [client EXCEPT !.cam = stamp, !.camSerial = serial]
    BY DEF StepBegins
<1>3. /\ client' \in Clients /\ client'.cam = stamp /\ client'.camSerial = serial
      /\ client'.initialized = client.initialized /\ client'.gen = client.gen
      /\ client'.epoch = client.epoch /\ client'.stops = client.stops
      /\ client'.odom = client.odom /\ client'.serial = client.serial
      /\ client'.settled = client.settled /\ client'.blind = client.blind
      /\ client'.misuse = client.misuse
    BY <1>2, QuietParts DEF Clients
<1>4. /\ clock' = clock /\ gate' = gate /\ cb' = cb /\ nav' = nav /\ wire' = wire
      /\ service' = service /\ client.initialized
    BY DEF StepBegins
<1>5. op' \in Holders /\ op'.kind = "posing" /\ op'.token = 0
    BY DEF StepBegins, Busy, Free, Holders
<1>6. Typed'
    BY <1>3, <1>4, <1>5, QuietParts DEF Inv, Typed, TokensKnown
<1>7. /\ Exclusive(gate)' /\ LockProtects' /\ MotionIsOurs' /\ NoGateMisuse'
      /\ GoalIsSupervised' /\ ConfirmedIsCancelled' /\ CallbackIsCached'
    BY <1>3, <1>4, <1>5
    DEF Inv, Exclusive, LockProtects, MotionIsOurs, NoGateMisuse,
        GoalIsSupervised, ConfirmedIsCancelled, CallbackIsCached
<1>8. Settled'
    <2>1. /\ client.cam \in Nat /\ client.camSerial \in Nat
          /\ client.settled["cam"] \in Nat /\ client.settled["camSerial"] \in Nat
        BY QuietParts, BaselinesAre DEF Clients
    <2>2. CachesAreNewer => CachesAreNewer'
        BY <1>1, <1>3, <2>1 DEF CachesAreNewer
    <2>3. QED
        BY <1>3, <1>4, <2>2 DEF Inv, Settled
<1>9. QED
    BY <1>6, <1>7, <1>8 DEF Inv

LEMMA GenerationAdoptedKeeps ==
    ASSUME Inv, GenerationAdopted
    PROVE  Inv'
<1>1. service' \in 0..MaxGeneration /\ service' \in Generations /\ service' >= 0
    BY QuietParts DEF GenerationAdopted, ServiceMoves, Generations
<1>2. client' = [client EXCEPT !.gen = service']
    BY DEF GenerationAdopted
<1>3. /\ client' \in Clients /\ client'.gen = service'
      /\ client'.initialized = client.initialized
      /\ client'.epoch = client.epoch /\ client'.stops = client.stops
      /\ client'.odom = client.odom /\ client'.serial = client.serial
      /\ client'.cam = client.cam /\ client'.camSerial = client.camSerial
      /\ client'.settled = client.settled /\ client'.blind = client.blind
      /\ client'.misuse = client.misuse
    BY <1>1, <1>2, QuietParts DEF Clients
<1>4. /\ clock' = clock /\ gate' = gate /\ cb' = cb /\ nav' = nav
      /\ ~gate.pending.armed
    BY DEF GenerationAdopted, Inv, LockProtects, Ready
<1>5. op' \in Holders /\ op'.kind = "free" /\ op'.token = 0
    BY DEF GenerationAdopted, Free, Holders
<1>6. /\ wire' \in Wires /\ wire'.requests = wire.requests
      /\ wire'.acks = wire.acks
    BY QuietParts, WiresAre DEF GenerationAdopted
<1>7. Typed'
    BY <1>1, <1>3, <1>4, <1>5, <1>6, QuietParts DEF Inv, Typed, TokensKnown
<1>8. /\ Exclusive(gate)' /\ LockProtects' /\ MotionIsOurs' /\ NoGateMisuse'
      /\ GoalIsSupervised' /\ ConfirmedIsCancelled' /\ CallbackIsCached'
    BY <1>1, <1>3, <1>4, <1>5, <1>6
    DEF Inv, Exclusive, LockProtects, MotionIsOurs, NoGateMisuse,
        GoalIsSupervised, ConfirmedIsCancelled, CallbackIsCached
<1>9. Settled'
    BY <1>3, <1>4 DEF Inv, Settled, CachesAreNewer
<1>10. QED
    BY <1>7, <1>8, <1>9 DEF Inv

LEMMA ResolvedToMotionKeeps ==
    ASSUME Inv, ResolvedToMotion
    PROVE  Inv'
<1> DEFINE s == WithoutCamera(Sensors(Larger(clock, client.odom)))
<1>1. s \in Baselines /\ ArmAllowed(gate, client.gen, s)
    BY MotionCanBeArmed DEF ResolvedToMotion
<1>2. gate' = Arm(gate, s)
    BY DEF ResolvedToMotion
<1>3. client' = [client EXCEPT !.misuse = @ \/ FALSE]
    BY <1>1 DEF ResolvedToMotion
<1> HIDE DEF s
<1>4. client' = client
    BY <1>3, QuietParts DEF Clients
<1>5. /\ Ready(gate) /\ gate.gen = client.gen /\ client.gen >= 0
      /\ service = client.gen
    BY DEF ResolvedToMotion, Answered, Inv, LockProtects
<1>6. /\ gate' \in Gates /\ gate'.gen = gate.gen /\ gate'.barrier = gate.barrier
      /\ gate'.pending.armed
    BY <1>1, <1>2, QuietParts, ArmIs
<1>7. op' \in Holders /\ op'.kind = "free" /\ op'.token = 0
    BY DEF ResolvedToMotion, Free, Holders
<1>8. /\ clock' = clock /\ cb' = cb /\ wire' = wire /\ service' = service
      /\ nav' \in Adapters
    BY DEF ResolvedToMotion, Moving, Adapters
<1>9. Typed'
    BY <1>4, <1>6, <1>7, <1>8, QuietParts DEF Inv, Typed, TokensKnown
<1>10. /\ Exclusive(gate)' /\ LockProtects' /\ MotionIsOurs' /\ NoGateMisuse'
       /\ GoalIsSupervised' /\ ConfirmedIsCancelled' /\ CallbackIsCached'
    BY <1>4, <1>5, <1>6, <1>7, <1>8
    DEF Inv, Exclusive, LockProtects, MotionIsOurs, NoGateMisuse, Ready,
        GoalIsSupervised, ConfirmedIsCancelled, CallbackIsCached
<1>11. Settled'
    BY <1>4, <1>5, <1>6 DEF Inv, Settled, CachesAreNewer, Ready
<1>12. QED
    BY <1>9, <1>10, <1>11 DEF Inv

LEMMA AdapterStopsKeeps ==
    ASSUME Inv, NEW token, NEW ok \in BOOLEAN, AdapterStops(token, ok)
    PROVE  Inv'
<1>1. token \in Nat \ {0} /\ token <= client.stops /\ token \in wire.requests
    BY DEF AdapterStops, Inv, Typed, Wires, TokensKnown
<1>2. /\ clock' = clock /\ gate' = gate /\ client' = client /\ op' = op /\ cb' = cb
      /\ service' = service
    BY DEF AdapterStops
<1> DEFINE a == [token |-> token, ok |-> ok]
<1>3. /\ wire' \in Wires /\ wire'.requests \subseteq wire.requests
      /\ wire'.acks = wire.acks \cup {a}
    <2>1. a \in [token : Nat \ {0}, ok : BOOLEAN]
        BY <1>1
    <2>2. wire' = [wire EXCEPT !.requests = @ \ {token}, !.acks = @ \cup {a}]
        BY DEF AdapterStops
    <2> HIDE DEF a
    <2>3. QED
        BY <2>1, <2>2, QuietParts DEF Wires
<1>4. nav' \in Adapters /\ (Supervisable' => Supervisable) /\ (ok => ~Supervisable')
    <2>1. CASE ok
        BY <2>1, QuietParts DEF AdapterStops, Supervisable
    <2>2. CASE ~ok
        BY <2>2, QuietParts DEF AdapterStops, Supervisable, Adapters
    <2>3. QED
        BY <2>1, <2>2
<1>5. TokensKnown'
    BY <1>1, <1>2, <1>3 DEF Inv, Typed, TokensKnown
<1>6. Typed'
    BY <1>2, <1>3, <1>4, <1>5 DEF Inv, Typed
<1>7. /\ Exclusive(gate)' /\ LockProtects' /\ MotionIsOurs' /\ NoGateMisuse'
      /\ CallbackIsCached' /\ Settled'
    BY <1>2
    DEF Inv, Exclusive, LockProtects, MotionIsOurs, NoGateMisuse,
        CallbackIsCached, Settled, CachesAreNewer
<1>8. GoalIsSupervised'
    BY <1>2, <1>4 DEF Inv, GoalIsSupervised, Supervisable
<1>9. ConfirmedIsCancelled'
    BY <1>2, <1>3, <1>4 DEF Inv, ConfirmedIsCancelled
<1>10. QED
    BY <1>6, <1>7, <1>8, <1>9 DEF Inv

-----------------------------------------------------------------------------
(* The theorems.                                                             *)

LEMMA InitInv == Init => Inv
<1> SUFFICES ASSUME Init PROVE Inv
    OBVIOUS
<1>1. InitialGate \in Gates /\ Ready(InitialGate) /\ ~InitialGate.barrier.acked
    <2>1. /\ NoPending \in Pendings /\ ~NoPending.armed
          /\ NoBarrier \in Barriers /\ ~NoBarrier.up /\ ~NoBarrier.acked
        BY ChannelsAre DEF NoPending, Pendings, NoBarrier, Barriers
    <2>2. -1 \in Generations
        BY DEF Generations
    <2>3. QED
        BY <2>1, <2>2 DEF InitialGate, Gates, Ready
<1>2. InitialClient \in Clients
    BY ChannelsAre DEF InitialClient, Clients, Generations
<1>3. Free \in Holders /\ NoCallback \in Callbacks /\ Standing \in Adapters
    BY DEF Free, Holders, NoCallback, Callbacks, Standing, Adapters
<1>4. Typed
    BY <1>1, <1>2, <1>3 DEF Init, Typed, TokensKnown, Wires, Free, InitialClient
<1>5. Exclusive(gate) /\ MotionIsOurs /\ GoalIsSupervised /\ Settled
    BY <1>1
    DEF Init, Exclusive, Ready, MotionIsOurs, GoalIsSupervised, Standing, Settled,
        InitialGate
<1>6. LockProtects /\ ConfirmedIsCancelled /\ CallbackIsCached /\ NoGateMisuse
    BY DEF Init, LockProtects, ConfirmedIsCancelled, CallbackIsCached, NoGateMisuse,
           InitialClient, Free, NoCallback
<1>7. QED
    BY <1>4, <1>5, <1>6 DEF Inv

LEMMA StutterInv ==
    ASSUME Inv, UNCHANGED vars
    PROVE  Inv'
BY QuietParts, QuietUnless DEF vars, Supervisable

LEMMA NextInv ==
    ASSUME Inv, Next
    PROVE  Inv'
<1>1. CASE Advance
    BY <1>1, CallbackSteps
<1>2. CASE Handshake
    BY <1>2, UnconfirmedStops, StopConfirmedKeeps
    DEF Handshake, StopTimesOut, StopNotConfirmed, StopWithoutClock
<1>3. CASE Odometry
    <2>1. clock \in Nat /\ 0 \in Nat /\ \A odom \in Stamps : odom \in Nat
        BY QuietParts DEF Stamps
    <2>2. QED
        BY <1>3, <2>1, CallbackSteps, OdometryCachedKeeps, CallbackFailsMotionKeeps,
           CallbackObservesKeeps
        DEF Odometry
<1>4. CASE Episode
    BY <1>4, InitializeKeeps, InitializeWithoutClockKeeps, QuietResets,
       ConfirmStopKeeps, ModelResetKeeps, ModelResetWithoutClockKeeps
    DEF Episode
<1>5. CASE Step
    <2>1. /\ client.camSerial \in Nat /\ client.camSerial + 1 \in Nat
          /\ \A stamp \in Stamps : stamp \in Nat
        BY QuietParts DEF Stamps, Clients
    <2>2. QED
        BY <1>5, <2>1, QuietStepsOfTheModel, StepBeginsKeeps, StepObservesKeeps,
           GenerationAdoptedKeeps, ResolvedToMotionKeeps, ResolvedButNotArmedKeeps,
           ResolvedButNotRecordedKeeps
        DEF Step
<1>6. CASE Adapter
    BY <1>6, QuietAdapter, AdapterStopsKeeps DEF Adapter
<1>7. QED
    BY <1>1, <1>2, <1>3, <1>4, <1>5, <1>6 DEF Next

\* Inv is inductive: it holds in every reachable state.
THEOREM Invariance == Spec => []Inv
<1>1. Inv /\ [Next]_vars => Inv'
    BY NextInv, StutterInv
<1>2. QED
    BY InitInv, <1>1, PTL DEF Spec

\* The gate, the client, the lock holder, the callback, the adapter and the
\* messages between them keep their shapes: no message names a stop the client
\* did not ask for.
THEOREM TypeCorrect == Spec => []TypeOK
<1>1. Inv => TypeOK
    <2> SUFFICES ASSUME Inv PROVE TypeOK
        OBVIOUS
    <2>1. /\ gate.gen \in -1..MaxGeneration /\ gate.pending \in Pendings
          /\ gate.barrier \in Barriers
        BY DEF Inv, Typed, Gates, Generations
    <2>2. /\ client.gen \in -1..MaxGeneration
          /\ client.epoch \in Nat /\ client.serialBarrier \in Nat
          /\ client.simBarrier \in Nat /\ client.stops \in Nat
          /\ client.odom \in Nat /\ client.serial \in Nat
          /\ client.cam \in Nat /\ client.camSerial \in Nat
          /\ client.settled \in Baselines
          /\ client.initialized \in BOOLEAN /\ client.fault \in BOOLEAN
          /\ client.misuse \in BOOLEAN
        BY DEF Inv, Typed, Clients, Generations
    <2>3. /\ op.kind \in {"free", "stopping", "resetting", "posing", "inferring",
                          "dead"}
          /\ op.then \in {"none", "callback", "initialize", "reset", "step",
                          "failure"}
          /\ op.token \in Nat /\ op.token <= client.stops
        BY DEF Inv, Typed, Holders, TokensKnown
    <2>4. op.token \in 0..client.stops
        BY <2>2, <2>3
    <2>5. wire.requests \subseteq 1..client.stops
        BY <2>2 DEF Inv, Typed, Wires, TokensKnown
    <2>6. wire.acks \subseteq [token : 1..client.stops, ok : BOOLEAN]
        <3> SUFFICES ASSUME NEW a \in wire.acks
                     PROVE  a \in [token : 1..client.stops, ok : BOOLEAN]
            OBVIOUS
        <3>1. a \in [token : Nat \ {0}, ok : BOOLEAN] /\ a.token <= client.stops
            BY DEF Inv, Typed, Wires, TokensKnown
        <3>2. a.token \in 1..client.stops
            BY <2>2, <3>1
        <3>3. QED
            BY <3>1, <3>2
    <2>7. /\ clock \in 1..MaxTime /\ service \in 0..MaxGeneration
          /\ cb.phase \in {"none", "received", "valid", "invalid"}
          /\ nav \in [goal : BOOLEAN, motion : BOOLEAN, orphan : BOOLEAN]
        BY DEF Inv, Typed, Callbacks, Adapters
    <2>8. QED
        BY <2>1, <2>2, <2>3, <2>4, <2>5, <2>6, <2>7
        DEF TypeOK, Pendings, Barriers
<1>2. QED
    BY Invariance, <1>1, PTL

\* The model infers on sensors that are newer than the last confirmed stop, for
\* every schedule of stops, resets, lost clocks and refreshed caches.
THEOREM SensorsAreSettled == Spec => []InferenceSeesSettledSensors
<1>1. Inv => InferenceSeesSettledSensors
    BY DEF Inv, LockProtects, Settled, CachesAreNewer, Ready,
           InferenceSeesSettledSensors
<1>2. QED
    BY Invariance, <1>1, PTL

\* No goal the client knows of is ever without an armed motion or a pending stop.
THEOREM GoalsAreSupervised == Spec => []GoalIsSupervised
<1>1. Inv => GoalIsSupervised
    BY DEF Inv
<1>2. QED
    BY Invariance, <1>1, PTL

\* The client never calls the gate in a state the gate rejects.
THEOREM GateIsUsedRight == Spec => []NoGateMisuse
<1>1. Inv => NoGateMisuse
    BY DEF Inv
<1>2. QED
    BY Invariance, <1>1, PTL

\* What one step may do to a motion and to a barrier.
EndsInStop ==
    /\ gate.pending.armed /\ ~gate'.pending.armed =>
          gate'.barrier.up /\ ~gate'.barrier.acked
    /\ gate.barrier.up /\ ~gate'.barrier.up => gate.barrier.acked

LEMMA ObservationEndsInStop ==
    ASSUME Inv, NEW s \in Baselines, NEW reached \in BOOLEAN,
           gate' = Observe(gate, s, reached)
    PROVE  EndsInStop
<1> DEFINE decision == ObserveDecision(gate, s, reached)
<1>1. gate \in Gates /\ Exclusive(gate)
    BY QuietParts DEF Inv
<1>2. CASE RequiresSafeStop(decision)
    BY <1>1, <1>2, ObserveIs DEF EndsInStop, Stopped
<1>3. CASE PermitsModelStep(decision)
    BY <1>1, <1>3, ObserveIs DEF EndsInStop, Ready
<1>4. CASE ~RequiresSafeStop(decision) /\ ~PermitsModelStep(decision)
    BY <1>1, <1>4, ObserveIs DEF EndsInStop
<1>5. QED
    BY <1>2, <1>3, <1>4

LEMMA StepsEndInStop ==
    ASSUME Inv, Next
    PROVE  EndsInStop
<1>0. gate' = gate => EndsInStop
    BY DEF EndsInStop
<1>1. CASE Advance \/ Adapter
    BY <1>0, <1>1
    DEF Advance, Adapter, AdapterDisablesMotion, AdapterStops,
        AdapterResolvesLate, GoalFinishes
<1>2. CASE Handshake
    <2>1. (\E audited \in BOOLEAN : StopConfirmed(audited)) =>
            gate.barrier.up /\ ~gate.pending.armed
            /\ (gate'.barrier.up \/ gate' = gate)
        <3> SUFFICES ASSUME NEW audited \in BOOLEAN, StopConfirmed(audited)
                     PROVE  /\ gate.barrier.up /\ ~gate.pending.armed
                            /\ (gate'.barrier.up \/ gate' = gate)
            OBVIOUS
        <3>1. gate.barrier.up /\ ~gate.pending.armed
            BY DEF StopConfirmed, Stopping, Inv, LockProtects, Exclusive
        <3>2. Sensors(clock) \in Baselines
            BY QuietParts, SensorsAre
        <3>3. AcknowledgeStop(gate, Sensors(clock)).barrier.up = gate.barrier.up
            BY <3>2, QuietParts, AcknowledgeIs
        <3>4. gate' = AcknowledgeStop(gate, Sensors(clock)) \/ gate' = gate
            BY DEF StopConfirmed
        <3>5. QED
            BY <3>1, <3>3, <3>4
    <2>2. QED
        BY <1>0, <1>2, <2>1
        DEF Handshake, StopTimesOut, StopNotConfirmed, StopWithoutClock, StopFailed,
            StopUnderForeignIdentity, EndsInStop
<1>3. CASE Odometry
    <2>1. CallbackFailsMotion => EndsInStop
        <3> SUFFICES ASSUME CallbackFailsMotion PROVE EndsInStop
            OBVIOUS
        <3>1. Stopped(gate, gate')
            BY QuietParts, SamplesAre, FailIs DEF CallbackFailsMotion
        <3>2. QED
            BY <3>1 DEF Stopped, EndsInStop
    <2>2. (\E reached \in BOOLEAN : CallbackObserves(reached)) => EndsInStop
        BY SamplesAre, ObservationEndsInStop DEF CallbackObserves
    <2>3. QED
        BY <1>0, <1>3, <2>1, <2>2
        DEF Odometry, OdometryReceived, OdometryCached, CallbackDropped
<1>4. CASE Episode
    <2>1. Initialize => EndsInStop
        <3> SUFFICES ASSUME Initialize PROVE EndsInStop
            OBVIOUS
        <3>1. service \in Generations
            BY QuietParts DEF Generations
        <3>2. [Sensors(clock) EXCEPT !["odom"] = 0] \in Baselines
            BY QuietParts, SensorsAre, ChannelsAre, BaselinesChange
        <3>3. GateReset(gate, service) \in Gates /\ Ready(GateReset(gate, service))
            BY <3>1, QuietParts, ResetIs
        <3>4. Stopped(GateReset(gate, service), gate')
            BY <3>2, <3>3, RequireIs DEF Initialize, Ready
        <3>5. QED
            BY <3>4 DEF Stopped, EndsInStop
    <2>2. ConfirmStop => EndsInStop
        <3> SUFFICES ASSUME ConfirmStop PROVE EndsInStop
            OBVIOUS
        <3>1. Sensors(clock) \in Baselines
            BY QuietParts, SensorsAre
        <3>2. CASE gate.pending.armed
            BY <3>1, <3>2, QuietParts, FailIs DEF ConfirmStop, Stopped, EndsInStop
        <3>3. CASE ~gate.pending.armed /\ gate.barrier.up
            BY <1>0, <3>3 DEF ConfirmStop
        <3>4. CASE ~gate.pending.armed /\ ~gate.barrier.up
            BY <3>4 DEF EndsInStop
        <3>5. QED
            BY <3>2, <3>3, <3>4
    <2>3. ModelReset => EndsInStop
        BY DEF ModelReset, ModelResets, Inv, LockProtects, Exclusive, EndsInStop
    <2>4. QED
        BY <1>0, <1>4, <2>1, <2>2, <2>3
        DEF Episode, InitializeWithoutClock, ResetWithoutClock,
            ResetUnderForeignIdentity, RetainConfirmedStop, ModelResetFails,
            ModelResetWithoutClock
<1>5. CASE Step
    <2>1. (\E reached \in BOOLEAN : StepObserves(reached)) => EndsInStop
        BY SamplesAre, ObservationEndsInStop DEF StepObserves
    <2>2. ResolvedToMotion \/ ResolvedButNotArmed \/ ResolvedButNotRecorded =>
            EndsInStop
        BY DEF ResolvedToMotion, ResolvedButNotArmed, ResolvedButNotRecorded,
               Answered, Inv, LockProtects, Ready, EndsInStop
    <2>3. QED
        BY <1>0, <1>5, <2>1, <2>2
        DEF Step, StepRefused, StepBegins, StepFails, InferenceFails,
            GenerationAdopted, ResolutionAbandoned, ResolvedToStand,
            ResolvedToOldGoal
<1>6. QED
    BY <1>1, <1>2, <1>3, <1>4, <1>5 DEF Next

\* Whatever happens, an armed motion ends in a barrier that waits for the
\* cancellation, and no barrier is lifted before it has been acknowledged.
THEOREM MotionsEndInConfirmedStops == Spec => MotionEndsInConfirmedStop
<1>1. Inv /\ [Next]_vars => [EndsInStop]_vars
    BY StepsEndInStop
<1>2. [EndsInStop]_vars =>
        [/\ gate.pending.armed /\ ~gate'.pending.armed =>
              gate'.barrier.up /\ ~gate'.barrier.acked
         /\ gate.barrier.up /\ ~gate'.barrier.up => gate.barrier.acked]_vars
    BY DEF EndsInStop
<1>3. QED
    BY Invariance, <1>1, <1>2, PTL DEF Spec, MotionEndsInConfirmedStop

=============================================================================
