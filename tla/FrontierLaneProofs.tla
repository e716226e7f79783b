-------------------------- MODULE FrontierLaneProofs --------------------------
(* Proofs about FrontierLane for all values of its constants: the types of   *)
(* the two nodes' state, and the properties of the transaction store, the    *)
(* goals and the late commits.                                               *)
EXTENDS FrontierLane, TLAPS

USE FrontierAssumption

\* The command of a step that is under way is one of the commands.
CurrentIsACommand == ~Idle => Current \in Commands

\* The command id has been adopted by the adapter, or one after it.
Adopted(id) ==
    /\ at[1] >= 0
    /\ id[1] < at[1] \/ (id[1] = at[1] /\ id[2] <= at[2])

Once(id) == drives[Frontier(id)] + drives[Resolved(id)] <= 1
Undriven(id) == drives[Frontier(id)] = 0 /\ drives[Resolved(id)] = 0

\* A command is driven once, and only when the adapter has adopted it.
DrivenOnce == \A id \in Commands : Once(id) /\ (Undriven(id) \/ Adopted(id))

\* What a failed commit left stands still, with nothing to commit.
BlockedIsStill == blocked => ~motion /\ store = None

\* A goal that no command drove is one a failed commit left.
GoalIsKnown == goal # None => blocked \/ drives[goal] >= 1

\* The inductive invariant.
Inv ==
    /\ TypeOK
    /\ CurrentIsACommand
    /\ StoreIsAhead
    /\ DrivenOnce
    /\ BlockedIsStill
    /\ GoalIsKnown

-----------------------------------------------------------------------------
\* Commands are pairs of a generation and a sequence of that generation.
LEMMA CommandsAre ==
    /\ \A g \in Generations : \A n \in 0..LastSequence[g] : <<g, n>> \in Commands
    /\ \A id \in Commands : /\ id = <<id[1], id[2]>>
                            /\ id[1] \in Generations /\ id[2] \in Nat
                            /\ id[2] <= LastSequence[id[1]]
    /\ \A id \in Commands : id[1] \in Nat /\ id[2] \in Nat
BY DEF Commands, Generations

\* The goals of a command are different goals, and commands with a goal in
\* common are the same.
LEMMA GoalsAre ==
    /\ \A id \in Commands : Frontier(id) \in Goals /\ Resolved(id) \in Goals
    /\ \A a, b \in Commands : Frontier(a) # Resolved(b)
    /\ \A a, b \in Commands : /\ Frontier(a) = Frontier(b) => a = b
                              /\ Resolved(a) = Resolved(b) => a = b
BY DEF Frontier, Resolved, Goals

\* The next command has not been adopted, and once it is, so are those before.
LEMMA NextIsNew ==
    ASSUME TypeOK, NEW id \in Commands, IsNext(id)
    PROVE  /\ ~Adopted(id)
           /\ \A other \in Commands :
                 /\ Adopted(other) \/ other = id =>
                       /\ id[1] >= 0
                       /\ \/ other[1] < id[1]
                          \/ other[1] = id[1] /\ other[2] <= id[2]
BY CommandsAre DEF IsNext, NewGeneration, Adopted, TypeOK, AdapterType

\* The initial state has the invariant.
LEMMA InitInv == Init => Inv
<1> SUFFICES ASSUME Init PROVE Inv
    OBVIOUS
<1>1. TypeOK
    <2>1. ClientType
        BY DEF Init, ClientType, Generations, Phases, Replies
    <2>2. CallsType /\ AdapterType
        BY DEF Init, CallsType, AdapterType
    <2>3. drives \in [Goals -> Nat]
        BY DEF Init
    <2>4. clock \in 0..MaxClock
        BY DEF Init
    <2>5. direct \in BOOLEAN /\ stopping \in BOOLEAN /\ abandoned \in BOOLEAN
        BY Zenon DEF Init
    <2>6. QED
        BY <2>1, <2>2, <2>3, <2>4, <2>5 DEF TypeOK
<1>2. DrivenOnce
    BY GoalsAre DEF Init, DrivenOnce, Once, Undriven
<1>3. QED
    BY <1>1, <1>2 DEF Init, Inv, CurrentIsACommand, Idle, StoreIsAhead,
                      BlockedIsStill, GoalIsKnown

-----------------------------------------------------------------------------
(* The steps of the client.                                                  *)

\* What the invariant says of the client and of the requests.
ClientInv ==
    /\ direct \in BOOLEAN /\ clock \in 0..MaxClock
    /\ ClientType /\ CallsType /\ CurrentIsACommand

\* What a client step keeps.
Sound == ClientType' /\ CallsType' /\ CurrentIsACommand'

\* Phases of the operations are phases.
LEMMA PhasesAre ==
    /\ \A op \in Operations : Phase[op] \in Phases
    /\ {"idle", "deciding"} \subseteq Phases
BY DEF Phases

\* A request for the command of the step.
LEMMA AskIsSound ==
    ASSUME ClientInv, ~Idle, NEW op \in Operations, Ask(op), direct' = direct
    PROVE  Sound
<1>1. /\ Phase[op] \in Phases /\ Current \in Commands
      /\ client.stamp \in 0..MaxClock /\ "none" \in Replies
    BY PhasesAre DEF ClientInv, CurrentIsACommand, ClientType, Replies
<1>2. ClientType'
    BY <1>1 DEF ClientInv, ClientType, Ask
<1>3. Call(op, Current, client.stamp) \in
          [op : Operations, id : Commands, stamp : 0..MaxClock]
    BY <1>1 DEF Call
<1>4. CallsType'
    BY <1>3 DEF ClientInv, CallsType, Ask
<1>5. Current' = Current
    BY DEF Ask, Current, ClientInv, ClientType
<1>6. QED
    BY <1>1, <1>2, <1>4, <1>5 DEF Sound, CurrentIsACommand

\* The end of a failed step.
LEMMA FailIsSound ==
    ASSUME ClientInv, Fail
    PROVE  Sound
<1>1. ClientType' /\ Idle'
    BY PhasesAre DEF ClientInv, ClientType, Fail, Replies, Idle
<1>2. QED
    BY <1>1 DEF Fail, Sound, ClientInv, CallsType, CurrentIsACommand

\* The end of a step that was answered.
LEMMA SucceedIsSound ==
    ASSUME ClientInv, ~Idle, NEW sent \in BOOLEAN, Succeed(sent),
           calls' = calls
    PROVE  Sound
<1>1. Current[1] = client.gen /\ Current[2] \in Int
    BY DEF Current, ClientInv, ClientType
<1>2. Current[2] \in 0..LastSequence[client.gen]
    BY <1>1, CommandsAre DEF ClientInv, CurrentIsACommand
<1>3. client.gen \in Generations /\ LastSequence[client.gen] \in Nat
    BY DEF ClientInv, ClientType, Generations
<1>4. /\ client'.gen = client.gen /\ client'.last = Current[2]
      /\ client'.tried = client.tried
    BY DEF ClientInv, ClientType, Succeed
<1>5. client' \in [gen : Generations, last : Int, phase : Phases,
                   stamp : 0..MaxClock, reply : Replies, tried : Int,
                   armed : BOOLEAN, failed : BOOLEAN]
    BY <1>1, PhasesAre DEF ClientInv, ClientType, Succeed, Replies
<1>6. ClientType'
    BY <1>2, <1>3, <1>4, <1>5 DEF ClientInv, ClientType
<1>7. Idle'
    BY DEF ClientInv, ClientType, Succeed, Idle
<1>8. QED
    BY <1>6, <1>7 DEF Sound, ClientInv, CallsType, CurrentIsACommand

\* A step that begins with a request.
LEMMA PrepareIsSound ==
    ASSUME ClientInv, Prepare
    PROVE  Sound
<1> DEFINE n == client.last + 1
<1>1. /\ client.gen \in Generations /\ LastSequence[client.gen] \in Nat
      /\ n \in 0..LastSequence[client.gen]
    BY DEF ClientInv, ClientType, Prepare, Generations
<1>2. <<client.gen, n>> \in Commands
    BY <1>1, CommandsAre
<1>3. "prepare" \in Operations /\ Phase["prepare"] = "preparing"
      /\ "preparing" \in Phases
    BY PhasesAre DEF Operations, Phase
<1>4. /\ client'.gen = client.gen /\ client'.tried = n
      /\ client'.last = IF direct THEN client.last ELSE n
    BY DEF ClientInv, ClientType, Prepare
<1>5. client' \in [gen : Generations, last : Int, phase : Phases,
                   stamp : 0..MaxClock, reply : Replies, tried : Int,
                   armed : BOOLEAN, failed : BOOLEAN]
    <2>1. /\ (IF direct THEN client.last ELSE n) \in Int
          /\ n \in Int /\ clock \in 0..MaxClock
        BY <1>1 DEF ClientInv, ClientType
    <2>2. client' = [client EXCEPT
                        !.last = IF direct THEN client.last ELSE n,
                        !.phase = "preparing", !.stamp = clock,
                        !.tried = n, !.failed = FALSE]
        BY DEF Prepare
    <2> HIDE DEF n
    <2>3. QED
        BY <1>3, <2>1, <2>2 DEF ClientInv, ClientType
<1>6. ClientType'
    BY <1>1, <1>4, <1>5 DEF ClientInv, ClientType
<1>7. CallsType'
    BY <1>2, <1>3 DEF ClientInv, CallsType, Prepare, Call
<1>8. Current' = <<client.gen, n>>
    <2>1. direct' = direct
        BY DEF Prepare
    <2>2. CASE direct
        BY <1>4, <2>1, <2>2 DEF Current
    <2>3. CASE ~direct
        BY <1>4, <2>1, <2>3 DEF Current
    <2>4. QED
        BY <2>2, <2>3
<1>9. QED
    BY <1>2, <1>6, <1>7, <1>8 DEF Sound, CurrentIsACommand

\* A step that begins without one, or with the resolution.
LEMMA PlainIsSound ==
    ASSUME ClientInv, Plain
    PROVE  Sound
<1> DEFINE n == client.last + 1
           begun == [client EXCEPT !.stamp = clock, !.failed = FALSE]
<1>1. /\ client.gen \in Generations /\ LastSequence[client.gen] \in Nat
      /\ n \in 0..LastSequence[client.gen]
      /\ client.tried \in -1..LastSequence[client.gen]
    BY DEF ClientInv, ClientType, Plain, Generations
<1>2. PICK tried \in {client.tried, IF Untried(n) THEN n ELSE client.tried} :
         IF direct
         THEN /\ client' = [begun EXCEPT !.tried = tried, !.failed = TRUE]
              /\ stopping' = TRUE
              /\ calls' = calls
         ELSE /\ client' = [begun EXCEPT !.tried = tried, !.last = n,
                                         !.phase = "resolving"]
              /\ calls' = calls \cup {Call("resolve", <<client.gen, n>>, clock)}
              /\ stopping' = stopping
    BY Zenon DEF Plain
<1>3. tried \in -1..LastSequence[client.gen]
    BY <1>1
<1>3a. tried \in Int /\ n \in Int /\ clock \in 0..MaxClock
    BY <1>1, <1>3 DEF ClientInv
<1>4. direct' = direct /\ Idle
    BY DEF Plain
<1>5. CASE direct
    <2>1. client' = [begun EXCEPT !.tried = tried, !.failed = TRUE]
          /\ calls' = calls
        BY <1>2, <1>5
    <2>2. /\ client'.gen = client.gen /\ client'.tried = tried
          /\ client'.last = client.last /\ client'.phase = client.phase
        BY <2>1 DEF ClientInv, ClientType
    <2>3. client' \in [gen : Generations, last : Int, phase : Phases,
                       stamp : 0..MaxClock, reply : Replies, tried : Int,
                       armed : BOOLEAN, failed : BOOLEAN]
        <3>1. client' = [client EXCEPT !.stamp = clock, !.tried = tried,
                                       !.failed = TRUE]
            BY <2>1 DEF ClientInv, ClientType
        <3> HIDE DEF n, begun
        <3>2. QED
            BY <1>3a, <3>1 DEF ClientInv, ClientType
    <2>4. ClientType'
        BY <1>1, <1>3, <2>2, <2>3 DEF ClientInv, ClientType
    <2>5. QED
        BY <1>4, <2>1, <2>2, <2>4 DEF Sound, ClientInv, CallsType,
                                      CurrentIsACommand, Idle
<1>6. CASE ~direct
    <2>1. /\ client' = [begun EXCEPT !.tried = tried, !.last = n,
                                     !.phase = "resolving"]
          /\ calls' = calls \cup {Call("resolve", <<client.gen, n>>, clock)}
        BY <1>2, <1>6
    <2>2. <<client.gen, n>> \in Commands
        BY <1>1, CommandsAre
    <2>3. /\ client'.gen = client.gen /\ client'.tried = tried
          /\ client'.last = n
        BY <2>1 DEF ClientInv, ClientType
    <2>4. "resolve" \in Operations /\ "resolving" \in Phases
        BY PhasesAre DEF Operations, Phase
    <2>5. client' \in [gen : Generations, last : Int, phase : Phases,
                       stamp : 0..MaxClock, reply : Replies, tried : Int,
                       armed : BOOLEAN, failed : BOOLEAN]
        <3>1. client' = [client EXCEPT !.stamp = clock, !.failed = FALSE,
                                       !.tried = tried, !.last = n,
                                       !.phase = "resolving"]
            BY <2>1 DEF ClientInv, ClientType
        <3> HIDE DEF n, begun
        <3>2. QED
            BY <1>3a, <2>4, <3>1 DEF ClientInv, ClientType
    <2>6. ClientType'
        BY <1>1, <1>3, <2>3, <2>5 DEF ClientInv, ClientType
    <2>7. CallsType'
        BY <2>1, <2>2, <2>4 DEF ClientInv, CallsType, Call
    <2>8. Current' = <<client.gen, n>>
        BY <1>4, <1>6, <2>3 DEF Current
    <2>9. QED
        BY <2>2, <2>6, <2>7, <2>8 DEF Sound, CurrentIsACommand
<1>7. QED
    BY <1>5, <1>6

\* The two ways out of a failed planning.
LEMMA LastIsSound ==
    ASSUME ClientInv, ~Idle, Last, direct' = direct
    PROVE  Sound
<1>1. CASE direct
    BY <1>1, FailIsSound DEF Last
<1>2. CASE ~direct
    BY <1>2, AskIsSound DEF Last, Operations
<1>3. QED
    BY <1>1, <1>2

LEMMA FallbackIsSound ==
    ASSUME ClientInv, ~Idle, Fallback, direct' = direct
    PROVE  Sound
<1>1. CASE direct
    BY <1>1, FailIsSound DEF Fallback
<1>2. CASE ~direct
    BY <1>2, AskIsSound DEF Fallback, Operations
<1>3. QED
    BY <1>1, <1>2

\* What a step of the client leaves of the adapter: all of it, or all but the
\* goal and the motion when a stop is confirmed.
Untouched ==
    /\ UNCHANGED <<clock, at, store, blocked, up, drives, direct>>
    /\ \/ UNCHANGED <<goal, motion>>
       \/ goal' = None /\ motion' = FALSE

LEMMA ClientLeavesTheAdapter ==
    ASSUME ClientNext
    PROVE  Untouched
BY DEF ClientNext, Prepare, Plain, TakeFrontiers, Decide, DecideFails,
       TakeCommit, TakeRelease, TakeFallback, TakeResolution, GiveUp,
       ConfirmStop, Reset, Untouched, adapter

\* Every step of the client keeps its part of the invariant.
LEMMA ClientIsSound ==
    ASSUME ClientInv, ClientNext
    PROVE  Sound
<1>1. CASE Prepare
    BY <1>1, PrepareIsSound DEF Prepare
<1>2. CASE Plain
    BY <1>2, PlainIsSound DEF Plain
<1>3. CASE TakeFrontiers
    <2>1. ~Idle /\ direct' = direct
        BY <1>3 DEF TakeFrontiers, Answered, Idle
    <2>2. CASE Fallback
        BY <2>1, <2>2, FallbackIsSound
    <2>3. CASE Last
        BY <2>1, <2>3, LastIsSound
    <2>4. CASE Ask("release")
        BY <2>1, <2>4, AskIsSound DEF Operations
    <2>5. CASE client' = [client EXCEPT !.phase = "deciding", !.reply = "none"]
               /\ calls' = calls
        <3>1. ClientType' /\ Current' = Current
            BY <2>1, <2>5, PhasesAre
            DEF ClientInv, ClientType, Replies, Current
        <3>2. QED
            BY <2>1, <2>5, <3>1 DEF Sound, ClientInv, CallsType,
                                    CurrentIsACommand
    <2>6. QED
        BY <1>3, <2>2, <2>3, <2>4, <2>5 DEF TakeFrontiers
<1>4. CASE Decide
    BY <1>4, AskIsSound DEF Decide, Operations, Idle
<1>5. CASE DecideFails
    BY <1>5, AskIsSound DEF DecideFails, Operations, Idle
<1>6. CASE TakeCommit
    <2>1. ~Idle /\ direct' = direct /\ TRUE \in BOOLEAN
        BY <1>6 DEF TakeCommit, Answered, Idle
    <2>2. CASE Fallback
        BY <2>1, <2>2, FallbackIsSound
    <2>3. CASE Fail
        BY <2>3, FailIsSound
    <2>4. CASE Succeed(TRUE) /\ calls' = calls
        BY <2>1, <2>4, SucceedIsSound
    <2>5. QED
        BY <1>6, <2>2, <2>3, <2>4 DEF TakeCommit
<1>7. CASE TakeRelease
    <2>1. ~Idle
        BY <1>7 DEF TakeRelease, Answered, Idle
    <2>2. QED
        BY <1>7, <2>1, LastIsSound DEF TakeRelease
<1>8. CASE TakeFallback
    <2>1. ~Idle /\ direct' = direct
        BY <1>8 DEF TakeFallback, Answered, Idle
    <2>2. CASE Ask("resolve")
        BY <2>1, <2>2, AskIsSound DEF Operations
    <2>3. CASE Succeed(client.reply = "driven") /\ calls' = calls
        BY <2>1, <2>3, SucceedIsSound
    <2>4. QED
        BY <1>8, <2>2, <2>3 DEF TakeFallback
<1>9. CASE TakeResolution
    <2>1. ~Idle /\ direct' = direct
        BY <1>9 DEF TakeResolution, Answered, Idle
    <2>2. CASE Fail
        BY <2>2, FailIsSound
    <2>3. CASE Succeed(client.reply = "driven") /\ calls' = calls
        BY <2>1, <2>3, SucceedIsSound
    <2>4. QED
        BY <1>9, <2>2, <2>3 DEF TakeResolution
<1>10. CASE GiveUp
    <2>1. ~Idle /\ direct' = direct
        BY <1>10 DEF GiveUp, Idle
    <2>2. CASE Last
        BY <2>1, <2>2, LastIsSound
    <2>3. CASE Ask("release") \/ Ask("resolve")
        BY <2>1, <2>3, AskIsSound DEF Operations
    <2>4. CASE Fail
        BY <2>4, FailIsSound
    <2>5. QED
        BY <1>10, <2>2, <2>3, <2>4 DEF GiveUp
<1>11. CASE ConfirmStop
    <2>1. ClientType' /\ Idle'
        BY <1>11 DEF ConfirmStop, ClientInv, ClientType, Idle
    <2>2. QED
        BY <1>11, <2>1 DEF ConfirmStop, Sound, ClientInv, CallsType,
                           CurrentIsACommand
<1>12. CASE Reset
    <2>1. client.gen + 1 \in Generations
        BY <1>12 DEF Reset, ClientInv, ClientType, Generations
    <2>2. LastSequence[client.gen + 1] \in Nat
        BY <2>1 DEF Generations
    <2>3. /\ client'.gen = client.gen + 1 /\ client'.last = -1
          /\ client'.tried = -1 /\ client'.phase = "idle"
        BY <1>12 DEF Reset, ClientInv, ClientType, Idle
    <2>4. client' \in [gen : Generations, last : Int, phase : Phases,
                       stamp : 0..MaxClock, reply : Replies, tried : Int,
                       armed : BOOLEAN, failed : BOOLEAN]
        <3>1. client' = [client EXCEPT !.gen = client.gen + 1, !.last = -1,
                                       !.tried = -1, !.armed = FALSE,
                                       !.failed = FALSE]
            BY <1>12 DEF Reset, ClientInv, ClientType
        <3>2. /\ client \in [gen : Generations, last : Int, phase : Phases,
                              stamp : 0..MaxClock, reply : Replies,
                              tried : Int, armed : BOOLEAN, failed : BOOLEAN]
              /\ -1 \in Int
            BY DEF ClientInv, ClientType
        <3>3. QED
            BY <2>1, <3>1, <3>2
    <2>5. ClientType' /\ Idle'
        BY <2>2, <2>3, <2>4 DEF ClientType, Idle
    <2>6. QED
        BY <1>12, <2>5 DEF Reset, Sound, ClientInv, CallsType,
                           CurrentIsACommand
<1>13. QED
    BY <1>1, <1>2, <1>3, <1>4, <1>5, <1>6, <1>7, <1>8, <1>9, <1>10, <1>11,
       <1>12 DEF ClientNext

-----------------------------------------------------------------------------
(* The steps of the adapter.                                                 *)

\* An answer changes nothing of the client but the reply it waits for.
LEMMA AnswerIsSound ==
    ASSUME ClientInv, NEW r \in calls, NEW reply \in Replies,
           Answer(r, reply), direct' = direct
    PROVE  Sound
<1>1. CASE Awaits(r)
    <2>1. client' = [client EXCEPT !.reply = reply]
        BY <1>1 DEF Answer
    <2>2. ClientType' /\ Current' = Current /\ (Idle' <=> Idle)
        BY <2>1 DEF ClientInv, ClientType, Current, Idle
    <2>3. QED
        BY <2>2 DEF Answer, Sound, ClientInv, CallsType, CurrentIsACommand
<1>2. CASE ~Awaits(r)
    <2>1. client' = client
        BY <1>2 DEF Answer
    <2>2. QED
        BY <2>1 DEF Answer, Sound, ClientInv, ClientType, CallsType,
                    CurrentIsACommand, Current, Idle
<1>3. QED
    BY <1>1, <1>2

\* Every step of the adapter keeps the client's part of the invariant.
LEMMA ServeIsSound ==
    ASSUME ClientInv, NEW r \in calls, Serve(r)
    PROVE  Sound
<1>1. CASE AdapterEnds(r)
    BY <1>1 DEF AdapterEnds, Sound, ClientInv, ClientType, CallsType,
                CurrentIsACommand, Current, Idle
<1>2. CASE ~AdapterEnds(r)
    <2>1. direct' = direct /\ \E reply \in Replies : Answer(r, reply)
        BY <1>2 DEF Serve, Replies, PrepareRefused, PrepareFrontiers,
                    CommitRefused, CommitFails, CommitOvertaken,
                    CommitFrontier, CommitBreaks, ResolveRefused, ResolveFails,
                    ResolveStops, ResolveDrives
    <2>2. QED
        BY <2>1, AnswerIsSound
<1>3. QED
    BY <1>1, <1>2

\* The rest of the steps leave the client and the requests alone.
LEMMA RestIsSound ==
    ASSUME ClientInv, GoalFinished \/ StoreExpires \/ StopArrives \/ Tick
    PROVE  Sound
<1>1. UNCHANGED <<direct, client, calls>>
    BY DEF GoalFinished, StoreExpires, StopArrives, Tick
<1>2. QED
    BY <1>1 DEF Sound, ClientInv, ClientType, CallsType, CurrentIsACommand,
                Current, Idle

\* What the invariant says of the adapter.
AdapterInv ==
    /\ AdapterType /\ drives \in [Goals -> Nat]
    /\ StoreIsAhead /\ DrivenOnce /\ BlockedIsStill /\ GoalIsKnown

\* A step that neither adopts a command nor drives, and leaves in the store at
\* most what was there.
LEMMA QuietStep ==
    ASSUME AdapterInv,
           at' = at, drives' = drives, store' \in {store, None},
           up' \in BOOLEAN, motion' \in BOOLEAN, blocked' \in BOOLEAN,
           goal' \in Goals \cup {None}, BlockedIsStill', GoalIsKnown'
    PROVE  AdapterInv'
<1>1. AdapterType' /\ drives' \in [Goals -> Nat]
    BY DEF AdapterInv, AdapterType
<1>2. StoreIsAhead'
    BY DEF AdapterInv, StoreIsAhead, IsNext, NewGeneration
<1>3. DrivenOnce'
    BY DEF AdapterInv, DrivenOnce, Once, Undriven, Adopted
<1>4. QED
    BY <1>1, <1>2, <1>3 DEF AdapterInv

\* A step that adopts the next command and empties the store, without driving.
LEMMA AdoptingStep ==
    ASSUME AdapterInv, NEW id \in Commands, IsNext(id), TypeOK,
           at' = id, drives' = drives, store' = None,
           up' \in BOOLEAN, motion' \in BOOLEAN, blocked' \in BOOLEAN,
           goal' \in Goals \cup {None}, BlockedIsStill', GoalIsKnown'
    PROVE  AdapterInv'
<1>1. AdapterType' /\ drives' \in [Goals -> Nat]
    BY DEF AdapterInv, AdapterType
<1>2. DrivenOnce'
    <2> SUFFICES ASSUME NEW other \in Commands
                 PROVE  Once(other)' /\ (Undriven(other)' \/ Adopted(other)')
        BY DEF DrivenOnce
    <2>1. Once(other)' /\ (Undriven(other) <=> Undriven(other)')
        BY DEF AdapterInv, DrivenOnce, Once, Undriven
    <2>2. Adopted(other) => Adopted(other)'
        BY NextIsNew DEF Adopted
    <2>3. QED
        BY <2>1, <2>2 DEF AdapterInv, DrivenOnce
<1>3. QED
    BY <1>1, <1>2 DEF AdapterInv, StoreIsAhead

\* A step that adopts the next command and drives, over a goal that is known or
\* one it could not take back.
LEMMA DrivingStep ==
    ASSUME AdapterInv, NEW id \in Commands, IsNext(id), TypeOK,
           NEW g \in {Frontier(id), Resolved(id)}, Drive(g),
           at' = id, store' = None, up' \in BOOLEAN, motion' \in BOOLEAN,
           blocked' \in BOOLEAN, goal' \in Goals \cup {None}, BlockedIsStill',
           goal' \in {None, g} \/ blocked' \/ drives[goal'] >= 1
    PROVE  AdapterInv'
<1>1. /\ g \in Goals /\ drives \in [Goals -> Nat]
      /\ drives' = [drives EXCEPT ![g] = drives[g] + 1]
    BY GoalsAre DEF AdapterInv, Drive
<1>2. /\ drives' \in [Goals -> Nat] /\ drives'[g] = drives[g] + 1
      /\ \A h \in Goals : h # g => drives'[h] = drives[h]
    BY <1>1
<1>3. AdapterType'
    BY DEF AdapterInv, AdapterType
<1>4. GoalIsKnown'
    BY <1>1, <1>2 DEF GoalIsKnown
<1>5. DrivenOnce'
    <2> SUFFICES ASSUME NEW other \in Commands
                 PROVE  Once(other)' /\ (Undriven(other)' \/ Adopted(other)')
        BY DEF DrivenOnce
    <2>1. Adopted(other) \/ other = id => Adopted(other)'
        BY NextIsNew DEF Adopted
    <2>2. CASE other = id
        <3>1. Undriven(id)
            BY NextIsNew DEF AdapterInv, DrivenOnce
        <3>2. Once(id)'
            BY <1>2, <3>1, GoalsAre DEF Undriven, Once
        <3>3. QED
            BY <2>1, <2>2, <3>2
    <2>3. CASE other # id
        <3>1. /\ drives'[Frontier(other)] = drives[Frontier(other)]
              /\ drives'[Resolved(other)] = drives[Resolved(other)]
            BY <1>2, <2>3, GoalsAre
        <3>2. QED
            BY <2>1, <3>1 DEF AdapterInv, DrivenOnce, Once, Undriven
    <2>4. QED
        BY <2>2, <2>3
<1>6. QED
    BY <1>2, <1>3, <1>4, <1>5 DEF AdapterInv, StoreIsAhead

\* What the failed-commit cleanup establishes.
LEMMA CleanupIsQuiet ==
    ASSUME AdapterInv, NEW left \in Goals \cup {None}, Cleanup(left),
           store' = None
    PROVE  /\ motion' = FALSE /\ blocked' \in BOOLEAN
           /\ goal' \in Goals \cup {None}
           /\ BlockedIsStill' /\ GoalIsKnown'
BY DEF Cleanup, BlockedIsStill, GoalIsKnown

\* Every step of the adapter keeps its part of the invariant.
LEMMA ServeKeepsTheAdapter ==
    ASSUME Inv, NEW r \in calls, Serve(r)
    PROVE  AdapterInv'
<1> USE DEF adapter
<1>1. /\ AdapterInv /\ TypeOK /\ r.id \in Commands
      /\ clock \in 0..MaxClock
    BY DEF Inv, AdapterInv, TypeOK, CallsType
<1>2. /\ motion \in BOOLEAN /\ blocked \in BOOLEAN /\ up \in BOOLEAN
      /\ goal \in Goals \cup {None}
      /\ Frontier(r.id) \in Goals /\ Resolved(r.id) \in Goals
    BY <1>1, GoalsAre DEF AdapterInv, AdapterType
<1>3. /\ Left \in Goals \cup {None} /\ LeftMotion \in BOOLEAN
      /\ Left # None => drives[Left] >= 1
    BY <1>1, <1>2 DEF Left, LeftMotion, AdapterInv, GoalIsKnown
<1>4. /\ Kept(r.id) \in Goals \cup {None} /\ KeptMotion(r.id) \in BOOLEAN
      /\ Kept(r.id) # None => drives[Kept(r.id)] >= 1
    BY <1>3 DEF Kept, KeptMotion
<1>5. CASE PrepareRefused(r)
    <2>1. UNCHANGED <<at, store, goal, motion, blocked, up, drives>>
        BY <1>5 DEF PrepareRefused
    <2>2. BlockedIsStill' /\ GoalIsKnown'
        BY <1>1, <2>1 DEF AdapterInv, BlockedIsStill, GoalIsKnown
    <2>3. QED
        BY <1>1, <1>2, <2>1, <2>2, QuietStep
<1>6. CASE PrepareFrontiers(r)
    <2>1. /\ at' = at /\ up' = up /\ drives' = drives
          /\ goal' = None /\ motion' = FALSE /\ blocked' = FALSE
          /\ store' = store \/ store' = [id |-> r.id, time |-> clock]
          /\ IsNext(r.id)
        BY <1>6 DEF PrepareFrontiers
    <2>2. BlockedIsStill' /\ GoalIsKnown'
        BY <2>1 DEF BlockedIsStill, GoalIsKnown
    <2>3. CASE store' = store
        BY <1>1, <1>2, <2>1, <2>2, <2>3, QuietStep
    <2>4. CASE store' = [id |-> r.id, time |-> clock]
        <3>1. AdapterType' /\ drives' \in [Goals -> Nat]
            BY <1>1, <1>2, <2>1, <2>4 DEF AdapterInv, AdapterType
        <3>2. StoreIsAhead'
            BY <2>1, <2>4 DEF StoreIsAhead, IsNext, NewGeneration
        <3>3. DrivenOnce'
            BY <1>1, <2>1 DEF AdapterInv, DrivenOnce, Once, Undriven, Adopted
        <3>4. QED
            BY <2>2, <3>1, <3>2, <3>3 DEF AdapterInv
    <2>5. QED
        BY <2>1, <2>3, <2>4
<1>7. CASE CommitRefused(r)
    <2>1. /\ UNCHANGED <<at, goal, motion, blocked, up, drives>>
          /\ store' = None
        BY <1>7 DEF CommitRefused
    <2>2. BlockedIsStill' /\ GoalIsKnown'
        BY <1>1, <2>1 DEF AdapterInv, BlockedIsStill, GoalIsKnown
    <2>3. QED
        BY <1>1, <1>2, <2>1, <2>2, QuietStep
<1>8. CASE CommitFails(r)
    <2>1. /\ at' = at /\ up' = up /\ drives' = drives /\ store' = None
          /\ Cleanup(goal)
        BY <1>8 DEF CommitFails
    <2>2. QED
        BY <1>1, <1>2, <2>1, CleanupIsQuiet, QuietStep
<1>9. CASE CommitOvertaken(r)
    <2>1. /\ at' = at /\ up' = up /\ drives' = drives /\ store' = None
          /\ \/ goal' = None /\ motion' = FALSE /\ blocked' = blocked
             \/ Cleanup(Frontier(r.id))
        BY <1>9 DEF CommitOvertaken
    <2>2. CASE goal' = None /\ motion' = FALSE /\ blocked' = blocked
        <3>1. BlockedIsStill' /\ GoalIsKnown'
            BY <2>1, <2>2 DEF BlockedIsStill, GoalIsKnown
        <3>2. QED
            BY <1>1, <1>2, <2>1, <2>2, <3>1, QuietStep
    <2>3. CASE Cleanup(Frontier(r.id))
        BY <1>1, <1>2, <2>1, <2>3, CleanupIsQuiet, QuietStep
    <2>4. QED
        BY <2>1, <2>2, <2>3
<1>10. CASE CommitFrontier(r)
    <2>1. /\ at' = r.id /\ up' = up /\ store' = None /\ motion' = TRUE
          /\ goal' = Frontier(r.id) /\ Drive(Frontier(r.id))
          /\ blocked' = blocked /\ IsNext(r.id) /\ Names(r)
        BY <1>10 DEF CommitFrontier, Selects
    <2>2. blocked' = FALSE /\ BlockedIsStill'
        BY <1>1, <1>2, <2>1 DEF AdapterInv, BlockedIsStill, Names
    <2>3. QED
        BY <1>1, <1>2, <2>1, <2>2, DrivingStep
<1>11. CASE ResolveRefused(r)
    <2>1. /\ at' = at /\ up' = up /\ drives' = drives /\ store' = None
          /\ goal' = Left /\ motion' = LeftMotion /\ blocked' = FALSE
        BY <1>11 DEF ResolveRefused, Resolves
    <2>2. BlockedIsStill' /\ GoalIsKnown'
        BY <1>3, <2>1 DEF BlockedIsStill, GoalIsKnown
    <2>3. QED
        BY <1>1, <1>2, <1>3, <2>1, <2>2, QuietStep
<1>12. CASE ResolveFails(r)
    <2>1. /\ at' = r.id /\ up' = up /\ drives' = drives /\ store' = None
          /\ goal' = Kept(r.id) /\ motion' = KeptMotion(r.id)
          /\ blocked' = FALSE /\ IsNext(r.id)
        BY <1>12 DEF ResolveFails, Resolves
    <2>2. GoalIsKnown' /\ BlockedIsStill'
        BY <1>4, <2>1 DEF GoalIsKnown, BlockedIsStill
    <2>3. QED
        BY <1>1, <1>2, <1>4, <2>1, <2>2, AdoptingStep
<1>13. CASE ResolveStops(r)
    <2>1. /\ at' = r.id /\ up' = up /\ drives' = drives /\ store' = None
          /\ goal' = None /\ motion' = FALSE
          /\ blocked' = FALSE /\ IsNext(r.id)
        BY <1>13 DEF ResolveStops, Resolves
    <2>2. GoalIsKnown' /\ BlockedIsStill'
        BY <2>1 DEF GoalIsKnown, BlockedIsStill
    <2>3. QED
        BY <1>1, <1>2, <2>1, <2>2, AdoptingStep
<1>14. CASE ResolveDrives(r)
    <2>1. /\ at' = r.id /\ up' = up /\ store' = None /\ motion' = TRUE
          /\ Drive(Resolved(r.id)) /\ blocked' = FALSE /\ IsNext(r.id)
          /\ goal' = Resolved(r.id) \/ (goal' = Kept(r.id) /\ goal' # None)
        BY <1>14 DEF ResolveDrives, Resolves
    <2>2. /\ goal' \in Goals /\ BlockedIsStill'
          /\ goal' = Resolved(r.id) \/ drives[goal'] >= 1
        BY <1>2, <1>4, <2>1 DEF BlockedIsStill
    <2>3. QED
        BY <1>1, <1>2, <2>1, <2>2, DrivingStep
<1>15. CASE AdapterEnds(r)
    <2>1. /\ UNCHANGED <<at, goal, blocked, drives>>
          /\ up' = FALSE /\ motion' = FALSE /\ store' = None
        BY <1>15 DEF AdapterEnds
    <2>2. BlockedIsStill' /\ GoalIsKnown'
        BY <1>1, <2>1 DEF AdapterInv, BlockedIsStill, GoalIsKnown
    <2>3. QED
        BY <1>1, <1>2, <2>1, <2>2, QuietStep
<1>16. CASE CommitBreaks(r)
    <2>1. /\ at' = r.id /\ up' = up /\ store' = None /\ IsNext(r.id)
          /\ Cleanup(Frontier(r.id))
          /\ drives' = drives \/ Drive(Frontier(r.id))
        BY <1>16 DEF CommitBreaks, Selects
    <2>2. /\ motion' = FALSE /\ blocked' \in BOOLEAN /\ BlockedIsStill'
          /\ goal' \in {None, Frontier(r.id)} /\ GoalIsKnown'
        BY <1>1, <1>2, <2>1, CleanupIsQuiet DEF Cleanup
    <2>3. CASE drives' = drives
        BY <1>1, <1>2, <2>1, <2>2, <2>3, AdoptingStep
    <2>4. CASE Drive(Frontier(r.id))
        BY <1>1, <1>2, <2>1, <2>2, <2>4, DrivingStep
    <2>5. QED
        BY <2>1, <2>3, <2>4
<1>17. QED
    BY <1>5, <1>6, <1>7, <1>8, <1>9, <1>10, <1>11, <1>12, <1>13, <1>14, <1>15,
       <1>16
    DEF Serve

\* The steps of neither keep it as well.
LEMMA RestKeepsTheAdapter ==
    ASSUME Inv,
           \/ GoalFinished \/ StoreExpires \/ StopArrives \/ Tick
           \/ UNCHANGED <<at, store, blocked, up, drives>>
              /\ goal' = None /\ motion' = FALSE
           \/ UNCHANGED <<adapter, drives>>
    PROVE  AdapterInv'
<1>1. AdapterInv /\ AdapterType
    BY DEF Inv, AdapterInv, TypeOK
<1>2. /\ at' = at /\ drives' = drives /\ store' \in {store, None}
      /\ up' = up /\ blocked' = blocked
      /\ motion' = motion \/ motion' = FALSE
      /\ goal' = goal \/ goal' = None
    BY DEF GoalFinished, StoreExpires, StopArrives, Tick, adapter
<1>3. BlockedIsStill' /\ GoalIsKnown'
    BY <1>1, <1>2 DEF AdapterInv, BlockedIsStill, GoalIsKnown
<1>4. QED
    BY <1>1, <1>2, <1>3, QuietStep DEF AdapterType

-----------------------------------------------------------------------------
\* The parts of the invariant that are not of the two nodes.
LEMMA FlagsAreTyped ==
    ASSUME TypeOK, [Next]_vars
    PROVE  /\ direct' \in BOOLEAN /\ stopping' \in BOOLEAN
           /\ abandoned' \in BOOLEAN /\ clock' \in 0..MaxClock
<1> USE DEF TypeOK, adapter, vars
<1>1. CASE ClientNext
    BY <1>1 DEF ClientNext, Prepare, Plain, TakeFrontiers, Decide, DecideFails,
                TakeCommit, TakeRelease, TakeFallback, TakeResolution, GiveUp,
                ConfirmStop, Reset, Last, Fallback, Fail
<1>2. ASSUME NEW r \in calls, Serve(r)
      PROVE  /\ UNCHANGED <<direct, stopping, abandoned>>
             /\ clock' = clock \/ (clock < MaxClock /\ clock' = clock + 1)
    BY <1>2 DEF Serve, PrepareRefused, PrepareFrontiers, CommitRefused,
                CommitFails, CommitOvertaken, CommitFrontier, CommitBreaks, ResolveRefused,
                ResolveFails, ResolveStops, ResolveDrives, AdapterEnds
<1>3. CASE GoalFinished \/ StoreExpires \/ StopArrives \/ Tick
    <2>1. direct' = direct /\ abandoned' = abandoned
        BY <1>3, Zenon DEF GoalFinished, StoreExpires, StopArrives, Tick
    <2>2. stopping' = stopping \/ stopping' = FALSE
        BY <1>3, Zenon DEF GoalFinished, StoreExpires, StopArrives, Tick
    <2>3. clock' = clock \/ (clock < MaxClock /\ clock' = clock + 1)
        BY <1>3, Zenon DEF GoalFinished, StoreExpires, StopArrives, Tick
    <2>4. clock' \in 0..MaxClock
        BY <2>3
    <2>5. stopping' \in BOOLEAN
        BY <2>2, Zenon
    <2>6. QED
        BY <2>1, <2>4, <2>5, Zenon
<1>4. CASE UNCHANGED vars
    BY <1>4
<1>5. QED
    BY <1>1, <1>2, <1>3, <1>4 DEF Next

\* Every step keeps the invariant.
LEMMA InvStep == Inv /\ [Next]_vars => Inv'
<1> SUFFICES ASSUME Inv, [Next]_vars PROVE Inv'
    OBVIOUS
<1>1. TypeOK /\ ClientInv
    BY DEF Inv, ClientInv, TypeOK
<1>2. Sound
    <2>1. CASE ClientNext
        BY <1>1, <2>1, ClientIsSound
    <2>2. CASE \E r \in calls : Serve(r)
        BY <1>1, <2>2, ServeIsSound
    <2>3. CASE GoalFinished \/ StoreExpires \/ StopArrives \/ Tick
        BY <1>1, <2>3, RestIsSound
    <2>4. CASE UNCHANGED vars
        BY <1>1, <2>4 DEF vars, Sound, ClientInv, ClientType, CallsType,
                          CurrentIsACommand, Current, Idle
    <2>5. QED
        BY <2>1, <2>2, <2>3, <2>4 DEF Next
<1>3. AdapterInv'
    <2>1. CASE ClientNext
        <3>1. Untouched
            BY <2>1, ClientLeavesTheAdapter
        <3>2. QED
            BY <3>1, RestKeepsTheAdapter DEF Untouched, adapter
    <2>2. CASE \E r \in calls : Serve(r)
        BY <2>2, ServeKeepsTheAdapter
    <2>3. CASE GoalFinished \/ StoreExpires \/ StopArrives \/ Tick
        BY <2>3, RestKeepsTheAdapter
    <2>4. CASE UNCHANGED vars
        BY <2>4, RestKeepsTheAdapter DEF vars
    <2>5. QED
        BY <2>1, <2>2, <2>3, <2>4 DEF Next
<1>4. QED
    BY <1>1, <1>2, <1>3, FlagsAreTyped DEF Sound, AdapterInv, Inv, TypeOK

\* The invariant holds in every state.
THEOREM Invariance == Spec => []Inv
BY InitInv, InvStep, PTL DEF Spec

\* The state of the two nodes keeps its types.
THEOREM TypeCorrect == Spec => []TypeOK
<1>1. Inv => TypeOK
    BY DEF Inv
<1>2. QED
    BY <1>1, Invariance, PTL

\* A prepared transaction is for the next command of the adapter, always.
THEOREM StoreStaysAhead == Spec => []StoreIsAhead
<1>1. Inv => StoreIsAhead
    BY DEF Inv
<1>2. QED
    BY <1>1, Invariance, PTL

\* No command sets the robot in motion twice, by whichever services.
THEOREM DrivesOnce == Spec => []OneDrivePerCommand
<1>1. Inv => OneDrivePerCommand
    BY DEF Inv, DrivenOnce, Once, OneDrivePerCommand
<1>2. QED
    BY <1>1, Invariance, PTL

\* Motion is only over goals of accepted commands.
THEOREM AcceptedGoals == Spec => []MovesOnlyAcceptedGoals
<1>1. Inv => MovesOnlyAcceptedGoals
    BY DEF Inv, BlockedIsStill, GoalIsKnown, MovesOnlyAcceptedGoals
<1>2. QED
    BY <1>1, Invariance, PTL

\* A late commit leaves goal and motion alone.
THEOREM LateCommits == Spec => LateCommitIsInert
<1>1. Inv /\ [Next]_vars
      => [ \A r \in calls \ calls' :
             r.op = "commit" /\ ~IsNext(r.id) => UNCHANGED <<goal, motion>> ]_vars
    <2> SUFFICES ASSUME Inv, Next, NEW r \in calls \ calls',
                        r.op = "commit", ~IsNext(r.id)
                 PROVE  UNCHANGED <<goal, motion>>
        BY DEF vars
    <2>1. CASE ClientNext
        <3>1. calls \subseteq calls'
            BY <2>1 DEF ClientNext, Prepare, Plain, TakeFrontiers, Decide,
                        DecideFails, TakeCommit, TakeRelease, TakeFallback,
                        TakeResolution, GiveUp, ConfirmStop, Reset, Last,
                        Fallback, Fail, Ask
        <3>2. QED
            BY <3>1
    <2>2. CASE \E q \in calls : Serve(q)
        <3>1. PICK q \in calls : Serve(q)
            BY <2>2
        <3>2. q = r
            BY <3>1 DEF Serve, Answer, PrepareRefused, PrepareFrontiers,
                        CommitRefused, CommitFails, CommitOvertaken,
                        CommitFrontier, CommitBreaks, ResolveRefused, ResolveFails,
                        ResolveStops, ResolveDrives, AdapterEnds
        <3>3. ~Names(r)
            BY DEF Inv, StoreIsAhead, Names
        <3>4. CommitRefused(r)
            BY <3>1, <3>2, <3>3
            DEF Serve, PrepareRefused, PrepareFrontiers, CommitFails,
                CommitOvertaken, CommitFrontier, CommitBreaks, Selects, ResolveRefused,
                ResolveFails, ResolveStops, ResolveDrives, Resolves,
                AdapterEnds
        <3>5. QED
            BY <3>4 DEF CommitRefused
    <2>3. CASE GoalFinished \/ StoreExpires \/ StopArrives \/ Tick
        BY <2>3 DEF GoalFinished, StoreExpires, StopArrives, Tick
    <2>4. QED
        BY <2>1, <2>2, <2>3 DEF Next
<1>2. QED
    BY <1>1, Invariance, PTL DEF Spec, LateCommitIsInert

-----------------------------------------------------------------------------
(* Failed steps.                                                             *)

\* While the client has not stopped waiting for any call, the adapter has at
\* most the one the client waits for.
NothingLeft == ~abandoned => \A r \in calls : Awaits(r) /\ calls = {r}

\* A step that has failed is over, and one that is over waits for nothing.
FailedIsOver ==
    /\ client.failed => Idle
    /\ Idle => client.reply = "none"

Failures == NothingLeft /\ FailedIsOver /\ FailedStepIsStopped

\* A client that does not wait, or has its answer, waits for no call.
LEMMA NoneAwaited ==
    ASSUME Inv, Failures, ~abandoned,
           Idle \/ client.phase = "deciding" \/ client.reply # "none"
    PROVE  calls = {}
<1>1. \A r \in calls : Phase[r.op] \notin {"idle", "deciding"}
    BY DEF Inv, TypeOK, CallsType, Operations, Phase
<1>2. \A r \in calls : ~Awaits(r)
    BY <1>1 DEF Awaits, Idle
<1>3. QED
    BY <1>2 DEF Failures, NothingLeft

\* A request after an answer is the only one.
LEMMA AskKeepsFailures ==
    ASSUME Inv, Failures, ~Idle, NEW op \in Operations, Ask(op),
           direct' = direct, abandoned' \/ calls = {}
    PROVE  Failures'
<1>1. ~client.failed /\ Phase[op] # "idle"
    BY DEF Failures, FailedIsOver, Operations, Phase
<1>2. client' = [client EXCEPT !.phase = Phase[op], !.reply = "none"]
      /\ client \in [gen : Generations, last : Int, phase : Phases,
                     stamp : 0..MaxClock, reply : Replies, tried : Int,
                     armed : BOOLEAN, failed : BOOLEAN]
    BY DEF Ask, Inv, TypeOK, ClientType
<1>3. /\ client'.phase = Phase[op] /\ client'.reply = "none"
      /\ client'.gen = client.gen /\ client'.last = client.last
      /\ client'.failed = client.failed
    BY <1>2
<1>4. Current' = Current
    BY <1>3 DEF Current
<1>5. Call(op, Current, client.stamp).op = op
      /\ Call(op, Current, client.stamp).id = Current
    BY DEF Call
<1>6. ASSUME ~abandoned' PROVE \A r \in calls' : Awaits(r)' /\ calls' = {r}
    <2>1. calls' = {Call(op, Current, client.stamp)}
        BY <1>6 DEF Ask
    <2>2. QED
        BY <1>3, <1>4, <1>5, <2>1 DEF Awaits
<1>7. QED
    BY <1>1, <1>3, <1>6
    DEF Failures, NothingLeft, FailedIsOver, FailedStepIsStopped, Idle

\* A step that waits for nothing any more and asks, fails or ends.
LEMMA EndKeepsFailures ==
    ASSUME Inv, Failures, ~Idle, direct' = direct, abandoned' = abandoned,
           client.phase = "deciding" \/ client.reply # "none",
           \/ \E op \in Operations : Ask(op)
           \/ Fail
           \/ calls' = calls /\ \E sent \in BOOLEAN : Succeed(sent)
    PROVE  Failures'
<1>1. ~abandoned => calls = {}
    BY NoneAwaited
<1>2. CASE \E op \in Operations : Ask(op)
    BY <1>1, <1>2, AskKeepsFailures
<1>3. CASE Fail
    <2>1. Idle' /\ client'.reply = "none" /\ stopping' = TRUE /\ calls' = calls
        BY <1>3 DEF Fail, Idle, Inv, TypeOK, ClientType
    <2>2. QED
        BY <1>1, <2>1 DEF Failures, NothingLeft, FailedIsOver, FailedStepIsStopped
<1>4. CASE calls' = calls /\ \E sent \in BOOLEAN : Succeed(sent)
    <2>1. client'.failed = client.failed /\ client'.reply = "none"
        BY <1>4 DEF Succeed, Inv, TypeOK, ClientType
    <2>2. ~client'.failed
        BY <2>1 DEF Failures, FailedIsOver
    <2>3. QED
        BY <1>1, <1>4, <2>1, <2>2 DEF Failures, NothingLeft, FailedIsOver, FailedStepIsStopped
<1>5. QED
    BY <1>2, <1>3, <1>4

\* Every step of the client.
LEMMA ClientKeepsFailures ==
    ASSUME Inv, Failures, ClientNext
    PROVE  Failures'
<1>1. client \in [gen : Generations, last : Int, phase : Phases,
                  stamp : 0..MaxClock, reply : Replies, tried : Int,
                  armed : BOOLEAN, failed : BOOLEAN]
    BY DEF Inv, TypeOK, ClientType
<1>2. CASE Prepare
    <2> DEFINE n == client.last + 1
    <2>1. /\ Idle
          /\ client' = [client EXCEPT !.last = IF direct THEN @ ELSE n,
                                      !.phase = "preparing", !.stamp = clock,
                                      !.tried = n, !.failed = FALSE]
          /\ calls' = calls \cup {Call("prepare", <<client.gen, n>>, clock)}
          /\ UNCHANGED <<direct, abandoned>>
        BY <1>2 DEF Prepare
    <2>2. /\ client'.phase = "preparing" /\ ~client'.failed
          /\ client'.gen = client.gen /\ client'.reply = client.reply
          /\ client'.last = IF direct THEN client.last ELSE n
        BY <1>1, <2>1
    <2>3. Current' = <<client.gen, n>>
        BY <2>1, <2>2 DEF Current
    <2>4. client.reply = "none" /\ (~abandoned => calls = {})
        BY <2>1, NoneAwaited DEF Failures, FailedIsOver
    <2>5. ASSUME ~abandoned' PROVE \A r \in calls' : Awaits(r)' /\ calls' = {r}
        <3>1. calls' = {Call("prepare", <<client.gen, n>>, clock)}
            BY <2>1, <2>4, <2>5
        <3>2. /\ Call("prepare", <<client.gen, n>>, clock).op = "prepare"
              /\ Call("prepare", <<client.gen, n>>, clock).id = <<client.gen, n>>
              /\ Phase["prepare"] = "preparing"
            BY DEF Call, Phase
        <3>3. QED
            BY <2>2, <2>3, <2>4, <3>1, <3>2 DEF Awaits
    <2>6. QED
        BY <2>2, <2>5
        DEF Failures, NothingLeft, FailedIsOver, FailedStepIsStopped, Idle
<1>3. CASE Plain /\ direct
    <2>1. Idle /\ stopping' = TRUE /\ calls' = calls /\ abandoned' = abandoned
        BY <1>3 DEF Plain
    <2>2. \E tried \in {client.tried, client.last + 1} :
             client' = [[client EXCEPT !.stamp = clock, !.failed = FALSE]
                           EXCEPT !.tried = tried, !.failed = TRUE]
        BY <1>3 DEF Plain
    <2>3. client'.phase = client.phase /\ client'.reply = client.reply
        BY <1>1, <2>2
    <2>4. QED
        BY <2>1, <2>3, NoneAwaited
        DEF Failures, NothingLeft, FailedIsOver, FailedStepIsStopped, Idle
<1>4. CASE Plain /\ ~direct
    <2> DEFINE n == client.last + 1
    <2>1. /\ Idle /\ UNCHANGED <<direct, abandoned>>
          /\ calls' = calls \cup {Call("resolve", <<client.gen, n>>, clock)}
        BY <1>4 DEF Plain
    <2>2. \E tried \in {client.tried, n} :
             client' = [[client EXCEPT !.stamp = clock, !.failed = FALSE]
                           EXCEPT !.tried = tried, !.last = n, !.phase = "resolving"]
        BY <1>4 DEF Plain
    <2>3. /\ client'.phase = "resolving" /\ client'.reply = client.reply
          /\ ~client'.failed /\ client'.gen = client.gen /\ client'.last = n
        BY <1>1, <2>2
    <2>4. Current' = <<client.gen, n>>
        BY <1>4, <2>1, <2>3 DEF Current
    <2>5. client.reply = "none" /\ (~abandoned => calls = {})
        BY <2>1, NoneAwaited DEF Failures, FailedIsOver
    <2>6. ASSUME ~abandoned' PROVE \A r \in calls' : Awaits(r)' /\ calls' = {r}
        <3>1. calls' = {Call("resolve", <<client.gen, n>>, clock)}
            BY <2>1, <2>5, <2>6
        <3>2. /\ Call("resolve", <<client.gen, n>>, clock).op = "resolve"
              /\ Call("resolve", <<client.gen, n>>, clock).id = <<client.gen, n>>
              /\ Phase["resolve"] = "resolving"
            BY DEF Call, Phase
        <3>3. QED
            BY <2>3, <2>4, <2>5, <3>1, <3>2 DEF Awaits
    <2>7. QED
        BY <2>3, <2>6
        DEF Failures, NothingLeft, FailedIsOver, FailedStepIsStopped, Idle
<1>5. CASE TakeFrontiers /\ client' = [client EXCEPT !.phase = "deciding", !.reply = "none"]
    <2>1. /\ client.phase = "preparing" /\ client.reply # "none"
          /\ abandoned' = abandoned
        BY <1>5 DEF TakeFrontiers, Answered
    <2>2. /\ client'.phase = "deciding" /\ client'.failed = client.failed
        BY <1>1, <1>5
    <2>3. calls' = calls
        <3>1. \/ calls' = calls
              \/ \E op \in Operations : client'.phase = Phase[op]
              \/ Fail
            <4>1. \A op : Ask(op) => client'.phase = Phase[op]
                BY <1>1 DEF Ask
            <4>2. {"resolve", "fallback", "release"} \subseteq Operations
                BY DEF Operations
            <4>3. \/ calls' = calls \/ Fail
                  \/ \E op \in {"resolve", "fallback", "release"} : Ask(op)
                BY <1>5 DEF TakeFrontiers, Fallback, Last
            <4>4. QED
                BY <4>1, <4>2, <4>3
        <3>2. \A op \in Operations : Phase[op] # "deciding"
            BY DEF Operations, Phase
        <3>3. QED
            BY <2>2, <3>1, <3>2 DEF Fail
    <2>4. ~client.failed
        BY <2>1 DEF Failures, FailedIsOver, Idle
    <2>5. QED
        BY <2>1, <2>2, <2>3, <2>4, NoneAwaited
        DEF Failures, NothingLeft, FailedIsOver, FailedStepIsStopped, Idle
<1>6. CASE \/ TakeFrontiers /\ client' # [client EXCEPT !.phase = "deciding", !.reply = "none"]
           \/ Decide \/ DecideFails \/ TakeCommit \/ TakeRelease \/ TakeFallback
           \/ TakeResolution
    <2>1. /\ ~Idle /\ UNCHANGED <<direct, abandoned>>
          /\ client.phase = "deciding" \/ client.reply # "none"
        BY <1>6 DEF TakeFrontiers, Decide, DecideFails, TakeCommit, TakeRelease,
                    TakeFallback, TakeResolution, Answered, Idle
    <2>2. \/ \E op \in Operations : Ask(op)
          \/ Fail
          \/ calls' = calls /\ \E sent \in BOOLEAN : Succeed(sent)
        BY <1>6 DEF TakeFrontiers, Decide, DecideFails, TakeCommit, TakeRelease,
                    TakeFallback, TakeResolution, Fallback, Last, Operations
    <2>3. QED
        BY <2>1, <2>2, EndKeepsFailures
<1>7. CASE GiveUp
    <2>1. ~Idle /\ abandoned' = TRUE /\ direct' = direct
          /\ (Fail \/ \E op \in Operations : Ask(op))
        BY <1>7 DEF GiveUp, Idle, Last, Operations
    <2>2. CASE Fail
        <3>1. Idle' /\ client'.reply = "none"
            BY <1>1, <2>2 DEF Fail, Idle
        <3>2. QED
            BY <2>1, <3>1 DEF Failures, NothingLeft, FailedIsOver, FailedStepIsStopped
    <2>3. CASE \E op \in Operations : Ask(op)
        BY <2>1, <2>3, AskKeepsFailures
    <2>4. QED
        BY <2>1, <2>2, <2>3
<1>8. CASE ConfirmStop \/ Reset
    <2>1. /\ Idle /\ motion' = FALSE /\ calls' = calls /\ abandoned' = abandoned
        BY <1>8 DEF ConfirmStop, Reset
    <2>2. client'.phase = client.phase /\ client'.reply = client.reply
        BY <1>1, <1>8 DEF ConfirmStop, Reset
    <2>3. QED
        BY <2>1, <2>2, NoneAwaited
        DEF Failures, NothingLeft, FailedIsOver, FailedStepIsStopped, Idle
<1>9. QED
    BY <1>2, <1>3, <1>4, <1>5, <1>6, <1>7, <1>8 DEF ClientNext

\* Every step of the adapter.
LEMMA ServeKeepsFailures ==
    ASSUME Inv, Failures, NEW r \in calls, Serve(r)
    PROVE  Failures'
<1>1. /\ calls' = calls \ {r} /\ UNCHANGED <<direct, stopping, abandoned>>
      /\ client' = client \/ \E reply \in Replies : client' = [client EXCEPT !.reply = reply]
    BY DEF Serve, PrepareRefused, PrepareFrontiers, CommitRefused, CommitFails,
           CommitOvertaken, CommitFrontier, CommitBreaks, ResolveRefused, ResolveFails,
           ResolveStops, ResolveDrives, AdapterEnds, Answer, Replies
<1>2. client' # client => Awaits(r)
    BY DEF Serve, PrepareRefused, PrepareFrontiers, CommitRefused, CommitFails,
           CommitOvertaken, CommitFrontier, CommitBreaks, ResolveRefused, ResolveFails,
           ResolveStops, ResolveDrives, AdapterEnds, Answer
<1>3. /\ client'.phase = client.phase /\ client'.failed = client.failed
      /\ client'.reply = client.reply \/ Awaits(r)
    BY <1>1, <1>2 DEF Inv, TypeOK, ClientType
<1>4. Awaits(r) => ~Idle
    <2>1. \A op \in Operations : Phase[op] # "idle"
        BY DEF Operations, Phase
    <2>2. QED
        BY <2>1 DEF Inv, TypeOK, CallsType, Awaits, Idle
<1>5. ~abandoned => Awaits(r) /\ calls' = {}
    BY <1>1 DEF Failures, NothingLeft
<1>6. QED
    BY <1>1, <1>3, <1>4, <1>5
    DEF Failures, NothingLeft, FailedIsOver, FailedStepIsStopped, Idle

LEMMA FailuresStep == Inv /\ Failures /\ [Next]_vars => Failures'
<1> SUFFICES ASSUME Inv, Failures, [Next]_vars PROVE Failures'
    OBVIOUS
<1>1. CASE ClientNext
    BY <1>1, ClientKeepsFailures
<1>2. CASE \E r \in calls : Serve(r)
    BY <1>2, ServeKeepsFailures
<1>3. CASE GoalFinished \/ StoreExpires \/ StopArrives \/ Tick
    BY <1>3 DEF GoalFinished, StoreExpires, StopArrives, Tick, adapter, Failures,
                NothingLeft, FailedIsOver, FailedStepIsStopped, Awaits, Current, Idle
<1>4. CASE UNCHANGED vars
    BY <1>4 DEF vars, adapter, Failures, NothingLeft, FailedIsOver, FailedStepIsStopped,
                Awaits, Current, Idle
<1>5. QED
    BY <1>1, <1>2, <1>3, <1>4 DEF Next

\* A step that failed leaves a robot that may not move, unless a stop is on its
\* way or a call was abandoned.
THEOREM FailedStepsAreStopped == Spec => []FailedStepIsStopped
<1>1. Init => Failures
    BY DEF Init, Failures, NothingLeft, FailedIsOver, FailedStepIsStopped
<1>2. Failures => FailedStepIsStopped
    BY DEF Failures
<1>3. QED
    BY <1>1, <1>2, FailuresStep, Invariance, PTL DEF Spec

-----------------------------------------------------------------------------
(* The instant of a frontier.                                                *)

\* Frontiers have been asked for the command id, or for a later one.
AskedFor(id) ==
    id[1] < client.gen \/ (id[1] = client.gen /\ id[2] <= client.tried)

\* The client has been told that the frontiers of its command are prepared.
Prepared ==
    \/ client.phase = "deciding"
    \/ client.phase = "preparing" /\ client.reply = "prepared"

\* Each command is prepared once, no later than its frontiers are stored, and
\* never again once a commit may name it.
PreparedOnce ==
    /\ client.tried <= client.last + 1
    /\ client.phase \in {"preparing", "deciding"} => client.tried = Current[2]
    /\ \A r \in calls : r.op \in {"prepare", "commit"} => AskedFor(r.id)
    /\ \A r \in calls : r.op = "prepare" =>
          /\ r.stamp <= clock
          /\ \A s \in calls : s.op = "prepare" /\ s.id = r.id => s = r
          /\ \A s \in calls : s.op = "commit" => s.id # r.id
          /\ client.phase = "preparing" /\ r.id = Current => r.stamp = client.stamp
          /\ Prepared => r.id # Current

\* The transaction that a commit names is of the instant the commit was sent.
StoreInTime ==
    store # None =>
        /\ store.time <= clock
        /\ \A r \in calls : r.op = "commit" /\ r.id = store.id => store.time = r.stamp
        /\ Prepared /\ store.id = Current => client.stamp <= store.time

Instants == PreparedOnce /\ StoreInTime

\* The parts of the invariant used below.
LEMMA InvIs ==
    ASSUME Inv
    PROVE  /\ client \in [gen : Generations, last : Int, phase : Phases,
                          stamp : 0..MaxClock, reply : Replies, tried : Int,
                          armed : BOOLEAN, failed : BOOLEAN]
           /\ client.gen \in Nat /\ client.last \in Int /\ client.last >= -1
           /\ client.tried \in Int /\ client.stamp \in Int /\ clock \in Int
           /\ direct \in BOOLEAN
           /\ store # None => store.id \in Commands /\ store.time \in Int
           /\ \A r \in calls : /\ r.op \in Operations /\ r.id \in Commands
                               /\ r.id[1] \in Nat /\ r.id[2] \in Nat
                               /\ r.stamp \in Int
<1>1. TypeOK
    BY DEF Inv
<1>2. client \in [gen : Generations, last : Int, phase : Phases,
                  stamp : 0..MaxClock, reply : Replies, tried : Int,
                  armed : BOOLEAN, failed : BOOLEAN]
    BY <1>1 DEF TypeOK, ClientType
<1>3. client.last \in -1..LastSequence[client.gen] /\ clock \in 0..MaxClock
      /\ direct \in BOOLEAN
    BY <1>1 DEF TypeOK, ClientType
<1>4. /\ client.gen \in Nat /\ client.last \in Int /\ client.last >= -1
      /\ client.tried \in Int /\ client.stamp \in Int /\ clock \in Int
    BY <1>2, <1>3 DEF Generations
<1>5. store # None => store.id \in Commands /\ store.time \in Int
    BY <1>1 DEF TypeOK, AdapterType
<1>6. \A r \in calls : /\ r.op \in Operations /\ r.id \in Commands
                        /\ r.id[1] \in Nat /\ r.id[2] \in Nat
                        /\ r.stamp \in Int
    BY <1>1, CommandsAre DEF TypeOK, CallsType
<1>7. QED
    BY <1>2, <1>3, <1>4, <1>5, <1>6

\* A client whose step goes on or ends without asking for frontiers.
LEMMA InstantsStay ==
    ASSUME Inv, Instants, UNCHANGED <<clock, store>>,
           client'.gen = client.gen, client'.last >= client.last, client'.last \in Int,
           client'.tried \in Int, client'.tried >= client.tried,
           client'.tried <= client'.last + 1,
           client'.phase \notin {"preparing", "deciding"},
           \A r \in calls' : r \in calls \/ r.op \notin {"prepare", "commit"}
    PROVE  Instants'
<1>1. \A r \in calls : AskedFor(r.id) => AskedFor(r.id)'
    BY InvIs, SMTT(30) DEF AskedFor
<1>2. ~Prepared'
    BY DEF Prepared
<1>3. PreparedOnce'
    BY <1>1, <1>2 DEF Instants, PreparedOnce
<1>4. StoreInTime'
    BY <1>2 DEF Instants, StoreInTime
<1>5. QED
    BY <1>3, <1>4 DEF Instants

\* A request that is not for frontiers.
LEMMA AskKeepsInstants ==
    ASSUME Inv, Instants, NEW op \in Operations \ {"prepare", "commit"}, Ask(op),
           UNCHANGED <<clock, store>>
    PROVE  Instants'
<1>1. client' = [client EXCEPT !.phase = Phase[op], !.reply = "none"]
      /\ calls' = calls \cup {Call(op, Current, client.stamp)}
    BY DEF Ask
<1>2. Phase[op] \notin {"preparing", "deciding"}
    BY DEF Operations, Phase
<1>3. /\ client'.phase = Phase[op] /\ client'.gen = client.gen
      /\ client'.last = client.last /\ client'.tried = client.tried
    BY <1>1, InvIs
<1>4. \A r \in calls' : r \in calls \/ r.op \notin {"prepare", "commit"}
    BY <1>1 DEF Call
<1>5. client.tried <= client.last + 1
    BY DEF Instants, PreparedOnce
<1>6. QED
    BY <1>2, <1>3, <1>4, <1>5, InvIs, InstantsStay

LEMMA FailKeepsInstants ==
    ASSUME Inv, Instants, Fail, UNCHANGED <<clock, store>>
    PROVE  Instants'
<1>1. /\ client'.phase = "idle" /\ client'.gen = client.gen /\ calls' = calls
      /\ client'.last = client.last /\ client'.tried = client.tried
    BY InvIs DEF Fail
<1>2. client.tried <= client.last + 1
    BY DEF Instants, PreparedOnce
<1>3. QED
    BY <1>1, <1>2, InvIs, InstantsStay

LEMMA SucceedKeepsInstants ==
    ASSUME Inv, Instants, NEW sent \in BOOLEAN, Succeed(sent), calls' = calls,
           UNCHANGED <<clock, store>>
    PROVE  Instants'
<1>1. /\ client'.phase = "idle" /\ client'.gen = client.gen
      /\ client'.last = Current[2] /\ client'.tried = client.tried
    BY InvIs DEF Succeed
<1>2. Current[2] \in Int /\ Current[2] >= client.last
    BY InvIs DEF Current
<1>3. client.tried <= client.last + 1
    BY DEF Instants, PreparedOnce
<1>4. client.tried <= Current[2] + 1
    BY <1>2, <1>3, InvIs
<1>5. QED
    BY <1>1, <1>2, <1>4, InvIs, InstantsStay

\* The command whose frontiers are asked for is asked for the first time.
LEMMA PrepareKeepsInstants ==
    ASSUME Inv, Instants, Failures, Prepare
    PROVE  Instants'
<1>1. PICK n : n = client.last + 1
    OBVIOUS
<1>2. PICK c : c = Call("prepare", <<client.gen, n>>, clock)
    OBVIOUS
<1>3. /\ Idle /\ Untried(n) /\ calls' = calls \cup {c}
      /\ client' = [client EXCEPT !.last = IF direct THEN @ ELSE n,
                                  !.phase = "preparing", !.stamp = clock,
                                  !.tried = n, !.failed = FALSE]
      /\ UNCHANGED <<direct, clock, store>>
    BY <1>1, <1>2 DEF Prepare, adapter
<1>4. /\ client'.phase = "preparing" /\ client'.gen = client.gen
      /\ client'.last = IF direct THEN client.last ELSE n
      /\ client'.tried = n /\ client'.stamp = clock /\ client'.reply = client.reply
    BY <1>3, InvIs
<1>5. Current' = <<client.gen, n>> /\ n \in Int /\ client.tried < n
    <2>1. Current' = <<client.gen, n>>
        BY <1>3, <1>4, <1>1, InvIs DEF Current
    <2>2. client.tried <= n /\ n \in Int /\ n >= 0
        BY <1>1, InvIs DEF Instants, PreparedOnce
    <2>3. client.tried # n
        BY <1>3, <2>2 DEF Untried
    <2>4. QED
        BY <2>1, <2>2, <2>3, InvIs
<1>6. c.op = "prepare" /\ c.id = <<client.gen, n>> /\ c.stamp = clock
    BY <1>2 DEF Call
<1>7. \A r \in calls : r.op \in {"prepare", "commit"} =>
          /\ AskedFor(r.id)' /\ r.id # c.id
    <2> SUFFICES ASSUME NEW r \in calls, r.op \in {"prepare", "commit"}
                 PROVE  AskedFor(r.id)' /\ r.id # c.id
        OBVIOUS
    <2>1. AskedFor(r.id)
        BY DEF Instants, PreparedOnce
    <2>2. AskedFor(r.id)'
        BY <1>4, <1>5, <2>1, InvIs DEF AskedFor
    <2>3. ~AskedFor(c.id)
        BY <1>5, <1>6, InvIs DEF AskedFor
    <2>4. QED
        BY <2>1, <2>2, <2>3
<1>8. AskedFor(c.id)'
    BY <1>4, <1>5, <1>6, InvIs DEF AskedFor
<1>9. ~Prepared'
    BY <1>3, <1>4 DEF Prepared, Failures, FailedIsOver
<1>10. PreparedOnce'
    <2>1. /\ client'.tried <= client'.last + 1
          /\ client'.phase \in {"preparing", "deciding"} => client'.tried = Current[2]'
        <3>1. client'.last \in {client.last, n} /\ n = client.last + 1
            BY <1>4, <1>1
        <3>2. QED
            BY <1>4, <1>5, <3>1, InvIs
    <2>2. \A r \in calls' : r.op \in {"prepare", "commit"} => AskedFor(r.id)'
        BY <1>3, <1>7, <1>8
    <2>3. ASSUME NEW r \in calls', r.op = "prepare"
          PROVE  /\ r.stamp <= clock'
                 /\ \A s \in calls' : s.op = "prepare" /\ s.id = r.id => s = r
                 /\ \A s \in calls' : s.op = "commit" => s.id # r.id
                 /\ client'.phase = "preparing" /\ r.id = Current' => r.stamp = client'.stamp
        <3>1. CASE r = c
            BY <1>3, <1>4, <1>6, <1>7, <3>1, InvIs, SMTT(30)
        <3>2. CASE r # c
            <4>1. r \in calls /\ r.id # c.id
                BY <1>3, <1>7, <2>3, <3>2
            <4>2. QED
                BY <1>3, <1>5, <1>6, <2>3, <4>1 DEF Instants, PreparedOnce
        <3>3. QED
            BY <3>1, <3>2
    <2>4. QED
        BY <1>9, <2>1, <2>2, <2>3 DEF PreparedOnce
<1>11. StoreInTime'
    <2>1. \A r \in calls' : r.op = "commit" => r \in calls
        BY <1>3, <1>6
    <2>2. QED
        BY <1>3, <1>9, <2>1 DEF Instants, StoreInTime
<1>12. QED
    BY <1>10, <1>11 DEF Instants

LEMMA PlainKeepsInstants ==
    ASSUME Inv, Instants, Plain
    PROVE  Instants'
<1>1. UNCHANGED <<clock, store>> /\ Idle
    BY DEF Plain, adapter
<1>2. PICK tried \in {client.tried, IF Untried(client.last + 1) THEN client.last + 1
                                   ELSE client.tried} :
        \/ /\ client' = [[client EXCEPT !.stamp = clock, !.failed = FALSE]
                            EXCEPT !.tried = tried, !.failed = TRUE]
           /\ calls' = calls
        \/ /\ client' = [[client EXCEPT !.stamp = clock, !.failed = FALSE]
                            EXCEPT !.tried = tried, !.last = client.last + 1,
                                   !.phase = "resolving"]
           /\ calls' = calls \cup {Call("resolve", <<client.gen, client.last + 1>>, clock)}
    BY DEF Plain
<1>3. client.tried <= client.last + 1
    BY DEF Instants, PreparedOnce
<1>4. tried \in Int /\ tried >= client.tried /\ tried <= client.last + 1
    BY <1>3, InvIs
<1>5. /\ client'.gen = client.gen /\ client'.tried = tried
      /\ client'.last \in {client.last, client.last + 1}
      /\ client'.phase \in {client.phase, "resolving"}
    <2>1. CASE client' = [[client EXCEPT !.stamp = clock, !.failed = FALSE]
                            EXCEPT !.tried = tried, !.failed = TRUE]
        BY <2>1, InvIs
    <2>2. CASE client' = [[client EXCEPT !.stamp = clock, !.failed = FALSE]
                            EXCEPT !.tried = tried, !.last = client.last + 1,
                                   !.phase = "resolving"]
        BY <2>2, InvIs
    <2>3. QED
        BY <1>2, <2>1, <2>2
<1>6. \A r \in calls' : r \in calls \/ r.op \notin {"prepare", "commit"}
    BY <1>2 DEF Call
<1>7. /\ client'.last \in Int /\ client'.last >= client.last
      /\ tried <= client'.last + 1
    BY <1>4, <1>5, InvIs
<1>8. client'.phase \notin {"preparing", "deciding"}
    BY <1>1, <1>5 DEF Idle
<1>9. QED
    BY <1>1, <1>4, <1>5, <1>6, <1>7, <1>8, InstantsStay

\* The planner may choose: the frontiers were prepared.
LEMMA DecidingKeepsInstants ==
    ASSUME Inv, Instants, Answered("preparing"), client.reply = "prepared",
           client' = [client EXCEPT !.phase = "deciding", !.reply = "none"],
           UNCHANGED <<direct, clock, store, calls>>
    PROVE  Instants'
<1>1. /\ client'.phase = "deciding" /\ client'.gen = client.gen
      /\ client'.last = client.last /\ client'.tried = client.tried
      /\ client'.stamp = client.stamp
    BY InvIs
<1>2. Prepared /\ client.phase = "preparing"
    BY DEF Answered, Prepared
<1>3. Current' = Current /\ \A id : AskedFor(id)' <=> AskedFor(id)
    BY <1>1 DEF Current, AskedFor
<1>4. PreparedOnce'
    BY <1>1, <1>2, <1>3 DEF Instants, PreparedOnce
<1>5. StoreInTime'
    BY <1>1, <1>2, <1>3 DEF Instants, StoreInTime
<1>6. QED
    BY <1>4, <1>5 DEF Instants

\* The commit is sent at the instant the step began, and so at the one of the
\* transaction it names.
LEMMA CommitKeepsInstants ==
    ASSUME Inv, Instants, client.phase = "deciding", clock = client.stamp,
           Ask("commit"), UNCHANGED <<direct, clock, store>>
    PROVE  Instants'
<1> DEFINE c == Call("commit", Current, client.stamp)
<1>1. client' = [client EXCEPT !.phase = Phase["commit"], !.reply = "none"]
      /\ calls' = calls \cup {c}
    BY DEF Ask
<1>2. /\ client'.phase = "committing" /\ client'.gen = client.gen
      /\ client'.last = client.last /\ client'.tried = client.tried
    <2>1. Phase["commit"] = "committing"
        BY DEF Phase
    <2>2. QED
        BY <1>1, <2>1, InvIs
<1>3. c.op = "commit" /\ c.id = Current /\ c.stamp = clock
    BY DEF Call
<1> HIDE DEF c
<1>4. ~Prepared' /\ Prepared /\ \A id : AskedFor(id)' <=> AskedFor(id)
    BY <1>2 DEF Prepared, AskedFor
<1>5. AskedFor(Current)
    BY InvIs DEF Instants, PreparedOnce, AskedFor, Current
<1>6. PreparedOnce'
    <2>1. /\ client'.tried <= client'.last + 1
          /\ client'.phase \notin {"preparing", "deciding"}
        BY <1>2 DEF Instants, PreparedOnce
    <2>2. \A r \in calls' : r.op \in {"prepare", "commit"} => AskedFor(r.id)'
        BY <1>1, <1>3, <1>4, <1>5 DEF Instants, PreparedOnce
    <2>3. ASSUME NEW r \in calls', r.op = "prepare"
          PROVE  /\ r.stamp <= clock'
                 /\ \A s \in calls' : s.op = "prepare" /\ s.id = r.id => s = r
                 /\ \A s \in calls' : s.op = "commit" => s.id # r.id
        <3>1. r \in calls
            BY <1>1, <1>3, <2>3
        <3>2. r.id # Current
            BY <1>4, <2>3, <3>1 DEF Instants, PreparedOnce
        <3>3. QED
            BY <1>1, <1>3, <2>3, <3>1, <3>2 DEF Instants, PreparedOnce
    <2>4. QED
        BY <1>4, <2>1, <2>2, <2>3 DEF PreparedOnce
<1>7. StoreInTime'
    <2>1. store # None /\ store.id = Current => store.time = clock
        BY <1>4, InvIs DEF Instants, StoreInTime
    <2>2. QED
        BY <1>1, <1>3, <1>4, <2>1 DEF Instants, StoreInTime
<1>8. QED
    BY <1>6, <1>7 DEF Instants

LEMMA ClientKeepsInstants ==
    ASSUME Inv, Instants, Failures, ClientNext
    PROVE  Instants'
<1>1. UNCHANGED <<clock, store, direct>>
    BY ClientLeavesTheAdapter DEF Untouched
<1>2. CASE Prepare
    BY <1>2, PrepareKeepsInstants
<1>3. CASE Plain
    BY <1>3, PlainKeepsInstants
<1>4. CASE Decide /\ Ask("commit")
    BY <1>1, <1>4, CommitKeepsInstants DEF Decide
<1>5. CASE \E op \in Operations \ {"prepare", "commit"} : Ask(op)
    BY <1>1, <1>5, AskKeepsInstants
<1>6. CASE Fail
    BY <1>1, <1>6, FailKeepsInstants
<1>7. CASE calls' = calls /\ \E sent \in BOOLEAN : Succeed(sent)
    BY <1>1, <1>7, SucceedKeepsInstants
<1>8. CASE /\ Answered("preparing") /\ client.reply = "prepared"
           /\ client' = [client EXCEPT !.phase = "deciding", !.reply = "none"]
           /\ calls' = calls
    BY <1>1, <1>8, DecidingKeepsInstants
<1>9. CASE ConfirmStop
    <2>1. /\ client'.phase = "idle" /\ client'.gen = client.gen /\ calls' = calls
          /\ client'.last = client.last /\ client'.tried = client.tried
        BY <1>9, InvIs DEF ConfirmStop, Idle
    <2>2. client.tried <= client.last + 1
        BY DEF Instants, PreparedOnce
    <2>3. QED
        BY <1>1, <2>1, <2>2, InvIs, InstantsStay
<1>10. CASE Reset
    <2>1. /\ client'.phase = "idle" /\ client'.gen = client.gen + 1 /\ calls' = calls
          /\ client'.last = -1 /\ client'.tried = -1
        BY <1>10, InvIs DEF Reset, Idle
    <2>2. \A r \in calls : AskedFor(r.id) => AskedFor(r.id)'
        BY <2>1, InvIs, SMTT(30) DEF AskedFor
    <2>3. ~Prepared'
        BY <2>1 DEF Prepared
    <2>4. PreparedOnce'
        BY <1>1, <2>1, <2>2, <2>3 DEF Instants, PreparedOnce
    <2>5. StoreInTime'
        BY <1>1, <2>1, <2>3 DEF Instants, StoreInTime
    <2>6. QED
        BY <2>4, <2>5 DEF Instants
<1>11. QED
    <2>1. {"release", "abstain", "fallback", "resolve"} \subseteq
              Operations \ {"prepare", "commit"}
        BY DEF Operations
    <2>2. CASE TakeFrontiers
        <3>1. \/ \E op \in {"release", "abstain", "fallback", "resolve"} : Ask(op)
              \/ Fail
              \/ /\ Answered("preparing") /\ client.reply = "prepared"
                 /\ client' = [client EXCEPT !.phase = "deciding", !.reply = "none"]
                 /\ calls' = calls
            BY <2>2 DEF TakeFrontiers, Fallback, Last
        <3>2. QED
            BY <1>5, <1>6, <1>8, <2>1, <3>1
    <2>3. CASE Decide
        BY <1>4, <1>5, <2>1, <2>3 DEF Decide
    <2>4. CASE DecideFails \/ TakeCommit \/ TakeRelease \/ TakeFallback \/ TakeResolution
               \/ GiveUp
        <3>1. \/ \E op \in {"release", "abstain", "fallback", "resolve"} : Ask(op)
              \/ Fail
              \/ calls' = calls /\ \E sent \in BOOLEAN : Succeed(sent)
            BY <2>4 DEF DecideFails, TakeCommit, TakeRelease, TakeFallback,
                        TakeResolution, GiveUp, Fallback, Last
        <3>2. QED
            BY <1>5, <1>6, <1>7, <2>1, <3>1
    <2>5. QED
        BY <1>2, <1>3, <1>9, <1>10, <2>2, <2>3, <2>4 DEF ClientNext

\* The adapter, or the clock, goes on: of the requests at most one is answered,
\* and of the transactions at most the present one is left.
LEMMA AdapterKeepsInstants ==
    ASSUME Inv, Instants,
           clock' \in Int, clock' >= clock, store' \in {store, None},
           calls' \subseteq calls, direct' = direct,
           client'.gen = client.gen, client'.last = client.last,
           client'.tried = client.tried, client'.phase = client.phase,
           client'.stamp = client.stamp, Prepared' => Prepared
    PROVE  Instants'
<1>1. Current' = Current /\ \A id : AskedFor(id)' <=> AskedFor(id)
    BY DEF Current, AskedFor
<1>2. PreparedOnce'
    <2>1. /\ client'.tried <= client'.last + 1
          /\ client'.phase \in {"preparing", "deciding"} => client'.tried = Current[2]'
          /\ \A r \in calls' : r.op \in {"prepare", "commit"} => AskedFor(r.id)'
        BY <1>1 DEF Instants, PreparedOnce
    <2>2. ASSUME NEW r \in calls', r.op = "prepare"
          PROVE  /\ r.stamp <= clock'
                 /\ \A s \in calls' : s.op = "prepare" /\ s.id = r.id => s = r
                 /\ \A s \in calls' : s.op = "commit" => s.id # r.id
                 /\ client'.phase = "preparing" /\ r.id = Current' => r.stamp = client'.stamp
                 /\ Prepared' => r.id # Current'
        <3>1. r.stamp <= clock'
            BY <2>2, InvIs DEF Instants, PreparedOnce
        <3>2. QED
            BY <1>1, <2>2, <3>1 DEF Instants, PreparedOnce
    <2>3. QED
        BY <2>1, <2>2 DEF PreparedOnce
<1>3. StoreInTime'
    <2>1. CASE store' = None
        BY <2>1 DEF StoreInTime
    <2>2. CASE store' = store
        BY <1>1, <2>2, InvIs DEF Instants, StoreInTime
    <2>3. QED
        BY <2>1, <2>2
<1>4. QED
    BY <1>2, <1>3 DEF Instants

\* Frontiers are stored for a command that no commit names yet.
LEMMA StoringKeepsInstants ==
    ASSUME Inv, Instants, NEW r \in calls, r.op = "prepare",
           store' = [id |-> r.id, time |-> clock], Answer(r, "prepared"),
           UNCHANGED <<direct, clock>>
    PROVE  Instants'
<1>1. /\ client'.gen = client.gen /\ client'.last = client.last
      /\ client'.tried = client.tried /\ client'.phase = client.phase
      /\ client'.stamp = client.stamp
      /\ client'.reply # client.reply => Awaits(r)
    <2>1. client' = client \/ (Awaits(r) /\ client' = [client EXCEPT !.reply = "prepared"])
        BY DEF Answer
    <2>2. QED
        BY <2>1, InvIs
<1>2. Current' = Current /\ \A id : AskedFor(id)' <=> AskedFor(id)
    BY <1>1 DEF Current, AskedFor
<1>3. calls' = calls \ {r} /\ store'.id = r.id /\ store'.time = clock
    BY DEF Answer
<1>4. Prepared' => Prepared \/ (client.phase = "preparing" /\ r.id = Current)
    BY <1>1 DEF Prepared, Awaits
<1>5. /\ \A s \in calls : s.op = "prepare" /\ s.id = r.id => s = r
      /\ \A s \in calls : s.op = "commit" => s.id # r.id
      /\ r.stamp <= clock
      /\ client.phase = "preparing" /\ r.id = Current => r.stamp = client.stamp
      /\ Prepared => r.id # Current
    BY DEF Instants, PreparedOnce
<1>6. PreparedOnce'
    <2>1. /\ client'.tried <= client'.last + 1
          /\ client'.phase \in {"preparing", "deciding"} => client'.tried = Current[2]'
          /\ \A s \in calls' : s.op \in {"prepare", "commit"} => AskedFor(s.id)'
        BY <1>1, <1>2, <1>3 DEF Instants, PreparedOnce
    <2>2. ASSUME NEW p \in calls', p.op = "prepare"
          PROVE  /\ p.stamp <= clock'
                 /\ \A s \in calls' : s.op = "prepare" /\ s.id = p.id => s = p
                 /\ \A s \in calls' : s.op = "commit" => s.id # p.id
                 /\ client'.phase = "preparing" /\ p.id = Current' => p.stamp = client'.stamp
                 /\ Prepared' => p.id # Current'
        <3>1. p \in calls /\ p # r /\ p.id # r.id
            BY <1>3, <1>5, <2>2
        <3>2. QED
            BY <1>1, <1>2, <1>3, <1>4, <2>2, <3>1 DEF Instants, PreparedOnce
    <2>3. QED
        BY <2>1, <2>2 DEF PreparedOnce
<1>7. StoreInTime'
    <2>1. \A s \in calls' : s.op = "commit" => s.id # store'.id
        BY <1>3, <1>5
    <2>2. Prepared' /\ store'.id = Current' => client'.stamp <= store'.time
        BY <1>1, <1>2, <1>3, <1>4, <1>5, InvIs
    <2>3. store'.time <= clock'
        BY <1>3, InvIs
    <2>4. QED
        BY <2>1, <2>2, <2>3 DEF StoreInTime
<1>8. QED
    BY <1>6, <1>7 DEF Instants

LEMMA ServeKeepsInstants ==
    ASSUME Inv, Instants, NEW r \in calls, Serve(r)
    PROVE  Instants'
<1>1. CASE /\ r.op = "prepare" /\ Answer(r, "prepared")
           /\ store' = [id |-> r.id, time |-> clock] /\ UNCHANGED <<direct, clock>>
    BY <1>1, StoringKeepsInstants
<1>2. CASE /\ store' \in {store, None} /\ clock' \in {clock, clock + 1}
           /\ calls' = calls \ {r} /\ direct' = direct
           /\ \/ client' = client
              \/ \E reply \in Replies \ {"prepared"} : client' = [client EXCEPT !.reply = reply]
    <2>1. /\ client'.gen = client.gen /\ client'.last = client.last
          /\ client'.tried = client.tried /\ client'.phase = client.phase
          /\ client'.stamp = client.stamp
          /\ client'.reply = client.reply \/ client'.reply # "prepared"
        BY <1>2, InvIs
    <2>2. Prepared' => Prepared
        BY <2>1 DEF Prepared
    <2>3. clock' \in Int /\ clock' >= clock
        BY <1>2, InvIs
    <2>4. QED
        BY <1>2, <2>1, <2>2, <2>3, AdapterKeepsInstants
<1>3. QED
    <2>1. {"refused", "rejected", "released", "committed", "still", "driven"} \subseteq
              Replies \ {"prepared"}
        BY DEF Replies
    <2>2. CASE PrepareRefused(r)
        BY <1>2, <2>1, <2>2 DEF PrepareRefused, Answer, adapter
    <2>3. CASE PrepareFrontiers(r)
        BY <1>1, <1>2, <2>1, <2>3 DEF PrepareFrontiers, Answer
    <2>4. CASE CommitRefused(r)
        BY <1>2, <2>1, <2>4 DEF CommitRefused, Answer
    <2>5. CASE \/ CommitFails(r) \/ CommitOvertaken(r)
               \/ CommitFrontier(r) \/ CommitBreaks(r)
        BY <1>2, <2>1, <2>5
        DEF CommitFails, CommitOvertaken, CommitFrontier, CommitBreaks, Answer
    <2>6. CASE ResolveRefused(r) \/ ResolveFails(r) \/ ResolveStops(r) \/ ResolveDrives(r)
        BY <1>2, <2>1, <2>6
        DEF ResolveRefused, ResolveFails, ResolveStops, ResolveDrives, Resolves, Answer
    <2>7. CASE AdapterEnds(r)
        BY <1>2, <2>7 DEF AdapterEnds
    <2>8. QED
        BY <2>2, <2>3, <2>4, <2>5, <2>6, <2>7 DEF Serve

LEMMA InstantsStep == Inv /\ Instants /\ Failures /\ [Next]_vars => Instants'
<1> SUFFICES ASSUME Inv, Instants, Failures, [Next]_vars PROVE Instants'
    OBVIOUS
<1>1. CASE ClientNext
    BY <1>1, ClientKeepsInstants
<1>2. CASE \E r \in calls : Serve(r)
    BY <1>2, ServeKeepsInstants
<1>3. CASE GoalFinished \/ StoreExpires \/ StopArrives \/ Tick
    <2>1. /\ clock' \in {clock, clock + 1} /\ store' \in {store, None}
          /\ UNCHANGED <<calls, direct, client>>
        BY <1>3 DEF GoalFinished, StoreExpires, StopArrives, Tick, adapter
    <2>2. clock' \in Int /\ clock' >= clock /\ (Prepared' => Prepared)
        BY <2>1, InvIs DEF Prepared
    <2>3. QED
        BY <2>1, <2>2, AdapterKeepsInstants
<1>4. CASE UNCHANGED vars
    BY <1>4 DEF vars, adapter, Instants, PreparedOnce, StoreInTime, Prepared, AskedFor,
                Current
<1>5. QED
    BY <1>1, <1>2, <1>3, <1>4 DEF Next

\* A commit is the only step that drives a frontier, and it drives it at the
\* instant at which its own step began.
THEOREM FrontiersAreForTheirInstant == Spec => FrontierIsForThisInstant
<1>1. Init => Failures /\ Instants
    BY DEF Init, Failures, NothingLeft, FailedIsOver, FailedStepIsStopped, Idle,
           Instants, PreparedOnce, StoreInTime
<1>2. Inv /\ Instants /\ [Next]_vars
      => [ \A r \in calls \ calls' :
              r.op = "commit" /\ drives' # drives
              => clock = r.stamp /\ clock' = clock ]_vars
    <2> SUFFICES ASSUME Inv, Instants, Next, NEW r \in calls \ calls',
                        r.op = "commit", drives' # drives
                 PROVE  clock = r.stamp /\ clock' = clock
        BY DEF vars
    <2>1. drives' = drives \/ \E q \in calls : Serve(q)
        BY ClientLeavesTheAdapter
        DEF Next, Untouched, GoalFinished, StoreExpires, StopArrives, Tick
    <2>2. PICK q \in calls : Serve(q)
        BY <2>1
    <2>3. q = r
        BY <2>2 DEF Serve, Answer, PrepareRefused, PrepareFrontiers,
                    CommitRefused, CommitFails, CommitOvertaken,
                    CommitFrontier, CommitBreaks, ResolveRefused, ResolveFails,
                    ResolveStops, ResolveDrives, AdapterEnds
    <2>4. CommitFrontier(r) \/ CommitBreaks(r)
        BY <2>2, <2>3 DEF Serve, PrepareRefused, PrepareFrontiers,
                    CommitRefused, CommitFails, CommitOvertaken,
                    ResolveRefused, ResolveFails, Resolves,
                    ResolveStops, ResolveDrives, AdapterEnds
    <2>5. Names(r) /\ clock = store.time /\ clock' = clock
        BY <2>4 DEF CommitFrontier, CommitBreaks, Selects
    <2>6. QED
        BY <2>5 DEF Names, Instants, StoreInTime
<1>3. QED
    BY <1>1, <1>2, InstantsStep, FailuresStep, Invariance, PTL
    DEF Spec, FrontierIsForThisInstant

=============================================================================
