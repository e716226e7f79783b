-------------------------- MODULE ModelSessionProofs --------------------------
(* Proofs about ModelSession for all values of its constants: the types of   *)
(* server and client, the safety of the step goals and, with at most one     *)
(* restart, the refinement of the step ledger and the bound on the drift     *)
(* between client and server.                                                *)
EXTENDS ModelSession, SequenceTheorems, TLAPS

USE CacheSizeAssumption, BoundAssumption, NoneAssumption, PolicyAssumption,
    FaultAssumption

Generations == 0..MaxGeneration

Barriers == [initialized : BOOLEAN, episode : Episodes \cup {None},
             generation : Generations, last : -1..MaxSequence]

Replies == [status : Statuses, episode : Episodes \cup {None},
            generation : Generations, replayed : BOOLEAN,
            digest : Digests \cup {None}]

StepGoals == [phase : Phases, id : Identities \cup {None},
              digest : Digests \cup {None}, epoch : Nat, cancel : BOOLEAN,
              reply : Replies]

Entries == [id : Identities, digest : Digests]

\* A goal in use carries a complete request.
Complete(x) == x.phase # "free" => x.id \in Identities /\ x.digest \in Digests

ServiceTyped ==
    /\ barrier \in Barriers
    /\ barrier.initialized => barrier.episode \in Episodes
    /\ results \subseteq Entries
    /\ epoch \in Nat
    /\ lock \in Goals \cup {None}
    /\ uncommitted \subseteq Goals
    /\ goals \in [Goals -> StepGoals]
    /\ \A g \in Goals : Complete(goals[g])

Clients == [phase : {"idle", "call", "step", "resolve"},
            initialized : BOOLEAN, episode : Episodes \cup {None},
            generation : Generations, next : 0..(MaxSequence + 1),
            last : -1..MaxSequence, goal : Goals \cup {None},
            resent : BOOLEAN, rebased : BOOLEAN]

InitializeCalls == [kind : {"initialize"}, episode : Episodes, live : BOOLEAN]

ResetCalls == [kind : {"reset"}, episode : Episodes, expected : Generations,
               through : Nat, again : BOOLEAN, live : BOOLEAN]

Calls == InitializeCalls \cup ResetCalls

Responses == [call : Calls, status : Statuses, episode : Episodes \cup {None},
              generation : Generations, last : Nat, again : BOOLEAN]

ClientTyped ==
    /\ client \in Clients
    /\ client.initialized => client.episode \in Episodes
    /\ calls \subseteq Calls
    /\ response # None =>
         /\ response \in Responses
         /\ response.status = "OK" => response.episode \in Episodes
    /\ saved \in Sessions
    /\ captured # None => captured \in Sessions /\ captured.episode \in Episodes
    /\ restored \in BOOLEAN

\* The goal the client waits for, unless a restart took it, asks for the step
\* the client is at, and the client has that step still to number.
GoalIsAwaited ==
    /\ client.phase = "step" =>
         /\ client.initialized
         /\ client.next <= MaxSequence
    /\ \A g \in Goals : Awaited(g) /\ goals[g].phase # "free" =>
         goals[g].id = RequestIdentity(client)

\* One entry of the cache for a request.
OneEntry == \A r, s \in results : r.id = s.id => r = s

\* The inductive invariant of the step goals.
Safe ==
    /\ ServiceTyped
    /\ ClientTyped
    /\ GoalIsAwaited
    /\ OneEntry
    /\ AdmissionHolds
    /\ DiscardedStepsLeaveTheAgent
    /\ AnswersAreForTheirObservation

-----------------------------------------------------------------------------
(* Replies and goals.                                                        *)

\* The fields of the goals and replies the model builds.
LEMMA Building ==
    /\ NoReply \in Replies
    /\ FreeGoal \in StepGoals
    /\ Complete(FreeGoal)
    /\ FreeGoal.phase = "free"
    /\ \A s \in Statuses : \A b \in Barriers :
         /\ ErrorReply(s, b) \in Replies
         /\ ErrorReply(s, b).status = s
         /\ ErrorReply(s, b).generation = b.generation
    /\ \A id \in Identities : \A d \in Digests : \A r \in BOOLEAN :
         /\ OkReply(id, d, r) \in Replies
         /\ OkReply(id, d, r).status = "OK"
         /\ OkReply(id, d, r).digest = d
         /\ OkReply(id, d, r).episode = id.episode
         /\ OkReply(id, d, r).generation = id.generation
BY DEF NoReply, Replies, FreeGoal, StepGoals, Complete, ErrorReply, OkReply,
       Statuses, Phases, Identities, Barriers, Generations

\* What a finished goal is.
LEMMA Finished ==
    ASSUME ServiceTyped, NEW g \in Goals, NEW reply \in Replies,
           goals[g].phase # "free", Finish(g, reply)
    PROVE  /\ goals' \in [Goals -> StepGoals]
           /\ goals'[g].phase = "done"
           /\ goals'[g].id = goals[g].id
           /\ goals'[g].digest = goals[g].digest
           /\ goals'[g].reply = reply
           /\ \A h \in Goals \ {g} : goals'[h] = goals[h]
           /\ \A h \in Goals : Complete(goals'[h])
BY DEF ServiceTyped, Finish, StepGoals, FreeGoal, Phases, Complete

-----------------------------------------------------------------------------
(* The steps of a goal.                                                      *)

\* The session sees a step of the service only where it waits for the goal.
LEMMA StillAwaited ==
    ASSUME Safe, UNCHANGED sessionVars, NEW g \in Goals,
           goals[g].phase # "free" /\ goals'[g].id = goals[g].id,
           \A h \in Goals \ {g} : goals'[h] = goals[h]
    PROVE  ClientTyped' /\ GoalIsAwaited'
BY DEF Safe, ClientTyped, GoalIsAwaited, sessionVars, Awaited, RequestIdentity

\* The goal in the model call stays admitted while barrier and cache stay.
LEMMA StillAdmitted ==
    ASSUME Safe, UNCHANGED <<barrier, results, lock>>, NEW g \in Goals,
           goals[g].phase # "inferring", goals'[g].phase # "inferring",
           \A h \in Goals \ {g} : goals'[h] = goals[h]
    PROVE  AdmissionHolds'
<1>1. lock' # None => goals'[lock'].phase = "inferring"
    BY DEF Safe, ServiceTyped, AdmissionHolds
<1>2. ASSUME NEW h \in Goals, goals'[h].phase = "inferring"
      PROVE  lock' = h /\ Admission(goals[h].id, goals[h].digest)' = "NEW"
    <2>1. goals'[h] = goals[h]
        BY <1>2
    <2>2. lock = h /\ Admission(goals[h].id, goals[h].digest) = "NEW"
        BY <1>2, <2>1 DEF Safe, AdmissionHolds
    <2>3. Admission(goals[h].id, goals[h].digest)'
            = Admission(goals[h].id, goals[h].digest)
        BY <2>1 DEF Admission, CurrentStatus, Lookup
    <2>4. QED
        BY <2>2, <2>3
<1>3. QED
    BY <1>1, <1>2 DEF AdmissionHolds

\* A refused goal is done; nothing else has changed.
LEMMA RefuseSafe ==
    ASSUME Safe, NEW g \in Goals, NEW status \in Statuses \ {"OK"},
           goals[g].phase \in {"received", "waiting", "ready"},
           Refuse(g, status), UNCHANGED lock, UNCHANGED sessionVars
    PROVE  Safe'
<1>1. ServiceTyped
    BY DEF Safe
<1>2. /\ ErrorReply(status, barrier) \in Replies
      /\ ErrorReply(status, barrier).status # "OK"
    BY <1>1, Building DEF ServiceTyped
<1>3. Finish(g, ErrorReply(status, barrier))
    BY DEF Refuse
<1>4. /\ goals' \in [Goals -> StepGoals]
      /\ goals'[g].phase = "done"
      /\ goals'[g].id = goals[g].id
      /\ goals'[g].reply.status # "OK"
      /\ \A h \in Goals \ {g} : goals'[h] = goals[h]
      /\ \A h \in Goals : Complete(goals'[h])
    BY <1>1, <1>2, <1>3, Finished
<1>5. ServiceTyped'
    BY <1>1, <1>4 DEF ServiceTyped, Refuse
<1>6. ClientTyped' /\ GoalIsAwaited'
    BY <1>4, StillAwaited
<1>7. OneEntry'
    BY DEF Safe, OneEntry, Refuse
<1>8. AdmissionHolds'
    BY <1>4, StillAdmitted DEF Refuse
<1>9. DiscardedStepsLeaveTheAgent'
    BY <1>4 DEF Safe, DiscardedStepsLeaveTheAgent, Refuse, ServiceTyped
<1>10. AnswersAreForTheirObservation'
    BY <1>4 DEF Safe, AnswersAreForTheirObservation
<1>11. QED
    BY <1>5, <1>6, <1>7, <1>8, <1>9, <1>10 DEF Safe

\* What the cache holds for the goal's request is what its observation gave:
\* the lookup found that entry, and there is no other.
LEMMA CachedEntry ==
    ASSUME Safe, NEW g \in Goals, goals[g].phase # "free",
           Lookup(goals[g].id, goals[g].digest) = "hit",
           NEW r \in results, r.id = goals[g].id
    PROVE  r.digest = goals[g].digest
BY DEF Safe, OneEntry, Lookup

\* An answer from the cache is the one to the goal's own observation.
LEMMA CachedSafe ==
    ASSUME Safe, NEW g \in Goals, goals[g].phase \in {"received", "ready"},
           Admission(goals[g].id, goals[g].digest) = "REPLAY",
           AnswerFromCache(g), UNCHANGED lock, UNCHANGED sessionVars
    PROVE  Safe'
<1>1. ServiceTyped
    BY DEF Safe
<1>2. PICK r \in results : /\ r.id = goals[g].id
                           /\ Finish(g, OkReply(r.id, r.digest, TRUE))
    BY DEF AnswerFromCache
<1>3. r.digest = goals[g].digest
    <2>1. Lookup(goals[g].id, goals[g].digest) = "hit"
        BY DEF Admission, CurrentStatus, Lookup
    <2>2. QED
        BY <1>2, <2>1, CachedEntry
<1>4. r.id \in Identities /\ r.digest \in Digests
    BY <1>1 DEF ServiceTyped, Entries
<1>5. /\ OkReply(r.id, r.digest, TRUE) \in Replies
      /\ OkReply(r.id, r.digest, TRUE).digest = r.digest
      /\ OkReply(r.id, r.digest, TRUE).episode = r.id.episode
      /\ OkReply(r.id, r.digest, TRUE).generation = r.id.generation
    BY <1>4 DEF OkReply, Replies, Statuses, Identities, Generations
<1>6. /\ goals' \in [Goals -> StepGoals]
      /\ goals'[g].phase = "done"
      /\ goals'[g].id = goals[g].id
      /\ goals'[g].digest = goals[g].digest
      /\ goals'[g].reply = OkReply(r.id, r.digest, TRUE)
      /\ \A h \in Goals \ {g} : goals'[h] = goals[h]
      /\ \A h \in Goals : Complete(goals'[h])
    BY <1>1, <1>2, <1>5, Finished
<1>7. ServiceTyped'
    BY <1>1, <1>6 DEF ServiceTyped, AnswerFromCache
<1>8. ClientTyped' /\ GoalIsAwaited'
    BY <1>6, StillAwaited
<1>9. OneEntry'
    BY DEF Safe, OneEntry, AnswerFromCache
<1>10. AdmissionHolds'
    BY <1>6, StillAdmitted DEF AnswerFromCache
<1>11. DiscardedStepsLeaveTheAgent'
    BY <1>6 DEF Safe, DiscardedStepsLeaveTheAgent, AnswerFromCache, ServiceTyped
<1>12. AnswersAreForTheirObservation'
    BY <1>2, <1>3, <1>5, <1>6, ZenonT(60) DEF Safe, AnswersAreForTheirObservation
<1>13. QED
    BY <1>7, <1>8, <1>9, <1>10, <1>11, <1>12 DEF Safe

\* The verdicts other than NEW and REPLAY are error statuses.
LEMMA Verdicts ==
    \A id \in Identities, d \in Digests :
        Admission(id, d) \in (Statuses \ {"OK"}) \cup {"REPLAY", "NEW"}
BY DEF Admission, CurrentStatus, Lookup, Statuses

\* A goal that goes on towards the model call without entering it.
LEMMA AdvanceSafe ==
    ASSUME Safe, NEW g \in Goals, goals[g].phase \in {"received", "waiting"},
           NEW p \in {"waiting", "ready"}, NEW e \in Nat,
           goals' = [goals EXCEPT ![g].phase = p, ![g].epoch = e],
           UNCHANGED <<barrier, results, epoch, uncommitted, log, lock>>,
           UNCHANGED sessionVars
    PROVE  Safe'
<1>1. ServiceTyped
    BY DEF Safe
<1>2. /\ goals' \in [Goals -> StepGoals]
      /\ goals'[g].phase = p
      /\ goals'[g].id = goals[g].id
      /\ \A h \in Goals \ {g} : goals'[h] = goals[h]
      /\ \A h \in Goals : Complete(goals'[h])
    BY <1>1, ZenonT(60) DEF ServiceTyped, StepGoals, Phases, Complete
<1>3. ServiceTyped'
    BY <1>1, <1>2 DEF ServiceTyped
<1>4. ClientTyped' /\ GoalIsAwaited'
    BY <1>2, StillAwaited
<1>5. OneEntry'
    BY DEF Safe, OneEntry
<1>6. AdmissionHolds'
    BY <1>2, StillAdmitted
<1>7. DiscardedStepsLeaveTheAgent'
    BY <1>2 DEF Safe, DiscardedStepsLeaveTheAgent, ServiceTyped
<1>8. AnswersAreForTheirObservation'
    BY <1>2 DEF Safe, AnswersAreForTheirObservation
<1>9. QED
    BY <1>3, <1>4, <1>5, <1>6, <1>7, <1>8 DEF Safe

LEMMA ReceiveSafe ==
    ASSUME Safe, NEW g \in Goals, Receive(g), UNCHANGED sessionVars
    PROVE  Safe'
<1> DEFINE verdict == Admission(goals[g].id, goals[g].digest)
<1>1. verdict \in (Statuses \ {"OK"}) \cup {"REPLAY", "NEW"}
    BY Verdicts DEF Safe, ServiceTyped, Receive, Complete
<1>2. CASE \E s \in Statuses \ {"OK"} : Refuse(g, s)
    BY <1>2, RefuseSafe DEF Receive
<1>3. CASE verdict = "REPLAY" /\ AnswerFromCache(g)
    BY <1>3, CachedSafe DEF Receive
<1>4. CASE /\ goals' = [goals EXCEPT ![g].phase = "waiting", ![g].epoch = epoch]
           /\ UNCHANGED <<barrier, results, epoch, uncommitted, log>>
    BY <1>4, AdvanceSafe DEF Receive, Safe, ServiceTyped
<1>5. QED
    BY <1>1, <1>2, <1>3, <1>4 DEF Receive, Statuses

LEMMA ObserveSafe ==
    ASSUME Safe, NEW g \in Goals, Observe(g), UNCHANGED sessionVars
    PROVE  Safe'
<1>1. CASE \E s \in Statuses \ {"OK"} : Refuse(g, s)
    BY <1>1, RefuseSafe DEF Observe
<1>2. CASE /\ goals' = [goals EXCEPT ![g].phase = "ready"]
           /\ UNCHANGED <<barrier, results, epoch, uncommitted, log>>
    <2>1. goals' = [goals EXCEPT ![g].phase = "ready",
                                 ![g].epoch = goals[g].epoch]
        BY <1>2 DEF Safe, ServiceTyped, StepGoals
    <2>2. goals[g].epoch \in Nat
        BY DEF Safe, ServiceTyped, StepGoals
    <2>3. QED
        BY <1>2, <2>1, <2>2, AdvanceSafe DEF Observe
<1>3. QED
    BY <1>1, <1>2 DEF Observe, Statuses

\* A goal enters the model call only admitted.
LEMMA EnterSafe ==
    ASSUME Safe, NEW g \in Goals, goals[g].phase = "ready", lock = None,
           Admission(goals[g].id, goals[g].digest) = "NEW",
           goals' = [goals EXCEPT ![g].phase = "inferring"], lock' = g,
           uncommitted' = uncommitted \cup {g},
           UNCHANGED <<barrier, results, epoch, log>>, UNCHANGED sessionVars
    PROVE  Safe'
<1>1. ServiceTyped
    BY DEF Safe
<1>2. /\ goals' \in [Goals -> StepGoals]
      /\ goals'[g].phase = "inferring"
      /\ goals'[g].id = goals[g].id
      /\ goals'[g].digest = goals[g].digest
      /\ \A h \in Goals \ {g} : goals'[h] = goals[h]
      /\ \A h \in Goals : Complete(goals'[h])
    BY <1>1 DEF ServiceTyped, StepGoals, Phases, Complete
<1>3. ServiceTyped'
    BY <1>1, <1>2 DEF ServiceTyped
<1>4. ClientTyped' /\ GoalIsAwaited'
    BY <1>2, StillAwaited
<1>5. OneEntry'
    BY DEF Safe, OneEntry
<1>6. AdmissionHolds'
    <2>1. \A h \in Goals : goals[h].phase # "inferring"
        BY DEF Safe, AdmissionHolds
    <2>2. Admission(goals[g].id, goals[g].digest)' = "NEW"
        BY <1>2 DEF Admission, CurrentStatus, Lookup
    <2>3. QED
        BY <1>2, <2>1, <2>2 DEF AdmissionHolds
<1>7. DiscardedStepsLeaveTheAgent'
    BY <1>2 DEF Safe, DiscardedStepsLeaveTheAgent, ServiceTyped
<1>8. AnswersAreForTheirObservation'
    BY <1>2 DEF Safe, AnswersAreForTheirObservation
<1>9. QED
    BY <1>3, <1>4, <1>5, <1>6, <1>7, <1>8 DEF Safe

LEMMA BeginInferenceSafe ==
    ASSUME Safe, NEW g \in Goals, BeginInference(g), UNCHANGED sessionVars
    PROVE  Safe'
<1> DEFINE verdict == Admission(goals[g].id, goals[g].digest)
<1>1. verdict \in (Statuses \ {"OK"}) \cup {"REPLAY", "NEW"}
    BY Verdicts DEF Safe, ServiceTyped, BeginInference, Complete
<1>2. CASE UNCHANGED lock /\ \E s \in Statuses \ {"OK"} : Refuse(g, s)
    BY <1>2, RefuseSafe DEF BeginInference
<1>3. CASE UNCHANGED lock /\ verdict = "REPLAY" /\ AnswerFromCache(g)
    BY <1>3, CachedSafe DEF BeginInference
<1>4. CASE /\ verdict = "NEW"
           /\ goals' = [goals EXCEPT ![g].phase = "inferring"]
           /\ lock' = g
           /\ uncommitted' = uncommitted \cup {g}
           /\ UNCHANGED <<barrier, results, epoch, log>>
    BY <1>4, EnterSafe DEF BeginInference
<1>5. QED
    BY <1>1, <1>2, <1>3, <1>4 DEF BeginInference, Statuses

\* The goal that holds the lock is the only one in the model call.
LEMMA OnlyOneInside ==
    ASSUME Safe, NEW g \in Goals, lock \in {g, None}
    PROVE  \A h \in Goals \ {g} : goals[h].phase # "inferring"
BY DEF Safe, AdmissionHolds, ServiceTyped

LEMMA CommitSafe ==
    ASSUME Safe, NEW g \in Goals, Commit(g), UNCHANGED sessionVars
    PROVE  Safe'
<1> DEFINE id == goals[g].id
           d == goals[g].digest
           entry == [id |-> id, digest |-> d]
<1>1. ServiceTyped /\ goals[g].phase = "inferring"
    BY DEF Safe, Commit
<1>2. lock = g /\ Admission(id, d) = "NEW"
    BY <1>1 DEF Safe, AdmissionHolds
<1>3. id \in Identities /\ d \in Digests
    BY <1>1 DEF ServiceTyped, Complete
<1>4. /\ OkReply(id, d, FALSE) \in Replies
      /\ OkReply(id, d, FALSE).digest = d
      /\ OkReply(id, d, FALSE).episode = id.episode
      /\ OkReply(id, d, FALSE).generation = id.generation
    BY <1>3 DEF OkReply, Replies, Statuses, Identities, Generations
<1>5. Finish(g, OkReply(id, d, FALSE))
    BY DEF Commit
<1>6. /\ goals' \in [Goals -> StepGoals]
      /\ goals'[g].phase = "done"
      /\ goals'[g].id = id
      /\ goals'[g].digest = d
      /\ goals'[g].reply = OkReply(id, d, FALSE)
      /\ \A h \in Goals \ {g} : goals'[h] = goals[h]
      /\ \A h \in Goals : Complete(goals'[h])
    BY <1>1, <1>4, <1>5, Finished
<1>7. results' \subseteq results \cup {entry}
    BY DEF Commit, CachePut
<1>8. \A r \in results : r.id # id
    BY <1>2 DEF Admission, CurrentStatus, Lookup
<1>9. ServiceTyped'
    <2>1. barrier' \in Barriers
          /\ (barrier'.initialized => barrier'.episode \in Episodes)
        <3>1. id.sequence \in -1..MaxSequence
            BY <1>3 DEF Identities
        <3>2. barrier' = [barrier EXCEPT !.last = id.sequence]
            BY DEF Commit
        <3>3. QED
            BY <1>1, <3>1, <3>2 DEF ServiceTyped, Barriers
    <2>2. results' \subseteq Entries
        BY <1>1, <1>3, <1>7 DEF ServiceTyped, Entries
    <2>3. QED
        BY <1>1, <1>6, <2>1, <2>2 DEF ServiceTyped, Commit
<1>10. ClientTyped' /\ GoalIsAwaited'
    BY <1>1, <1>6, StillAwaited
<1>11. OneEntry'
    BY <1>7, <1>8 DEF Safe, OneEntry
<1>12. AdmissionHolds'
    <2>1. \A h \in Goals : goals'[h].phase # "inferring"
        BY <1>2, <1>6, OnlyOneInside
    <2>2. lock' = None
        BY DEF Commit
    <2>3. QED
        BY <2>1, <2>2 DEF AdmissionHolds
<1>13. DiscardedStepsLeaveTheAgent'
    BY <1>6 DEF Safe, DiscardedStepsLeaveTheAgent, Commit, ServiceTyped
<1>14. AnswersAreForTheirObservation'
    BY <1>4, <1>6, ZenonT(60) DEF Safe, AnswersAreForTheirObservation
<1>15. QED
    BY <1>9, <1>10, <1>11, <1>12, <1>13, <1>14 DEF Safe

\* A new generation of the episode e: the barrier and an empty agent.
LEMMA NewGenerationTyped ==
    ASSUME ServiceTyped, NEW e \in Episodes \cup {None}, NewGeneration(e),
           barrier.initialized => e \in Episodes
    PROVE  /\ barrier' \in Barriers
           /\ barrier'.initialized => barrier'.episode \in Episodes
           /\ barrier'.generation = barrier.generation + 1
           /\ results' = {} /\ uncommitted' = {} /\ epoch' \in Nat
           /\ UNCHANGED log
<1>1. /\ barrier \in Barriers
      /\ barrier.generation + 1 \in Generations
    BY DEF NewGeneration, ServiceTyped, Barriers, Generations
<1>2. -1 \in -1..MaxSequence
    OBVIOUS
<1>3. barrier' = [barrier EXCEPT !.episode = e,
                      !.generation = barrier.generation + 1, !.last = -1]
    BY DEF NewGeneration
<1>4. barrier' \in Barriers /\ barrier'.generation = barrier.generation + 1
      /\ barrier'.initialized = barrier.initialized /\ barrier'.episode = e
    BY <1>1, <1>2, <1>3 DEF Barriers
<1>5. QED
    BY <1>4 DEF NewGeneration, ServiceTyped

\* A step thrown away takes its generation with it.
LEMMA AbortSafe ==
    ASSUME Safe, NEW g \in Goals, NEW status \in Statuses \ {"OK"},
           goals[g].phase \in {"inferring", "failed"},
           AbortGeneration(g, status), lock \in {g, None}, lock' = None,
           UNCHANGED sessionVars
    PROVE  Safe'
<1>1. ServiceTyped
    BY DEF Safe
<1>2. /\ barrier' \in Barriers
      /\ barrier'.initialized => barrier'.episode \in Episodes
      /\ results' = {} /\ uncommitted' = {} /\ epoch' \in Nat
      /\ UNCHANGED log
    <2>1. NewGeneration(barrier.episode)
        BY DEF AbortGeneration
    <2>2. /\ barrier.episode \in Episodes \cup {None}
          /\ barrier.initialized => barrier.episode \in Episodes
        BY <1>1 DEF ServiceTyped, Barriers
    <2>3. QED
        BY <1>1, <2>1, <2>2, NewGenerationTyped
<1>3. /\ ErrorReply(status, barrier') \in Replies
      /\ ErrorReply(status, barrier').status # "OK"
    BY <1>2, Building
<1>4. Finish(g, ErrorReply(status, barrier'))
    BY DEF AbortGeneration
<1>5. /\ goals' \in [Goals -> StepGoals]
      /\ goals'[g].phase = "done"
      /\ goals'[g].id = goals[g].id
      /\ goals'[g].reply.status # "OK"
      /\ \A h \in Goals \ {g} : goals'[h] = goals[h]
      /\ \A h \in Goals : Complete(goals'[h])
    BY <1>1, <1>3, <1>4, Finished
<1>6. ServiceTyped'
    BY <1>1, <1>2, <1>5 DEF ServiceTyped
<1>7. ClientTyped' /\ GoalIsAwaited'
    BY <1>5, StillAwaited
<1>8. OneEntry'
    BY <1>2 DEF OneEntry
<1>9. AdmissionHolds'
    <2>1. \A h \in Goals : goals'[h].phase # "inferring"
        BY <1>5, OnlyOneInside
    <2>2. QED
        BY <2>1 DEF AdmissionHolds
<1>10. DiscardedStepsLeaveTheAgent'
    BY <1>2 DEF DiscardedStepsLeaveTheAgent
<1>11. AnswersAreForTheirObservation'
    BY <1>5 DEF Safe, AnswersAreForTheirObservation
<1>12. QED
    BY <1>6, <1>7, <1>8, <1>9, <1>10, <1>11 DEF Safe

\* A goal that raised leaves the lock and stays responsible for its step.
LEMMA RaiseSafe ==
    ASSUME Safe, NEW g \in Goals, Raise(g), UNCHANGED sessionVars
    PROVE  Safe'
<1>1. ServiceTyped /\ goals[g].phase = "inferring" /\ lock = g
    BY DEF Safe, Raise, AdmissionHolds
<1>2. /\ goals' \in [Goals -> StepGoals]
      /\ goals'[g].phase = "failed"
      /\ goals'[g].id = goals[g].id
      /\ \A h \in Goals \ {g} : goals'[h] = goals[h]
      /\ \A h \in Goals : Complete(goals'[h])
    BY <1>1 DEF ServiceTyped, StepGoals, Phases, Complete, Raise
<1>3. ServiceTyped'
    BY <1>1, <1>2 DEF ServiceTyped, Raise
<1>4. ClientTyped' /\ GoalIsAwaited'
    BY <1>1, <1>2, StillAwaited
<1>5. OneEntry'
    BY DEF Safe, OneEntry, Raise
<1>6. AdmissionHolds'
    <2>1. \A h \in Goals : goals'[h].phase # "inferring"
        BY <1>1, <1>2, OnlyOneInside
    <2>2. lock' = None
        BY DEF Raise
    <2>3. QED
        BY <2>1, <2>2 DEF AdmissionHolds
<1>7. DiscardedStepsLeaveTheAgent'
    BY <1>2 DEF Safe, DiscardedStepsLeaveTheAgent, ServiceTyped, Raise
<1>8. AnswersAreForTheirObservation'
    BY <1>2 DEF Safe, AnswersAreForTheirObservation
<1>9. QED
    BY <1>3, <1>4, <1>5, <1>6, <1>7, <1>8 DEF Safe

LEMMA StepGoalSafe ==
    ASSUME Safe, NEW g \in Goals, StepGoal(g), UNCHANGED sessionVars
    PROVE  Safe'
<1>1. CASE Discard(g)
    <2>1. goals[g].phase = "inferring" /\ lock = g /\ lock' = None
        BY <1>1 DEF Discard, Safe, AdmissionHolds
    <2>2. \E s \in Statuses \ {"OK"} : AbortGeneration(g, s)
        BY <1>1 DEF Discard, Statuses
    <2>3. QED
        BY <2>1, <2>2, AbortSafe
<1>2. CASE AbortAfterError(g)
    <2>1. "INTERNAL_ERROR" \in Statuses \ {"OK"}
        BY DEF Statuses
    <2>2. QED
        BY <1>2, <2>1, AbortSafe DEF AbortAfterError
<1>3. QED
    BY <1>1, <1>2, ReceiveSafe, ObserveSafe, BeginInferenceSafe, CommitSafe,
       RaiseSafe DEF StepGoal

-----------------------------------------------------------------------------
(* The services.                                                             *)

\* With the lock free no goal is in the model call.
LEMMA NobodyInside ==
    ASSUME Safe, lock = None
    PROVE  \A g \in Goals : goals[g].phase # "inferring"
BY DEF Safe, AdmissionHolds

\* The goals' part of the invariant outlives a call that leaves them alone.
LEMMA GoalsUntouched ==
    ASSUME Safe, lock = None, UNCHANGED <<lock, goals>>,
           uncommitted' \subseteq uncommitted
    PROVE  /\ AdmissionHolds'
           /\ DiscardedStepsLeaveTheAgent'
           /\ AnswersAreForTheirObservation'
BY NobodyInside DEF Safe, AdmissionHolds, DiscardedStepsLeaveTheAgent,
                    AnswersAreForTheirObservation

\* A response is typed, and an OK one names the episode.
LEMMA RespondTyped ==
    ASSUME ClientTyped, NEW c \in calls, NEW status \in Statuses,
           barrier \in Barriers, barrier' \in Barriers, Respond(c, status),
           status = "OK" => barrier'.episode \in Episodes
    PROVE  response' # None =>
             /\ response' \in Responses
             /\ response'.status = "OK" => response'.episode \in Episodes
<1>1. CASE c.live
    <2>1. response' = [call |-> c, status |-> status,
                       episode |-> barrier'.episode,
                       generation |-> barrier'.generation,
                       last |-> ClampedLast(barrier'.last),
                       again |-> barrier.initialized]
        BY <1>1 DEF Respond
    <2>2. ClampedLast(barrier'.last) \in Nat
        BY DEF ClampedLast, Barriers
    <2>3. c \in Calls
        BY DEF ClientTyped
    <2>4. QED
        BY <2>1, <2>2, <2>3 DEF Responses, Barriers
<1>2. CASE ~c.live
    BY <1>2 DEF Respond, ClientTyped
<1>3. QED
    BY <1>1, <1>2

LEMMA ServeInitializeSafe ==
    ASSUME Safe, NEW c \in calls, ServeInitialize(c)
    PROVE  Safe'
<1>1. ServiceTyped /\ ClientTyped /\ lock = None
    BY DEF Safe, ServeInitialize, OnInitialize
<1>2. c \in InitializeCalls
    BY <1>1 DEF ClientTyped, Calls, ResetCalls, ServeInitialize
<1>3. /\ barrier' \in Barriers
      /\ barrier'.initialized /\ barrier'.episode \in Episodes
      /\ results' \subseteq results /\ epoch' \in Nat
    <2>1. CASE barrier.initialized
        BY <1>1, <2>1 DEF ServiceTyped, ServeInitialize, OnInitialize
    <2>2. CASE ~barrier.initialized
        <3>1. barrier' = [initialized |-> TRUE, episode |-> c.episode,
                          generation |-> 0, last |-> -1]
            BY <2>2 DEF ServeInitialize, OnInitialize
        <3>2. c.episode \in Episodes
            BY <1>2 DEF InitializeCalls
        <3>3. QED
            BY <1>1, <2>2, <3>1, <3>2 DEF ServiceTyped, Barriers, Generations,
               ServeInitialize, OnInitialize
    <2>3. QED
        BY <2>1, <2>2
<1>4. ServiceTyped'
    BY <1>1, <1>3 DEF ServiceTyped, ServeInitialize, OnInitialize
<1>5. ClientTyped'
    <2>1. InitializeStatus(c.episode) \in Statuses
        BY DEF InitializeStatus, Statuses
    <2>2. response' # None =>
             /\ response' \in Responses
             /\ response'.status = "OK" => response'.episode \in Episodes
        BY <1>1, <1>3, <2>1, RespondTyped DEF ServiceTyped, ServeInitialize
    <2>3. QED
        BY <1>1, <2>2 DEF ClientTyped, ServeInitialize
<1>6. GoalIsAwaited' /\ OneEntry'
    BY <1>3 DEF Safe, GoalIsAwaited, OneEntry, Awaited, RequestIdentity,
                ServeInitialize, OnInitialize
<1>7. AdmissionHolds' /\ DiscardedStepsLeaveTheAgent'
      /\ AnswersAreForTheirObservation'
    BY <1>1, GoalsUntouched DEF ServeInitialize, OnInitialize
<1>8. QED
    BY <1>4, <1>5, <1>6, <1>7 DEF Safe

LEMMA ServeResetSafe ==
    ASSUME Safe, NEW c \in calls, ServeReset(c)
    PROVE  Safe'
<1>1. ServiceTyped /\ ClientTyped /\ lock = None
    BY DEF Safe, ServeReset, OnReset
<1>2. c \in ResetCalls /\ c.episode \in Episodes
    BY <1>1 DEF ClientTyped, Calls, InitializeCalls, ResetCalls, ServeReset
<1> DEFINE status == ResetStatus(c.expected, c.through)
<1>3. status \in Statuses
    BY DEF ResetStatus, Statuses
<1>4. /\ barrier' \in Barriers
      /\ barrier'.initialized => barrier'.episode \in Episodes
      /\ status = "OK" => barrier'.episode \in Episodes
      /\ results' \subseteq results /\ epoch' \in Nat
      /\ uncommitted' \subseteq uncommitted
    <2>1. CASE status = "OK"
        <3>1. NewGeneration(c.episode)
            BY <2>1 DEF ServeReset, OnReset
        <3>2. barrier'.episode = c.episode
            BY <1>1, <3>1 DEF NewGeneration, ServiceTyped, Barriers
        <3>3. QED
            BY <1>1, <1>2, <3>1, <3>2, NewGenerationTyped
    <2>2. CASE status # "OK"
        BY <1>1, <2>2 DEF ServiceTyped, ServeReset, OnReset
    <2>3. QED
        BY <2>1, <2>2
<1>5. ServiceTyped'
    BY <1>1, <1>4 DEF ServiceTyped, ServeReset, OnReset
<1>6. ClientTyped'
    <2>1. response' # None =>
             /\ response' \in Responses
             /\ response'.status = "OK" => response'.episode \in Episodes
        BY <1>1, <1>3, <1>4, RespondTyped DEF ServiceTyped, ServeReset
    <2>2. QED
        BY <1>1, <2>1 DEF ClientTyped, ServeReset
<1>7. GoalIsAwaited' /\ OneEntry'
    BY <1>4 DEF Safe, GoalIsAwaited, OneEntry, Awaited, RequestIdentity,
                ServeReset, OnReset
<1>8. AdmissionHolds' /\ DiscardedStepsLeaveTheAgent'
      /\ AnswersAreForTheirObservation'
    BY <1>1, <1>4, GoalsUntouched DEF ServeReset, OnReset
<1>9. QED
    BY <1>5, <1>6, <1>7, <1>8 DEF Safe

-----------------------------------------------------------------------------
(* The client and the restart.                                               *)

\* What the client does by itself is no business of the service.
LEMMA ServiceUntouched ==
    ASSUME Safe, UNCHANGED serviceVars, ClientTyped', GoalIsAwaited'
    PROVE  Safe'
<1>1. ServiceTyped' /\ OneEntry' /\ DiscardedStepsLeaveTheAgent'
      /\ AnswersAreForTheirObservation'
    BY DEF Safe, serviceVars, ServiceTyped, OneEntry, 
           DiscardedStepsLeaveTheAgent, AnswersAreForTheirObservation
<1>2. AdmissionHolds'
    BY DEF Safe, serviceVars, AdmissionHolds, Admission, CurrentStatus, Lookup
<1>3. QED
    BY <1>1, <1>2 DEF Safe

\* A client that waits for no goal waits for no wrong one.
LEMMA NotWaiting ==
    ASSUME client'.phase # "step"
    PROVE  GoalIsAwaited'
BY DEF GoalIsAwaited, Awaited

LEMMA StartSafe ==
    ASSUME Safe, NEW e \in Episodes, StartInitialize(e) \/ StartReset(e)
    PROVE  Safe'
<1>1. client \in Clients
    BY DEF Safe, ClientTyped
<1>2. /\ client' \in Clients /\ client'.phase = "call"
      /\ client'.initialized = client.initialized
      /\ client'.episode = client.episode
    BY <1>1 DEF StartInitialize, StartReset, Clients
<1>3. calls' \subseteq Calls
    <2>1. [kind |-> "initialize", episode |-> e, live |-> TRUE] \in Calls
        BY DEF Calls, InitializeCalls
    <2>2. Reset(e, client.generation, ClampedLast(client.last), FALSE) \in Calls
        <3>1. ClampedLast(client.last) \in Nat /\ client.generation \in Generations
            BY <1>1 DEF ClampedLast, Clients
        <3>2. QED
            BY <3>1 DEF Reset, Calls, ResetCalls
    <2>3. QED
        BY <2>1, <2>2 DEF StartInitialize, StartReset, Safe, ClientTyped
<1>4. ClientTyped'
    BY <1>2, <1>3 DEF Safe, ClientTyped, StartInitialize, StartReset
<1>5. UNCHANGED serviceVars
    BY DEF StartInitialize, StartReset
<1>6. QED
    BY <1>2, <1>4, <1>5, NotWaiting, ServiceUntouched

LEMMA CallTimesOutSafe ==
    ASSUME Safe, CallTimesOut
    PROVE  Safe'
<1>1. /\ client' \in Clients /\ client'.phase = "idle"
      /\ client'.initialized = client.initialized
      /\ client'.episode = client.episode
    BY DEF Safe, ClientTyped, CallTimesOut, Clients
<1>2. calls' \subseteq Calls
    <2>1. \A c \in Calls : [c EXCEPT !.live = FALSE] \in Calls
        BY DEF Calls, InitializeCalls, ResetCalls
    <2>2. QED
        BY <2>1 DEF Safe, ClientTyped, CallTimesOut
<1>3. ClientTyped'
    BY <1>1, <1>2 DEF Safe, ClientTyped, CallTimesOut
<1>4. UNCHANGED serviceVars
    BY DEF CallTimesOut
<1>5. QED
    BY <1>1, <1>3, <1>4, NotWaiting, ServiceUntouched

\* What initialize and reset make of the client.
LEMMA AdoptTyped ==
    ASSUME NEW r \in Responses, r.episode \in Episodes, Adopt(r)
    PROVE  /\ client' \in Clients /\ client'.phase = "idle"
           /\ client'.episode = r.episode
           /\ client'.generation = r.generation /\ client'.last = -1
           /\ saved' = At(client') /\ saved' \in Sessions
<1>1. client' = [phase |-> "idle", initialized |-> TRUE,
                 episode |-> r.episode, generation |-> r.generation,
                 next |-> 0, last |-> -1, goal |-> None, resent |-> FALSE,
                 rebased |-> r.call.kind = "initialize" /\ r.again]
    BY DEF Adopt, InitialClient
<1>2. (r.call.kind = "initialize" /\ r.again) \in BOOLEAN
    OBVIOUS
<1>3. r.generation \in Generations
    BY DEF Responses
<1>4. client' \in Clients /\ client'.phase = "idle"
      /\ client'.episode = r.episode
      /\ client'.generation = r.generation /\ client'.last = -1
    BY <1>1, <1>2, <1>3 DEF Clients
<1>5. saved' = At(client')
    BY DEF Adopt
<1>6. QED
    BY <1>3, <1>4, <1>5 DEF At, Sessions, Generations

LEMMA TakeResponseSafe ==
    ASSUME Safe, TakeResponse
    PROVE  Safe'
<1>1. /\ ClientTyped /\ response \in Responses
      /\ response.status = "OK" => response.episode \in Episodes
    BY DEF Safe, ClientTyped, TakeResponse
<1>2. CASE response.status = "OK" /\ Adopt(response) /\ UNCHANGED calls
    <2>1. /\ client' \in Clients /\ client'.phase = "idle"
          /\ client'.episode \in Episodes /\ saved' \in Sessions
        BY <1>1, <1>2, AdoptTyped
    <2>2. ClientTyped'
        BY <1>1, <1>2, <2>1 DEF ClientTyped, TakeResponse
    <2>3. QED
        BY <2>1, <2>2, NotWaiting, ServiceUntouched DEF TakeResponse
<1>3. CASE /\ MayReconcile(response)
           /\ calls' = calls \cup {Reset(response.call.episode,
                                         client.generation, response.last, TRUE)}
           /\ UNCHANGED <<client, saved>>
    <2>1. Reset(response.call.episode, client.generation, response.last, TRUE)
            \in Calls
        <3>1. response.call.episode \in Episodes
            BY <1>1 DEF Responses, Calls, InitializeCalls, ResetCalls
        <3>2. response.last \in Nat /\ client.generation \in Generations
            BY <1>1 DEF ClientTyped, Clients, Responses
        <3>3. QED
            BY <3>1, <3>2 DEF Reset, Calls, ResetCalls
    <2>2. ClientTyped'
        BY <1>1, <1>3, <2>1 DEF ClientTyped, TakeResponse
    <2>3. GoalIsAwaited'
        BY <1>3, NotWaiting DEF TakeResponse
    <2>4. QED
        BY <2>2, <2>3, ServiceUntouched DEF TakeResponse
<1>4. CASE client' = [client EXCEPT !.phase = "idle"] /\ UNCHANGED <<calls, saved>>
    <2>1. /\ client' \in Clients /\ client'.phase = "idle"
          /\ client'.initialized = client.initialized
          /\ client'.episode = client.episode
        BY <1>1, <1>4 DEF ClientTyped, Clients
    <2>2. ClientTyped'
        BY <1>1, <1>4, <2>1 DEF ClientTyped, TakeResponse
    <2>3. QED
        BY <2>1, <2>2, NotWaiting, ServiceUntouched DEF TakeResponse
<1>5. QED
    BY <1>2, <1>3, <1>4 DEF TakeResponse

LEMMA SendStepSafe ==
    ASSUME Safe, NEW d \in Digests, SendStep(d)
    PROVE  Safe'
<1>1. PICK g \in Goals :
        /\ Submit(g, RequestIdentity(client), d)
        /\ client' = [client EXCEPT !.phase = "step", !.goal = g,
                                    !.resent = FALSE]
    BY DEF SendStep
<1>2. /\ ServiceTyped /\ ClientTyped /\ client \in Clients
      /\ client.initialized /\ client.episode \in Episodes
      /\ client.next \in 0..MaxSequence
    BY DEF Safe, ClientTyped, SendStep, Clients
<1>3. RequestIdentity(client) \in Identities
    BY <1>2 DEF RequestIdentity, Identities, Clients, Generations
<1>4. /\ client' \in Clients /\ client'.phase = "step" /\ client'.goal = g
      /\ client'.initialized /\ client'.episode = client.episode
      /\ client'.next = client.next
      /\ RequestIdentity(client') = RequestIdentity(client)
    BY <1>1, <1>2 DEF Clients, RequestIdentity
<1>5. /\ goals' \in [Goals -> StepGoals]
      /\ goals'[g].phase = "received"
      /\ goals'[g].id = RequestIdentity(client)
      /\ goals[g].phase \in {"free", "done"}
      /\ \A h \in Goals \ {g} : goals'[h] = goals[h]
      /\ \A h \in Goals : Complete(goals'[h])
    <2> DEFINE x == [FreeGoal EXCEPT !.phase = "received",
                         !.id = RequestIdentity(client), !.digest = d]
    <2>1. x \in StepGoals /\ Complete(x) /\ x.phase = "received"
          /\ x.id = RequestIdentity(client)
        BY <1>3, Building DEF StepGoals, Complete, FreeGoal, Phases
    <2>2. goals' = [goals EXCEPT ![g] = x] /\ goals[g].phase \in {"free", "done"}
        BY <1>1 DEF Submit
    <2> HIDE DEF x
    <2>3. QED
        BY <1>2, <2>1, <2>2 DEF ServiceTyped
<1>6. ServiceTyped'
    BY <1>2, <1>5 DEF ServiceTyped, SendStep
<1>7. ClientTyped'
    BY <1>2, <1>4 DEF ClientTyped, SendStep
<1>8. GoalIsAwaited'
    BY <1>2, <1>4, <1>5 DEF GoalIsAwaited, Awaited
<1>9. OneEntry'
    BY DEF Safe, OneEntry, SendStep
<1>10. AdmissionHolds'
    BY <1>5, StillAdmitted DEF SendStep
<1>11. DiscardedStepsLeaveTheAgent'
    BY <1>5 DEF Safe, DiscardedStepsLeaveTheAgent, SendStep, ServiceTyped
<1>12. AnswersAreForTheirObservation'
    BY <1>5 DEF Safe, AnswersAreForTheirObservation
<1>13. QED
    BY <1>6, <1>7, <1>8, <1>9, <1>10, <1>11, <1>12 DEF Safe

\* Giving up on a result and finishing a resolution both make the client idle.
LEMMA BecomesIdleSafe ==
    ASSUME Safe, ResultTimesOut \/ Resolved
    PROVE  Safe'
<1>1. client \in Clients /\ saved \in Sessions
    BY DEF Safe, ClientTyped
<1>2. /\ client' \in Clients /\ client'.phase = "idle"
      /\ client'.initialized = client.initialized
      /\ client'.episode = client.episode
    <2>1. CASE ResultTimesOut
        BY <1>1, <2>1 DEF ResultTimesOut, Clients
    <2>2. CASE Resolved
        BY <1>1, <2>2 DEF Resolved, Clients
    <2>3. QED
        BY <2>1, <2>2
<1>3. saved' \in Sessions
    BY <1>1 DEF ResultTimesOut, Resolved, At, Sessions, Clients, Generations
<1>4. ClientTyped'
    BY <1>2, <1>3 DEF Safe, ClientTyped, ResultTimesOut, Resolved
<1>5. UNCHANGED serviceVars
    BY DEF ResultTimesOut, Resolved
<1>6. QED
    BY <1>2, <1>4, <1>5, NotWaiting, ServiceUntouched

\* A cancellation is a flag of its goal.
LEMMA CancelSafe ==
    ASSUME Safe, NEW g \in Goals, CancelArrives(g)
    PROVE  Safe'
<1>1. ServiceTyped
    BY DEF Safe
<1>2. /\ goals' = [goals EXCEPT ![g].cancel = TRUE]
      /\ goals[g].phase \in {"received", "waiting", "ready", "inferring"}
      /\ UNCHANGED <<barrier, results, epoch, lock, uncommitted, log>>
      /\ UNCHANGED sessionVars
    BY DEF CancelArrives, Cancel
<1>3. /\ goals' \in [Goals -> StepGoals]
      /\ \A h \in Goals : /\ goals'[h].phase = goals[h].phase
                          /\ goals'[h].id = goals[h].id
                          /\ goals'[h].digest = goals[h].digest
                          /\ goals'[h].reply = goals[h].reply
    BY <1>1, <1>2, ZenonT(60) DEF ServiceTyped, StepGoals
<1>4. ServiceTyped'
    BY <1>1, <1>2, <1>3 DEF ServiceTyped, Complete
<1>5. ClientTyped' /\ GoalIsAwaited'
    BY <1>2, <1>3 DEF Safe, ClientTyped, GoalIsAwaited, sessionVars, Awaited
<1>6. OneEntry' /\ DiscardedStepsLeaveTheAgent' /\ AnswersAreForTheirObservation'
    BY <1>1, <1>2, <1>3 DEF Safe, OneEntry, DiscardedStepsLeaveTheAgent,
                       AnswersAreForTheirObservation, ServiceTyped
<1>7. AdmissionHolds'
    <2>1. lock' # None => goals'[lock'].phase = "inferring"
        BY <1>1, <1>2, <1>3 DEF Safe, AdmissionHolds, ServiceTyped
    <2>2. ASSUME NEW h \in Goals, goals'[h].phase = "inferring"
          PROVE  lock' = h /\ Admission(goals[h].id, goals[h].digest)' = "NEW"
        <3>1. lock = h /\ Admission(goals[h].id, goals[h].digest) = "NEW"
            BY <1>3, <2>2 DEF Safe, AdmissionHolds
        <3>2. Admission(goals[h].id, goals[h].digest)'
                = Admission(goals[h].id, goals[h].digest)
            BY <1>2, <1>3 DEF Admission, CurrentStatus, Lookup
        <3>3. QED
            BY <1>2, <3>1, <3>2
    <2>3. QED
        BY <2>1, <2>2 DEF AdmissionHolds
<1>8. QED
    BY <1>4, <1>5, <1>6, <1>7 DEF Safe

\* A done goal that starts over or goes: the rest of the service stays.
LEMMA DoneGoalGoes ==
    ASSUME Safe, NEW g \in Goals, goals[g].phase = "done",
           NEW x \in StepGoals, Complete(x), x.phase \in {"free", "received"},
           goals' = [goals EXCEPT ![g] = x],
           UNCHANGED <<barrier, results, epoch, lock, uncommitted, log>>
    PROVE  /\ ServiceTyped' /\ OneEntry' /\ AdmissionHolds'
           /\ DiscardedStepsLeaveTheAgent' /\ AnswersAreForTheirObservation'
           /\ goals'[g] = x
           /\ \A h \in Goals \ {g} : goals'[h] = goals[h]
<1>1. ServiceTyped
    BY DEF Safe
<1>2. /\ goals' \in [Goals -> StepGoals]
      /\ goals'[g] = x
      /\ \A h \in Goals \ {g} : goals'[h] = goals[h]
    BY <1>1 DEF ServiceTyped
<1>3. ServiceTyped'
    BY <1>1, <1>2 DEF ServiceTyped
<1>4. OneEntry' /\ DiscardedStepsLeaveTheAgent' /\ AnswersAreForTheirObservation'
    BY <1>1, <1>2 DEF Safe, OneEntry, DiscardedStepsLeaveTheAgent,
                      AnswersAreForTheirObservation, ServiceTyped
<1>5. AdmissionHolds'
    BY <1>2, StillAdmitted
<1>6. QED
    BY <1>2, <1>3, <1>4, <1>5

LEMMA ResendSafe ==
    ASSUME Safe, NEW g \in Goals, Resend(g)
    PROVE  Safe'
<1> DEFINE x == [FreeGoal EXCEPT !.phase = "received", !.id = goals[g].id,
                                 !.digest = goals[g].digest]
<1>1. ServiceTyped /\ client \in Clients /\ goals[g].phase = "done"
      /\ goals' = [goals EXCEPT ![g] = x]
      /\ UNCHANGED <<barrier, results, epoch, lock, uncommitted, log>>
    BY DEF Safe, ClientTyped, Resend
<1>2. x \in StepGoals /\ Complete(x) /\ x.phase = "received"
      /\ x.id = goals[g].id
    BY <1>1, Building DEF ServiceTyped, StepGoals, Complete, FreeGoal, Phases
<1>3. /\ ServiceTyped' /\ OneEntry' /\ AdmissionHolds'
      /\ DiscardedStepsLeaveTheAgent' /\ AnswersAreForTheirObservation'
      /\ goals'[g] = x
      /\ \A h \in Goals \ {g} : goals'[h] = goals[h]
    <2> HIDE DEF x
    <2>1. QED
        BY <1>1, <1>2, DoneGoalGoes
<1>4. /\ client' \in Clients /\ client'.phase = client.phase
      /\ client'.goal = client.goal
      /\ client'.initialized = client.initialized
      /\ client'.episode = client.episode /\ client'.next = client.next
      /\ RequestIdentity(client') = RequestIdentity(client)
    BY <1>1 DEF Resend, Clients, RequestIdentity
<1>5. ClientTyped'
    BY <1>4 DEF Safe, ClientTyped, Resend
<1>6. GoalIsAwaited'
    BY <1>1, <1>2, <1>3, <1>4 DEF Safe, GoalIsAwaited, Awaited
<1>7. QED
    BY <1>3, <1>5, <1>6 DEF Safe

\* What the client makes of a result.
LEMMA TakeTyped ==
    ASSUME Safe, NEW g \in Goals, goals[g].phase = "done", Awaited(g),
           TakeError(g) \/ TakeLate(g) \/ TakeAnswer(g)
    PROVE  /\ client' \in Clients /\ client'.phase # "step"
           /\ client'.initialized = client.initialized
           /\ client'.episode = client.episode
<1>1. /\ client \in Clients /\ client.next \in 0..MaxSequence
    BY DEF Safe, ClientTyped, GoalIsAwaited, Awaited, Clients
<1>2. goals[g].reply.generation \in Generations
    BY DEF Safe, ServiceTyped, StepGoals, Replies
<1>3. client.next + 1 \in 0..(MaxSequence + 1) /\ client.next \in -1..MaxSequence
    BY <1>1
<1>4. CASE TakeError(g)
    <2>1. CASE client' = [client EXCEPT !.phase = "idle", !.goal = None]
        BY <1>1, <2>1 DEF Clients
    <2>2. CASE client' = [client EXCEPT !.phase = "idle", !.goal = None,
                             !.generation = goals[g].reply.generation,
                             !.next = 0, !.last = -1,
                             !.rebased = goals[g].reply.generation
                                          < client.generation]
        <3>1. 0 \in 0..(MaxSequence + 1) /\ -1 \in -1..MaxSequence
            OBVIOUS
        <3>2. (goals[g].reply.generation < client.generation) \in BOOLEAN
            OBVIOUS
        <3>3. QED
            BY <1>1, <1>2, <2>2, <3>1, <3>2 DEF Clients
    <2>3. QED
        BY <1>4, <2>1, <2>2 DEF TakeError
<1>5. CASE TakeLate(g)
    BY <1>1, <1>5 DEF TakeLate, Clients
<1>6. CASE TakeAnswer(g)
    BY <1>1, <1>3, <1>6 DEF TakeAnswer, Clients
<1>7. QED
    BY <1>4, <1>5, <1>6

LEMMA TakeResultSafe ==
    ASSUME Safe, NEW g \in Goals, TakeResult(g)
    PROVE  Safe'
<1>1. /\ goals[g].phase = "done" /\ Awaited(g)
      /\ goals' = [goals EXCEPT ![g] = FreeGoal]
      /\ UNCHANGED <<barrier, results, epoch, lock, uncommitted, log>>
      /\ TakeError(g) \/ TakeLate(g) \/ TakeAnswer(g)
    BY DEF TakeResult, Release
<1>2. /\ ServiceTyped' /\ OneEntry' /\ AdmissionHolds'
      /\ DiscardedStepsLeaveTheAgent' /\ AnswersAreForTheirObservation'
    BY <1>1, Building, DoneGoalGoes
<1>3. /\ client' \in Clients /\ client'.phase # "step"
      /\ client'.initialized = client.initialized
      /\ client'.episode = client.episode
    BY <1>1, TakeTyped
<1>4. ClientTyped'
    BY <1>3 DEF Safe, ClientTyped, TakeResult
<1>5. QED
    BY <1>2, <1>3, <1>4, NotWaiting DEF Safe

LEMMA CaptureSafe ==
    ASSUME Safe, Capture \/ Verify
    PROVE  Safe'
<1>1. UNCHANGED serviceVars /\ UNCHANGED <<client, calls, response, saved>>
    BY DEF Capture, Verify
<1>2. ClientTyped'
    BY <1>1 DEF Safe, ClientTyped, ServiceTyped, Capture, Verify, Agrees
<1>3. GoalIsAwaited'
    BY <1>1 DEF Safe, GoalIsAwaited, Awaited, serviceVars, RequestIdentity
<1>4. QED
    BY <1>1, <1>2, <1>3, ServiceUntouched

LEMMA RestartSafe ==
    ASSUME Safe, Restart
    PROVE  Safe'
<1>1. captured \in Sessions /\ captured.episode \in Episodes
    BY DEF Safe, ClientTyped, Restart
<1>2. barrier' \in Barriers /\ barrier'.episode \in Episodes
    BY <1>1 DEF Restart, RestoredBarrier, Barriers, Sessions, Generations
<1>3. /\ goals' \in [Goals -> StepGoals]
      /\ \A g \in Goals : goals'[g].phase = "free" /\ Complete(goals'[g])
    BY Building DEF Restart
<1>4. ServiceTyped'
    BY <1>2, <1>3 DEF ServiceTyped, Restart
<1>5. ClientTyped'
    BY DEF Safe, ClientTyped, Restart
<1>6. GoalIsAwaited'
    BY <1>3 DEF Safe, GoalIsAwaited, Restart
<1>7. OneEntry' /\ AdmissionHolds' /\ DiscardedStepsLeaveTheAgent'
      /\ AnswersAreForTheirObservation'
    BY <1>3 DEF OneEntry, AdmissionHolds, DiscardedStepsLeaveTheAgent,
                AnswersAreForTheirObservation, Restart
<1>8. QED
    BY <1>4, <1>5, <1>6, <1>7 DEF Safe

-----------------------------------------------------------------------------
(* The invariant and what follows from it.                                   *)

LEMMA SafeInit == SessionInit => Safe
<1> SUFFICES ASSUME SessionInit
             PROVE  Safe
    OBVIOUS
<1>1. ServiceTyped
    <2>1. barrier \in Barriers /\ ~barrier.initialized
        BY DEF SessionInit, Init, Barriers, Generations
    <2>2. goals \in [Goals -> StepGoals] /\ \A g \in Goals : goals[g] = FreeGoal
        BY Building DEF SessionInit, Init
    <2>3. QED
        BY <2>1, <2>2, Building DEF ServiceTyped, SessionInit, Init
<1>2. ClientTyped
    <2>1. InitialClient \in Clients /\ ~InitialClient.initialized
        BY DEF InitialClient, Clients, Generations
    <2>2. NoSession \in Sessions
        BY DEF NoSession, Sessions
    <2>3. QED
        BY <2>1, <2>2 DEF ClientTyped, SessionInit
<1>3. GoalIsAwaited
    BY DEF GoalIsAwaited, SessionInit, InitialClient, Awaited
<1>4. \A g \in Goals : goals[g].phase = "free"
    BY Building DEF SessionInit, Init
<1>5. OneEntry /\ AdmissionHolds /\ DiscardedStepsLeaveTheAgent
      /\ AnswersAreForTheirObservation
    BY <1>4 DEF OneEntry, AdmissionHolds, DiscardedStepsLeaveTheAgent,
                AnswersAreForTheirObservation, SessionInit, Init
<1>6. QED
    BY <1>1, <1>2, <1>3, <1>5 DEF Safe

LEMMA SafeStep == Safe /\ [SessionNext]_vars => Safe'
<1> SUFFICES ASSUME Safe, [SessionNext]_vars
             PROVE  Safe'
    OBVIOUS
<1>1. CASE UNCHANGED vars
    <2>1. UNCHANGED serviceVars /\ UNCHANGED sessionVars
        BY <1>1 DEF vars
    <2>2. ClientTyped' /\ GoalIsAwaited'
        BY <2>1 DEF Safe, ClientTyped, GoalIsAwaited, sessionVars, serviceVars,
                    Awaited, RequestIdentity
    <2>3. QED
        BY <2>1, <2>2, ServiceUntouched
<1>2. CASE SessionNext
    BY <1>2, StartSafe, ServeInitializeSafe, ServeResetSafe, CallTimesOutSafe,
       TakeResponseSafe, SendStepSafe, BecomesIdleSafe, CancelSafe, ResendSafe,
       TakeResultSafe, StepGoalSafe, CaptureSafe, RestartSafe DEF SessionNext
<1>3. QED
    BY <1>1, <1>2

LEMMA Safely == SessionSpec => []Safe
BY SafeInit, SafeStep, PTL DEF SessionSpec

\* Server and client keep their types; every request is complete.
THEOREM TypeCorrect == SessionSpec => []TypeOK
<1>1. Safe => TypeOK
    <2> SUFFICES ASSUME Safe
                 PROVE  TypeOK
        OBVIOUS
    <2>1. \A g \in Goals : /\ goals[g].phase \in Phases
                          /\ goals[g].id \in Identities \cup {None}
                          /\ goals[g].reply.status \in Statuses
        BY DEF Safe, ServiceTyped, StepGoals, Replies
    <2>2. QED
        BY <2>1 DEF Safe, ServiceTyped, ClientTyped, Barriers, Clients, TypeOK,
                    Generations
<1>2. QED
    BY <1>1, Safely, PTL

\* The inference lock protects the admission: what is in the model call holds
\* the lock and stays the request the barrier expects next.
THEOREM AdmissionIsHeld == SessionSpec => []AdmissionHolds
<1>1. Safe => AdmissionHolds
    BY DEF Safe
<1>2. QED
    BY <1>1, Safely, PTL

\* No canceled, late or failed step stays in the agent's latent state.
THEOREM StepsLeaveTheAgent == SessionSpec => []DiscardedStepsLeaveTheAgent
<1>1. Safe => DiscardedStepsLeaveTheAgent
    BY DEF Safe
<1>2. QED
    BY <1>1, Safely, PTL

\* Every OK answer belongs to the observation and identity its goal asked
\* about.
THEOREM AnswersMatch == SessionSpec => []AnswersAreForTheirObservation
<1>1. Safe => AnswersAreForTheirObservation
    BY DEF Safe
<1>2. QED
    BY <1>1, Safely, PTL

-----------------------------------------------------------------------------
(* The log and who knows how much of it.                                     *)

\* The session s stops within what its generation has executed.
Known(s) ==
    /\ s.generation <= barrier.generation
    /\ s.last + 1 <= Len(log[s.generation])

\* The log is the barrier's, and the cache is a part of the current log.
Logged ==
    /\ log \in [Generations -> Seq(Digests)]
    /\ \A n \in Generations : n > barrier.generation => log[n] = <<>>
    /\ Len(log[barrier.generation]) = barrier.last + 1
    /\ ~barrier.initialized => barrier.generation = 0 /\ barrier.last = -1
    /\ \A g \in Goals : goals[g].phase = "failed" => barrier.initialized
    /\ \A r \in results :
         /\ r.id.generation = barrier.generation
         /\ r.id.sequence + 1 \in 1..Len(log[barrier.generation])
         /\ r.digest = log[barrier.generation][r.id.sequence + 1]

\* What the result of a done goal tells has happened.
Told(g) ==
    goals[g].phase = "done" =>
        /\ goals[g].reply.generation <= barrier.generation
        /\ goals[g].reply.status = "OK" =>
             /\ goals[g].id.generation <= barrier.generation
             /\ goals[g].id.sequence + 1 <= Len(log[goals[g].id.generation])

\* What answers, results and files tell has been executed. A restart can take
\* it back.
Learned ==
    /\ restarts \in Nat
    /\ restarts = 0 =>
         /\ Known(client)
         /\ Known(saved)
         /\ captured # None => Known(captured)
         /\ response # None => response.generation <= barrier.generation
         /\ \A g \in Goals : Told(g)

\* Without a restart generations only begin and logs only grow.
Growing ==
    /\ barrier.generation <= barrier'.generation
    /\ \A n \in Generations : Len(log[n]) <= Len(log'[n])

\* The inductive invariant of the ledger.
Kept == Safe /\ Logged /\ Learned

\* What was known stays known.
LEMMA StaysKnown ==
    ASSUME Kept, Safe', Logged', Growing,
           NEW s, s.generation \in Generations, s.last \in Int,
           s.generation <= barrier.generation,
           s.last + 1 <= Len(log[s.generation])
    PROVE  /\ s.generation <= barrier'.generation
           /\ s.last + 1 <= Len(log'[s.generation])
<1>1. barrier.generation \in Int /\ barrier'.generation \in Int
    BY DEF Kept, Safe, ServiceTyped, Barriers, Generations
<1>2. Len(log[s.generation]) \in Int /\ Len(log'[s.generation]) \in Int
    BY DEF Kept, Logged
<1>3. s.generation \in Int
    BY DEF Generations
<1>4. QED
    BY <1>1, <1>2, <1>3 DEF Growing

\* A goal fails in the model call, where the barrier is initialized.
LEMMA FailsInitialized ==
    ASSUME Kept, SessionNext, NEW g \in Goals, goals'[g].phase = "failed"
    PROVE  barrier.initialized
<1>1. CASE goals[g].phase \in {"inferring", "failed"}
    <2>1. goals[g].phase = "inferring" => barrier.initialized
        BY DEF Kept, Safe, AdmissionHolds, Admission, CurrentStatus
    <2>2. QED
        BY <1>1, <2>1 DEF Kept, Logged
<1>2. CASE goals[g].phase \notin {"inferring", "failed"}
    <2>1. goals \in [Goals -> StepGoals]
        BY DEF Kept, Safe, ServiceTyped
    <2>2. ASSUME NEW h \in Goals, StepGoal(h)
          PROVE  FALSE
        <3>1. ASSUME NEW r, Finish(h, r)
              PROVE  FALSE
            BY <1>2, <2>1, <3>1 DEF Finish, FreeGoal
        <3>2. CASE \E p \in {"waiting", "ready", "inferring"} :
                     goals' = [goals EXCEPT ![h].phase = p]
            BY <1>2, <2>1, <3>2 DEF StepGoals
        <3>3. CASE goals' = [goals EXCEPT ![h].phase = "waiting",
                                          ![h].epoch = epoch]
            BY <1>2, <2>1, <3>3 DEF StepGoals
        <3>4. CASE Raise(h)
            BY <1>2, <2>1, <3>4 DEF StepGoals, Raise
        <3>5. QED
            BY <2>2, <3>1, <3>2, <3>3, <3>4 DEF StepGoal, Receive, Observe,
               BeginInference, Commit, Discard, AbortAfterError,
               AbortGeneration, Refuse, AnswerFromCache
    <2>3. ASSUME NEW h \in Goals, CancelArrives(h) \/ Resend(h) \/ TakeResult(h)
          PROVE  FALSE
        <3>1. CASE CancelArrives(h)
            BY <1>2, <2>1, <3>1 DEF CancelArrives, Cancel, StepGoals
        <3>2. CASE Resend(h)
            BY <1>2, <2>1, <3>2 DEF Resend, FreeGoal
        <3>3. CASE TakeResult(h)
            BY <1>2, <2>1, <3>3 DEF TakeResult, Release, FreeGoal
        <3>4. QED
            BY <2>3, <3>1, <3>2, <3>3
    <2>4. ASSUME NEW d \in Digests, SendStep(d)
          PROVE  FALSE
        BY <1>2, <2>1, <2>4 DEF SendStep, Submit, FreeGoal, StepGoals
    <2>5. CASE Restart
        BY <2>5 DEF Restart, FreeGoal
    <2>6. QED
        BY <1>2, <2>2, <2>3, <2>4, <2>5 DEF SessionNext, StartInitialize,
           StartReset, ServeInitialize, OnInitialize, ServeReset, OnReset,
           CallTimesOut, TakeResponse, ResultTimesOut, Resolved, Capture,
           Verify, serviceVars
<1>3. QED
    BY <1>1, <1>2

\* A step that leaves barrier, cache and log alone.
LEMMA QuietLogged ==
    ASSUME Kept, UNCHANGED <<barrier, results, log>>,
           \A g \in Goals : goals'[g].phase = "failed" => barrier.initialized
    PROVE  Logged' /\ Growing
<1>1. Logged'
    BY DEF Kept, Logged
<1>2. Growing
    BY DEF Kept, Safe, ServiceTyped, Barriers, Generations, Logged, Growing
<1>3. QED
    BY <1>1, <1>2

\* A new generation begins with an empty log.
LEMMA RenewLogged ==
    ASSUME Kept, NEW e \in Episodes \cup {None}, NewGeneration(e),
           barrier.initialized => e \in Episodes, barrier.initialized
    PROVE  Logged' /\ Growing
<1>1. /\ barrier'.generation = barrier.generation + 1
      /\ barrier'.generation \in Generations
      /\ barrier'.initialized /\ barrier'.last = -1
      /\ results' = {} /\ log' = log
    <2>1. barrier \in Barriers
        BY DEF Kept, Safe, ServiceTyped
    <2>2. QED
        BY <2>1 DEF NewGeneration, Barriers, Generations
<1>2. barrier.generation \in Int /\ Len(<<>>) = 0
    BY DEF Kept, Safe, ServiceTyped, Barriers, Generations
<1>3. log[barrier'.generation] = <<>>
    BY <1>1, <1>2 DEF Kept, Logged
<1>4. Logged'
    BY <1>1, <1>2, <1>3 DEF Kept, Logged, Generations
<1>5. Growing
    BY <1>1, <1>2 DEF Kept, Logged, Growing
<1>6. QED
    BY <1>4, <1>5

\* A commit appends the observation under the next number.
LEMMA CommitLogged ==
    ASSUME Kept, NEW g \in Goals, Commit(g), Safe'
    PROVE  /\ Logged' /\ Growing
           /\ goals[g].id.generation = barrier.generation
           /\ goals[g].id.sequence = Len(log[barrier.generation])
           /\ log' = [log EXCEPT ![barrier.generation]
                                  = Append(@, goals[g].digest)]
           /\ Len(log'[barrier.generation]) = Len(log[barrier.generation]) + 1
<1> DEFINE id == goals[g].id
           d == goals[g].digest
           n == barrier.generation
           L == log[n]
<1>1. /\ goals[g].phase = "inferring" /\ Admission(id, d) = "NEW"
      /\ id \in Identities /\ d \in Digests
      /\ n \in Generations /\ barrier.last \in Int
    BY DEF Commit, Kept, Safe, AdmissionHolds, ServiceTyped, Complete, Barriers
<1>2. /\ id.generation = n /\ id.sequence = barrier.last + 1
      /\ barrier.initialized
    BY <1>1 DEF Admission, CurrentStatus, Lookup
<1>3. L \in Seq(Digests) /\ Len(L) = barrier.last + 1
    BY <1>1 DEF Kept, Logged
<1>4. /\ Append(L, d) \in Seq(Digests)
      /\ Len(Append(L, d)) = Len(L) + 1
      /\ \A i \in 1..Len(L) : Append(L, d)[i] = L[i]
      /\ Append(L, d)[Len(L) + 1] = d
    BY <1>1, <1>3, AppendProperties
<1>5. log' = [log EXCEPT ![n] = Append(L, d)]
    BY DEF Commit
<1>6. /\ log' \in [Generations -> Seq(Digests)]
      /\ log'[n] = Append(L, d)
      /\ \A k \in Generations \ {n} : log'[k] = log[k]
    BY <1>1, <1>4, <1>5 DEF Kept, Logged
<1>7. /\ barrier'.generation = n /\ barrier'.initialized
      /\ barrier'.last = id.sequence
    BY <1>1, <1>2 DEF Commit, Kept, Safe, ServiceTyped, Barriers
<1>8. results' \subseteq results \cup {[id |-> id, digest |-> d]}
    BY DEF Commit, CachePut
<1>9. ASSUME NEW r \in results'
      PROVE  /\ r.id.generation = n
             /\ r.id.sequence + 1 \in 1..Len(log'[n])
             /\ r.digest = log'[n][r.id.sequence + 1]
    <2> HIDE DEF L, d, id, n
    <2>1. CASE r \in results
        <3>1. /\ r.id.generation = n
              /\ r.id.sequence + 1 \in 1..Len(L)
              /\ r.digest = L[r.id.sequence + 1]
            BY <2>1 DEF Kept, Logged, L, n
        <3>2. QED
            BY <1>3, <1>4, <1>6, <3>1
    <2>2. CASE r = [id |-> id, digest |-> d]
        <3>1. r.id.sequence + 1 = Len(L) + 1
            BY <1>2, <1>3, <2>2
        <3>2. Len(L) \in Nat
            BY <1>3
        <3>3. QED
            BY <1>2, <1>4, <1>6, <2>2, <3>1, <3>2
    <2>3. QED
        BY <1>8, <2>1, <2>2
<1>10. Logged'
    <2> HIDE DEF L, d
    <2>1. Len(log'[barrier'.generation]) = barrier'.last + 1
        BY <1>2, <1>3, <1>4, <1>6, <1>7
    <2>2. \A k \in Generations : k > barrier'.generation => log'[k] = <<>>
        BY <1>1, <1>6, <1>7 DEF Kept, Logged, Generations
    <2>3. QED
        BY <1>6, <1>7, <1>9, <2>1, <2>2 DEF Logged
<1>11. Growing
    <2>1. \A k \in Generations : Len(log[k]) \in Nat
        BY DEF Kept, Logged
    <2>2. QED
        BY <1>1, <1>3, <1>4, <1>6, <1>7, <2>1, SMTT(30) DEF Growing, Generations
<1>12. QED
    BY <1>2, <1>3, <1>4, <1>5, <1>6, <1>10, <1>11

\* The first initialize starts the log of generation 0, which is empty.
LEMMA InitializeLogged ==
    ASSUME Kept, NEW e, OnInitialize(e)
    PROVE  Logged' /\ Growing
<1>1. CASE barrier.initialized
    BY <1>1, QuietLogged DEF OnInitialize
<1>2. CASE ~barrier.initialized
    <2>1. /\ barrier' = [initialized |-> TRUE, episode |-> e,
                         generation |-> 0, last |-> -1]
          /\ results' = {} /\ log' = log /\ goals' = goals
        BY <1>2 DEF OnInitialize
    <2>2. barrier.generation = 0 /\ barrier.last = -1
        BY <1>2 DEF Kept, Logged
    <2>3. Logged'
        BY <2>1, <2>2 DEF Kept, Logged
    <2>4. Growing
        BY <2>1, <2>2 DEF Kept, Logged, Growing
    <2>5. QED
        BY <2>3, <2>4
<1>3. QED
    BY <1>1, <1>2

LEMMA ResetLogged ==
    ASSUME Kept, NEW c \in calls, ServeReset(c)
    PROVE  Logged' /\ Growing
<1>1. CASE ResetStatus(c.expected, c.through) = "OK"
    <2>1. NewGeneration(c.episode) /\ barrier.initialized
        BY <1>1 DEF ServeReset, OnReset, ResetStatus
    <2>2. c.episode \in Episodes
        BY DEF Kept, Safe, ClientTyped, Calls, InitializeCalls, ResetCalls,
               ServeReset
    <2>3. QED
        BY <2>1, <2>2, RenewLogged
<1>2. CASE ResetStatus(c.expected, c.through) # "OK"
    BY <1>2, QuietLogged DEF ServeReset, OnReset, Kept, Logged
<1>3. QED
    BY <1>1, <1>2

\* A goal that throws its step away renews the generation of the barrier.
LEMMA AbortLogged ==
    ASSUME Kept, NEW g \in Goals, NEW status,
           goals[g].phase \in {"inferring", "failed"},
           AbortGeneration(g, status)
    PROVE  /\ Logged' /\ Growing
           /\ NewGeneration(barrier.episode)
<1>1. barrier.initialized
    BY DEF Kept, Safe, Logged, AdmissionHolds, Admission, CurrentStatus
<1>2. /\ NewGeneration(barrier.episode)
      /\ barrier.episode \in Episodes
    BY <1>1 DEF AbortGeneration, Kept, Safe, ServiceTyped
<1>3. QED
    BY <1>1, <1>2, RenewLogged

\* Every step but a restart.
LEMMA NextLogged ==
    ASSUME Kept, SessionNext, ~Restart, Safe'
    PROVE  Logged' /\ Growing
<1>1. \A g \in Goals : goals'[g].phase = "failed" => barrier.initialized
    BY FailsInitialized
<1>2. CASE UNCHANGED <<barrier, results, log>>
    BY <1>1, <1>2, QuietLogged
<1>3. CASE \E c \in calls : ServeInitialize(c) \/ ServeReset(c)
    BY <1>3, InitializeLogged, ResetLogged DEF ServeInitialize
<1>4. ASSUME NEW g \in Goals, StepGoal(g)
      PROVE  Logged' /\ Growing
    <2>1. CASE Commit(g)
        BY <2>1, CommitLogged
    <2>2. CASE Discard(g) \/ AbortAfterError(g)
        BY <2>2, AbortLogged DEF Discard, AbortAfterError
    <2>3. CASE Receive(g) \/ Observe(g) \/ BeginInference(g) \/ Raise(g)
        BY <1>2, <2>3 DEF Receive, Observe, BeginInference, Raise, Refuse,
                          AnswerFromCache
    <2>4. QED
        BY <1>4, <2>1, <2>2, <2>3 DEF StepGoal
<1>5. QED
    BY <1>2, <1>3, <1>4 DEF SessionNext, StartInitialize, StartReset,
       CallTimesOut, TakeResponse, SendStep, ResultTimesOut, Resolved,
       CancelArrives, Cancel, Resend, TakeResult, Release, Capture, Verify,
       serviceVars

\* A restart cuts the log back to what the session file knew of it.
LEMMA RestartLogged ==
    ASSUME Kept, Restart, Known(captured)
    PROVE  /\ Logged'
           /\ captured.generation \in 0..barrier.generation
           /\ captured.last + 1 \in 0..Len(log[captured.generation])
           /\ barrier'.generation = captured.generation
           /\ log' = [n \in Generations |->
                        IF n < captured.generation THEN log[n]
                        ELSE IF n = captured.generation
                        THEN SubSeq(log[n], 1, captured.last + 1) ELSE <<>>]
<1> DEFINE n == captured.generation
           k == captured.last + 1
<1>1. /\ captured \in Sessions /\ n \in Generations /\ k \in Nat
      /\ captured.last \in Int /\ barrier.generation \in Generations
    BY DEF Kept, Safe, ClientTyped, ServiceTyped, Restart, Sessions,
           Generations, Barriers
<1>2. n <= barrier.generation /\ k <= Len(log[n])
    BY DEF Known
<1>3. log[n] \in Seq(Digests)
    BY <1>1 DEF Kept, Logged
<1>4. SubSeq(log[n], 1, k) \in Seq(Digests) /\ Len(SubSeq(log[n], 1, k)) = k
    <2>1. \A i \in 1..k : log[n][i] \in Digests
        BY <1>1, <1>2, <1>3
    <2>2. QED
        BY <1>1, <2>1, SubSeqProperties
<1>5. log' = [m \in Generations |->
                IF m < n THEN log[m]
                ELSE IF m = n THEN SubSeq(log[m], 1, k) ELSE <<>>]
    BY DEF Restart, Generations
<1>6. /\ barrier'.generation = n /\ barrier'.last = captured.last
      /\ barrier'.initialized /\ results' = {}
      /\ \A g \in Goals : goals'[g].phase = "free"
    BY Building DEF Restart, RestoredBarrier
<1>7. /\ log' \in [Generations -> Seq(Digests)]
      /\ Len(log'[n]) = k
      /\ \A m \in Generations : m > n => log'[m] = <<>>
    <2>1. <<>> \in Seq(Digests)
        OBVIOUS
    <2>2. \A m \in Generations : log[m] \in Seq(Digests)
        BY DEF Kept, Logged
    <2>3. QED
        BY <1>1, <1>4, <1>5, <2>1, <2>2 DEF Generations
<1>8. Logged'
    <2> HIDE DEF n, k
    <2>1. Len(log'[barrier'.generation]) = barrier'.last + 1
        BY <1>6, <1>7 DEF k
    <2>2. QED
        BY <1>6, <1>7, <2>1 DEF Logged
<1>9. QED
    BY <1>1, <1>2, <1>5, <1>6, <1>8 DEF Generations

\* What the client takes from results and responses has been executed.
LEMMA ClientLearns ==
    ASSUME Kept, SessionNext, ~Restart, Safe', Logged', Growing, restarts = 0
    PROVE  Known(client)'
<1>1. /\ client \in Clients /\ client.generation \in Generations
      /\ client.last \in Int /\ Known(client)
    BY DEF Kept, Safe, ClientTyped, Clients, Learned
<1>2. CASE /\ client'.generation = client.generation
           /\ client'.last = client.last
    BY <1>1, <1>2, StaysKnown DEF Known
<1>3. ASSUME NEW n \in Generations, n <= barrier.generation,
             client'.generation = n, client'.last = -1
      PROVE  Known(client)'
    <2> DEFINE s == [generation |-> n, last |-> -1]
    <2>1. s.generation = n /\ s.last = -1 /\ s.last + 1 <= Len(log[n])
        BY DEF Kept, Logged
    <2> HIDE DEF s
    <2>2. QED
        BY <1>3, <2>1, StaysKnown DEF Known
<1>4. CASE TakeResponse
    <2>1. CASE Adopt(response) /\ response.status = "OK"
        <3>1. /\ response \in Responses /\ response.episode \in Episodes
              /\ response.generation <= barrier.generation
            BY <1>4, <2>1 DEF Kept, Safe, ClientTyped, Learned, TakeResponse
        <3>2. client'.generation = response.generation /\ client'.last = -1
            BY <2>1, <3>1, AdoptTyped
        <3>3. QED
            BY <1>3, <3>1, <3>2 DEF Responses
    <2>2. CASE client' = [client EXCEPT !.phase = "idle"] \/ client' = client
        BY <1>1, <1>2, <2>2 DEF Clients
    <2>3. QED
        BY <1>4, <2>1, <2>2 DEF TakeResponse
<1>5. ASSUME NEW g \in Goals, TakeResult(g)
      PROVE  Known(client)'
    <2>1. /\ goals[g].phase = "done" /\ Awaited(g)
          /\ goals[g].id = RequestIdentity(client)
          /\ goals[g].reply.generation \in Generations
          /\ goals[g].reply.generation <= barrier.generation
          /\ client.next \in Int
        BY <1>1, <1>5 DEF TakeResult, Release, Kept, Safe, GoalIsAwaited,
           ServiceTyped, StepGoals, Replies, Learned, Told, Clients
    <2>2. CASE TakeError(g)
        <3>1. CASE goals[g].reply.generation # client.generation
            <4>1. /\ client'.generation = goals[g].reply.generation
                  /\ client'.last = -1
                BY <1>1, <2>2, <3>1 DEF TakeError, Clients
            <4>2. QED
                BY <1>3, <2>1, <4>1
        <3>2. CASE goals[g].reply.generation = client.generation
            BY <1>1, <1>2, <2>2, <3>2 DEF TakeError, Clients
        <3>3. QED
            BY <3>1, <3>2
    <2>3. CASE TakeLate(g)
        BY <1>1, <1>2, <2>3 DEF TakeLate, Clients
    <2>4. CASE TakeAnswer(g) /\ ~goals[g].reply.replayed
        <3>1. /\ client'.generation = client.generation
              /\ client'.last = client.next
            BY <1>1, <2>4 DEF TakeAnswer, Clients
        <3>2. client.next + 1 <= Len(log[client.generation])
            BY <2>1, <2>4 DEF TakeAnswer, Kept, Learned, Told, RequestIdentity
        <3> DEFINE s == [generation |-> client.generation, last |-> client.next]
        <3>3. /\ s.generation = client.generation /\ s.last = client.next
              /\ s.generation <= barrier.generation
            BY <1>1 DEF Known
        <3> HIDE DEF s
        <3>4. QED
            BY <1>1, <2>1, <3>1, <3>2, <3>3, StaysKnown DEF Known
    <2>5. CASE TakeAnswer(g) /\ goals[g].reply.replayed
        BY <1>1, <1>2, <2>5 DEF TakeAnswer, Clients
    <2>6. QED
        BY <1>5, <2>2, <2>3, <2>4, <2>5 DEF TakeResult
<1>6. CASE client' = client
    BY <1>2, <1>6
<1>7. CASE \E e \in Episodes : StartInitialize(e) \/ StartReset(e)
    BY <1>1, <1>2, <1>7 DEF StartInitialize, StartReset, Clients
<1>8. CASE CallTimesOut \/ ResultTimesOut \/ Resolved
    BY <1>1, <1>2, <1>8 DEF CallTimesOut, ResultTimesOut, Resolved, Clients
<1>9. CASE \E d \in Digests : SendStep(d)
    BY <1>1, <1>2, <1>9 DEF SendStep, Clients
<1>10. CASE \E g \in Goals : Resend(g)
    BY <1>1, <1>2, <1>10 DEF Resend, Clients
<1>11. QED
    BY <1>4, <1>5, <1>6, <1>7, <1>8, <1>9, <1>10 DEF SessionNext,
       ServeInitialize, ServeReset, CancelArrives, Capture, Verify, sessionVars

\* The summary file and the session file hold what the client has known.
LEMMA FilesLearn ==
    ASSUME Kept, SessionNext, ~Restart, Safe', Logged', Growing, restarts = 0
    PROVE  /\ Known(saved)'
           /\ captured' # None => Known(captured)'
<1>1. /\ client.generation \in Generations /\ client.last \in Int
      /\ saved.generation \in Generations /\ saved.last \in Int
      /\ Known(client) /\ Known(saved)
    BY DEF Kept, Safe, ClientTyped, Clients, Sessions, Generations, Learned
<1>2. Known(saved)'
    <2>1. CASE saved' = saved
        BY <1>1, <2>1, StaysKnown DEF Known
    <2>2. CASE saved' = At(client)
        BY <1>1, <2>2, StaysKnown DEF Known, At
    <2>3. CASE saved' = At(client')
        BY <2>3, ClientLearns DEF Known, At
    <2>4. QED
        BY <2>1, <2>2, <2>3 DEF SessionNext, StartInitialize, StartReset,
           ServeInitialize, ServeReset, CallTimesOut, TakeResponse, Adopt,
           SendStep, ResultTimesOut, Resolved, CancelArrives, Resend,
           TakeResult, Capture, Verify, sessionVars
<1>3. ASSUME captured' # None
      PROVE  Known(captured)'
    <2>1. CASE captured' = captured
        <3>1. /\ captured.generation \in Generations /\ captured.last \in Int
              /\ Known(captured)
            BY <1>3, <2>1 DEF Kept, Safe, ClientTyped, Sessions, Generations,
                              Learned
        <3>2. QED
            BY <2>1, <3>1, StaysKnown DEF Known
    <2>2. CASE captured' = saved /\ saved' = saved
        BY <1>2, <2>2
    <2>3. QED
        BY <1>3, <2>1, <2>2 DEF SessionNext, StartInitialize, StartReset,
           ServeInitialize, ServeReset, CallTimesOut, TakeResponse,
           SendStep, ResultTimesOut, Resolved, CancelArrives, Resend,
           TakeResult, Capture, Verify, sessionVars
<1>4. QED
    BY <1>2, <1>3

\* A response tells the generation the barrier has.
LEMMA ResponseLearns ==
    ASSUME Kept, SessionNext, ~Restart, Safe', Growing, restarts = 0
    PROVE  response' # None => response'.generation <= barrier'.generation
<1>1. barrier.generation \in Int /\ barrier'.generation \in Int
    BY DEF Kept, Safe, ServiceTyped, Barriers, Generations
<1>2. CASE response' = response
    <2>1. response # None => response.generation \in Int
        BY DEF Kept, Safe, ClientTyped, Responses, Generations
    <2>2. QED
        BY <1>1, <1>2, <2>1 DEF Kept, Learned, Growing
<1>3. CASE response' = None
    BY <1>3
<1>4. ASSUME NEW c, NEW status, Respond(c, status)
      PROVE  response' # None => response'.generation <= barrier'.generation
    BY <1>1, <1>2, <1>4 DEF Respond
<1>5. QED
    BY <1>2, <1>3, <1>4 DEF SessionNext, StartInitialize, StartReset,
       ServeInitialize, ServeReset, CallTimesOut, TakeResponse, SendStep,
       ResultTimesOut, Resolved, CancelArrives, Resend, TakeResult, Capture,
       Verify, sessionVars

\* What a result told stays true.
LEMMA StaysTold ==
    ASSUME Kept, Safe', Logged', Growing, restarts = 0,
           NEW h \in Goals, goals'[h] = goals[h]
    PROVE  Told(h)'
<1> SUFFICES ASSUME goals[h].phase = "done"
             PROVE  Told(h)'
    BY DEF Told
<1>1. /\ Told(h)
      /\ goals[h].reply.generation \in Int
      /\ goals[h].id \in Identities
      /\ barrier.generation \in Int /\ barrier'.generation \in Int
    BY DEF Kept, Safe, ServiceTyped, Complete, StepGoals, Replies, Learned,
           Barriers, Generations
<1>2. goals[h].id.generation \in Generations /\ goals[h].id.sequence \in Int
    BY <1>1 DEF Identities, Generations
<1> DEFINE s == [generation |-> goals[h].id.generation,
                 last |-> goals[h].id.sequence]
<1>3. s.generation = goals[h].id.generation /\ s.last = goals[h].id.sequence
    OBVIOUS
<1> HIDE DEF s
<1>4. goals[h].reply.status = "OK" =>
        /\ s.generation <= barrier'.generation
        /\ s.last + 1 <= Len(log'[s.generation])
    BY <1>1, <1>2, <1>3, StaysKnown DEF Told
<1>5. goals[h].reply.generation <= barrier'.generation
    BY <1>1 DEF Told, Growing
<1>6. QED
    BY <1>3, <1>4, <1>5 DEF Told

\* Every goal of the service that is done tells what has happened.
LEMMA StepTells ==
    ASSUME Kept, NEW g \in Goals, StepGoal(g), Safe', Logged', Growing,
           restarts = 0
    PROVE  Told(g)'
<1>1. /\ goals \in [Goals -> StepGoals] /\ barrier.generation \in Int
      /\ barrier'.generation \in Int /\ goals[g].phase # "free"
    <2>1. /\ goals \in [Goals -> StepGoals] /\ barrier.generation \in Int
          /\ barrier'.generation \in Int
        BY DEF Kept, Safe, ServiceTyped, Barriers, Generations
    <2>2. goals[g].phase # "free"
        BY DEF StepGoal, Receive, Observe, BeginInference, Commit, Discard,
               Raise, AbortAfterError
    <2>3. QED
        BY <2>1, <2>2
<1>2. ASSUME NEW status \in Statuses \ {"OK"}, Refuse(g, status)
      PROVE  Told(g)'
    <2>1. /\ goals'[g].reply.generation = barrier.generation
          /\ goals'[g].reply.status # "OK"
        BY <1>1, <1>2 DEF Refuse, Finish, ErrorReply, FreeGoal
    <2>2. QED
        BY <1>1, <2>1 DEF Told, Growing
<1>3. CASE AnswerFromCache(g)
    <2>1. PICK r \in results : /\ r.id = goals[g].id
                               /\ Finish(g, OkReply(r.id, r.digest, TRUE))
        BY <1>3 DEF AnswerFromCache
    <2>2. /\ goals'[g].reply.generation = r.id.generation
          /\ goals'[g].id = r.id
        BY <1>1, <2>1 DEF Finish, OkReply, FreeGoal
    <2>3. /\ r.id.generation = barrier.generation
          /\ r.id.sequence + 1 <= Len(log[barrier.generation])
        BY <2>1 DEF Kept, Logged
    <2>4. barrier' = barrier /\ log' = log
        BY <1>3 DEF AnswerFromCache
    <2>5. QED
        BY <1>1, <2>2, <2>3, <2>4 DEF Told
<1>4. CASE Commit(g)
    <2>1. /\ goals'[g].reply.generation = goals[g].id.generation
          /\ goals'[g].id = goals[g].id
        BY <1>1, <1>4 DEF Commit, Finish, OkReply, FreeGoal
    <2>2. /\ goals[g].id.generation = barrier.generation
          /\ goals[g].id.sequence = Len(log[barrier.generation])
          /\ Len(log'[barrier.generation]) = Len(log[barrier.generation]) + 1
        BY <1>4, CommitLogged
    <2>3. barrier'.generation = barrier.generation
        BY <1>4 DEF Commit, Kept, Safe, ServiceTyped, Barriers
    <2>4. Len(log[barrier.generation]) \in Int
        BY DEF Kept, Safe, ServiceTyped, Barriers, Logged
    <2>5. QED
        BY <1>1, <2>1, <2>2, <2>3, <2>4 DEF Told
<1>5. ASSUME NEW status \in Statuses \ {"OK"}, AbortGeneration(g, status)
      PROVE  Told(g)'
    <2>1. /\ goals'[g].reply.generation = barrier'.generation
          /\ goals'[g].reply.status # "OK"
        BY <1>1, <1>5 DEF AbortGeneration, Finish, ErrorReply, FreeGoal
    <2>2. QED
        BY <1>1, <2>1 DEF Told
<1>6. CASE goals'[g].phase # "done"
    BY <1>6 DEF Told
<1>7. CASE \/ goals' = [goals EXCEPT ![g].phase = "waiting", ![g].epoch = epoch]
           \/ goals' = [goals EXCEPT ![g].phase = "ready"]
           \/ goals' = [goals EXCEPT ![g].phase = "inferring"]
           \/ goals' = [goals EXCEPT ![g].phase = "failed"]
    BY <1>1, <1>6, <1>7 DEF StepGoals
<1>8. QED
    <2> DEFINE verdict == Admission(goals[g].id, goals[g].digest)
    <2>1. verdict \in (Statuses \ {"OK"}) \cup {"REPLAY", "NEW"}
        BY <1>1, Verdicts DEF Kept, Safe, ServiceTyped, Complete
    <2>2. {"TIMEOUT", "STALE", "CANCELED", "OBSERVATION_MISSING",
           "INTERNAL_ERROR"} \subseteq Statuses \ {"OK"}
        BY DEF Statuses
    <2> HIDE DEF verdict
    <2>3. CASE Receive(g)
        BY <1>2, <1>3, <1>7, <2>1, <2>2, <2>3 DEF Receive, verdict
    <2>4. CASE Observe(g)
        BY <1>2, <1>7, <2>2, <2>4 DEF Observe
    <2>5. CASE BeginInference(g)
        BY <1>2, <1>3, <1>7, <2>1, <2>2, <2>5 DEF BeginInference, verdict
    <2>6. CASE Discard(g)
        BY <1>5, <2>2, <2>6 DEF Discard
    <2>7. CASE AbortAfterError(g)
        BY <1>5, <2>2, <2>7 DEF AbortAfterError
    <2>8. CASE Raise(g)
        BY <1>7, <2>8 DEF Raise
    <2>9. QED
        BY <1>4, <2>3, <2>4, <2>5, <2>6, <2>7, <2>8 DEF StepGoal

LEMMA GoalsTell ==
    ASSUME Kept, SessionNext, ~Restart, Safe', Logged', Growing, restarts = 0
    PROVE  \A g \in Goals : Told(g)'
<1> SUFFICES ASSUME NEW h \in Goals
             PROVE  Told(h)'
    OBVIOUS
<1>1. goals \in [Goals -> StepGoals]
    BY DEF Kept, Safe, ServiceTyped
<1>2. CASE goals'[h] = goals[h]
    BY <1>2, StaysTold
<1>3. CASE goals'[h].phase # "done"
    BY <1>3 DEF Told
<1>4. ASSUME NEW g \in Goals, StepGoal(g)
      PROVE  Told(h)'
    <2>1. CASE g = h
        BY <1>4, <2>1, StepTells
    <2>2. CASE g # h
        <3>1. goals'[h] = goals[h]
            BY <1>1, <1>4, <2>2 DEF StepGoal, Receive, Observe, BeginInference,
               Commit, Discard, Raise, AbortAfterError, AbortGeneration, Refuse,
               AnswerFromCache, Finish
        <3>2. QED
            BY <1>2, <3>1
    <2>3. QED
        BY <2>1, <2>2
<1>5. ASSUME NEW g \in Goals, CancelArrives(g)
      PROVE  Told(h)'
    <2>1. CASE g = h
        BY <1>1, <1>3, <1>5, <2>1 DEF CancelArrives, Cancel, StepGoals
    <2>2. CASE g # h
        BY <1>1, <1>2, <1>5, <2>2 DEF CancelArrives, Cancel
    <2>3. QED
        BY <2>1, <2>2
<1>6. ASSUME NEW g \in Goals, NEW x, x.phase # "done",
             goals' = [goals EXCEPT ![g] = x]
      PROVE  Told(h)'
    BY <1>1, <1>2, <1>3, <1>6
<1>7. ASSUME NEW g \in Goals, Resend(g) \/ TakeResult(g)
      PROVE  Told(h)'
    BY <1>6, <1>7 DEF Resend, TakeResult, Release, FreeGoal
<1>8. ASSUME NEW d \in Digests, SendStep(d)
      PROVE  Told(h)'
    BY <1>6, <1>8 DEF SendStep, Submit, FreeGoal
<1>9. CASE goals' = goals
    BY <1>2, <1>9
<1>10. QED
    BY <1>4, <1>5, <1>7, <1>8, <1>9 DEF SessionNext, StartInitialize,
       StartReset, ServeInitialize, OnInitialize, ServeReset, OnReset,
       CallTimesOut, TakeResponse, ResultTimesOut, Resolved, Capture, Verify,
       serviceVars

LEMMA KeptInit == SessionInit => Kept
<1> SUFFICES ASSUME SessionInit
             PROVE  Kept
    OBVIOUS
<1>1. /\ barrier.generation = 0 /\ barrier.last = -1 /\ ~barrier.initialized
      /\ results = {} /\ log = [n \in Generations |-> <<>>]
      /\ \A g \in Goals : goals[g].phase = "free"
      /\ client.generation = 0 /\ client.last = -1
      /\ saved.generation = 0 /\ saved.last = -1
      /\ captured = None /\ response = None /\ restarts = 0
    BY Building DEF SessionInit, Init, InitialClient, NoSession, Generations
<1>2. 0 \in Generations /\ <<>> \in Seq(Digests) /\ Len(<<>>) = 0
    BY DEF Generations
<1>3. Logged
    BY <1>1, <1>2 DEF Logged
<1>4. Learned
    BY <1>1, <1>2 DEF Learned, Known, Told
<1>5. QED
    BY <1>3, <1>4, SafeInit DEF Kept

\* Each step keeps the ledger, as long as at most one restart is allowed.
LEMMA KeptStep ==
    ASSUME MaxRestarts <= 1, Kept, [SessionNext]_vars
    PROVE  Kept'
<1>1. Safe'
    BY SafeStep DEF Kept
<1>2. CASE UNCHANGED vars
    <2>1. Logged'
        BY <1>2 DEF vars, serviceVars, sessionVars, Kept, Logged
    <2>2. Learned'
        BY <1>2 DEF vars, serviceVars, sessionVars, Kept, Learned, Known, Told
    <2>3. QED
        BY <1>1, <2>1, <2>2 DEF Kept
<1>3. CASE Restart
    <2>1. restarts = 0 /\ restarts' = 1
        BY <1>3 DEF Restart, Kept, Learned
    <2>2. Known(captured)
        BY <1>3, <2>1 DEF Restart, Kept, Learned
    <2>3. Logged'
        BY <1>3, <2>2, RestartLogged
    <2>4. Learned'
        BY <2>1 DEF Learned
    <2>5. QED
        BY <1>1, <2>3, <2>4 DEF Kept
<1>4. CASE SessionNext /\ ~Restart
    <2>1. Logged' /\ Growing
        BY <1>1, <1>4, NextLogged
    <2>2. restarts' = restarts
        BY <1>4 DEF SessionNext, StartInitialize, StartReset,
           ServeInitialize, ServeReset, CallTimesOut, TakeResponse, SendStep,
           ResultTimesOut, Resolved, CancelArrives, Resend, TakeResult, Capture,
           Verify, sessionVars
    <2>3. Learned'
        BY <1>1, <1>4, <2>1, <2>2, ClientLearns, FilesLearn, ResponseLearns,
           GoalsTell DEF Learned, Kept
    <2>4. QED
        BY <1>1, <2>1, <2>3 DEF Kept
<1>5. QED
    BY <1>2, <1>3, <1>4

-----------------------------------------------------------------------------
(* The refinement.                                                           *)

\* The goal x holds an OK answer, and which.
Offers(x) == x.phase = "done" /\ x.reply.status = "OK"
Offered(x) == [generation |-> x.reply.generation, sequence |-> x.id.sequence,
               digest |-> x.reply.digest]

LEMMA AnswersAre ==
    \A a : a \in Answers
            <=> \E g \in Goals : Offers(goals[g]) /\ a = Offered(goals[g])
BY DEF Answers, Offers, Offered

\* What the answers become when one goal changes.
LEMMA AnswersChange ==
    ASSUME NEW g \in Goals, \A h \in Goals \ {g} : goals'[h] = goals[h]
    PROVE  /\ ~Offers(goals[g]) /\ ~Offers(goals'[g]) => Answers' = Answers
           /\ ~Offers(goals[g]) /\ Offers(goals'[g])
                => Answers' = Answers \cup {Offered(goals'[g])}
           /\ ~Offers(goals'[g])
                => \/ Answers' = Answers
                   \/ \E a \in Answers : Answers' = Answers \ {a}
<1>1. \A a : a \in Answers
            <=> \E h \in Goals : Offers(goals[h]) /\ a = Offered(goals[h])
    BY AnswersAre
<1>2. \A a : a \in Answers'
            <=> \E h \in Goals : Offers(goals'[h]) /\ a = Offered(goals'[h])
    BY DEF Answers, Offers, Offered
<1>3. ~Offers(goals[g]) /\ ~Offers(goals'[g]) => Answers' = Answers
    BY <1>1, <1>2
<1>4. ~Offers(goals[g]) /\ Offers(goals'[g])
        => Answers' = Answers \cup {Offered(goals'[g])}
    BY <1>1, <1>2
<1>5. ASSUME ~Offers(goals'[g]), Offers(goals[g])
      PROVE  \/ Answers' = Answers
             \/ \E a \in Answers : Answers' = Answers \ {a}
    <2>1. CASE \E h \in Goals \ {g} : /\ Offers(goals[h])
                                     /\ Offered(goals[h]) = Offered(goals[g])
        <3>1. Answers' = Answers
            BY <1>1, <1>2, <1>5, <2>1
        <3>2. QED
            BY <3>1
    <2>2. CASE ~\E h \in Goals \ {g} : /\ Offers(goals[h])
                                      /\ Offered(goals[h]) = Offered(goals[g])
        <3>1. Answers' = Answers \ {Offered(goals[g])}
            BY <1>1, <1>2, <1>5, <2>2
        <3>2. Offered(goals[g]) \in Answers
            BY <1>1, <1>5
        <3>3. QED
            BY <3>1, <3>2
    <2>3. QED
        BY <2>1, <2>2
<1>6. QED
    BY <1>3, <1>4, <1>5

LedgerStep == [Ledger!Next]_(Ledger!ledgerVars)

\* A step that executes nothing and changes what goal g offers at most by
\* taking it away is one the ledger does not see, or a lost answer.
LEMMA LosesAnAnswer ==
    ASSUME NEW g \in Goals, \A h \in Goals \ {g} : goals'[h] = goals[h],
           ~Offers(goals'[g]), UNCHANGED <<barrier, log>>
    PROVE  LedgerStep
<1>1. \/ Answers' = Answers
      \/ \E a \in Answers : Answers' = Answers \ {a}
    BY AnswersChange
<1>2. QED
    BY <1>1 DEF LedgerStep, Ledger!Next, Ledger!Forget, Ledger!ledgerVars

\* A new generation of the barrier, while no answer comes or goes.
LEMMA Renews ==
    ASSUME Kept, NEW e, NewGeneration(e), Answers' = Answers
    PROVE  LedgerStep
<1>1. /\ barrier \in Barriers
      /\ barrier.generation + 1 \in Generations
      /\ barrier'.generation = barrier.generation + 1
      /\ log' = log
    BY DEF Kept, Safe, ServiceTyped, NewGeneration, Barriers, Generations
<1>2. log[barrier.generation + 1] = <<>>
    BY <1>1 DEF Kept, Logged, Barriers, Generations
<1>3. Ledger!Renew
    BY <1>1, <1>2 DEF Ledger!Renew
<1>4. QED
    BY <1>3 DEF LedgerStep, Ledger!Next

\* A commit executes the next number and answers it.
LEMMA CommitExecutes ==
    ASSUME Kept, NEW g \in Goals, Commit(g), Safe'
    PROVE  LedgerStep
<1> DEFINE d == goals[g].digest
           n == barrier.generation
<1>1. /\ goals[g].id.generation = n
      /\ goals[g].id.sequence = Len(log[n])
      /\ log' = [log EXCEPT ![n] = Append(@, d)]
    BY CommitLogged
<1>2. /\ goals \in [Goals -> StepGoals] /\ d \in Digests
      /\ goals[g].phase = "inferring" /\ barrier'.generation = n
    BY DEF Kept, Safe, ServiceTyped, Complete, Barriers, Commit
<1>3. /\ goals'[g].phase = "done" /\ goals'[g].id = goals[g].id
      /\ goals'[g].reply = OkReply(goals[g].id, d, FALSE)
      /\ \A h \in Goals \ {g} : goals'[h] = goals[h]
    BY <1>2 DEF Commit, Finish, FreeGoal
<1>4. /\ ~Offers(goals[g]) /\ Offers(goals'[g])
      /\ Offered(goals'[g]) = Ledger!Answer(n, Len(log[n]), d)
    BY <1>1, <1>2, <1>3 DEF Offers, Offered, OkReply, Ledger!Answer
<1>5. Answers' = Answers \cup {Ledger!Answer(n, Len(log[n]), d)}
    BY <1>3, <1>4, AnswersChange
<1>6. Ledger!Execute(d)
    BY <1>1, <1>2, <1>5 DEF Ledger!Execute, Ledger!Current
<1>7. QED
    BY <1>2, <1>6 DEF LedgerStep, Ledger!Next

\* An answer from the cache repeats what the log holds under its number.
LEMMA CacheReplays ==
    ASSUME Kept, NEW g \in Goals, goals[g].phase \in {"received", "ready"},
           AnswerFromCache(g)
    PROVE  LedgerStep
<1>1. PICK r \in results : /\ r.id = goals[g].id
                           /\ Finish(g, OkReply(r.id, r.digest, TRUE))
    BY DEF AnswerFromCache
<1> DEFINE n == barrier.generation
           k == r.id.sequence + 1
<1>2. /\ r.id.generation = n /\ k \in 1..Len(log[n]) /\ r.digest = log[n][k]
    BY DEF Kept, Logged
<1>3. goals \in [Goals -> StepGoals] /\ r.id.sequence \in Int
    BY DEF Kept, Safe, ServiceTyped, Entries, Identities
<1>4. /\ goals'[g].phase = "done" /\ goals'[g].id = r.id
      /\ goals'[g].reply = OkReply(r.id, r.digest, TRUE)
      /\ \A h \in Goals \ {g} : goals'[h] = goals[h]
    BY <1>1, <1>3 DEF Finish, FreeGoal
<1>5. k - 1 = r.id.sequence
    BY <1>3
<1>6. /\ ~Offers(goals[g]) /\ Offers(goals'[g])
      /\ Offered(goals'[g]) = Ledger!Answer(n, k - 1, log[n][k])
    BY <1>2, <1>4, <1>5 DEF Offers, Offered, OkReply, Ledger!Answer
<1>7. Answers' = Answers \cup {Ledger!Answer(n, k - 1, log[n][k])}
    BY <1>4, <1>6, AnswersChange
<1>8. Ledger!Replay(k)
    BY <1>2, <1>7 DEF Ledger!Replay, Ledger!Current, AnswerFromCache
<1>9. QED
    BY <1>2, <1>8 DEF LedgerStep, Ledger!Next, Ledger!Current

LEMMA AbortRenews ==
    ASSUME Kept, NEW g \in Goals, NEW status \in Statuses \ {"OK"},
           goals[g].phase \in {"inferring", "failed"},
           AbortGeneration(g, status)
    PROVE  LedgerStep
<1>1. goals \in [Goals -> StepGoals]
    BY DEF Kept, Safe, ServiceTyped
<1>2. /\ goals'[g].reply.status # "OK"
      /\ \A h \in Goals \ {g} : goals'[h] = goals[h]
    BY <1>1 DEF AbortGeneration, Finish, ErrorReply, FreeGoal
<1>3. Answers' = Answers
    BY <1>2, AnswersChange DEF Offers
<1>4. QED
    BY <1>3, Renews DEF AbortGeneration

LEMMA StepGoalMaps ==
    ASSUME Kept, NEW g \in Goals, StepGoal(g), Safe'
    PROVE  LedgerStep
<1> DEFINE verdict == Admission(goals[g].id, goals[g].digest)
<1>1. /\ goals \in [Goals -> StepGoals]
      /\ {"TIMEOUT", "STALE", "CANCELED", "OBSERVATION_MISSING",
          "INTERNAL_ERROR"} \subseteq Statuses \ {"OK"}
    BY DEF Kept, Safe, ServiceTyped, Statuses
<1>2. ASSUME NEW status \in Statuses \ {"OK"}, Refuse(g, status)
      PROVE  LedgerStep
    <2>1. /\ goals'[g].reply.status # "OK"
          /\ \A h \in Goals \ {g} : goals'[h] = goals[h]
        BY <1>1, <1>2 DEF Refuse, Finish, ErrorReply, FreeGoal
    <2>2. QED
        BY <1>2, <2>1, LosesAnAnswer DEF Refuse, Offers
<1>3. ASSUME \/ goals' = [goals EXCEPT ![g].phase = "waiting", ![g].epoch = epoch]
             \/ goals' = [goals EXCEPT ![g].phase = "ready"]
             \/ goals' = [goals EXCEPT ![g].phase = "inferring"]
             \/ goals' = [goals EXCEPT ![g].phase = "failed"],
             UNCHANGED <<barrier, log>>
      PROVE  LedgerStep
    <2>1. /\ goals'[g].phase # "done"
          /\ \A h \in Goals \ {g} : goals'[h] = goals[h]
        BY <1>1, <1>3 DEF StepGoals
    <2>2. QED
        BY <1>3, <2>1, LosesAnAnswer DEF Offers
<1>4. goals[g].phase # "free" =>
        verdict \in (Statuses \ {"OK"}) \cup {"REPLAY", "NEW"}
    BY Verdicts DEF Kept, Safe, ServiceTyped, Complete
<1> HIDE DEF verdict
<1>5. CASE Receive(g)
    BY <1>1, <1>2, <1>3, <1>4, <1>5, CacheReplays DEF Receive, verdict
<1>6. CASE Observe(g)
    BY <1>1, <1>2, <1>3, <1>6 DEF Observe
<1>7. CASE BeginInference(g)
    BY <1>1, <1>2, <1>3, <1>4, <1>7, CacheReplays DEF BeginInference, verdict
<1>8. CASE Commit(g)
    BY <1>8, CommitExecutes
<1>9. CASE Discard(g) \/ AbortAfterError(g)
    BY <1>1, <1>9, AbortRenews DEF Discard, AbortAfterError
<1>10. CASE Raise(g)
    BY <1>3, <1>10 DEF Raise
<1>11. QED
    BY <1>5, <1>6, <1>7, <1>8, <1>9, <1>10 DEF StepGoal

\* A restart resumes a generation at a number its log reached.
LEMMA RestartRecovers ==
    ASSUME Kept, Restart, Known(captured)
    PROVE  LedgerStep
<1> DEFINE n == captured.generation
           k == captured.last + 1
<1>1. /\ n \in 0..barrier.generation /\ k \in 0..Len(log[n])
      /\ barrier'.generation = n
      /\ log' = [m \in Generations |->
                   IF m < n THEN log[m]
                   ELSE IF m = n THEN SubSeq(log[m], 1, k) ELSE <<>>]
    BY RestartLogged
<1>2. \A g \in Goals : goals'[g].phase = "free"
    BY Building DEF Restart
<1>3. Answers' = {}
    BY <1>2 DEF Answers
<1>4. Ledger!Recover
    BY <1>1, <1>3 DEF Ledger!Recover, Generations
<1>5. QED
    BY <1>4 DEF LedgerStep, Ledger!Next

\* Every step of server and client is a step of the ledger or unseen by it.
LEMMA NextMaps ==
    ASSUME MaxRestarts <= 1, Kept, [SessionNext]_vars, Safe'
    PROVE  LedgerStep
<1>1. goals \in [Goals -> StepGoals]
    BY DEF Kept, Safe, ServiceTyped
<1>2. CASE UNCHANGED <<barrier, log, goals>>
    <2>1. Answers' = Answers
        BY <1>2 DEF Answers
    <2>2. QED
        BY <1>2, <2>1 DEF LedgerStep, Ledger!ledgerVars
<1>3. CASE \E c \in calls : ServeInitialize(c)
    <2>1. UNCHANGED <<log, goals>> /\ barrier'.generation = barrier.generation
        BY <1>3 DEF ServeInitialize, OnInitialize, Kept, Logged
    <2>2. Answers' = Answers
        BY <2>1 DEF Answers
    <2>3. QED
        BY <2>1, <2>2 DEF LedgerStep, Ledger!ledgerVars
<1>4. CASE \E c \in calls : ServeReset(c)
    <2>1. PICK c \in calls : ServeReset(c)
        BY <1>4
    <2>2. Answers' = Answers
        BY <2>1 DEF ServeReset, OnReset, Answers
    <2>3. CASE NewGeneration(c.episode)
        BY <2>2, <2>3, Renews
    <2>4. CASE ~NewGeneration(c.episode)
        BY <1>2, <2>1, <2>4 DEF ServeReset, OnReset
    <2>5. QED
        BY <2>3, <2>4
<1>5. CASE \E g \in Goals : StepGoal(g)
    BY <1>5, StepGoalMaps
<1>6. ASSUME NEW g \in Goals, NEW x, x.phase # "done",
             goals' = [goals EXCEPT ![g] = x], UNCHANGED <<barrier, log>>
      PROVE  LedgerStep
    BY <1>1, <1>6, LosesAnAnswer DEF Offers
<1>7. CASE \E g \in Goals : Resend(g) \/ TakeResult(g)
    BY <1>6, <1>7 DEF Resend, TakeResult, Release, FreeGoal
<1>8. CASE \E d \in Digests : SendStep(d)
    BY <1>6, <1>8 DEF SendStep, Submit, FreeGoal
<1>9. CASE \E g \in Goals : CancelArrives(g)
    <2>1. PICK g \in Goals : CancelArrives(g)
        BY <1>9
    <2>2. /\ goals'[g].phase # "done"
          /\ \A h \in Goals \ {g} : goals'[h] = goals[h]
        BY <1>1, <2>1 DEF CancelArrives, Cancel, StepGoals
    <2>3. QED
        BY <2>1, <2>2, LosesAnAnswer DEF CancelArrives, Cancel, Offers
<1>10. CASE Restart
    <2>1. Known(captured)
        BY <1>10 DEF Restart, Kept, Learned
    <2>2. QED
        BY <1>10, <2>1, RestartRecovers
<1>11. QED
    BY <1>2, <1>3, <1>4, <1>5, <1>7, <1>8, <1>9, <1>10 DEF SessionNext,
       StartInitialize, StartReset, CallTimesOut, TakeResponse, ResultTimesOut,
       Resolved, Capture, Verify, vars, serviceVars

LEMMA InitMaps == SessionInit => Ledger!Init
<1> SUFFICES ASSUME SessionInit
             PROVE  Ledger!Init
    OBVIOUS
<1>1. Answers = {}
    BY Building DEF SessionInit, Init, Answers
<1>2. QED
    BY <1>1 DEF SessionInit, Init, Ledger!Init

\* Server and client keep the step ledger, for any number of goals, requests,
\* observations, generations and cache entries, whatever is lost, late,
\* abandoned, repeated or canceled, with at most one restart of the server.
THEOREM KeepsTheLedger ==
    ASSUME MaxRestarts <= 1
    PROVE  SessionSpec => RefinesLedger
<1>1. SessionInit => Kept
    BY KeptInit
<1>2. Kept /\ [SessionNext]_vars => Kept'
    BY KeptStep
<1>3. SessionInit => Ledger!Init
    BY InitMaps
<1>4. Kept /\ Kept' /\ [SessionNext]_vars => [Ledger!Next]_(Ledger!ledgerVars)
    BY NextMaps DEF Kept, LedgerStep
<1>5. QED
    BY <1>1, <1>2, <1>3, <1>4, PTL DEF SessionSpec, RefinesLedger, Ledger!Spec

-----------------------------------------------------------------------------
(* How far client and server can drift.                                      *)

Alive(g) == goals[g].phase \notin {"free", "done"}

\* Above generation n nothing has been executed, or will be, but a first step.
OnlyFirst(n) ==
    /\ \A g \in Goals : Alive(g) /\ goals[g].id.generation > n
                          => goals[g].id.sequence = 0
    /\ barrier.generation > n => barrier.last <= 0

\* The client counts from zero in every generation. Above the one it is in, and
\* above one it is about to go back to, nothing has got beyond its first step.
Counted ==
    /\ client.next = client.last + 1
    /\ OnlyFirst(client.generation)
    /\ client.generation > barrier.generation =>
         client.next = 0 /\ OnlyFirst(barrier.generation)
    /\ \A g \in Goals : Awaited(g) /\ goals[g].phase = "done" =>
         /\ goals[g].reply.generation <= barrier.generation
         /\ goals[g].reply.generation < client.generation
              => client.next = 0 /\ OnlyFirst(goals[g].reply.generation)
    /\ response # None =>
         /\ response.generation <= barrier.generation
         /\ response.generation < client.generation
              => client.next = 0 /\ OnlyFirst(response.generation)

\* A live call is the client's, and only one is under way.
CallsAreLive ==
    /\ \A c \in calls : c.live => client.phase = "call" /\ response = None
    /\ \A c \in calls : c.live /\ c.kind = "reset" => c.expected = client.generation
    /\ \A c, d \in calls : c.live /\ d.live => c = d
    /\ response # None => client.phase = "call"
    /\ response # None /\ response.status = "OK" =>
         /\ barrier.initialized
         /\ response.call.kind = "reset" =>
              response.generation = client.generation + 1
         /\ response.call.kind = "initialize" /\ ~response.again =>
              ~client.initialized

\* Nothing happens before the client is initialized.
FirstThingsFirst ==
    /\ client.initialized => barrier.initialized
    /\ ~client.initialized =>
         /\ client.phase \in {"idle", "call"}
         /\ barrier.last = -1
         /\ client.last = -1
         /\ \A g \in Goals : goals[g].phase = "free"
         /\ saved.episode = None
         /\ captured = None

\* Unless it has gone back, the server does not get beyond the client's next
\* step.
NotBeyond ==
    ~client.rebased =>
        /\ \A g \in Goals : Alive(g) /\ goals[g].id.generation = client.generation
             => goals[g].id.sequence <= client.next
        /\ client.generation = barrier.generation
             => barrier.last <= client.last + 1

\* The session s is not beyond the client's.
Behind(s) ==
    /\ s.generation <= client.generation
    /\ s.generation = client.generation => s.last <= client.last

\* Until a restart is verified, the client is where its file is, or beyond, and
\* the restarted server does no step.
FileIsBehind ==
    /\ restarts = 0 \/ captured # None => Behind(saved)
    /\ restarts = 0 =>
         /\ \A g \in Goals : Awaited(g) /\ goals[g].phase = "done" =>
              goals[g].reply.generation >= client.generation
         /\ response # None => response.generation >= client.generation
    /\ captured # None =>
         /\ client.generation > captured.generation =>
              client.next = 0 /\ client.phase # "step"
         /\ restarts = 0 =>
              /\ client.generation >= captured.generation
              /\ client.generation = captured.generation /\ ~client.rebased
                   => captured.last <= client.last
         /\ restarts = 0 <=> ~restored
         /\ restored =>
              /\ \A g \in Goals : goals[g].phase = "free"
              /\ barrier.generation >= captured.generation
              /\ barrier.generation = captured.generation
                   => barrier.last = captured.last

\* The inductive invariant of the drift.
Tracked ==
    /\ Counted
    /\ CallsAreLive
    /\ FirstThingsFirst
    /\ NotBeyond
    /\ FileIsBehind

\* The numbers in the state.
Numbers ==
    /\ client.generation \in Nat /\ client.next \in Nat
    /\ client.last \in Int /\ client.last >= -1
    /\ barrier.generation \in Nat
    /\ barrier.last \in Int /\ barrier.last >= -1
    /\ \A g \in Goals :
         /\ goals[g].reply.generation \in Nat
         /\ goals[g].phase # "free" =>
              goals[g].id.generation \in Nat /\ goals[g].id.sequence \in Nat
    /\ response # None => response.generation \in Nat
    /\ saved.generation \in Nat /\ saved.last \in Int
    /\ captured # None => captured.generation \in Nat /\ captured.last \in Int
                         /\ captured.last >= -1

LEMMA NumbersAre == Safe => Numbers
<1> SUFFICES ASSUME Safe
             PROVE  Numbers
    OBVIOUS
<1>1. /\ client.generation \in Nat /\ client.next \in Nat
      /\ client.last \in Int /\ client.last >= -1
    BY DEF Safe, ClientTyped, Clients, Generations
<1>2. /\ barrier.generation \in Nat
      /\ barrier.last \in Int /\ barrier.last >= -1
    BY DEF Safe, ServiceTyped, Barriers, Generations
<1>3. ASSUME NEW g \in Goals
      PROVE  /\ goals[g].reply.generation \in Nat
             /\ goals[g].phase # "free" =>
                  goals[g].id.generation \in Nat /\ goals[g].id.sequence \in Nat
    BY DEF Safe, ServiceTyped, StepGoals, Replies, Complete, Identities,
           Generations
<1>4. response # None => response.generation \in Nat
    BY DEF Safe, ClientTyped, Responses, Generations
<1>5. /\ saved.generation \in Nat /\ saved.last \in Int
      /\ captured # None => captured.generation \in Nat /\ captured.last \in Int
                           /\ captured.last >= -1
    BY DEF Safe, ClientTyped, Sessions
<1>6. QED
    BY <1>1, <1>2, <1>3, <1>4, <1>5 DEF Numbers

LEMMA NumbersStay == Safe' => Numbers'
BY NumbersAre, PTL

\* What a step of a goal can do to the barrier and to the goal.
Moves(g) ==
    /\ goals[g].phase \notin {"free", "done"}
    /\ goals'[g].id = goals[g].id
    /\ goals'[g].phase # "free"
    /\ \A h \in Goals \ {g} : goals'[h] = goals[h]
    /\ goals'[g].phase = "done" =>
         goals'[g].reply.generation = barrier'.generation
    /\ barrier.initialized => barrier'.initialized
    /\ \/ barrier' = barrier
       \/ /\ barrier'.generation = barrier.generation + 1
          /\ barrier'.last = -1
       \/ /\ barrier'.generation = barrier.generation
          /\ goals[g].id.generation = barrier.generation
          /\ barrier'.last = goals[g].id.sequence

LEMMA StepGoalMoves ==
    ASSUME Kept, NEW g \in Goals, StepGoal(g), Safe'
    PROVE  Moves(g)
<1> DEFINE verdict == Admission(goals[g].id, goals[g].digest)
<1>1. /\ goals \in [Goals -> StepGoals] /\ barrier \in Barriers
    BY DEF Kept, Safe, ServiceTyped
<1>2. goals[g].phase \notin {"free", "done"}
    BY DEF StepGoal, Receive, Observe, BeginInference, Commit, Discard, Raise,
           AbortAfterError
<1>3. ASSUME NEW status, Refuse(g, status)
      PROVE  Moves(g)
    BY <1>1, <1>2, <1>3 DEF Moves, Refuse, Finish, ErrorReply, FreeGoal
<1>4. CASE AnswerFromCache(g)
    <2>1. PICK r \in results : /\ r.id = goals[g].id
                               /\ Finish(g, OkReply(r.id, r.digest, TRUE))
        BY <1>4 DEF AnswerFromCache
    <2>2. r.id.generation = barrier.generation /\ barrier' = barrier
        BY <1>4 DEF Kept, Logged, AnswerFromCache
    <2>3. QED
        BY <1>1, <1>2, <2>1, <2>2 DEF Moves, Finish, OkReply, FreeGoal
<1>5. CASE Commit(g)
    <2>1. /\ barrier'.generation = barrier.generation
          /\ barrier'.last = goals[g].id.sequence
          /\ barrier'.initialized = barrier.initialized
        BY <1>1, <1>5 DEF Commit, Barriers
    <2>2. goals[g].id.generation = barrier.generation
        BY <1>5, CommitLogged
    <2>3. Finish(g, OkReply(goals[g].id, goals[g].digest, FALSE))
        BY <1>5 DEF Commit
    <2>4. QED
        BY <1>1, <1>2, <2>1, <2>2, <2>3 DEF Moves, Finish, OkReply, FreeGoal
<1>6. ASSUME NEW status, AbortGeneration(g, status)
      PROVE  Moves(g)
    <2>1. /\ barrier'.generation = barrier.generation + 1
          /\ barrier'.last = -1 /\ barrier'.initialized = barrier.initialized
        BY <1>1, <1>6 DEF AbortGeneration, NewGeneration, Barriers
    <2>2. Finish(g, ErrorReply(status, barrier'))
        BY <1>6 DEF AbortGeneration
    <2>3. QED
        BY <1>1, <1>2, <2>1, <2>2 DEF Moves, Finish, ErrorReply, FreeGoal
<1>7. ASSUME \/ goals' = [goals EXCEPT ![g].phase = "waiting", ![g].epoch = epoch]
             \/ goals' = [goals EXCEPT ![g].phase = "ready"]
             \/ goals' = [goals EXCEPT ![g].phase = "inferring"]
             \/ goals' = [goals EXCEPT ![g].phase = "failed"],
             barrier' = barrier
      PROVE  Moves(g)
    BY <1>1, <1>2, <1>7 DEF Moves, StepGoals
<1>8. CASE Receive(g)
    BY <1>3, <1>4, <1>7, <1>8 DEF Receive
<1>9. CASE Observe(g)
    BY <1>3, <1>7, <1>9 DEF Observe
<1>10. CASE BeginInference(g)
    BY <1>3, <1>4, <1>7, <1>10 DEF BeginInference
<1>11. CASE Discard(g) \/ AbortAfterError(g)
    BY <1>6, <1>11 DEF Discard, AbortAfterError
<1>12. CASE Raise(g)
    BY <1>7, <1>12 DEF Raise
<1>13. QED
    BY <1>5, <1>8, <1>9, <1>10, <1>11, <1>12 DEF StepGoal

\* OnlyFirst after a step.
FirstAfter(n) ==
    /\ \A g \in Goals : /\ goals'[g].phase \notin {"free", "done"}
                        /\ goals'[g].id.generation > n
                       => goals'[g].id.sequence = 0
    /\ barrier'.generation > n => barrier'.last <= 0

\* A step of a goal does not get beyond a first step where nothing was to.
LEMMA FirstStays ==
    ASSUME Numbers, NEW g \in Goals, Moves(g), NEW n \in Nat, OnlyFirst(n)
    PROVE  FirstAfter(n)
<1>1. ASSUME NEW h \in Goals, goals'[h].phase \notin {"free", "done"},
             goals'[h].id.generation > n
      PROVE  goals'[h].id.sequence = 0
    BY <1>1 DEF Moves, OnlyFirst, Alive
<1>2. barrier'.generation > n => barrier'.last <= 0
    BY DEF Moves, OnlyFirst, Alive, Numbers
<1>3. QED
    BY <1>1, <1>2 DEF FirstAfter

LEMMA MovesCounted ==
    ASSUME Numbers, Numbers', Tracked, NEW g \in Goals, Moves(g),
           UNCHANGED sessionVars
    PROVE  Counted'
<1>1. Counted /\ UNCHANGED <<client, response>>
    BY DEF Tracked, sessionVars
<1>2. barrier.generation <= barrier'.generation
    BY DEF Moves, Numbers
<1>3. client'.next = client'.last + 1
    BY <1>1 DEF Counted
<1>4. FirstAfter(client'.generation)
    BY <1>1, FirstStays DEF Counted, Numbers
<1>5. client'.generation > barrier'.generation =>
        client'.next = 0 /\ FirstAfter(barrier'.generation)
    <2>1. client.generation > barrier'.generation => client.generation > barrier.generation
        BY <1>2 DEF Numbers
    <2>2. ASSUME client.generation > barrier.generation
          PROVE  client.next = 0 /\ FirstAfter(barrier.generation)
        BY <1>1, <2>2, FirstStays DEF Counted, Numbers
    <2>3. FirstAfter(barrier.generation) => FirstAfter(barrier'.generation)
        BY <1>2 DEF FirstAfter, Numbers
    <2>4. QED
        BY <1>1, <2>1, <2>2, <2>3
<1>6. ASSUME NEW h \in Goals, Awaited(h)', goals'[h].phase = "done"
      PROVE  /\ goals'[h].reply.generation <= barrier'.generation
             /\ goals'[h].reply.generation < client'.generation
                  => client'.next = 0 /\ FirstAfter(goals'[h].reply.generation)
    <2>1. CASE h # g
        <3>1. Awaited(h) /\ goals'[h] = goals[h]
            BY <1>1, <1>6, <2>1 DEF Awaited, Moves
        <3>2. /\ goals[h].reply.generation <= barrier.generation
              /\ goals[h].reply.generation < client.generation
                  => client.next = 0 /\ OnlyFirst(goals[h].reply.generation)
            BY <1>1, <1>6, <3>1 DEF Counted
        <3>3. QED
            BY <1>1, <1>2, <3>1, <3>2, FirstStays DEF Numbers
    <2>2. CASE h = g
        <3>1. goals'[g].reply.generation = barrier'.generation
            BY <1>6, <2>2 DEF Moves
        <3>2. QED
            BY <1>5, <2>2, <3>1 DEF Numbers
    <2>3. QED
        BY <2>1, <2>2
<1>7. ASSUME response' # None
      PROVE  /\ response'.generation <= barrier'.generation
             /\ response'.generation < client'.generation
                  => client'.next = 0 /\ FirstAfter(response'.generation)
    <2>1. /\ response.generation <= barrier.generation
          /\ response.generation < client.generation
               => client.next = 0 /\ OnlyFirst(response.generation)
        BY <1>1, <1>7 DEF Counted
    <2>2. QED
        BY <1>1, <1>2, <1>7, <2>1, FirstStays DEF Numbers
<1>8. QED
    BY <1>3, <1>4, <1>5, <1>6, <1>7 DEF Counted, OnlyFirst, FirstAfter, Alive

LEMMA MovesTracked ==
    ASSUME Numbers, Numbers', Learned, Tracked, NEW g \in Goals, Moves(g),
           UNCHANGED sessionVars
    PROVE  Tracked'
<1>1. UNCHANGED <<client, calls, response, saved, captured, restored, restarts>>
    BY DEF sessionVars
<1>2. Counted'
    BY MovesCounted
<1>3. CallsAreLive'
    BY <1>1 DEF Tracked, CallsAreLive, Moves
<1>4. FirstThingsFirst'
    BY <1>1 DEF Tracked, FirstThingsFirst, Moves
<1>5. NotBeyond'
    <2> SUFFICES ASSUME ~client.rebased
                 PROVE  NotBeyond'
        BY <1>1 DEF NotBeyond
    <2>1. ASSUME NEW h \in Goals, goals'[h].phase \notin {"free", "done"},
                 goals'[h].id.generation = client.generation
          PROVE  goals'[h].id.sequence <= client.next
        BY <2>1 DEF Tracked, NotBeyond, Moves, Alive
    <2>2. ASSUME client.generation = barrier'.generation
          PROVE  barrier'.last <= client.last + 1
        BY <2>2 DEF Tracked, NotBeyond, Counted, Moves, Alive, Numbers
    <2>3. QED
        BY <1>1, <2>1, <2>2 DEF NotBeyond, Alive
<1>6. FileIsBehind'
    <2>1. restarts = 0 \/ captured # None => Behind(saved)'
        BY <1>1 DEF Tracked, FileIsBehind, Behind
    <2>2. ASSUME restarts = 0, NEW h \in Goals, Awaited(h)',
                 goals'[h].phase = "done"
          PROVE  goals'[h].reply.generation >= client.generation
        <3>1. CASE h # g
            BY <1>1, <2>2, <3>1 DEF Tracked, FileIsBehind, Moves, Awaited
        <3>2. CASE h = g
            <4>1. client.generation <= barrier.generation
                BY <2>2 DEF Learned, Known
            <4>2. barrier.generation <= barrier'.generation
                BY DEF Moves, Numbers
            <4>3. goals'[g].reply.generation = barrier'.generation
                BY <2>2, <3>2 DEF Moves
            <4>4. QED
                BY <3>2, <4>1, <4>2, <4>3 DEF Numbers
        <3>3. QED
            BY <3>1, <3>2
    <2>3. QED
        BY <1>1, <2>1, <2>2 DEF Tracked, FileIsBehind, Moves
<1>7. QED
    BY <1>2, <1>3, <1>4, <1>5, <1>6 DEF Tracked

\* What a service call can do to the barrier.
Serves(c, status) ==
    /\ \/ /\ barrier'.generation = barrier.generation
          /\ barrier'.last = barrier.last
       \/ /\ barrier'.generation = barrier.generation + 1
          /\ barrier'.last = -1
    /\ barrier.initialized => barrier'.initialized
    /\ status = "OK" => barrier'.initialized
    /\ status = "OK" /\ c.kind = "reset" => barrier'.generation = c.expected + 1
    /\ calls' = calls \ {c}
    /\ Respond(c, status)
    /\ UNCHANGED <<goals, client, saved, captured, restored, restarts>>

LEMMA ServesTracked ==
    ASSUME Numbers, Numbers', Learned, Tracked, NEW c \in calls, NEW status,
           c.live \in BOOLEAN, Serves(c, status)
    PROVE  Tracked'
<1>1. UNCHANGED <<goals, client, saved, captured, restored, restarts>>
    BY DEF Serves
<1>2. barrier.generation <= barrier'.generation
    BY DEF Serves, Numbers
<1>3. CASE response' = response /\ ~c.live
    <2>1. Counted'
        BY <1>1, <1>2, <1>3 DEF Tracked, Counted, Serves, OnlyFirst, Alive,
                                Awaited, Numbers
    <2>2. CallsAreLive'
        BY <1>1, <1>3 DEF Tracked, CallsAreLive, Serves
    <2>3. FirstThingsFirst'
        BY <1>1 DEF Tracked, FirstThingsFirst, Serves
    <2>4. NotBeyond'
        BY <1>1 DEF Tracked, NotBeyond, Counted, Serves, Alive, Numbers, OnlyFirst
    <2>5. FileIsBehind'
        BY <1>1, <1>3 DEF Tracked, FileIsBehind, Serves, Behind, Awaited, Numbers
    <2>6. QED
        BY <2>1, <2>2, <2>3, <2>4, <2>5 DEF Tracked
<1>4. CASE c.live
    <2>1. /\ response' = [call |-> c, status |-> status,
                          episode |-> barrier'.episode,
                          generation |-> barrier'.generation,
                          last |-> ClampedLast(barrier'.last),
                          again |-> barrier.initialized]
          /\ response' # None => response'.generation = barrier'.generation
        BY <1>4 DEF Serves, Respond
    <2>2. Counted'
        <3>1. client'.next = client'.last + 1
            BY <1>1 DEF Tracked, Counted
        <3>2. OnlyFirst(client.generation)'
            BY <1>1 DEF Tracked, Counted, Serves, OnlyFirst, Alive, Numbers
        <3>3. client'.generation > barrier'.generation =>
                client'.next = 0 /\ OnlyFirst(barrier.generation)'
            BY <1>1, <1>2 DEF Tracked, Counted, OnlyFirst, Alive, Numbers
        <3>4. \A g \in Goals : Awaited(g)' /\ goals'[g].phase = "done" =>
                /\ goals'[g].reply.generation <= barrier'.generation
                /\ goals'[g].reply.generation < client'.generation =>
                     /\ client'.next = 0
                     /\ OnlyFirst(goals[g].reply.generation)'
            BY <1>1, <1>2 DEF Tracked, Counted, Serves, OnlyFirst, Alive,
                              Awaited, Numbers
        <3>5. response' # None =>
                /\ response'.generation <= barrier'.generation
                /\ response'.generation < client'.generation =>
                     client'.next = 0 /\ OnlyFirst(response.generation)'
            BY <2>1, <3>3 DEF OnlyFirst, Numbers
        <3>6. QED
            BY <3>1, <3>2, <3>3, <3>4, <3>5 DEF Counted
    <2>3. CallsAreLive'
        <3>1. \A d \in calls' : ~d.live
            BY <1>4 DEF Tracked, CallsAreLive, Serves
        <3>2. client.phase = "call"
            BY <1>4 DEF Tracked, CallsAreLive
        <3>3. c.kind = "reset" => c.expected = client.generation
            BY <1>4 DEF Tracked, CallsAreLive
        <3>4. response'.status = "OK" =>
                /\ barrier'.initialized
                /\ response'.call.kind = "reset" =>
                     response'.generation = client'.generation + 1
                /\ response'.call.kind = "initialize" /\ ~response'.again =>
                     ~client'.initialized
            BY <1>1, <2>1, <3>3 DEF Tracked, FirstThingsFirst, Serves
        <3>5. QED
            BY <1>1, <3>1, <3>2, <3>4 DEF CallsAreLive
    <2>4. FirstThingsFirst'
        BY <1>1 DEF Tracked, FirstThingsFirst, Serves
    <2>5. NotBeyond'
        BY <1>1 DEF Tracked, NotBeyond, Counted, Serves, Alive, Numbers, OnlyFirst
    <2>6. FileIsBehind'
        <3>1. restarts = 0 => client.generation <= barrier.generation
            BY DEF Learned, Known
        <3>2. restarts = 0 /\ response' # None
                => response'.generation >= client.generation
            BY <1>2, <2>1, <3>1 DEF Numbers
        <3>3. QED
            BY <1>1, <3>2 DEF Tracked, FileIsBehind, Serves, Behind, Awaited,
                              Numbers
    <2>7. QED
        BY <2>2, <2>3, <2>4, <2>5, <2>6 DEF Tracked
<1>5. QED
    BY <1>3, <1>4 DEF Serves, Respond

LEMMA ServeTracked ==
    ASSUME Kept, Numbers, Numbers', Tracked, NEW c \in calls,
           ServeInitialize(c) \/ ServeReset(c)
    PROVE  Tracked'
<1>1. /\ barrier \in Barriers /\ Learned /\ c.live \in BOOLEAN
    BY DEF Kept, Safe, ServiceTyped, ClientTyped, Calls, InitializeCalls,
           ResetCalls
<1>2. CASE ServeInitialize(c)
    <2>1. Serves(c, InitializeStatus(c.episode))
        <3>1. CASE barrier.initialized
            BY <1>2, <3>1 DEF ServeInitialize, OnInitialize, Serves
        <3>2. CASE ~barrier.initialized
            <4>1. barrier.generation = 0 /\ barrier.last = -1
                BY <3>2 DEF Kept, Logged
            <4>2. QED
                BY <1>2, <3>2, <4>1 DEF ServeInitialize, OnInitialize, Serves
        <3>3. QED
            BY <3>1, <3>2
    <2>2. QED
        BY <1>1, <2>1, ServesTracked
<1>3. CASE ServeReset(c)
    <2> DEFINE status == ResetStatus(c.expected, c.through)
    <2>1. Serves(c, status)
        <3>1. CASE status = "OK"
            <4>1. NewGeneration(c.episode) /\ barrier.initialized
                  /\ c.expected = barrier.generation
                BY <1>3, <3>1 DEF ServeReset, OnReset, ResetStatus
            <4>2. /\ barrier'.generation = barrier.generation + 1
                  /\ barrier'.last = -1 /\ barrier'.initialized
                BY <1>1, <4>1 DEF NewGeneration, Barriers
            <4>3. QED
                BY <1>3, <4>1, <4>2 DEF ServeReset, OnReset, Serves
        <3>2. CASE status # "OK"
            BY <1>3, <3>2 DEF ServeReset, OnReset, Serves
        <3>3. QED
            BY <3>1, <3>2
    <2> HIDE DEF status
    <2>2. QED
        BY <1>1, <2>1, ServesTracked
<1>4. QED
    BY <1>2, <1>3

\* The client keeps its count, and waits for no goal it has not waited for.
KeepsCount ==
    /\ client'.initialized = client.initialized
    /\ client'.generation = client.generation
    /\ client'.next = client.next /\ client'.last = client.last
    /\ client'.rebased = client.rebased
    /\ client'.phase = "step" => client.phase = "step" /\ client'.goal = client.goal

\* A step of the client that keeps its count and leaves the server alone.
LEMMA CountKept ==
    ASSUME Numbers, Tracked, KeepsCount,
           UNCHANGED <<barrier, goals>>,
           response' \in {response, None}
    PROVE  Counted' /\ NotBeyond'
<1>1. Counted /\ NotBeyond
    BY DEF Tracked
<1>2. client'.next = client'.last + 1
    BY <1>1 DEF Counted, KeepsCount
<1>3. \A n \in Nat : OnlyFirst(n) => FirstAfter(n)
    BY DEF OnlyFirst, FirstAfter, Alive
<1>4. FirstAfter(client'.generation)
    BY <1>1, <1>3 DEF Counted, KeepsCount, Numbers
<1>5. client'.generation > barrier'.generation =>
        client'.next = 0 /\ FirstAfter(barrier'.generation)
    BY <1>1, <1>3 DEF Counted, KeepsCount, Numbers
<1>6. ASSUME NEW h \in Goals, Awaited(h)', goals'[h].phase = "done"
      PROVE  /\ goals'[h].reply.generation <= barrier'.generation
             /\ goals'[h].reply.generation < client'.generation
                  => client'.next = 0 /\ FirstAfter(goals'[h].reply.generation)
    <2>1. Awaited(h)
        BY <1>6 DEF Awaited, KeepsCount
    <2>2. QED
        BY <1>1, <1>3, <1>6, <2>1 DEF Counted, KeepsCount, Numbers
<1>7. ASSUME response' # None
      PROVE  /\ response'.generation <= barrier'.generation
             /\ response'.generation < client'.generation
                  => client'.next = 0 /\ FirstAfter(response'.generation)
    BY <1>1, <1>3, <1>7 DEF Counted, KeepsCount, Numbers
<1>8. Counted'
    BY <1>2, <1>4, <1>5, <1>6, <1>7 DEF Counted, OnlyFirst, FirstAfter, Alive
<1>9. NotBeyond'
    BY <1>1 DEF NotBeyond, Alive, KeepsCount
<1>10. QED
    BY <1>8, <1>9

\* The same step, and the files do not get beyond the client.
LEMMA FileKept ==
    ASSUME Numbers, Tracked, KeepsCount,
           UNCHANGED <<barrier, goals, restarts>>,
           response' \in {response, None}, UNCHANGED <<captured, restored>>,
           saved' = saved \/ saved' = At(client)
    PROVE  FileIsBehind'
<1>1. FileIsBehind
    BY DEF Tracked
<1>2. restarts' = 0 \/ captured' # None => Behind(saved)'
    <2>1. CASE saved' = saved
        BY <1>1, <2>1 DEF FileIsBehind, Behind, KeepsCount
    <2>2. CASE saved' = At(client)
        <3>1. saved'.generation = client.generation /\ saved'.last = client.last
            BY <2>2 DEF At
        <3>2. QED
            BY <3>1 DEF Behind, KeepsCount, Numbers
    <2>3. QED
        BY <2>1, <2>2
<1>3. \A h \in Goals : Awaited(h)' => Awaited(h)
    BY DEF Awaited, KeepsCount
<1>4. restarts' = 0 =>
         /\ \A g \in Goals : Awaited(g)' /\ goals'[g].phase = "done" =>
              goals'[g].reply.generation >= client'.generation
         /\ response' # None => response'.generation >= client'.generation
    BY <1>1, <1>3 DEF FileIsBehind, KeepsCount
<1>5. captured' # None =>
         /\ client'.generation > captured'.generation =>
              client'.next = 0 /\ client'.phase # "step"
         /\ restarts' = 0 =>
              /\ client'.generation >= captured'.generation
              /\ client'.generation = captured'.generation /\ ~client'.rebased
                   => captured'.last <= client'.last
         /\ restarts' = 0 <=> ~restored'
         /\ restored' =>
              /\ \A g \in Goals : goals'[g].phase = "free"
              /\ barrier'.generation >= captured'.generation
              /\ barrier'.generation = captured'.generation
                   => barrier'.last = captured'.last
    BY <1>1 DEF FileIsBehind, KeepsCount
<1>6. QED
    BY <1>2, <1>4, <1>5 DEF FileIsBehind

LEMMA StartTracked ==
    ASSUME Safe, Numbers, Tracked, NEW e \in Episodes,
           StartInitialize(e) \/ StartReset(e)
    PROVE  Tracked'
<1>1. /\ client \in Clients /\ client.phase = "idle"
      /\ UNCHANGED <<barrier, goals, response, saved, captured, restored,
                     restarts>>
    BY DEF Safe, ClientTyped, StartInitialize, StartReset, Idle, serviceVars
<1>2. KeepsCount /\ client'.phase = "call"
    BY <1>1 DEF KeepsCount, StartInitialize, StartReset, Clients
<1>3. Counted' /\ NotBeyond'
    BY <1>1, <1>2, CountKept
<1>4. FileIsBehind'
    BY <1>1, <1>2, FileKept
<1>5. CallsAreLive'
    <2>1. response = None /\ \A c \in calls : ~c.live
        BY <1>1 DEF Tracked, CallsAreLive
    <2>2. \E c : /\ calls' = calls \cup {c}
                 /\ c.kind = "reset" => c.expected = client.generation
        <3>1. CASE StartInitialize(e)
            <4> DEFINE c == [kind |-> "initialize", episode |-> e, live |-> TRUE]
            <4> WITNESS c
            <4>1. QED
                BY <3>1 DEF StartInitialize
        <3>2. CASE StartReset(e)
            <4> DEFINE c == Reset(e, client.generation, ClampedLast(client.last),
                                  FALSE)
            <4> WITNESS c
            <4>1. c.expected = client.generation
                BY DEF Reset
            <4>2. QED
                BY <3>2, <4>1 DEF StartReset
        <3>3. QED
            BY <3>1, <3>2
    <2>3. QED
        BY <1>1, <1>2, <2>1, <2>2 DEF CallsAreLive, KeepsCount
<1>6. FirstThingsFirst'
    BY <1>1, <1>2 DEF Tracked, FirstThingsFirst, KeepsCount
<1>7. QED
    BY <1>3, <1>4, <1>5, <1>6 DEF Tracked

LEMMA GiveUpTracked ==
    ASSUME Safe, Numbers, Tracked, CallTimesOut \/ ResultTimesOut \/ Resolved
    PROVE  Tracked'
<1>1. /\ client \in Clients
      /\ UNCHANGED <<barrier, goals, captured, restored, restarts>>
      /\ response' \in {response, None}
      /\ saved' = saved \/ saved' = At(client)
    BY DEF Safe, ClientTyped, CallTimesOut, ResultTimesOut, Resolved, serviceVars
<1>2. KeepsCount /\ client'.phase = "idle"
    BY <1>1 DEF KeepsCount, CallTimesOut, ResultTimesOut, Resolved, Clients
<1>3. Counted' /\ NotBeyond'
    BY <1>1, <1>2, CountKept
<1>4. FileIsBehind'
    BY <1>1, <1>2, FileKept
<1>5. CallsAreLive'
    <2>1. CASE CallTimesOut
        <3>1. response' = None /\ \A c \in calls' : ~c.live
            <4>1. \A c \in Calls : ~[c EXCEPT !.live = FALSE].live
                BY DEF Calls, InitializeCalls, ResetCalls
            <4>2. QED
                BY <2>1, <4>1 DEF CallTimesOut, Safe, ClientTyped
        <3>2. QED
            BY <3>1 DEF CallsAreLive
    <2>2. CASE ResultTimesOut \/ Resolved
        <3>1. client.phase # "call" /\ UNCHANGED <<calls, response>>
            BY <2>2 DEF ResultTimesOut, Resolved
        <3>2. response = None /\ \A c \in calls : ~c.live
            BY <3>1 DEF Tracked, CallsAreLive
        <3>3. QED
            BY <3>1, <3>2 DEF CallsAreLive
    <2>3. QED
        BY <2>1, <2>2
<1>6. FirstThingsFirst'
    <2>1. client.initialized => client'.initialized
        BY <1>2 DEF KeepsCount
    <2>2. ~client.initialized => saved' = saved
        BY DEF Tracked, FirstThingsFirst, CallTimesOut, ResultTimesOut, Resolved
    <2>3. QED
        BY <1>1, <1>2, <2>2 DEF Tracked, FirstThingsFirst, KeepsCount
<1>7. QED
    BY <1>3, <1>4, <1>5, <1>6 DEF Tracked

\* initialize and reset take the client to the generation of the answer.
LEMMA AdoptTracked ==
    ASSUME Safe, Numbers, Tracked, TakeResponse, response.status = "OK",
           Adopt(response), UNCHANGED calls
    PROVE  Tracked'
<1>1. /\ response # None /\ response' = None
      /\ UNCHANGED <<barrier, goals, calls, captured, restored, restarts>>
    BY DEF TakeResponse, serviceVars
<1>2. /\ client'.phase = "idle" /\ client'.initialized
      /\ client'.generation = response.generation
      /\ client'.next = 0 /\ client'.last = -1
      /\ saved' = At(client')
    BY DEF Adopt, InitialClient
<1>3. /\ response.call.kind \in {"initialize", "reset"}
      /\ response.again \in BOOLEAN
    BY <1>1 DEF Safe, ClientTyped, Responses, Calls, InitializeCalls, ResetCalls
<1>4. ~client'.rebased => response.call.kind = "reset" \/ ~response.again
    <2>1. (response.call.kind = "initialize" /\ response.again) \in BOOLEAN
        OBVIOUS
    <2>2. client'.rebased = (response.call.kind = "initialize" /\ response.again)
        BY <2>1 DEF Adopt, InitialClient
    <2>3. QED
        BY <1>3, <2>2
<1>5. /\ response.call.kind = "reset" =>
            response.generation = client.generation + 1
      /\ response.call.kind = "initialize" /\ ~response.again =>
            ~client.initialized
      /\ barrier.initialized
    BY <1>1 DEF Tracked, CallsAreLive
<1>6. /\ response.generation <= barrier.generation
      /\ response.generation < client.generation => OnlyFirst(response.generation)
      /\ OnlyFirst(client.generation)
    BY <1>1 DEF Tracked, Counted
<1>7. Counted'
    <2>1. OnlyFirst(response.generation)
        BY <1>1, <1>6 DEF OnlyFirst, Alive, Numbers
    <2>2. OnlyFirst(client.generation)'
        BY <1>1, <1>2, <2>1 DEF OnlyFirst, Alive
    <2>3. QED
        BY <1>1, <1>2, <1>6, <2>2 DEF Counted, Awaited, Numbers
<1>8. CallsAreLive'
    BY <1>1 DEF Tracked, CallsAreLive
<1>9. FirstThingsFirst'
    BY <1>1, <1>2, <1>5 DEF FirstThingsFirst
<1>10. NotBeyond'
    <2>1. CASE client'.rebased
        BY <2>1 DEF NotBeyond
    <2>2. CASE response.call.kind = "reset"
        BY <1>1, <1>2, <1>5, <1>6, <2>2 DEF NotBeyond, OnlyFirst, Alive, Numbers
    <2>3. CASE response.call.kind # "reset" /\ ~client'.rebased
        BY <1>1, <1>2, <1>3, <1>4, <1>5, <2>3
           DEF Tracked, FirstThingsFirst, NotBeyond, Alive
    <2>4. QED
        BY <2>1, <2>2, <2>3
<1>11. FileIsBehind'
    <2>1. Behind(saved)'
        <3>1. saved'.generation = client'.generation /\ saved'.last = client'.last
            BY <1>2 DEF At
        <3>2. QED
            BY <1>1, <1>2, <3>1 DEF Behind, Numbers
    <2>2. ASSUME captured # None, restarts = 0
          PROVE  /\ client'.generation >= captured.generation
                 /\ client'.generation = captured.generation => client'.rebased
        <3>1. /\ response.generation >= client.generation
              /\ client.generation >= captured.generation
            BY <1>1, <2>2 DEF Tracked, FileIsBehind
        <3>2. client.initialized
            BY <2>2 DEF Tracked, FirstThingsFirst
        <3>3. QED
            BY <1>1, <1>2, <1>3, <1>4, <1>5, <2>2, <3>1, <3>2 DEF Numbers
    <2>3. QED
        BY <1>1, <1>2, <2>1, <2>2 DEF Tracked, FileIsBehind, Awaited
<1>12. QED
    BY <1>7, <1>8, <1>9, <1>10, <1>11 DEF Tracked

LEMMA TakeResponseTracked ==
    ASSUME Safe, Numbers, Tracked, TakeResponse
    PROVE  Tracked'
<1>1. /\ client.phase = "call" /\ response # None /\ response' = None
      /\ client \in Clients
      /\ UNCHANGED <<barrier, goals, captured, restored, restarts>>
    BY DEF Safe, ClientTyped, TakeResponse, serviceVars
<1>2. \A c \in calls : ~c.live
    BY <1>1 DEF Tracked, CallsAreLive
<1>3. CASE response.status = "OK" /\ Adopt(response) /\ UNCHANGED calls
    BY <1>3, AdoptTracked
<1>4. ASSUME UNCHANGED saved, KeepsCount, CallsAreLive',
             client'.phase \in {"idle", "call"}
      PROVE  Tracked'
    <2>1. Counted' /\ NotBeyond'
        BY <1>1, <1>4, CountKept
    <2>2. FileIsBehind'
        BY <1>1, <1>4, FileKept
    <2>3. FirstThingsFirst'
        BY <1>1, <1>4 DEF Tracked, FirstThingsFirst, KeepsCount
    <2>4. QED
        BY <1>4, <2>1, <2>2, <2>3 DEF Tracked
<1>5. CASE UNCHANGED <<client, saved>> /\
           calls' = calls \cup {Reset(response.call.episode, client.generation,
                                      response.last, TRUE)}
    <2>1. KeepsCount
        BY <1>5 DEF KeepsCount
    <2>2. Reset(response.call.episode, client.generation, response.last, TRUE).expected
            = client.generation
        BY DEF Reset
    <2>3. CallsAreLive'
        BY <1>1, <1>2, <1>5, <2>2 DEF CallsAreLive
    <2>4. QED
        BY <1>1, <1>4, <1>5, <2>1, <2>3
<1>6. CASE client' = [client EXCEPT !.phase = "idle"] /\ UNCHANGED <<calls, saved>>
    <2>1. KeepsCount /\ client'.phase = "idle"
        BY <1>1, <1>6 DEF KeepsCount, Clients
    <2>2. CallsAreLive'
        BY <1>1, <1>2, <1>6 DEF CallsAreLive
    <2>3. QED
        BY <1>4, <1>6, <2>1, <2>2
<1>7. QED
    BY <1>3, <1>5, <1>6 DEF TakeResponse

\* The client's goal g asks for the step the client is at.
Asks(g) ==
    /\ goals'[g].phase = "received"
    /\ goals'[g].id = RequestIdentity(client)
    /\ \A h \in Goals \ {g} : goals'[h] = goals[h]
    /\ client.initialized /\ client'.initialized
    /\ client'.generation = client.generation
    /\ client'.next = client.next /\ client'.last = client.last
    /\ client'.rebased = client.rebased
    /\ client'.phase = "step" /\ client'.goal = g
    /\ client.phase \in {"idle", "step"}
    /\ captured = None \/ (client.phase = "step" /\ ~restored)
    /\ UNCHANGED <<barrier, calls, response, saved, captured, restored, restarts>>

LEMMA AsksTracked ==
    ASSUME Numbers, Tracked, NEW g \in Goals, Asks(g)
    PROVE  Tracked'
<1>1. response = None /\ response' = None /\ \A c \in calls : ~c.live
    BY DEF Tracked, CallsAreLive, Asks
<1>2. /\ goals'[g].id.generation = client.generation
      /\ goals'[g].id.sequence = client.next
    BY DEF Asks, RequestIdentity
<1>3. \A h \in Goals : Awaited(h)' => h = g /\ goals'[h].phase # "done"
    BY DEF Asks, Awaited
<1>4. Counted'
    <2>1. OnlyFirst(client.generation)'
        BY <1>2 DEF Tracked, Counted, OnlyFirst, Alive, Asks, Numbers
    <2>2. client.generation > barrier.generation => OnlyFirst(barrier.generation)'
        BY <1>2 DEF Tracked, Counted, OnlyFirst, Alive, Asks
    <2>3. QED
        BY <1>1, <1>3, <2>1, <2>2 DEF Tracked, Counted, Asks
<1>5. CallsAreLive'
    BY <1>1 DEF CallsAreLive, Asks
<1>6. FirstThingsFirst'
    BY DEF Tracked, FirstThingsFirst, Asks
<1>7. NotBeyond'
    BY <1>2 DEF Tracked, NotBeyond, Alive, Asks, Numbers
<1>8. FileIsBehind'
    BY <1>1, <1>3 DEF Tracked, FileIsBehind, Behind, Asks
<1>9. QED
    BY <1>4, <1>5, <1>6, <1>7, <1>8 DEF Tracked

LEMMA SendTracked ==
    ASSUME Safe, Numbers, Tracked, NEW d \in Digests, SendStep(d)
    PROVE  Tracked'
<1>1. client \in Clients /\ goals \in [Goals -> StepGoals]
    BY DEF Safe, ServiceTyped, ClientTyped
<1>2. PICK h \in Goals : /\ Submit(h, RequestIdentity(client), d)
                         /\ client' = [client EXCEPT !.phase = "step",
                                          !.goal = h, !.resent = FALSE]
    BY DEF SendStep
<1>3. Asks(h)
    BY <1>1, <1>2 DEF Asks, SendStep, Submit, FreeGoal, Idle, Clients
<1>4. QED
    BY <1>3, AsksTracked

LEMMA ResendTracked ==
    ASSUME Safe, Numbers, Tracked, NEW g \in Goals, Resend(g)
    PROVE  Tracked'
<1>1. client \in Clients /\ goals \in [Goals -> StepGoals]
    BY DEF Safe, ServiceTyped, ClientTyped
<1>2. /\ Awaited(g) /\ goals[g].phase = "done"
      /\ client.initialized /\ goals[g].id = RequestIdentity(client)
    BY DEF Resend, Safe, GoalIsAwaited, Awaited
<1>3. captured # None => ~restored
    BY <1>2 DEF Tracked, FileIsBehind
<1>4. Asks(g)
    BY <1>1, <1>2, <1>3 DEF Asks, Resend, Awaited, FreeGoal, Clients
<1>5. QED
    BY <1>4, AsksTracked

LEMMA CancelTracked ==
    ASSUME Safe, Numbers, Numbers', Learned, Tracked, NEW g \in Goals,
           CancelArrives(g)
    PROVE  Tracked'
<1>1. goals \in [Goals -> StepGoals]
    BY DEF Safe, ServiceTyped
<1>2. Moves(g) /\ UNCHANGED sessionVars
    BY <1>1 DEF CancelArrives, Cancel, Moves, StepGoals
<1>3. QED
    BY <1>2, MovesTracked

\* How the result of g can move the client.
TakenKeeps == client'.generation = client.generation /\ client'.next = client.next
              /\ client'.last = client.last /\ client'.rebased = client.rebased

TakenError(g) ==
    /\ goals[g].reply.generation # client.generation
    /\ client'.generation = goals[g].reply.generation
    /\ client'.next = 0 /\ client'.last = -1
    /\ ~client'.rebased => goals[g].reply.generation > client.generation

TakenAnswer(g) ==
    /\ goals[g].reply.generation = client.generation
    /\ client'.generation = client.generation
    /\ client'.last = client.next /\ client'.next = client.next + 1
    /\ client'.rebased = client.rebased

LEMMA TakeCases ==
    ASSUME Safe, Numbers, NEW g \in Goals, TakeResult(g)
    PROVE  /\ TakenKeeps \/ TakenError(g) \/ TakenAnswer(g)
           /\ client'.phase \in {"idle", "resolve"}
           /\ client.initialized /\ client'.initialized
<1>1. client \in Clients /\ client.initialized
    BY DEF Safe, ClientTyped, GoalIsAwaited, TakeResult, Awaited
<1>2. CASE TakeError(g)
    <2>1. CASE goals[g].reply.generation # client.generation
        <3>1. /\ client'.phase = "idle" /\ client'.initialized
              /\ client'.generation = goals[g].reply.generation
              /\ client'.next = 0 /\ client'.last = -1
              /\ client'.rebased = (goals[g].reply.generation < client.generation)
            BY <1>1, <1>2, <2>1 DEF TakeError, Clients
        <3>2. ~client'.rebased => goals[g].reply.generation > client.generation
            <4>1. (goals[g].reply.generation < client.generation) \in BOOLEAN
                OBVIOUS
            <4>2. ~client'.rebased =>
                    ~(goals[g].reply.generation < client.generation)
                BY <3>1, <4>1
            <4>3. QED
                BY <2>1, <4>2 DEF Numbers
        <3>3. QED
            BY <1>1, <2>1, <3>1, <3>2 DEF TakenError
    <2>2. CASE goals[g].reply.generation = client.generation
        BY <1>1, <1>2, <2>2 DEF TakeError, TakenKeeps, Clients
    <2>3. QED
        BY <2>1, <2>2
<1>3. CASE TakeLate(g)
    BY <1>1, <1>3 DEF TakeLate, TakenKeeps, Clients
<1>4. CASE TakeAnswer(g)
    <2>1. CASE goals[g].reply.replayed
        BY <1>1, <1>4, <2>1 DEF TakeAnswer, TakenKeeps, Clients
    <2>2. CASE ~goals[g].reply.replayed
        <3>1. client' = [client EXCEPT !.phase = "resolve", !.goal = None,
                            !.last = client.next, !.next = @ + 1]
            BY <1>4, <2>2 DEF TakeAnswer
        <3>2. goals[g].reply.generation = client.generation
            BY <1>4 DEF TakeAnswer
        <3>3. QED
            BY <1>1, <3>1, <3>2 DEF TakenAnswer, Clients
    <2>3. QED
        BY <2>1, <2>2
<1>5. QED
    BY <1>2, <1>3, <1>4 DEF TakeResult

LEMMA TakeResultTracked ==
    ASSUME Safe, Numbers, Tracked, NEW g \in Goals, TakeResult(g)
    PROVE  Tracked'
<1>1. /\ Awaited(g) /\ goals[g].phase = "done"
      /\ UNCHANGED <<barrier, calls, response, saved, captured, restored, restarts>>
      /\ \A h \in Goals : goals'[h] = IF h = g THEN FreeGoal ELSE goals[h]
    BY DEF TakeResult, Release, Safe, ServiceTyped
<1>2. /\ TakenKeeps \/ TakenError(g) \/ TakenAnswer(g)
      /\ client'.phase \in {"idle", "resolve"}
      /\ client.initialized /\ client'.initialized
    BY TakeCases
<1>3. client.phase = "step" /\ response = None /\ \A c \in calls : ~c.live
    BY <1>1 DEF Tracked, CallsAreLive, Awaited
<1>4. /\ \A h \in Goals : ~Awaited(h)'
      /\ response' = None
    BY <1>1, <1>2, <1>3 DEF Awaited
<1>5. \A h \in Goals : goals'[h].phase \notin {"free", "done"}
        => Alive(h) /\ goals'[h] = goals[h]
    BY <1>1 DEF Alive, FreeGoal
<1>6. \A n \in Nat : OnlyFirst(n) => FirstAfter(n)
    BY <1>1, <1>5 DEF OnlyFirst, FirstAfter
<1>7. /\ goals[g].reply.generation <= barrier.generation
      /\ goals[g].reply.generation < client.generation
           => OnlyFirst(goals[g].reply.generation)
      /\ OnlyFirst(client.generation)
    BY <1>1 DEF Tracked, Counted
<1>8. OnlyFirst(client'.generation)
    BY <1>2, <1>7 DEF TakenKeeps, TakenError, TakenAnswer, OnlyFirst, Numbers, Alive
<1>9. Counted'
    <2>1. client'.next = client'.last + 1
        BY <1>2 DEF TakenKeeps, TakenError, TakenAnswer, Tracked, Counted, Numbers
    <2>2. FirstAfter(client'.generation)
        BY <1>2, <1>6, <1>8 DEF TakenKeeps, TakenError, TakenAnswer, Numbers
    <2>3. client'.generation > barrier'.generation =>
            client'.next = 0 /\ FirstAfter(barrier'.generation)
        <3>1. CASE TakenKeeps
            BY <1>1, <1>6, <3>1 DEF TakenKeeps, Tracked, Counted, Numbers
        <3>2. CASE TakenError(g) \/ TakenAnswer(g)
            BY <1>1, <1>7, <3>2 DEF TakenError, TakenAnswer, Numbers
        <3>3. QED
            BY <1>2, <3>1, <3>2
    <2>4. QED
        BY <1>4, <2>1, <2>2, <2>3 DEF Counted, OnlyFirst, FirstAfter, Alive
<1>10. CallsAreLive'
    BY <1>1, <1>3, <1>4 DEF CallsAreLive
<1>11. FirstThingsFirst'
    BY <1>1, <1>2 DEF Tracked, FirstThingsFirst
<1>12. NotBeyond'
    <2>1. CASE TakenKeeps
        BY <1>1, <1>5, <2>1 DEF TakenKeeps, Tracked, NotBeyond, Alive
    <2>2. CASE TakenError(g)
        BY <1>1, <1>5, <1>7, <2>2 DEF TakenError, NotBeyond, OnlyFirst, Alive, Numbers
    <2>3. CASE TakenAnswer(g)
        BY <1>1, <1>5, <2>3 DEF TakenAnswer, Tracked, NotBeyond, Counted, Alive,
                                 Numbers
    <2>4. QED
        BY <1>2, <2>1, <2>2, <2>3
<1>13. FileIsBehind'
    <2>1. captured # None => ~restored /\ restarts = 0
        BY <1>1 DEF Tracked, FileIsBehind
    <2>2. restarts = 0 => goals[g].reply.generation >= client.generation
        BY <1>1 DEF Tracked, FileIsBehind
    <2>3. restarts = 0 => Behind(saved)'
        BY <1>1, <1>2, <2>2
           DEF TakenKeeps, TakenError, TakenAnswer, Tracked, FileIsBehind, Behind,
               Counted, Numbers
    <2>4. ASSUME captured # None
          PROVE  /\ client'.generation > captured.generation => client'.next = 0
                 /\ client'.generation >= captured.generation
                 /\ client'.generation = captured.generation /\ ~client'.rebased
                      => captured.last <= client'.last
        <3>1. /\ client.generation = captured.generation
              /\ ~client.rebased => captured.last <= client.last
            BY <1>3, <2>1, <2>4 DEF Tracked, FileIsBehind, Numbers
        <3>2. QED
            BY <1>2, <2>1, <2>2, <2>4, <3>1
               DEF TakenKeeps, TakenError, TakenAnswer, Tracked, Counted, Numbers
    <2>5. QED
        BY <1>1, <1>2, <1>4, <2>1, <2>3, <2>4 DEF FileIsBehind
<1>14. QED
    BY <1>9, <1>10, <1>11, <1>12, <1>13 DEF Tracked

LEMMA CaptureTracked ==
    ASSUME Safe, Numbers, Learned, Tracked, restarts = 0, Capture
    PROVE  Tracked'
<1>1. /\ captured' = saved /\ restored' = FALSE /\ Agrees(saved)
      /\ UNCHANGED <<barrier, goals, client, calls, response, saved, restarts>>
    BY DEF Capture, serviceVars
<1>2. client.initialized
    <2>1. saved.episode \in Episodes
        BY <1>1 DEF Agrees, Safe, ServiceTyped
    <2>2. QED
        BY <2>1 DEF Tracked, FirstThingsFirst
<1>3. Counted' /\ CallsAreLive' /\ NotBeyond'
    BY <1>1 DEF Tracked, Counted, CallsAreLive, NotBeyond, OnlyFirst, Alive,
                Awaited
<1>4. FirstThingsFirst'
    BY <1>1, <1>2 DEF Tracked, FirstThingsFirst
<1>5. FileIsBehind'
    <2>1. client.generation <= saved.generation
        BY <1>1 DEF Agrees, Learned, Known
    <2>2. Behind(saved)
        BY DEF Tracked, FileIsBehind
    <2>3. Behind(saved)'
        BY <1>1, <2>2 DEF Behind
    <2>4. QED
        BY <1>1, <2>1, <2>2, <2>3 DEF Tracked, FileIsBehind, Behind, Awaited,
                                     Numbers
<1>6. QED
    BY <1>3, <1>4, <1>5 DEF Tracked

LEMMA VerifyTracked ==
    ASSUME Tracked, Verify
    PROVE  Tracked'
<1>1. /\ captured' = None
      /\ UNCHANGED <<barrier, goals, client, calls, response, saved, restored,
                     restarts>>
    BY DEF Verify, serviceVars
<1>2. Counted' /\ CallsAreLive' /\ NotBeyond' /\ FirstThingsFirst'
    BY <1>1 DEF Tracked, Counted, CallsAreLive, NotBeyond, OnlyFirst, Alive,
                Awaited, FirstThingsFirst
<1>3. FileIsBehind'
    BY <1>1 DEF Tracked, FileIsBehind, Behind, Awaited
<1>4. QED
    BY <1>2, <1>3 DEF Tracked

LEMMA RestartTracked ==
    ASSUME Numbers, Tracked, restarts = 0, Restart
    PROVE  Tracked'
<1>1. /\ captured # None /\ restored' = TRUE /\ restarts' = 1
      /\ calls' = {} /\ response' = None
      /\ \A g \in Goals : goals'[g].phase = "free"
      /\ barrier'.generation = captured.generation
      /\ barrier'.last = captured.last /\ barrier'.initialized
      /\ UNCHANGED <<client, saved, captured>>
    BY DEF Restart, RestoredBarrier, FreeGoal
<1>2. /\ client.generation >= captured.generation
      /\ client.generation = captured.generation /\ ~client.rebased
           => captured.last <= client.last
      /\ client.generation > captured.generation =>
           client.next = 0 /\ client.phase # "step"
      /\ Behind(saved)
    BY <1>1 DEF Tracked, FileIsBehind
<1>3. client.initialized
    BY <1>1 DEF Tracked, FirstThingsFirst
<1>4. Counted'
    <2>1. OnlyFirst(client.generation)' /\ OnlyFirst(barrier.generation)'
        BY <1>1, <1>2 DEF OnlyFirst, Alive, Numbers
    <2>2. QED
        BY <1>1, <1>2, <2>1 DEF Tracked, Counted
<1>5. CallsAreLive'
    BY <1>1 DEF CallsAreLive
<1>6. FirstThingsFirst'
    BY <1>1, <1>3 DEF FirstThingsFirst
<1>7. NotBeyond'
    BY <1>1, <1>2 DEF NotBeyond, Alive, Numbers
<1>8. FileIsBehind'
    BY <1>1, <1>2 DEF FileIsBehind, Behind, Numbers
<1>9. QED
    BY <1>4, <1>5, <1>6, <1>7, <1>8 DEF Tracked

LEMMA TrackedInit == SessionInit => Tracked
<1> SUFFICES ASSUME SessionInit
             PROVE  Tracked
    OBVIOUS
<1>1. \A g \in Goals : goals[g].phase = "free"
    BY DEF SessionInit, Init, FreeGoal
<1>2. /\ client.phase = "idle" /\ client.generation = 0 /\ client.next = 0
      /\ client.last = -1 /\ ~client.initialized
      /\ barrier.generation = 0 /\ barrier.last = -1
      /\ saved.generation = 0 /\ saved.last = -1 /\ saved.episode = None
      /\ calls = {} /\ response = None /\ captured = None
    BY DEF SessionInit, Init, InitialClient, NoSession
<1>3. QED
    BY <1>1, <1>2 DEF Tracked, Counted, CallsAreLive, FirstThingsFirst, NotBeyond,
                      FileIsBehind, OnlyFirst, Alive, Behind

LEMMA TrackedStep ==
    ASSUME MaxRestarts <= 1
    PROVE  Kept /\ Tracked /\ [SessionNext]_vars => Kept' /\ Tracked'
<1> SUFFICES ASSUME Kept, Tracked, [SessionNext]_vars
             PROVE  Kept' /\ Tracked'
    OBVIOUS
<1>1. Kept'
    BY KeptStep
<1>2. Safe /\ Safe' /\ Learned
    BY <1>1 DEF Kept
<1>3. Numbers
    BY <1>2, NumbersAre
<1>4. Numbers'
    BY <1>2, NumbersStay
<1>5. CASE UNCHANGED vars
    <2>1. UNCHANGED <<barrier, goals, client, calls, response, saved, captured,
                      restored, restarts>>
        BY <1>5 DEF vars, serviceVars, sessionVars
    <2>2. QED
        BY <1>1, <2>1 DEF Tracked, Counted, CallsAreLive, FirstThingsFirst,
                          NotBeyond, FileIsBehind, OnlyFirst, Alive, Behind, Awaited
<1>6. CASE \E e \in Episodes : StartInitialize(e) \/ StartReset(e)
    BY <1>1, <1>2, <1>3, <1>6, StartTracked
<1>7. CASE \E c \in calls : ServeInitialize(c) \/ ServeReset(c)
    BY <1>1, <1>3, <1>4, <1>7, ServeTracked
<1>8. CASE CallTimesOut \/ ResultTimesOut \/ Resolved
    BY <1>1, <1>2, <1>3, <1>8, GiveUpTracked
<1>9. CASE TakeResponse
    BY <1>1, <1>2, <1>3, <1>9, TakeResponseTracked
<1>10. CASE \E d \in Digests : SendStep(d)
    <2>1. PICK d \in Digests : SendStep(d)
        BY <1>10
    <2>2. QED
        BY <1>1, <1>2, <1>3, <2>1, SendTracked
<1>11. CASE \E g \in Goals : CancelArrives(g)
    BY <1>1, <1>2, <1>3, <1>4, <1>11, CancelTracked
<1>12. CASE \E g \in Goals : Resend(g)
    BY <1>1, <1>2, <1>3, <1>12, ResendTracked
<1>13. CASE \E g \in Goals : TakeResult(g)
    BY <1>1, <1>2, <1>3, <1>13, TakeResultTracked
<1>14. CASE \E g \in Goals : StepGoal(g) /\ UNCHANGED sessionVars
    <2>1. PICK g \in Goals : StepGoal(g) /\ UNCHANGED sessionVars
        BY <1>14
    <2>2. Moves(g)
        BY <1>2, <2>1, StepGoalMoves
    <2>3. QED
        BY <1>1, <1>2, <1>3, <1>4, <2>1, <2>2, MovesTracked
<1>15. CASE Capture \/ Restart
    <2>1. restarts = 0
        BY <1>2, <1>15 DEF Capture, Restart, Learned
    <2>2. QED
        BY <1>1, <1>2, <1>3, <1>15, <2>1, CaptureTracked, RestartTracked
<1>16. CASE Verify
    BY <1>1, <1>16, VerifyTracked
<1>17. QED
    BY <1>5, <1>6, <1>7, <1>8, <1>9, <1>10, <1>11, <1>12, <1>13, <1>14, <1>15,
       <1>16 DEF SessionNext

\* A client that shares the server's generation and has not gone back is at most
\* one committed step behind, for every number of overlapping goals, abandoned
\* calls and sequence numbers.
THEOREM DriftIsBounded ==
    ASSUME MaxRestarts <= 1
    PROVE  SessionSpec => []DriftIsReconcilable
<1>1. SessionInit => Kept /\ Tracked
    BY KeptInit, TrackedInit
<1>2. Kept /\ Tracked /\ [SessionNext]_vars => (Kept /\ Tracked)'
    BY TrackedStep
<1>3. Tracked => DriftIsReconcilable
    BY DEF Tracked, NotBeyond, DriftIsReconcilable, InTheSameGeneration
<1>4. QED
    BY <1>1, <1>2, <1>3, PTL DEF SessionSpec

\* What a verified restart takes for committed, the client has committed.
THEOREM RestartStaysBehind ==
    ASSUME MaxRestarts <= 1
    PROVE  SessionSpec => RestartNeverRunsAhead
<1>1. SessionInit => Kept /\ Tracked
    BY KeptInit, TrackedInit
<1>2. Kept /\ Tracked /\ [SessionNext]_vars => (Kept /\ Tracked)'
    BY TrackedStep
<1>3. ASSUME Tracked, Verify
      PROVE  /\ barrier.generation <= client.generation
             /\ InTheSameGeneration => barrier.last <= client.last
    <2>1. /\ saved.generation = barrier.generation /\ saved = captured
          /\ captured # None /\ restored
        BY <1>3 DEF Verify, Agrees
    <2>2. Behind(saved) /\ barrier.last = captured.last
        BY <1>3, <2>1 DEF Tracked, FileIsBehind
    <2>3. QED
        BY <2>1, <2>2 DEF Behind, InTheSameGeneration
<1>4. Tracked /\ [SessionNext]_vars =>
        [Verify => /\ barrier.generation <= client.generation
                   /\ InTheSameGeneration => barrier.last <= client.last]_vars
    BY <1>3
<1>5. QED
    BY <1>1, <1>2, <1>4, PTL DEF SessionSpec, RestartNeverRunsAhead

=============================================================================
