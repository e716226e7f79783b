---------------------------- MODULE ModelSession ----------------------------
(* The client node and the restart of the model process composed with the    *)
(* model server. The client's operations run one at a time under             *)
(* operation_lock, but a service call or a step result it has given up on    *)
(* stays alive in the server. The maintenance script captures the session,   *)
(* restarts the model from it and verifies it against the client's summary   *)
(* file.                                                                     *)
EXTENDS ModelService

CONSTANTS Reconcile,    \* allow_reset_barrier_reconcile: the completion_sim policy
          SimTimeOnly,  \* t5_sim_time_only: a missing observation is re-sent once
          MaxRestarts,  \* restarts of the model process
          MaxFaults     \* bound on restarts and on requests the client has
                        \* given up on, together

ASSUME PolicyAssumption == Reconcile \in BOOLEAN /\ SimTimeOnly \in BOOLEAN
ASSUME FaultAssumption == MaxRestarts \in Nat /\ MaxFaults \in Nat

VARIABLES
    client,    \* the client node
    calls,     \* service requests the server has not handled
    response,  \* the response on its way to the client
    saved,     \* the session in the client's summary file
    captured,  \* the session file of the restart under way
    restored,  \* the model process runs from that file
    restarts,  \* restarts so far
    faults     \* restarts and requests given up on so far

sessionVars ==
    <<client, calls, response, saved, captured, restored, restarts, faults>>
vars == <<serviceVars, sessionVars>>

NoSession == [episode |-> None, generation |-> 0, last |-> -1]

\* phase "step" waits for the result of goal, "call" for a service response,
\* "resolve" for the Nav2 resolution of a committed step.
\* rebased (history): the client numbers from zero in a generation that may have
\* steps already: initialize was answered by a service that had been
\* initialized, or an error result took the client back to an older generation.
InitialClient ==
    [phase |-> "idle", initialized |-> FALSE, episode |-> None,
     generation |-> 0, next |-> 0, last |-> -1, goal |-> None,
     resent |-> FALSE, rebased |-> FALSE]

SessionInit ==
    /\ Init
    /\ client = InitialClient
    /\ calls = {}
    /\ response = None
    /\ saved = NoSession
    /\ captured = None
    /\ restored = FALSE
    /\ restarts = 0
    /\ faults = 0

Sessions == [episode : Episodes \cup {None}, generation : 0..MaxGeneration,
             last : -1..MaxSequence]

\* The types of the service's and the client's state; a request identity is
\* complete: a client that was never initialized sends no step.
TypeOK ==
    /\ barrier.initialized \in BOOLEAN
    /\ barrier.episode \in Episodes \cup {None}
    /\ barrier.generation \in 0..MaxGeneration
    /\ barrier.last \in -1..MaxSequence
    /\ lock \in Goals \cup {None}
    /\ uncommitted \subseteq Goals
    /\ \A g \in Goals : /\ goals[g].phase \in Phases
                        /\ goals[g].id \in Identities \cup {None}
                        /\ goals[g].reply.status \in Statuses
    /\ client.generation \in 0..MaxGeneration
    /\ client.next \in 0..(MaxSequence + 1)
    /\ saved \in Sessions
    /\ captured \in Sessions \cup {None}

At(c) == [episode |-> c.episode, generation |-> c.generation, last |-> c.last]

Idle == client.phase = "idle"

Reset(e, expected, through, again) ==
    [kind |-> "reset", episode |-> e, expected |-> expected,
     through |-> through, again |-> again, live |-> TRUE]

\* reset_barrier_sequence_id and the generation are unsigned on the wire.
ClampedLast(n) == IF n < 0 THEN 0 ELSE n

-----------------------------------------------------------------------------
(* Service calls.                                                            *)

StartInitialize(e) ==
    /\ Idle
    /\ calls' = calls \cup {[kind |-> "initialize", episode |-> e, live |-> TRUE]}
    /\ client' = [client EXCEPT !.phase = "call"]
    /\ UNCHANGED <<serviceVars, response, saved, captured, restored, restarts,
                   faults>>

StartReset(e) ==
    /\ Idle
    /\ client.initialized
    /\ calls' = calls \cup {Reset(e, client.generation,
                                  ClampedLast(client.last), FALSE)}
    /\ client' = [client EXCEPT !.phase = "call"]
    /\ UNCHANGED <<serviceVars, response, saved, captured, restored, restarts,
                   faults>>

\* The response carries the identity the barrier has after the call.
Respond(c, status) ==
    response' = IF c.live
                THEN [call |-> c, status |-> status, episode |-> barrier'.episode,
                      generation |-> barrier'.generation,
                      last |-> ClampedLast(barrier'.last),
                      again |-> barrier.initialized]
                ELSE response

ServeInitialize(c) ==
    /\ c.kind = "initialize"
    /\ OnInitialize(c.episode)
    /\ Respond(c, InitializeStatus(c.episode))
    /\ calls' = calls \ {c}
    /\ UNCHANGED <<client, saved, captured, restored, restarts, faults>>

ServeReset(c) ==
    /\ c.kind = "reset"
    /\ OnReset(c.episode, c.expected, c.through)
    /\ Respond(c, ResetStatus(c.expected, c.through))
    /\ calls' = calls \ {c}
    /\ UNCHANGED <<client, saved, captured, restored, restarts, faults>>

\* service_timeout_sec passes: the client gives up, the request does not.
CallTimesOut ==
    /\ client.phase = "call"
    /\ IF \E c \in calls : c.live
       THEN faults < MaxFaults /\ faults' = faults + 1
       ELSE UNCHANGED faults
    /\ calls' = {[c EXCEPT !.live = FALSE] : c \in calls}
    /\ response' = None
    /\ client' = [client EXCEPT !.phase = "idle"]
    /\ UNCHANGED <<serviceVars, saved, captured, restored, restarts>>

\* initialize and reset adopt what the service answered and start at sequence
\* 0; the summary file follows.
Adopt(r) ==
    /\ client' = [InitialClient EXCEPT
                    !.initialized = TRUE, !.episode = r.episode,
                    !.generation = r.generation,
                    !.rebased = r.call.kind = "initialize" /\ r.again]
    /\ saved' = At(client')

\* One bounded repetition of a reset that is one sequence number behind.
MayReconcile(r) ==
    /\ Reconcile
    /\ r.call.kind = "reset"
    /\ ~r.call.again
    /\ r.status = "STALE"
    /\ r.episode = client.episode
    /\ r.generation = client.generation
    /\ r.last = r.call.through + 1

TakeResponse ==
    /\ client.phase = "call"
    /\ response # None
    /\ response' = None
    /\ \/ /\ response.status = "OK"
          /\ Adopt(response)
          /\ UNCHANGED calls
       \/ /\ MayReconcile(response)
          /\ calls' = calls \cup {Reset(response.call.episode, client.generation,
                                        response.last, TRUE)}
          /\ UNCHANGED <<client, saved>>
       \/ /\ response.status # "OK"
          /\ ~MayReconcile(response)
          /\ client' = [client EXCEPT !.phase = "idle"]
          /\ UNCHANGED <<calls, saved>>
    /\ UNCHANGED <<serviceVars, captured, restored, restarts, faults>>

-----------------------------------------------------------------------------
(* step_arrays.                                                              *)

RequestIdentity(c) ==
    [episode |-> c.episode, generation |-> c.generation, sequence |-> c.next]

\* Mutant: the client does not ask whether it was initialized.
SendStepUninitialized(d) ==
    /\ Idle
    /\ captured = None
    /\ client.next <= MaxSequence
    /\ \E g \in Goals :
         /\ Submit(g, RequestIdentity(client), d)
         /\ client' = [client EXCEPT !.phase = "step", !.goal = g,
                                     !.resent = FALSE]
    /\ UNCHANGED <<barrier, results, epoch, lock, uncommitted, log>>
    /\ UNCHANGED <<calls, response, saved, captured, restored, restarts,
                   faults>>

\* The evaluator sends no step until the restart event is cleared.
SendStep(d) ==
    /\ Idle
    /\ captured = None
    /\ client.initialized
    /\ client.next <= MaxSequence
    /\ \E g \in Goals :
         /\ Submit(g, RequestIdentity(client), d)
         /\ client' = [client EXCEPT !.phase = "step", !.goal = g,
                                     !.resent = FALSE]
    /\ UNCHANGED <<barrier, results, epoch, lock, uncommitted, log>>
    /\ UNCHANGED <<calls, response, saved, captured, restored, restarts,
                   faults>>

Awaited(g) == client.phase = "step" /\ client.goal = g

\* The wait for the result ends without one. The cancel it asks for may or may
\* not reach the server.
ResultTimesOut ==
    /\ client.phase = "step"
    /\ client' = [client EXCEPT !.phase = "idle", !.goal = None]
    /\ UNCHANGED <<serviceVars, calls, response, saved, captured,
                   restored, restarts, faults>>

\* A cancel of a goal the client has given up on, or cancel_current.
CancelArrives(g) ==
    /\ Cancel(g)
    /\ UNCHANGED sessionVars

\* An identical goal follows an OBSERVATION_MISSING that echoes this identity.
MissingObservation(g) ==
    /\ SimTimeOnly
    /\ ~client.resent
    /\ goals[g].reply.status = "OBSERVATION_MISSING"
    /\ goals[g].reply.episode = goals[g].id.episode
    /\ goals[g].reply.generation = goals[g].id.generation

Resend(g) ==
    /\ Awaited(g)
    /\ goals[g].phase = "done"
    /\ MissingObservation(g)
    /\ goals' = [goals EXCEPT ![g] = [FreeGoal EXCEPT
                    !.phase = "received", !.id = goals[g].id,
                    !.digest = goals[g].digest]]
    /\ client' = [client EXCEPT !.resent = TRUE]
    /\ UNCHANGED <<barrier, results, epoch, lock, uncommitted, log>>
    /\ UNCHANGED <<calls, response, saved, captured, restored, restarts,
                   faults>>

\* Mutant: every error result rewinds the client.
TakeErrorAndRewind(g) ==
    /\ goals[g].reply.status # "OK"
    /\ ~MissingObservation(g)
    /\ client' = [client EXCEPT !.phase = "idle", !.goal = None,
                     !.generation = goals[g].reply.generation,
                     !.next = 0, !.last = -1, !.rebased = FALSE]

\* An error result: a different generation in it becomes the client's.
TakeError(g) ==
    /\ goals[g].reply.status # "OK"
    /\ ~MissingObservation(g)
    /\ client' = IF goals[g].reply.generation # client.generation
                 THEN [client EXCEPT !.phase = "idle", !.goal = None,
                          !.generation = goals[g].reply.generation,
                          !.next = 0, !.last = -1,
                          !.rebased = goals[g].reply.generation
                                       < client.generation]
                 ELSE [client EXCEPT !.phase = "idle", !.goal = None]

\* An OK result past the local deadline or validity is not used.
TakeLate(g) ==
    /\ goals[g].reply.status = "OK"
    /\ client' = [client EXCEPT !.phase = "idle", !.goal = None]

\* A replayed result becomes a command without advancing the sequence.
TakeAnswer(g) ==
    /\ goals[g].reply.status = "OK"
    /\ goals[g].reply.episode = client.episode
    /\ goals[g].reply.generation = client.generation
    /\ client' = IF goals[g].reply.replayed
                 THEN [client EXCEPT !.phase = "resolve", !.goal = None]
                 ELSE [client EXCEPT !.phase = "resolve", !.goal = None,
                          !.last = client.next, !.next = @ + 1]

TakeResult(g) ==
    /\ Awaited(g)
    /\ Release(g)
    /\ TakeError(g) \/ TakeLate(g) \/ TakeAnswer(g)
    /\ UNCHANGED <<calls, response, saved, captured, restored, restarts,
                   faults>>

\* record_step writes the summary file after a resolved step. A step whose
\* resolution fails is committed and not recorded.
Resolved ==
    /\ client.phase = "resolve"
    /\ client' = [client EXCEPT !.phase = "idle"]
    /\ saved' = At(client) \/ UNCHANGED saved
    /\ UNCHANGED <<serviceVars, calls, response, captured, restored, restarts,
                   faults>>

-----------------------------------------------------------------------------
(* The model process is restarted for maintenance.                           *)

\* The health response cannot tell "none committed" from "sequence 0
\* committed"; the client's file decides.
Agrees(s) ==
    /\ barrier.initialized
    /\ s.episode = barrier.episode
    /\ s.generation = barrier.generation
    /\ ClampedLast(s.last) = ClampedLast(barrier.last)

Capture ==
    /\ captured = None
    /\ restarts < MaxRestarts /\ faults < MaxFaults
    /\ Agrees(saved)
    /\ captured' = saved
    /\ restored' = FALSE
    /\ UNCHANGED <<serviceVars, client, calls, response, saved,
                   restarts, faults>>

\* Mutant: the number in the health response is restored.
RestoredFromHealth ==
    [initialized |-> TRUE, episode |-> captured.episode,
     generation |-> captured.generation, last |-> ClampedLast(captured.last)]

\* GenerationBarrier.restore from the session file
RestoredBarrier ==
    [initialized |-> TRUE, episode |-> captured.episode,
     generation |-> captured.generation, last |-> captured.last]

\* The process dies with its goals, memory, requests and what it has not
\* delivered; the new one restores the barrier from the session file.
Restart ==
    /\ captured # None
    /\ ~restored
    /\ restarts < MaxRestarts /\ faults < MaxFaults
    /\ restored' = TRUE
    /\ restarts' = restarts + 1
    /\ faults' = faults + 1
    /\ barrier' = RestoredBarrier
    /\ results' = {}
    /\ epoch' = 1
    /\ lock' = None
    /\ uncommitted' = {}
    /\ goals' = [g \in Goals |-> FreeGoal]
    /\ log' = [n \in 0..MaxGeneration |->
                 IF n < captured.generation THEN log[n]
                 ELSE IF n = captured.generation
                 THEN SubSeq(log[n], 1, captured.last + 1) ELSE <<>>]
    /\ calls' = {}
    /\ response' = None
    /\ UNCHANGED <<client, saved, captured>>

\* The event is cleared when the restarted service, the client's file and the
\* session file agree.
Verify ==
    /\ restored
    /\ captured # None
    /\ saved = captured
    /\ Agrees(saved)
    /\ captured' = None
    /\ UNCHANGED <<serviceVars, client, calls, response, saved,
                   restored, restarts, faults>>

-----------------------------------------------------------------------------
SessionNext ==
    \/ \E e \in Episodes : StartInitialize(e) \/ StartReset(e)
    \/ \E c \in calls : ServeInitialize(c) \/ ServeReset(c)
    \/ CallTimesOut
    \/ TakeResponse
    \/ \E d \in Digests : SendStep(d)
    \/ ResultTimesOut
    \/ Resolved
    \/ \E g \in Goals : CancelArrives(g) \/ Resend(g) \/ TakeResult(g)
    \/ \E g \in Goals : StepGoal(g) /\ UNCHANGED sessionVars
    \/ Capture
    \/ Restart
    \/ Verify

SessionSpec == SessionInit /\ [][SessionNext]_vars

-----------------------------------------------------------------------------
InTheSameGeneration ==
    /\ barrier.initialized
    /\ client.initialized
    /\ client.episode = barrier.episode
    /\ client.generation = barrier.generation

\* Whatever results are lost, late, replayed or unresolved, a client that shares
\* the server's generation is at most one committed step behind it, which is
\* what the one bounded repetition of a reset can make up for, even during a
\* restart. Outside is a client that numbers from zero in a generation that may
\* have steps (rebased).
DriftIsReconcilable ==
    InTheSameGeneration /\ ~client.rebased => barrier.last <= client.last + 1

\* An OK answer, computed or replayed, belongs to the observation, episode and
\* generation its goal asked about, even when an abandoned goal with the same
\* identity and another observation has been committed in between.
AnswersAreForTheirObservation ==
    \A g \in Goals :
        goals[g].phase = "done" /\ goals[g].reply.status = "OK" =>
            /\ goals[g].reply.digest = goals[g].digest
            /\ goals[g].reply.episode = goals[g].id.episode
            /\ goals[g].reply.generation = goals[g].id.generation

\* The agent's latent state holds an uncommitted step only while its goal is in
\* the model call or still has to run the exception handler that aborts the
\* generation: no canceled, late or failed step stays in the agent.
DiscardedStepsLeaveTheAgent ==
    \A g \in uncommitted : goals[g].phase \in {"inferring", "failed"}

\* The inference lock is held by exactly the goal in the model call, and for as
\* long as it is there its request stays the one the barrier expects next, so
\* a commit needs no third look: no service or goal can move the barrier under
\* it.
AdmissionHolds ==
    /\ lock # None => goals[lock].phase = "inferring"
    /\ \A g \in Goals : goals[g].phase = "inferring" =>
         lock = g /\ Admission(goals[g].id, goals[g].digest) = "NEW"

\* A verified restart never leaves the service ahead of the client: what the
\* restored barrier takes for committed, the client has committed too, although
\* the health response shows "nothing" and "sequence 0" as the same number.
RestartNeverRunsAhead ==
    [][Verify => /\ barrier.generation <= client.generation
                 /\ InTheSameGeneration => barrier.last <= client.last]_vars

\* t5_fault_restart_session_probe.py:182 writes "session_continuity_confirmed"
\* into the receipt of a verified restart: client and service are where they
\* were. Not so when a step was under way: nothing waits for it to end.
VerifiedRestartIsContinuous ==
    [][Verify /\ Idle =>
         InTheSameGeneration /\ client.last = barrier.last]_vars
=============================================================================
