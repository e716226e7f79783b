---------------------------- MODULE ModelService ----------------------------
(* The typed model server: the generation barrier, the idempotency cache and *)
(* the step goals that run concurrently on a reentrant executor and compete  *)
(* with initialize and reset for one inference lock.                         *)
(* A request identity is <episode, generation, sequence>: the client builds  *)
(* request_id from these three. The digest stands for the observation.       *)
(* Clocks and waits are abstracted to their outcomes: a window may have      *)
(* expired at each point where the code looks at it.                         *)
EXTENDS Integers, Sequences, FiniteSets

CONSTANTS Episodes,       \* episode ids
          Digests,        \* observations
          Goals,          \* step goals alive in the action server at a time
          None,           \* no goal, no episode, no digest
          MaxGeneration,  \* bound on reset_generation
          MaxSequence,    \* bound on sequence_id
          CacheSize       \* idempotency_cache_size

ASSUME CacheSizeAssumption == CacheSize \in Nat \ {0}
ASSUME BoundAssumption == MaxGeneration \in Nat /\ MaxSequence \in Nat
ASSUME NoneAssumption == None \notin Goals \cup Episodes \cup Digests

VARIABLES
    barrier,      \* the GenerationBarrier
    results,      \* the IdempotencyCache
    epoch,        \* _observation_epoch
    lock,         \* the goal inside the inference lock, or None
    uncommitted,  \* goals whose step the agent's latent state holds, uncommitted
    goals,        \* the goals of the action server
    log           \* history: the observations committed in each generation

serviceVars ==
    <<barrier, results, epoch, lock, uncommitted, goals, log>>

Identities ==
    [episode : Episodes, generation : 0..MaxGeneration,
     sequence : 0..MaxSequence]

Statuses ==
    {"OK", "INVALID_REQUEST", "STALE", "TIMEOUT", "CANCELED",
     "OBSERVATION_MISSING", "NOT_INITIALIZED", "RESET_MISMATCH",
     "INTERNAL_ERROR"}

\* "received": before the first look at the barrier; "ready": the observation
\* tuple is accepted; "failed": raised out of the inference lock.
Phases == {"free", "received", "waiting", "ready", "inferring", "failed", "done"}

NoReply == [status |-> "OK", episode |-> None, generation |-> 0,
            replayed |-> FALSE, digest |-> None]

FreeGoal == [phase |-> "free", id |-> None, digest |-> None, epoch |-> 0,
             cancel |-> FALSE, reply |-> NoReply]

Init ==
    /\ barrier = [initialized |-> FALSE, episode |-> None, generation |-> 0,
                  last |-> -1]
    /\ results = {}
    /\ epoch = 0
    /\ lock = None
    /\ uncommitted = {}
    /\ goals = [g \in Goals |-> FreeGoal]
    /\ log = [n \in 0..MaxGeneration |-> <<>>]

-----------------------------------------------------------------------------
(* The barrier and the cache.                                                *)

\* validate_current
CurrentStatus(id) ==
    IF ~barrier.initialized THEN "NOT_INITIALIZED"
    ELSE IF id.episode # barrier.episode THEN "STALE"
    ELSE IF id.generation # barrier.generation THEN "RESET_MISMATCH"
    ELSE "OK"

\* Mutant: the digest is not compared.
LookupByIdentity(id, d) ==
    IF \E r \in results : r.id = id THEN "hit" ELSE "miss"

\* IdempotencyCache.get
Lookup(id, d) ==
    IF \E r \in results : r.id = id /\ r.digest = d THEN "hit"
    ELSE IF \E r \in results : r.id = id THEN "collision"
    ELSE "miss"

\* Mutant: a sequence number may be skipped.
AdmissionWithGaps(id, d) ==
    IF CurrentStatus(id) # "OK" THEN CurrentStatus(id)
    ELSE IF Lookup(id, d) = "collision" THEN "INVALID_REQUEST"
    ELSE IF Lookup(id, d) = "hit" THEN "REPLAY"
    ELSE IF id.sequence <= barrier.last THEN "STALE"
    ELSE "NEW"

\* The block both critical sections of a step begin with: the barrier, the
\* cache, the sequence number.
Admission(id, d) ==
    IF CurrentStatus(id) # "OK" THEN CurrentStatus(id)
    ELSE IF Lookup(id, d) = "collision" THEN "INVALID_REQUEST"
    ELSE IF Lookup(id, d) = "hit" THEN "REPLAY"
    ELSE IF id.sequence # barrier.last + 1 THEN "STALE"
    ELSE "NEW"

\* IdempotencyCache.put. Which of the older entries is the least recently used
\* one is left open.
CachePut(entry) ==
    \/ /\ Cardinality(results) < CacheSize
       /\ results' = results \cup {entry}
    \/ /\ Cardinality(results) >= CacheSize
       /\ \E old \in results : results' = (results \ {old}) \cup {entry}

ErrorReply(status, b) ==
    [status |-> status, episode |-> b.episode, generation |-> b.generation,
     replayed |-> FALSE, digest |-> None]

OkReply(id, d, replayed) ==
    [status |-> "OK", episode |-> id.episode, generation |-> id.generation,
     replayed |-> replayed, digest |-> d]

Finish(g, reply) ==
    goals' = [goals EXCEPT ![g] = [FreeGoal EXCEPT
                !.phase = "done", !.id = goals[g].id, !.digest = goals[g].digest,
                !.reply = reply]]

\* _error_result names the barrier's episode and generation, not the request's.
Refuse(g, status) ==
    /\ Finish(g, ErrorReply(status, barrier))
    /\ UNCHANGED <<barrier, results, epoch, uncommitted, log>>

\* A cached payload answers the repeated request.
AnswerFromCache(g) ==
    /\ \E r \in results :
         /\ r.id = goals[g].id
         /\ Finish(g, OkReply(r.id, r.digest, TRUE))
    /\ UNCHANGED <<barrier, results, epoch, uncommitted, log>>

\* agent.reset, the next generation, an empty cache and observation store.
NewGeneration(e) ==
    /\ barrier.generation < MaxGeneration
    /\ barrier' = [barrier EXCEPT !.episode = e, !.generation = @ + 1,
                                  !.last = -1]
    /\ results' = {}
    /\ epoch' = epoch + 1
    /\ uncommitted' = {}
    /\ UNCHANGED log

\* _abort_generation_locked and the error result that follows it.
AbortGeneration(g, status) ==
    /\ NewGeneration(barrier.episode)
    /\ Finish(g, ErrorReply(status, barrier'))

-----------------------------------------------------------------------------
(* Services and goal bookkeeping.                                            *)

InitializeStatus(e) ==
    IF barrier.initialized /\ e # barrier.episode
    THEN "INVALID_REQUEST" ELSE "OK"

\* _on_initialize
OnInitialize(e) ==
    /\ lock = None
    /\ IF barrier.initialized
       THEN UNCHANGED <<barrier, results, epoch, log>>
       ELSE /\ barrier' = [initialized |-> TRUE, episode |-> e,
                           generation |-> 0, last |-> -1]
            /\ results' = {}
            /\ epoch' = epoch + 1
            /\ UNCHANGED log
    /\ UNCHANGED <<lock, uncommitted, goals>>

ResetStatus(expected, through) ==
    IF ~barrier.initialized THEN "NOT_INITIALIZED"
    ELSE IF expected # barrier.generation THEN "RESET_MISMATCH"
    ELSE IF through < barrier.last THEN "STALE"
    ELSE "OK"

\* _on_reset
OnReset(e, expected, through) ==
    /\ lock = None
    /\ IF ResetStatus(expected, through) = "OK"
       THEN NewGeneration(e)
       ELSE UNCHANGED <<barrier, results, epoch, uncommitted, log>>
    /\ UNCHANGED <<lock, goals>>

\* _on_goal: the action server accepts the goal. It takes the place of no goal
\* or of one that is done and whose result nobody will take.
Submit(g, id, d) ==
    /\ goals[g].phase \in {"free", "done"}
    /\ goals' = [goals EXCEPT ![g] = [FreeGoal EXCEPT !.phase = "received",
                                                      !.id = id, !.digest = d]]

\* _on_cancel always accepts; nobody looks at the flag of a goal that raised.
Cancel(g) ==
    /\ goals[g].phase \in {"received", "waiting", "ready", "inferring"}
    /\ ~goals[g].cancel
    /\ goals' = [goals EXCEPT ![g].cancel = TRUE]
    /\ UNCHANGED <<barrier, results, epoch, lock, uncommitted, log>>

-----------------------------------------------------------------------------
(* _execute_step.                                                            *)

\* The request window is checked, then the first critical section.
Receive(g) ==
    /\ goals[g].phase = "received"
    /\ lock = None
    /\ LET verdict == Admission(goals[g].id, goals[g].digest) IN
       \/ Refuse(g, "TIMEOUT")
       \/ /\ verdict = "REPLAY"
          /\ AnswerFromCache(g)
       \/ /\ verdict \notin {"REPLAY", "NEW"}
          /\ Refuse(g, verdict)
       \/ /\ verdict = "NEW"
          /\ goals[g].cancel
          /\ Refuse(g, "CANCELED")
       \/ /\ verdict = "NEW"
          /\ ~goals[g].cancel
          /\ goals' = [goals EXCEPT ![g].phase = "waiting", ![g].epoch = epoch]
          /\ UNCHANGED <<barrier, results, epoch, uncommitted, log>>
    /\ UNCHANGED lock

\* _wait_for_observation up to _mark_observation_tuple_accepted, outside the
\* lock. Whether the tuple arrives in time is open.
Observe(g) ==
    /\ goals[g].phase = "waiting"
    /\ \/ /\ goals[g].epoch # epoch
          /\ Refuse(g, "STALE")
       \/ /\ goals[g].epoch = epoch
          /\ Refuse(g, "OBSERVATION_MISSING")
       \/ /\ goals[g].epoch = epoch
          /\ goals' = [goals EXCEPT ![g].phase = "ready"]
          /\ UNCHANGED <<barrier, results, epoch, uncommitted, log>>
    /\ UNCHANGED lock

\* Mutant: what the first critical section found is taken for granted.
BeginInferenceUnchecked(g) ==
    /\ goals[g].phase = "ready"
    /\ lock = None
    /\ goals' = [goals EXCEPT ![g].phase = "inferring"]
    /\ lock' = g
    /\ uncommitted' = uncommitted \cup {g}
    /\ UNCHANGED <<barrier, results, epoch, log>>

\* The second critical section up to the model call: agent.step mutates the
\* latent state while the goal holds the lock.
BeginInference(g) ==
    /\ goals[g].phase = "ready"
    /\ lock = None
    /\ LET verdict == Admission(goals[g].id, goals[g].digest) IN
       \/ /\ verdict = "REPLAY"
          /\ AnswerFromCache(g)
          /\ UNCHANGED lock
       \/ /\ verdict \notin {"REPLAY", "NEW"}
          /\ Refuse(g, verdict)
          /\ UNCHANGED lock
       \/ /\ verdict = "NEW"
          /\ Refuse(g, "TIMEOUT")
          /\ UNCHANGED lock
       \/ /\ verdict = "NEW"
          /\ goals[g].cancel
          /\ Refuse(g, "CANCELED")
          /\ UNCHANGED lock
       \/ /\ verdict = "NEW"
          /\ ~goals[g].cancel
          /\ goals' = [goals EXCEPT ![g].phase = "inferring"]
          /\ lock' = g
          /\ uncommitted' = uncommitted \cup {g}
          /\ UNCHANGED <<barrier, results, epoch, log>>

\* The result is in time: commit, cache, answer.
Commit(g) ==
    /\ goals[g].phase = "inferring"
    /\ ~goals[g].cancel
    /\ barrier' = [barrier EXCEPT !.last = goals[g].id.sequence]
    /\ CachePut([id |-> goals[g].id, digest |-> goals[g].digest])
    /\ uncommitted' = uncommitted \ {g}
    /\ log' = [log EXCEPT ![barrier.generation] = Append(@, goals[g].digest)]
    /\ Finish(g, OkReply(goals[g].id, goals[g].digest, FALSE))
    /\ lock' = None
    /\ UNCHANGED epoch

\* Mutant: the answer is refused and the generation lives on.
DiscardQuietly(g) ==
    /\ goals[g].phase = "inferring"
    /\ Refuse(g, IF goals[g].cancel THEN "CANCELED" ELSE "TIMEOUT")
    /\ lock' = None

\* The model has moved and the answer may not be used: canceled, late against
\* the deadline, or past its validity.
Discard(g) ==
    /\ goals[g].phase = "inferring"
    /\ IF goals[g].cancel
       THEN AbortGeneration(g, "CANCELED")
       ELSE AbortGeneration(g, "TIMEOUT") \/ AbortGeneration(g, "STALE")
    /\ lock' = None

\* agent.step, or the code after it, raises: the with block releases the lock
\* before the handler runs.
Raise(g) ==
    /\ goals[g].phase = "inferring"
    /\ goals' = [goals EXCEPT ![g].phase = "failed"]
    /\ lock' = None
    /\ UNCHANGED <<barrier, results, epoch, uncommitted, log>>

\* The exception handler takes the lock again and aborts whatever generation is
\* current by then.
AbortAfterError(g) ==
    /\ goals[g].phase = "failed"
    /\ lock = None
    /\ AbortGeneration(g, "INTERNAL_ERROR")
    /\ UNCHANGED lock

StepGoal(g) ==
    \/ Receive(g)
    \/ Observe(g)
    \/ BeginInference(g)
    \/ Commit(g)
    \/ Discard(g)
    \/ Raise(g)
    \/ AbortAfterError(g)

\* The result is taken by the client.
Release(g) ==
    /\ goals[g].phase = "done"
    /\ goals' = [goals EXCEPT ![g] = FreeGoal]
    /\ UNCHANGED <<barrier, results, epoch, lock, uncommitted, log>>

\* The OK answers that lie in the action server.
Answers ==
    {[generation |-> goals[g].reply.generation,
      sequence |-> goals[g].id.sequence,
      digest |-> goals[g].reply.digest] :
        g \in {h \in Goals : goals[h].phase = "done"
                              /\ goals[h].reply.status = "OK"}}

Ledger == INSTANCE StepLedger
    WITH Generations <- 0..MaxGeneration, generation <- barrier.generation,
         answers <- Answers

\* The service keeps the step ledger: whatever goals overlap, are canceled,
\* repeated or evicted from the cache, and whenever the generation moves or the
\* process restarts, a sequence number is executed once per generation and every
\* OK answer is the logged one.
RefinesLedger == Ledger!Spec
=============================================================================
