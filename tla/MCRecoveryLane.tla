--------------------------- MODULE MCRecoveryLane ---------------------------
(* Small instances of RecoveryLane.                                          *)
EXTENDS RecoveryLane, TLC

\* Three commands in the first generation, one after its reset.
OneReset == 0 :> 2 @@ 1 :> 0

Interchangeable == Permutations(Plans)

\* States that differ only in what nothing will look at count once: a thread
\* that has lost its generation, the results and deadlines of recoveries that
\* no node will name again, and the sequence and signature of a supervisor that
\* has stopped the generation.
LiveThread(g) == IF Owner(g) \/ supervisor.gen < g THEN threads[g] ELSE NoThread

LiveRecoveries ==
    {q.id : q \in requests} \cup {LiveThread(g).id : g \in Generations}
    \cup (IF pending = None THEN {} ELSE {pending.id})
    \cup (IF Latch = None THEN {} ELSE {Latch.id})

LiveServed ==
    {s \in served : \/ \E q \in requests : <<q.id, q.op>> = s
                    \/ \E g \in Generations :
                          <<LiveThread(g).id, LiveThread(g).pc>> = s}

LiveSupervisor ==
    IF supervisor.terminal
    THEN [supervisor EXCEPT !.seq = -1, !.plan = None, !.path = FALSE]
    ELSE supervisor

LiveLane ==
    <<client, pending, calls, topic, LiveSupervisor,
      [g \in Generations |-> LiveThread(g)], requests, LiveServed,
      expired \cap LiveRecoveries, expired = {}, adapter, motion, stopping,
      alarms, spins, launches, faults>>
=============================================================================
