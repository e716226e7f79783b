--------------------------- MODULE MCModelSession ---------------------------
(* Small instances of ModelSession.                                          *)
EXTENDS ModelSession, TLC

\* Goals and observations are interchangeable, episode ids are too.
Interchangeable ==
    Permutations(Goals) \cup Permutations(Digests) \cup Permutations(Episodes)

\* States that differ only in what nothing will look at count once: the result
\* of a goal nobody waits for, the epoch beyond whether it is current, the log
\* of a generation nobody will return to, and the summary file once no restart
\* can read it.
LiveGoal(g) ==
    IF goals[g].phase = "done" /\ ~Awaited(g) THEN FreeGoal
    ELSE IF goals[g].phase = "waiting" /\ goals[g].epoch # epoch
    THEN [goals[g] EXCEPT !.epoch = -1]
    ELSE [goals[g] EXCEPT !.epoch = 0]

LiveLog(n) ==
    IF n = barrier.generation \/ (captured # None /\ n = captured.generation)
    THEN log[n] ELSE <<>>

LiveSession ==
    <<barrier, results, lock, uncommitted, [g \in Goals |-> LiveGoal(g)],
      [n \in 0..MaxGeneration |-> LiveLog(n)], client, calls,
      response, captured, restored, restarts, faults,
      IF faults = MaxFaults /\ captured = None THEN NoSession ELSE saved>>
=============================================================================
