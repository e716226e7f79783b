------------------------- MODULE MCRecoveryMachine -------------------------
(* Small instances of RecoveryMachine. *)
EXTENDS RecoveryMachine

OnePlan == {[abs |-> "a1", shape |-> "s1"]}

\* Two plans of one shape, for the two places it is followed from, and another.
ThreePlans ==
    OnePlan \cup {[abs |-> "a2", shape |-> "s2"], [abs |-> "a3", shape |-> "s2"]}

\* States that differ only in fields nothing reads before they are overwritten
\* count once.  A terminal machine keeps but never consults its plan memory,
\* counters and flags until begin_episode resets them.  A recovery overwrites
\* the active plan and clears the arrivals before it is over.  Outside a
\* recovery every use of the safety flags follows a tick that sets them.
LiveFields ==
    IF m.state = "terminal_safe_stop"
    THEN <<m.state, m.reason, m.outbox, m.gen, m.lastNow, m.opSeq,
           m.completed, m.retired>>
    ELSE IF m.state \in RecoveryStates
    THEN <<[m EXCEPT !.active = NoPlan, !.arrivals = <<>>]>>
    ELSE <<[m EXCEPT !.safety = NoSafety, !.observedAt = NoTime,
                     !.accepted = NoPlan, !.blamed = NoPlan,
                     !.arrivals = IF m.state = "monitoring" THEN @ ELSE <<>>]>>
=============================================================================
