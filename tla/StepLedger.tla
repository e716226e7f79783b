----------------------------- MODULE StepLedger -----------------------------
(* What the typed step service promises whoever calls it: every generation   *)
(* has one log of executed observations, a sequence number is executed at    *)
(* most once in it, and every OK answer for a sequence number carries the    *)
(* result computed from the observation that the log holds there.            *)
EXTENDS Naturals, Sequences

CONSTANTS Digests, Generations

VARIABLES generation,  \* the generation answers belong to
          log,         \* log[g][n + 1] is what g executed as sequence n
          answers      \* the OK answers that callers have not lost yet

ledgerVars == <<generation, log, answers>>

Answer(g, n, d) == [generation |-> g, sequence |-> n, digest |-> d]

Current == log[generation]

Init ==
    /\ generation = 0
    /\ log = [g \in Generations |-> <<>>]
    /\ answers = {}

\* A new sequence number: executed once, logged and answered.
Execute(d) ==
    /\ log' = [log EXCEPT ![generation] = Append(@, d)]
    /\ answers' = answers \cup {Answer(generation, Len(Current), d)}
    /\ UNCHANGED generation

\* A repeated request: answered from the log, nothing is executed.
Replay(n) ==
    /\ n \in 1..Len(Current)
    /\ answers' = answers \cup {Answer(generation, n - 1, Current[n])}
    /\ UNCHANGED <<generation, log>>

\* An answer is taken or lost.
Forget(a) ==
    /\ answers' = answers \ {a}
    /\ UNCHANGED <<generation, log>>

\* A reset, or a step whose effect on the model had to be thrown away.
Renew ==
    /\ generation' = generation + 1
    /\ log[generation + 1] = <<>>
    /\ UNCHANGED <<log, answers>>

\* A restarted service resumes a generation it was in, at a number it reached
\* there. What came after is gone, and so is every answer.
Recover ==
    /\ generation' \in 0..generation
    /\ \E n \in 0..Len(log[generation']) :
         log' = [g \in Generations |->
                   IF g < generation' THEN log[g]
                   ELSE IF g = generation' THEN SubSeq(log[g], 1, n) ELSE <<>>]
    /\ answers' = {}

Next ==
    \/ \E d \in Digests : Execute(d)
    \/ \E n \in 1..Len(Current) : Replay(n)
    \/ \E a \in answers : Forget(a)
    \/ Renew
    \/ Recover

Spec == Init /\ [][Next]_ledgerVars
=============================================================================
