------------------------- MODULE MCMotionGateClient -------------------------
(* Small instances of MotionGateClient. *)
EXTENDS MotionGateClient, FiniteSets

\* States that differ only in what nothing will look at count once: the reset
\* epoch is only compared with the epoch a callback has read, a callback that is
\* behind it is dropped whatever it carries, an acknowledgement nobody waits for
\* is never taken, of the stop requests nobody waits for only the number counts,
\* an acknowledged barrier is compared by its acknowledgement, and whether a goal
\* is an orphan matters as long as there is one.
LiveFields ==
    <<clock,
      [gate EXCEPT !.barrier.asked = IF gate.barrier.acked THEN Zero ELSE @],
      [client EXCEPT !.epoch = 0], op,
      IF cb.epoch = client.epoch THEN [cb EXCEPT !.epoch = 0]
      ELSE [NoCallback EXCEPT !.phase = cb.phase, !.epoch = 1],
      [nav EXCEPT !.orphan = @ /\ nav.goal],
      [wire EXCEPT !.acks = {a \in @ : a.token = op.token},
                   !.requests = <<op.token \in @, Cardinality(@ \ {op.token})>>],
      service>>
=============================================================================
