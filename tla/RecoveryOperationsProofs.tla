---------------------- MODULE RecoveryOperationsProofs ----------------------
(***************************************************************************)
(* Theorems about the operations the recovery machine issues: which of     *)
(* them is outstanding, what the bounded histories still tell about them,  *)
(* how often a recovery moves the robot, and what a handler returns.       *)
(***************************************************************************)
EXTENDS RecoveryMachineProofs, FiniteSetTheorems

-----------------------------------------------------------------------------
(* The inductive invariant.                                                *)

\* op was issued by the current recovery for the action act.
OfRecovery(r, act, op) == op.gen = r.gen /\ op.rec = r.recoveries /\ op.act = act

\* The i-th completion that is remembered is one of the current recovery.
CompletedAt(r, act, i) ==
    i \in DOMAIN r.completed /\ OfRecovery(r, act, r.completed[i].op)

\* Operation numbers and identities in the histories are behind the machine's.
Numbered(r) ==
    /\ \A op \in Known(r) :
          /\ op.seq <= r.opSeq /\ op.gen <= r.gen
          /\ op.gen = r.gen => op.rec <= r.recoveries
    /\ r.pending.op.seq <= r.opSeq
    /\ ~HasPending(r) => r.pending.op = NoOperation
    /\ HasPending(r) => OfRecovery(r, r.pending.action, r.pending.op)

\* The outstanding operation has a number of its own.
PendingIsFresh(r) ==
    HasPending(r) => \A op \in Known(r) : op.seq # r.pending.op.seq

\* A recovery completes one retreat, and one between any two scans.
Ordered(r) ==
    /\ \A i, k : CompletedAt(r, "safe_retreat", i) /\ CompletedAt(r, "safe_retreat", k)
                    => i = k
    /\ \A i, k : CompletedAt(r, "scan", i) /\ CompletedAt(r, "scan", k) /\ i < k
                    => \E j : CompletedAt(r, "safe_retreat", j) /\ i < j /\ j < k

\* A motion that timed out or was rejected has stopped the machine.
Clean(r) ==
    \A act \in MotionActions, op \in Range(r.retired) : ~OfRecovery(r, act, op)

\* What the state tells about the motions that were completed: what the
\* machine waits for in wait_fresh_plan is a request of the current recovery.
Placed(r) ==
    /\ r.state \in RecoveryStates /\ ~r.fallback =>
          \A i : ~CompletedAt(r, "safe_retreat", i)
    /\ r.state = "safe_retreat" => r.fallback /\ \A i : ~CompletedAt(r, "safe_retreat", i)
    /\ r.state \in {"cancel_goal", "clear_local_cache"} =>
          \A i : ~CompletedAt(r, "scan", i)
    /\ r.state = "scan" =>
          \A i : CompletedAt(r, "scan", i) =>
             \E j : CompletedAt(r, "safe_retreat", j) /\ i < j
    /\ r.state = "wait_fresh_plan" => OfRecovery(r, "request_replan", r.awaiting)

\* The parts of the invariant that hold in every state but the stop, whatever
\* the machine is about to do.
Kept(r) == Numbered(r) /\ Ordered(r) /\ Clean(r)

\* The motions of the current recovery that are outstanding or remembered.
Issued(r, act) == {op \in Known(r) \cup {r.pending.op} : OfRecovery(r, act, op)}

\* MotionBudget without the numbers.
Budgeted(r) ==
    /\ \A a, b \in Issued(r, "safe_retreat") : a = b
    /\ \A a, b \in Issued(r, "scan") : a = b \/ Issued(r, "safe_retreat") # {}
    /\ \A a, b, c \in Issued(r, "scan") : a = b \/ b = c \/ a = c

\* The inductive invariant, besides Settled.
Accounted(r) ==
    /\ Numbered(r) /\ PendingIsFresh(r) /\ Ordered(r)
    /\ r.state # "terminal_safe_stop" => Clean(r) /\ Placed(r)
    /\ r.state = "terminal_safe_stop" => Budgeted(r)

-----------------------------------------------------------------------------
(* Bounded histories.                                                      *)

\* What a deque holds once it was appended to: the new entry at its end, before
\* it the old ones, and the oldest one is lost if the deque was full.
LEMMA Pushed ==
    ASSUME NEW S, NEW q \in Seq(S), NEW x \in S, NEW capacity \in Nat \ {0}
    PROVE  LET t == PushBounded(q, x, capacity)
           IN  /\ t \in Seq(S) /\ Len(t) \in Nat \ {0} /\ DOMAIN t = 1..Len(t)
               /\ t[Len(t)] = x
               /\ \E s \in {0, 1} :
                     /\ Len(t) = Len(q) + 1 - s
                     /\ \A i \in 1..(Len(t) - 1) : i + s \in DOMAIN q /\ t[i] = q[i + s]
<1>1. CASE Len(q) < capacity
  <2> DEFINE t == Append(q, x)
  <2>1. /\ t \in Seq(S) /\ Len(t) = Len(q) + 1 /\ t[Len(t)] = x
        /\ \A i \in 1..(Len(t) - 1) : i + 0 \in DOMAIN q /\ t[i] = q[i + 0]
    OBVIOUS
  <2>2. DOMAIN t = 1..Len(t) /\ Len(t) \in Nat \ {0} /\ Len(t) = Len(q) + 1 - 0
    BY <2>1
  <2> HIDE DEF t
  <2> QED
    BY <1>1, <2>1, <2>2 DEF PushBounded, t
<1>2. CASE ~(Len(q) < capacity)
  <2> DEFINE u == Tail(q)
             t == Append(u, x)
  <2>1. q # <<>>
    BY <1>2
  <2>2. /\ u \in Seq(S) /\ Len(u) = Len(q) - 1
        /\ \A i \in 1..Len(u) : i + 1 \in DOMAIN q /\ u[i] = q[i + 1]
    BY <2>1
  <2> HIDE DEF u
  <2>3. /\ t \in Seq(S) /\ Len(t) = Len(u) + 1 /\ t[Len(t)] = x
        /\ \A i \in 1..(Len(t) - 1) : t[i] = u[i]
    BY <2>2
  <2>4. DOMAIN t = 1..Len(t) /\ Len(t) \in Nat \ {0} /\ Len(t) = Len(q) + 1 - 1
    BY <2>2, <2>3
  <2>5. \A i \in 1..(Len(t) - 1) : i + 1 \in DOMAIN q /\ t[i] = q[i + 1]
    BY <2>2, <2>3
  <2> HIDE DEF t
  <2> QED
    BY <1>2, <2>3, <2>4, <2>5 DEF PushBounded, t, u
<1> QED
  BY <1>1, <1>2

\* So it holds the new entry and otherwise only old ones.
LEMMA PushedRange ==
    ASSUME NEW S, NEW q \in Seq(S), NEW x \in S, NEW capacity \in Nat \ {0}
    PROVE  LET t == PushBounded(q, x, capacity)
           IN  x \in Range(t) /\ Range(t) \subseteq Range(q) \cup {x}
<1> DEFINE t == PushBounded(q, x, capacity)
<1>1. /\ t \in Seq(S) /\ Len(t) \in Nat \ {0} /\ DOMAIN t = 1..Len(t)
      /\ t[Len(t)] = x
      /\ \E s \in {0, 1} :
            /\ Len(t) = Len(q) + 1 - s
            /\ \A i \in 1..(Len(t) - 1) : i + s \in DOMAIN q /\ t[i] = q[i + s]
  BY Pushed
<1> HIDE DEF t
<1>2. x \in Range(t)
  BY <1>1 DEF Range
<1>3. \A i \in DOMAIN t : t[i] \in Range(q) \cup {x}
  BY <1>1 DEF Range
<1> QED
  BY <1>2, <1>3 DEF Range, t

\* The histories of a well-typed machine, and what they tell about it.
LEMMA Histories ==
    ASSUME NEW r, MachineType(r)
    PROVE  /\ r.completed \in Seq([op : Operations, success : BOOLEAN])
           /\ r.retired \in Seq(Operations)
           /\ r.pending.op \in Operations /\ Known(r) \subseteq Operations
           /\ r.opSeq \in Nat /\ r.recoveries \in Nat /\ r.gen \in Int
           /\ \A op \in Operations : op.seq \in Nat /\ op.gen \in Int /\ op.rec \in Nat
           /\ \A op : op \in Known(r) <=>
                 \/ op \in Range(r.retired)
                 \/ \E i \in DOMAIN r.completed : op = r.completed[i].op
<1>1. /\ r.completed \in Seq([op : Operations, success : BOOLEAN])
      /\ r.retired \in Seq(Operations)
      /\ r.pending.op \in Operations
      /\ r.opSeq \in Nat /\ r.recoveries \in Nat /\ r.gen \in Int
  BY DEF MachineType, Commands
<1>2. \A op : op \in Known(r) <=>
                 \/ op \in Range(r.retired)
                 \/ \E i \in DOMAIN r.completed : op = r.completed[i].op
  BY DEF Known, CompletedOps, Range
<1>3. \A op \in Range(r.retired) : op \in Operations
  BY <1>1 DEF Range
<1>4. \A i \in DOMAIN r.completed : r.completed[i].op \in Operations
  <2> DEFINE entries == [op : Operations, success : BOOLEAN]
  <2>1. \A e \in entries : e.op \in Operations
    OBVIOUS
  <2>2. r.completed \in Seq(entries)
    BY <1>1
  <2> HIDE DEF entries
  <2> QED
    BY <2>1, <2>2
<1>5. Known(r) \subseteq Operations
  BY <1>2, <1>3, <1>4
<1>6. \A op \in Operations : op.seq \in Nat /\ op.gen \in Int /\ op.rec \in Nat
  BY DEF Operations
<1> QED
  BY <1>1, <1>2, <1>5, <1>6

\* What is remembered depends on these fields alone.
LEMMA SameMemory ==
    ASSUME NEW r, NEW q, q.gen = r.gen, q.recoveries = r.recoveries,
           q.pending = r.pending, q.completed = r.completed, q.retired = r.retired,
           q.opSeq = r.opSeq
    PROVE  /\ Numbered(r) => Numbered(q)
           /\ PendingIsFresh(r) => PendingIsFresh(q)
           /\ Ordered(r) => Ordered(q)
           /\ Clean(r) => Clean(q)
           /\ Budgeted(r) => Budgeted(q)
           /\ HasPending(q) = HasPending(r)
           /\ \A act, i : CompletedAt(q, act, i) = CompletedAt(r, act, i)
<1>1. /\ Known(q) = Known(r) /\ HasPending(q) = HasPending(r)
      /\ \A act, op : OfRecovery(q, act, op) = OfRecovery(r, act, op)
      /\ \A act, i : CompletedAt(q, act, i) = CompletedAt(r, act, i)
  BY DEF Known, CompletedOps, HasPending, OfRecovery, CompletedAt
<1>2. Numbered(r) => Numbered(q)
  BY <1>1 DEF Numbered
<1>3. PendingIsFresh(r) => PendingIsFresh(q)
  BY <1>1 DEF PendingIsFresh
<1>4. Ordered(r) => Ordered(q)
  BY <1>1 DEF Ordered
<1>5. Clean(r) => Clean(q)
  BY <1>1 DEF Clean
<1>6. \A act : Issued(q, act) = Issued(r, act)
  BY <1>1 DEF Issued
<1>7. Budgeted(r) => Budgeted(q)
  BY <1>6 DEF Budgeted
<1> QED
  BY <1>1, <1>2, <1>3, <1>4, <1>5, <1>7

\* The methods that leave these fields alone keep the invariant.
LEMMA SameAccount ==
    ASSUME NEW r, NEW q, Accounted(r),
           q.state = r.state, q.gen = r.gen, q.recoveries = r.recoveries,
           q.pending = r.pending, q.completed = r.completed, q.retired = r.retired,
           q.awaiting = r.awaiting, q.fallback = r.fallback, q.opSeq = r.opSeq
    PROVE  Accounted(q)
<1>1. \A act, op : OfRecovery(q, act, op) = OfRecovery(r, act, op)
  BY DEF OfRecovery
<1>2. \A act, i : CompletedAt(q, act, i) = CompletedAt(r, act, i)
  BY SameMemory
<1>3. Placed(r) => Placed(q)
  BY <1>1, <1>2 DEF Placed
<1> QED
  BY <1>3, SameMemory DEF Accounted

\* A method that only moves the machine to another state keeps the invariant if
\* the new state goes with what was completed.
LEMMA Moved ==
    ASSUME NEW r, NEW q, Kept(r), PendingIsFresh(r),
           q.gen = r.gen, q.recoveries = r.recoveries, q.pending = r.pending,
           q.completed = r.completed, q.retired = r.retired, q.opSeq = r.opSeq,
           q.state # "terminal_safe_stop", Placed(q)
    PROVE  Accounted(q)
BY SameMemory DEF Accounted, Kept

\* _transition in particular.  wait_fresh_plan is not entered that way.
LEMMA TransitionAccount ==
    ASSUME NEW r, MachineType(r), ~HasPending(r), Kept(r),
           NEW s \in States \ {"terminal_safe_stop", "wait_fresh_plan"},
           s \in RecoveryStates /\ ~r.fallback =>
              \A i : ~CompletedAt(r, "safe_retreat", i),
           s = "safe_retreat" =>
              r.fallback /\ \A i : ~CompletedAt(r, "safe_retreat", i),
           s \in {"cancel_goal", "clear_local_cache"} =>
              \A i : ~CompletedAt(r, "scan", i),
           s = "scan" =>
              \A i : CompletedAt(r, "scan", i) =>
                 \E j : CompletedAt(r, "safe_retreat", j) /\ i < j
    PROVE  Accounted(Transition(r, s))
<1> DEFINE q == Transition(r, s)
<1>1. /\ q.state = s /\ q.gen = r.gen /\ q.recoveries = r.recoveries
      /\ q.pending = r.pending /\ q.completed = r.completed /\ q.retired = r.retired
      /\ q.opSeq = r.opSeq /\ q.fallback = r.fallback
  BY Fields DEF Transition, MachineType
<1> HIDE DEF q
<1>2. \A act, i : CompletedAt(q, act, i) = CompletedAt(r, act, i)
  BY <1>1, SameMemory
<1>3. Placed(q)
  BY <1>1, <1>2 DEF Placed
<1>4. PendingIsFresh(r)
  BY DEF PendingIsFresh
<1> QED
  BY <1>1, <1>3, <1>4, Moved DEF q

-----------------------------------------------------------------------------
(* Stopping.                                                               *)

\* A motion of the current recovery is outstanding or was completed.
LEMMA MotionsAre ==
    ASSUME NEW r, MachineType(r), Numbered(r), Clean(r),
           NEW act \in MotionActions, NEW op \in Issued(r, act)
    PROVE  \/ \E i : CompletedAt(r, act, i) /\ op = r.completed[i].op
           \/ HasPending(r) /\ r.pending.action = act /\ op = r.pending.op
<1>1. OfRecovery(r, act, op) /\ (op \in Known(r) \/ op = r.pending.op)
  BY DEF Issued
<1>2. op \in Known(r) => \E i : CompletedAt(r, act, i) /\ op = r.completed[i].op
  BY <1>1, Histories DEF Clean, CompletedAt
<1>3. act # "none" /\ NoOperation.act = "none"
  BY DEF MotionActions, NoOperation
<1>4. ~HasPending(r) => op # r.pending.op
  BY <1>1, <1>3 DEF Numbered, OfRecovery
<1> QED
  BY <1>1, <1>2, <1>4 DEF Numbered, OfRecovery

\* A machine that has not stopped has not exceeded the budget of a recovery.
LEMMA WithinBudget ==
    ASSUME NEW r, MachineType(r), Accounted(r), PendingMatches(r)
    PROVE  Budgeted(r)
<1> SUFFICES ASSUME r.state # "terminal_safe_stop" PROVE Budgeted(r)
  BY DEF Accounted
<1>1. Numbered(r) /\ Ordered(r) /\ Clean(r) /\ Placed(r)
  BY DEF Accounted
<1>2. \A act, i : CompletedAt(r, act, i) => i \in Nat
  BY Histories DEF CompletedAt
<1>3. \A act, i : CompletedAt(r, act, i) => r.completed[i].op \in Issued(r, act)
  BY Histories DEF CompletedAt, Issued
<1>4. \A act \in MotionActions : \A op \in Issued(r, act) :
           \/ \E i : CompletedAt(r, act, i) /\ op = r.completed[i].op
           \/ r.state = act /\ op = r.pending.op
  BY <1>1, MotionsAre DEF PendingMatches
<1>5. "scan" \in MotionActions /\ "safe_retreat" \in MotionActions
  BY DEF MotionActions
<1>6. ASSUME NEW a \in Issued(r, "safe_retreat"), NEW b \in Issued(r, "safe_retreat")
      PROVE  a = b
  BY <1>1, <1>4, <1>5 DEF Ordered, Placed
<1>7. ASSUME NEW a \in Issued(r, "scan"), NEW b \in Issued(r, "scan"), a # b
      PROVE  Issued(r, "safe_retreat") # {}
  <2>1. ASSUME NEW i, CompletedAt(r, "scan", i), r.state = "scan"
        PROVE  Issued(r, "safe_retreat") # {}
    BY <1>1, <1>3, <2>1 DEF Placed
  <2>2. ASSUME NEW i, NEW k, CompletedAt(r, "scan", i), CompletedAt(r, "scan", k), i # k
        PROVE  Issued(r, "safe_retreat") # {}
    <3>1. i < k \/ k < i
      BY <1>2, <2>2
    <3> QED
      BY <1>1, <1>3, <2>2, <3>1 DEF Ordered
  <2> QED
    BY <1>4, <1>5, <1>7, <2>1, <2>2
<1>8. ASSUME NEW a \in Issued(r, "scan"), NEW b \in Issued(r, "scan"),
             NEW c \in Issued(r, "scan"), a # b, b # c, a # c
      PROVE  FALSE
  <2>1. ASSUME NEW i, NEW k, CompletedAt(r, "scan", i), CompletedAt(r, "scan", k), i < k
        PROVE  /\ r.state # "scan"
               /\ \A l : CompletedAt(r, "scan", l) => ~(k < l)
    <3>1. PICK j : CompletedAt(r, "safe_retreat", j) /\ i < j /\ j < k
      BY <1>1, <2>1 DEF Ordered
    <3>2. \A h : CompletedAt(r, "safe_retreat", h) => h = j /\ ~(k < h)
      BY <1>1, <1>2, <2>1, <3>1 DEF Ordered
    <3> QED
      BY <1>1, <2>1, <3>2 DEF Ordered, Placed
  <2>2. ASSUME NEW i, NEW k, CompletedAt(r, "scan", i), CompletedAt(r, "scan", k), i # k
        PROVE  r.state # "scan"
    <3>1. i < k \/ k < i
      BY <1>2, <2>2
    <3> QED
      BY <2>1, <2>2, <3>1
  <2>3. ASSUME NEW i, NEW k, NEW l, CompletedAt(r, "scan", i), CompletedAt(r, "scan", k),
               CompletedAt(r, "scan", l), i # k, k # l, i # l
        PROVE  FALSE
    <3>1. i \in Nat /\ k \in Nat /\ l \in Nat
      BY <1>2, <2>3
    <3>2. \/ i < k /\ k < l
          \/ i < l /\ l < k
          \/ k < i /\ i < l
          \/ k < l /\ l < i
          \/ l < i /\ i < k
          \/ l < k /\ k < i
      BY <2>3, <3>1
    <3> QED
      BY <2>1, <2>3, <3>2
  <2>4. \A op \in Issued(r, "scan") :
           \/ \E i : CompletedAt(r, "scan", i) /\ op = r.completed[i].op
           \/ r.state = "scan" /\ op = r.pending.op
    BY <1>4, <1>5
  <2>5. ASSUME NEW x \in Issued(r, "scan"), NEW y \in Issued(r, "scan"), x # y,
               r.state = "scan", x # r.pending.op, y # r.pending.op
        PROVE  FALSE
    BY <2>2, <2>4, <2>5
  <2>6. CASE r.state = "scan"
    BY <1>8, <2>5, <2>6
  <2>7. CASE r.state # "scan"
    <3>1. PICK i : CompletedAt(r, "scan", i) /\ a = r.completed[i].op
      BY <2>4, <2>7
    <3>2. PICK k : CompletedAt(r, "scan", k) /\ b = r.completed[k].op
      BY <2>4, <2>7
    <3>3. PICK l : CompletedAt(r, "scan", l) /\ c = r.completed[l].op
      BY <2>4, <2>7
    <3> QED
      BY <1>8, <2>3, <3>1, <3>2, <3>3
  <2> QED
    BY <2>6, <2>7
<1> QED
  BY <1>6, <1>7, <1>8 DEF Budgeted

\* Retiring the outstanding command keeps what is known of the motions.
LEMMA RetirePendingAccount ==
    ASSUME NEW r, MachineType(r), Numbered(r)
    PROVE  LET q == RetirePending(r)
           IN  /\ Numbered(q) /\ ~HasPending(q)
               /\ q.completed = r.completed /\ q.gen = r.gen /\ q.recoveries = r.recoveries
               /\ q.state = r.state /\ q.awaiting = r.awaiting /\ q.fallback = r.fallback
               /\ q.opSeq = r.opSeq
               /\ Clean(r) /\ r.pending.action \notin MotionActions => Clean(q)
               /\ Clean(r) => \A act \in MotionActions : Issued(q, act) = Issued(r, act)
<1> DEFINE q == RetirePending(r)
           t == PushBounded(r.retired, r.pending.op, HistoryCapacity)
<1>1. /\ r.completed \in Seq([op : Operations, success : BOOLEAN])
      /\ r.retired \in Seq(Operations) /\ r.pending.op \in Operations
      /\ MachineType(q)
  BY Histories, RetirePendingType
<1>2. r.pending.op \in Range(t) /\ Range(t) \subseteq Range(r.retired) \cup {r.pending.op}
  <2>1. HistoryCapacity \in Nat \ {0}
    BY ConfigAssumption
  <2> QED
    BY <1>1, <2>1, PushedRange
<1> HIDE DEF t
<1>3. /\ q.completed = r.completed /\ q.gen = r.gen /\ q.recoveries = r.recoveries
      /\ q.state = r.state /\ q.awaiting = r.awaiting /\ q.fallback = r.fallback
      /\ q.opSeq = r.opSeq
      /\ HasPending(r) => q.retired = t /\ q.pending = NoCommand
      /\ ~HasPending(r) => q = r
  BY Fields DEF RetirePending, MachineType, t
<1>4. ~HasPending(q) /\ (HasPending(r) => q.pending.op = NoOperation)
  BY <1>3 DEF HasPending, NoCommand
<1> HIDE DEF q
<1>5. CASE ~HasPending(r)
  <2>1. q = r
    BY <1>3, <1>5
  <2>2. /\ Numbered(q)
        /\ Clean(r) => Clean(q)
        /\ \A act \in MotionActions : Issued(q, act) = Issued(r, act)
    BY <2>1
  <2> QED
    BY <1>3, <1>4, <2>2 DEF q
<1>6. CASE HasPending(r)
  <2>1. /\ Range(q.retired) \subseteq Range(r.retired) \cup {r.pending.op}
        /\ r.pending.op \in Range(q.retired)
    BY <1>2, <1>3, <1>6
  <2>2. /\ \A op : op \in Known(q) <=>
                 \/ op \in Range(q.retired)
                 \/ \E i \in DOMAIN r.completed : op = r.completed[i].op
        /\ \A op : op \in Known(r) <=>
                 \/ op \in Range(r.retired)
                 \/ \E i \in DOMAIN r.completed : op = r.completed[i].op
    BY <1>1, <1>3, Histories, SMTT(30)
  <2>3. Known(q) \subseteq Known(r) \cup {r.pending.op} /\ r.pending.op \in Known(q)
    BY <2>1, <2>2
  <2>4. \A act, op : OfRecovery(q, act, op) = OfRecovery(r, act, op)
    BY <1>3 DEF OfRecovery
  <2>5. Numbered(q)
    <3>1. r.opSeq \in Nat /\ NoOperation.seq = 0
      BY Histories DEF NoOperation
    <3>2. OfRecovery(r, r.pending.action, r.pending.op) /\ r.pending.op.seq <= r.opSeq
      BY <1>6 DEF Numbered
    <3>3. /\ r.pending.op.gen <= r.gen /\ r.pending.op.rec <= r.recoveries
      BY <3>2, Histories DEF OfRecovery
    <3>4. \A op \in Known(q) : /\ op.seq <= q.opSeq /\ op.gen <= q.gen
                               /\ op.gen = q.gen => op.rec <= q.recoveries
      BY <1>3, <2>3, <3>2, <3>3 DEF Numbered
    <3>5. q.pending.op.seq <= q.opSeq
      BY <1>3, <1>4, <1>6, <3>1
    <3> QED
      BY <1>4, <1>6, <3>4, <3>5 DEF Numbered
  <2>6. Clean(r) /\ r.pending.action \notin MotionActions => Clean(q)
    <3>1. OfRecovery(r, r.pending.action, r.pending.op)
      BY <1>6 DEF Numbered
    <3> QED
      BY <2>1, <2>4, <3>1 DEF Clean, OfRecovery
  <2>7. ASSUME Clean(r), NEW act \in MotionActions
        PROVE  Issued(q, act) = Issued(r, act)
    <3>1. act # "none" /\ NoOperation.act = "none"
      BY DEF MotionActions, NoOperation
    <3>2. \A op : op \in Issued(q, act) => op \in Issued(r, act)
      BY <1>4, <1>6, <2>3, <2>4, <3>1 DEF Issued, OfRecovery
    <3>3. ASSUME NEW op \in Issued(r, act) PROVE op \in Issued(q, act)
      <4>1. op \in Known(r) => op \in Known(q)
        BY <2>2, <2>7, <3>3 DEF Issued, Clean
      <4> QED
        BY <2>3, <2>4, <3>3, <4>1 DEF Issued
    <3> QED
      BY <3>2, <3>3
  <2> QED
    BY <1>3, <1>4, <2>5, <2>6, <2>7 DEF q
<1> QED
  BY <1>5, <1>6

\* Operations numbered, ordered and completed keep within the budget.
LEMMA CompletedBudget ==
    ASSUME NEW r, MachineType(r), Ordered(r),
           \A act \in MotionActions : \A op \in Issued(r, act) :
              \E i : CompletedAt(r, act, i) /\ op = r.completed[i].op
    PROVE  Budgeted(r)
<1>1. "scan" \in MotionActions /\ "safe_retreat" \in MotionActions
  BY DEF MotionActions
<1>2. \A act, i : CompletedAt(r, act, i) => i \in Nat
  BY Histories DEF CompletedAt
<1>3. \A act, i : CompletedAt(r, act, i) => r.completed[i].op \in Issued(r, act)
  BY Histories DEF CompletedAt, Issued
<1>4. ASSUME NEW a \in Issued(r, "safe_retreat"), NEW b \in Issued(r, "safe_retreat")
      PROVE  a = b
  BY <1>1 DEF Ordered
<1>5. ASSUME NEW i, NEW k, CompletedAt(r, "scan", i), CompletedAt(r, "scan", k), i # k
      PROVE  \E j : CompletedAt(r, "safe_retreat", j) /\ ((i < j /\ j < k) \/ (k < j /\ j < i))
  <2>1. i < k \/ k < i
    BY <1>2, <1>5
  <2> QED
    BY <1>5, <2>1 DEF Ordered
<1>6. ASSUME NEW a \in Issued(r, "scan"), NEW b \in Issued(r, "scan"), a # b
      PROVE  Issued(r, "safe_retreat") # {}
  <2>1. PICK i : CompletedAt(r, "scan", i) /\ a = r.completed[i].op
    BY <1>1
  <2>2. PICK k : CompletedAt(r, "scan", k) /\ b = r.completed[k].op
    BY <1>1
  <2> QED
    BY <1>3, <1>5, <1>6, <2>1, <2>2
<1>7. ASSUME NEW a \in Issued(r, "scan"), NEW b \in Issued(r, "scan"),
             NEW c \in Issued(r, "scan"), a # b, b # c, a # c
      PROVE  FALSE
  <2>1. PICK i : CompletedAt(r, "scan", i) /\ a = r.completed[i].op
    BY <1>1
  <2>2. PICK k : CompletedAt(r, "scan", k) /\ b = r.completed[k].op
    BY <1>1
  <2>3. PICK l : CompletedAt(r, "scan", l) /\ c = r.completed[l].op
    BY <1>1
  <2>4. i # k /\ k # l /\ i # l
    BY <1>7, <2>1, <2>2, <2>3
  <2>5. PICK x : CompletedAt(r, "safe_retreat", x) /\ ((i < x /\ x < k) \/ (k < x /\ x < i))
    BY <1>5, <2>1, <2>2, <2>4
  <2>6. PICK y : CompletedAt(r, "safe_retreat", y) /\ ((l < y /\ y < k) \/ (k < y /\ y < l))
    BY <1>5, <2>2, <2>3, <2>4
  <2>7. PICK z : CompletedAt(r, "safe_retreat", z) /\ ((i < z /\ z < l) \/ (l < z /\ z < i))
    BY <1>5, <2>1, <2>3, <2>4
  <2>8. x = y /\ y = z /\ {i, k, l, x} \subseteq Nat
    BY <1>2, <2>1, <2>2, <2>3, <2>5, <2>6, <2>7 DEF Ordered
  <2> QED
    BY <2>5, <2>6, <2>7, <2>8
<1> QED
  BY <1>4, <1>6, <1>7 DEF Budgeted

\* _enter_terminal keeps what was remembered, and adds its own number.
LEMMA EnterTerminalAccount ==
    ASSUME NEW r, MachineType(r), NEW why,
           r.state = "terminal_safe_stop" => Accounted(r),
           r.state # "terminal_safe_stop" => Kept(r) /\ Budgeted(r)
    PROVE  Accounted(EnterTerminal(r, why))
<1>1. CASE r.state = "terminal_safe_stop"
  BY <1>1 DEF EnterTerminal
<1>2. CASE r.state # "terminal_safe_stop"
  <2> DEFINE p == RetirePending(r)
             q == [p EXCEPT !.state = "terminal_safe_stop", !.reason = why]
             e == EnterTerminal(r, why)
  <2>1. /\ Numbered(p) /\ ~HasPending(p)
        /\ p.completed = r.completed /\ p.gen = r.gen /\ p.recoveries = r.recoveries
        /\ p.opSeq = r.opSeq
        /\ \A act \in MotionActions : Issued(p, act) = Issued(r, act)
    BY <1>2, RetirePendingAccount DEF Kept
  <2>2. MachineType(p)
    BY RetirePendingType
  <2> HIDE DEF p
  <2>3. /\ DOMAIN q = DOMAIN InitialMachine
        /\ q.completed = p.completed /\ q.gen = p.gen /\ q.recoveries = p.recoveries
        /\ q.opSeq = p.opSeq /\ q.pending = p.pending /\ q.retired = p.retired
    BY <2>2, Fields DEF MachineType
  <2>4. e = QueueSafeStop(q)
    BY <1>2 DEF EnterTerminal, p
  <2> HIDE DEF q
  <2>5. /\ e.completed = p.completed /\ e.gen = p.gen /\ e.recoveries = p.recoveries
        /\ e.opSeq = p.opSeq + 1 /\ e.pending = p.pending /\ e.retired = p.retired
    BY <2>3, <2>4, Fields DEF QueueSafeStop
  <2>6. e.state = "terminal_safe_stop"
    BY EnterTerminalType
  <2> HIDE DEF e
  <2>7. /\ Known(e) = Known(p) /\ HasPending(e) = HasPending(p)
        /\ \A act, op : OfRecovery(e, act, op) = OfRecovery(p, act, op)
        /\ \A act, i : CompletedAt(e, act, i) = CompletedAt(r, act, i)
    BY <2>1, <2>5 DEF Known, CompletedOps, HasPending, OfRecovery, CompletedAt
  <2>8. Numbered(e)
    <3>1. /\ \A op \in Known(p) : op.seq \in Nat
          /\ p.pending.op.seq \in Nat /\ p.opSeq \in Nat
      BY <2>2, Histories
    <3>2. /\ \A op \in Known(p) : op.seq <= p.opSeq + 1
          /\ p.pending.op.seq <= p.opSeq + 1
      BY <2>1, <3>1 DEF Numbered
    <3> QED
      BY <2>1, <2>5, <2>7, <3>2 DEF Numbered
  <2>9. Ordered(e)
    BY <1>2, <2>7 DEF Kept, Ordered
  <2>10. Budgeted(e)
    <3>1. \A act \in MotionActions : Issued(e, act) = Issued(r, act)
      BY <2>1, <2>5, <2>7 DEF Issued
    <3>2. Budgeted(r) /\ "scan" \in MotionActions /\ "safe_retreat" \in MotionActions
      BY <1>2 DEF MotionActions
    <3> QED
      BY <3>1, <3>2 DEF Budgeted
  <2> QED
    BY <2>1, <2>6, <2>7, <2>8, <2>9, <2>10 DEF Accounted, PendingIsFresh, e
<1> QED
  BY <1>1, <1>2

\* So stopping keeps the invariant.
LEMMA StopAccount ==
    ASSUME NEW r, MachineType(r), Accounted(r), PendingMatches(r), NEW why
    PROVE  Accounted(EnterTerminal(r, why))
BY WithinBudget, EnterTerminalAccount DEF Accounted, Kept

\* The fallback either retreats, for the first time, or stops.
LEMMA StartRetreatOrStopAccount ==
    ASSUME NEW r, MachineType(r), ~HasPending(r), r.state # "terminal_safe_stop",
           Kept(r), Budgeted(r), NEW why,
           ~r.fallback => \A i : ~CompletedAt(r, "safe_retreat", i)
    PROVE  Accounted(StartRetreatOrStop(r, why))
<1> DEFINE q == [r EXCEPT !.planDeadline = NoTime]
           p == [q EXCEPT !.fallback = TRUE]
<1>1. /\ MachineType(q) /\ q.state = r.state /\ q.pending = r.pending
      /\ q.gen = r.gen /\ q.recoveries = r.recoveries /\ q.completed = r.completed
      /\ q.retired = r.retired /\ q.opSeq = r.opSeq
  BY Fields DEF MachineType
<1> HIDE DEF q
<1>2. /\ MachineType(p) /\ p.pending = r.pending /\ p.fallback
      /\ p.gen = r.gen /\ p.recoveries = r.recoveries /\ p.completed = r.completed
      /\ p.retired = r.retired /\ p.opSeq = r.opSeq
  BY <1>1, Fields DEF MachineType
<1> HIDE DEF p
<1>3. Accounted(EnterTerminal(q, why))
  <2>1. Kept(q) /\ Budgeted(q)
    BY <1>1, SameMemory DEF Kept
  <2> QED
    BY <1>1, <2>1, EnterTerminalAccount
<1>4. ~r.fallback => Accounted(Transition(p, "safe_retreat"))
  <2>1. Kept(p) /\ ~HasPending(p)
    BY <1>2, SameMemory DEF Kept
  <2>2. \A act, i : CompletedAt(p, act, i) = CompletedAt(r, act, i)
    BY <1>2, SameMemory
  <2>3. "safe_retreat" \in States \ {"terminal_safe_stop", "wait_fresh_plan"}
    BY DEF States, RecoveryStates, ActionStates
  <2> QED
    BY <1>2, <2>1, <2>2, <2>3, TransitionAccount
<1> QED
  BY <1>3, <1>4 DEF StartRetreatOrStop, p, q

-----------------------------------------------------------------------------
(* Issuing and completing commands.                                        *)

\* A command is issued under the next number, for the state the machine is in.
LEMMA IssueCommandAccount ==
    ASSUME NEW r, MachineType(r), Accounted(r), ~HasPending(r), r.state \in ActionStates
    PROVE  Accounted(IssueCommand(r, r.state))
<1> DEFINE op == NewOperation(r, r.state)
           c == [action |-> r.state, op |-> op,
                 issued |-> r.lastNow, deadline |-> r.lastNow + ActionTimeout,
                 plan |-> IF r.state = "accept_fresh_plan" THEN r.accepted ELSE NoPlan]
           i == IssueCommand(r, r.state)
<1>1. /\ i.pending = c /\ i.state = r.state /\ i.gen = r.gen /\ i.recoveries = r.recoveries
      /\ i.completed = r.completed /\ i.retired = r.retired /\ i.opSeq = r.opSeq + 1
      /\ i.awaiting = r.awaiting /\ i.fallback = r.fallback
  BY Fields DEF IssueCommand, MachineType
<1>2. c.action = r.state /\ c.op = op
  OBVIOUS
<1>3. op.seq = r.opSeq + 1 /\ OfRecovery(r, r.state, op)
  BY DEF NewOperation, OfRecovery
<1>4. r.state # "terminal_safe_stop" /\ r.state # "none"
  BY DEF ActionStates
<1> HIDE DEF i, c, op
<1>5. /\ Known(i) = Known(r) /\ HasPending(i)
      /\ \A act, o : OfRecovery(i, act, o) = OfRecovery(r, act, o)
      /\ \A act, k : CompletedAt(i, act, k) = CompletedAt(r, act, k)
  BY <1>1, <1>2, <1>4 DEF Known, CompletedOps, HasPending, OfRecovery, CompletedAt
<1>6. /\ \A o \in Known(r) : o.seq <= r.opSeq /\ o.seq \in Nat
      /\ r.opSeq \in Nat
  BY Histories DEF Accounted, Numbered
<1>7. /\ \A o \in Known(r) : o.seq <= r.opSeq + 1 /\ o.seq # r.opSeq + 1
      /\ r.opSeq + 1 <= r.opSeq + 1
  BY <1>6
<1>8. Numbered(i) /\ PendingIsFresh(i)
  BY <1>1, <1>2, <1>3, <1>5, <1>7 DEF Accounted, Numbered, PendingIsFresh
<1>9. Ordered(i)
  BY <1>5 DEF Accounted, Ordered
<1>10. Clean(i)
  BY <1>1, <1>4, <1>5 DEF Accounted, Clean
<1>11. Placed(i)
  BY <1>1, <1>4, <1>5 DEF Accounted, Placed
<1> QED
  BY <1>1, <1>4, <1>8, <1>9, <1>10, <1>11 DEF Accounted, i

\* _issue_current_action keeps the invariant, whichever gate stops it.
LEMMA IssueCurrentActionAccount ==
    ASSUME NEW r, MachineType(r), Accounted(r), ~HasPending(r), r.state \in ActionStates
    PROVE  Accounted(IssueCurrentAction(r))
<1>1. r.state # "terminal_safe_stop" /\ r.state \in RecoveryStates /\ PendingMatches(r)
  BY DEF ActionStates, RecoveryStates, PendingMatches
<1>2. Kept(r) /\ Budgeted(r) /\ Placed(r)
  BY <1>1, WithinBudget DEF Accounted, Kept
<1>3. ~r.fallback => \A i : ~CompletedAt(r, "safe_retreat", i)
  BY <1>1, <1>2 DEF Placed
<1>4. \A why : /\ Accounted(EnterTerminal(r, why))
               /\ Accounted(StartRetreatOrStop(r, why))
  BY <1>1, <1>2, <1>3, EnterTerminalAccount, StartRetreatOrStopAccount
<1> QED
  BY <1>4, IssueCommandAccount DEF IssueCurrentAction, ActionByState

\* _retry_or_fail_action keeps the invariant.  What it is given may be placed only
\* if the command was not a motion: a motion that failed stops the machine.
LEMMA RetryOrFailAccount ==
    ASSUME NEW r, MachineType(r), PendingMatches(r), HasPending(r), NEW why,
           Kept(r), Budgeted(r), r.state \notin MotionActions => Placed(r)
    PROVE  Accounted(RetryOrFail(r, why))
<1> DEFINE q == RetirePending(r)
           b == [q EXCEPT !.notBefore = r.lastNow + RetryBackoff]
<1>1. /\ r.state \in ActionStates /\ r.pending.action = r.state
      /\ r.state \in RecoveryStates /\ r.state # "terminal_safe_stop"
  BY PendingInActionState DEF ActionStates, RecoveryStates
<1>2. /\ MachineType(q) /\ Numbered(q) /\ ~HasPending(q)
      /\ q.completed = r.completed /\ q.gen = r.gen /\ q.recoveries = r.recoveries
      /\ q.state = r.state /\ q.awaiting = r.awaiting /\ q.fallback = r.fallback
      /\ r.pending.action \notin MotionActions => Clean(q)
      /\ \A act \in MotionActions : Issued(q, act) = Issued(r, act)
  BY RetirePendingType, RetirePendingAccount DEF Kept
<1> HIDE DEF q
<1>3. /\ \A act, op : OfRecovery(q, act, op) = OfRecovery(r, act, op)
      /\ \A act, i : CompletedAt(q, act, i) = CompletedAt(r, act, i)
  BY <1>2 DEF OfRecovery, CompletedAt
<1>4. Ordered(q) /\ PendingIsFresh(q)
  BY <1>2, <1>3 DEF Kept, Ordered, PendingIsFresh
<1>5. Budgeted(q)
  <2>1. "scan" \in MotionActions /\ "safe_retreat" \in MotionActions
    BY DEF MotionActions
  <2> QED
    BY <1>2, <2>1 DEF Budgeted
<1>6. CASE r.state \in MotionActions
  <2>1. RetryOrFail(r, why) = EnterTerminal(q, "motion_retry_forbidden")
    BY <1>1, <1>6 DEF RetryOrFail, q
  <2>2. EnterTerminal(q, "motion_retry_forbidden") = EnterTerminal(r, "motion_retry_forbidden")
    <3>1. RetirePending(q) = q
      BY <1>2 DEF RetirePending
    <3> QED
      BY <1>1, <1>2, <3>1 DEF EnterTerminal, q
  <2>3. Accounted(EnterTerminal(r, "motion_retry_forbidden"))
    BY <1>1, EnterTerminalAccount
  <2> QED
    BY <2>1, <2>2, <2>3
<1>7. CASE r.state \notin MotionActions
  <2>1. Kept(q) /\ Placed(q)
    BY <1>1, <1>2, <1>3, <1>4, <1>7 DEF Kept, Placed
  <2>2. ~q.fallback => \A i : ~CompletedAt(q, "safe_retreat", i)
    BY <1>1, <1>2, <2>1 DEF Placed
  <2>3. \A any : /\ Accounted(EnterTerminal(q, any))
                 /\ Accounted(StartRetreatOrStop(q, any))
    BY <1>1, <1>2, <1>5, <2>1, <2>2, EnterTerminalAccount, StartRetreatOrStopAccount
  <2>4. Accounted(q)
    BY <1>1, <1>2, <1>4, <2>1 DEF Accounted, Kept
  <2>5. Accounted(b)
    <3>1. /\ b.state = q.state /\ b.gen = q.gen /\ b.recoveries = q.recoveries
          /\ b.pending = q.pending /\ b.completed = q.completed /\ b.retired = q.retired
          /\ b.awaiting = q.awaiting /\ b.fallback = q.fallback /\ b.opSeq = q.opSeq
      BY <1>2, Fields DEF MachineType
    <3> HIDE DEF b
    <3> QED
      BY <2>4, <3>1, SameAccount
  <2> QED
    BY <1>1, <1>7, <2>3, <2>5 DEF RetryOrFail, q, b
<1> QED
  BY <1>6, <1>7

\* A completion goes to the end of the history: what is remembered of the current
\* recovery afterwards is what was remembered before, shifted by the entry that
\* was dropped, and the new one.
LEMMA CompletionsShift ==
    ASSUME NEW r, MachineType(r), HasPending(r), Numbered(r), NEW success \in BOOLEAN
    PROVE  LET c == RememberCompletion(r, r.pending.op, success)
               n == Len(c.completed)
           IN  /\ n \in Nat \ {0} /\ DOMAIN c.completed = 1..n
               /\ c.completed[n].op = r.pending.op
               /\ CompletedAt(c, r.pending.action, n)
               /\ \A act : CompletedAt(c, act, n) => act = r.pending.action
               /\ \E s \in {0, 1} :
                     /\ \A act : \A i \in 1..(n - 1) :
                           CompletedAt(c, act, i) <=> CompletedAt(r, act, i + s)
                     /\ \A act, i : CompletedAt(r, act, i) => i \in 1..(n - 1 + s)
<1> DEFINE e == [op |-> r.pending.op, success |-> success]
           S == [op : Operations, success : BOOLEAN]
           t == PushBounded(r.completed, e, HistoryCapacity)
           c == RememberCompletion(r, r.pending.op, success)
           n == Len(t)
<1>1. e \in S /\ e.op = r.pending.op
  BY Histories
<1>2. r.completed \in Seq(S)
  BY Histories
<1>3. HistoryCapacity \in Nat \ {0}
  BY ConfigAssumption
<1> HIDE DEF e, S
<1>4. /\ n \in Nat \ {0} /\ DOMAIN t = 1..n
      /\ t[n] = e
      /\ \E s \in {0, 1} :
            /\ n = Len(r.completed) + 1 - s
            /\ \A i \in 1..(n - 1) : i + s \in DOMAIN r.completed /\ t[i] = r.completed[i + s]
  BY <1>1, <1>2, <1>3, Pushed
<1>5. c.completed = t /\ c.gen = r.gen /\ c.recoveries = r.recoveries
  BY Fields DEF RememberCompletion, MachineType, t, e
<1> HIDE DEF t, n, c
<1>6. \A act, op : OfRecovery(c, act, op) = OfRecovery(r, act, op)
  BY <1>5 DEF OfRecovery
<1>7. c.completed[n].op = r.pending.op /\ n \in DOMAIN c.completed
  BY <1>1, <1>4, <1>5
<1>8. OfRecovery(r, r.pending.action, r.pending.op)
  BY DEF Numbered
<1>9. /\ CompletedAt(c, r.pending.action, n)
      /\ \A act : CompletedAt(c, act, n) => act = r.pending.action
  BY <1>6, <1>7, <1>8 DEF CompletedAt, OfRecovery
<1>10. PICK s \in {0, 1} :
         /\ n = Len(r.completed) + 1 - s
         /\ \A i \in 1..(n - 1) : i + s \in DOMAIN r.completed /\ t[i] = r.completed[i + s]
  BY <1>4
<1>11. \A act : \A i \in 1..(n - 1) : CompletedAt(c, act, i) <=> CompletedAt(r, act, i + s)
  <2>1. \A i \in 1..(n - 1) : i \in DOMAIN c.completed
    BY <1>4, <1>5
  <2> QED
    BY <1>5, <1>6, <1>10, <2>1 DEF CompletedAt
<1>12. \A act, i : CompletedAt(r, act, i) => i \in 1..(n - 1 + s)
  <2>1. DOMAIN r.completed = 1..Len(r.completed) /\ Len(r.completed) \in Nat
    BY <1>2
  <2>2. Len(r.completed) = n - 1 + s
    BY <1>4, <1>10, <2>1
  <2> QED
    BY <2>1, <2>2 DEF CompletedAt
<1>13. n = Len(c.completed) /\ DOMAIN c.completed = 1..n
  BY <1>4, <1>5 DEF n
<1> QED
  BY <1>4, <1>7, <1>9, <1>11, <1>12, <1>13 DEF c

\* An acknowledged command becomes a completion.  Until the machine moves on, a
\* completed motion is not where the state expects it; everything else is.
LEMMA RememberCompletionAccount ==
    ASSUME NEW r, MachineType(r), Accounted(r), PendingMatches(r), HasPending(r),
           NEW success \in BOOLEAN
    PROVE  LET c == RememberCompletion(r, r.pending.op, success)
           IN  /\ c.state = r.state /\ c.pending = r.pending /\ c.gen = r.gen
               /\ c.recoveries = r.recoveries /\ c.retired = r.retired
               /\ c.opSeq = r.opSeq /\ c.awaiting = r.awaiting /\ c.fallback = r.fallback
               /\ Last(c.completed).op = r.pending.op
               /\ Kept(c) /\ Budgeted(c)
               /\ r.state \notin MotionActions => Placed(c)
               /\ \A act : r.state # act /\ (\A i : ~CompletedAt(r, act, i)) =>
                              \A i : ~CompletedAt(c, act, i)
               /\ r.state = "safe_retreat" =>
                     \E j : /\ CompletedAt(c, "safe_retreat", j)
                            /\ \A i : CompletedAt(c, "scan", i) => i < j
<1> DEFINE c == RememberCompletion(r, r.pending.op, success)
           n == Len(c.completed)
<1>1. /\ r.state \in ActionStates /\ r.pending.action = r.state
      /\ r.state \in RecoveryStates /\ r.state # "terminal_safe_stop"
  BY PendingInActionState DEF ActionStates, RecoveryStates
<1>2. /\ c.state = r.state /\ c.pending = r.pending /\ c.gen = r.gen
      /\ c.recoveries = r.recoveries /\ c.retired = r.retired
      /\ c.opSeq = r.opSeq /\ c.awaiting = r.awaiting /\ c.fallback = r.fallback
  BY Fields DEF RememberCompletion, MachineType
<1>3. MachineType(c)
  BY Histories, RememberCompletionType
<1>4. Numbered(r) /\ Ordered(r) /\ Clean(r) /\ Placed(r)
  BY <1>1 DEF Accounted
<1>5. /\ n \in Nat \ {0} /\ DOMAIN c.completed = 1..n
      /\ c.completed[n].op = r.pending.op
      /\ CompletedAt(c, r.state, n)
      /\ \A act : CompletedAt(c, act, n) => act = r.state
      /\ \E s \in {0, 1} :
            /\ \A act : \A i \in 1..(n - 1) :
                  CompletedAt(c, act, i) <=> CompletedAt(r, act, i + s)
            /\ \A act, i : CompletedAt(r, act, i) => i \in 1..(n - 1 + s)
  BY <1>1, <1>4, CompletionsShift
<1>6. Last(c.completed).op = r.pending.op
  BY <1>5 DEF Last
<1>7. Known(c) \subseteq Known(r) \cup {r.pending.op}
  <2> DEFINE e == [op |-> r.pending.op, success |-> success]
             S == [op : Operations, success : BOOLEAN]
             t == PushBounded(r.completed, e, HistoryCapacity)
  <2>1. e \in S /\ e.op = r.pending.op /\ r.completed \in Seq(S)
    BY Histories
  <2>2. HistoryCapacity \in Nat \ {0}
    BY ConfigAssumption
  <2>3. c.completed = t
    BY Fields DEF RememberCompletion, MachineType
  <2> HIDE DEF e, S
  <2>4. Range(t) \subseteq Range(r.completed) \cup {e}
    BY <2>1, <2>2, PushedRange
  <2> HIDE DEF t, c
  <2> QED
    BY <1>2, <2>1, <2>3, <2>4 DEF Known, CompletedOps
<1> HIDE DEF c
<1>8. PICK s \in {0, 1} :
        /\ \A act : \A i \in 1..(n - 1) :
              CompletedAt(c, act, i) <=> CompletedAt(r, act, i + s)
        /\ \A act, i : CompletedAt(r, act, i) => i \in 1..(n - 1 + s)
  BY <1>5
<1>9. \A act, i : CompletedAt(c, act, i) => i \in 1..n
  BY <1>5 DEF CompletedAt
<1> HIDE DEF n
<1>10. \A act, op : OfRecovery(c, act, op) = OfRecovery(r, act, op)
  BY <1>2 DEF OfRecovery
\* Where the completions are.
<1>11. \A act, i : CompletedAt(c, act, i) =>
         (i = n /\ act = r.state) \/ (i \in 1..(n - 1) /\ CompletedAt(r, act, i + s))
  <2>1. ASSUME NEW act, NEW i, CompletedAt(c, act, i)
        PROVE  (i = n /\ act = r.state) \/ (i \in 1..(n - 1) /\ CompletedAt(r, act, i + s))
    <3>1. i \in 1..n
      BY <1>9, <2>1
    <3>2. i = n \/ i \in 1..(n - 1)
      BY <1>5, <3>1
    <3>3. CASE i = n
      <4>1. CompletedAt(c, act, n)
        BY <2>1, <3>3
      <4> QED
        BY <1>5, <3>3, <4>1
    <3>4. CASE i \in 1..(n - 1)
      BY <1>8, <2>1, <3>4
    <3> QED
      BY <3>2, <3>3, <3>4
  <2> QED
    BY <2>1
<1>12. \A act, k : CompletedAt(r, act, k) /\ s < k =>
         k - s \in 1..(n - 1) /\ CompletedAt(c, act, k - s)
  <2>1. \A k \in 1..(n - 1 + s) : s < k => k - s \in 1..(n - 1) /\ (k - s) + s = k
    BY <1>5
  <2> QED
    BY <1>8, <2>1
<1>13. \A act : r.state # act /\ (\A i : ~CompletedAt(r, act, i)) =>
         \A i : ~CompletedAt(c, act, i)
  BY <1>11
<1>14. Numbered(c)
  <2>1. HasPending(c) /\ OfRecovery(r, r.pending.action, r.pending.op)
    BY <1>2, <1>4 DEF HasPending, Numbered
  <2>2. /\ r.pending.op.seq <= r.opSeq /\ r.pending.op.gen <= r.gen
        /\ r.pending.op.rec <= r.recoveries
    BY <1>4, <2>1, Histories DEF OfRecovery, Numbered
  <2> QED
    BY <1>2, <1>4, <1>7, <1>10, <2>1, <2>2 DEF Numbered
<1>15. Ordered(c)
  <2>1. ASSUME NEW i, NEW k, CompletedAt(c, "safe_retreat", i), CompletedAt(c, "safe_retreat", k)
        PROVE  i = k
    <3>1. CASE r.state = "safe_retreat"
      BY <1>4, <1>11, <2>1, <3>1 DEF Placed
    <3>2. CASE r.state # "safe_retreat"
      <4>1. /\ i \in 1..(n - 1) /\ CompletedAt(r, "safe_retreat", i + s)
            /\ k \in 1..(n - 1) /\ CompletedAt(r, "safe_retreat", k + s)
        BY <1>11, <2>1, <3>2
      <4>2. i + s = k + s
        BY <1>4, <4>1 DEF Ordered
      <4> QED
        BY <1>5, <4>1, <4>2
    <3> QED
      BY <3>1, <3>2
  <2>2. ASSUME NEW i, NEW k, CompletedAt(c, "scan", i), CompletedAt(c, "scan", k), i < k
        PROVE  \E j : CompletedAt(c, "safe_retreat", j) /\ i < j /\ j < k
    <3>1. i \in 1..n /\ k \in 1..n
      BY <1>9, <2>2
    <3>2. i \in 1..(n - 1) /\ CompletedAt(r, "scan", i + s)
      <4>1. i # n
        BY <1>5, <2>2, <3>1
      <4> QED
        BY <1>11, <2>2, <4>1
    <3>3. CASE k = n
      <4>1. r.state = "scan"
        BY <1>5, <2>2, <3>3
      <4>2. PICK x : CompletedAt(r, "safe_retreat", x) /\ i + s < x
        BY <1>4, <3>2, <4>1 DEF Placed
      <4>3. x \in 1..(n - 1 + s)
        BY <1>8, <4>2
      <4>4. s < x /\ i < x - s /\ x - s < k
        BY <1>5, <3>2, <3>3, <4>2, <4>3
      <4> QED
        BY <1>12, <4>2, <4>4
    <3>4. CASE k # n
      <4>1. k \in 1..(n - 1) /\ CompletedAt(r, "scan", k + s)
        BY <1>11, <2>2, <3>4
      <4>2. i + s < k + s
        BY <1>5, <2>2, <3>2, <4>1
      <4>3. PICK x : CompletedAt(r, "safe_retreat", x) /\ i + s < x /\ x < k + s
        BY <1>4, <3>2, <4>1, <4>2 DEF Ordered
      <4>4. x \in 1..(n - 1 + s)
        BY <1>8, <4>3
      <4>5. s < x /\ i < x - s /\ x - s < k
        BY <1>5, <3>2, <4>1, <4>3, <4>4
      <4> QED
        BY <1>12, <4>3, <4>5
    <3> QED
      BY <3>3, <3>4
  <2> QED
    BY <2>1, <2>2 DEF Ordered
<1>16. Clean(c)
  BY <1>2, <1>4, <1>10 DEF Clean
<1>17. Budgeted(c)
  <2>1. ASSUME NEW act \in MotionActions, NEW op \in Issued(c, act)
        PROVE  \E i : CompletedAt(c, act, i) /\ op = c.completed[i].op
    <3>1. OfRecovery(c, act, op) /\ (op \in Known(c) \/ op = r.pending.op)
      BY <1>2, <2>1 DEF Issued
    <3>2. CASE op \in Known(c)
      BY <1>3, <1>16, <2>1, <3>1, <3>2, Histories DEF Clean, CompletedAt
    <3>3. CASE op = r.pending.op
      <4>1. act = r.state
        BY <1>1, <1>4, <1>10, <3>1, <3>3 DEF Numbered, OfRecovery
      <4> QED
        BY <1>5, <3>3, <4>1
    <3> QED
      BY <3>1, <3>2, <3>3
  <2> QED
    BY <1>3, <1>15, <2>1, CompletedBudget
<1>18. ASSUME r.state \notin MotionActions PROVE Placed(c)
  <2>1. r.state # "scan" /\ r.state # "safe_retreat" /\ r.state # "wait_fresh_plan"
    BY <1>1, <1>18 DEF MotionActions, ActionStates
  <2> QED
    BY <1>2, <1>4, <1>13, <2>1 DEF Placed
<1>19. ASSUME r.state = "safe_retreat"
       PROVE  \E j : /\ CompletedAt(c, "safe_retreat", j)
                     /\ \A i : CompletedAt(c, "scan", i) => i < j
  <2>1. \A i : CompletedAt(c, "scan", i) => i < n
    BY <1>5, <1>11, <1>19
  <2> QED
    BY <1>5, <1>19, <2>1
<1> QED
  BY <1>2, <1>6, <1>13, <1>14, <1>15, <1>16, <1>17, <1>18, <1>19 DEF Kept, c

\* Once its acknowledgement is accepted, the command is only remembered.
LEMMA DropPendingAccount ==
    ASSUME NEW r, MachineType(r), Accounted(r), PendingMatches(r), HasPending(r)
    PROVE  LET c == RememberCompletion(r, r.pending.op, TRUE)
               e == [c EXCEPT !.pending = NoCommand]
           IN  /\ MachineType(e) /\ ~HasPending(e) /\ Kept(e) /\ Budgeted(e)
               /\ e.state = r.state /\ e.fallback = r.fallback
               /\ e.gen = r.gen /\ e.recoveries = r.recoveries
               /\ Last(e.completed).op = r.pending.op
               /\ \A act, i : CompletedAt(e, act, i) = CompletedAt(c, act, i)
<1> DEFINE c == RememberCompletion(r, r.pending.op, TRUE)
           e == [c EXCEPT !.pending = NoCommand]
<1>1. /\ c.state = r.state /\ c.pending = r.pending /\ c.gen = r.gen
      /\ c.recoveries = r.recoveries /\ c.retired = r.retired
      /\ c.opSeq = r.opSeq /\ c.fallback = r.fallback
      /\ Last(c.completed).op = r.pending.op /\ Kept(c)
  BY RememberCompletionAccount
<1>2. MachineType(c)
  BY Histories, RememberCompletionType
<1> HIDE DEF c
<1>3. /\ MachineType(e) /\ e.pending = NoCommand /\ e.state = c.state /\ e.gen = c.gen
      /\ e.recoveries = c.recoveries /\ e.retired = c.retired /\ e.opSeq = c.opSeq
      /\ e.fallback = c.fallback /\ e.completed = c.completed
  BY <1>2, DropPendingType, Fields DEF MachineType
<1> HIDE DEF e
<1>4. ~HasPending(e) /\ e.pending.op = NoOperation
  BY <1>3 DEF HasPending, NoCommand
<1>5. /\ Known(e) = Known(c)
      /\ \A act, op : OfRecovery(e, act, op) = OfRecovery(c, act, op)
      /\ \A act, i : CompletedAt(e, act, i) = CompletedAt(c, act, i)
  BY <1>3 DEF Known, CompletedOps, OfRecovery, CompletedAt
<1>6. Numbered(e)
  <2>1. NoOperation.seq <= e.opSeq
    BY <1>3, Histories DEF NoOperation
  <2> QED
    BY <1>1, <1>3, <1>4, <1>5, <2>1 DEF Kept, Numbered
<1>7. Ordered(e) /\ Clean(e)
  BY <1>1, <1>3, <1>5 DEF Kept, Ordered, Clean
<1>8. Budgeted(e)
  <2>1. \A act \in MotionActions : \A op \in Issued(e, act) :
          \E i : CompletedAt(e, act, i) /\ op = e.completed[i].op
    BY <1>3, <1>4, <1>6, <1>7, MotionsAre
  <2> QED
    BY <1>3, <1>7, <2>1, CompletedBudget
<1> QED
  BY <1>1, <1>3, <1>4, <1>5, <1>6, <1>7, <1>8 DEF Kept, c, e

\* _complete_action moves the machine to where the completed motions are expected.
LEMMA CompleteActionAccount ==
    ASSUME NEW r, MachineType(r), Accounted(r), PendingMatches(r), HasPending(r)
    PROVE  LET c == RememberCompletion(r, r.pending.op, TRUE)
               e == [c EXCEPT !.pending = NoCommand]
           IN  Accounted(CompleteAction(e, r.state))
<1> DEFINE c == RememberCompletion(r, r.pending.op, TRUE)
           e == [c EXCEPT !.pending = NoCommand]
<1>1. /\ r.state \in ActionStates /\ r.pending.action = r.state
      /\ r.state \in RecoveryStates /\ r.state # "terminal_safe_stop"
  BY PendingInActionState DEF ActionStates, RecoveryStates
<1>2. Placed(r) /\ OfRecovery(r, r.state, r.pending.op)
  BY <1>1 DEF Accounted, Numbered
<1>3. /\ MachineType(e) /\ ~HasPending(e) /\ Kept(e) /\ Budgeted(e)
      /\ e.state = r.state /\ e.fallback = r.fallback
      /\ e.gen = r.gen /\ e.recoveries = r.recoveries
      /\ Last(e.completed).op = r.pending.op
      /\ \A act, i : CompletedAt(e, act, i) = CompletedAt(c, act, i)
  BY DropPendingAccount
<1>4. /\ \A act : r.state # act /\ (\A i : ~CompletedAt(r, act, i)) =>
                     \A i : ~CompletedAt(c, act, i)
      /\ r.state = "safe_retreat" =>
            \E j : /\ CompletedAt(c, "safe_retreat", j)
                   /\ \A i : CompletedAt(c, "scan", i) => i < j
  BY RememberCompletionAccount
<1> HIDE DEF c, e
<1>5. /\ \A act : r.state # act /\ (\A i : ~CompletedAt(r, act, i)) =>
                     \A i : ~CompletedAt(e, act, i)
      /\ r.state = "safe_retreat" =>
            \E j : /\ CompletedAt(e, "safe_retreat", j)
                   /\ \A i : CompletedAt(e, "scan", i) => i < j
  BY <1>3, <1>4
<1>6. r.state # "safe_retreat" /\ ~e.fallback => \A i : ~CompletedAt(e, "safe_retreat", i)
  BY <1>1, <1>2, <1>3, <1>5 DEF Placed
<1>7. {"clear_local_cache", "scan", "request_replan"} \subseteq
         States \ {"terminal_safe_stop", "wait_fresh_plan"}
  BY DEF States, RecoveryStates, ActionStates
<1>8. CASE r.state = "cancel_goal"
  <2>1. \A i : ~CompletedAt(e, "scan", i)
    BY <1>2, <1>5, <1>8 DEF Placed
  <2> QED
    BY <1>3, <1>6, <1>7, <1>8, <2>1, TransitionAccount DEF CompleteAction, c, e
<1>9. CASE r.state = "clear_local_cache"
  <2>1. \A i : ~CompletedAt(e, "scan", i)
    BY <1>2, <1>5, <1>9 DEF Placed
  <2> QED
    BY <1>3, <1>6, <1>7, <1>9, <2>1, TransitionAccount DEF CompleteAction, c, e
<1>10. CASE r.state = "scan"
  BY <1>3, <1>6, <1>7, <1>10, TransitionAccount DEF CompleteAction, c, e
<1>11. CASE r.state = "request_replan"
  <2> DEFINE w == [e EXCEPT !.state = "wait_fresh_plan", !.attempt = 0,
                            !.planDeadline = e.lastNow + PlanWaitTimeout,
                            !.awaiting = Last(e.completed).op]
  <2>1. /\ w.state = "wait_fresh_plan" /\ w.gen = e.gen /\ w.recoveries = e.recoveries
        /\ w.pending = e.pending /\ w.completed = e.completed /\ w.retired = e.retired
        /\ w.opSeq = e.opSeq /\ w.fallback = e.fallback
        /\ w.awaiting = Last(e.completed).op
    BY <1>3, Fields DEF MachineType
  <2> HIDE DEF w
  <2>2. \A act, i : CompletedAt(w, act, i) = CompletedAt(e, act, i)
    BY <2>1, SameMemory
  <2>3. OfRecovery(w, "request_replan", w.awaiting)
    BY <1>2, <1>3, <1>11, <2>1 DEF OfRecovery
  <2>4. Placed(w)
    BY <1>6, <1>11, <2>1, <2>2, <2>3 DEF Placed
  <2>5. PendingIsFresh(e)
    BY <1>3 DEF PendingIsFresh
  <2>6. Accounted(w)
    BY <1>3, <2>1, <2>4, <2>5, Moved
  <2>7. CompleteAction(e, r.state) = w
    BY <1>11 DEF CompleteAction, w
  <2> QED
    BY <2>6, <2>7 DEF c, e
<1>12. CASE r.state = "safe_retreat"
  <2> DEFINE f == [e EXCEPT !.replans = 0, !.rejections = 0]
  <2>1. /\ MachineType(f) /\ f.gen = e.gen /\ f.recoveries = e.recoveries
        /\ f.pending = e.pending /\ f.completed = e.completed /\ f.retired = e.retired
        /\ f.opSeq = e.opSeq /\ f.fallback = e.fallback
    BY <1>3, Fields DEF MachineType
  <2> HIDE DEF f
  <2>2. /\ ~HasPending(f) /\ Kept(f)
        /\ \A act, i : CompletedAt(f, act, i) = CompletedAt(e, act, i)
    BY <1>3, <2>1, SameMemory DEF Kept
  <2>3. f.fallback
    BY <1>2, <1>3, <1>12, <2>1 DEF Placed
  <2>4. PICK j : /\ CompletedAt(f, "safe_retreat", j)
                 /\ \A i : CompletedAt(f, "scan", i) => i < j
    BY <1>5, <1>12, <2>2
  <2>5. Accounted(Transition(f, "scan"))
    BY <1>7, <2>1, <2>2, <2>3, <2>4, TransitionAccount
  <2>6. CompleteAction(e, r.state) = Transition(f, "scan")
    BY <1>12 DEF CompleteAction, f
  <2> QED
    BY <2>5, <2>6 DEF c, e
<1>13. CASE r.state = "accept_fresh_plan"
  <2> DEFINE q == [e EXCEPT !.seen = @ \cup {e.accepted.shape}, !.active = e.accepted,
                            !.startedAt = NoTime, !.state = "cooldown",
                            !.cooldownUntil = e.lastNow + CooldownTime]
  <2>1. /\ q.state = "cooldown" /\ q.gen = e.gen /\ q.recoveries = e.recoveries
        /\ q.pending = e.pending /\ q.completed = e.completed /\ q.retired = e.retired
        /\ q.opSeq = e.opSeq
    BY <1>3, Fields DEF MachineType
  <2> HIDE DEF q
  <2>2. Placed(q) /\ PendingIsFresh(e)
    BY <1>3, <2>1 DEF Placed, RecoveryStates, ActionStates, PendingIsFresh
  <2>3. Accounted(q)
    BY <1>3, <2>1, <2>2, Moved
  <2>4. \A why : Accounted(EnterTerminal(e, why))
    BY <1>1, <1>3, EnterTerminalAccount
  <2>5. CompleteAction(e, r.state) = CompleteAccept(e)
    BY <1>13 DEF CompleteAction
  <2>6. CompleteAccept(e) = q \/ \E why : CompleteAccept(e) = EnterTerminal(e, why)
    BY DEF CompleteAccept, q
  <2> QED
    BY <2>3, <2>4, <2>5, <2>6 DEF c, e
<1> QED
  BY <1>1, <1>8, <1>9, <1>10, <1>11, <1>12, <1>13 DEF ActionStates

-----------------------------------------------------------------------------
(* tick and the other methods.                                             *)

\* Stopping, retrying and timing out keep the invariant: the paragraphs of tick.
LEMMA SafetyGateAccount ==
    ASSUME NEW r, MachineType(r), Accounted(r), PendingMatches(r)
    PROVE  Accounted(SafetyGate(r)) /\ Accounted(RecoveryDeadline(r))
BY StopAccount DEF SafetyGate, RecoveryDeadline

\* An outstanding command that times out.
LEMMA ExpiredAccount ==
    ASSUME NEW r, MachineType(r), Accounted(r), PendingMatches(r), HasPending(r), NEW why
    PROVE  Accounted(RetryOrFail(r, why))
<1>1. r.state # "terminal_safe_stop"
  BY PendingInActionState DEF ActionStates
<1> QED
  BY <1>1, WithinBudget, RetryOrFailAccount DEF Accounted, Kept

\* The paragraph of tick that times the outstanding command out.
LEMMA PendingExpiryAccount ==
    ASSUME NEW r, MachineType(r), Accounted(r), PendingMatches(r)
    PROVE  Accounted(PendingExpiry(r))
BY ExpiredAccount DEF PendingExpiry

\* What leaves wait_fresh_plan, whatever becomes of the request it waits for: q
\* is r with other fields.
LEMMA WaitOverAccount ==
    ASSUME NEW r, MachineType(r), Accounted(r), PendingMatches(r),
           r.state = "wait_fresh_plan",
           NEW q, MachineType(q), q.state = r.state, q.gen = r.gen,
           q.recoveries = r.recoveries, q.pending = r.pending,
           q.completed = r.completed, q.retired = r.retired, q.opSeq = r.opSeq,
           q.fallback = r.fallback
    PROVE  /\ Accounted(Transition(q, "request_replan"))
           /\ Accounted(Transition(q, "accept_fresh_plan"))
           /\ \A why : Accounted(StartRetreatOrStop(q, why))
<1>1. r.state \in RecoveryStates /\ r.state \notin ActionStates /\ r.state # "terminal_safe_stop"
  BY DEF RecoveryStates, ActionStates
<1>2. Kept(r) /\ Placed(r) /\ Budgeted(r) /\ ~HasPending(r)
  BY <1>1, NoStrayPending, WithinBudget DEF Accounted, Kept
<1>3. /\ Kept(q) /\ Budgeted(q) /\ ~HasPending(q)
      /\ \A act, i : CompletedAt(q, act, i) = CompletedAt(r, act, i)
  BY <1>2, SameMemory DEF Kept
<1>4. ~q.fallback => \A i : ~CompletedAt(q, "safe_retreat", i)
  BY <1>1, <1>2, <1>3 DEF Placed
<1>5. {"request_replan", "accept_fresh_plan"} \subseteq
         States \ {"terminal_safe_stop", "wait_fresh_plan"}
  BY DEF States, RecoveryStates, ActionStates
<1>6. Accounted(Transition(q, "request_replan"))
  BY <1>3, <1>4, <1>5, TransitionAccount
<1>7. Accounted(Transition(q, "accept_fresh_plan"))
  BY <1>3, <1>4, <1>5, TransitionAccount
<1>8. \A why : Accounted(StartRetreatOrStop(q, why))
  BY <1>1, <1>3, <1>4, StartRetreatOrStopAccount
<1> QED
  BY <1>6, <1>7, <1>8

\* The paragraph that ends the wait for a plan.
LEMMA PlanWaitExpiryAccount ==
    ASSUME NEW r, MachineType(r), Accounted(r), PendingMatches(r)
    PROVE  Accounted(PlanWaitExpiry(r))
BY WaitOverAccount DEF PlanWaitExpiry

\* The paragraph that ends the cooldown: the machine leaves the recovery.
LEMMA CooldownExpiryAccount ==
    ASSUME NEW r, MachineType(r), Accounted(r), PendingMatches(r)
    PROVE  Accounted(CooldownExpiry(r))
<1>1. CASE CooldownExpiry(r) = r
  BY <1>1
<1>2. CASE CooldownExpiry(r) # r
  <2> DEFINE t == Transition(r, "monitoring")
             q == [t EXCEPT !.samples = NoSamples, !.arrivals = <<>>,
                            !.cooldownUntil = NoTime]
  <2>1. r.state = "cooldown" /\ CooldownExpiry(r) = q
    BY <1>2 DEF CooldownExpiry
  <2>2. Kept(r) /\ ~HasPending(r)
    BY <2>1, NoStrayPending DEF Accounted, Kept, ActionStates
  <2>3. "monitoring" \in States \ {"terminal_safe_stop", "wait_fresh_plan"}
        /\ "monitoring" \notin RecoveryStates
    BY DEF States, RecoveryStates, ActionStates
  <2>4. Accounted(t)
    BY <2>2, <2>3, TransitionAccount
  <2>5. MachineType(t)
    BY <2>3, TransitionType
  <2> HIDE DEF t
  <2>6. /\ q.state = t.state /\ q.gen = t.gen /\ q.recoveries = t.recoveries
        /\ q.pending = t.pending /\ q.completed = t.completed /\ q.retired = t.retired
        /\ q.awaiting = t.awaiting /\ q.fallback = t.fallback /\ q.opSeq = t.opSeq
    BY <2>5, Fields DEF MachineType
  <2> HIDE DEF q
  <2> QED
    BY <2>1, <2>4, <2>6, SameAccount
<1> QED
  BY <1>1, <1>2

\* The paragraph that issues the next command.
LEMMA IssueWhenDueAccount ==
    ASSUME NEW r, MachineType(r), Accounted(r)
    PROVE  Accounted(IssueWhenDue(r))
BY IssueCurrentActionAccount DEF IssueWhenDue

\* tick keeps the invariant.
LEMMA TickWithAccount ==
    ASSUME NEW r, MachineType(r), Sound(r), Accounted(r),
           NEW flags \in SafetyFlags, NEW cached \in BOOLEAN
    PROVE  Accounted(TickWith(r, flags, cached))
<1> DEFINE q == SetSafety(r, flags, cached)
<1>1. MachineType(q) /\ Sound(q)
  BY SetSafetySound
<1>2. Accounted(q)
  <2>1. /\ q.state = r.state /\ q.gen = r.gen /\ q.recoveries = r.recoveries
        /\ q.pending = r.pending /\ q.completed = r.completed /\ q.retired = r.retired
        /\ q.awaiting = r.awaiting /\ q.fallback = r.fallback /\ q.opSeq = r.opSeq
    BY Fields DEF SetSafety, MachineType
  <2> HIDE DEF q
  <2> QED
    BY <2>1, SameAccount
<1> HIDE DEF q
<1> DEFINE a == SafetyGate(q)
           b == RecoveryDeadline(a)
           c == PendingExpiry(b)
           d == PlanWaitExpiry(c)
           e == CooldownExpiry(d)
<1>3. \A x : Settled(x) => MachineType(x) /\ PendingMatches(x)
  BY DEF Settled, Guarded, Sound
<1>4. Settled(a) /\ Accounted(a)
  BY <1>1, <1>2, SafetyGateSound, SafetyGateAccount DEF Sound
<1> HIDE DEF a
<1>5. Settled(b) /\ Accounted(b)
  BY <1>3, <1>4, RecoveryDeadlineSound, SafetyGateAccount
<1> HIDE DEF b
<1>6. Settled(c) /\ Accounted(c)
  BY <1>3, <1>5, PendingExpirySound, PendingExpiryAccount
<1> HIDE DEF c
<1>7. Settled(d) /\ Accounted(d)
  BY <1>3, <1>6, PlanWaitExpirySound, PlanWaitExpiryAccount
<1> HIDE DEF d
<1>8. Settled(e) /\ Accounted(e)
  BY <1>3, <1>7, CooldownExpirySound, CooldownExpiryAccount
<1> HIDE DEF e
<1>9. Accounted(IssueWhenDue(e))
  BY <1>3, <1>8, IssueWhenDueAccount
<1> QED
  BY <1>2, <1>9 DEF TickWith, q, a, b, c, d, e

\* So does the tick at the end of a handler.
LEMMA CachedTickAccount ==
    ASSUME NEW r, Settled(r), Accounted(r)
    PROVE  Accounted(CachedTick(r))
BY TickWithAccount DEF CachedTick, Settled, Guarded, MachineType

\* A call at a later instant changes nothing; one in the past stops the machine.
LEMMA ValidateTimeAccount ==
    ASSUME NEW r, Settled(r), Accounted(r), NEW now
    PROVE  Accounted(ValidateTime(r, now))
<1> DEFINE p == [r EXCEPT !.outbox = <<>>]
           q == [p EXCEPT !.lastNow = now]
<1>1. MachineType(r) /\ PendingMatches(r)
  BY DEF Settled, Guarded, Sound
<1>2. /\ MachineType(p)
      /\ p.state = r.state /\ p.gen = r.gen /\ p.recoveries = r.recoveries
      /\ p.pending = r.pending /\ p.completed = r.completed /\ p.retired = r.retired
      /\ p.awaiting = r.awaiting /\ p.fallback = r.fallback /\ p.opSeq = r.opSeq
  BY <1>1, Fields DEF MachineType
<1> HIDE DEF p
<1>3. /\ q.state = r.state /\ q.gen = r.gen /\ q.recoveries = r.recoveries
      /\ q.pending = r.pending /\ q.completed = r.completed /\ q.retired = r.retired
      /\ q.awaiting = r.awaiting /\ q.fallback = r.fallback /\ q.opSeq = r.opSeq
  BY <1>2, Fields DEF MachineType
<1> HIDE DEF q
<1>4. Accounted(p) /\ Accounted(q)
  BY <1>2, <1>3, SameAccount
<1>5. PendingMatches(p)
  BY <1>1, <1>2 DEF PendingMatches, HasPending
<1>6. \A why : Accounted(EnterTerminal(p, why))
  BY <1>2, <1>4, <1>5, StopAccount
<1> QED
  BY <1>2, <1>4, <1>6 DEF ValidateTime, p, q

\* A new recovery has a number of its own: no operation that is remembered is
\* one of its own.
LEMMA StartRecoveryAccount ==
    ASSUME NEW r, MachineType(r), PendingMatches(r), Accounted(r),
           r.state = "monitoring", NEW extras
    PROVE  Accounted(StartRecovery(r, extras))
<1> DEFINE taboo == AddTabooAll(r.taboo, <<r.active>> \o extras)
           q == [r EXCEPT !.recoveries = @ + 1, !.startedAt = r.lastNow,
                     !.fallback = FALSE, !.replans = 0, !.rejections = 0,
                     !.commands = 0, !.accepted = NoPlan,
                     !.taboo = taboo, !.samples = NoSamples, !.blamed = r.active]
<1>1. ~HasPending(r) /\ Numbered(r)
  BY NoStrayPending DEF ActionStates, Accounted
<1> HIDE DEF taboo
<1>2. /\ MachineType(q) /\ q.pending = r.pending /\ q.gen = r.gen
      /\ q.recoveries = r.recoveries + 1 /\ q.completed = r.completed
      /\ q.retired = r.retired /\ q.opSeq = r.opSeq
  BY Counters, Fields, ZenonT(60) DEF MachineType, NoSamples
<1> HIDE DEF q
<1>3. ~HasPending(q) /\ Known(q) = Known(r)
  BY <1>1, <1>2 DEF HasPending, Known, CompletedOps
<1>4. \A op \in Known(r) : /\ op.rec \in Nat
                           /\ op.gen = r.gen => op.rec <= r.recoveries
  BY <1>1, Histories DEF Numbered
<1>5. r.recoveries \in Nat
  BY DEF MachineType
<1>6. \A op \in Known(q) : /\ op.gen = q.gen => op.rec <= q.recoveries
                           /\ \A act : ~OfRecovery(q, act, op)
  BY <1>2, <1>3, <1>4, <1>5 DEF OfRecovery
<1>7. Numbered(q)
  BY <1>1, <1>2, <1>3, <1>6 DEF Numbered
<1>8. \A act, i : ~CompletedAt(q, act, i)
  BY <1>2, <1>6, Histories DEF CompletedAt
<1>9. Clean(q)
  BY <1>2, <1>6, Histories DEF Clean
<1>10. Kept(q)
  BY <1>7, <1>8, <1>9 DEF Kept, Ordered
<1>11. "cancel_goal" \in States \ {"terminal_safe_stop", "wait_fresh_plan"}
  BY DEF States, RecoveryStates, ActionStates
<1>12. Accounted(Transition(q, "cancel_goal"))
  BY <1>2, <1>3, <1>8, <1>10, <1>11, TransitionAccount
<1>13. \A why : Accounted(EnterTerminal(r, why))
  BY StopAccount
<1> QED
  BY <1>12, <1>13 DEF StartRecovery, q, taboo

\* A new goal changes nothing that is accounted for.
LEMMA AdoptGoalAccount ==
    ASSUME NEW r, MachineType(r), Accounted(r), NEW goal
    PROVE  Accounted(AdoptGoal(r, goal))
<1> DEFINE p == [r EXCEPT !.samples = NoSamples, !.arrivals = <<>>, !.seen = {},
                          !.active = NoPlan, !.goal = goal]
           q == [r EXCEPT !.goal = goal]
<1>1. /\ p.state = r.state /\ p.gen = r.gen /\ p.recoveries = r.recoveries
      /\ p.pending = r.pending /\ p.completed = r.completed /\ p.retired = r.retired
      /\ p.awaiting = r.awaiting /\ p.fallback = r.fallback /\ p.opSeq = r.opSeq
  BY Fields DEF MachineType
<1>2. /\ q.state = r.state /\ q.gen = r.gen /\ q.recoveries = r.recoveries
      /\ q.pending = r.pending /\ q.completed = r.completed /\ q.retired = r.retired
      /\ q.awaiting = r.awaiting /\ q.fallback = r.fallback /\ q.opSeq = r.opSeq
  BY Fields DEF MachineType
<1>3. AdoptGoal(r, goal) \in {p, q}
  BY DEF AdoptGoal
<1> HIDE DEF p, q
<1>4. Accounted(p) /\ Accounted(q)
  BY <1>1, <1>2, SameAccount
<1> QED
  BY <1>3, <1>4

\* A plan update either only notes the plan, or starts a recovery, or stops.
LEMMA PlanArrivalAccount ==
    ASSUME NEW r, Settled(r), Accounted(r), NEW p \in Plans, NEW running, NEW window, NEW order
    PROVE  Accounted(PlanArrival(r, p, running, window, order))
<1> DEFINE push == PushBounded(r.arrivals, p, TabooCapacity)
           a == [r EXCEPT !.active = p, !.arrivals = push]
           marked == [a EXCEPT !.seen = @ \cup {p.shape}]
<1>1. MachineType(r) /\ PendingMatches(r)
  BY DEF Settled, Guarded, Sound
<1>2. push \in Seq(Plans)
  BY <1>1, PushBoundedType, ConfigAssumption DEF MachineType
<1> HIDE DEF push
<1>3. /\ MachineType(a)
      /\ a.state = r.state /\ a.gen = r.gen /\ a.recoveries = r.recoveries
      /\ a.pending = r.pending /\ a.completed = r.completed /\ a.retired = r.retired
      /\ a.awaiting = r.awaiting /\ a.fallback = r.fallback /\ a.opSeq = r.opSeq
  BY <1>1, <1>2, Fields DEF MachineType
<1> HIDE DEF a
<1>4. /\ MachineType(marked)
      /\ marked.state = r.state /\ marked.gen = r.gen /\ marked.recoveries = r.recoveries
      /\ marked.pending = r.pending /\ marked.completed = r.completed
      /\ marked.retired = r.retired /\ marked.awaiting = r.awaiting
      /\ marked.fallback = r.fallback /\ marked.opSeq = r.opSeq
  <2>1. a.seen \cup {p.shape} \subseteq {q.shape : q \in Plans}
    BY <1>3 DEF MachineType
  <2> QED
    BY <1>3, <2>1, Fields, SMTT(30) DEF MachineType
<1> HIDE DEF marked
<1>5. /\ MachineType(a) /\ PendingMatches(a) /\ Accounted(a) /\ a.state = r.state
      /\ MachineType(marked) /\ PendingMatches(marked) /\ Accounted(marked)
      /\ marked.state = r.state
  BY <1>1, <1>3, <1>4, SameAccount DEF PendingMatches, HasPending
<1>6. \A why : Accounted(EnterTerminal(a, why))
  BY <1>5, StopAccount
<1>7. \A why : EnterTerminal(a, why).state = "terminal_safe_stop"
  BY <1>5, EnterTerminalType
<1>8. \A x, extras : MachineType(x) /\ PendingMatches(x) /\ Accounted(x)
                       /\ x.state = "monitoring" => Accounted(StartRecovery(x, extras))
  BY StartRecoveryAccount
<1> DEFINE recent == RecentSignatures(a.arrivals)
           Extras(S) == InOrder(order, S)
           first == StartRecovery(a, Extras(recent))
           b == IF ~(r.state = "monitoring" /\ running) THEN a
                ELSE IF p.shape \in r.seen THEN first
                ELSE IF Cardinality(r.seen) >= TabooCapacity
                THEN EnterTerminal(a, "plan_history_capacity_exhausted")
                ELSE marked
           cycle == PlanCycle(b.arrivals, window)
           cycled == Extras({q \in recent : q.shape \in cycle})
<1> HIDE DEF recent, Extras
<1>9. r.state = "monitoring" => Accounted(first) /\ first.state # "monitoring"
  <2>1. MachineType(a)
    BY <1>5
  <2>2. \A extras : StartRecovery(a, extras).state # "monitoring"
    BY <1>7, <2>1, Fields DEF StartRecovery, Transition, MachineType
  <2> QED
    BY <1>5, <1>8, <2>2
<1> HIDE DEF first
<1>10. /\ Accounted(b)
       /\ b.state = "monitoring" => MachineType(b) /\ PendingMatches(b)
  BY <1>5, <1>6, <1>7, <1>9
<1> HIDE DEF b, cycle
<1>11. PlanArrival(r, p, running, window, order) =
         IF cycle # {} /\ b.state = "monitoring" /\ running
         THEN StartRecovery(b, cycled) ELSE b
  BY DEF PlanArrival, b, cycle, recent, Extras, a, push, marked, first
<1> HIDE DEF cycled
<1>12. b.state = "monitoring" => Accounted(StartRecovery(b, cycled))
  BY <1>8, <1>10
<1> QED
  BY <1>10, <1>11, <1>12

\* The progress check starts a recovery or only counts samples.
LEMMA ObserveProgressAccount ==
    ASSUME NEW r, Settled(r), Accounted(r), NEW flags \in SafetyFlags, NEW running, NEW stuck
    PROVE  Accounted(ObserveProgress(r, flags, running, stuck))
<1>1. MachineType(r) /\ Sound(r) /\ PendingMatches(r)
  BY DEF Settled, Guarded, Sound
<1>2. \A s : LET q == [r EXCEPT !.samples = s]
             IN  /\ q.state = r.state /\ q.gen = r.gen /\ q.recoveries = r.recoveries
                 /\ q.pending = r.pending /\ q.completed = r.completed
                 /\ q.retired = r.retired /\ q.awaiting = r.awaiting
                 /\ q.fallback = r.fallback /\ q.opSeq = r.opSeq
  BY <1>1, Fields DEF MachineType
<1>3. \A s : Accounted([r EXCEPT !.samples = s])
  BY <1>2, SameAccount
<1> DEFINE s == AddSample(r)
<1>4. Accounted(s) /\ s.state = r.state
  BY <1>2, <1>3 DEF AddSample
<1>5. Settled(s)
  <2> DEFINE gap == r.lastNow - r.samples.last > MaxObservationGap
             kept == IF gap THEN 0 ELSE r.samples.count
             count == IF kept < MinSamples THEN kept + 1 ELSE kept
  <2> HIDE DEF gap
  <2>1. r.samples.count \in Nat /\ r.lastNow \in Nat
    BY <1>1 DEF MachineType
  <2>2. count \in Nat
    BY <2>1
  <2>3. s = [r EXCEPT !.samples = [count |-> count, last |-> r.lastNow]]
    BY DEF AddSample, gap
  <2> HIDE DEF count, s
  <2>4. [count |-> count, last |-> r.lastNow] \in [count : Nat, last : Nat]
    BY <2>1, <2>2
  <2> QED
    BY <2>3, <2>4, SamplesSound
<1> HIDE DEF s
<1>6. r.state = "monitoring" => Accounted(TickWith(StartRecovery(s, <<>>), flags, FALSE))
  <2>1. ASSUME r.state = "monitoring"
        PROVE  Accounted(TickWith(StartRecovery(s, <<>>), flags, FALSE))
    <3>1. Settled(StartRecovery(s, <<>>))
      BY <1>4, <1>5, <2>1, StartRecoverySound
    <3>2. Accounted(StartRecovery(s, <<>>))
      BY <1>4, <1>5, <2>1, StartRecoveryAccount DEF Settled, Guarded, Sound
    <3> QED
      BY <3>1, <3>2, TickWithAccount DEF Settled, Guarded
  <2> QED
    BY <2>1
<1>7. Accounted(TickWith(r, flags, FALSE))
  BY <1>1, TickWithAccount
<1> QED
  BY <1>3, <1>4, <1>6, <1>7 DEF ObserveProgress, s

-----------------------------------------------------------------------------
(* The handlers.                                                           *)

\* begin_episode forgets the old recovery, whose operations have an older
\* generation; a refused one stops the machine.
LEMMA EpisodeAccount ==
    ASSUME Settled(m), Accounted(m), Episode
    PROVE  Accounted(m')
<1>1. PICK now \in CallTimes, generation \in Generations :
        BeginEpisode(generation, now) \/ BeginEpisodeRefused(generation, now)
  BY DEF Episode
<1>2. MachineType(m) /\ PendingMatches(m)
  BY DEF Settled, Guarded, Sound
<1>3. CASE BeginEpisodeRefused(generation, now)
  <2> DEFINE p == [m EXCEPT !.outbox = <<>>]
  <2>1. /\ MachineType(p)
        /\ p.state = m.state /\ p.gen = m.gen /\ p.recoveries = m.recoveries
        /\ p.pending = m.pending /\ p.completed = m.completed /\ p.retired = m.retired
        /\ p.awaiting = m.awaiting /\ p.fallback = m.fallback /\ p.opSeq = m.opSeq
    BY <1>2, Fields DEF MachineType
  <2> HIDE DEF p
  <2>2. Accounted(p) /\ PendingMatches(p)
    BY <1>2, <2>1, SameAccount DEF PendingMatches, HasPending
  <2> QED
    BY <1>3, <2>1, <2>2, StopAccount DEF BeginEpisodeRefused, p
<1>4. CASE BeginEpisode(generation, now)
  <2> DEFINE p == RetirePending(m)
             completed == m.completed
             retired == p.retired
             number == m.opSeq
             fresh == [InitialMachine EXCEPT
                       !.state = "monitoring", !.gen = generation,
                       !.lastNow = now, !.notBefore = now,
                       !.opSeq = number, !.completed = completed,
                       !.retired = retired]
  <2>1. m' \in {fresh, QueueSafeStop(fresh)}
    BY <1>4 DEF BeginEpisode
  <2>2. /\ MachineType(p) /\ Numbered(p) /\ p.completed = m.completed
        /\ p.gen = m.gen /\ p.opSeq = m.opSeq
    BY <1>2, RetirePendingType, RetirePendingAccount DEF Accounted
  <2> HIDE DEF p
  <2>3. \A op \in Known(p) : /\ op.gen \in Int /\ op.gen <= m.gen
                             /\ op.seq \in Nat /\ op.seq <= m.opSeq
    BY <2>2, Histories DEF Numbered
  <2>4. m.gen < generation /\ generation \in Nat /\ m.gen \in Int
    <3>1. generation \in Nat /\ m.gen \in Int
      BY <1>2, ConfigAssumption DEF Generations, MachineType
    <3> QED
      BY <1>4, <3>1 DEF BeginEpisode
  <2> HIDE DEF completed, retired, number
  <2>5. /\ DOMAIN fresh = DOMAIN InitialMachine
        /\ fresh.state = "monitoring" /\ fresh.gen = generation
        /\ fresh.pending = NoCommand /\ fresh.opSeq = number
        /\ fresh.completed = completed /\ fresh.retired = retired
    BY Fields DEF InitialMachine
  <2> HIDE DEF fresh
  <2>6. m.opSeq \in Nat
    BY <1>2 DEF MachineType
  <2>7. ASSUME NEW q, q \in {fresh, QueueSafeStop(fresh)}
        PROVE  /\ q.state = "monitoring" /\ q.gen = generation /\ q.pending = NoCommand
               /\ q.completed = completed /\ q.retired = retired
               /\ q.opSeq \in {number, number + 1}
    BY <2>5, <2>7, Fields DEF QueueSafeStop
  <2>8. /\ m'.state = "monitoring" /\ m'.gen = generation /\ m'.pending = NoCommand
        /\ m'.completed = m.completed /\ m'.retired = p.retired
        /\ m'.opSeq \in {m.opSeq, m.opSeq + 1}
    BY <2>1, <2>7 DEF completed, retired, number
  <2>9. Known(m') = Known(p) /\ ~HasPending(m') /\ m'.pending.op = NoOperation
    BY <2>2, <2>8 DEF Known, CompletedOps, HasPending, NoCommand
  <2>10. \A op \in Known(m') : /\ op.seq <= m'.opSeq /\ op.gen <= m'.gen
                               /\ op.gen # m'.gen
    BY <2>3, <2>4, <2>6, <2>8, <2>9
  <2>11. NoOperation.seq <= m'.opSeq
    BY <2>6, <2>8 DEF NoOperation
  <2>12. Numbered(m')
    BY <2>9, <2>10, <2>11 DEF Numbered
  <2>13. \A op \in Known(m') : \A act : ~OfRecovery(m', act, op)
    BY <2>10 DEF OfRecovery
  <2>14. \A act, i : ~CompletedAt(m', act, i)
    BY <2>13 DEF CompletedAt, Known, CompletedOps, Range
  <2>15. Ordered(m') /\ Clean(m') /\ PendingIsFresh(m')
    BY <2>9, <2>13, <2>14 DEF Ordered, Clean, PendingIsFresh, Known
  <2>16. Placed(m')
    BY <2>8 DEF Placed, RecoveryStates, ActionStates
  <2> QED
    BY <2>8, <2>12, <2>15, <2>16 DEF Accounted
<1> QED
  BY <1>1, <1>3, <1>4

\* What every handler but begin_episode starts from.
LEMMA CalledAccount ==
    ASSUME Settled(m), Accounted(m), NEW now \in CallTimes
    PROVE  LET v == ValidateTime(m, now)
               d == RecoveryDeadline(v)
           IN  /\ Settled(v) /\ Accounted(v) /\ Settled(d) /\ Accounted(d)
               /\ d.state # "terminal_safe_stop" => d = v
               /\ \A why : /\ Accounted(EnterTerminal(v, why))
                           /\ Accounted(EnterTerminal(d, why))
<1> DEFINE v == ValidateTime(m, now)
           d == RecoveryDeadline(v)
<1>1. Settled(v) /\ Settled(d) /\ (d.state # "terminal_safe_stop" => d = v)
  BY CalledSound
<1>2. Accounted(v)
  BY ValidateTimeAccount
<1> HIDE DEF v
<1>3. Accounted(d)
  BY <1>1, <1>2, SafetyGateAccount DEF Settled, Guarded, Sound
<1> HIDE DEF d
<1>4. \A why : Accounted(EnterTerminal(v, why)) /\ Accounted(EnterTerminal(d, why))
  BY <1>1, <1>2, <1>3, StopAccount DEF Settled, Guarded, Sound
<1> QED
  BY <1>1, <1>2, <1>3, <1>4 DEF v, d

\* tick, as a handler.
LEMMA ClockedAccount ==
    ASSUME Settled(m), Accounted(m), Clocked
    PROVE  Accounted(m')
<1>1. PICK now \in CallTimes :
        TickInvalid(now) \/ \E flags \in SafetyFlags : Tick(now, flags)
  BY DEF Clocked
<1> DEFINE v == ValidateTime(m, now)
<1>2. Settled(v) /\ Accounted(v) /\ \A why : Accounted(EnterTerminal(v, why))
  BY CalledAccount
<1> QED
  BY <1>1, <1>2, TickWithAccount DEF TickInvalid, Tick, Settled, Guarded

\* An acknowledgement of the outstanding command, on each of its paths.
LEMMA AckPendingAccount ==
    ASSUME Settled(m), Accounted(m), NEW now \in CallTimes, NEW success \in BOOLEAN,
           NEW evidence, AckPending(now, success, evidence)
    PROVE  Accounted(m')
<1> DEFINE v == ValidateTime(m, now)
           d == RecoveryDeadline(v)
           c == RememberCompletion(d, d.pending.op, success)
           e == [c EXCEPT !.pending = NoCommand]
<1>1. /\ Settled(d) /\ Accounted(d) /\ HasPending(v)
      /\ d.state # "terminal_safe_stop" => d = v
      /\ \A why : Accounted(EnterTerminal(d, why))
  BY CalledAccount DEF AckPending
<1> HIDE DEF v, d
<1>2. CASE d.state = "terminal_safe_stop"
  BY <1>1, <1>2 DEF AckPending, d, v
<1>3. CASE d.state # "terminal_safe_stop"
  <2>1. HasPending(d) /\ MachineType(d) /\ PendingMatches(d)
    BY <1>1, <1>3 DEF Settled, Guarded, Sound
  <2>2. d.pending.action = d.state /\ d.pending.op \in Operations
    BY <2>1, PendingInActionState, Histories
  <2>3. \A why : Accounted(RetryOrFail(d, why))
    BY <1>1, <2>1, ExpiredAccount
  <2>4. \A why : Accounted(RetryOrFail(c, why))
    <3>1. /\ c.state = d.state /\ c.pending = d.pending /\ Kept(c) /\ Budgeted(c)
          /\ d.state \notin MotionActions => Placed(c)
      BY <1>1, <2>1, RememberCompletionAccount
    <3>2. MachineType(c)
      BY <2>1, <2>2, RememberCompletionType
    <3> HIDE DEF c
    <3>3. PendingMatches(c) /\ HasPending(c)
      BY <2>1, <3>1 DEF PendingMatches, HasPending
    <3> QED
      BY <3>1, <3>2, <3>3, RetryOrFailAccount
  <2>5. success => Accounted(CachedTick(CompleteAction(e, d.pending.action)))
    <3>1. ASSUME success = TRUE
          PROVE  Accounted(CompleteAction(e, d.state))
      BY <1>1, <2>1, <3>1, CompleteActionAccount
    <3>2. Settled(CompleteAction(e, d.state))
      <4>1. /\ Settled(c) /\ c.state = d.state /\ c.pending = d.pending
            /\ Last(c.completed).op \in Operations
        BY <1>1, <2>2, RememberCompletionSound
      <4> HIDE DEF c
      <4>2. Settled(e) /\ ~HasPending(e) /\ e.state = d.state /\ e.completed = c.completed
        BY <4>1, DropPendingSound
      <4>3. d.state \in ActionStates
        BY <2>1, PendingInActionState
      <4> QED
        BY <4>1, <4>2, <4>3, CompleteActionSound
    <3> QED
      BY <2>2, <3>1, <3>2, CachedTickAccount
  <2> QED
    BY <1>1, <1>3, <2>3, <2>4, <2>5 DEF AckPending, v, d, c, e
<1> QED
  BY <1>2, <1>3

\* acknowledge keeps the invariant.
LEMMA AcknowledgeAccount ==
    ASSUME Settled(m), Accounted(m), Acknowledge
    PROVE  Accounted(m')
<1>1. PICK now \in CallTimes :
        \/ AckMalformed(now)
        \/ \E op \in AckOps :
             \/ AckStaleDropped(now, op)
             \/ \E success \in BOOLEAN : AckDuplicate(now, op, success)
             \/ \E gen \in Generations, rec \in Recoveries :
                  AckUnknown(now, op, gen, rec)
        \/ \E success \in BOOLEAN, evidence \in Evidence :
             AckPending(now, success, evidence)
  BY DEF Acknowledge
<1> DEFINE v == ValidateTime(m, now)
           d == RecoveryDeadline(v)
<1>2. /\ Accounted(v)
      /\ \A why : Accounted(EnterTerminal(v, why)) /\ Accounted(EnterTerminal(d, why))
  BY CalledAccount
<1>3. CASE AckMalformed(now)
  BY <1>2, <1>3 DEF AckMalformed
<1>4. ASSUME NEW op, AckStaleDropped(now, op)
      PROVE  Accounted(m')
  BY <1>2, <1>4 DEF AckStaleDropped
<1>5. ASSUME NEW op, NEW success, AckDuplicate(now, op, success)
      PROVE  Accounted(m')
  BY <1>2, <1>5 DEF AckDuplicate
<1>6. ASSUME NEW op, NEW gen, NEW rec, AckUnknown(now, op, gen, rec)
      PROVE  Accounted(m')
  BY <1>2, <1>6 DEF AckUnknown
<1>7. ASSUME NEW success \in BOOLEAN, NEW evidence, AckPending(now, success, evidence)
      PROVE  Accounted(m')
  BY <1>7, AckPendingAccount
<1> QED
  BY <1>1, <1>3, <1>4, <1>5, <1>6, <1>7

\* observe keeps the invariant.
LEMMA ObserveAccount ==
    ASSUME Settled(m), Accounted(m), Observe
    PROVE  Accounted(m')
<1>1. PICK now \in CallTimes :
        \/ ObserveIdle(now)
        \/ ObserveInvalid(now)
        \/ \E goal \in Goals :
             \/ ObserveForeignGoal(now, goal)
             \/ \E flags \in SafetyFlags : ObserveValid(now, goal, flags)
  BY DEF Observe
<1> DEFINE v == ValidateTime(m, now)
<1>2. Settled(v) /\ Accounted(v) /\ \A why : Accounted(EnterTerminal(v, why))
  BY CalledAccount
<1>3. CASE ObserveIdle(now) \/ ObserveInvalid(now)
  BY <1>2, <1>3 DEF ObserveIdle, ObserveInvalid
<1>4. ASSUME NEW goal, ObserveForeignGoal(now, goal)
      PROVE  Accounted(m')
  BY <1>2, <1>4 DEF ObserveForeignGoal
<1>5. ASSUME NEW goal \in Goals, NEW flags \in SafetyFlags,
             ObserveValid(now, goal, flags)
      PROVE  Accounted(m')
  <2> DEFINE a == AdoptGoal(v, goal)
             t == TickWith(a, flags, FALSE)
  <2>1. GoalAdmitted(v, goal)
    BY <1>5 DEF ObserveValid
  <2> HIDE DEF v
  <2>2. Settled(a) /\ Accounted(a)
    BY <1>2, <2>1, AdoptGoalSound, AdoptGoalAccount DEF Settled
  <2> HIDE DEF a
  <2>3. Settled(t) /\ Accounted(t)
    BY <2>2, TickWithSound, TickWithAccount DEF Settled, Guarded
  <2> HIDE DEF t
  <2>4. \A running, stuck \in BOOLEAN :
          Accounted(ObserveProgress(t, flags, running, stuck))
    BY <2>3, ObserveProgressAccount
  <2>5. \A p \in Plans : \A running, stuck, window, order :
          Accounted(ObserveProgress(PlanArrival(t, p, running, window, order),
                                    flags, running, stuck))
    BY <2>3, PlanArrivalSound, PlanArrivalAccount, ObserveProgressAccount
  <2> QED
    BY <1>5, <2>3, <2>4, <2>5 DEF ObserveValid, a, t, v
<1> QED
  BY <1>1, <1>3, <1>4, <1>5

\* submit_replanned_trajectory keeps the invariant.
LEMMA SubmitAccount ==
    ASSUME Settled(m), Accounted(m), Submit
    PROVE  Accounted(m')
<1>1. PICK now \in CallTimes :
        \/ SubmitStopped(now)
        \/ \E op \in {m.awaiting, NoOperation}, gen \in Generations,
              rec \in Recoveries :
             \/ SubmitRefused(now, op, gen, rec)
             \/ SubmitLate(now, op, gen, rec)
             \/ SubmitInvalid(now, op, gen, rec)
             \/ \E p \in Plans : \/ SubmitOld(now, op, gen, rec, p)
                                 \/ SubmitNovel(now, op, gen, rec, p)
  BY DEF Submit
<1> DEFINE d == RecoveryDeadline(ValidateTime(m, now))
<1>2. /\ Settled(d) /\ Accounted(d) /\ MachineType(d) /\ PendingMatches(d)
      /\ \A why : Accounted(EnterTerminal(d, why))
  BY CalledAccount DEF Settled, Guarded, Sound
<1>3. ASSUME NEW q, MachineType(q), q.state = d.state, q.gen = d.gen,
             q.recoveries = d.recoveries, q.pending = d.pending,
             q.completed = d.completed, q.retired = d.retired, q.opSeq = d.opSeq,
             q.fallback = d.fallback, q.startedAt = d.startedAt,
             d.state = "wait_fresh_plan"
      PROVE  /\ Accounted(CachedTick(Transition(q, "request_replan")))
             /\ \A why : Accounted(CachedTick(StartRetreatOrStop(q, why)))
  <2> HIDE DEF d
  <2>1. /\ ~HasPending(q) /\ q.startedAt # NoTime /\ q.state # "terminal_safe_stop"
    BY <1>2, <1>3, NoStrayPending DEF HasPending, Settled, Guarded, Sound, WayForward,
       RecoveryStates, ActionStates
  <2>2. Settled(Transition(q, "request_replan"))
    BY <1>3, <2>1, TransitionSound DEF ActionStates
  <2>3. \A why : Settled(StartRetreatOrStop(q, why))
    BY <1>3, <2>1, StartRetreatOrStopSound
  <2>4. /\ Accounted(Transition(q, "request_replan"))
        /\ \A why : Accounted(StartRetreatOrStop(q, why))
    BY <1>2, <1>3, WaitOverAccount
  <2> QED
    BY <2>2, <2>3, <2>4, CachedTickAccount
<1>4. \A op, gen, rec : Answers(d, op, gen, rec) => d.state = "wait_fresh_plan"
  BY DEF Answers
<1>5. CASE SubmitStopped(now)
  BY <1>2, <1>5 DEF SubmitStopped
<1>6. ASSUME NEW op, NEW gen, NEW rec, SubmitRefused(now, op, gen, rec)
      PROVE  Accounted(m')
  BY <1>2, <1>6 DEF SubmitRefused
<1>7. ASSUME NEW op, NEW gen, NEW rec, SubmitInvalid(now, op, gen, rec)
      PROVE  Accounted(m')
  BY <1>2, <1>7 DEF SubmitInvalid
<1>8. ASSUME NEW op, NEW gen, NEW rec, SubmitLate(now, op, gen, rec)
      PROVE  Accounted(m')
  <2> DEFINE q == [d EXCEPT !.awaiting = NoOperation, !.planDeadline = NoTime]
  <2>1. d.state = "wait_fresh_plan"
    BY <1>4, <1>8 DEF SubmitLate
  <2> HIDE DEF d
  <2>2. /\ MachineType(q) /\ q.state = d.state /\ q.gen = d.gen
        /\ q.recoveries = d.recoveries /\ q.pending = d.pending
        /\ q.completed = d.completed /\ q.retired = d.retired /\ q.opSeq = d.opSeq
        /\ q.fallback = d.fallback /\ q.startedAt = d.startedAt
    BY <1>2, Constants, Fields DEF MachineType
  <2> HIDE DEF q
  <2> QED
    BY <1>3, <1>8, <2>1, <2>2 DEF SubmitLate, d, q
<1>9. ASSUME NEW op, NEW gen, NEW rec, NEW p \in Plans, SubmitOld(now, op, gen, rec, p)
      PROVE  Accounted(m')
  <2> DEFINE taboo == AddTaboo(d.taboo, p)
             q == [d EXCEPT !.taboo = taboo, !.rejections = @ + 1]
  <2>1. d.state = "wait_fresh_plan"
    BY <1>4, <1>9 DEF SubmitOld
  <2> HIDE DEF d, taboo
  <2>2. /\ MachineType(q) /\ q.state = d.state /\ q.gen = d.gen
        /\ q.recoveries = d.recoveries /\ q.pending = d.pending
        /\ q.completed = d.completed /\ q.retired = d.retired /\ q.opSeq = d.opSeq
        /\ q.fallback = d.fallback /\ q.startedAt = d.startedAt
    <3>1. MachineType(q)
      BY <1>2, RejectPlanType
    <3> QED
      BY <1>2, <3>1, Fields DEF MachineType
  <2> HIDE DEF q
  <2> QED
    BY <1>3, <1>9, <2>1, <2>2 DEF SubmitOld, d, q, taboo
<1>10. ASSUME NEW op, NEW gen, NEW rec, NEW p \in Plans, SubmitNovel(now, op, gen, rec, p)
       PROVE  Accounted(m')
  <2> DEFINE q == [d EXCEPT !.accepted = p, !.planDeadline = NoTime,
                            !.awaiting = NoOperation]
  <2>1. d.state = "wait_fresh_plan"
    BY <1>4, <1>10 DEF SubmitNovel
  <2>2. ~IsOld(d, p) /\ p # NoPlan
    BY <1>10, PlansAssumption DEF SubmitNovel
  <2> HIDE DEF d
  <2>3. /\ MachineType(q) /\ q.state = d.state /\ q.gen = d.gen
        /\ q.recoveries = d.recoveries /\ q.pending = d.pending
        /\ q.completed = d.completed /\ q.retired = d.retired /\ q.opSeq = d.opSeq
        /\ q.fallback = d.fallback /\ q.startedAt = d.startedAt
        /\ q.accepted = p /\ q.seen = d.seen /\ q.taboo = d.taboo
    BY <1>2, Constants, Fields DEF MachineType
  <2> HIDE DEF q
  <2>4. ~HasPending(q) /\ ~IsOld(q, p) /\ q.startedAt # NoTime
    <3>1. ~HasPending(d) /\ d.startedAt # NoTime
      BY <1>2, <2>1, NoStrayPending DEF Settled, Guarded, Sound, WayForward,
         RecoveryStates, ActionStates
    <3> QED
      BY <2>2, <2>3, <3>1 DEF HasPending, IsOld, IsTaboo
  <2>5. ~(Cardinality(d.seen) >= TabooCapacity) =>
          Settled(Transition(q, "accept_fresh_plan"))
    BY <2>2, <2>3, <2>4, AcceptTransitionSound
  <2>6. Accounted(Transition(q, "accept_fresh_plan"))
    BY <1>2, <2>1, <2>3, WaitOverAccount
  <2>7. ~(Cardinality(d.seen) >= TabooCapacity) =>
          Accounted(CachedTick(Transition(q, "accept_fresh_plan")))
    BY <2>5, <2>6, CachedTickAccount
  <2> QED
    BY <1>2, <1>10, <2>7 DEF SubmitNovel, d, q
<1> QED
  BY <1>1, <1>5, <1>6, <1>7, <1>8, <1>9, <1>10

-----------------------------------------------------------------------------
(* The theorems.                                                           *)

\* The initial machine has issued nothing.
LEMMA InitialAccount == Init => Accounted(m)
<1> SUFFICES ASSUME Init PROVE Accounted(m)
  OBVIOUS
<1>1. /\ m.state = "idle" /\ m.pending = NoCommand /\ m.completed = <<>>
      /\ m.retired = <<>> /\ m.opSeq = 0
  BY DEF Init, InitialMachine
<1>2. Range(m.retired) = {} /\ DOMAIN m.completed = {}
  BY <1>1 DEF Range
<1>3. Known(m) = {} /\ ~HasPending(m) /\ m.pending.op = NoOperation
  BY <1>1, <1>2 DEF Known, CompletedOps, HasPending, NoCommand, Range
<1>4. NoOperation.seq <= m.opSeq
  BY <1>1 DEF NoOperation
<1>5. Numbered(m) /\ PendingIsFresh(m)
  BY <1>3, <1>4 DEF Numbered, PendingIsFresh
<1>6. Ordered(m) /\ Clean(m)
  BY <1>2 DEF Ordered, Clean, CompletedAt
<1>7. Placed(m)
  BY <1>1 DEF Placed, RecoveryStates, ActionStates
<1> QED
  BY <1>1, <1>5, <1>6, <1>7 DEF Accounted

\* The inductive invariant: the histories, bounded as they are, tell what became
\* of the motions of the current recovery.
THEOREM AccountedAlways == Spec => [](Settled(m) /\ Accounted(m))
<1>1. Init => Accounted(m)
  BY InitialAccount
<1>2. Settled(m) /\ Accounted(m) /\ [Next]_m => Accounted(m)'
  <2>1. ASSUME Accounted(m), UNCHANGED m PROVE Accounted(m)'
    BY <2>1
  <2>2. Settled(m) /\ Accounted(m) /\ Next => Accounted(m')
    BY EpisodeAccount, ClockedAccount, AcknowledgeAccount, ObserveAccount, SubmitAccount
       DEF Next
  <2> QED
    BY <2>1, <2>2
<1> QED
  BY <1>1, <1>2, SettledAlways, PTL DEF Spec

\* An outstanding command is the one of the machine's state, of the current
\* generation and recovery, and in no history, whatever was forgotten; and the
\* replan request the machine waits for is one of the current recovery.
THEOREM OutstandingStaysCurrent == Spec => []OutstandingIsCurrent
<1>1. Settled(m) /\ Accounted(m) => OutstandingIsCurrent
  <2> SUFFICES ASSUME Settled(m), Accounted(m) PROVE OutstandingIsCurrent
    OBVIOUS
  <2>1. MachineType(m) /\ PendingMatches(m)
    BY DEF Settled, Guarded, Sound
  <2>2. ASSUME HasPending(m)
        PROVE  /\ m.state \in ActionStates
               /\ m.pending.action = ActionByState(m.state)
               /\ m.pending.op.gen = m.gen
               /\ m.pending.op.rec = m.recoveries
               /\ m.pending.op \notin Known(m)
    BY <2>1, <2>2, PendingInActionState
       DEF ActionByState, Accounted, Numbered, PendingIsFresh, OfRecovery
  <2>3. ASSUME m.state = "wait_fresh_plan"
        PROVE  /\ m.awaiting.act = "request_replan"
               /\ m.awaiting.gen = m.gen
               /\ m.awaiting.rec = m.recoveries
    BY <2>3 DEF Accounted, Placed, OfRecovery
  <2> QED
    BY <2>2, <2>3 DEF OutstandingIsCurrent, OutstandingCurrent
<1> QED
  BY <1>1, AccountedAlways, PTL

\* A set without two, or without three, different members has at most one, or two.
LEMMA FewMembers ==
    ASSUME NEW S
    PROVE  /\ (\A a, b \in S : a = b) => Cardinality(S) \in {0, 1}
           /\ (\A a, b, c \in S : a = b \/ b = c \/ a = c) => Cardinality(S) \in {0, 1, 2}
           /\ (\A a, b \in S : a = b) /\ S # {} => Cardinality(S) = 1
<1>1. CASE S = {}
  BY <1>1, FS_EmptySet
<1>2. CASE S # {}
  <2>1. PICK a \in S : TRUE
    BY <1>2
  <2>2. IsFiniteSet({a}) /\ Cardinality({a}) = 1
    BY FS_Singleton
  <2>3. CASE \A b \in S : a = b
    <3>1. S = {a}
      BY <2>1, <2>3
    <3> QED
      BY <1>2, <2>2, <3>1
  <2>4. CASE ~(\A b \in S : a = b)
    <3>1. PICK b \in S : a # b
      BY <2>4
    <3>2. Cardinality({a} \cup {b}) = 2
      BY <2>2, <3>1, FS_AddElement
    <3>3. (\A x, y, z \in S : x = y \/ y = z \/ x = z) => S = {a} \cup {b}
      BY <2>1, <3>1
    <3> QED
      BY <2>1, <3>1, <3>2, <3>3
  <2> QED
    BY <2>3, <2>4
<1> QED
  BY <1>1, <1>2

\* A recovery retreats at most once and scans at most twice, for every bound on
\* the histories and whatever is acknowledged, lost, late or repeated: failed
\* motions count, because a motion that fails stops the machine.
THEOREM MotionIsBounded == Spec => []MotionBudget
<1>1. Settled(m) /\ Accounted(m) => MotionBudget
  <2> SUFFICES ASSUME Settled(m), Accounted(m) PROVE MotionBudget
    OBVIOUS
  <2>1. Budgeted(m)
    BY WithinBudget DEF Settled, Guarded, Sound
  <2>2. \A act : IssuedInRecovery(act) = Issued(m, act)
    BY DEF IssuedInRecovery, Issued, OfRecovery
  <2> DEFINE R == Issued(m, "safe_retreat")
             S == Issued(m, "scan")
  <2>3. /\ \A a, b \in R : a = b
        /\ \A a, b \in S : a = b \/ R # {}
        /\ \A a, b, c \in S : a = b \/ b = c \/ a = c
    BY <2>1 DEF Budgeted
  <2> HIDE DEF R, S
  <2>4. Cardinality(R) \in {0, 1} /\ Cardinality(S) \in {0, 1, 2}
    BY <2>3, FewMembers
  <2>5. CASE R = {}
    <3>1. \A a, b \in S : a = b
      BY <2>3, <2>5
    <3>2. Cardinality(S) \in {0, 1}
      BY <3>1, FewMembers
    <3>3. Cardinality(R) <= 1 /\ Cardinality(S) <= 1 + Cardinality(R)
      BY <2>4, <3>2
    <3> QED
      BY <2>2, <3>3 DEF MotionBudget, R, S
  <2>6. CASE R # {}
    <3>1. Cardinality(R) = 1
      BY <2>3, <2>6, FewMembers
    <3>2. Cardinality(R) <= 1 /\ Cardinality(S) <= 1 + Cardinality(R)
      BY <2>4, <3>1
    <3> QED
      BY <2>2, <3>2 DEF MotionBudget, R, S
  <2> QED
    BY <2>5, <2>6
<1> QED
  BY <1>1, AccountedAlways, PTL

-----------------------------------------------------------------------------
(* What a handler returns.                                                 *)

\* Nothing was returned so far, or the machine has stopped and returned the stop.
Hushed(r) ==
    \/ r.outbox = <<>>
    \/ /\ r.state = "terminal_safe_stop"
       /\ Len(r.outbox) = 1 /\ r.outbox[1].action = "latch_safe_stop"

\* The outstanding command has just been issued: its gates and deadlines are met.
Uttered(r) ==
    /\ HasPending(r) /\ Len(r.outbox) = 1 /\ r.outbox[1] = r.pending
    /\ r.lastNow <= r.pending.deadline
    /\ r.lastNow - r.startedAt <= MaxRecoveryDuration
    /\ r.safety.estop = "ready"
    /\ r.state \in SafetyGatedActions => r.safety.clear
    /\ r.state = "safe_retreat" => r.safety.rear

\* What may have been returned when the handler ends.
Said(r) ==
    \/ r.outbox = <<>>
    \/ Len(r.outbox) = 1 /\ r.outbox[1].action = "latch_safe_stop"
    \/ Uttered(r)

\* The emergency stop is ready and the recovery within its time.
Cleared(r) ==
    r.state # "terminal_safe_stop" =>
        /\ r.safety.estop = "ready"
        /\ r.startedAt # NoTime => r.lastNow - r.startedAt <= MaxRecoveryDuration

\* q comes from r by a method that returns no command but the stop.
Quiet(q, r) ==
    /\ q.safety = r.safety /\ q.lastNow = r.lastNow /\ q.startedAt = r.startedAt
    /\ Hushed(r) => Hushed(q)
    /\ r.state = "terminal_safe_stop" => q.state = "terminal_safe_stop"

\* A machine that is not stopped and has returned nothing returns nothing by
\* changing other fields.
LEMMA StillQuiet ==
    ASSUME NEW r, NEW q, q.safety = r.safety, q.lastNow = r.lastNow,
           q.startedAt = r.startedAt, q.outbox = r.outbox,
           r.state = "terminal_safe_stop" => q.state = "terminal_safe_stop"
    PROVE  Quiet(q, r)
BY DEF Quiet, Hushed

\* Methods that follow one another.
LEMMA QuietTwice ==
    ASSUME NEW r, NEW q, NEW s, Quiet(q, r), Quiet(s, q)
    PROVE  Quiet(s, r) /\ (Cleared(r) => Cleared(q))
BY DEF Quiet, Cleared

\* Stopping returns the stop, once.
LEMMA EnterTerminalQuiet ==
    ASSUME NEW r, MachineType(r), NEW why
    PROVE  Quiet(EnterTerminal(r, why), r)
<1>1. CASE r.state = "terminal_safe_stop"
  BY <1>1 DEF EnterTerminal, Quiet
<1>2. CASE r.state # "terminal_safe_stop"
  <2> DEFINE p == RetirePending(r)
             q == [p EXCEPT !.state = "terminal_safe_stop", !.reason = why]
             stop == [action |-> "latch_safe_stop",
                      op |-> NewOperation(q, "latch_safe_stop"),
                      issued |-> q.lastNow, deadline |-> q.lastNow, plan |-> NoPlan]
             e == EnterTerminal(r, why)
  <2>1. /\ DOMAIN p = DOMAIN InitialMachine
        /\ p.safety = r.safety /\ p.lastNow = r.lastNow /\ p.startedAt = r.startedAt
        /\ p.outbox = r.outbox
    BY Fields DEF RetirePending, MachineType
  <2> HIDE DEF p
  <2>2. /\ DOMAIN q = DOMAIN InitialMachine
        /\ q.safety = r.safety /\ q.lastNow = r.lastNow /\ q.startedAt = r.startedAt
        /\ q.outbox = r.outbox
    BY <2>1, Fields
  <2>3. e = QueueSafeStop(q)
    BY <1>2 DEF EnterTerminal, p
  <2> HIDE DEF q
  <2>4. stop.action = "latch_safe_stop"
    OBVIOUS
  <2>5. /\ e.safety = r.safety /\ e.lastNow = r.lastNow /\ e.startedAt = r.startedAt
        /\ e.outbox = Append(r.outbox, stop)
    BY <2>2, <2>3, Fields DEF QueueSafeStop
  <2>6. e.state = "terminal_safe_stop"
    BY EnterTerminalType
  <2> HIDE DEF e, stop
  <2>7. r.outbox = <<>> => Len(e.outbox) = 1 /\ e.outbox[1] = stop
    BY <2>5
  <2> QED
    BY <1>2, <2>4, <2>5, <2>6, <2>7 DEF Quiet, Hushed, e
<1> QED
  BY <1>1, <1>2

\* Moving to another state returns nothing.
LEMMA TransitionQuiet ==
    ASSUME NEW r, MachineType(r), r.state # "terminal_safe_stop", NEW s
    PROVE  Quiet(Transition(r, s), r)
<1> DEFINE q == Transition(r, s)
<1>1. /\ q.safety = r.safety /\ q.lastNow = r.lastNow /\ q.startedAt = r.startedAt
      /\ q.outbox = r.outbox
  BY Fields DEF Transition, MachineType
<1> HIDE DEF q
<1> QED
  BY <1>1, StillQuiet DEF q

\* The fallback returns nothing, or the stop.
LEMMA StartRetreatOrStopQuiet ==
    ASSUME NEW r, MachineType(r), r.state # "terminal_safe_stop", NEW why
    PROVE  Quiet(StartRetreatOrStop(r, why), r)
<1> DEFINE q == [r EXCEPT !.planDeadline = NoTime]
           p == [q EXCEPT !.fallback = TRUE]
<1>1. /\ MachineType(q) /\ q.state = r.state /\ q.safety = r.safety
      /\ q.lastNow = r.lastNow /\ q.startedAt = r.startedAt /\ q.outbox = r.outbox
  BY Fields DEF MachineType
<1> HIDE DEF q
<1>2. /\ MachineType(p) /\ p.state = r.state /\ p.safety = r.safety
      /\ p.lastNow = r.lastNow /\ p.startedAt = r.startedAt /\ p.outbox = r.outbox
  BY <1>1, Fields DEF MachineType
<1> HIDE DEF p
<1>3. Quiet(q, r) /\ Quiet(p, r)
  BY <1>1, <1>2, StillQuiet
<1>4. Quiet(EnterTerminal(q, why), q) /\ Quiet(Transition(p, "safe_retreat"), p)
  BY <1>1, <1>2, EnterTerminalQuiet, TransitionQuiet
<1>5. Quiet(EnterTerminal(q, why), r) /\ Quiet(Transition(p, "safe_retreat"), r)
  BY <1>3, <1>4, QuietTwice
<1> QED
  BY <1>5 DEF StartRetreatOrStop, p, q

\* A retry returns nothing, or the stop.
LEMMA RetryOrFailQuiet ==
    ASSUME NEW r, MachineType(r), r.state # "terminal_safe_stop", NEW why
    PROVE  Quiet(RetryOrFail(r, why), r)
<1> DEFINE q == RetirePending(r)
           b == [q EXCEPT !.notBefore = r.lastNow + RetryBackoff]
<1>1. /\ MachineType(q) /\ q.state = r.state /\ q.safety = r.safety
      /\ q.lastNow = r.lastNow /\ q.startedAt = r.startedAt /\ q.outbox = r.outbox
  BY RetirePendingType, Fields DEF RetirePending, MachineType
<1> HIDE DEF q
<1>2. /\ b.state = r.state /\ b.safety = r.safety
      /\ b.lastNow = r.lastNow /\ b.startedAt = r.startedAt /\ b.outbox = r.outbox
  BY <1>1, Fields DEF MachineType
<1> HIDE DEF b
<1>3. Quiet(q, r) /\ Quiet(b, r)
  BY <1>1, <1>2, StillQuiet
<1>4. \A any : Quiet(EnterTerminal(q, any), q) /\ Quiet(StartRetreatOrStop(q, any), q)
  BY <1>1, EnterTerminalQuiet, StartRetreatOrStopQuiet
<1>5. \A any : Quiet(EnterTerminal(q, any), r) /\ Quiet(StartRetreatOrStop(q, any), r)
  BY <1>3, <1>4, QuietTwice
<1> QED
  BY <1>3, <1>5 DEF RetryOrFail, q, b

\* The paragraphs of tick before the last one return nothing but the stop.
LEMMA ParagraphsQuiet ==
    ASSUME NEW r, MachineType(r), PendingMatches(r)
    PROVE  /\ Quiet(SafetyGate(r), r) /\ Quiet(RecoveryDeadline(r), r)
           /\ Quiet(PendingExpiry(r), r) /\ Quiet(PlanWaitExpiry(r), r)
           /\ Quiet(CooldownExpiry(r), r)
<1>1. Quiet(r, r)
  BY StillQuiet
<1>2. \A why : Quiet(EnterTerminal(r, why), r)
  BY EnterTerminalQuiet
<1>3. Quiet(SafetyGate(r), r) /\ Quiet(RecoveryDeadline(r), r)
  BY <1>1, <1>2 DEF SafetyGate, RecoveryDeadline
<1>4. Quiet(PendingExpiry(r), r)
  BY <1>1, PendingInActionState, RetryOrFailQuiet DEF PendingExpiry, ActionStates
<1>5. Quiet(PlanWaitExpiry(r), r)
  BY <1>1, TransitionQuiet, StartRetreatOrStopQuiet DEF PlanWaitExpiry
<1>6. Quiet(CooldownExpiry(r), r)
  <2> DEFINE t == Transition(r, "monitoring")
             q == [t EXCEPT !.samples = NoSamples, !.arrivals = <<>>,
                            !.cooldownUntil = NoTime]
  <2>1. r.state = "cooldown" => Quiet(t, r)
    BY TransitionQuiet
  <2>2. MachineType(t)
    BY TransitionType DEF States
  <2> HIDE DEF t
  <2>3. /\ q.state = t.state /\ q.safety = t.safety /\ q.lastNow = t.lastNow
        /\ q.startedAt = t.startedAt /\ q.outbox = t.outbox
    BY <2>2, Fields DEF MachineType
  <2>4. \/ CooldownExpiry(r) = r
        \/ r.state = "cooldown" /\ CooldownExpiry(r) = q
    BY DEF CooldownExpiry, t
  <2> HIDE DEF q
  <2>5. Quiet(q, t)
    BY <2>3, StillQuiet
  <2> QED
    BY <1>1, <2>1, <2>4, <2>5, QuietTwice
<1> QED
  BY <1>3, <1>4, <1>5, <1>6

\* The last paragraph issues at most one command, if its gates are open.
LEMMA IssueWhenDueSaid ==
    ASSUME NEW r, Settled(r), Hushed(r), Cleared(r)
    PROVE  LET q == IssueWhenDue(r)
           IN  q.safety = r.safety /\ (Hushed(q) \/ Uttered(q))
<1> DEFINE q == IssueWhenDue(r)
           i == IssueCommand(r, r.state)
           c == [action |-> r.state, op |-> NewOperation(r, r.state),
                 issued |-> r.lastNow, deadline |-> r.lastNow + ActionTimeout,
                 plan |-> IF r.state = "accept_fresh_plan" THEN r.accepted ELSE NoPlan]
<1>1. MachineType(r)
  BY DEF Settled
<1>2. CASE q = r
  BY <1>2
<1>3. CASE q # r
  <2>1. /\ r.state \in ActionStates /\ ~HasPending(r) /\ q = IssueCurrentAction(r)
        /\ r.state # "terminal_safe_stop"
    BY <1>3 DEF IssueWhenDue, ActionStates
  <2>2. \A why : /\ Quiet(EnterTerminal(r, why), r)
                 /\ Quiet(StartRetreatOrStop(r, why), r)
    BY <1>1, <2>1, EnterTerminalQuiet, StartRetreatOrStopQuiet
  <2>3. \/ Quiet(q, r)
        \/ /\ q = i
           /\ r.state \in SafetyGatedActions => r.safety.clear
           /\ r.state = "safe_retreat" => r.safety.rear
    BY <2>1, <2>2 DEF IssueCurrentAction, ActionByState, CachedSafetyIsFresh
  <2>4. /\ i.pending = c /\ i.outbox = Append(r.outbox, c) /\ i.state = r.state
        /\ i.lastNow = r.lastNow /\ i.startedAt = r.startedAt /\ i.safety = r.safety
    BY <1>1, Fields DEF IssueCommand, MachineType
  <2>5. c.action = r.state /\ c.deadline = r.lastNow + ActionTimeout
    OBVIOUS
  <2> HIDE DEF q, i, c
  <2>6. r.outbox = <<>>
    BY <2>1 DEF Hushed
  <2>7. Len(i.outbox) = 1 /\ i.outbox[1] = c
    BY <2>4, <2>6
  <2>8. HasPending(i)
    BY <2>1, <2>4, <2>5 DEF HasPending, ActionStates
  <2>9. i.lastNow <= i.pending.deadline
    BY <1>1, <2>4, <2>5, Counters, ConfigAssumption, SMTT(30)
  <2>10. r.startedAt # NoTime
    BY <2>1 DEF Settled, Guarded, Sound, WayForward, RecoveryStates
  <2>11. Quiet(q, r) => q.safety = r.safety /\ Hushed(q)
    BY DEF Quiet
  <2>12. ASSUME r.state \in SafetyGatedActions => r.safety.clear,
                r.state = "safe_retreat" => r.safety.rear
         PROVE  i.safety = r.safety /\ Uttered(i)
    <3>1. /\ i.safety.estop = "ready"
          /\ i.lastNow - i.startedAt <= MaxRecoveryDuration
      BY <2>1, <2>4, <2>10 DEF Cleared
    <3>2. /\ i.state \in SafetyGatedActions => i.safety.clear
          /\ i.state = "safe_retreat" => i.safety.rear
      BY <2>4, <2>12
    <3> QED
      BY <2>4, <2>7, <2>8, <2>9, <3>1, <3>2 DEF Uttered
  <2>13. q.safety = r.safety /\ (Hushed(q) \/ Uttered(q))
    BY <2>3, <2>11, <2>12
  <2> QED
    BY <2>13 DEF q
<1> QED
  BY <1>2, <1>3

\* A tick returns at most one command; afterwards it has stored the flags.
LEMMA TickSaid ==
    ASSUME NEW r, MachineType(r), Sound(r), Hushed(r),
           NEW flags \in SafetyFlags, NEW cached \in BOOLEAN
    PROVE  LET t == TickWith(r, flags, cached)
           IN  t.safety = flags /\ (Hushed(t) \/ Uttered(t))
<1> DEFINE q == SetSafety(r, flags, cached)
<1>1. MachineType(q) /\ Sound(q) /\ q.safety = flags
  BY SetSafetySound, Fields, ZenonT(60) DEF SetSafety, MachineType
<1>2. Hushed(q)
  BY Fields DEF SetSafety, MachineType, Hushed
<1> HIDE DEF q
<1> DEFINE a == SafetyGate(q)
           b == RecoveryDeadline(a)
           c == PendingExpiry(b)
           d == PlanWaitExpiry(c)
           e == CooldownExpiry(d)
<1>3. \A x : Settled(x) => MachineType(x) /\ PendingMatches(x)
  BY DEF Settled, Guarded, Sound
<1>4. Settled(a) /\ Quiet(a, q)
  BY <1>1, SafetyGateSound, ParagraphsQuiet DEF Sound
<1>5. a.state # "terminal_safe_stop" => a.safety.estop = "ready"
  <2>1. \A why : EnterTerminal(q, why).state = "terminal_safe_stop"
    BY <1>1, EnterTerminalType
  <2>2. q.safety.estop \in {"ready", "not_ready", "active"}
    BY <1>1 DEF SafetyFlags
  <2> QED
    BY <2>1, <2>2 DEF SafetyGate
<1> HIDE DEF a
<1>6. Settled(b) /\ Quiet(b, a) /\ Cleared(b)
  <2>1. Settled(b) /\ Quiet(b, a)
    BY <1>3, <1>4, RecoveryDeadlineSound, ParagraphsQuiet
  <2>2. \A why : EnterTerminal(a, why).state = "terminal_safe_stop"
    BY <1>3, <1>4, EnterTerminalType
  <2>3. a.startedAt # NoTime /\ b.state # "terminal_safe_stop" =>
          a.lastNow - a.startedAt <= MaxRecoveryDuration
    <3>1. a.lastNow \in Int /\ MaxRecoveryDuration \in Int /\ a.startedAt \in Int
      <4>1. MachineType(a)
        BY <1>3, <1>4
      <4>2. a.lastNow \in Nat /\ a.startedAt \in Nat \cup {NoTime}
        BY <4>1 DEF MachineType
      <4>3. MaxRecoveryDuration \in Nat
        BY ConfigAssumption
      <4> QED
        BY <4>2, <4>3 DEF NoTime
    <3> QED
      BY <2>2, <3>1 DEF RecoveryDeadline
  <2> QED
    BY <1>5, <2>1, <2>3 DEF Quiet, Cleared
<1> HIDE DEF b
<1>7. Settled(c) /\ Quiet(c, b) /\ Cleared(c)
  <2>1. Settled(c) /\ Quiet(c, b)
    BY <1>3, <1>6, PendingExpirySound, ParagraphsQuiet
  <2> QED
    BY <1>6, <2>1 DEF Quiet, Cleared
<1> HIDE DEF c
<1>8. Settled(d) /\ Quiet(d, c) /\ Cleared(d)
  <2>1. Settled(d) /\ Quiet(d, c)
    BY <1>3, <1>7, PlanWaitExpirySound, ParagraphsQuiet
  <2> QED
    BY <1>7, <2>1 DEF Quiet, Cleared
<1> HIDE DEF d
<1>9. Settled(e) /\ Quiet(e, d) /\ Cleared(e)
  <2>1. Settled(e) /\ Quiet(e, d)
    BY <1>3, <1>8, CooldownExpirySound, ParagraphsQuiet
  <2> QED
    BY <1>8, <2>1 DEF Quiet, Cleared
<1> HIDE DEF e
<1>10. Hushed(e) /\ e.safety = flags
  BY <1>1, <1>2, <1>4, <1>6, <1>7, <1>8, <1>9 DEF Quiet
<1> QED
  BY <1>1, <1>2, <1>9, <1>10, IssueWhenDueSaid DEF TickWith, q, a, b, c, d, e

\* A second tick at the same instant with the same flags finds nothing to do.
LEMMA SecondTickSaid ==
    ASSUME NEW r, Settled(r), Uttered(r)
    PROVE  Uttered(TickWith(r, r.safety, FALSE))
<1> DEFINE q == SetSafety(r, r.safety, FALSE)
<1>1. MachineType(r) /\ PendingMatches(r)
  BY DEF Settled, Guarded, Sound
<1>2. /\ q.state = r.state /\ q.pending = r.pending /\ q.outbox = r.outbox
      /\ q.lastNow = r.lastNow /\ q.startedAt = r.startedAt /\ q.safety = r.safety
      /\ q.observedAt = r.lastNow
  BY <1>1, Fields DEF SetSafety, MachineType
<1> HIDE DEF q
<1>3. /\ q.state \in ActionStates /\ q.pending.action = q.state /\ HasPending(q)
  BY <1>1, <1>2, PendingInActionState DEF Uttered, HasPending
<1>4. Uttered(q)
  BY <1>2, <1>3 DEF Uttered
<1>5. q.lastNow \in Nat /\ q.pending.deadline \in Nat /\ q.startedAt \in Int
  BY <1>1, <1>2 DEF MachineType, Commands, NoTime
<1>6. q.state \in SafetyGatedActions => CachedSafetyIsFresh(q)
  <2>1. q.lastNow - q.observedAt <= SafetyFreshness /\ q.observedAt # NoTime
    BY <1>2, <1>5, ConfigAssumption DEF NoTime
  <2> QED
    BY <1>4, <2>1 DEF Uttered, CachedSafetyIsFresh
<1>7. SafetyGate(q) = q
  BY <1>3, <1>4, <1>6 DEF Uttered, SafetyGate
<1>8. RecoveryDeadline(q) = q /\ PendingExpiry(q) = q
  BY <1>4, <1>5, ConfigAssumption DEF Uttered, RecoveryDeadline, PendingExpiry
<1>9. PlanWaitExpiry(q) = q /\ CooldownExpiry(q) = q /\ IssueWhenDue(q) = q
  BY <1>3 DEF PlanWaitExpiry, CooldownExpiry, IssueWhenDue, ActionStates
<1>10. TickWith(r, r.safety, FALSE) = q
  BY <1>3, <1>7, <1>8, <1>9 DEF TickWith, q, ActionStates
<1> QED
  BY <1>4, <1>10

\* A machine that has returned nothing still has not after the fields that matter
\* stay as they were.
LEMMA StillHushed ==
    ASSUME NEW r, NEW q, Hushed(r), q.outbox = r.outbox, q.state = r.state
    PROVE  Hushed(q)
BY DEF Hushed

\* Before it stops, a hushed machine has returned nothing.
LEMMA HushedIsSilent ==
    ASSUME NEW r, Hushed(r), r.state # "terminal_safe_stop"
    PROVE  r.outbox = <<>>
BY DEF Hushed

\* Stopping, retrying and the fallback of a hushed machine, as handlers use them.
LEMMA StopHushed ==
    ASSUME NEW r, MachineType(r), Hushed(r), NEW why
    PROVE  /\ Hushed(EnterTerminal(r, why))
           /\ r.state # "terminal_safe_stop" =>
                Hushed(RetryOrFail(r, why)) /\ Hushed(StartRetreatOrStop(r, why))
BY EnterTerminalQuiet, RetryOrFailQuiet, StartRetreatOrStopQuiet DEF Quiet

\* Moving to another state, whatever it is, keeps a silent machine silent.
LEMMA TransitionHushed ==
    ASSUME NEW r, DOMAIN r = DOMAIN InitialMachine, r.outbox = <<>>, NEW s
    PROVE  Hushed(Transition(r, s))
<1> DEFINE q == Transition(r, s)
<1>1. q.outbox = <<>>
  BY Fields DEF Transition
<1> HIDE DEF q
<1> QED
  BY <1>1 DEF Hushed, q

\* The tick at the end of a handler says at most one thing.
LEMMA CachedTickSaid ==
    ASSUME NEW r, Settled(r), Hushed(r)
    PROVE  Said(CachedTick(r))
<1>1. MachineType(r) /\ Sound(r) /\ r.safety \in SafetyFlags
  BY DEF Settled, Guarded, MachineType
<1> DEFINE t == TickWith(r, r.safety, TRUE)
<1>2. Hushed(t) \/ Uttered(t)
  BY <1>1, TickSaid
<1> HIDE DEF t
<1> QED
  BY <1>2 DEF Said, Hushed, CachedTick, t

\* Completing an action says nothing but the stop: what comes next is for the tick.
LEMMA CompleteActionHushed ==
    ASSUME NEW r, MachineType(r), r.outbox = <<>>, r.state \in ActionStates
    PROVE  Hushed(CompleteAction(r, r.state))
<1> DEFINE deadline == r.lastNow + PlanWaitTimeout
           until == r.lastNow + CooldownTime
           w == [r EXCEPT !.state = "wait_fresh_plan", !.attempt = 0,
                          !.planDeadline = deadline,
                          !.awaiting = Last(r.completed).op]
           f == [r EXCEPT !.replans = 0, !.rejections = 0]
           a == [r EXCEPT !.seen = @ \cup {r.accepted.shape}, !.active = r.accepted,
                   !.startedAt = NoTime, !.state = "cooldown",
                   !.cooldownUntil = until]
<1>1. \A s : Hushed(Transition(r, s))
  BY TransitionHushed DEF MachineType
<1>2. \A why : Hushed(EnterTerminal(r, why))
  BY EnterTerminalQuiet DEF Quiet, Hushed
<1> HIDE DEF deadline, until
<1>3. w.outbox = <<>> /\ a.outbox = <<>>
  BY Fields DEF MachineType
<1>4. DOMAIN f = DOMAIN InitialMachine /\ f.outbox = <<>>
  BY Fields DEF MachineType
<1> HIDE DEF w, a, f
<1>5. Hushed(w) /\ Hushed(a) /\ Hushed(Transition(f, "scan"))
  BY <1>3, <1>4, TransitionHushed DEF Hushed
<1>6. Hushed(CompleteAccept(r))
  BY <1>2, <1>5 DEF CompleteAccept, a, until
<1>7. r.state = "request_replan" => CompleteAction(r, r.state) = w
  BY DEF CompleteAction, w, deadline
<1>8. r.state # "request_replan" =>
        CompleteAction(r, r.state) \in
          {Transition(r, "clear_local_cache"), Transition(r, "scan"),
           Transition(r, "request_replan"), Transition(f, "scan"), CompleteAccept(r)}
  BY DEF CompleteAction, ActionStates, f
<1> QED
  BY <1>1, <1>5, <1>6, <1>7, <1>8

\* Starting a recovery says nothing but the stop.
LEMMA StartRecoveryHushed ==
    ASSUME NEW r, MachineType(r), r.outbox = <<>>, NEW extras
    PROVE  Hushed(StartRecovery(r, extras))
<1> DEFINE taboo == AddTabooAll(r.taboo, <<r.active>> \o extras)
           q == [r EXCEPT !.recoveries = @ + 1, !.startedAt = r.lastNow,
                     !.fallback = FALSE, !.replans = 0, !.rejections = 0,
                     !.commands = 0, !.accepted = NoPlan,
                     !.taboo = taboo, !.samples = NoSamples, !.blamed = r.active]
<1> HIDE DEF taboo
<1>1. DOMAIN q = DOMAIN InitialMachine /\ q.outbox = <<>>
  BY Fields DEF MachineType
<1> HIDE DEF q
<1>2. Hushed(Transition(q, "cancel_goal"))
  BY <1>1, TransitionHushed
<1>3. \A why : Hushed(EnterTerminal(r, why))
  BY EnterTerminalQuiet DEF Quiet, Hushed
<1> QED
  BY <1>2, <1>3 DEF StartRecovery, q, taboo

\* A command has been issued only in a state that issues one.
LEMMA UtteredInActionState ==
    ASSUME NEW r, Settled(r), Uttered(r)
    PROVE  r.state \in ActionStates /\ r.state \notin {"monitoring", "terminal_safe_stop"}
BY PendingInActionState DEF Settled, Guarded, Sound, Uttered, ActionStates

\* A plan update says nothing but the stop, and leaves alone a command that the
\* tick before it has issued.
LEMMA PlanArrivalSaid ==
    ASSUME NEW r, Settled(r), Hushed(r) \/ Uttered(r), r.state # "terminal_safe_stop",
           NEW p \in Plans, NEW running, NEW window, NEW order
    PROVE  LET b == PlanArrival(r, p, running, window, order)
           IN  Hushed(b) \/ (Uttered(b) /\ b.safety = r.safety)
<1> DEFINE push == PushBounded(r.arrivals, p, TabooCapacity)
           a == [r EXCEPT !.active = p, !.arrivals = push]
           marked == [a EXCEPT !.seen = @ \cup {p.shape}]
<1>1. MachineType(r)
  BY DEF Settled
<1>2. push \in Seq(Plans)
  BY <1>1, PushBoundedType, ConfigAssumption DEF MachineType
<1> HIDE DEF push
<1>3. /\ MachineType(a)
      /\ a.state = r.state /\ a.pending = r.pending /\ a.outbox = r.outbox
      /\ a.lastNow = r.lastNow /\ a.startedAt = r.startedAt /\ a.safety = r.safety
  BY <1>1, <1>2, Fields DEF MachineType
<1> HIDE DEF a
<1>4. MachineType(marked) /\ marked.outbox = a.outbox
  <2>1. a.seen \cup {p.shape} \subseteq {q.shape : q \in Plans}
    BY <1>3 DEF MachineType
  <2> QED
    BY <1>3, <2>1, Fields, SMTT(30) DEF MachineType
<1> HIDE DEF marked
<1> DEFINE recent == RecentSignatures(a.arrivals)
           Extras(S) == InOrder(order, S)
           first == StartRecovery(a, Extras(recent))
           b == IF ~(r.state = "monitoring" /\ running) THEN a
                ELSE IF p.shape \in r.seen THEN first
                ELSE IF Cardinality(r.seen) >= TabooCapacity
                THEN EnterTerminal(a, "plan_history_capacity_exhausted")
                ELSE marked
           cycle == PlanCycle(b.arrivals, window)
           cycled == Extras({q \in recent : q.shape \in cycle})
           end == PlanArrival(r, p, running, window, order)
<1> HIDE DEF recent, Extras
<1>5. end = IF cycle # {} /\ b.state = "monitoring" /\ running
            THEN StartRecovery(b, cycled) ELSE b
  BY DEF PlanArrival, b, cycle, recent, Extras, a, push, marked, first
<1>6. CASE r.state = "monitoring"
  <2>1. a.outbox = <<>>
    BY <1>3, <1>6, UtteredInActionState, HushedIsSilent
  <2>2. Hushed(first) /\ Hushed(a) /\ Hushed(marked)
    BY <1>3, <1>4, <2>1, StartRecoveryHushed DEF Hushed
  <2>3. \A why : /\ Hushed(EnterTerminal(a, why))
                 /\ EnterTerminal(a, why).state = "terminal_safe_stop"
    BY <1>3, <2>2, StopHushed, EnterTerminalType
  <2>4. first.state # "monitoring"
    BY <1>3, <2>3, Fields DEF StartRecovery, Transition, MachineType
  <2> HIDE DEF first
  <2>5. Hushed(b) /\ (b.state = "monitoring" => MachineType(b) /\ b.outbox = <<>>)
    BY <1>3, <1>4, <2>1, <2>2, <2>3, <2>4
  <2> HIDE DEF b, cycle, cycled
  <2>6. b.state = "monitoring" => Hushed(StartRecovery(b, cycled))
    BY <2>5, StartRecoveryHushed
  <2> QED
    BY <1>5, <2>5, <2>6
<1>7. CASE r.state # "monitoring"
  <2>1. b = a
    BY <1>7
  <2> HIDE DEF b, cycle, cycled, end, first
  <2>2. end = a
    BY <1>3, <1>5, <1>7, <2>1
  <2>3. Hushed(r) => Hushed(a)
    BY <1>3, StillHushed
  <2>4. Uttered(r) => Uttered(a)
    BY <1>3 DEF Uttered, HasPending
  <2> QED
    BY <1>3, <2>2, <2>3, <2>4 DEF end
<1> QED
  BY <1>6, <1>7

\* The end of observe: its second tick repeats nothing.
LEMMA ObserveProgressSaid ==
    ASSUME NEW r, Settled(r), NEW flags \in SafetyFlags,
           Hushed(r) \/ (Uttered(r) /\ r.safety = flags), NEW running, NEW stuck
    PROVE  Said(ObserveProgress(r, flags, running, stuck))
<1> DEFINE t == TickWith(r, flags, FALSE)
           z == [r EXCEPT !.samples = NoSamples]
           s == AddSample(r)
           u == TickWith(StartRecovery(s, <<>>), flags, FALSE)
<1>1. MachineType(r) /\ Sound(r)
  BY DEF Settled, Guarded
<1>2. Said(t)
  <2>1. Hushed(r) => Hushed(t) \/ Uttered(t)
    BY <1>1, TickSaid
  <2>2. Uttered(r) /\ r.safety = flags => Uttered(t)
    BY SecondTickSaid
  <2> HIDE DEF t
  <2> QED
    BY <2>1, <2>2 DEF Said, Hushed
<1>3. CASE r.state = "monitoring"
  <2>1. r.outbox = <<>>
    BY <1>3, UtteredInActionState, HushedIsSilent
  <2>2. z.outbox = <<>>
    BY <1>1, <2>1, Fields DEF MachineType
  <2>3. Settled(s) /\ s.outbox = <<>> /\ s.state = "monitoring"
    <3> DEFINE gap == r.lastNow - r.samples.last > MaxObservationGap
               kept == IF gap THEN 0 ELSE r.samples.count
               count == IF kept < MinSamples THEN kept + 1 ELSE kept
               samples == [count |-> count, last |-> r.lastNow]
    <3> HIDE DEF gap
    <3>1. r.samples.count \in Nat /\ r.lastNow \in Nat
      BY <1>1 DEF MachineType
    <3>2. count \in Nat
      BY <3>1
    <3>3. s = [r EXCEPT !.samples = samples]
      BY DEF AddSample, gap
    <3> HIDE DEF count, s
    <3>4. samples \in [count : Nat, last : Nat]
      BY <3>1, <3>2
    <3> HIDE DEF samples
    <3>5. s.outbox = <<>> /\ s.state = "monitoring"
      BY <1>1, <1>3, <2>1, <3>3, Fields DEF MachineType
    <3> QED
      BY <3>3, <3>4, <3>5, SamplesSound
  <2> HIDE DEF s
  <2>4. Said(u)
    <3> DEFINE x == StartRecovery(s, <<>>)
    <3>1. Settled(x)
      BY <2>3, StartRecoverySound
    <3>2. Hushed(x)
      BY <2>3, StartRecoveryHushed DEF Settled
    <3> HIDE DEF x
    <3>3. Hushed(TickWith(x, flags, FALSE)) \/ Uttered(TickWith(x, flags, FALSE))
      BY <3>1, <3>2, TickSaid DEF Settled, Guarded
    <3> QED
      BY <3>3 DEF Said, Hushed, x
  <2>5. Said(z) /\ Said(s)
    BY <2>2, <2>3 DEF Said
  <2> HIDE DEF z, u
  <2> QED
    BY <1>3, <2>4, <2>5 DEF ObserveProgress, z, s, u
<1>4. CASE r.state # "monitoring"
  BY <1>2, <1>4 DEF ObserveProgress
<1> QED
  BY <1>3, <1>4

\* What every handler but begin_episode starts from: it has not said anything.
LEMMA CalledHushed ==
    ASSUME Settled(m), NEW now \in CallTimes
    PROVE  LET v == ValidateTime(m, now)
               d == RecoveryDeadline(v)
           IN  /\ Hushed(v) /\ Hushed(d)
               /\ \A why : Said(EnterTerminal(v, why)) /\ Said(EnterTerminal(d, why))
<1> DEFINE drained == [m EXCEPT !.outbox = <<>>]
           later == [drained EXCEPT !.lastNow = now]
           v == ValidateTime(m, now)
           d == RecoveryDeadline(v)
<1>1. Settled(v) /\ Settled(d)
  BY CalledSound
<1>2. MachineType(drained) /\ drained.outbox = <<>>
  BY Fields DEF Settled, MachineType
<1>3. \A why : Hushed(EnterTerminal(drained, why))
  BY <1>2, EnterTerminalQuiet DEF Quiet, Hushed
<1>4. later.outbox = <<>>
  BY <1>2, Fields DEF MachineType
<1> HIDE DEF drained, later
<1>5. Hushed(v)
  BY <1>3, <1>4 DEF ValidateTime, drained, later, Hushed
<1> HIDE DEF v
<1>6. Hushed(d)
  BY <1>1, <1>5, ParagraphsQuiet DEF Quiet, Settled, Guarded, Sound
<1> HIDE DEF d
<1>7. \A why : Hushed(EnterTerminal(v, why)) /\ Hushed(EnterTerminal(d, why))
  BY <1>1, <1>5, <1>6, StopHushed DEF Settled
<1>8. \A x : Hushed(x) => Said(x)
  BY DEF Hushed, Said
<1> QED
  BY <1>5, <1>6, <1>7, <1>8 DEF v, d

\* begin_episode returns the stop of the old episode, or nothing.
LEMMA EpisodeSaid ==
    ASSUME Settled(m), Episode
    PROVE  Said(m')
<1>1. PICK now \in CallTimes, generation \in Generations :
        BeginEpisode(generation, now) \/ BeginEpisodeRefused(generation, now)
  BY DEF Episode
<1>2. CASE BeginEpisodeRefused(generation, now)
  <2> DEFINE p == [m EXCEPT !.outbox = <<>>]
  <2>1. MachineType(p) /\ p.outbox = <<>>
    BY Fields DEF Settled, MachineType
  <2> HIDE DEF p
  <2>2. Hushed(EnterTerminal(p, "episode_refused"))
    BY <2>1, StopHushed DEF Hushed
  <2> QED
    BY <1>2, <2>2 DEF BeginEpisodeRefused, p, Said, Hushed
<1>3. CASE BeginEpisode(generation, now)
  <2> DEFINE completed == m.completed
             retired == RetirePending(m).retired
             number == m.opSeq
             fresh == [InitialMachine EXCEPT
                       !.state = "monitoring", !.gen = generation,
                       !.lastNow = now, !.notBefore = now,
                       !.opSeq = number, !.completed = completed,
                       !.retired = retired]
             stop == [action |-> "latch_safe_stop",
                      op |-> NewOperation(fresh, "latch_safe_stop"),
                      issued |-> fresh.lastNow, deadline |-> fresh.lastNow,
                      plan |-> NoPlan]
             e == QueueSafeStop(fresh)
  <2>1. m' \in {fresh, e}
    BY <1>3 DEF BeginEpisode
  <2> HIDE DEF completed, retired, number
  <2>2. DOMAIN fresh = DOMAIN InitialMachine /\ fresh.outbox = <<>>
    BY Fields DEF InitialMachine
  <2> HIDE DEF fresh
  <2>3. stop.action = "latch_safe_stop"
    OBVIOUS
  <2>4. e.outbox = Append(fresh.outbox, stop)
    BY <2>2, Fields DEF QueueSafeStop
  <2> HIDE DEF e, stop
  <2>5. Len(e.outbox) = 1 /\ e.outbox[1] = stop
    BY <2>2, <2>4
  <2> QED
    BY <2>1, <2>2, <2>3, <2>5 DEF Said
<1> QED
  BY <1>1, <1>2, <1>3

\* tick says at most one thing.
LEMMA ClockedSaid ==
    ASSUME Settled(m), Clocked
    PROVE  Said(m')
<1>1. PICK now \in CallTimes :
        TickInvalid(now) \/ \E flags \in SafetyFlags : Tick(now, flags)
  BY DEF Clocked
<1> DEFINE v == ValidateTime(m, now)
<1>2. Settled(v) /\ Hushed(v) /\ \A why : Said(EnterTerminal(v, why))
  BY CalledSound, CalledHushed
<1> HIDE DEF v
<1>3. \A flags \in SafetyFlags : Said(TickWith(v, flags, FALSE))
  <2> SUFFICES ASSUME NEW flags \in SafetyFlags PROVE Said(TickWith(v, flags, FALSE))
    OBVIOUS
  <2> DEFINE t == TickWith(v, flags, FALSE)
  <2>1. Hushed(t) \/ Uttered(t)
    BY <1>2, TickSaid DEF Settled, Guarded
  <2> HIDE DEF t
  <2> QED
    BY <2>1 DEF Said, Hushed, t
<1> QED
  BY <1>1, <1>2, <1>3 DEF TickInvalid, Tick, v

\* An acknowledged command is followed by at most one other.
LEMMA AckPendingSaid ==
    ASSUME Settled(m), NEW now \in CallTimes, NEW success \in BOOLEAN,
           NEW evidence, AckPending(now, success, evidence)
    PROVE  Said(m')
<1> DEFINE v == ValidateTime(m, now)
           d == RecoveryDeadline(v)
           c == RememberCompletion(d, d.pending.op, success)
           e == [c EXCEPT !.pending = NoCommand]
<1>1. /\ Settled(d) /\ Hushed(d) /\ HasPending(v)
      /\ d.state # "terminal_safe_stop" => d = v
      /\ \A why : Said(EnterTerminal(d, why))
  BY CalledSound, CalledHushed DEF AckPending
<1> HIDE DEF v, d
<1>2. \A x : Hushed(x) => Said(x)
  BY DEF Hushed, Said
<1>3. CASE d.state = "terminal_safe_stop"
  BY <1>1, <1>2, <1>3 DEF AckPending, d, v
<1>4. CASE d.state # "terminal_safe_stop"
  <2>1. HasPending(d) /\ MachineType(d) /\ PendingMatches(d) /\ d.outbox = <<>>
    BY <1>1, <1>4, HushedIsSilent DEF Settled, Guarded, Sound
  <2>2. /\ d.pending.action = d.state /\ d.pending.op \in Operations
        /\ d.state \in ActionStates
    BY <2>1, PendingInActionState, Histories
  <2>3. \A why : Said(RetryOrFail(d, why))
    BY <1>1, <1>2, <1>4, <2>1, StopHushed
  <2>4. /\ Settled(c) /\ c.state = d.state /\ c.pending = d.pending
        /\ Last(c.completed).op \in Operations
    BY <1>1, <2>2, RememberCompletionSound
  <2>5. c.outbox = <<>>
    <3> DEFINE new == PushBounded(d.completed, [op |-> d.pending.op, success |-> success],
                                  HistoryCapacity)
    <3>1. c = [d EXCEPT !.completed = new]
      BY DEF RememberCompletion
    <3> HIDE DEF new, c
    <3> QED
      BY <2>1, <3>1, Fields DEF MachineType
  <2> HIDE DEF c
  <2>6. MachineType(c)
    BY <2>4 DEF Settled
  <2>7. \A why : Said(RetryOrFail(c, why))
    BY <1>2, <1>4, <2>4, <2>5, <2>6, StopHushed DEF Hushed
  <2>8. Settled(e) /\ ~HasPending(e) /\ e.state = d.state /\ e.completed = c.completed
    BY <2>4, DropPendingSound
  <2>9. e.outbox = <<>>
    BY <2>5, <2>6, Fields DEF MachineType
  <2> HIDE DEF e
  <2>10. Settled(CompleteAction(e, d.state)) /\ Hushed(CompleteAction(e, d.state))
    BY <2>2, <2>4, <2>8, <2>9, CompleteActionSound, CompleteActionHushed DEF Settled
  <2>11. Said(CachedTick(CompleteAction(e, d.pending.action)))
    BY <2>2, <2>10, CachedTickSaid
  <2> QED
    BY <1>1, <1>4, <2>3, <2>7, <2>11 DEF AckPending, v, d, c, e
<1> QED
  BY <1>3, <1>4

\* acknowledge says at most one thing.
LEMMA AcknowledgeSaid ==
    ASSUME Settled(m), Acknowledge
    PROVE  Said(m')
<1>1. PICK now \in CallTimes :
        \/ AckMalformed(now)
        \/ \E op \in AckOps :
             \/ AckStaleDropped(now, op)
             \/ \E success \in BOOLEAN : AckDuplicate(now, op, success)
             \/ \E gen \in Generations, rec \in Recoveries :
                  AckUnknown(now, op, gen, rec)
        \/ \E success \in BOOLEAN, evidence \in Evidence :
             AckPending(now, success, evidence)
  BY DEF Acknowledge
<1> DEFINE v == ValidateTime(m, now)
           d == RecoveryDeadline(v)
<1>2. /\ Said(v)
      /\ \A why : Said(EnterTerminal(v, why)) /\ Said(EnterTerminal(d, why))
  BY CalledHushed DEF Said, Hushed
<1>3. CASE AckMalformed(now)
  BY <1>2, <1>3 DEF AckMalformed
<1>4. ASSUME NEW op, AckStaleDropped(now, op)
      PROVE  Said(m')
  BY <1>2, <1>4 DEF AckStaleDropped
<1>5. ASSUME NEW op, NEW success, AckDuplicate(now, op, success)
      PROVE  Said(m')
  BY <1>2, <1>5 DEF AckDuplicate
<1>6. ASSUME NEW op, NEW gen, NEW rec, AckUnknown(now, op, gen, rec)
      PROVE  Said(m')
  BY <1>2, <1>6 DEF AckUnknown
<1>7. ASSUME NEW success \in BOOLEAN, NEW evidence, AckPending(now, success, evidence)
      PROVE  Said(m')
  BY <1>7, AckPendingSaid
<1> QED
  BY <1>1, <1>3, <1>4, <1>5, <1>6, <1>7

\* observe says at most one thing, although it ticks twice.
LEMMA ObserveSaid ==
    ASSUME Settled(m), Observe
    PROVE  Said(m')
<1>1. PICK now \in CallTimes :
        \/ ObserveIdle(now)
        \/ ObserveInvalid(now)
        \/ \E goal \in Goals :
             \/ ObserveForeignGoal(now, goal)
             \/ \E flags \in SafetyFlags : ObserveValid(now, goal, flags)
  BY DEF Observe
<1> DEFINE v == ValidateTime(m, now)
<1>2. Settled(v) /\ Hushed(v) /\ \A why : Said(EnterTerminal(v, why))
  BY CalledSound, CalledHushed
<1>3. \A x : Hushed(x) \/ Uttered(x) => Said(x)
  BY DEF Hushed, Said
<1>4. CASE ObserveIdle(now) \/ ObserveInvalid(now)
  BY <1>2, <1>3, <1>4 DEF ObserveIdle, ObserveInvalid
<1>5. ASSUME NEW goal, ObserveForeignGoal(now, goal)
      PROVE  Said(m')
  BY <1>2, <1>5 DEF ObserveForeignGoal
<1>6. ASSUME NEW goal \in Goals, NEW flags \in SafetyFlags,
             ObserveValid(now, goal, flags)
      PROVE  Said(m')
  <2> DEFINE p == [v EXCEPT !.samples = NoSamples, !.arrivals = <<>>, !.seen = {},
                            !.active = NoPlan, !.goal = goal]
             q == [v EXCEPT !.goal = goal]
             a == AdoptGoal(v, goal)
             t == TickWith(a, flags, FALSE)
  <2>1. GoalAdmitted(v, goal)
    BY <1>6 DEF ObserveValid
  <2> HIDE DEF v
  <2>2. Settled(a)
    BY <1>2, <2>1, AdoptGoalSound
  <2>3. Hushed(a)
    <3>1. p.outbox = v.outbox /\ p.state = v.state
      BY <1>2, Fields DEF Settled, MachineType
    <3>2. q.outbox = v.outbox /\ q.state = v.state
      BY <1>2, Fields DEF Settled, MachineType
    <3>3. a \in {p, q}
      BY DEF AdoptGoal
    <3> HIDE DEF p, q, a
    <3>4. Hushed(p) /\ Hushed(q)
      BY <1>2, <3>1, <3>2, StillHushed
    <3> QED
      BY <3>3, <3>4
  <2> HIDE DEF a, p, q
  <2>4. Settled(t)
    BY <2>2, TickWithSound DEF Settled, Guarded
  <2>5. t.safety = flags /\ (Hushed(t) \/ Uttered(t))
    BY <2>2, <2>3, TickSaid DEF Settled, Guarded
  <2> HIDE DEF t
  <2>6. \A running, stuck : Said(ObserveProgress(t, flags, running, stuck))
    BY <2>4, <2>5, ObserveProgressSaid
  <2>7. ASSUME NEW r \in Plans, NEW running, NEW stuck, NEW window, NEW order,
               t.state # "terminal_safe_stop"
        PROVE  Said(ObserveProgress(PlanArrival(t, r, running, window, order),
                                    flags, running, stuck))
    <3> DEFINE b == PlanArrival(t, r, running, window, order)
    <3>1. Hushed(b) \/ (Uttered(b) /\ b.safety = t.safety)
      BY <2>4, <2>5, <2>7, PlanArrivalSaid
    <3>2. Hushed(b) \/ (Uttered(b) /\ b.safety = flags)
      BY <2>5, <3>1
    <3>3. Settled(b)
      BY <2>4, PlanArrivalSound
    <3> HIDE DEF b
    <3> QED
      BY <3>2, <3>3, ObserveProgressSaid DEF b
  <2> QED
    BY <1>3, <1>6, <2>5, <2>6, <2>7 DEF ObserveValid, a, t, v
<1> QED
  BY <1>1, <1>4, <1>5, <1>6

\* submit_replanned_trajectory says at most one thing.
LEMMA SubmitSaid ==
    ASSUME Settled(m), Submit
    PROVE  Said(m')
<1>1. PICK now \in CallTimes :
        \/ SubmitStopped(now)
        \/ \E op \in {m.awaiting, NoOperation}, gen \in Generations,
              rec \in Recoveries :
             \/ SubmitRefused(now, op, gen, rec)
             \/ SubmitLate(now, op, gen, rec)
             \/ SubmitInvalid(now, op, gen, rec)
             \/ \E p \in Plans : \/ SubmitOld(now, op, gen, rec, p)
                                 \/ SubmitNovel(now, op, gen, rec, p)
  BY DEF Submit
<1> DEFINE d == RecoveryDeadline(ValidateTime(m, now))
<1>2. /\ Settled(d) /\ Hushed(d) /\ MachineType(d) /\ PendingMatches(d)
      /\ \A why : Said(EnterTerminal(d, why))
  BY CalledSound, CalledHushed DEF Settled, Guarded, Sound
<1>3. ASSUME NEW q, MachineType(q), q.state = d.state, q.pending = d.pending,
             q.startedAt = d.startedAt, q.outbox = d.outbox,
             d.state = "wait_fresh_plan"
      PROVE  /\ Said(CachedTick(Transition(q, "request_replan")))
             /\ \A why : Said(CachedTick(StartRetreatOrStop(q, why)))
  <2> HIDE DEF d
  <2>1. /\ ~HasPending(q) /\ q.startedAt # NoTime /\ q.state # "terminal_safe_stop"
        /\ q.outbox = <<>>
    BY <1>2, <1>3, NoStrayPending, HushedIsSilent DEF HasPending, Settled, Guarded, Sound,
       WayForward, RecoveryStates, ActionStates
  <2>2. Settled(Transition(q, "request_replan"))
    BY <1>3, <2>1, TransitionSound DEF ActionStates
  <2>3. \A why : Settled(StartRetreatOrStop(q, why))
    BY <1>3, <2>1, StartRetreatOrStopSound
  <2>4. Hushed(Transition(q, "request_replan"))
    BY <1>3, <2>1, TransitionHushed DEF MachineType
  <2>5. \A why : Hushed(StartRetreatOrStop(q, why))
    BY <1>3, <2>1, StopHushed DEF Hushed
  <2> QED
    BY <2>2, <2>3, <2>4, <2>5, CachedTickSaid
<1>4. \A op, gen, rec : Answers(d, op, gen, rec) => d.state = "wait_fresh_plan"
  BY DEF Answers
<1>5. CASE SubmitStopped(now)
  BY <1>2, <1>5 DEF SubmitStopped, Said, Hushed
<1>6. ASSUME NEW op, NEW gen, NEW rec, SubmitRefused(now, op, gen, rec)
      PROVE  Said(m')
  BY <1>2, <1>6 DEF SubmitRefused
<1>7. ASSUME NEW op, NEW gen, NEW rec, SubmitInvalid(now, op, gen, rec)
      PROVE  Said(m')
  BY <1>2, <1>7 DEF SubmitInvalid
<1>8. ASSUME NEW op, NEW gen, NEW rec, SubmitLate(now, op, gen, rec)
      PROVE  Said(m')
  <2> DEFINE q == [d EXCEPT !.awaiting = NoOperation, !.planDeadline = NoTime]
  <2>1. d.state = "wait_fresh_plan"
    BY <1>4, <1>8 DEF SubmitLate
  <2> HIDE DEF d
  <2>2. /\ MachineType(q) /\ q.state = d.state /\ q.pending = d.pending
        /\ q.startedAt = d.startedAt /\ q.outbox = d.outbox
    BY <1>2, Constants, Fields DEF MachineType
  <2> HIDE DEF q
  <2> QED
    BY <1>3, <1>8, <2>1, <2>2 DEF SubmitLate, d, q
<1>9. ASSUME NEW op, NEW gen, NEW rec, NEW p \in Plans, SubmitOld(now, op, gen, rec, p)
      PROVE  Said(m')
  <2> DEFINE taboo == AddTaboo(d.taboo, p)
             q == [d EXCEPT !.taboo = taboo, !.rejections = @ + 1]
  <2>1. d.state = "wait_fresh_plan"
    BY <1>4, <1>9 DEF SubmitOld
  <2> HIDE DEF d, taboo
  <2>2. /\ MachineType(q) /\ q.state = d.state /\ q.pending = d.pending
        /\ q.startedAt = d.startedAt /\ q.outbox = d.outbox
    <3>1. MachineType(q)
      BY <1>2, RejectPlanType
    <3> QED
      BY <1>2, <3>1, Fields DEF MachineType
  <2> HIDE DEF q
  <2> QED
    BY <1>3, <1>9, <2>1, <2>2 DEF SubmitOld, d, q, taboo
<1>10. ASSUME NEW op, NEW gen, NEW rec, NEW p \in Plans, SubmitNovel(now, op, gen, rec, p)
       PROVE  Said(m')
  <2> DEFINE q == [d EXCEPT !.accepted = p, !.planDeadline = NoTime,
                            !.awaiting = NoOperation]
  <2>1. d.state = "wait_fresh_plan"
    BY <1>4, <1>10 DEF SubmitNovel
  <2>2. ~IsOld(d, p) /\ p # NoPlan
    BY <1>10, PlansAssumption DEF SubmitNovel
  <2> HIDE DEF d
  <2>3. /\ MachineType(q) /\ q.state = d.state /\ q.pending = d.pending
        /\ q.startedAt = d.startedAt /\ q.outbox = d.outbox
        /\ q.accepted = p /\ q.seen = d.seen /\ q.taboo = d.taboo
    BY <1>2, Constants, Fields DEF MachineType
  <2> HIDE DEF q
  <2>4. ~HasPending(q) /\ ~IsOld(q, p) /\ q.startedAt # NoTime /\ q.outbox = <<>>
    <3>1. ~HasPending(d) /\ d.startedAt # NoTime /\ d.outbox = <<>>
      BY <1>2, <2>1, NoStrayPending, HushedIsSilent DEF Settled, Guarded, Sound, WayForward,
         RecoveryStates, ActionStates
    <3> QED
      BY <2>2, <2>3, <3>1 DEF HasPending, IsOld, IsTaboo
  <2>5. ~(Cardinality(d.seen) >= TabooCapacity) =>
          Settled(Transition(q, "accept_fresh_plan"))
    BY <2>2, <2>3, <2>4, AcceptTransitionSound
  <2>6. Hushed(Transition(q, "accept_fresh_plan"))
    BY <2>3, <2>4, TransitionHushed DEF MachineType
  <2>7. ~(Cardinality(d.seen) >= TabooCapacity) =>
          Said(CachedTick(Transition(q, "accept_fresh_plan")))
    BY <2>5, <2>6, CachedTickSaid
  <2> QED
    BY <1>2, <1>10, <2>7 DEF SubmitNovel, d, q
<1> QED
  BY <1>1, <1>5, <1>6, <1>7, <1>8, <1>9, <1>10

\* Whatever the call, at most one command is returned; a command other than the
\* stop is the outstanding one, of the state reached, within the recovery's time.
THEOREM CommandsAreTimely == Spec => []OneTimelyCommand
<1>1. Init => Said(m)
  BY DEF Init, InitialMachine, Said
<1>2. Settled(m) /\ Said(m) /\ [Next]_m => Said(m)'
  <2>1. ASSUME Said(m), UNCHANGED m PROVE Said(m)'
    BY <2>1
  <2>2. Settled(m) /\ Next => Said(m')
    BY EpisodeSaid, ClockedSaid, AcknowledgeSaid, ObserveSaid, SubmitSaid DEF Next
  <2> QED
    BY <2>1, <2>2
<1>3. Settled(m) /\ Said(m) => OneTimelyCommand
  <2> SUFFICES ASSUME Settled(m), Said(m) PROVE OneTimelyCommand
    OBVIOUS
  <2>1. m.outbox \in Seq(Commands)
    BY DEF Settled, MachineType
  <2>2. CASE m.outbox = <<>>
    BY <2>2 DEF OneTimelyCommand, Range
  <2>3. CASE Len(m.outbox) = 1
    <3>1. \A c \in Range(m.outbox) : c = m.outbox[1]
      BY <2>1, <2>3 DEF Range
    <3>2. m.outbox[1].action = "latch_safe_stop" \/ Uttered(m)
      BY <2>3, Len(<<>>) = 0 DEF Said
    <3>3. Uttered(m) => /\ m.state \in ActionStates
                        /\ m.lastNow - m.startedAt <= MaxRecoveryDuration
      BY UtteredInActionState DEF Uttered
    <3> QED
      BY <2>3, <3>1, <3>2, <3>3 DEF OneTimelyCommand
  <2> QED
    BY <2>2, <2>3 DEF Said, Uttered
<1> QED
  BY <1>1, <1>2, <1>3, SettledAlways, PTL DEF Spec

=============================================================================
