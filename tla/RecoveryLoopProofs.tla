------------------------- MODULE RecoveryLoopProofs -------------------------
(***************************************************************************)
(* Theorems about the recovery machine in its closed loop: everything the  *)
(* loop does is something the machine's specification allows, the adapter  *)
(* never holds two motions, and every honest acknowledgement of an         *)
(* operation that is not older than the histories is recognised.           *)
(***************************************************************************)
EXTENDS RecoveryLoop, RecoveryOperationsProofs

-----------------------------------------------------------------------------
(* From one machine to the next.                                           *)

Stopped(r) == r.state = "terminal_safe_stop"

\* No recovery can be under way.
Dormant(r) == r.state \in {"idle", "terminal_safe_stop"}

\* The handler returns the stop.
Stops(r) == \E c \in Range(r.outbox) : c.action = "latch_safe_stop"

Moving(r) == r.pending.action \in MotionActions

\* The null operation is in no history and is never outstanding.
Named(r) ==
    /\ \A op \in Range(r.retired) : op # NoOperation
    /\ \A c \in Range(r.completed) : c.op # NoOperation
    /\ HasPending(r) => r.pending.op # NoOperation

\* The entries of a history are in the order of their numbers f, which differ by at
\* least as much as their places do.
Spaced(s, f) ==
    \A i, j \in DOMAIN s : i < j => f[s[i]] + (j - i) <= f[s[j]]

Entries == [op : Operations, success : BOOLEAN]

OpNumber == [op \in Operations |-> op.seq]

DoneNumber == [d \in Entries |-> d.op.seq]

\* Both histories are in the order in which operations were issued, and an outstanding
\* one was issued after all that is remembered.
Chronological(r) ==
    /\ Spaced(r.retired, OpNumber) /\ Spaced(r.completed, DoneNumber)
    /\ \A op \in Range(r.retired) :
         /\ op.seq \in 0..r.opSeq
         /\ HasPending(r) => op.seq < r.pending.op.seq
    /\ \A d \in Range(r.completed) :
         /\ d.op.seq \in 0..r.opSeq
         /\ HasPending(r) => d.op.seq < r.pending.op.seq
    /\ HasPending(r) => r.pending.op.seq \in 0..r.opSeq

\* What r has remembered and what is outstanding in it, q still knows, unless as many
\* operations as a history keeps were issued since.
Remembers(q, r) ==
    /\ Chronological(q)
    /\ \A op \in Range(r.retired) : Recent(q, op) => op \in Range(q.retired)
    /\ \A d \in Range(r.completed) : Recent(q, d.op) => d \in Range(q.completed)
    /\ HasPending(r) =>
         \/ q.pending = r.pending
         \/ Recent(q, r.pending.op) => r.pending.op \in Range(q.retired)

\* q comes from r by methods of one handler: new operations have new numbers, and
\* a machine that stops returns the stop.
Follows(q, r) ==
    /\ q.gen = r.gen
    /\ q.opSeq \in Nat /\ r.opSeq <= q.opSeq
    /\ r.recoveries <= MaxRecoveries => q.recoveries <= MaxRecoveries
    /\ Dormant(r) => Dormant(q)
    /\ Named(r) => Named(q)
    /\ \/ q.pending = r.pending
       \/ ~HasPending(q)
       \/ q.pending.op.seq > r.opSeq
    /\ Range(r.outbox) \subseteq Range(q.outbox)
    /\ \A c \in Range(q.outbox) \ Range(r.outbox) : c.op.seq > r.opSeq
    /\ Stopped(r) => Stopped(q)
    /\ Stopped(q) => Stopped(r) \/ Stops(q)
    /\ Chronological(r) => Remembers(q, r)

\* A motion is not forgotten without a stop.
Steady(q, r) == Moving(r) => q.pending = r.pending \/ Stopped(q)

\* Methods that follow one another.
LEMMA FollowsTwice ==
    ASSUME NEW r, NEW q, NEW s, r.opSeq \in Nat, s.pending.op.seq \in Nat,
           \A c \in Range(s.outbox) : c.op.seq \in Nat,
           Follows(q, r), Follows(s, q)
    PROVE  Follows(s, r) /\ (Steady(q, r) /\ Steady(s, q) => Steady(s, r))
<1>1. /\ r.opSeq <= q.opSeq /\ q.opSeq <= s.opSeq
      /\ r.opSeq \in Nat /\ q.opSeq \in Nat /\ s.opSeq \in Nat /\ HistoryCapacity \in Nat
  BY ConfigAssumption DEF Follows
<1>2. /\ r.opSeq <= s.opSeq
      /\ \A op : op.seq \in 0..r.opSeq /\ Recent(s, op) => Recent(q, op)
  <2>1. \A n \in 0..r.opSeq :
          s.opSeq - n < HistoryCapacity => q.opSeq - n < HistoryCapacity
    BY <1>1
  <2> QED
    BY <1>1, <2>1 DEF Recent
<1>3. \/ s.pending = r.pending
      \/ ~HasPending(s)
      \/ s.pending.op.seq > r.opSeq
  BY <1>1 DEF Follows, HasPending
<1>4. /\ Range(r.outbox) \subseteq Range(s.outbox)
      /\ \A c \in Range(s.outbox) \ Range(r.outbox) : c.op.seq > r.opSeq
  BY <1>1 DEF Follows
<1>5. Stopped(s) => Stopped(r) \/ Stops(s)
  BY DEF Follows, Stops
<1>6. Chronological(r) => Remembers(s, r)
  <2> SUFFICES ASSUME Chronological(r) PROVE Remembers(s, r)
    OBVIOUS
  <2>1. Remembers(q, r) /\ Remembers(s, q)
    BY DEF Follows, Remembers
  <2>2. /\ \A op \in Range(r.retired) : op.seq \in 0..r.opSeq
        /\ \A d \in Range(r.completed) : d.op.seq \in 0..r.opSeq
        /\ HasPending(r) => r.pending.op.seq \in 0..r.opSeq
    BY DEF Chronological
  <2>3. \A op \in Range(r.retired) : Recent(s, op) => op \in Range(s.retired)
    BY <1>2, <2>1, <2>2 DEF Remembers
  <2>4. \A d \in Range(r.completed) : Recent(s, d.op) => d \in Range(s.completed)
    BY <1>2, <2>1, <2>2 DEF Remembers
  <2>5. HasPending(r) =>
          \/ s.pending = r.pending
          \/ Recent(s, r.pending.op) => r.pending.op \in Range(s.retired)
    BY <1>2, <2>1, <2>2 DEF Remembers, HasPending
  <2> QED
    BY <2>1, <2>3, <2>4, <2>5 DEF Remembers
<1>7. Steady(q, r) /\ Steady(s, q) => Steady(s, r)
  BY DEF Steady, Follows, Moving
<1> QED
  BY <1>1, <1>2, <1>3, <1>4, <1>5, <1>6, <1>7 DEF Follows

\* The same for well-typed machines.
LEMMA FollowsOn ==
    ASSUME NEW r, MachineType(r), NEW q, NEW s, MachineType(s), Follows(q, r), Follows(s, q)
    PROVE  Follows(s, r) /\ (Steady(q, r) /\ Steady(s, q) => Steady(s, r))
<1>1. r.opSeq \in Nat /\ s.pending.op.seq \in Nat
  BY Histories
<1>2. \A c \in Range(s.outbox) : c.op.seq \in Nat
  <2>1. s.outbox \in Seq(Commands)
    BY DEF MachineType
  <2>2. \A c \in Range(s.outbox) : c \in Commands
    BY <2>1 DEF Range
  <2>3. \A c \in Commands : c.op.seq \in Nat
    BY DEF Commands, Operations
  <2> QED
    BY <2>2, <2>3
<1> QED
  BY <1>1, <1>2, FollowsTwice

\* A method that leaves alone what this is about.
LEMMA FollowsSame ==
    ASSUME NEW r, MachineType(r), NEW q, q.gen = r.gen, q.opSeq = r.opSeq,
           q.recoveries = r.recoveries \/ q.recoveries <= MaxRecoveries,
           q.pending = r.pending, q.outbox = r.outbox,
           q.completed = r.completed, q.retired = r.retired,
           Dormant(r) => q.state = r.state, Stopped(q) => Stopped(r)
    PROVE  Follows(q, r) /\ Steady(q, r)
<1>1. r.opSeq \in Nat /\ r.opSeq <= r.opSeq
  BY DEF MachineType
<1>2. (Named(r) => Named(q)) /\ (Chronological(r) => Remembers(q, r))
  BY DEF Named, Chronological, Remembers, HasPending
<1>3. /\ Dormant(r) => Dormant(q)
      /\ Stopped(r) => Stopped(q)
  BY DEF Dormant, Stopped
<1> QED
  BY <1>1, <1>2, <1>3 DEF Follows, Steady

\* What a deque loses is its first entry, and only when it is full.
LEMMA PushedShift ==
    ASSUME NEW S, NEW q \in Seq(S), NEW x \in S, NEW capacity \in Nat \ {0}
    PROVE  LET t == PushBounded(q, x, capacity)
           IN  \E s \in {0, 1} :
                 /\ Len(t) = Len(q) + 1 - s /\ Len(t) \in Nat
                 /\ DOMAIN t = 1..Len(t) /\ t[Len(t)] = x
                 /\ \A i \in 1..(Len(t) - 1) : i + s \in DOMAIN q /\ t[i] = q[i + s]
                 /\ Len(q) < capacity => s = 0
<1>1. CASE Len(q) < capacity
  <2> DEFINE t == Append(q, x)
  <2>1. /\ Len(t) = Len(q) + 1 - 0 /\ Len(t) \in Nat /\ DOMAIN t = 1..Len(t)
        /\ t[Len(t)] = x
        /\ \A i \in 1..(Len(t) - 1) : i + 0 \in DOMAIN q /\ t[i] = q[i + 0]
    OBVIOUS
  <2> HIDE DEF t
  <2> QED
    BY <1>1, <2>1 DEF PushBounded, t
<1>2. CASE ~(Len(q) < capacity)
  <2> DEFINE u == Tail(q)
             t == Append(u, x)
  <2>1. q # <<>>
    BY <1>2
  <2>2. /\ u \in Seq(S) /\ Len(u) = Len(q) - 1
        /\ \A i \in 1..Len(u) : i + 1 \in DOMAIN q /\ u[i] = q[i + 1]
    BY <2>1
  <2> HIDE DEF u
  <2>3. /\ t \in Seq(S) /\ Len(t) = Len(u) + 1 /\ t[Len(t)] = x
        /\ \A i \in 1..(Len(t) - 1) : t[i] = u[i]
    BY <2>2
  <2>4. DOMAIN t = 1..Len(t) /\ Len(t) \in Nat /\ Len(t) = Len(q) + 1 - 1
    BY <2>2, <2>3
  <2>5. \A i \in 1..(Len(t) - 1) : i + 1 \in DOMAIN q /\ t[i] = q[i + 1]
    BY <2>2, <2>3
  <2> HIDE DEF t
  <2> QED
    BY <1>2, <2>3, <2>4, <2>5 DEF PushBounded, t, u
<1> QED
  BY <1>1, <1>2

\* Appending an entry with a higher number keeps a deque spaced, and what it loses is
\* as much older than the new entry as the deque has room for.
LEMMA PushedSpaced ==
    ASSUME NEW S, NEW q \in Seq(S), NEW x \in S, NEW capacity \in Nat \ {0},
           NEW f \in [S -> Nat], Spaced(q, f), \A y \in Range(q) : f[y] < f[x]
    PROVE  LET t == PushBounded(q, x, capacity)
           IN  /\ Spaced(t, f)
               /\ \A y \in Range(q) : f[x] - f[y] < capacity => y \in Range(t)
<1> DEFINE t == PushBounded(q, x, capacity)
           n == Len(q)
<1>1. PICK s \in {0, 1} :
        /\ Len(t) = Len(q) + 1 - s /\ Len(t) \in Nat
        /\ DOMAIN t = 1..Len(t) /\ t[Len(t)] = x
        /\ \A i \in 1..(Len(t) - 1) : i + s \in DOMAIN q /\ t[i] = q[i + s]
        /\ Len(q) < capacity => s = 0
  BY PushedShift
<1> HIDE DEF t
<1>2. /\ Len(t) = n + 1 - s /\ s \in Int /\ s >= 0
      /\ n < capacity => s = 0
  BY <1>1
<1>3. /\ n \in Nat /\ DOMAIN q = 1..n
      /\ \A i \in 1..n : q[i] \in S /\ q[i] \in Range(q)
      /\ \A y \in S : f[y] \in Nat
  BY DEF Range
<1> HIDE DEF n
<1>4. ASSUME NEW i \in 1..n
      PROVE  f[q[i]] + (n + 1 - i) <= f[x]
  <2>1. f[q[n]] + 1 <= f[x]
    BY <1>3
  <2>2. CASE i = n
    BY <1>3, <2>1, <2>2
  <2>3. CASE i < n
    <3>0. i \in DOMAIN q /\ n \in DOMAIN q
      BY <1>3, <2>3
    <3>1. f[q[i]] + (n - i) <= f[q[n]]
      BY <2>3, <3>0 DEF Spaced
    <3>2. f[q[i]] \in Nat /\ f[q[n]] \in Nat /\ f[x] \in Nat
      BY <1>3
    <3> QED
      BY <1>3, <2>1, <3>1, <3>2
  <2> QED
    BY <1>3, <2>2, <2>3
<1>5. ASSUME NEW i \in DOMAIN t, NEW j \in DOMAIN t, i < j
      PROVE  f[t[i]] + (j - i) <= f[t[j]]
  <2>1. i \in 1..(Len(t) - 1) /\ i + s \in 1..n /\ t[i] = q[i + s]
    <3>1. i \in 1..Len(t) /\ j \in 1..Len(t) /\ Len(t) \in Nat
      BY <1>1
    <3>2. i \in 1..(Len(t) - 1)
      BY <1>5, <3>1
    <3> QED
      BY <1>1, <1>3, <3>2
  <2>2. CASE j = Len(t)
    <3>1. f[q[i + s]] + (n + 1 - (i + s)) <= f[x]
      BY <1>4, <2>1
    <3>2. n + 1 - (i + s) = j - i
      <4>1. i \in 1..Len(t) /\ j = n + 1 - s
        BY <1>1, <1>2, <2>2
      <4>2. i \in Int /\ n \in Int /\ s \in Int
        BY <1>1, <1>2, <1>3, <4>1
      <4> QED
        BY <4>1, <4>2
    <3> QED
      BY <1>1, <2>1, <2>2, <3>1, <3>2
  <2>3. CASE j # Len(t)
    <3>1. j + s \in 1..n /\ t[j] = q[j + s] /\ i + s < j + s
      <4>1. i \in 1..Len(t) /\ j \in 1..Len(t) /\ Len(t) \in Nat
        BY <1>1
      <4>2. j \in 1..(Len(t) - 1)
        BY <2>3, <4>1
      <4>3. i + s < j + s
        BY <1>1, <1>5, <4>1
      <4> QED
        BY <1>1, <1>3, <4>2, <4>3
    <3>2. f[q[i + s]] + ((j + s) - (i + s)) <= f[q[j + s]]
      BY <1>3, <2>1, <3>1 DEF Spaced
    <3>3. (j + s) - (i + s) = j - i
      <4>1. i \in 1..Len(t) /\ j \in 1..Len(t)
        BY <1>1
      <4> QED
        BY <1>1, <1>2, <4>1
    <3> QED
      BY <2>1, <3>1, <3>2, <3>3
  <2> QED
    BY <2>2, <2>3
<1>6. ASSUME NEW y \in Range(q), f[x] - f[y] < capacity
      PROVE  y \in Range(t)
  <2>1. PICK i \in 1..n : y = q[i]
    BY <1>3 DEF Range
  <2>2. s < i
    <3>1. f[q[i]] + (n + 1 - i) <= f[x]
      BY <1>4
    <3>2. f[q[i]] \in Nat /\ f[x] \in Nat
      BY <1>3
    <3>3. i >= 1 /\ (i = 1 => n < capacity)
      BY <1>3, <1>6, <2>1, <3>1, <3>2
    <3> QED
      BY <1>1, <1>2, <3>3
  <2>3. i - s \in 1..(Len(t) - 1) /\ (i - s) + s = i
    BY <1>2, <1>3, <2>2
  <2>4. i - s \in DOMAIN t /\ t[i - s] = y
    <3>1. i - s \in 1..Len(t)
      BY <1>1, <2>3
    <3>2. t[i - s] = q[(i - s) + s]
      BY <1>1, <2>3
    <3> QED
      BY <1>1, <2>1, <2>3, <3>1, <3>2
  <2> QED
    BY <2>4 DEF Range
<1> QED
  BY <1>5, <1>6 DEF Spaced, t

\* Remembering the outstanding operation in either history.
LEMMA PushedInOrder ==
    ASSUME NEW r, MachineType(r), HasPending(r), Chronological(r), NEW success \in BOOLEAN
    PROVE  LET done == [op |-> r.pending.op, success |-> success]
               u == PushBounded(r.retired, r.pending.op, HistoryCapacity)
               t == PushBounded(r.completed, done, HistoryCapacity)
           IN  /\ Spaced(u, OpNumber) /\ Spaced(t, DoneNumber)
               /\ \A op \in Range(u) : op.seq \in 0..r.opSeq
               /\ \A d \in Range(t) : d.op.seq \in 0..r.opSeq
               /\ \A op \in Range(r.retired) : Recent(r, op) => op \in Range(u)
               /\ \A d \in Range(r.completed) : Recent(r, d.op) => d \in Range(t)
<1> DEFINE op0 == r.pending.op
           done == [op |-> op0, success |-> success]
           u == PushBounded(r.retired, op0, HistoryCapacity)
           t == PushBounded(r.completed, done, HistoryCapacity)
<1>1. /\ r.retired \in Seq(Operations) /\ r.completed \in Seq(Entries)
      /\ op0 \in Operations /\ done \in Entries /\ done.op = op0
      /\ r.opSeq \in Nat /\ HistoryCapacity \in Nat \ {0}
      /\ \A op \in Operations : op.seq \in Nat
  BY Histories, ConfigAssumption DEF Entries
<1>2. /\ OpNumber \in [Operations -> Nat] /\ DoneNumber \in [Entries -> Nat]
      /\ \A op \in Operations : OpNumber[op] = op.seq
      /\ \A d \in Entries : DoneNumber[d] = d.op.seq
  <2>1. \A d \in Entries : d.op.seq \in Nat
    BY <1>1 DEF Entries
  <2> QED
    BY <1>1, <2>1 DEF OpNumber, DoneNumber
<1>3. /\ Range(r.retired) \subseteq Operations /\ Range(r.completed) \subseteq Entries
  BY <1>1 DEF Range
<1> HIDE DEF op0, done
<1>4. /\ \A op \in Range(r.retired) : op.seq \in 0..r.opSeq /\ op.seq < op0.seq
      /\ \A d \in Range(r.completed) : d.op.seq \in 0..r.opSeq /\ d.op.seq < op0.seq
      /\ op0.seq \in 0..r.opSeq
  BY DEF Chronological, op0
<1>5. /\ Spaced(u, OpNumber)
      /\ \A op \in Range(r.retired) :
           OpNumber[op0] - OpNumber[op] < HistoryCapacity => op \in Range(u)
  <2>1. \A op \in Range(r.retired) : OpNumber[op] < OpNumber[op0]
    BY <1>1, <1>2, <1>3, <1>4
  <2>2. Spaced(r.retired, OpNumber)
    BY DEF Chronological
  <2> QED
    BY <1>1, <1>2, <2>1, <2>2, PushedSpaced
<1>6. /\ Spaced(t, DoneNumber)
      /\ \A d \in Range(r.completed) :
           DoneNumber[done] - DoneNumber[d] < HistoryCapacity => d \in Range(t)
  <2>1. \A d \in Range(r.completed) : DoneNumber[d] < DoneNumber[done]
    BY <1>1, <1>2, <1>3, <1>4
  <2>2. Spaced(r.completed, DoneNumber)
    BY DEF Chronological
  <2> QED
    BY <1>1, <1>2, <2>1, <2>2, PushedSpaced
<1>7. /\ Range(u) \subseteq Range(r.retired) \cup {op0}
      /\ Range(t) \subseteq Range(r.completed) \cup {done}
  BY <1>1, PushedRange
<1> HIDE DEF u, t
<1>8. /\ \A op \in Range(u) : op.seq \in 0..r.opSeq
      /\ \A d \in Range(t) : d.op.seq \in 0..r.opSeq
  BY <1>1, <1>4, <1>7
<1>9. \A n \in 0..r.opSeq : r.opSeq - n < HistoryCapacity => op0.seq - n < HistoryCapacity
  BY <1>1, <1>4
<1>10. \A op \in Range(r.retired) : Recent(r, op) => op \in Range(u)
  BY <1>1, <1>2, <1>3, <1>4, <1>5, <1>9 DEF Recent
<1>11. \A d \in Range(r.completed) : Recent(r, d.op) => d \in Range(t)
  BY <1>1, <1>2, <1>3, <1>4, <1>6, <1>9 DEF Recent
<1> QED
  BY <1>5, <1>6, <1>8, <1>10, <1>11 DEF u, t, done, op0

\* Retiring the outstanding command.
LEMMA RetirePendingFollows ==
    ASSUME NEW r, MachineType(r)
    PROVE  LET q == RetirePending(r)
           IN  /\ Follows(q, r) /\ MachineType(q) /\ ~HasPending(q)
               /\ q.state = r.state /\ q.outbox = r.outbox /\ q.opSeq = r.opSeq
<1> DEFINE q == RetirePending(r)
           t == PushBounded(r.retired, r.pending.op, HistoryCapacity)
<1>1. MachineType(q)
  BY RetirePendingType
<1>2. CASE ~HasPending(r)
  <2>1. q = r
    BY <1>2 DEF RetirePending
  <2>2. Follows(r, r)
    BY FollowsSame
  <2> QED
    BY <1>1, <1>2, <2>1, <2>2
<1>3. CASE HasPending(r)
  <2>1. /\ r.retired \in Seq(Operations) /\ r.pending.op \in Operations
        /\ r.opSeq \in Nat /\ HistoryCapacity \in Nat \ {0}
    BY Histories, ConfigAssumption
  <2>2. r.pending.op \in Range(t) /\ Range(t) \subseteq Range(r.retired) \cup {r.pending.op}
    BY <2>1, PushedRange
  <2>3. Chronological(r) =>
          /\ Spaced(t, OpNumber) /\ \A op \in Range(t) : op.seq \in 0..r.opSeq
          /\ \A op \in Range(r.retired) : Recent(r, op) => op \in Range(t)
    BY <1>3, PushedInOrder
  <2> HIDE DEF t
  <2>4. q = [r EXCEPT !.retired = t, !.pending = NoCommand]
    BY <1>3 DEF RetirePending, t
  <2>5. /\ q.gen = r.gen /\ q.opSeq = r.opSeq /\ q.recoveries = r.recoveries
        /\ q.outbox = r.outbox /\ q.state = r.state /\ q.completed = r.completed
        /\ q.retired = t /\ q.pending = NoCommand
    BY <2>4, Fields DEF MachineType
  <2> HIDE DEF q
  <2>6. ~HasPending(q)
    BY <2>5 DEF HasPending, NoCommand
  <2>7. Named(r) => Named(q)
    BY <1>3, <2>2, <2>5, <2>6 DEF Named
  <2>8. Chronological(r) => Remembers(q, r)
    BY <1>3, <2>2, <2>3, <2>5, <2>6 DEF Chronological, Remembers, Recent
  <2>9. (Dormant(r) => Dormant(q)) /\ (Stopped(r) <=> Stopped(q))
    BY <2>5 DEF Dormant, Stopped
  <2>10. Follows(q, r)
    BY <2>1, <2>5, <2>6, <2>7, <2>8, <2>9 DEF Follows
  <2> QED
    BY <1>1, <2>5, <2>6, <2>10 DEF q
<1> QED
  BY <1>2, <1>3

\* Stopping returns the stop with the outstanding command retired.
LEMMA EnterTerminalFollows ==
    ASSUME NEW r, MachineType(r), NEW why
    PROVE  LET q == EnterTerminal(r, why)
           IN  Follows(q, r) /\ Steady(q, r) /\ MachineType(q)
<1> DEFINE e == EnterTerminal(r, why)
<1>1. MachineType(e) /\ Stopped(e)
  BY EnterTerminalType DEF Stopped
<1>2. CASE r.state = "terminal_safe_stop"
  BY <1>1, <1>2, FollowsSame DEF EnterTerminal
<1>3. CASE r.state # "terminal_safe_stop"
  <2> DEFINE p == RetirePending(r)
             q == [p EXCEPT !.state = "terminal_safe_stop", !.reason = why]
             stop == [action |-> "latch_safe_stop",
                      op |-> NewOperation(q, "latch_safe_stop"),
                      issued |-> q.lastNow, deadline |-> q.lastNow, plan |-> NoPlan]
  <2>1. /\ Follows(p, r) /\ MachineType(p) /\ ~HasPending(p)
        /\ p.state = r.state /\ p.outbox = r.outbox /\ p.opSeq = r.opSeq
    BY RetirePendingFollows
  <2> HIDE DEF p
  <2>2. /\ DOMAIN q = DOMAIN InitialMachine
        /\ q.gen = p.gen /\ q.opSeq = p.opSeq /\ q.recoveries = p.recoveries
        /\ q.pending = p.pending /\ q.outbox = p.outbox /\ q.completed = p.completed
        /\ q.retired = p.retired /\ q.state = "terminal_safe_stop"
    BY <2>1, Fields DEF MachineType
  <2>3. e = QueueSafeStop(q)
    BY <1>3 DEF EnterTerminal, p
  <2> HIDE DEF q
  <2>4. stop.action = "latch_safe_stop" /\ stop.op.seq = q.opSeq + 1
    BY DEF NewOperation
  <2>5. /\ e.gen = p.gen /\ e.opSeq = p.opSeq + 1 /\ e.recoveries = p.recoveries
        /\ e.pending = p.pending /\ e.outbox = Append(p.outbox, stop)
        /\ e.completed = p.completed /\ e.retired = p.retired
    BY <2>2, <2>3, Fields DEF QueueSafeStop
  <2> HIDE DEF e, stop
  <2>6. Range(e.outbox) = Range(p.outbox) \cup {stop}
    <3>1. p.outbox \in Seq(Commands)
      BY <2>1 DEF MachineType
    <3>2. /\ DOMAIN e.outbox = 1..(Len(p.outbox) + 1)
          /\ e.outbox[Len(p.outbox) + 1] = stop
          /\ \A i \in DOMAIN p.outbox : e.outbox[i] = p.outbox[i]
          /\ DOMAIN p.outbox = 1..Len(p.outbox) /\ Len(p.outbox) \in Nat
      BY <2>5, <3>1
    <3>3. DOMAIN e.outbox = DOMAIN p.outbox \cup {Len(p.outbox) + 1}
      BY <3>2
    <3> QED
      BY <3>2, <3>3 DEF Range
  <2>7. r.opSeq \in Nat /\ p.opSeq = r.opSeq /\ ~HasPending(e)
    BY <2>1, <2>5, Histories DEF HasPending
  <2>8. (Named(r) => Named(e)) /\ Stops(e)
    BY <2>1, <2>4, <2>5, <2>6, <2>7 DEF Named, Follows, Stops
  <2>9. Chronological(r) => Remembers(e, r)
    <3>1. \A n \in 0..p.opSeq :
            /\ n \in 0..e.opSeq
            /\ e.opSeq - n < HistoryCapacity => p.opSeq - n < HistoryCapacity
      <4>1. HistoryCapacity \in Nat /\ p.opSeq \in Nat /\ e.opSeq = p.opSeq + 1
        BY <2>5, <2>7, ConfigAssumption
      <4> QED
        BY <4>1
    <3>2. \A op : op.seq \in 0..p.opSeq /\ Recent(e, op) => Recent(p, op)
      BY <3>1 DEF Recent
    <3>3. Chronological(r) => Remembers(p, r)
      BY <2>1 DEF Follows
    <3>4. Chronological(p) => Chronological(e)
      BY <2>1, <2>5, <2>7, <3>1 DEF Chronological
    <3>5. Chronological(r) =>
            /\ \A op \in Range(r.retired) : op.seq \in 0..p.opSeq
            /\ \A d \in Range(r.completed) : d.op.seq \in 0..p.opSeq
            /\ HasPending(r) => r.pending.op.seq \in 0..p.opSeq
      BY <2>1 DEF Chronological
    <3> QED
      BY <2>1, <2>5, <3>2, <3>3, <3>4, <3>5 DEF Remembers, HasPending
  <2>10. /\ e.gen = r.gen
         /\ r.recoveries <= MaxRecoveries => e.recoveries <= MaxRecoveries
    BY <2>1, <2>5 DEF Follows
  <2>11. Dormant(e)
    BY <1>1 DEF Dormant, Stopped
  <2>12. /\ Range(r.outbox) \subseteq Range(e.outbox)
         /\ \A c \in Range(e.outbox) \ Range(r.outbox) : c.op.seq > r.opSeq
    BY <2>1, <2>2, <2>4, <2>6, <2>7
  <2>13. e.opSeq \in Nat /\ r.opSeq <= e.opSeq
    BY <2>5, <2>7
  <2>14. Follows(e, r)
    BY <1>1, <2>7, <2>8, <2>9, <2>10, <2>11, <2>12, <2>13 DEF Follows
  <2> QED
    BY <1>1, <2>14 DEF Steady, e
<1> QED
  BY <1>2, <1>3

\* Moving to another state; no method does so in an idle or a stopped machine.
LEMMA TransitionFollows ==
    ASSUME NEW r, MachineType(r), ~Dormant(r), NEW s, s # "terminal_safe_stop"
    PROVE  Follows(Transition(r, s), r) /\ Steady(Transition(r, s), r)
<1> DEFINE q == Transition(r, s)
<1>1. /\ q.state = s /\ q.gen = r.gen /\ q.opSeq = r.opSeq /\ q.recoveries = r.recoveries
      /\ q.pending = r.pending /\ q.outbox = r.outbox /\ q.completed = r.completed
      /\ q.retired = r.retired
  BY Fields DEF Transition, MachineType
<1> HIDE DEF q
<1>2. Follows(q, r) /\ Steady(q, r)
  BY <1>1, FollowsSame DEF Stopped
<1> QED
  BY <1>2 DEF q

\* The fallback moves to the retreat or stops.
LEMMA StartRetreatOrStopFollows ==
    ASSUME NEW r, MachineType(r), ~Dormant(r), NEW why
    PROVE  LET q == StartRetreatOrStop(r, why)
           IN  Follows(q, r) /\ Steady(q, r)
<1> DEFINE q == [r EXCEPT !.planDeadline = NoTime]
           p == [q EXCEPT !.fallback = TRUE]
           t == Transition(p, "safe_retreat")
           e == EnterTerminal(q, why)
<1>1. /\ MachineType(q) /\ q.state = r.state /\ q.gen = r.gen /\ q.opSeq = r.opSeq
      /\ q.recoveries = r.recoveries /\ q.pending = r.pending /\ q.outbox = r.outbox
      /\ q.completed = r.completed /\ q.retired = r.retired
  BY Fields DEF MachineType
<1> HIDE DEF q
<1>2. /\ MachineType(p) /\ p.state = r.state /\ p.gen = r.gen /\ p.opSeq = r.opSeq
      /\ p.recoveries = r.recoveries /\ p.pending = r.pending /\ p.outbox = r.outbox
      /\ p.completed = r.completed /\ p.retired = r.retired
  BY <1>1, Fields DEF MachineType
<1> HIDE DEF p
<1>3. Follows(q, r) /\ Steady(q, r) /\ Follows(p, r) /\ Steady(p, r) /\ ~Dormant(p)
  BY <1>1, <1>2, FollowsSame DEF Dormant, Stopped
<1>4. Follows(t, p) /\ Steady(t, p) /\ Follows(e, q) /\ Steady(e, q)
  BY <1>1, <1>2, <1>3, TransitionFollows, EnterTerminalFollows
<1>5. MachineType(t) /\ MachineType(e)
  BY <1>1, <1>2, TransitionType, EnterTerminalType DEF States, RecoveryStates, ActionStates
<1> HIDE DEF t, e
<1>6. Follows(t, r) /\ Steady(t, r) /\ Follows(e, r) /\ Steady(e, r)
  BY <1>3, <1>4, <1>5, FollowsOn
<1> QED
  BY <1>6 DEF StartRetreatOrStop, t, e, p, q

\* A retry withdraws the command; what else it does starts from the machine
\* without it.  A motion is not retried.
LEMMA RetryOrFailFollows ==
    ASSUME NEW r, MachineType(r), ~Dormant(r), NEW why
    PROVE  LET q == RetryOrFail(r, why)
           IN  Follows(q, RetirePending(r)) /\ Steady(q, r)
<1> DEFINE q == RetirePending(r)
           later == r.lastNow + RetryBackoff
           b == [q EXCEPT !.notBefore = later]
           f == RetryOrFail(r, why)
<1>1. MachineType(q) /\ ~HasPending(q) /\ q.state = r.state /\ ~Dormant(q)
  BY RetirePendingFollows DEF Dormant
<1> HIDE DEF q, later
<1>2. /\ b.state = q.state /\ b.gen = q.gen /\ b.opSeq = q.opSeq
      /\ b.recoveries = q.recoveries /\ b.pending = q.pending /\ b.outbox = q.outbox
      /\ b.completed = q.completed /\ b.retired = q.retired
  BY <1>1, Fields DEF MachineType
<1> HIDE DEF b
<1>3. Follows(b, q)
  BY <1>1, <1>2, FollowsSame DEF Stopped
<1>4. \A any : /\ Follows(EnterTerminal(q, any), q) /\ Stopped(EnterTerminal(q, any))
               /\ Follows(StartRetreatOrStop(q, any), q)
  BY <1>1, EnterTerminalFollows, EnterTerminalType, StartRetreatOrStopFollows DEF Stopped
<1>5. /\ \/ f = b
         \/ \E any : f = EnterTerminal(q, any)
         \/ \E any : f = StartRetreatOrStop(q, any)
      /\ Moving(r) => f = EnterTerminal(q, "motion_retry_forbidden")
  BY DEF RetryOrFail, q, b, later, Moving
<1> HIDE DEF f
<1> QED
  BY <1>3, <1>4, <1>5 DEF Steady, q, f

\* Issuing a command gives it the next number.
LEMMA IssueCommandFollows ==
    ASSUME NEW r, MachineType(r), r.state \in ActionStates, ~HasPending(r)
    PROVE  LET q == IssueCommand(r, r.state)
           IN  Follows(q, r) /\ Steady(q, r)
<1> DEFINE c == [action |-> r.state, op |-> NewOperation(r, r.state),
                 issued |-> r.lastNow, deadline |-> r.lastNow + ActionTimeout,
                 plan |-> IF r.state = "accept_fresh_plan" THEN r.accepted ELSE NoPlan]
           q == IssueCommand(r, r.state)
<1>1. /\ q.gen = r.gen /\ q.opSeq = r.opSeq + 1 /\ q.recoveries = r.recoveries
      /\ q.pending = c /\ q.outbox = Append(r.outbox, c) /\ q.completed = r.completed
      /\ q.retired = r.retired /\ q.state = r.state
  BY Fields DEF IssueCommand, MachineType
<1>2. c.op.seq = r.opSeq + 1
  BY DEF NewOperation
<1> HIDE DEF q, c
<1>3. r.opSeq \in Nat /\ Len(r.retired) \in Nat /\ Len(r.completed) \in Nat
  BY Histories
<1>4. Range(q.outbox) = Range(r.outbox) \cup {c}
  <2>1. r.outbox \in Seq(Commands)
    BY DEF MachineType
  <2>2. /\ DOMAIN q.outbox = 1..(Len(r.outbox) + 1)
        /\ q.outbox[Len(r.outbox) + 1] = c
        /\ \A i \in DOMAIN r.outbox : q.outbox[i] = r.outbox[i]
        /\ DOMAIN r.outbox = 1..Len(r.outbox) /\ Len(r.outbox) \in Nat
    BY <1>1, <2>1
  <2>3. DOMAIN q.outbox = DOMAIN r.outbox \cup {Len(r.outbox) + 1}
    BY <2>2
  <2> QED
    BY <2>2, <2>3 DEF Range
<1>5. Named(r) => Named(q)
  <2>1. c.op # NoOperation
    BY <1>2, <1>3 DEF NoOperation
  <2> QED
    BY <1>1, <2>1 DEF Named
<1>6. Chronological(r) => Remembers(q, r)
  <2>0. q.opSeq \in Nat /\ HistoryCapacity \in Nat
    <3>1. HistoryCapacity \in Nat
      BY ConfigAssumption
    <3> QED
      BY <1>1, <1>3, <3>1
  <2>1. \A n \in 0..r.opSeq :
          /\ n \in 0..q.opSeq /\ n < c.op.seq
          /\ q.opSeq - n < HistoryCapacity => r.opSeq - n < HistoryCapacity
    BY <1>1, <1>2, <1>3, <2>0
  <2>2. c.op.seq \in 0..q.opSeq /\ ~HasPending(r)
    BY <1>1, <1>2, <1>3
  <2>3. Chronological(r) => Chronological(q)
    BY <1>1, <2>1, <2>2 DEF Chronological
  <2> QED
    BY <1>1, <2>2, <2>3 DEF Remembers
<1>7. ~Dormant(r) /\ ~Stopped(q) /\ ~Stopped(r)
  BY <1>1 DEF Dormant, Stopped, ActionStates
<1>8. Follows(q, r)
  BY <1>1, <1>2, <1>3, <1>4, <1>5, <1>6, <1>7 DEF Follows
<1>9. ~Moving(r)
  BY DEF Moving, HasPending, MotionActions
<1> QED
  BY <1>8, <1>9 DEF Steady, q

\* Whatever the gates decide about it.
LEMMA IssueWhenDueFollows ==
    ASSUME NEW r, MachineType(r)
    PROVE  LET q == IssueWhenDue(r)
           IN  Follows(q, r) /\ Steady(q, r)
<1>1. Follows(r, r) /\ Steady(r, r)
  BY FollowsSame
<1>2. ASSUME r.state \in ActionStates, ~HasPending(r)
      PROVE  /\ Follows(IssueCurrentAction(r), r) /\ Steady(IssueCurrentAction(r), r)
  <2>1. ~Dormant(r)
    BY <1>2 DEF Dormant, ActionStates
  <2>2. /\ Follows(IssueCommand(r, r.state), r) /\ Steady(IssueCommand(r, r.state), r)
    BY <1>2, IssueCommandFollows
  <2>3. \A why : /\ Follows(EnterTerminal(r, why), r) /\ Steady(EnterTerminal(r, why), r)
                 /\ Follows(StartRetreatOrStop(r, why), r)
                 /\ Steady(StartRetreatOrStop(r, why), r)
    BY <2>1, EnterTerminalFollows, StartRetreatOrStopFollows
  <2> QED
    BY <2>2, <2>3 DEF IssueCurrentAction, ActionByState
<1> QED
  BY <1>1, <1>2 DEF IssueWhenDue

\* The paragraphs of tick before the last one.
LEMMA ParagraphsFollow ==
    ASSUME NEW r, MachineType(r), PendingMatches(r)
    PROVE  /\ Follows(SafetyGate(r), r) /\ Steady(SafetyGate(r), r)
           /\ Follows(RecoveryDeadline(r), r) /\ Steady(RecoveryDeadline(r), r)
           /\ Follows(PendingExpiry(r), r) /\ Steady(PendingExpiry(r), r)
           /\ Follows(PlanWaitExpiry(r), r) /\ Steady(PlanWaitExpiry(r), r)
           /\ Follows(CooldownExpiry(r), r) /\ Steady(CooldownExpiry(r), r)
<1>1. Follows(r, r) /\ Steady(r, r)
  BY FollowsSame
<1>2. \A why : Follows(EnterTerminal(r, why), r) /\ Steady(EnterTerminal(r, why), r)
  BY EnterTerminalFollows
<1>3. /\ Follows(SafetyGate(r), r) /\ Steady(SafetyGate(r), r)
      /\ Follows(RecoveryDeadline(r), r) /\ Steady(RecoveryDeadline(r), r)
  BY <1>1, <1>2 DEF SafetyGate, RecoveryDeadline
<1>4. Follows(PendingExpiry(r), r) /\ Steady(PendingExpiry(r), r)
  <2>1. ASSUME HasPending(r), NEW why
        PROVE  Follows(RetryOrFail(r, why), r) /\ Steady(RetryOrFail(r, why), r)
    <3> DEFINE f == RetryOrFail(r, why)
               q == RetirePending(r)
    <3>1. ~Dormant(r)
      BY <2>1, PendingInActionState DEF Dormant, ActionStates
    <3>2. Follows(f, q) /\ Steady(f, r)
      BY <3>1, RetryOrFailFollows
    <3>3. Follows(q, r)
      BY RetirePendingFollows
    <3>4. MachineType(f)
      BY RetryOrFailType
    <3> HIDE DEF f, q
    <3>5. Follows(f, r)
      BY <3>2, <3>3, <3>4, FollowsOn
    <3> QED
      BY <3>2, <3>5 DEF f
  <2> QED
    BY <1>1, <2>1 DEF PendingExpiry
<1>5. Follows(PlanWaitExpiry(r), r) /\ Steady(PlanWaitExpiry(r), r)
  BY <1>1, TransitionFollows, StartRetreatOrStopFollows DEF PlanWaitExpiry, Dormant
<1>6. Follows(CooldownExpiry(r), r) /\ Steady(CooldownExpiry(r), r)
  <2> DEFINE t == Transition(r, "monitoring")
             q == [t EXCEPT !.samples = NoSamples, !.arrivals = <<>>,
                            !.cooldownUntil = NoTime]
  <2>1. /\ MachineType(t) /\ t.state = "monitoring"
        /\ t.gen = r.gen /\ t.opSeq = r.opSeq
        /\ t.recoveries = r.recoveries /\ t.pending = r.pending /\ t.outbox = r.outbox
        /\ t.completed = r.completed /\ t.retired = r.retired
    BY TransitionType, Fields DEF Transition, MachineType, States
  <2> HIDE DEF t
  <2>2. /\ q.state = "monitoring" /\ q.gen = r.gen /\ q.opSeq = r.opSeq
        /\ q.recoveries = r.recoveries /\ q.pending = r.pending /\ q.outbox = r.outbox
        /\ q.completed = r.completed /\ q.retired = r.retired
    BY <2>1, Fields DEF MachineType
  <2>3. \/ CooldownExpiry(r) = r
        \/ r.state = "cooldown" /\ CooldownExpiry(r) = q
    BY DEF CooldownExpiry, t
  <2> HIDE DEF q
  <2>4. r.state = "cooldown" => Follows(q, r) /\ Steady(q, r)
    BY <2>2, FollowsSame DEF Dormant, Stopped
  <2> QED
    BY <1>1, <2>3, <2>4
<1> QED
  BY <1>3, <1>4, <1>5, <1>6

\* tick, from its flags to its last paragraph.
LEMMA TickFollows ==
    ASSUME NEW r, MachineType(r), Sound(r), NEW flags \in SafetyFlags, NEW cached \in BOOLEAN
    PROVE  LET t == TickWith(r, flags, cached)
           IN  Follows(t, r) /\ Steady(t, r)
<1> DEFINE q == SetSafety(r, flags, cached)
<1>1. MachineType(q) /\ Sound(q) /\ PendingMatches(q)
  BY SetSafetySound DEF Sound
<1>2. Follows(q, r) /\ Steady(q, r)
  <2>1. /\ q.state = r.state /\ q.gen = r.gen /\ q.opSeq = r.opSeq
        /\ q.recoveries = r.recoveries /\ q.pending = r.pending /\ q.outbox = r.outbox
        /\ q.completed = r.completed /\ q.retired = r.retired
    BY Fields DEF SetSafety, MachineType
  <2> HIDE DEF q
  <2> QED
    BY <2>1, FollowsSame DEF Stopped
<1> HIDE DEF q
<1> DEFINE a == SafetyGate(q)
           b == RecoveryDeadline(a)
           c == PendingExpiry(b)
           d == PlanWaitExpiry(c)
           e == CooldownExpiry(d)
           i == IssueWhenDue(e)
<1>3. \A x : Settled(x) => MachineType(x) /\ PendingMatches(x)
  BY DEF Settled, Guarded, Sound
<1>4. Settled(a) /\ Follows(a, q) /\ Steady(a, q)
  BY <1>1, SafetyGateSound, ParagraphsFollow
<1> HIDE DEF a
<1>5. Settled(b) /\ Follows(b, a) /\ Steady(b, a)
  BY <1>3, <1>4, RecoveryDeadlineSound, ParagraphsFollow
<1> HIDE DEF b
<1>6. Settled(c) /\ Follows(c, b) /\ Steady(c, b)
  BY <1>3, <1>5, PendingExpirySound, ParagraphsFollow
<1> HIDE DEF c
<1>7. Settled(d) /\ Follows(d, c) /\ Steady(d, c)
  BY <1>3, <1>6, PlanWaitExpirySound, ParagraphsFollow
<1> HIDE DEF d
<1>8. Settled(e) /\ Follows(e, d) /\ Steady(e, d)
  BY <1>3, <1>7, CooldownExpirySound, ParagraphsFollow
<1> HIDE DEF e
<1>9. Settled(i) /\ Follows(i, e) /\ Steady(i, e)
  BY <1>3, <1>8, IssueWhenDueSound, IssueWhenDueFollows
<1> HIDE DEF i
<1>10. Follows(a, r) /\ Steady(a, r)
  BY <1>2, <1>3, <1>4, FollowsOn
<1>11. Follows(b, r) /\ Steady(b, r)
  BY <1>3, <1>5, <1>10, FollowsOn
<1>12. Follows(c, r) /\ Steady(c, r)
  BY <1>3, <1>6, <1>11, FollowsOn
<1>13. Follows(d, r) /\ Steady(d, r)
  BY <1>3, <1>7, <1>12, FollowsOn
<1>14. Follows(e, r) /\ Steady(e, r)
  BY <1>3, <1>8, <1>13, FollowsOn
<1>15. Follows(i, r) /\ Steady(i, r)
  BY <1>3, <1>9, <1>14, FollowsOn
<1> QED
  BY <1>2, <1>15 DEF TickWith, q, a, b, c, d, e, i

\* The tick at the end of a handler.
LEMMA CachedTickFollows ==
    ASSUME NEW r, Settled(r)
    PROVE  Follows(CachedTick(r), r) /\ Steady(CachedTick(r), r)
<1>1. MachineType(r) /\ Sound(r) /\ r.safety \in SafetyFlags
  BY DEF Settled, Guarded, MachineType
<1> QED
  BY <1>1, TickFollows DEF CachedTick

\* Completing an action moves on, or stops.
LEMMA CompleteActionFollows ==
    ASSUME NEW r, MachineType(r), r.state \in ActionStates
    PROVE  LET q == CompleteAction(r, r.state)
           IN  Follows(q, r)
<1> DEFINE deadline == r.lastNow + PlanWaitTimeout
           until == r.lastNow + CooldownTime
           w == [r EXCEPT !.state = "wait_fresh_plan", !.attempt = 0,
                          !.planDeadline = deadline,
                          !.awaiting = Last(r.completed).op]
           f == [r EXCEPT !.replans = 0, !.rejections = 0]
           a == [r EXCEPT !.seen = @ \cup {r.accepted.shape}, !.active = r.accepted,
                   !.startedAt = NoTime, !.state = "cooldown",
                   !.cooldownUntil = until]
           t == Transition(f, "scan")
<1>1. ~Dormant(r)
  BY DEF Dormant, ActionStates
<1>2. \A s \in ActionStates : Follows(Transition(r, s), r)
  BY <1>1, TransitionFollows DEF ActionStates
<1>3. \A why : Follows(EnterTerminal(r, why), r)
  BY EnterTerminalFollows
<1> HIDE DEF deadline, until
<1>4. /\ w.state = "wait_fresh_plan" /\ w.gen = r.gen /\ w.opSeq = r.opSeq
      /\ w.recoveries = r.recoveries /\ w.pending = r.pending /\ w.outbox = r.outbox
      /\ w.completed = r.completed /\ w.retired = r.retired
  BY Fields DEF MachineType
<1>5. /\ a.state = "cooldown" /\ a.gen = r.gen /\ a.opSeq = r.opSeq
      /\ a.recoveries = r.recoveries /\ a.pending = r.pending /\ a.outbox = r.outbox
      /\ a.completed = r.completed /\ a.retired = r.retired
  BY Fields DEF MachineType
<1>6. /\ MachineType(f)
      /\ f.state = r.state /\ f.gen = r.gen /\ f.opSeq = r.opSeq
      /\ f.recoveries = r.recoveries /\ f.pending = r.pending /\ f.outbox = r.outbox
      /\ f.completed = r.completed /\ f.retired = r.retired
  BY Fields DEF MachineType
<1> HIDE DEF w, a, f
<1>7. Follows(w, r) /\ Follows(a, r)
  BY <1>1, <1>4, <1>5, FollowsSame DEF Stopped
<1>8. Follows(t, r)
  <2>1. Follows(f, r) /\ ~Dormant(f)
    BY <1>1, <1>6, FollowsSame DEF Stopped, Dormant
  <2>2. Follows(t, f) /\ MachineType(t)
    BY <1>6, <2>1, TransitionFollows, TransitionType DEF States, RecoveryStates, ActionStates
  <2> HIDE DEF t
  <2> QED
    BY <2>1, <2>2, FollowsOn
<1>9. Follows(CompleteAccept(r), r)
  BY <1>3, <1>7 DEF CompleteAccept, a, until
<1>10. r.state = "request_replan" => CompleteAction(r, r.state) = w
  BY DEF CompleteAction, w, deadline
<1>11. r.state # "request_replan" =>
         CompleteAction(r, r.state) \in
           {Transition(r, "clear_local_cache"), Transition(r, "scan"),
            Transition(r, "request_replan"), t, CompleteAccept(r)}
  BY DEF CompleteAction, ActionStates, f
<1> HIDE DEF t
<1>12. Follows(Transition(r, "clear_local_cache"), r) /\ Follows(Transition(r, "scan"), r)
       /\ Follows(Transition(r, "request_replan"), r)
  BY <1>2 DEF ActionStates
<1> QED
  BY <1>7, <1>8, <1>9, <1>10, <1>11, <1>12

\* Starting a recovery, within the budget of the episode.
LEMMA StartRecoveryFollows ==
    ASSUME NEW r, MachineType(r), r.state = "monitoring", NEW extras
    PROVE  LET q == StartRecovery(r, extras)
           IN  Follows(q, r) /\ Steady(q, r) /\ MachineType(q)
<1> DEFINE taboo == AddTabooAll(r.taboo, <<r.active>> \o extras)
           q == [r EXCEPT !.recoveries = @ + 1, !.startedAt = r.lastNow,
                     !.fallback = FALSE, !.replans = 0, !.rejections = 0,
                     !.commands = 0, !.accepted = NoPlan,
                     !.taboo = taboo, !.samples = NoSamples, !.blamed = r.active]
           t == Transition(q, "cancel_goal")
           e == EnterTerminal(r, "episode_recovery_budget_exhausted")
<1> HIDE DEF taboo
<1>1. Follows(e, r) /\ Steady(e, r) /\ MachineType(e)
  BY EnterTerminalFollows
<1>2. ASSUME ~(r.recoveries >= MaxRecoveries)
      PROVE  Follows(t, r) /\ Steady(t, r) /\ MachineType(t)
  <2>1. /\ MachineType(q) /\ q.state = "monitoring" /\ q.gen = r.gen /\ q.opSeq = r.opSeq
        /\ q.recoveries = r.recoveries + 1 /\ q.pending = r.pending /\ q.outbox = r.outbox
        /\ q.completed = r.completed /\ q.retired = r.retired
    BY Counters, Fields, ZenonT(60) DEF MachineType, NoSamples
  <2>2. r.recoveries \in Nat /\ MaxRecoveries \in Nat
    BY ConfigAssumption DEF MachineType
  <2> HIDE DEF q
  <2>3. q.recoveries <= MaxRecoveries
    BY <1>2, <2>1, <2>2
  <2>4. Follows(q, r) /\ Steady(q, r) /\ ~Dormant(q)
    BY <2>1, <2>3, FollowsSame DEF Stopped, Dormant
  <2>5. Follows(t, q) /\ Steady(t, q) /\ MachineType(t)
    BY <2>1, <2>4, TransitionFollows, TransitionType DEF States, RecoveryStates, ActionStates
  <2> HIDE DEF t
  <2> QED
    BY <2>4, <2>5, FollowsOn
<1> QED
  BY <1>1, <1>2 DEF StartRecovery, t, q, e, taboo

\* A new goal changes nothing that this is about.
LEMMA AdoptGoalFollows ==
    ASSUME NEW r, MachineType(r), NEW goal
    PROVE  Follows(AdoptGoal(r, goal), r) /\ Steady(AdoptGoal(r, goal), r)
<1> DEFINE p == [r EXCEPT !.samples = NoSamples, !.arrivals = <<>>, !.seen = {},
                          !.active = NoPlan, !.goal = goal]
           q == [r EXCEPT !.goal = goal]
<1>1. /\ p.state = r.state /\ p.gen = r.gen /\ p.opSeq = r.opSeq
      /\ p.recoveries = r.recoveries /\ p.pending = r.pending /\ p.outbox = r.outbox
      /\ p.completed = r.completed /\ p.retired = r.retired
  BY Fields DEF MachineType
<1>2. /\ q.state = r.state /\ q.gen = r.gen /\ q.opSeq = r.opSeq
      /\ q.recoveries = r.recoveries /\ q.pending = r.pending /\ q.outbox = r.outbox
      /\ q.completed = r.completed /\ q.retired = r.retired
  BY Fields DEF MachineType
<1>3. AdoptGoal(r, goal) \in {p, q}
  BY DEF AdoptGoal
<1> HIDE DEF p, q
<1>4. Follows(p, r) /\ Steady(p, r) /\ Follows(q, r) /\ Steady(q, r)
  BY <1>1, <1>2, FollowsSame DEF Stopped
<1> QED
  BY <1>3, <1>4

\* A plan update only notes the plan, or starts a recovery, or stops.
LEMMA PlanArrivalFollows ==
    ASSUME NEW r, MachineType(r), NEW p \in Plans, NEW running, NEW window, NEW order
    PROVE  LET q == PlanArrival(r, p, running, window, order)
           IN  Follows(q, r) /\ Steady(q, r)
<1> DEFINE push == PushBounded(r.arrivals, p, TabooCapacity)
           a == [r EXCEPT !.active = p, !.arrivals = push]
           marked == [a EXCEPT !.seen = @ \cup {p.shape}]
<1>1. push \in Seq(Plans)
  BY PushBoundedType, ConfigAssumption DEF MachineType
<1> HIDE DEF push
<1>2. /\ MachineType(a)
      /\ a.state = r.state /\ a.gen = r.gen /\ a.opSeq = r.opSeq
      /\ a.recoveries = r.recoveries /\ a.pending = r.pending /\ a.outbox = r.outbox
      /\ a.completed = r.completed /\ a.retired = r.retired
  BY <1>1, Fields DEF MachineType
<1> HIDE DEF a
<1>3. /\ MachineType(marked)
      /\ marked.state = a.state /\ marked.gen = a.gen /\ marked.opSeq = a.opSeq
      /\ marked.recoveries = a.recoveries /\ marked.pending = a.pending
      /\ marked.outbox = a.outbox /\ marked.completed = a.completed
      /\ marked.retired = a.retired
  <2>1. a.seen \cup {p.shape} \subseteq {q.shape : q \in Plans}
    BY <1>2 DEF MachineType
  <2> QED
    BY <1>2, <2>1, Fields, SMTT(30) DEF MachineType
<1> HIDE DEF marked
<1>4. Follows(a, r) /\ Steady(a, r)
  BY <1>2, FollowsSame DEF Stopped
<1>5. Follows(marked, a) /\ Steady(marked, a) /\ Follows(a, a) /\ Steady(a, a)
  BY <1>2, <1>3, FollowsSame DEF Stopped
<1>6. \A why : LET e == EnterTerminal(a, why)
               IN  Follows(e, a) /\ Steady(e, a) /\ MachineType(e)
  BY <1>2, EnterTerminalFollows
<1>7. \A x, extras : MachineType(x) /\ x.state = "monitoring" =>
          LET q == StartRecovery(x, extras)
          IN  Follows(q, x) /\ Steady(q, x) /\ MachineType(q)
  BY StartRecoveryFollows
<1> DEFINE recent == RecentSignatures(a.arrivals)
           Extras(S) == InOrder(order, S)
           first == StartRecovery(a, Extras(recent))
           b == IF ~(r.state = "monitoring" /\ running) THEN a
                ELSE IF p.shape \in r.seen THEN first
                ELSE IF Cardinality(r.seen) >= TabooCapacity
                THEN EnterTerminal(a, "plan_history_capacity_exhausted")
                ELSE marked
           cycle == PlanCycle(b.arrivals, window)
           cycled == Extras({q \in recent : q.shape \in cycle})
           s == StartRecovery(b, cycled)
           end == PlanArrival(r, p, running, window, order)
<1> HIDE DEF recent, Extras
<1>8. end = IF cycle # {} /\ b.state = "monitoring" /\ running THEN s ELSE b
  BY DEF PlanArrival, b, cycle, recent, Extras, a, push, marked, first
<1>9. r.state = "monitoring" => Follows(first, a) /\ Steady(first, a) /\ MachineType(first)
  BY <1>2, <1>7
<1> HIDE DEF first
<1>10. Follows(b, a) /\ Steady(b, a) /\ MachineType(b)
  BY <1>2, <1>3, <1>5, <1>6, <1>9
<1> HIDE DEF b, cycle, cycled
<1>11. Follows(b, r) /\ Steady(b, r)
  BY <1>4, <1>10, FollowsOn
<1>12. b.state = "monitoring" => Follows(s, b) /\ Steady(s, b) /\ MachineType(s)
  BY <1>7, <1>10
<1> HIDE DEF s
<1>13. b.state = "monitoring" => Follows(s, r) /\ Steady(s, r)
  BY <1>11, <1>12, FollowsOn
<1> QED
  BY <1>8, <1>11, <1>13

\* The end of observe.
LEMMA ObserveProgressFollows ==
    ASSUME NEW r, Settled(r), NEW flags \in SafetyFlags, NEW running, NEW stuck
    PROVE  LET q == ObserveProgress(r, flags, running, stuck)
           IN  Follows(q, r) /\ Steady(q, r)
<1> DEFINE t == TickWith(r, flags, FALSE)
           s == AddSample(r)
           x == StartRecovery(s, <<>>)
           u == TickWith(x, flags, FALSE)
<1>1. MachineType(r) /\ Sound(r)
  BY DEF Settled, Guarded
<1>2. Follows(t, r) /\ Steady(t, r)
  BY <1>1, TickFollows
<1>3. \A samples : LET z == [r EXCEPT !.samples = samples]
                   IN  /\ Follows(z, r) /\ Steady(z, r) /\ z.state = r.state
                       /\ samples \in [count : Nat, last : Nat] => Settled(z)
  <2> SUFFICES ASSUME NEW samples
               PROVE  LET z == [r EXCEPT !.samples = samples]
                      IN  /\ Follows(z, r) /\ Steady(z, r) /\ z.state = r.state
                          /\ samples \in [count : Nat, last : Nat] => Settled(z)
    OBVIOUS
  <2> DEFINE z == [r EXCEPT !.samples = samples]
  <2>1. /\ z.state = r.state /\ z.gen = r.gen /\ z.opSeq = r.opSeq
        /\ z.recoveries = r.recoveries /\ z.pending = r.pending /\ z.outbox = r.outbox
        /\ z.completed = r.completed /\ z.retired = r.retired
    BY <1>1, Fields DEF MachineType
  <2>2. samples \in [count : Nat, last : Nat] => Settled(z)
    BY SamplesSound
  <2> HIDE DEF z
  <2>3. Follows(z, r) /\ Steady(z, r)
    BY <1>1, <2>1, FollowsSame DEF Stopped
  <2> QED
    BY <2>1, <2>2, <2>3 DEF z
<1>4. Settled(s) /\ Follows(s, r) /\ Steady(s, r) /\ s.state = r.state
  <2> DEFINE gap == r.lastNow - r.samples.last > MaxObservationGap
             kept == IF gap THEN 0 ELSE r.samples.count
             count == IF kept < MinSamples THEN kept + 1 ELSE kept
             samples == [count |-> count, last |-> r.lastNow]
  <2> HIDE DEF gap
  <2>1. r.samples.count \in Nat /\ r.lastNow \in Nat
    BY <1>1 DEF MachineType
  <2>2. count \in Nat
    BY <2>1
  <2>3. s = [r EXCEPT !.samples = samples]
    BY DEF AddSample, gap
  <2> HIDE DEF count, s
  <2>4. samples \in [count : Nat, last : Nat]
    BY <2>1, <2>2
  <2> HIDE DEF samples
  <2> QED
    BY <1>3, <2>3, <2>4
<1> HIDE DEF s
<1>5. ASSUME r.state = "monitoring" PROVE Follows(u, r) /\ Steady(u, r)
  <2>1. Settled(x) /\ Follows(x, s) /\ Steady(x, s)
    BY <1>4, <1>5, StartRecoverySound, StartRecoveryFollows DEF Settled
  <2> HIDE DEF x
  <2>2. Follows(u, x) /\ Steady(u, x) /\ MachineType(u)
    BY <2>1, TickFollows, TickWithType DEF Settled, Guarded
  <2> HIDE DEF u
  <2>3. Follows(x, r) /\ Steady(x, r)
    BY <1>1, <1>4, <2>1, FollowsOn DEF Settled
  <2> QED
    BY <1>1, <2>2, <2>3, FollowsOn
<1> QED
  BY <1>2, <1>3, <1>4, <1>5 DEF ObserveProgress, s, t, x, u

-----------------------------------------------------------------------------
(* The handlers.                                                           *)

\* The machine as a handler finds it: what the last one returned is gone.
Drained(r) == [r EXCEPT !.outbox = <<>>]

\* A handler returns a machine that follows.
Handled(q, r) == Follows(q, Drained(r)) /\ Steady(q, Drained(r))

\* Nothing else was drained.
LEMMA DrainedMachine ==
    ASSUME NEW r, MachineType(r)
    PROVE  LET q == Drained(r)
           IN  /\ MachineType(q) /\ q.outbox = <<>>
               /\ q.state = r.state /\ q.gen = r.gen /\ q.opSeq = r.opSeq
               /\ q.recoveries = r.recoveries /\ q.pending = r.pending
               /\ q.completed = r.completed /\ q.retired = r.retired
               /\ q.lastNow = r.lastNow /\ q.awaiting = r.awaiting
<1> DEFINE q == Drained(r)
<1>1. MachineType(q)
  BY Fields DEF Drained, MachineType
<1>2. /\ q.outbox = <<>> /\ q.state = r.state /\ q.gen = r.gen /\ q.opSeq = r.opSeq
      /\ q.recoveries = r.recoveries /\ q.pending = r.pending
      /\ q.completed = r.completed /\ q.retired = r.retired
      /\ q.lastNow = r.lastNow /\ q.awaiting = r.awaiting
  BY Fields DEF Drained, MachineType
<1> QED
  BY <1>1, <1>2

\* What every handler but begin_episode starts from.
LEMMA CalledFollows ==
    ASSUME Settled(m), NEW now \in CallTimes
    PROVE  LET v == ValidateTime(m, now)
               d == RecoveryDeadline(v)
           IN  /\ Handled(v, m) /\ Handled(d, m)
               /\ \A why : /\ Handled(EnterTerminal(v, why), m)
                           /\ Handled(EnterTerminal(d, why), m)
<1> DEFINE p == Drained(m)
           later == [p EXCEPT !.lastNow = now]
           v == ValidateTime(m, now)
           d == RecoveryDeadline(v)
<1>1. Settled(v) /\ Settled(d)
  BY CalledSound
<1>2. MachineType(p)
  BY DrainedMachine DEF Settled
<1>3. v = IF now < m.lastNow THEN EnterTerminal(p, "monotonic_time_regression") ELSE later
  BY DEF ValidateTime, Drained
<1> HIDE DEF p
<1>4. Follows(later, p) /\ Steady(later, p)
  <2>1. /\ later.state = p.state /\ later.gen = p.gen /\ later.opSeq = p.opSeq
        /\ later.recoveries = p.recoveries /\ later.pending = p.pending
        /\ later.outbox = p.outbox /\ later.completed = p.completed
        /\ later.retired = p.retired
    BY <1>2, Fields DEF MachineType
  <2> HIDE DEF later
  <2> QED
    BY <1>2, <2>1, FollowsSame DEF Stopped
<1> HIDE DEF v, later
<1>5. Follows(v, p) /\ Steady(v, p)
  BY <1>2, <1>3, <1>4, EnterTerminalFollows
<1>6. Follows(d, v) /\ Steady(d, v)
  BY <1>1, ParagraphsFollow DEF Settled, Guarded, Sound
<1> HIDE DEF d
<1>7. Follows(d, p) /\ Steady(d, p)
  BY <1>1, <1>2, <1>5, <1>6, FollowsOn DEF Settled
<1>8. ASSUME NEW why
      PROVE  /\ Handled(EnterTerminal(v, why), m) /\ Handled(EnterTerminal(d, why), m)
  <2> DEFINE a == EnterTerminal(v, why)
             b == EnterTerminal(d, why)
  <2>1. /\ Follows(a, v) /\ Steady(a, v) /\ MachineType(a)
        /\ Follows(b, d) /\ Steady(b, d) /\ MachineType(b)
    BY <1>1, EnterTerminalFollows DEF Settled
  <2> HIDE DEF a, b
  <2>2. Follows(a, p) /\ Steady(a, p) /\ Follows(b, p) /\ Steady(b, p)
    BY <1>2, <1>5, <1>7, <2>1, FollowsOn
  <2> QED
    BY <2>2 DEF Handled, p, a, b
<1> QED
  BY <1>5, <1>7, <1>8 DEF Handled, p, v, d

\* Handlers go on from there.
LEMMA HandledOn ==
    ASSUME Settled(m), NEW q, NEW s, Handled(q, m), Follows(s, q), Steady(s, q), MachineType(s)
    PROVE  Handled(s, m)
BY DrainedMachine, FollowsOn DEF Handled, Settled

\* tick
LEMMA ClockedFollows ==
    ASSUME Settled(m), Clocked
    PROVE  Handled(m', m)
<1>1. PICK now \in CallTimes :
        TickInvalid(now) \/ \E flags \in SafetyFlags : Tick(now, flags)
  BY DEF Clocked
<1> DEFINE v == ValidateTime(m, now)
<1>2. Settled(v) /\ Handled(v, m) /\ \A why : Handled(EnterTerminal(v, why), m)
  BY CalledSound, CalledFollows
<1> HIDE DEF v
<1>3. \A flags \in SafetyFlags : Handled(TickWith(v, flags, FALSE), m)
  <2> SUFFICES ASSUME NEW flags \in SafetyFlags
               PROVE  Handled(TickWith(v, flags, FALSE), m)
    OBVIOUS
  <2> DEFINE t == TickWith(v, flags, FALSE)
  <2>1. Follows(t, v) /\ Steady(t, v) /\ MachineType(t)
    BY <1>2, TickFollows, TickWithType DEF Settled, Guarded
  <2> HIDE DEF t
  <2> QED
    BY <1>2, <2>1, HandledOn DEF t
<1> QED
  BY <1>1, <1>2, <1>3 DEF TickInvalid, Tick, v

\* Remembering a completion and retiring the command, as after a rejection.
LEMMA RejectedFollows ==
    ASSUME NEW r, MachineType(r), HasPending(r), NEW success \in BOOLEAN
    PROVE  LET c == RememberCompletion(r, r.pending.op, success)
               e == [c EXCEPT !.pending = NoCommand]
           IN  /\ MachineType(c) /\ c.state = r.state /\ c.pending = r.pending
               /\ Follows(RetirePending(c), r)
               /\ MachineType(e) /\ e.gen = r.gen /\ e.opSeq = r.opSeq
               /\ e.recoveries = r.recoveries /\ e.outbox = r.outbox /\ ~HasPending(e)
               /\ e.state = r.state /\ e.retired = r.retired
               /\ Named(r) => Named(e)
               /\ Chronological(r) =>
                    /\ Chronological(e)
                    /\ \A d \in Range(r.completed) : Recent(r, d.op) => d \in Range(e.completed)
                    /\ [op |-> r.pending.op, success |-> success] \in Range(e.completed)
<1> DEFINE done == [op |-> r.pending.op, success |-> success]
           t == PushBounded(r.completed, done, HistoryCapacity)
           c == RememberCompletion(r, r.pending.op, success)
           e == [c EXCEPT !.pending = NoCommand]
           q == RetirePending(c)
           u == PushBounded(c.retired, c.pending.op, HistoryCapacity)
           entries == [op : Operations, success : BOOLEAN]
<1>1. /\ r.retired \in Seq(Operations) /\ r.completed \in Seq(entries)
      /\ r.pending.op \in Operations /\ done \in entries
      /\ r.opSeq \in Nat /\ HistoryCapacity \in Nat \ {0}
  BY Histories, ConfigAssumption
<1>2. MachineType(c)
  BY <1>1, RememberCompletionType
<1>3. done.op = r.pending.op
  OBVIOUS
<1> HIDE DEF done, entries
<1>4. done \in Range(t) /\ Range(t) \subseteq Range(r.completed) \cup {done}
  BY <1>1, PushedRange
<1>5. Chronological(r) =>
        /\ Spaced(t, DoneNumber) /\ \A d \in Range(t) : d.op.seq \in 0..r.opSeq
        /\ \A d \in Range(r.completed) : Recent(r, d.op) => d \in Range(t)
  BY PushedInOrder DEF done
<1>6. c = [r EXCEPT !.completed = t]
  BY DEF RememberCompletion, t, done
<1> HIDE DEF t
<1>7. /\ c.gen = r.gen /\ c.opSeq = r.opSeq /\ c.recoveries = r.recoveries
      /\ c.outbox = r.outbox /\ c.state = r.state /\ c.completed = t
      /\ c.retired = r.retired /\ c.pending = r.pending
  BY <1>6, Fields DEF MachineType
<1> HIDE DEF c
<1>8. /\ e.gen = r.gen /\ e.opSeq = r.opSeq /\ e.recoveries = r.recoveries
      /\ e.outbox = r.outbox /\ e.state = r.state /\ e.completed = t
      /\ e.retired = r.retired /\ e.pending = NoCommand
  BY <1>2, <1>7, Fields DEF MachineType
<1>9. MachineType(e)
  BY <1>2, DropPendingType
<1> HIDE DEF e
<1>10. ~HasPending(e)
  BY <1>8 DEF HasPending, NoCommand
<1>11. HasPending(c)
  BY <1>7 DEF HasPending
<1>12. u \in Seq(Operations) /\ r.pending.op \in Range(u)
       /\ Range(u) \subseteq Range(r.retired) \cup {r.pending.op}
  <2> DEFINE x == PushBounded(r.retired, r.pending.op, HistoryCapacity)
  <2>1. u = x
    BY <1>7
  <2>2. x \in Seq(Operations)
    BY <1>1, Pushed
  <2>3. r.pending.op \in Range(x) /\ Range(x) \subseteq Range(r.retired) \cup {r.pending.op}
    BY <1>1, PushedRange
  <2> HIDE DEF x, u
  <2> QED
    BY <2>1, <2>2, <2>3
<1>13. Chronological(r) =>
         /\ Spaced(u, OpNumber) /\ \A op \in Range(u) : op.seq \in 0..r.opSeq
         /\ \A op \in Range(r.retired) : Recent(r, op) => op \in Range(u)
  <2> DEFINE x == PushBounded(r.retired, r.pending.op, HistoryCapacity)
  <2>1. u = x
    BY <1>7
  <2>2. Chronological(r) =>
          /\ Spaced(x, OpNumber) /\ \A op \in Range(x) : op.seq \in 0..r.opSeq
          /\ \A op \in Range(r.retired) : Recent(r, op) => op \in Range(x)
    BY PushedInOrder
  <2> HIDE DEF x, u
  <2> QED
    BY <2>1, <2>2
<1>14. /\ q.gen = r.gen /\ q.opSeq = r.opSeq /\ q.recoveries = r.recoveries
       /\ q.outbox = r.outbox /\ q.state = r.state /\ q.completed = t
       /\ q.retired = u /\ q.pending = NoCommand
  <2>1. q = [c EXCEPT !.retired = u, !.pending = NoCommand]
    BY <1>11 DEF RetirePending
  <2> HIDE DEF q, u
  <2> QED
    BY <1>2, <1>7, <2>1, Fields DEF MachineType
<1> HIDE DEF u, q
<1>15. ~HasPending(q)
  BY <1>14 DEF HasPending, NoCommand
<1>16. (Named(r) => Named(q)) /\ (Named(r) => Named(e))
  BY <1>3, <1>4, <1>8, <1>10, <1>12, <1>14, <1>15 DEF Named
<1>18. Chronological(r) => Remembers(q, r)
  BY <1>5, <1>12, <1>13, <1>14, <1>15 DEF Chronological, Remembers, Recent
<1>19. (Dormant(r) => Dormant(q)) /\ (Stopped(r) <=> Stopped(q))
  BY <1>14 DEF Dormant, Stopped
<1>20. r.opSeq <= r.opSeq
  BY <1>1
<1>21. Follows(q, r)
  BY <1>1, <1>14, <1>15, <1>16, <1>18, <1>19, <1>20 DEF Follows
<1>22. Chronological(r) =>
         /\ Chronological(e)
         /\ \A d \in Range(r.completed) : Recent(r, d.op) => d \in Range(e.completed)
         /\ done \in Range(e.completed)
  BY <1>4, <1>5, <1>8, <1>10 DEF Chronological
<1> QED
  BY <1>2, <1>7, <1>8, <1>9, <1>10, <1>16, <1>21, <1>22 DEF c, e, q, done

\* e is r with its outstanding command remembered as a success.
Acked(e, r) ==
    /\ MachineType(e) /\ ~HasPending(e)
    /\ e.gen = r.gen /\ e.opSeq = r.opSeq /\ e.recoveries = r.recoveries
    /\ e.outbox = <<>> /\ e.retired = r.retired /\ ~Dormant(e)
    /\ Named(r) => Named(e)
    /\ Chronological(r) =>
         /\ Chronological(e)
         /\ \A d \in Range(r.completed) : Recent(r, d.op) => d \in Range(e.completed)
         /\ [op |-> r.pending.op, success |-> TRUE] \in Range(e.completed)

\* An accepted acknowledgement of a success is remembered first; on every other
\* path the command is kept, retried or retired.
LEMMA AckPendingFollows ==
    ASSUME Settled(m), NEW now \in CallTimes, NEW success \in BOOLEAN,
           NEW evidence, AckPending(now, success, evidence)
    PROVE  \/ Handled(m', m)
           \/ success /\ HasPending(m) /\ \E e : Acked(e, m) /\ Follows(m', e)
<1> DEFINE v == ValidateTime(m, now)
           d == RecoveryDeadline(v)
           c == RememberCompletion(d, d.pending.op, success)
           e == [c EXCEPT !.pending = NoCommand]
<1>1. /\ Settled(d) /\ Handled(d, m) /\ HasPending(v)
      /\ d.state # "terminal_safe_stop" => d = v
      /\ \A why : Handled(EnterTerminal(d, why), m)
  BY CalledSound, CalledFollows DEF AckPending
<1>2. d.state # "terminal_safe_stop" =>
        /\ d.gen = m.gen /\ d.opSeq = m.opSeq /\ d.recoveries = m.recoveries
        /\ d.pending = m.pending /\ d.completed = m.completed /\ d.retired = m.retired
        /\ d.outbox = <<>>
  <2> DEFINE p == Drained(m)
             later == [p EXCEPT !.lastNow = now]
  <2>1. /\ MachineType(p) /\ p.outbox = <<>>
        /\ p.gen = m.gen /\ p.opSeq = m.opSeq /\ p.recoveries = m.recoveries
        /\ p.pending = m.pending /\ p.completed = m.completed /\ p.retired = m.retired
    BY DrainedMachine DEF Settled
  <2>2. v = IF now < m.lastNow THEN EnterTerminal(p, "monotonic_time_regression") ELSE later
    BY DEF ValidateTime, Drained
  <2> HIDE DEF p
  <2>3. EnterTerminal(p, "monotonic_time_regression").state = "terminal_safe_stop"
    BY <2>1, EnterTerminalType
  <2>4. /\ later.gen = p.gen /\ later.opSeq = p.opSeq /\ later.recoveries = p.recoveries
        /\ later.pending = p.pending /\ later.completed = p.completed
        /\ later.retired = p.retired /\ later.outbox = p.outbox
    BY <2>1, Fields DEF MachineType
  <2> HIDE DEF later, v
  <2> QED
    BY <1>1, <2>1, <2>2, <2>3, <2>4
<1> HIDE DEF v, d
<1>3. CASE d.state = "terminal_safe_stop"
  BY <1>1, <1>3 DEF AckPending, d, v
<1>4. CASE d.state # "terminal_safe_stop"
  <2>1. /\ HasPending(d) /\ MachineType(d) /\ PendingMatches(d)
        /\ d.pending.action = d.state /\ d.state \in ActionStates /\ ~Dormant(d)
    BY <1>1, <1>4, PendingInActionState DEF Settled, Guarded, Sound, Dormant, ActionStates
  <2>2. \A why : Handled(RetryOrFail(d, why), m)
    <3> SUFFICES ASSUME NEW why PROVE Handled(RetryOrFail(d, why), m)
      OBVIOUS
    <3> DEFINE f == RetryOrFail(d, why)
               q == RetirePending(d)
    <3>1. Follows(f, q) /\ Steady(f, d) /\ MachineType(f)
      BY <2>1, RetryOrFailFollows, RetryOrFailType
    <3>2. Follows(q, d)
      BY <2>1, RetirePendingFollows
    <3> HIDE DEF f, q
    <3>3. Follows(f, d)
      BY <2>1, <3>1, <3>2, FollowsOn
    <3> QED
      BY <1>1, <3>1, <3>3, HandledOn DEF f
  <2>3. /\ MachineType(c) /\ c.state = d.state /\ c.pending = d.pending
        /\ Follows(RetirePending(c), d)
        /\ MachineType(e) /\ e.gen = d.gen /\ e.opSeq = d.opSeq
        /\ e.recoveries = d.recoveries /\ e.outbox = d.outbox /\ ~HasPending(e)
        /\ e.state = d.state /\ e.retired = d.retired
        /\ Named(d) => Named(e)
        /\ Chronological(d) =>
             /\ Chronological(e)
             /\ \A x \in Range(d.completed) : Recent(d, x.op) => x \in Range(e.completed)
             /\ [op |-> d.pending.op, success |-> success] \in Range(e.completed)
    BY <2>1, RejectedFollows
  <2>4. success => Settled(CompleteAction(e, d.pending.action))
    <3>1. d.pending.op \in Operations
      BY <2>1, Histories
    <3>2. /\ Settled(c) /\ c.state = d.state /\ c.pending = d.pending
          /\ Last(c.completed).op \in Operations
      BY <1>1, <3>1, RememberCompletionSound
    <3> HIDE DEF c
    <3>3. Settled(e) /\ ~HasPending(e) /\ e.state = d.state /\ e.completed = c.completed
      BY <3>2, DropPendingSound
    <3> HIDE DEF e
    <3> QED
      BY <2>1, <3>2, <3>3, CompleteActionSound
  <2> HIDE DEF c, e
  <2>5. \A why : Handled(RetryOrFail(c, why), m)
    <3> SUFFICES ASSUME NEW why PROVE Handled(RetryOrFail(c, why), m)
      OBVIOUS
    <3> DEFINE f == RetryOrFail(c, why)
               q == RetirePending(c)
    <3>1. ~Dormant(c)
      BY <2>1, <2>3 DEF Dormant
    <3>2. Follows(f, q) /\ Steady(f, c) /\ MachineType(f)
      BY <2>3, <3>1, RetryOrFailFollows, RetryOrFailType
    <3> HIDE DEF f
    <3>3. Steady(f, d)
      BY <2>3, <3>2 DEF Steady, Moving
    <3>4. Follows(f, d)
      BY <2>1, <2>3, <3>2, FollowsOn
    <3> QED
      BY <1>1, <3>2, <3>3, <3>4, HandledOn DEF f
  <2>6. success => Follows(CachedTick(CompleteAction(e, d.pending.action)), e)
    <3> DEFINE a == CompleteAction(e, d.pending.action)
               t == CachedTick(a)
    <3>1. Follows(a, e)
      BY <2>1, <2>3, CompleteActionFollows
    <3>2. success => Settled(a)
      BY <2>4
    <3> HIDE DEF a
    <3>3. success => Follows(t, a) /\ MachineType(t)
      BY <3>2, CachedTickFollows, CachedTickType DEF Settled
    <3> HIDE DEF t
    <3> QED
      BY <2>3, <3>1, <3>3, FollowsOn DEF a, t
  <2>7. success => Acked(e, m)
    <3>1. HasPending(d) /\ HasPending(m) /\ ~Dormant(e)
      BY <1>2, <1>4, <2>1, <2>3 DEF HasPending, Dormant
    <3>2. (Named(m) => Named(d)) /\ (Chronological(m) => Chronological(d))
      BY <1>2, <1>4 DEF Named, Chronological, HasPending
    <3> QED
      BY <1>2, <1>4, <2>3, <3>1, <3>2 DEF Acked, Recent
  <2>8. HasPending(m)
    BY <1>2, <1>4, <2>1 DEF HasPending
  <2>9. \/ \E why : m' = EnterTerminal(d, why)
        \/ \E why : m' = RetryOrFail(d, why)
        \/ \E why : m' = RetryOrFail(c, why)
        \/ success /\ m' = CachedTick(CompleteAction(e, d.pending.action))
    BY <1>4 DEF AckPending, v, d, c, e
  <2> QED
    BY <1>1, <2>2, <2>5, <2>6, <2>7, <2>8, <2>9
<1> QED
  BY <1>3, <1>4

\* The other paths of acknowledge.
LEMMA AckOtherFollows ==
    ASSUME Settled(m), NEW now \in CallTimes, NEW op, NEW success, NEW gen, NEW rec,
           \/ AckMalformed(now)
           \/ AckStaleDropped(now, op)
           \/ AckDuplicate(now, op, success)
           \/ AckUnknown(now, op, gen, rec)
    PROVE  Handled(m', m)
<1> DEFINE v == ValidateTime(m, now)
           d == RecoveryDeadline(v)
<1>1. /\ Handled(v, m)
      /\ \A why : Handled(EnterTerminal(v, why), m) /\ Handled(EnterTerminal(d, why), m)
  BY CalledFollows
<1> HIDE DEF v, d
<1>2. CASE AckMalformed(now)
  BY <1>1, <1>2 DEF AckMalformed, v
<1>3. CASE AckStaleDropped(now, op)
  BY <1>1, <1>3 DEF AckStaleDropped, v
<1>4. CASE AckDuplicate(now, op, success)
  BY <1>1, <1>4 DEF AckDuplicate, v
<1>5. CASE AckUnknown(now, op, gen, rec)
  BY <1>1, <1>5 DEF AckUnknown, v, d
<1> QED
  BY <1>2, <1>3, <1>4, <1>5

\* observe
LEMMA ObserveFollows ==
    ASSUME Settled(m), Observe
    PROVE  Handled(m', m)
<1>1. PICK now \in CallTimes :
        \/ ObserveIdle(now)
        \/ ObserveInvalid(now)
        \/ \E goal \in Goals :
             \/ ObserveForeignGoal(now, goal)
             \/ \E flags \in SafetyFlags : ObserveValid(now, goal, flags)
  BY DEF Observe
<1> DEFINE v == ValidateTime(m, now)
<1>2. Settled(v) /\ Handled(v, m) /\ \A why : Handled(EnterTerminal(v, why), m)
  BY CalledSound, CalledFollows
<1>3. CASE ObserveIdle(now) \/ ObserveInvalid(now)
  BY <1>2, <1>3 DEF ObserveIdle, ObserveInvalid
<1>4. ASSUME NEW goal, ObserveForeignGoal(now, goal)
      PROVE  Handled(m', m)
  BY <1>2, <1>4 DEF ObserveForeignGoal
<1>5. ASSUME NEW goal \in Goals, NEW flags \in SafetyFlags,
             ObserveValid(now, goal, flags)
      PROVE  Handled(m', m)
  <2> DEFINE a == AdoptGoal(v, goal)
             t == TickWith(a, flags, FALSE)
  <2>1. GoalAdmitted(v, goal)
    BY <1>5 DEF ObserveValid
  <2> HIDE DEF v
  <2>2. Settled(a) /\ Follows(a, v) /\ Steady(a, v)
    BY <1>2, <2>1, AdoptGoalSound, AdoptGoalFollows DEF Settled
  <2> HIDE DEF a
  <2>3. Settled(t) /\ Follows(t, a) /\ Steady(t, a)
    BY <2>2, TickWithSound, TickFollows DEF Settled, Guarded
  <2> HIDE DEF t
  <2>4. Handled(t, m)
    <3>1. Handled(a, m)
      BY <1>2, <2>2, HandledOn DEF Settled
    <3> QED
      BY <2>3, <3>1, HandledOn DEF Settled
  <2>5. ASSUME NEW q, Settled(q), Handled(q, m), NEW running \in BOOLEAN, NEW stuck \in BOOLEAN
        PROVE  Handled(ObserveProgress(q, flags, running, stuck), m)
    <3>1. /\ Follows(ObserveProgress(q, flags, running, stuck), q)
          /\ Steady(ObserveProgress(q, flags, running, stuck), q)
          /\ MachineType(ObserveProgress(q, flags, running, stuck))
      BY <2>5, ObserveProgressFollows, ObserveProgressType DEF Settled
    <3> QED
      BY <2>5, <3>1, HandledOn
  <2>6. ASSUME NEW p \in Plans, NEW running \in BOOLEAN, NEW stuck \in BOOLEAN,
               NEW window, NEW order
        PROVE  Handled(ObserveProgress(PlanArrival(t, p, running, window, order),
                                       flags, running, stuck), m)
    <3> DEFINE q == PlanArrival(t, p, running, window, order)
    <3>1. Settled(q) /\ Follows(q, t) /\ Steady(q, t)
      BY <2>3, PlanArrivalSound, PlanArrivalFollows DEF Settled
    <3> HIDE DEF q
    <3>2. Handled(q, m)
      BY <2>4, <3>1, HandledOn DEF Settled
    <3> QED
      BY <2>5, <3>1, <3>2 DEF q
  <2> QED
    BY <1>5, <2>3, <2>4, <2>5, <2>6, ZenonT(60) DEF ObserveValid, a, t, v
<1> QED
  BY <1>1, <1>3, <1>4, <1>5

\* submit_replanned_trajectory, whatever identity the caller repeats
LEMMA SubmitFollows ==
    ASSUME Settled(m), NEW now \in CallTimes, NEW op, NEW gen, NEW rec, NEW p \in Plans,
           \/ SubmitStopped(now)
           \/ SubmitRefused(now, op, gen, rec)
           \/ SubmitLate(now, op, gen, rec)
           \/ SubmitInvalid(now, op, gen, rec)
           \/ SubmitOld(now, op, gen, rec, p)
           \/ SubmitNovel(now, op, gen, rec, p)
    PROVE  Handled(m', m)
<1> DEFINE d == RecoveryDeadline(ValidateTime(m, now))
<1>1. /\ Settled(d) /\ MachineType(d) /\ PendingMatches(d) /\ Handled(d, m)
      /\ \A why : Handled(EnterTerminal(d, why), m)
  BY CalledSound, CalledFollows DEF Settled, Guarded, Sound
<1>2. ASSUME NEW q, MachineType(q), q.state = d.state, q.gen = d.gen,
             q.recoveries = d.recoveries, q.pending = d.pending, q.outbox = d.outbox,
             q.completed = d.completed, q.retired = d.retired, q.opSeq = d.opSeq,
             d.state = "wait_fresh_plan"
      PROVE  /\ \A s \in {"request_replan", "accept_fresh_plan"} :
                   Settled(Transition(q, s)) => Handled(CachedTick(Transition(q, s)), m)
             /\ \A why : Settled(StartRetreatOrStop(q, why)) =>
                   Handled(CachedTick(StartRetreatOrStop(q, why)), m)
  <2> HIDE DEF d
  <2>1. Follows(q, d) /\ Steady(q, d) /\ ~Dormant(q)
    BY <1>1, <1>2, FollowsSame DEF Stopped, Dormant
  <2>2. Handled(q, m)
    BY <1>1, <1>2, <2>1, HandledOn
  <2>3. ASSUME NEW t, Settled(t), Follows(t, q), Steady(t, q)
        PROVE  Handled(CachedTick(t), m)
    <3>1. MachineType(t) /\ MachineType(CachedTick(t)) /\ Follows(CachedTick(t), t)
          /\ Steady(CachedTick(t), t)
      BY <2>3, CachedTickType, CachedTickFollows DEF Settled
    <3>2. Handled(t, m)
      BY <2>2, <2>3, <3>1, HandledOn
    <3> QED
      BY <3>1, <3>2, HandledOn
  <2>4. \A s \in {"request_replan", "accept_fresh_plan"} :
          Follows(Transition(q, s), q) /\ Steady(Transition(q, s), q)
    BY <1>2, <2>1, TransitionFollows
  <2>5. \A why : Follows(StartRetreatOrStop(q, why), q) /\ Steady(StartRetreatOrStop(q, why), q)
    BY <1>2, <2>1, StartRetreatOrStopFollows
  <2> QED
    BY <2>3, <2>4, <2>5
<1>3. ASSUME d.state = "wait_fresh_plan"
      PROVE  ~HasPending(d) /\ d.startedAt # NoTime
  <2> HIDE DEF d
  <2> QED
    BY <1>1, <1>3, NoStrayPending DEF Settled, Guarded, Sound, WayForward,
       RecoveryStates, ActionStates
<1>4. ASSUME NEW q, MachineType(q), q.state = d.state, q.gen = d.gen,
             q.recoveries = d.recoveries, q.pending = d.pending, q.outbox = d.outbox,
             q.completed = d.completed, q.retired = d.retired, q.opSeq = d.opSeq,
             q.startedAt = d.startedAt, d.state = "wait_fresh_plan"
      PROVE  /\ Handled(CachedTick(Transition(q, "request_replan")), m)
             /\ \A why : Handled(CachedTick(StartRetreatOrStop(q, why)), m)
  <2>1. ~HasPending(q) /\ q.startedAt # NoTime /\ q.state = "wait_fresh_plan"
    BY <1>3, <1>4 DEF HasPending
  <2> HIDE DEF d
  <2>2. Settled(Transition(q, "request_replan"))
    BY <1>4, <2>1, TransitionSound DEF ActionStates
  <2>3. \A why : Settled(StartRetreatOrStop(q, why))
    BY <1>4, <2>1, StartRetreatOrStopSound
  <2> QED
    BY <1>2, <1>4, <2>2, <2>3
<1>5. Answers(d, op, gen, rec) => d.state = "wait_fresh_plan"
  BY DEF Answers
<1>6. CASE SubmitStopped(now) \/ SubmitRefused(now, op, gen, rec) \/ SubmitInvalid(now, op, gen, rec)
  BY <1>1, <1>6 DEF SubmitStopped, SubmitRefused, SubmitInvalid
<1>7. CASE SubmitLate(now, op, gen, rec)
  <2> DEFINE q == [d EXCEPT !.awaiting = NoOperation, !.planDeadline = NoTime]
  <2>1. d.state = "wait_fresh_plan"
    BY <1>5, <1>7 DEF SubmitLate
  <2> HIDE DEF d
  <2>2. /\ MachineType(q) /\ q.state = d.state /\ q.gen = d.gen
        /\ q.recoveries = d.recoveries /\ q.pending = d.pending /\ q.outbox = d.outbox
        /\ q.completed = d.completed /\ q.retired = d.retired /\ q.opSeq = d.opSeq
        /\ q.startedAt = d.startedAt
    BY <1>1, Constants, Fields DEF MachineType
  <2> HIDE DEF q
  <2> QED
    BY <1>4, <1>7, <2>1, <2>2 DEF SubmitLate, d, q
<1>8. CASE SubmitOld(now, op, gen, rec, p)
  <2> DEFINE taboo == AddTaboo(d.taboo, p)
             q == [d EXCEPT !.taboo = taboo, !.rejections = @ + 1]
  <2>1. d.state = "wait_fresh_plan"
    BY <1>5, <1>8 DEF SubmitOld
  <2> HIDE DEF d, taboo
  <2>2. /\ MachineType(q) /\ q.state = d.state /\ q.gen = d.gen
        /\ q.recoveries = d.recoveries /\ q.pending = d.pending /\ q.outbox = d.outbox
        /\ q.completed = d.completed /\ q.retired = d.retired /\ q.opSeq = d.opSeq
        /\ q.startedAt = d.startedAt
    <3>1. MachineType(q)
      BY <1>1, RejectPlanType DEF taboo
    <3> QED
      BY <1>1, <3>1, Fields DEF MachineType
  <2> HIDE DEF q
  <2> QED
    BY <1>4, <1>8, <2>1, <2>2 DEF SubmitOld, d, q, taboo
<1>9. CASE SubmitNovel(now, op, gen, rec, p)
  <2> DEFINE q == [d EXCEPT !.accepted = p, !.planDeadline = NoTime,
                            !.awaiting = NoOperation]
  <2>1. d.state = "wait_fresh_plan"
    BY <1>5, <1>9 DEF SubmitNovel
  <2>2. ~IsOld(d, p) /\ p # NoPlan
    BY <1>9, PlansAssumption DEF SubmitNovel
  <2>3. ~HasPending(d) /\ d.startedAt # NoTime
    BY <1>3, <2>1
  <2> HIDE DEF d
  <2>4. /\ MachineType(q) /\ q.state = d.state /\ q.gen = d.gen
        /\ q.recoveries = d.recoveries /\ q.pending = d.pending /\ q.outbox = d.outbox
        /\ q.completed = d.completed /\ q.retired = d.retired /\ q.opSeq = d.opSeq
        /\ q.fallback = d.fallback /\ q.startedAt = d.startedAt
        /\ q.accepted = p /\ q.seen = d.seen /\ q.taboo = d.taboo
    BY <1>1, Constants, Fields DEF MachineType
  <2> HIDE DEF q
  <2>5. ~HasPending(q) /\ ~IsOld(q, p) /\ q.startedAt # NoTime
    BY <2>2, <2>3, <2>4 DEF HasPending, IsOld, IsTaboo
  <2>6. ~(Cardinality(d.seen) >= TabooCapacity) =>
          Settled(Transition(q, "accept_fresh_plan"))
    BY <2>2, <2>4, <2>5, AcceptTransitionSound
  <2>7. ~(Cardinality(d.seen) >= TabooCapacity) =>
          Handled(CachedTick(Transition(q, "accept_fresh_plan")), m)
    BY <1>2, <2>1, <2>4, <2>6
  <2> QED
    BY <1>1, <1>9, <2>7 DEF SubmitNovel, d, q
<1> QED
  BY <1>6, <1>7, <1>8, <1>9

-----------------------------------------------------------------------------
(* The invariant of the loop.                                              *)

\* Numbers of an episode that the bounds of the loop allow; no recovery can be
\* under way before the first episode.
Bounded(r) ==
    /\ r.recoveries <= MaxRecoveries
    /\ -1 <= r.gen /\ r.gen <= MaxGeneration
    /\ r.gen = -1 => Dormant(r)

\* What the adapter holds was issued, and a motion it holds is outstanding.
Held ==
    /\ inbox \subseteq Commands
    /\ \A c \in inbox :
         /\ c.action \notin {"none", "latch_safe_stop"}
         /\ 1 <= c.op.seq /\ c.op.seq <= m.opSeq
         /\ c.action \in MotionActions => c = m.pending

\* What it has reported was issued.
Reported ==
    /\ results \subseteq [op : Operations, success : BOOLEAN]
    /\ \A a \in results : 1 <= a.op.seq /\ a.op.seq <= m.opSeq

\* It executes an operation once and reports one outcome.
Once ==
    /\ \A c, d \in inbox : c.op.seq = d.op.seq => c = d
    /\ \A a, b \in results : a.op.seq = b.op.seq => a = b
    /\ \A c \in inbox, a \in results : c.op.seq # a.op.seq

\* What the channels hold is known to r, unless it is older than the histories.
Recognises(r) ==
    /\ \A c \in inbox : Recent(r, c.op) => c = r.pending \/ c.op \in Range(r.retired)
    /\ \A a \in results :
         Recent(r, a.op) =>
           \/ a.op = r.pending.op
           \/ a.op \in Range(r.retired)
           \/ a \in Range(r.completed)

\* The inductive invariant of the loop.
LoopInv ==
    /\ Settled(m) /\ Accounted(m) /\ Said(m)
    /\ Named(m) /\ Bounded(m)
    /\ Held /\ Reported /\ Once
    /\ \A a \in answers : a.plan \in Plans
    /\ Chronological(m) /\ Recognises(m)

\* What the channels need of a call: new commands have new numbers, a motion the
\* adapter holds stays outstanding or is stopped, and nothing recent that the adapter
\* holds or has reported is forgotten.
Carries ==
    /\ m.opSeq <= m'.opSeq
    /\ Named(m') /\ Bounded(m')
    /\ \A c \in Range(m'.outbox) : c.op.seq > m.opSeq
    /\ \A c \in inbox : c.action \in MotionActions => Stops(m') \/ c = m'.pending
    /\ Chronological(m') /\ Recognises(m')

\* One command is returned at most; it is the stop or the outstanding one.
LEMMA Returned ==
    ASSUME NEW r, Settled(r), Said(r)
    PROVE  /\ \A c, d \in Range(r.outbox) : c = d
           /\ \A c \in Range(r.outbox) :
                c.action # "latch_safe_stop" => c = r.pending /\ HasPending(r)
<1>1. r.outbox \in Seq(Commands)
  BY DEF Settled, MachineType
<1>2. CASE r.outbox = <<>>
  BY <1>2 DEF Range
<1>3. CASE Len(r.outbox) = 1
  <2>1. \A c \in Range(r.outbox) : c = r.outbox[1]
    BY <1>1, <1>3 DEF Range
  <2>2. r.outbox[1].action = "latch_safe_stop" \/ Uttered(r)
    BY <1>3, Len(<<>>) = 0 DEF Said
  <2>3. Uttered(r) => r.outbox[1] = r.pending /\ HasPending(r)
    BY DEF Uttered
  <2> QED
    BY <2>1, <2>2, <2>3
<1> QED
  BY <1>2, <1>3 DEF Said, Uttered

\* The adapter takes what such a call returned.
LEMMA DispatchStep ==
    ASSUME LoopInv, Settled(m'), Accounted(m'), Said(m'), Carries, Dispatch,
           UNCHANGED <<results, answers>>
    PROVE  LoopInv'
<1> DEFINE taken == {c \in Range(m'.outbox) : c.action # "latch_safe_stop"}
<1>1. /\ \A c, d \in Range(m'.outbox) : c = d
      /\ \A c \in taken : c = m'.pending /\ HasPending(m')
  BY Returned
<1>2. inbox' = (IF Stops(m') THEN {} ELSE inbox) \cup taken
  BY DEF Dispatch, Stops
<1>3. /\ m.opSeq \in Nat /\ m'.opSeq \in Nat /\ HistoryCapacity \in Nat
      /\ Range(m'.outbox) \subseteq Commands
  <2>1. m'.outbox \in Seq(Commands)
    BY DEF Settled, MachineType
  <2>2. Range(m'.outbox) \subseteq Commands
    BY <2>1 DEF Range
  <2>3. m.opSeq \in Nat /\ m'.opSeq \in Nat
    BY DEF LoopInv, Settled, MachineType
  <2> QED
    BY <2>2, <2>3, ConfigAssumption
<1>4. /\ \A c \in Commands : c.op.seq \in Nat
      /\ \A a \in results : a.op.seq \in Nat
  BY DEF Commands, Operations, LoopInv, Reported
<1>5. \A c \in taken : /\ c \in Commands /\ m.opSeq < c.op.seq /\ c.op.seq <= m'.opSeq
                       /\ c.action \notin {"none", "latch_safe_stop"}
  BY <1>1, <1>3, <1>4 DEF Carries, Accounted, Numbered, HasPending
<1>6. \A c, d \in taken : c = d
  BY <1>1
<1>7. m.opSeq <= m'.opSeq
  BY DEF Carries
<1> HIDE DEF taken
<1>8. Held'
  <2>1. inbox' \subseteq Commands
    BY <1>2, <1>5 DEF LoopInv, Held
  <2>2. ASSUME NEW c \in inbox'
        PROVE  /\ c.action \notin {"none", "latch_safe_stop"}
               /\ 1 <= c.op.seq /\ c.op.seq <= m'.opSeq
               /\ c.action \in MotionActions => c = m'.pending
    <3>1. CASE c \in taken
      BY <1>1, <1>3, <1>4, <1>5, <3>1
    <3>2. CASE c \in inbox /\ ~Stops(m')
      BY <1>3, <1>4, <1>7, <3>2 DEF LoopInv, Held, Carries
    <3> QED
      BY <1>2, <3>1, <3>2
  <2> QED
    BY <2>1, <2>2 DEF Held
<1>9. Reported'
  BY <1>3, <1>4, <1>7 DEF LoopInv, Reported
<1>10. Once'
  <2>1. \A c \in inbox : c.op.seq \in Nat /\ c.op.seq <= m.opSeq
    BY <1>4 DEF LoopInv, Held
  <2>2. \A c \in taken : c.op.seq \in Nat
    BY <1>4, <1>5
  <2>3. \A c, d \in inbox' : c.op.seq = d.op.seq => c = d
    BY <1>2, <1>3, <1>5, <1>6, <2>1, <2>2 DEF LoopInv, Once
  <2>4. \A c \in inbox', a \in results : c.op.seq # a.op.seq
    BY <1>2, <1>3, <1>4, <1>5, <2>1, <2>2 DEF LoopInv, Once, Reported
  <2> QED
    BY <2>3, <2>4 DEF LoopInv, Once
<1>11. Chronological(m)' /\ Recognises(m)'
  <2>1. Recognises(m)'
    BY <1>1, <1>2 DEF Carries, Recognises
  <2> QED
    BY <2>1 DEF Carries
<1> QED
  BY <1>8, <1>9, <1>10, <1>11 DEF LoopInv, Carries

\* What is outstanding has a command and a number.
LEMMA Outstanding ==
    ASSUME LoopInv
    PROVE  /\ m.opSeq \in Nat /\ HistoryCapacity \in Nat
           /\ \A c \in inbox : c = m.pending => HasPending(m)
           /\ \A a \in results : a.op = m.pending.op => HasPending(m)
           /\ \A c \in inbox, a \in results : c.op # a.op
<1>1. m.opSeq \in Nat /\ HistoryCapacity \in Nat
  BY ConfigAssumption DEF LoopInv, Settled, MachineType
<1>2. \A c \in inbox : c = m.pending => HasPending(m)
  BY DEF LoopInv, Held, HasPending
<1>3. \A a \in results : a.op = m.pending.op => HasPending(m)
  <2>1. ~HasPending(m) => m.pending.op.seq = 0
    BY DEF LoopInv, Accounted, Numbered, NoOperation
  <2> QED
    BY <2>1 DEF LoopInv, Reported
<1>4. \A c \in inbox, a \in results : c.op # a.op
  BY DEF LoopInv, Once
<1> QED
  BY <1>1, <1>2, <1>3, <1>4

\* What the channels hold only grows older.
LEMMA StillRecent ==
    ASSUME LoopInv, m'.opSeq \in Nat, m.opSeq <= m'.opSeq
    PROVE  /\ \A c \in inbox : Recent(m', c.op) => Recent(m, c.op)
           /\ \A a \in results : Recent(m', a.op) => Recent(m, a.op)
<1>1. m.opSeq \in Nat /\ HistoryCapacity \in Nat
  BY Outstanding
<1>2. \A n \in Nat : m'.opSeq - n < HistoryCapacity => m.opSeq - n < HistoryCapacity
  BY <1>1
<1>3. (\A c \in inbox : c.op.seq \in Nat) /\ (\A a \in results : a.op.seq \in Nat)
  BY DEF LoopInv, Held, Reported, Commands, Operations
<1> QED
  BY <1>2, <1>3 DEF Recent

\* Every call but begin_episode and the acknowledgement of a success.
LEMMA HandledCarries ==
    ASSUME LoopInv, Settled(m'), Handled(m', m)
    PROVE  Carries
<1> DEFINE r == Drained(m)
<1>1. /\ r.outbox = <<>> /\ r.state = m.state /\ r.gen = m.gen /\ r.opSeq = m.opSeq
      /\ r.recoveries = m.recoveries /\ r.pending = m.pending
      /\ r.completed = m.completed /\ r.retired = m.retired
  BY DrainedMachine DEF LoopInv, Settled
<1>2. Follows(m', r) /\ Steady(m', r)
  BY DEF Handled
<1> HIDE DEF r
<1>3. Range(r.outbox) = {}
  BY <1>1 DEF Range
<1>4. m.opSeq <= m'.opSeq /\ \A c \in Range(m'.outbox) : c.op.seq > m.opSeq
  BY <1>1, <1>2, <1>3 DEF Follows
<1>5. Named(m') /\ Bounded(m')
  <2>1. Named(r) /\ r.recoveries <= MaxRecoveries /\ (Dormant(m) => Dormant(r))
    BY <1>1 DEF LoopInv, Named, HasPending, Bounded, Dormant
  <2>2. Named(m') /\ m'.recoveries <= MaxRecoveries /\ m'.gen = m.gen
        /\ (Dormant(m) => Dormant(m'))
    BY <1>1, <1>2, <2>1 DEF Follows
  <2> QED
    BY <2>2 DEF LoopInv, Bounded
<1>6. ASSUME NEW c \in inbox, c.action \in MotionActions
      PROVE  Stops(m') \/ c = m'.pending
  <2>1. c = m.pending /\ HasPending(m) /\ Moving(r)
    BY <1>1, <1>6, Outstanding DEF LoopInv, Held, Moving
  <2>2. ~Stopped(r)
    <3>1. m.state \in ActionStates
      BY <2>1, PendingInActionState DEF LoopInv, Settled, Guarded, Sound
    <3> QED
      BY <1>1, <3>1 DEF Stopped, ActionStates
  <2> QED
    BY <1>1, <1>2, <2>1, <2>2 DEF Follows, Steady
<1>7. Chronological(m') /\ Recognises(m')
  <2>1. Chronological(r) /\ Recognises(m)
    BY <1>1 DEF LoopInv, Chronological, HasPending
  <2>2. Remembers(m', r)
    BY <1>2, <2>1 DEF Follows
  <2>3. /\ \A op \in Range(m.retired) : Recent(m', op) => op \in Range(m'.retired)
        /\ \A d \in Range(m.completed) : Recent(m', d.op) => d \in Range(m'.completed)
        /\ HasPending(m) =>
             \/ m'.pending = m.pending
             \/ Recent(m', m.pending.op) => m.pending.op \in Range(m'.retired)
    BY <1>1, <2>2 DEF Remembers, HasPending
  <2>4. m'.opSeq \in Nat
    BY DEF Settled, MachineType
  <2>5. \A c \in inbox :
          Recent(m', c.op) => c = m'.pending \/ c.op \in Range(m'.retired)
    BY <1>4, <2>1, <2>3, <2>4, StillRecent, Outstanding DEF Recognises
  <2>6. \A a \in results :
          Recent(m', a.op) => \/ a.op = m'.pending.op
                              \/ a.op \in Range(m'.retired)
                              \/ a \in Range(m'.completed)
    BY <1>4, <2>1, <2>3, <2>4, StillRecent, Outstanding DEF Recognises
  <2> QED
    BY <2>2, <2>5, <2>6 DEF Remembers, Recognises
<1> QED
  BY <1>4, <1>5, <1>6, <1>7 DEF Carries

\* The acknowledgement of a success moves the operation to the completed ones.
\* The adapter holds the command no more: it reports it when it has finished.
LEMMA AckedCarries ==
    ASSUME LoopInv, Settled(m'), NEW a \in results, a.op = m.pending.op, a.success,
           NEW e, Acked(e, m), Follows(m', e)
    PROVE  Carries
<1>1. HasPending(m) /\ \A c \in inbox : c # m.pending
  BY Outstanding
<1>2. Range(e.outbox) = {}
  BY DEF Acked, Range
<1>3. m.opSeq <= m'.opSeq /\ \A c \in Range(m'.outbox) : c.op.seq > m.opSeq
  BY <1>2 DEF Follows, Acked
<1>4. Named(m') /\ Bounded(m')
  <2>1. Named(e) /\ e.recoveries <= MaxRecoveries
    BY DEF LoopInv, Acked, Bounded
  <2>2. m.gen # -1
    <3>1. m.state \in ActionStates
      BY <1>1, PendingInActionState DEF LoopInv, Settled, Guarded, Sound
    <3> QED
      BY <3>1 DEF LoopInv, Bounded, Dormant, ActionStates
  <2> QED
    BY <2>1, <2>2 DEF Follows, LoopInv, Bounded, Acked
<1>5. \A c \in inbox : c.action \in MotionActions => Stops(m') \/ c = m'.pending
  BY <1>1 DEF LoopInv, Held
<1>6. Chronological(m') /\ Recognises(m')
  <2>1. Chronological(m) /\ Recognises(m)
    BY DEF LoopInv
  <2>2. /\ Chronological(e)
        /\ \A d \in Range(m.completed) : Recent(m, d.op) => d \in Range(e.completed)
        /\ [op |-> m.pending.op, success |-> TRUE] \in Range(e.completed)
        /\ e.retired = m.retired
    BY <2>1 DEF Acked
  <2>3. /\ Chronological(m')
        /\ \A op \in Range(m.retired) : Recent(m', op) => op \in Range(m'.retired)
        /\ \A d \in Range(e.completed) : Recent(m', d.op) => d \in Range(m'.completed)
    BY <2>2 DEF Follows, Remembers
  <2>4. m'.opSeq \in Nat
    BY DEF Settled, MachineType
  <2>5. /\ \A c \in inbox : Recent(m', c.op) => Recent(m, c.op)
        /\ \A b \in results : Recent(m', b.op) => Recent(m, b.op)
    BY <1>3, <2>4, StillRecent
  <2>6. \A c \in inbox : Recent(m', c.op) => c.op \in Range(m'.retired)
    BY <1>1, <2>1, <2>3, <2>5 DEF Recognises
  <2>7. ASSUME NEW b \in results, b.op = m.pending.op
        PROVE  b \in Range(e.completed)
    <3>1. b = a
      BY <2>7 DEF LoopInv, Once
    <3>2. a = [op |-> a.op, success |-> a.success] /\ a.success = TRUE
      BY DEF LoopInv, Reported
    <3> QED
      BY <2>2, <3>1, <3>2
  <2>8. \A b \in results :
          Recent(m', b.op) => b.op \in Range(m'.retired) \/ b \in Range(m'.completed)
    BY <2>1, <2>2, <2>3, <2>5, <2>7 DEF Recognises
  <2> QED
    BY <2>3, <2>6, <2>8 DEF Recognises
<1> QED
  BY <1>3, <1>4, <1>5, <1>6 DEF Carries

\* begin_episode retires what was outstanding and, unless the machine was idle,
\* returns the stop of the old episode.
LEMMA EpisodeCarries ==
    ASSUME LoopInv, NEW now, NEW generation \in Generations, BeginEpisode(generation, now)
    PROVE  Carries
<1> DEFINE p == RetirePending(m)
           completed == m.completed
           retired == p.retired
           number == m.opSeq
           fresh == [InitialMachine EXCEPT
                     !.state = "monitoring", !.gen = generation,
                     !.lastNow = now, !.notBefore = now,
                     !.opSeq = number, !.completed = completed,
                     !.retired = retired]
           stop == [action |-> "latch_safe_stop",
                    op |-> NewOperation(fresh, "latch_safe_stop"),
                    issued |-> fresh.lastNow, deadline |-> fresh.lastNow, plan |-> NoPlan]
<1>1. m' = IF m.state = "idle" THEN fresh ELSE QueueSafeStop(fresh)
  BY DEF BeginEpisode
<1>2. /\ Follows(p, m) /\ MachineType(p) /\ ~HasPending(p) /\ p.opSeq = m.opSeq
      /\ p.completed = m.completed
  <2>1. p.completed = m.completed
    BY Fields DEF RetirePending, LoopInv, Settled, MachineType
  <2> QED
    BY <2>1, RetirePendingFollows DEF LoopInv, Settled
<1> HIDE DEF p
<1> HIDE DEF completed, retired, number
<1>3. /\ DOMAIN fresh = DOMAIN InitialMachine
      /\ fresh.state = "monitoring" /\ fresh.gen = generation /\ fresh.recoveries = 0
      /\ fresh.pending = NoCommand /\ fresh.opSeq = number /\ fresh.outbox = <<>>
      /\ fresh.completed = completed /\ fresh.retired = retired
  BY Fields DEF InitialMachine
<1> HIDE DEF fresh
<1>4. stop.action = "latch_safe_stop" /\ stop.op.seq = number + 1
  BY <1>3 DEF NewOperation
<1>5. /\ QueueSafeStop(fresh).state = "monitoring" /\ QueueSafeStop(fresh).gen = generation
      /\ QueueSafeStop(fresh).recoveries = 0 /\ QueueSafeStop(fresh).pending = NoCommand
      /\ QueueSafeStop(fresh).opSeq = number + 1
      /\ QueueSafeStop(fresh).outbox = Append(fresh.outbox, stop)
      /\ QueueSafeStop(fresh).completed = completed /\ QueueSafeStop(fresh).retired = retired
  BY <1>3, Fields DEF QueueSafeStop
<1> HIDE DEF stop
<1>6. /\ m'.gen = generation /\ m'.recoveries = 0 /\ m'.pending = NoCommand
      /\ m'.state = "monitoring" /\ m'.completed = m.completed /\ m'.retired = p.retired
      /\ m'.opSeq \in {m.opSeq, m.opSeq + 1}
      /\ m.state = "idle" => m'.outbox = <<>>
      /\ m.state # "idle" => m'.outbox = <<stop>> /\ m'.opSeq = m.opSeq + 1
  BY <1>1, <1>3, <1>5 DEF completed, retired, number
<1>7. /\ ~HasPending(m') /\ m.opSeq \in Nat /\ HistoryCapacity \in Nat
      /\ m.opSeq <= m'.opSeq
  BY <1>6, Outstanding DEF HasPending, NoCommand
<1>8. m.state # "idle" => Range(m'.outbox) = {stop} /\ Stops(m')
  BY <1>4, <1>6 DEF Range, Stops
<1>9. m.state = "idle" => Range(m'.outbox) = {}
  BY <1>6 DEF Range
<1>10. \A c \in Range(m'.outbox) : c.op.seq > m.opSeq
  BY <1>4, <1>7, <1>8, <1>9 DEF number
<1>11. Named(m') /\ Bounded(m')
  <2>1. Named(p)
    BY <1>2 DEF LoopInv, Follows
  <2>2. Named(m')
    BY <1>2, <1>6, <1>7, <2>1 DEF Named
  <2>3. 0 <= MaxRecoveries /\ -1 <= generation /\ generation <= MaxGeneration /\ generation # -1
    BY ConfigAssumption DEF Generations
  <2> QED
    BY <1>6, <2>2, <2>3 DEF Bounded
<1>12. \A c \in inbox : c.action \in MotionActions => Stops(m') \/ c = m'.pending
  <2>1. m.state = "idle" => ~HasPending(m)
    BY PendingInActionState DEF LoopInv, Settled, Guarded, Sound, ActionStates
  <2> QED
    BY <1>8, <2>1, Outstanding DEF LoopInv, Held
<1>13. Chronological(m') /\ Recognises(m')
  <2>1. Chronological(m) /\ Recognises(m) /\ Remembers(p, m)
    BY <1>2 DEF LoopInv, Follows
  <2>2. m'.opSeq \in Nat /\ \A n \in 0..m.opSeq : n \in 0..m'.opSeq
    BY <1>6, <1>7
  <2>3. Chronological(m')
    BY <1>2, <1>6, <1>7, <2>1, <2>2 DEF Remembers, Chronological
  <2>4. \A x : Recent(m, x) => Recent(p, x)
    BY <1>2 DEF Recent
  <2>5. /\ \A c \in inbox : Recent(m', c.op) => Recent(m, c.op)
        /\ \A a \in results : Recent(m', a.op) => Recent(m, a.op)
    BY <1>7, <2>2, StillRecent
  <2>6. /\ \A op \in Range(m.retired) : Recent(m, op) => op \in Range(m'.retired)
        /\ HasPending(m) /\ Recent(m, m.pending.op) => m.pending.op \in Range(m'.retired)
    BY <1>2, <1>6, <2>1, <2>4 DEF Remembers, HasPending
  <2>7. \A c \in inbox : Recent(m', c.op) => c.op \in Range(m'.retired)
    BY <2>1, <2>5, <2>6, Outstanding DEF Recognises
  <2>8. \A a \in results :
          Recent(m', a.op) => a.op \in Range(m'.retired) \/ a \in Range(m'.completed)
    BY <1>6, <2>1, <2>5, <2>6, Outstanding DEF Recognises
  <2> QED
    BY <2>3, <2>7, <2>8 DEF Recognises
<1> QED
  BY <1>7, <1>10, <1>11, <1>12, <1>13 DEF Carries

\* A machine that satisfies the invariants does so after any call.
LEMMA CallKeeps ==
    ASSUME Settled(m), Accounted(m), Next
    PROVE  Settled(m') /\ Accounted(m') /\ Said(m')
<1>1. Settled(m')
  BY EpisodeSound, ClockedSound, AcknowledgeSound, ObserveSound, SubmitSound DEF Next
<1>2. Accounted(m')
  BY EpisodeAccount, ClockedAccount, AcknowledgeAccount, ObserveAccount, SubmitAccount
     DEF Next
<1>3. Said(m')
  BY EpisodeSaid, ClockedSaid, AcknowledgeSaid, ObserveSaid, SubmitSaid DEF Next
<1> QED
  BY <1>1, <1>2, <1>3

-----------------------------------------------------------------------------
(* Every call of the loop is one the machine's specification allows.       *)

\* The clock of the loop.
LEMMA LoopTime ==
    ASSUME Settled(m), NEW step \in Steps
    PROVE  /\ Now(step) \in CallTimes /\ Now(step) \in Time
           /\ m.lastNow <= Now(step)
<1>1. m.lastNow \in Nat /\ MaxJump \in Nat /\ MaxTime \in Nat
  BY ConfigAssumption DEF Settled, MachineType
<1>2. step \in 0..MaxJump /\ m.lastNow + step <= MaxTime
  BY DEF Steps
<1>3. Now(step) = m.lastNow + step
  BY DEF Now
<1>4. Now(step) \in Time /\ m.lastNow - 1 <= Now(step) /\ Now(step) <= m.lastNow + MaxJump
  BY <1>1, <1>2, <1>3 DEF Time
<1> QED
  BY <1>1, <1>2, <1>3, <1>4 DEF CallTimes

\* A call that is not in the past first only drops what was returned last.
LEMMA LoopCalled ==
    ASSUME Settled(m), NEW now \in CallTimes, m.lastNow <= now
    PROVE  LET v == ValidateTime(m, now)
           IN  /\ v.pending = m.pending /\ v.completed = m.completed
               /\ v.retired = m.retired /\ v.gen = m.gen /\ v.recoveries = m.recoveries
               /\ v.awaiting = m.awaiting
               /\ Known(v) = Known(m)
<1> DEFINE p == Drained(m)
           later == [p EXCEPT !.lastNow = now]
           v == ValidateTime(m, now)
<1>1. /\ MachineType(p)
      /\ p.gen = m.gen /\ p.recoveries = m.recoveries /\ p.pending = m.pending
      /\ p.completed = m.completed /\ p.retired = m.retired /\ p.awaiting = m.awaiting
  BY DrainedMachine DEF Settled
<1>2. ~(now < m.lastNow)
  BY DEF Settled, MachineType, CallTimes, Time
<1>3. v = later
  BY <1>2 DEF ValidateTime, Drained
<1> HIDE DEF p, v
<1>4. /\ later.gen = p.gen /\ later.recoveries = p.recoveries /\ later.pending = p.pending
      /\ later.completed = p.completed /\ later.retired = p.retired
      /\ later.awaiting = p.awaiting
  BY <1>1, Fields DEF MachineType
<1> HIDE DEF later
<1>5. /\ v.pending = m.pending /\ v.completed = m.completed
      /\ v.retired = m.retired /\ v.gen = m.gen /\ v.recoveries = m.recoveries
      /\ v.awaiting = m.awaiting
  BY <1>1, <1>3, <1>4
<1>6. Known(v) = Known(m)
  BY <1>5 DEF Known, CompletedOps
<1> QED
  BY <1>5, <1>6 DEF v

\* An acknowledgement of the adapter is one a caller may give: an operation that
\* is in no history any more stands for an unknown one.
LEMMA DeliverAckStep ==
    ASSUME LoopInv, NEW step \in Steps, NEW a \in results, DeliverAck(step, a)
    PROVE  Acknowledge /\ Settled(m') /\ Carries
<1> DEFINE now == Now(step)
           evidence == [kind |-> "clean", stamp |-> now]
           v == ValidateTime(m, now)
<1>1. now \in CallTimes /\ now \in Time /\ m.lastNow <= now /\ Settled(m)
  BY LoopTime DEF LoopInv
<1>2. /\ v.pending = m.pending /\ v.completed = m.completed /\ v.retired = m.retired
      /\ v.gen = m.gen /\ v.recoveries = m.recoveries /\ Known(v) = Known(m)
  BY <1>1, LoopCalled
<1>3. evidence \in Evidence /\ a.success \in BOOLEAN
  BY <1>1 DEF Evidence, LoopInv, Reported
<1> HIDE DEF now, evidence
<1>4. \/ AckStaleDropped(now, a.op)
      \/ AckDuplicate(now, a.op, a.success)
      \/ AckUnknown(now, a.op, a.op.gen, a.op.rec)
      \/ a.op = m.pending.op /\ AckPending(now, a.success, evidence)
  BY DEF DeliverAck, now, evidence
<1>5. Acknowledge => Settled(m')
  BY AcknowledgeSound DEF LoopInv
<1>6. CASE AckStaleDropped(now, a.op)
  <2>1. a.op \in AckOps
    BY <1>2, <1>6 DEF AckStaleDropped, AckOps, Known
  <2>2. Acknowledge
    BY <1>1, <1>6, <2>1 DEF Acknowledge
  <2> QED
    BY <1>1, <1>5, <1>6, <2>2, AckOtherFollows, HandledCarries
<1>7. CASE AckDuplicate(now, a.op, a.success)
  <2>1. a.op \in AckOps
    BY <1>2, <1>7 DEF AckDuplicate, AckOps, Known, CompletedOps
  <2>2. Acknowledge
    BY <1>1, <1>3, <1>7, <2>1 DEF Acknowledge
  <2> QED
    BY <1>1, <1>5, <1>7, <2>2, AckOtherFollows, HandledCarries
<1>8. CASE AckUnknown(now, a.op, a.op.gen, a.op.rec)
  <2> DEFINE d == RecoveryDeadline(v)
  <2>1. /\ \/ ~HasPending(v)
           \/ a.op # v.pending.op
           \/ a.op.gen # v.gen
           \/ a.op.rec # v.recoveries
        /\ m' = EnterTerminal(d, "unexpected_ack")
    BY <1>8 DEF AckUnknown
  <2>2. NoOperation \notin Known(v) /\ (~HasPending(v) \/ NoOperation # v.pending.op)
    BY <1>2 DEF LoopInv, Named, Known, CompletedOps, HasPending
  <2>3. 0 \in Generations /\ 0 \in Recoveries /\ NoOperation \in AckOps
    BY ConfigAssumption DEF Generations, Recoveries, AckOps
  <2>4. AckUnknown(now, NoOperation, 0, 0)
    BY <2>1, <2>2 DEF AckUnknown
  <2>5. Acknowledge
    BY <1>1, <2>3, <2>4 DEF Acknowledge
  <2> QED
    BY <1>1, <1>5, <1>8, <2>5, AckOtherFollows, HandledCarries
<1>9. CASE a.op = m.pending.op /\ AckPending(now, a.success, evidence)
  <2>1. Acknowledge
    BY <1>1, <1>3, <1>9 DEF Acknowledge
  <2>2. \/ Handled(m', m)
        \/ a.success /\ HasPending(m) /\ \E e : Acked(e, m) /\ Follows(m', e)
    BY <1>1, <1>3, <1>9, AckPendingFollows
  <2>3. CASE Handled(m', m)
    BY <1>5, <2>1, <2>3, HandledCarries
  <2>4. ASSUME a.success, NEW e, Acked(e, m), Follows(m', e)
        PROVE  Carries
    BY <1>5, <1>9, <2>1, <2>4, AckedCarries
  <2> QED
    BY <1>5, <2>1, <2>2, <2>3, <2>4
<1> QED
  BY <1>4, <1>6, <1>7, <1>8, <1>9

\* An answer of the planner is one a caller may give: the answer to a request the
\* machine does not wait for stands for any other.
LEMMA DeliverAnswerStep ==
    ASSUME LoopInv, NEW step \in Steps, NEW a \in answers, DeliverAnswer(step, a)
    PROVE  Submit /\ Settled(m') /\ Carries
<1> DEFINE now == Now(step)
           v == ValidateTime(m, now)
           d == RecoveryDeadline(v)
<1>1. now \in CallTimes /\ m.lastNow <= now /\ Settled(m) /\ a.plan \in Plans
  BY LoopTime DEF LoopInv
<1>2. /\ v.gen = m.gen /\ v.recoveries = m.recoveries /\ v.awaiting = m.awaiting
      /\ d.state # "terminal_safe_stop" => d = v
  BY <1>1, LoopCalled, CalledSound
<1> HIDE DEF now
<1>3. \/ SubmitStopped(now)
      \/ SubmitRefused(now, a.op, a.op.gen, a.op.rec)
      \/ SubmitLate(now, a.op, a.op.gen, a.op.rec)
      \/ SubmitOld(now, a.op, a.op.gen, a.op.rec, a.plan)
      \/ SubmitNovel(now, a.op, a.op.gen, a.op.rec, a.plan)
  BY DEF DeliverAnswer, now
<1>4. Settled(m) => Handled(m', m)
  BY <1>1, <1>3, SubmitFollows
<1>5. ASSUME Answers(d, a.op, a.op.gen, a.op.rec)
      PROVE  a.op = m.awaiting /\ a.op.gen \in Generations /\ a.op.rec \in Recoveries
  <2>1. d.state = "wait_fresh_plan" /\ a.op = d.awaiting /\ a.op.gen = d.gen
        /\ a.op.rec = d.recoveries
    BY <1>5 DEF Answers
  <2>2. d = v /\ ~Dormant(v)
    BY <1>2, <2>1 DEF Dormant
  <2> HIDE DEF v, d
  <2>3. m.state = "wait_fresh_plan" \/ ~Dormant(m)
    <3>1. Settled(v) /\ Handled(v, m)
      BY <1>1, CalledSound, CalledFollows DEF v
    <3>2. Dormant(m) => Dormant(v)
      BY <3>1, DrainedMachine DEF Handled, Follows, Dormant, LoopInv, Settled
    <3> QED
      BY <2>2, <3>2
  <2>4. m.gen \in Int /\ m.recoveries \in Nat /\ MaxGeneration \in Nat /\ MaxRecoveries \in Nat
    BY ConfigAssumption DEF LoopInv, Settled, MachineType
  <2>5. m.gen # -1
    BY <2>3 DEF LoopInv, Bounded, Dormant
  <2> QED
    BY <1>2, <2>1, <2>2, <2>4, <2>5 DEF LoopInv, Bounded, Generations, Recoveries
<1>6. Submit
  <2>1. CASE SubmitStopped(now)
    BY <1>1, <2>1 DEF Submit
  <2>2. CASE SubmitRefused(now, a.op, a.op.gen, a.op.rec)
    <3>1. ~Answers(d, NoOperation, 0, 0)
      BY DEF Answers
    <3>2. SubmitRefused(now, NoOperation, 0, 0)
      BY <2>2, <3>1 DEF SubmitRefused
    <3>3. 0 \in Generations /\ 0 \in Recoveries
      BY ConfigAssumption DEF Generations, Recoveries
    <3> QED
      BY <1>1, <3>2, <3>3 DEF Submit
  <2>3. CASE SubmitLate(now, a.op, a.op.gen, a.op.rec)
    <3>1. Answers(d, a.op, a.op.gen, a.op.rec)
      BY <2>3 DEF SubmitLate
    <3> QED
      BY <1>1, <1>5, <2>3, <3>1 DEF Submit
  <2>4. CASE SubmitOld(now, a.op, a.op.gen, a.op.rec, a.plan)
    <3>1. Answers(d, a.op, a.op.gen, a.op.rec)
      BY <2>4 DEF SubmitOld
    <3> QED
      BY <1>1, <1>5, <2>4, <3>1 DEF Submit
  <2>5. CASE SubmitNovel(now, a.op, a.op.gen, a.op.rec, a.plan)
    <3>1. Answers(d, a.op, a.op.gen, a.op.rec)
      BY <2>5 DEF SubmitNovel
    <3> QED
      BY <1>1, <1>5, <2>5, <3>1 DEF Submit
  <2> QED
    BY <1>3, <2>1, <2>2, <2>3, <2>4, <2>5
<1>7. Settled(m')
  BY <1>1, <1>6, SubmitSound
<1> QED
  BY <1>1, <1>4, <1>6, <1>7, HandledCarries

\* A step of the loop is a call its specification allows or leaves the machine
\* alone, and keeps the invariant.
LEMMA LoopStep ==
    ASSUME LoopInv, LoopNext
    PROVE  (Next \/ UNCHANGED m) /\ LoopInv'
<1>1. ASSUME NEW step \in Steps,
             \/ LoopEpisode(step)
             \/ \E flags \in {Healthy, Unclear} : LoopTick(step, flags)
             \/ \E goal \in Goals : LoopObserve(step, goal, Healthy)
             \/ \E a \in results : DeliverAck(step, a)
             \/ \E a \in answers : DeliverAnswer(step, a)
      PROVE  Next /\ LoopInv'
  <2>1. /\ Now(step) \in CallTimes /\ Settled(m) /\ Accounted(m)
        /\ Healthy \in SafetyFlags /\ Unclear \in SafetyFlags
    BY LoopTime DEF LoopInv, Healthy, Unclear, SafetyFlags
  <2>2. ASSUME LoopEpisode(step)
        PROVE  Next /\ Carries
    <3> DEFINE generation == m.gen + 1
    <3>1. generation \in Generations
      <4>1. m.gen \in Int /\ MaxGeneration \in Nat
        BY <2>1, ConfigAssumption DEF Settled, MachineType
      <4> QED
        BY <2>2, <4>1 DEF LoopEpisode, LoopInv, Bounded, Generations
    <3>2. BeginEpisode(generation, Now(step))
      BY <2>2 DEF LoopEpisode
    <3> HIDE DEF generation
    <3> QED
      BY <2>1, <3>1, <3>2, EpisodeCarries DEF Next, Episode
  <2>3. ASSUME NEW flags \in {Healthy, Unclear}, LoopTick(step, flags)
        PROVE  Next /\ Carries
    <3>1. Clocked
      BY <2>1, <2>3 DEF LoopTick, Clocked
    <3> QED
      BY <2>1, <3>1, ClockedFollows, CallKeeps, HandledCarries DEF Next
  <2>4. ASSUME NEW goal \in Goals, LoopObserve(step, goal, Healthy)
        PROVE  Next /\ Carries
    <3>1. Observe
      BY <2>1, <2>4 DEF LoopObserve, Observe
    <3> QED
      BY <2>1, <3>1, ObserveFollows, CallKeeps, HandledCarries DEF Next
  <2>5. ASSUME NEW a \in results, DeliverAck(step, a)
        PROVE  Next /\ Carries
    BY <2>5, DeliverAckStep DEF Next
  <2>6. ASSUME NEW a \in answers, DeliverAnswer(step, a)
        PROVE  Next /\ Carries
    BY <2>6, DeliverAnswerStep DEF Next
  <2>7. Dispatch /\ UNCHANGED <<results, answers>>
    BY <1>1 DEF LoopEpisode, LoopTick, LoopObserve, DeliverAck, DeliverAnswer
  <2>8. Next /\ Carries
    BY <1>1, <2>2, <2>3, <2>4, <2>5, <2>6
  <2> QED
    BY <2>1, <2>7, <2>8, CallKeeps, DispatchStep
<1>2. ASSUME NEW c \in inbox, NEW success \in BOOLEAN, Execute(c, success)
      PROVE  UNCHANGED m /\ LoopInv'
  <2> DEFINE a == [op |-> c.op, success |-> success]
  <2>1. /\ inbox' = inbox \ {c} /\ results' = results \cup {a}
        /\ m' = m /\ answers' = answers
    BY <1>2 DEF Execute
  <2>2. a \in [op : Operations, success : BOOLEAN] /\ a.op = c.op
    BY DEF LoopInv, Held, Commands
  <2>3. c \in inbox /\ 1 <= c.op.seq /\ c.op.seq <= m.opSeq
    BY DEF LoopInv, Held
  <2> HIDE DEF a
  <2>4. Held' /\ Reported'
    BY <2>1, <2>2, <2>3 DEF LoopInv, Held, Reported
  <2>5. Once'
    BY <2>1, <2>2, <2>3 DEF LoopInv, Once
  <2>6. Recognises(m)'
    BY <2>1, <2>2, <2>3 DEF LoopInv, Recognises
  <2> QED
    BY <2>1, <2>4, <2>5, <2>6 DEF LoopInv
<1>3. ASSUME NEW a \in results, NEW p \in Plans, Replan(a, p)
      PROVE  UNCHANGED m /\ LoopInv'
  <2>1. /\ m' = m /\ inbox' = inbox /\ results' = results
        /\ answers' = answers \cup {[op |-> a.op, plan |-> p]}
    BY <1>3 DEF Replan
  <2>2. \A b \in answers' : b.plan \in Plans
    BY <2>1 DEF LoopInv
  <2> QED
    BY <2>1, <2>2 DEF LoopInv, Held, Reported, Once, Recognises
<1> QED
  BY <1>1, <1>2, <1>3 DEF LoopNext

-----------------------------------------------------------------------------
(* The theorems.                                                           *)

\* The invariant holds throughout the loop.
THEOREM LoopInvariant == LoopSpec => []LoopInv
<1>1. LoopInit => LoopInv
  <2> SUFFICES ASSUME LoopInit PROVE LoopInv
    OBVIOUS
  <2>1. Init /\ inbox = {} /\ results = {} /\ answers = {}
    BY DEF LoopInit
  <2>2. /\ m.state = "idle" /\ m.pending = NoCommand /\ m.completed = <<>>
        /\ m.retired = <<>> /\ m.opSeq = 0 /\ m.recoveries = 0 /\ m.gen = -1
        /\ m.outbox = <<>>
    BY <2>1 DEF Init, InitialMachine
  <2>3. Settled(m) /\ Accounted(m)
    BY <2>1, InitialSettled, InitialAccount
  <2>4. Named(m) /\ Chronological(m) /\ ~HasPending(m)
    BY <2>2 DEF Named, Chronological, Spaced, HasPending, NoCommand, Range
  <2>5. Bounded(m) /\ Said(m)
    BY <2>2, ConfigAssumption, SMTT(30) DEF Bounded, Dormant, Said
  <2> QED
    BY <2>1, <2>3, <2>4, <2>5 DEF LoopInv, Held, Reported, Once, Recognises
<1>2. LoopInv /\ [LoopNext]_loopVars => LoopInv'
  <2>1. LoopInv /\ UNCHANGED loopVars => LoopInv'
    BY DEF loopVars, LoopInv, Held, Reported, Once, Recognises
  <2> QED
    BY <2>1, LoopStep
<1> QED
  BY <1>1, <1>2, PTL DEF LoopSpec

\* Whatever delays, reorderings, duplicates and losses the channels cause, the
\* machine in the loop makes only steps of its own specification; so all that is
\* proved of a machine called by anyone holds of it.
THEOREM LoopImplementsMachine == LoopSpec => Spec
<1>1. LoopInit => Init
  BY DEF LoopInit
<1>2. LoopInv /\ [LoopNext]_loopVars => [Next]_m
  BY LoopStep DEF loopVars
<1> QED
  BY <1>1, <1>2, LoopInvariant, PTL DEF LoopSpec, Spec

\* The adapter never holds two physical motions, however late it executes and
\* however the recovery it executes for was abandoned.
THEOREM MotionsNeverOverlap == LoopSpec => []OneMotionInFlight
<1>1. LoopInv => OneMotionInFlight
  BY DEF LoopInv, Held, OneMotionInFlight
<1> QED
  BY <1>1, LoopInvariant, PTL

\* However long the run and however often the histories overflow, nothing recent that
\* the adapter still holds or has reported is a protocol violation to the machine.
THEOREM HonestAcksStayRecognised == LoopSpec => []HonestAcksAreRecognised
<1>1. LoopInv => HonestAcksAreRecognised
  BY DEF LoopInv, Recognises, HonestAcksAreRecognised
<1> QED
  BY <1>1, LoopInvariant, PTL

=============================================================================
