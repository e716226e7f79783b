------------------------ MODULE RecoveryMemoryProofs ------------------------
(***************************************************************************)
(* Theorems about what the recovery machine remembers: its deques stay     *)
(* within their capacities, and the plan that was blamed for a recovery    *)
(* stays taboo as long as the taboo deque has room for every plan.         *)
(***************************************************************************)
EXTENDS RecoveryOperationsProofs, WellFoundedInduction

-----------------------------------------------------------------------------
(* Induction over the natural numbers, stated for sets: the theorems of    *)
(* NaturalsInduction are about operators.                                  *)

\* A set of natural numbers with a member has a least one.
LEMMA LeastNatural ==
    ASSUME NEW T, T \subseteq Nat, T # {}
    PROVE  \E n \in T : \A k \in T : n <= k
<1>1. PICK x \in T : \A y \in T : ~(<<y, x>> \in OpToRel(<, Nat))
  BY NatLessThanWellFounded, WFMin
<1>2. \A y \in T : ~(y < x)
  BY <1>1 DEF OpToRel
<1>3. x \in Nat /\ \A y \in T : y \in Nat
  OBVIOUS
<1> QED
  BY <1>2, <1>3

\* A set with 0 in it and with every number whose predecessor is in it holds the
\* numbers up to n.
LEMMA Climb ==
    ASSUME NEW n \in Nat, NEW T, 0 \in T,
           \A i \in 1..n : i - 1 \in T => i \in T
    PROVE  \A i \in 0..n : i \in T
<1> DEFINE bad == {i \in 0..n : i \notin T}
<1> SUFFICES ASSUME bad # {} PROVE FALSE
  OBVIOUS
<1>1. bad \subseteq Nat
  OBVIOUS
<1>2. PICK k \in bad : \A j \in bad : k <= j
  BY <1>1, LeastNatural
<1>3. k \in 1..n /\ k - 1 \in 0..n /\ ~(k <= k - 1)
  BY <1>2
<1>4. k - 1 \in T
  BY <1>2, <1>3
<1> QED
  BY <1>2, <1>3, <1>4

\* g goes from base, n times as step says, through members of S.
IsWalk(g, n, S, base, step) ==
    /\ g \in [0..n -> S]
    /\ g[0] = base
    /\ \A i \in 1..n : g[i] = step[<<g[i - 1], i>>]

\* Such a walk exists when every step stays in S.
LEMMA Walk ==
    ASSUME NEW n \in Nat, NEW S, NEW base \in S, NEW step \in [S \X (1..n) -> S]
    PROVE  \E g : IsWalk(g, n, S, base, step)
<1> DEFINE Walks(k, g) == /\ g \in [0..k -> S] /\ g[0] = base
                          /\ \A i \in 1..k : g[i] = step[<<g[i - 1], i>>]
           T == {k \in 0..n : \E g : Walks(k, g)}
<1>1. 0 \in T
  <2> DEFINE g == [i \in 0..0 |-> base]
  <2>1. Walks(0, g)
    OBVIOUS
  <2> HIDE DEF Walks, g
  <2> QED
    BY <2>1
<1>2. ASSUME NEW k \in 1..n, k - 1 \in T
      PROVE  k \in T
  <2>1. PICK g : Walks(k - 1, g)
    BY <1>2
  <2> DEFINE last == step[<<g[k - 1], k>>]
             h == [i \in 0..k |-> IF i = k THEN last ELSE g[i]]
  <2>2. g \in [0..(k - 1) -> S] /\ last \in S
    BY <2>1
  <2>3. h \in [0..k -> S] /\ h[0] = base
    BY <2>1, <2>2
  <2>4. \A i \in 1..k : h[i] = step[<<h[i - 1], i>>]
    <3> SUFFICES ASSUME NEW i \in 1..k PROVE h[i] = step[<<h[i - 1], i>>]
      OBVIOUS
    <3>1. CASE i = k
      <4>1. i \in 0..k /\ k - 1 \in 0..k /\ k - 1 # k
        OBVIOUS
      <4>2. h[i] = last /\ h[i - 1] = g[k - 1]
        BY <3>1, <4>1
      <4> QED
        BY <3>1, <4>2
    <3>2. CASE i # k
      <4>1. i \in 1..(k - 1) /\ i \in 0..k /\ i - 1 \in 0..k /\ i - 1 # k
        BY <3>2
      <4>2. g[i] = step[<<g[i - 1], i>>]
        BY <2>1, <4>1
      <4>3. h[i] = g[i] /\ h[i - 1] = g[i - 1]
        BY <3>2, <4>1
      <4> QED
        BY <4>2, <4>3
    <3> QED
      BY <3>1, <3>2
  <2> HIDE DEF h
  <2> QED
    BY <2>3, <2>4
<1> HIDE DEF T
<1>3. n \in T
  BY <1>1, <1>2, Climb
<1>4. PICK g : Walks(n, g)
  BY <1>3 DEF T
<1>5. IsWalk(g, n, S, base, step)
  BY <1>4 DEF IsWalk
<1> QED
  BY <1>5

-----------------------------------------------------------------------------
(* The taboo deque.                                                        *)

Tokens == {<<"absolute", p.abs>> : p \in Plans} \cup {<<"shape", p.shape>> : p \in Plans}

\* It holds no token twice.
Taboo(t) ==
    /\ t \in Seq(Tokens)
    /\ Len(t) <= TabooCapacity
    /\ \A i, j \in 1..Len(t) : t[i] = t[j] => i = j

\* There is room for the tokens of every plan.
Ample == IsFiniteSet(Plans) /\ 2 * Cardinality(Plans) <= TabooCapacity

\* No token was evicted from t: the deque is not full, or can hold every token.
Spare(t) == Ample \/ Len(t) < TabooCapacity

\* Both tokens of p are in t.
Banned(p, t) == \A i \in 1..2 : PlanTokens(p)[i] \in Range(t)

\* A sequence without repetitions has as many members as entries.
LEMMA CountDistinct ==
    ASSUME NEW S, NEW t \in Seq(S), \A i, j \in 1..Len(t) : t[i] = t[j] => i = j
    PROVE  IsFiniteSet(Range(t)) /\ Cardinality(Range(t)) = Len(t)
<1> DEFINE n == Len(t)
<1>1. n \in Nat /\ IsFiniteSet(1..n) /\ Cardinality(1..n) = n
  BY FS_Interval
<1>2. DOMAIN t = 1..n /\ t \in [1..n -> Range(t)]
  BY DEF Range
<1>3. t \in Surjection(1..n, Range(t))
  BY <1>2 DEF Surjection, Range
<1>4. t \in Injection(1..n, Range(t))
  BY <1>2 DEF Injection, IsInjective
<1> QED
  BY <1>1, <1>3, <1>4, FS_Surjection

\* Two tokens to a plan.
LEMMA TokensFit ==
    ASSUME Ample
    PROVE  IsFiniteSet(Tokens) /\ Cardinality(Tokens) <= TabooCapacity
<1> DEFINE A == {<<"absolute", p.abs>> : p \in Plans}
           B == {<<"shape", p.shape>> : p \in Plans}
           a == [p \in Plans |-> <<"absolute", p.abs>>]
           b == [p \in Plans |-> <<"shape", p.shape>>]
<1>1. IsFiniteSet(Plans) /\ Cardinality(Plans) \in Nat /\ TabooCapacity \in Nat
  BY FS_CardinalityType, ConfigAssumption DEF Ample
<1>2. a \in Surjection(Plans, A) /\ b \in Surjection(Plans, B)
  BY DEF Surjection
<1> HIDE DEF a, b, A, B
<1>3. /\ IsFiniteSet(A) /\ Cardinality(A) <= Cardinality(Plans)
      /\ IsFiniteSet(B) /\ Cardinality(B) <= Cardinality(Plans)
  BY <1>1, <1>2, FS_Surjection
<1>4. /\ IsFiniteSet(A \cup B)
      /\ Cardinality(A \cup B) = Cardinality(A) + Cardinality(B) - Cardinality(A \cap B)
  BY <1>3, FS_Union
<1>5. /\ Cardinality(A) \in Nat /\ Cardinality(B) \in Nat
      /\ Cardinality(A \cap B) \in Nat /\ Cardinality(A \cup B) \in Nat
  <2>1. IsFiniteSet(A \cap B)
    BY <1>3, FS_Intersection
  <2> QED
    BY <1>3, <1>4, <2>1, FS_CardinalityType
<1>6. Cardinality(A \cup B) <= TabooCapacity
  BY <1>1, <1>3, <1>4, <1>5 DEF Ample
<1>7. Tokens = A \cup B
  BY DEF Tokens, A, B
<1> QED
  BY <1>4, <1>6, <1>7

\* Adding a token leaves no repetitions; with spare room nothing was evicted.
LEMMA AddTokenTaboo ==
    ASSUME NEW t, Taboo(t), NEW x \in Tokens
    PROVE  LET u == AddToken(t, x)
           IN  /\ Taboo(u) /\ x \in Range(u)
               /\ Spare(u) => Spare(t) /\ Range(t) \subseteq Range(u)
<1> DEFINE u == AddToken(t, x)
           long == Append(t, x)
           short == Append(Tail(t), x)
<1>1. /\ t \in Seq(Tokens) /\ Len(t) \in Nat /\ Len(t) <= TabooCapacity
      /\ TabooCapacity \in Nat \ {0}
  BY ConfigAssumption DEF Taboo
<1>2. CASE x \in Range(t)
  BY <1>2 DEF AddToken
<1>3. CASE x \notin Range(t) /\ Len(t) < TabooCapacity
  <2>1. u = long
    BY <1>3 DEF AddToken, PushBounded
  <2>2. /\ long \in Seq(Tokens) /\ Len(long) = Len(t) + 1
        /\ \A i \in 1..Len(t) : long[i] = t[i]
        /\ long[Len(t) + 1] = x
    BY <1>1
  <2>3. \A i \in 1..Len(t) : t[i] # x
    BY <1>1, <1>3 DEF Range
  <2> HIDE DEF u, long
  <2>4. \A i \in 1..Len(long) : i \in 1..Len(t) \/ i = Len(t) + 1
    BY <1>1, <2>2
  <2>5. \A i, j \in 1..Len(long) : long[i] = long[j] => i = j
    BY <2>2, <2>3, <2>4 DEF Taboo
  <2>6. Range(t) \subseteq Range(long) /\ x \in Range(long)
    <3>1. DOMAIN long = 1..(Len(t) + 1) /\ DOMAIN t = 1..Len(t)
      BY <1>1, <2>2
    <3> QED
      BY <1>1, <2>2, <3>1 DEF Range
  <2> QED
    BY <1>1, <1>3, <2>1, <2>2, <2>5, <2>6 DEF Taboo, Spare, u
<1>4. CASE x \notin Range(t) /\ ~(Len(t) < TabooCapacity)
  <2>1. u = short
    BY <1>4 DEF AddToken, PushBounded
  <2>2. Len(t) = TabooCapacity /\ t # <<>>
    BY <1>1, <1>4
  <2>3. /\ Tail(t) \in Seq(Tokens) /\ Len(Tail(t)) = Len(t) - 1
        /\ \A i \in 1..(Len(t) - 1) : Tail(t)[i] = t[i + 1]
    BY <1>1, <2>2
  <2>4. /\ short \in Seq(Tokens) /\ Len(short) = Len(t)
        /\ \A i \in 1..(Len(t) - 1) : short[i] = t[i + 1]
        /\ short[Len(t)] = x
    BY <1>1, <2>2, <2>3
  <2>5. \A i \in 1..Len(t) : t[i] # x
    BY <1>1, <1>4 DEF Range
  <2> HIDE DEF u, short
  <2>6. ASSUME NEW i \in 1..Len(short), NEW j \in 1..Len(short), short[i] = short[j]
        PROVE  i = j
    <3>1. /\ i \in 1..(Len(t) - 1) \/ i = Len(t)
          /\ j \in 1..(Len(t) - 1) \/ j = Len(t)
      BY <1>1, <2>4
    <3>2. \A k \in 1..(Len(t) - 1) : k + 1 \in 1..Len(t) /\ short[k] # x
      BY <1>1, <2>4, <2>5
    <3>3. CASE i \in 1..(Len(t) - 1) /\ j \in 1..(Len(t) - 1)
      <4>1. t[i + 1] = t[j + 1]
        BY <2>4, <2>6, <3>3
      <4>2. i + 1 = j + 1
        BY <3>2, <3>3, <4>1 DEF Taboo
      <4> QED
        BY <1>1, <3>3, <4>2
    <3> QED
      BY <2>4, <2>6, <3>1, <3>2, <3>3
  <2>7. x \in Range(short)
    <3>1. DOMAIN short = 1..Len(t) /\ Len(t) \in 1..Len(t)
      BY <1>1, <2>2, <2>4
    <3> QED
      BY <2>4, <3>1 DEF Range
  <2>8. ~Ample
    <3> SUFFICES ASSUME Ample PROVE FALSE
      OBVIOUS
    <3>1. IsFiniteSet(Range(t)) /\ Cardinality(Range(t)) = TabooCapacity
      BY <1>1, <2>2, CountDistinct DEF Taboo
    <3>2. IsFiniteSet(Tokens) /\ Cardinality(Tokens) <= TabooCapacity
      BY TokensFit
    <3>3. Range(t) \cup {x} \subseteq Tokens
      BY <1>1 DEF Range
    <3>4. Cardinality(Range(t) \cup {x}) = TabooCapacity + 1
      BY <1>4, <3>1, FS_AddElement
    <3>5. Cardinality(Range(t) \cup {x}) <= Cardinality(Tokens)
      BY <3>2, <3>3, FS_Subset
    <3>6. Cardinality(Tokens) \in Nat
      BY <3>2, FS_CardinalityType
    <3> QED
      BY <1>1, <3>2, <3>4, <3>5, <3>6
  <2>9. ~Spare(short)
    BY <1>1, <2>2, <2>4, <2>8 DEF Spare
  <2> QED
    BY <1>1, <2>1, <2>4, <2>6, <2>7, <2>9 DEF Taboo, u
<1> QED
  BY <1>2, <1>3, <1>4

\* Both tokens of a plan.
LEMMA AddTabooTaboo ==
    ASSUME NEW t, Taboo(t), NEW p \in Plans \cup {NoPlan}
    PROVE  LET u == AddTaboo(t, p)
           IN  /\ Taboo(u)
               /\ Spare(u) => /\ Spare(t) /\ Range(t) \subseteq Range(u)
                              /\ p # NoPlan => Banned(p, u)
<1> DEFINE x == PlanTokens(p)[1]
           y == PlanTokens(p)[2]
           v == AddToken(t, x)
           u == AddToken(v, y)
<1>1. CASE p = NoPlan
  BY <1>1 DEF AddTaboo
<1>2. CASE p # NoPlan
  <2>1. p \in Plans /\ x = <<"absolute", p.abs>> /\ y = <<"shape", p.shape>>
    BY <1>2 DEF PlanTokens
  <2>2. x \in Tokens /\ y \in Tokens /\ \A i \in 1..2 : PlanTokens(p)[i] \in {x, y}
    <3>1. \A i \in 1..2 : i = 1 \/ i = 2
      OBVIOUS
    <3> QED
      BY <2>1, <3>1 DEF Tokens
  <2>3. AddTaboo(t, p) = u
    BY <1>2 DEF AddTaboo
  <2> HIDE DEF x, y
  <2>4. /\ Taboo(v) /\ x \in Range(v)
        /\ Spare(v) => Spare(t) /\ Range(t) \subseteq Range(v)
    BY <2>2, AddTokenTaboo
  <2> HIDE DEF v
  <2>5. /\ Taboo(u) /\ y \in Range(u)
        /\ Spare(u) => Spare(v) /\ Range(v) \subseteq Range(u)
    BY <2>2, <2>4, AddTokenTaboo
  <2> HIDE DEF u
  <2>6. Spare(u) => /\ x \in Range(u) /\ y \in Range(u)
                    /\ Spare(t) /\ Range(t) \subseteq Range(u)
    BY <2>4, <2>5
  <2> QED
    BY <2>2, <2>3, <2>5, <2>6 DEF Banned
<1> QED
  BY <1>1, <1>2

\* The tokens of several plans, among them the first one.
LEMMA AddTabooAllTaboo ==
    ASSUME NEW t, Taboo(t), NEW plans \in Seq(Plans \cup {NoPlan})
    PROVE  LET u == AddTabooAll(t, plans)
           IN  /\ Taboo(u)
               /\ Spare(u) => /\ Spare(t) /\ Range(t) \subseteq Range(u)
                              /\ plans # <<>> /\ plans[1] # NoPlan => Banned(plans[1], u)
<1> DEFINE n == Len(plans)
           S == {v \in Seq(Tokens) : Taboo(v)}
           step == [x \in S \X (1..n) |-> AddTaboo(x[1], plans[x[2]])]
           D(f) == f = [i \in 0..n |-> IF i = 0 THEN t ELSE AddTaboo(f[i - 1], plans[i])]
           f == CHOOSE f : D(f)
           good(i) == /\ Taboo(f[i])
                      /\ Spare(f[i]) => /\ Spare(t) /\ Range(t) \subseteq Range(f[i])
                                        /\ i # 0 /\ plans[1] # NoPlan => Banned(plans[1], f[i])
           T == {i \in 0..n : good(i)}
<1>1. n \in Nat /\ t \in S /\ \A i \in 1..n : plans[i] \in Plans \cup {NoPlan}
  BY DEF Taboo
<1>2. step \in [S \X (1..n) -> S]
  <2>1. ASSUME NEW v \in S, NEW i \in 1..n
        PROVE  AddTaboo(v, plans[i]) \in S
    <3>1. Taboo(AddTaboo(v, plans[i]))
      BY <1>1, <2>1, AddTabooTaboo
    <3> QED
      BY <3>1 DEF Taboo
  <2> HIDE DEF S, n
  <2>2. \A x \in S \X (1..n) : x[1] \in S /\ x[2] \in 1..n
    OBVIOUS
  <2> QED
    BY <2>1, <2>2
<1>3. \E g : D(g)
  <2>1. \A v \in S, i \in 1..n : step[<<v, i>>] = AddTaboo(v, plans[i])
    OBVIOUS
  <2> HIDE DEF S, step, n
  <2>2. PICK g : IsWalk(g, n, S, t, step)
    BY <1>1, <1>2, Walk
  <2>3. /\ g \in [0..n -> S] /\ g[0] = t
        /\ \A i \in 1..n : g[i] = step[<<g[i - 1], i>>]
    BY <2>2 DEF IsWalk
  <2>4. \A i \in 0..n : i # 0 => i \in 1..n /\ i - 1 \in 0..n
    BY <1>1
  <2>5. \A i \in 0..n : g[i] = IF i = 0 THEN t ELSE AddTaboo(g[i - 1], plans[i])
    BY <2>1, <2>3, <2>4
  <2>6. D(g)
    BY <2>3, <2>5
  <2> QED
    BY <2>6
<1>4. D(f)
  BY <1>3
<1>5. AddTabooAll(t, plans) = f[n]
  BY DEF AddTabooAll
<1> HIDE DEF f, S, step
<1>6. f[0] = t /\ \A i \in 1..n : f[i] = AddTaboo(f[i - 1], plans[i])
  BY <1>1, <1>4
<1> HIDE DEF D, n
<1>7. 0 \in T
  BY <1>1, <1>6
<1>8. ASSUME NEW i \in 1..n, i - 1 \in T
      PROVE  i \in T
  <2>1. good(i - 1) /\ i # 0 /\ i \in 0..n
    BY <1>1, <1>8
  <2>2. /\ Taboo(f[i])
        /\ Spare(f[i]) => /\ Spare(f[i - 1]) /\ Range(f[i - 1]) \subseteq Range(f[i])
                          /\ plans[i] # NoPlan => Banned(plans[i], f[i])
    BY <1>1, <1>6, <2>1, AddTabooTaboo
  <2>3. Spare(f[i]) /\ plans[1] # NoPlan => Banned(plans[1], f[i])
    <3>1. CASE i = 1
      BY <2>2, <3>1
    <3>2. CASE i # 1
      <4>1. i - 1 # 0
        BY <1>1, <3>2
      <4> QED
        BY <2>1, <2>2, <4>1 DEF Banned
    <3> QED
      BY <3>1, <3>2
  <2> QED
    BY <2>1, <2>2, <2>3
<1> HIDE DEF T
<1>9. n \in T /\ (plans # <<>> => n # 0)
  <2>1. n \in T
    <3>1. \A i \in 0..n : i \in T
      BY <1>1, <1>7, <1>8, Climb, Zenon
    <3> QED
      BY <1>1, <3>1
  <2>2. plans # <<>> => n # 0
    BY DEF n
  <2> QED
    BY <2>1, <2>2
<1> QED
  BY <1>5, <1>9 DEF T

\* The plans of a set, in the order of a sequence, are a sequence of them.
LEMMA InOrderPlans ==
    ASSUME NEW X, NEW order \in Seq(X), NEW S
    PROVE  InOrder(order, S) \in Seq(S)
<1> DEFINE n == Len(order)
           next(v, i) == IF order[i] \in S THEN Append(v, order[i]) ELSE v
           step == [x \in Seq(S) \X (1..n) |-> next(x[1], x[2])]
           D(f) == f = [i \in 0..n |-> IF i = 0 THEN <<>>
                                       ELSE IF order[i] \in S
                                       THEN Append(f[i - 1], order[i])
                                       ELSE f[i - 1]]
           f == CHOOSE f : D(f)
           T == {i \in 0..n : f[i] \in Seq(S)}
<1>1. n \in Nat /\ <<>> \in Seq(S)
  OBVIOUS
<1>2. step \in [Seq(S) \X (1..n) -> Seq(S)]
  <2>1. \A v \in Seq(S), i \in 1..n : next(v, i) \in Seq(S)
    OBVIOUS
  <2> HIDE DEF next, n
  <2>2. \A x \in Seq(S) \X (1..n) : x[1] \in Seq(S) /\ x[2] \in 1..n
    OBVIOUS
  <2> QED
    BY <2>1, <2>2
<1>3. \E g : D(g)
  <2>1. \A v \in Seq(S), i \in 1..n : step[<<v, i>>] = next(v, i)
    OBVIOUS
  <2> HIDE DEF step, n
  <2>2. PICK g : IsWalk(g, n, Seq(S), <<>>, step)
    BY <1>1, <1>2, Walk
  <2>3. /\ g \in [0..n -> Seq(S)] /\ g[0] = <<>>
        /\ \A i \in 1..n : g[i] = step[<<g[i - 1], i>>]
    BY <2>2 DEF IsWalk
  <2>4. \A i \in 0..n : i # 0 => i \in 1..n /\ i - 1 \in 0..n
    BY <1>1
  <2>5. \A i \in 0..n : g[i] = IF i = 0 THEN <<>>
                               ELSE IF order[i] \in S THEN Append(g[i - 1], order[i])
                               ELSE g[i - 1]
    BY <2>1, <2>3, <2>4
  <2>6. D(g)
    BY <2>3, <2>5
  <2> QED
    BY <2>6
<1>4. D(f)
  BY <1>3
<1>5. InOrder(order, S) = f[n]
  BY DEF InOrder
<1> HIDE DEF f, step, next
<1>6. f[0] = <<>> /\ \A i \in 1..n : \/ order[i] \in S /\ f[i] = Append(f[i - 1], order[i])
                                     \/ f[i] = f[i - 1]
  <2>1. 0 \in 0..n /\ \A i \in 1..n : i \in 0..n /\ i # 0
    BY <1>1
  <2> HIDE DEF n
  <2>2. f[0] = <<>>
    BY <1>4, <2>1
  <2>3. ASSUME NEW i \in 1..n
        PROVE  \/ order[i] \in S /\ f[i] = Append(f[i - 1], order[i])
               \/ f[i] = f[i - 1]
    <3>1. f[i] = IF order[i] \in S THEN Append(f[i - 1], order[i]) ELSE f[i - 1]
      BY <1>4, <2>1
    <3> QED
      BY <3>1
  <2> QED
    BY <2>2, <2>3
<1> HIDE DEF D
<1>7. 0 \in T
  <2>1. 0 \in 0..n /\ f[0] \in Seq(S)
    BY <1>1, <1>6
  <2> QED
    BY <2>1
<1>8. ASSUME NEW i \in 1..n, i - 1 \in T
      PROVE  i \in T
  <2>1. i \in 0..n /\ f[i - 1] \in Seq(S)
    BY <1>1, <1>8
  <2>2. order[i] \in S => Append(f[i - 1], order[i]) \in Seq(S)
    BY <2>1
  <2>3. f[i] \in Seq(S)
    BY <1>6, <2>1, <2>2
  <2> QED
    BY <2>1, <2>3
<1> HIDE DEF T
<1>9. n \in T
  <2>1. \A i \in 0..n : i \in T
    BY <1>1, <1>7, <1>8, Climb, Zenon
  <2> QED
    BY <1>1, <2>1
<1> QED
  BY <1>5, <1>9 DEF T

-----------------------------------------------------------------------------
(* The invariant, and the methods.                                         *)

\* What the machine remembers is within its capacities, and the plan that was
\* blamed is taboo.
Room(r) ==
    /\ Taboo(r.taboo)
    /\ Spare(r.taboo) /\ r.blamed # NoPlan => Banned(r.blamed, r.taboo)
    /\ Len(r.arrivals) <= TabooCapacity
    /\ IsFiniteSet(r.seen) /\ Cardinality(r.seen) <= TabooCapacity
    /\ Len(r.retired) <= HistoryCapacity
    /\ Len(r.completed) <= HistoryCapacity
    /\ r.commands <= MaxCommands
    /\ r.replans <= MaxReplanRequests

\* A deque that is within its capacity stays so.
LEMMA PushedLength ==
    ASSUME NEW S, NEW q \in Seq(S), NEW x \in S, NEW capacity \in Nat \ {0},
           Len(q) <= capacity
    PROVE  Len(PushBounded(q, x, capacity)) <= capacity
<1>1. Len(Append(q, x)) = Len(q) + 1 /\ Len(q) \in Nat
  OBVIOUS
<1>2. ~(Len(q) < capacity) => Len(Append(Tail(q), x)) = Len(q)
  OBVIOUS
<1> QED
  BY <1>1, <1>2 DEF PushBounded

\* The methods that leave these fields alone keep the invariant.
LEMMA SameRoom ==
    ASSUME NEW r, NEW q, Room(r), q.taboo = r.taboo, q.blamed = r.blamed,
           q.arrivals = r.arrivals, q.seen = r.seen, q.retired = r.retired,
           q.completed = r.completed, q.commands = r.commands, q.replans = r.replans
    PROVE  Room(q)
BY DEF Room

\* _transition keeps the invariant.
LEMMA TransitionRoom ==
    ASSUME NEW r, MachineType(r), Room(r), NEW s
    PROVE  Room(Transition(r, s))
<1> DEFINE q == Transition(r, s)
<1>1. /\ q.taboo = r.taboo /\ q.blamed = r.blamed /\ q.arrivals = r.arrivals
      /\ q.seen = r.seen /\ q.retired = r.retired /\ q.completed = r.completed
      /\ q.commands = r.commands /\ q.replans = r.replans
  BY Fields DEF Transition, MachineType
<1> HIDE DEF q
<1>2. Room(q)
  BY <1>1, SameRoom
<1> QED
  BY <1>2 DEF q

\* Retiring the outstanding command keeps the invariant.
LEMMA RetirePendingRoom ==
    ASSUME NEW r, MachineType(r), Room(r)
    PROVE  MachineType(RetirePending(r)) /\ Room(RetirePending(r))
<1> DEFINE t == PushBounded(r.retired, r.pending.op, HistoryCapacity)
           q == [r EXCEPT !.retired = t, !.pending = NoCommand]
<1>1. r.retired \in Seq(Operations) /\ r.pending.op \in Operations
  BY Histories
<1>2. Len(t) <= HistoryCapacity
  BY <1>1, PushedLength, ConfigAssumption DEF Room
<1> HIDE DEF t
<1>3. /\ q.taboo = r.taboo /\ q.blamed = r.blamed /\ q.arrivals = r.arrivals
      /\ q.seen = r.seen /\ q.retired = t /\ q.completed = r.completed
      /\ q.commands = r.commands /\ q.replans = r.replans
  BY Fields DEF MachineType
<1> HIDE DEF q
<1>4. Room(q)
  BY <1>2, <1>3 DEF Room
<1>5. RetirePending(r) = IF HasPending(r) THEN q ELSE r
  BY DEF RetirePending, q, t
<1> QED
  BY <1>4, <1>5, RetirePendingType

\* Stopping keeps the invariant.
LEMMA EnterTerminalRoom ==
    ASSUME NEW r, MachineType(r), Room(r), NEW why
    PROVE  Room(EnterTerminal(r, why))
<1> DEFINE p == RetirePending(r)
           q == [p EXCEPT !.state = "terminal_safe_stop", !.reason = why]
           e == QueueSafeStop(q)
<1>1. MachineType(p) /\ Room(p)
  BY RetirePendingRoom
<1> HIDE DEF p
<1>2. /\ DOMAIN q = DOMAIN InitialMachine
      /\ q.taboo = p.taboo /\ q.blamed = p.blamed /\ q.arrivals = p.arrivals
      /\ q.seen = p.seen /\ q.retired = p.retired /\ q.completed = p.completed
      /\ q.commands = p.commands /\ q.replans = p.replans
  BY <1>1, Fields DEF MachineType
<1> HIDE DEF q
<1>3. /\ e.taboo = q.taboo /\ e.blamed = q.blamed /\ e.arrivals = q.arrivals
      /\ e.seen = q.seen /\ e.retired = q.retired /\ e.completed = q.completed
      /\ e.commands = q.commands /\ e.replans = q.replans
  BY <1>2, Fields DEF QueueSafeStop
<1> HIDE DEF e
<1>4. Room(e)
  BY <1>1, <1>2, <1>3, SameRoom
<1>5. EnterTerminal(r, why) = IF r.state = "terminal_safe_stop" THEN r ELSE e
  BY DEF EnterTerminal, e, q, p
<1> QED
  BY <1>4, <1>5

\* The fallback keeps the invariant.
LEMMA StartRetreatOrStopRoom ==
    ASSUME NEW r, MachineType(r), Room(r), NEW why
    PROVE  Room(StartRetreatOrStop(r, why))
<1> DEFINE q == [r EXCEPT !.planDeadline = NoTime]
           p == [q EXCEPT !.fallback = TRUE]
<1>1. /\ MachineType(q)
      /\ q.taboo = r.taboo /\ q.blamed = r.blamed /\ q.arrivals = r.arrivals
      /\ q.seen = r.seen /\ q.retired = r.retired /\ q.completed = r.completed
      /\ q.commands = r.commands /\ q.replans = r.replans
  BY Fields DEF MachineType
<1> HIDE DEF q
<1>2. /\ MachineType(p)
      /\ p.taboo = r.taboo /\ p.blamed = r.blamed /\ p.arrivals = r.arrivals
      /\ p.seen = r.seen /\ p.retired = r.retired /\ p.completed = r.completed
      /\ p.commands = r.commands /\ p.replans = r.replans
  BY <1>1, Fields DEF MachineType
<1> HIDE DEF p
<1>3. Room(p) /\ Room(q)
  BY <1>1, <1>2, SameRoom
<1>4. Room(Transition(p, "safe_retreat")) /\ Room(EnterTerminal(q, why))
  BY <1>1, <1>2, <1>3, TransitionRoom, EnterTerminalRoom
<1> QED
  BY <1>4 DEF StartRetreatOrStop, p, q

\* Issuing a command keeps the invariant: both budgets were checked before.
LEMMA IssueCurrentActionRoom ==
    ASSUME NEW r, MachineType(r), Room(r)
    PROVE  Room(IssueCurrentAction(r))
<1> DEFINE action == ActionByState(r.state)
           command == [action |-> action, op |-> NewOperation(r, action),
                       issued |-> r.lastNow, deadline |-> r.lastNow + ActionTimeout,
                       plan |-> IF action = "accept_fresh_plan" THEN r.accepted
                                ELSE NoPlan]
           n == IF action = "request_replan" THEN r.replans + 1 ELSE r.replans
           q == [r EXCEPT !.attempt = @ + 1, !.commands = @ + 1, !.opSeq = @ + 1,
                          !.replans = n, !.pending = command,
                          !.outbox = Append(@, command)]
<1>1. \A why : Room(EnterTerminal(r, why)) /\ Room(StartRetreatOrStop(r, why))
  BY EnterTerminalRoom, StartRetreatOrStopRoom
<1>2. IssueCommand(r, action) = q
  BY DEF IssueCommand
<1> HIDE DEF command
<1>3. ASSUME ~(r.commands >= MaxCommands),
             ~(action = "request_replan" /\ r.replans >= MaxReplanRequests)
      PROVE  Room(q)
  <2>1. /\ r.commands \in Nat /\ r.replans \in Nat
        /\ MaxCommands \in Nat /\ MaxReplanRequests \in Nat
    BY ConfigAssumption DEF MachineType
  <2>2. n <= MaxReplanRequests
    BY <1>3, <2>1 DEF Room
  <2>3. r.commands + 1 <= MaxCommands
    BY <1>3, <2>1
  <2> HIDE DEF n, action
  <2>4. /\ q.taboo = r.taboo /\ q.blamed = r.blamed /\ q.arrivals = r.arrivals
        /\ q.seen = r.seen /\ q.retired = r.retired /\ q.completed = r.completed
        /\ q.commands = r.commands + 1 /\ q.replans = n
    BY Fields DEF MachineType
  <2> HIDE DEF q
  <2> QED
    BY <2>2, <2>3, <2>4 DEF Room
<1> HIDE DEF q, n
<1> QED
  BY <1>1, <1>2, <1>3 DEF IssueCurrentAction

\* _retry_or_fail_action keeps the invariant.
LEMMA RetryOrFailRoom ==
    ASSUME NEW r, MachineType(r), Room(r), NEW why
    PROVE  Room(RetryOrFail(r, why))
<1> DEFINE p == RetirePending(r)
           q == [p EXCEPT !.notBefore = r.lastNow + RetryBackoff]
<1>1. MachineType(p) /\ Room(p)
  BY RetirePendingRoom
<1> HIDE DEF p
<1>2. /\ q.taboo = p.taboo /\ q.blamed = p.blamed /\ q.arrivals = p.arrivals
      /\ q.seen = p.seen /\ q.retired = p.retired /\ q.completed = p.completed
      /\ q.commands = p.commands /\ q.replans = p.replans
  BY <1>1, Fields DEF MachineType
<1>3. Room(q)
  BY <1>1, <1>2, SameRoom
<1>4. \A w : Room(EnterTerminal(p, w)) /\ Room(StartRetreatOrStop(p, w))
  BY <1>1, EnterTerminalRoom, StartRetreatOrStopRoom
<1> QED
  BY <1>3, <1>4 DEF RetryOrFail, p

\* Remembering a completion keeps the invariant.
LEMMA RememberCompletionRoom ==
    ASSUME NEW r, MachineType(r), Room(r), NEW op \in Operations, NEW success \in BOOLEAN
    PROVE  Room(RememberCompletion(r, op, success))
<1> DEFINE S == [op : Operations, success : BOOLEAN]
           e == [op |-> op, success |-> success]
           t == PushBounded(r.completed, e, HistoryCapacity)
           q == [r EXCEPT !.completed = t]
<1>1. r.completed \in Seq(S) /\ e \in S
  BY DEF MachineType
<1> HIDE DEF S, e
<1>2. Len(t) <= HistoryCapacity
  BY <1>1, PushedLength, ConfigAssumption DEF Room
<1> HIDE DEF t
<1>3. /\ q.taboo = r.taboo /\ q.blamed = r.blamed /\ q.arrivals = r.arrivals
      /\ q.seen = r.seen /\ q.retired = r.retired /\ q.completed = t
      /\ q.commands = r.commands /\ q.replans = r.replans
  BY Fields DEF MachineType
<1>4. RememberCompletion(r, op, success) = q
  BY DEF RememberCompletion, t, e
<1> HIDE DEF q
<1>5. Room(q)
  BY <1>2, <1>3 DEF Room
<1> QED
  BY <1>4, <1>5

\* One more shape is noted only while there is room for it.
LEMMA NotedRoom ==
    ASSUME NEW S, IsFiniteSet(S), ~(Cardinality(S) >= TabooCapacity), NEW x
    PROVE  IsFiniteSet(S \cup {x}) /\ Cardinality(S \cup {x}) <= TabooCapacity
<1>1. Cardinality(S) \in Nat /\ TabooCapacity \in Nat
  BY FS_CardinalityType, ConfigAssumption
<1>2. /\ IsFiniteSet(S \cup {x})
      /\ Cardinality(S \cup {x}) = IF x \in S THEN Cardinality(S) ELSE Cardinality(S) + 1
  BY FS_AddElement
<1> QED
  BY <1>1, <1>2

\* _complete_action keeps the invariant.
LEMMA CompleteActionRoom ==
    ASSUME NEW r, MachineType(r), Room(r), NEW action \in ActionStates
    PROVE  Room(CompleteAction(r, action))
<1> DEFINE w == [r EXCEPT !.state = "wait_fresh_plan", !.attempt = 0,
                     !.planDeadline = r.lastNow + PlanWaitTimeout,
                     !.awaiting = Last(r.completed).op]
           z == [r EXCEPT !.replans = 0, !.rejections = 0]
           seen == r.seen \cup {r.accepted.shape}
           a == [r EXCEPT !.seen = seen, !.active = r.accepted,
                   !.startedAt = NoTime, !.state = "cooldown",
                   !.cooldownUntil = r.lastNow + CooldownTime]
<1>1. Room(w)
  <2>1. /\ w.taboo = r.taboo /\ w.blamed = r.blamed /\ w.arrivals = r.arrivals
        /\ w.seen = r.seen /\ w.retired = r.retired /\ w.completed = r.completed
        /\ w.commands = r.commands /\ w.replans = r.replans
    BY Fields DEF MachineType
  <2> HIDE DEF w
  <2> QED
    BY <2>1, SameRoom
<1>2. Room(z) /\ MachineType(z)
  <2>1. /\ z.taboo = r.taboo /\ z.blamed = r.blamed /\ z.arrivals = r.arrivals
        /\ z.seen = r.seen /\ z.retired = r.retired /\ z.completed = r.completed
        /\ z.commands = r.commands /\ z.replans = 0 /\ MachineType(z)
    BY Fields DEF MachineType
  <2>2. 0 <= MaxReplanRequests
    BY ConfigAssumption
  <2> HIDE DEF z
  <2> QED
    BY <2>1, <2>2 DEF Room
<1>3. ~(Cardinality(r.seen) >= TabooCapacity) => Room(a)
  <2>1. ASSUME ~(Cardinality(r.seen) >= TabooCapacity)
        PROVE  IsFiniteSet(seen) /\ Cardinality(seen) <= TabooCapacity
    BY <2>1, NotedRoom DEF Room
  <2> HIDE DEF seen
  <2>2. /\ a.taboo = r.taboo /\ a.blamed = r.blamed /\ a.arrivals = r.arrivals
        /\ a.seen = seen /\ a.retired = r.retired /\ a.completed = r.completed
        /\ a.commands = r.commands /\ a.replans = r.replans
    BY Fields DEF MachineType
  <2> HIDE DEF a
  <2> QED
    BY <2>1, <2>2 DEF Room
<1>4. \A why : Room(EnterTerminal(r, why))
  BY EnterTerminalRoom
<1>5. Room(CompleteAccept(r))
  BY <1>3, <1>4 DEF CompleteAccept
<1> HIDE DEF w, z, a, seen
<1>6. \A s : Room(Transition(r, s)) /\ Room(Transition(z, s))
  BY <1>2, TransitionRoom
<1> QED
  BY <1>1, <1>5, <1>6 DEF CompleteAction, ActionStates, w, z

\* The paragraphs of tick keep the invariant.
LEMMA ParagraphsRoom ==
    ASSUME NEW r, MachineType(r), Room(r)
    PROVE  /\ Room(SafetyGate(r))
           /\ Room(RecoveryDeadline(r))
           /\ Room(PendingExpiry(r))
           /\ Room(PlanWaitExpiry(r))
           /\ Room(IssueWhenDue(r))
<1>1. \A why : /\ Room(EnterTerminal(r, why))
               /\ Room(StartRetreatOrStop(r, why))
               /\ Room(RetryOrFail(r, why))
  BY EnterTerminalRoom, StartRetreatOrStopRoom, RetryOrFailRoom
<1>2. Room(Transition(r, "request_replan")) /\ Room(IssueCurrentAction(r))
  BY TransitionRoom, IssueCurrentActionRoom
<1> QED
  BY <1>1, <1>2 DEF SafetyGate, RecoveryDeadline, PendingExpiry, PlanWaitExpiry, IssueWhenDue

\* So does the end of the cooldown, which empties the arrivals.
LEMMA CooldownExpiryRoom ==
    ASSUME NEW r, MachineType(r), Room(r)
    PROVE  Room(CooldownExpiry(r))
<1> DEFINE p == Transition(r, "monitoring")
           q == [p EXCEPT !.samples = NoSamples, !.arrivals = <<>>, !.cooldownUntil = NoTime]
<1>1. Room(p) /\ MachineType(p)
  BY TransitionRoom, TransitionType DEF States
<1> HIDE DEF p
<1>2. /\ q.taboo = p.taboo /\ q.blamed = p.blamed /\ q.arrivals = <<>>
      /\ q.seen = p.seen /\ q.retired = p.retired /\ q.completed = p.completed
      /\ q.commands = p.commands /\ q.replans = p.replans
  BY <1>1, Fields DEF MachineType
<1>3. Len(<<>>) <= TabooCapacity
  BY ConfigAssumption
<1> HIDE DEF q
<1>4. Room(q)
  BY <1>1, <1>2, <1>3 DEF Room
<1> QED
  BY <1>4 DEF CooldownExpiry, q, p

\* tick keeps the invariant.
LEMMA TickWithRoom ==
    ASSUME NEW r, MachineType(r), Room(r), NEW flags \in SafetyFlags, NEW cached \in BOOLEAN
    PROVE  Room(TickWith(r, flags, cached))
<1> DEFINE q == SetSafety(r, flags, cached)
           a == SafetyGate(q)
           b == RecoveryDeadline(a)
           c == PendingExpiry(b)
           d == PlanWaitExpiry(c)
           e == CooldownExpiry(d)
<1>1. MachineType(q) /\ Room(q)
  <2>1. /\ q.taboo = r.taboo /\ q.blamed = r.blamed /\ q.arrivals = r.arrivals
        /\ q.seen = r.seen /\ q.retired = r.retired /\ q.completed = r.completed
        /\ q.commands = r.commands /\ q.replans = r.replans
    BY Fields DEF SetSafety, MachineType
  <2>2. MachineType(q)
    BY SetSafetyType
  <2> HIDE DEF q
  <2> QED
    BY <2>1, <2>2, SameRoom
<1> HIDE DEF q
<1>2. MachineType(a) /\ Room(a)
  BY <1>1, SafetyGateType, ParagraphsRoom
<1> HIDE DEF a
<1>3. MachineType(b) /\ Room(b)
  BY <1>2, RecoveryDeadlineType, ParagraphsRoom
<1> HIDE DEF b
<1>4. MachineType(c) /\ Room(c)
  BY <1>3, PendingExpiryType, ParagraphsRoom
<1> HIDE DEF c
<1>5. MachineType(d) /\ Room(d)
  BY <1>4, PlanWaitExpiryType, ParagraphsRoom
<1> HIDE DEF d
<1>6. MachineType(e) /\ Room(e)
  BY <1>5, CooldownExpiryType, CooldownExpiryRoom
<1> HIDE DEF e
<1>7. Room(IssueWhenDue(e))
  BY <1>6, ParagraphsRoom
<1> QED
  BY <1>1, <1>7 DEF TickWith, q, a, b, c, d, e

\* So does the tick at the end of a handler.
LEMMA CachedTickRoom ==
    ASSUME NEW r, MachineType(r), Room(r)
    PROVE  Room(CachedTick(r))
BY TickWithRoom DEF CachedTick, MachineType

\* The time of a call keeps the invariant.
LEMMA ValidateTimeRoom ==
    ASSUME NEW r, MachineType(r), Room(r), NEW now
    PROVE  Room(ValidateTime(r, now))
<1> DEFINE p == [r EXCEPT !.outbox = <<>>]
           q == [p EXCEPT !.lastNow = now]
<1>1. /\ MachineType(p)
      /\ p.taboo = r.taboo /\ p.blamed = r.blamed /\ p.arrivals = r.arrivals
      /\ p.seen = r.seen /\ p.retired = r.retired /\ p.completed = r.completed
      /\ p.commands = r.commands /\ p.replans = r.replans
  BY Fields DEF MachineType
<1> HIDE DEF p
<1>2. /\ q.taboo = r.taboo /\ q.blamed = r.blamed /\ q.arrivals = r.arrivals
      /\ q.seen = r.seen /\ q.retired = r.retired /\ q.completed = r.completed
      /\ q.commands = r.commands /\ q.replans = r.replans
  BY <1>1, Fields DEF MachineType
<1> HIDE DEF q
<1>3. Room(p) /\ Room(q)
  BY <1>1, <1>2, SameRoom
<1>4. \A why : Room(EnterTerminal(p, why))
  BY <1>1, <1>3, EnterTerminalRoom
<1> QED
  BY <1>3, <1>4 DEF ValidateTime, p, q

\* A new recovery makes the plan it blames taboo before any other.
LEMMA StartRecoveryRoom ==
    ASSUME NEW r, MachineType(r), Room(r), NEW extras \in Seq(Plans)
    PROVE  Room(StartRecovery(r, extras))
<1> DEFINE plans == <<r.active>> \o extras
           taboo == AddTabooAll(r.taboo, plans)
           q == [r EXCEPT !.recoveries = @ + 1, !.startedAt = r.lastNow,
                     !.fallback = FALSE, !.replans = 0, !.rejections = 0,
                     !.commands = 0, !.accepted = NoPlan,
                     !.taboo = taboo, !.samples = NoSamples, !.blamed = r.active]
<1>1. plans \in Seq(Plans \cup {NoPlan}) /\ plans # <<>> /\ plans[1] = r.active
  <2> DEFINE A == Plans \cup {NoPlan}
  <2>1. r.active \in A /\ extras \in Seq(A)
    BY DEF MachineType
  <2> HIDE DEF A
  <2>2. <<r.active>> \in Seq(A) /\ Len(<<r.active>>) = 1 /\ <<r.active>>[1] = r.active
    BY <2>1
  <2>3. plans \in Seq(A) /\ Len(plans) = 1 + Len(extras) /\ plans[1] = r.active
    BY <2>1, <2>2
  <2>4. plans # <<>>
    BY <2>1, <2>3
  <2> QED
    BY <2>3, <2>4 DEF A
<1> HIDE DEF plans
<1>2. Taboo(taboo) /\ (Spare(taboo) /\ r.active # NoPlan => Banned(r.active, taboo))
  BY <1>1, AddTabooAllTaboo DEF Room
<1> HIDE DEF taboo
<1>3. /\ MachineType(q)
      /\ q.taboo = taboo /\ q.blamed = r.active /\ q.arrivals = r.arrivals
      /\ q.seen = r.seen /\ q.retired = r.retired /\ q.completed = r.completed
      /\ q.commands = 0 /\ q.replans = 0
  BY Counters, Fields, ZenonT(60) DEF MachineType, NoSamples
<1> HIDE DEF q
<1>4. 0 <= MaxCommands /\ 0 <= MaxReplanRequests
  BY ConfigAssumption
<1>5. Room(q)
  BY <1>2, <1>3, <1>4 DEF Room
<1>6. Room(Transition(q, "cancel_goal"))
  BY <1>3, <1>5, TransitionRoom
<1>7. \A why : Room(EnterTerminal(r, why))
  BY EnterTerminalRoom
<1> QED
  BY <1>6, <1>7 DEF StartRecovery, q, taboo, plans

\* A new goal empties the arrivals and the shapes that were seen.
LEMMA AdoptGoalRoom ==
    ASSUME NEW r, MachineType(r), Room(r), NEW goal
    PROVE  Room(AdoptGoal(r, goal))
<1> DEFINE p == [r EXCEPT !.samples = NoSamples, !.arrivals = <<>>, !.seen = {},
                          !.active = NoPlan, !.goal = goal]
           q == [r EXCEPT !.goal = goal]
<1>1. /\ p.taboo = r.taboo /\ p.blamed = r.blamed /\ p.arrivals = <<>>
      /\ p.seen = {} /\ p.retired = r.retired /\ p.completed = r.completed
      /\ p.commands = r.commands /\ p.replans = r.replans
  BY Fields DEF MachineType
<1>2. /\ q.taboo = r.taboo /\ q.blamed = r.blamed /\ q.arrivals = r.arrivals
      /\ q.seen = r.seen /\ q.retired = r.retired /\ q.completed = r.completed
      /\ q.commands = r.commands /\ q.replans = r.replans
  BY Fields DEF MachineType
<1>3. AdoptGoal(r, goal) \in {p, q}
  BY DEF AdoptGoal
<1> HIDE DEF p, q
<1>4. TabooCapacity \in Nat /\ Len(<<>>) = 0 /\ IsFiniteSet({}) /\ Cardinality({}) = 0
  BY ConfigAssumption, FS_EmptySet
<1>5. Room(p)
  BY <1>1, <1>4 DEF Room
<1>6. Room(q)
  BY <1>2, SameRoom
<1> QED
  BY <1>3, <1>5, <1>6

\* A plan update keeps the invariant.
LEMMA PlanArrivalRoom ==
    ASSUME NEW r, MachineType(r), Room(r), NEW p \in Plans, NEW running, NEW window,
           NEW X, NEW order \in Seq(X)
    PROVE  Room(PlanArrival(r, p, running, window, order))
<1> DEFINE push == PushBounded(r.arrivals, p, TabooCapacity)
           a == [r EXCEPT !.active = p, !.arrivals = push]
           seen == a.seen \cup {p.shape}
           marked == [a EXCEPT !.seen = seen]
<1>1. push \in Seq(Plans) /\ Len(push) <= TabooCapacity
  <2>1. r.arrivals \in Seq(Plans) /\ TabooCapacity \in Nat \ {0}
    BY ConfigAssumption DEF MachineType
  <2>2. Len(r.arrivals) <= TabooCapacity
    BY DEF Room
  <2> QED
    BY <2>1, <2>2, PushBoundedType, PushedLength
<1> HIDE DEF push
<1>2. /\ MachineType(a) /\ a.arrivals = push
      /\ a.taboo = r.taboo /\ a.blamed = r.blamed
      /\ a.seen = r.seen /\ a.retired = r.retired /\ a.completed = r.completed
      /\ a.commands = r.commands /\ a.replans = r.replans
  BY <1>1, Fields DEF MachineType
<1> HIDE DEF a
<1>3. Room(a)
  BY <1>1, <1>2 DEF Room
<1>4. MachineType(marked) /\ (~(Cardinality(r.seen) >= TabooCapacity) => Room(marked))
  <2>1. seen \subseteq {q.shape : q \in Plans}
    BY <1>2 DEF MachineType
  <2>2. ~(Cardinality(r.seen) >= TabooCapacity) =>
          IsFiniteSet(seen) /\ Cardinality(seen) <= TabooCapacity
    BY <1>2, <1>3, NotedRoom DEF Room
  <2> HIDE DEF seen
  <2>3. /\ MachineType(marked) /\ marked.seen = seen
        /\ marked.taboo = a.taboo /\ marked.blamed = a.blamed
        /\ marked.arrivals = a.arrivals
        /\ marked.retired = a.retired /\ marked.completed = a.completed
        /\ marked.commands = a.commands /\ marked.replans = a.replans
    BY <1>2, <2>1, Fields DEF MachineType
  <2> HIDE DEF marked
  <2> QED
    BY <1>3, <2>2, <2>3 DEF Room
<1> HIDE DEF marked
<1> DEFINE recent == RecentSignatures(a.arrivals)
           Extras(S) == InOrder(order, S)
           first == StartRecovery(a, Extras(recent))
           b == IF ~(r.state = "monitoring" /\ running) THEN a
                ELSE IF p.shape \in r.seen THEN first
                ELSE IF Cardinality(r.seen) >= TabooCapacity
                THEN EnterTerminal(a, "plan_history_capacity_exhausted")
                ELSE marked
           cycle == PlanCycle(b.arrivals, window)
           cycled == Extras({q \in recent : q.shape \in cycle})
<1>5. recent \subseteq Plans
  <2>1. \A i \in DOMAIN a.arrivals : a.arrivals[i] \in Plans
    BY <1>2 DEF MachineType
  <2> QED
    BY <2>1 DEF RecentSignatures
<1> HIDE DEF recent
<1>6. \A S : S \subseteq Plans => Extras(S) \in Seq(Plans)
  <2>1. \A S : Extras(S) \in Seq(S)
    BY InOrderPlans
  <2> HIDE DEF Extras
  <2> QED
    BY <2>1
<1>7. Extras(recent) \in Seq(Plans) /\ cycled \in Seq(Plans)
  <2>1. \A C : {q \in recent : q.shape \in C} \subseteq Plans
    BY <1>5
  <2> HIDE DEF Extras, cycle
  <2> QED
    BY <1>5, <1>6, <2>1
<1> HIDE DEF Extras
<1>8. Room(first) /\ MachineType(first)
  BY <1>2, <1>3, <1>7, StartRecoveryRoom, StartRecoveryType
<1>9. \A why : Room(EnterTerminal(a, why)) /\ MachineType(EnterTerminal(a, why))
  BY <1>2, <1>3, EnterTerminalRoom, EnterTerminalType
<1> HIDE DEF first
<1>10. Room(b) /\ MachineType(b)
  BY <1>2, <1>3, <1>4, <1>8, <1>9
<1> HIDE DEF b, cycle, cycled
<1>11. Room(StartRecovery(b, cycled))
  BY <1>7, <1>10, StartRecoveryRoom
<1>12. PlanArrival(r, p, running, window, order) =
         IF cycle # {} /\ b.state = "monitoring" /\ running
         THEN StartRecovery(b, cycled) ELSE b
  BY DEF PlanArrival, b, cycle, cycled, recent, Extras, a, push, marked, seen, first
<1> QED
  BY <1>10, <1>11, <1>12

\* The progress check keeps the invariant.
LEMMA ObserveProgressRoom ==
    ASSUME NEW r, MachineType(r), Room(r), NEW flags \in SafetyFlags, NEW running, NEW stuck
    PROVE  Room(ObserveProgress(r, flags, running, stuck))
<1>1. \A s : LET q == [r EXCEPT !.samples = s]
             IN  /\ q.taboo = r.taboo /\ q.blamed = r.blamed /\ q.arrivals = r.arrivals
                 /\ q.seen = r.seen /\ q.retired = r.retired /\ q.completed = r.completed
                 /\ q.commands = r.commands /\ q.replans = r.replans
  BY Fields DEF MachineType
<1>2. \A s : Room([r EXCEPT !.samples = s])
  BY <1>1, SameRoom
<1> DEFINE s == AddSample(r)
           t == StartRecovery(s, <<>>)
<1>3. Room(s) /\ MachineType(s)
  <2> DEFINE gap == r.lastNow - r.samples.last > MaxObservationGap
             kept == IF gap THEN 0 ELSE r.samples.count
             count == IF kept < MinSamples THEN kept + 1 ELSE kept
  <2> HIDE DEF gap
  <2>1. r.samples.count \in Nat /\ r.lastNow \in Nat
    BY DEF MachineType
  <2>2. count \in Nat
    BY <2>1
  <2>3. s = [r EXCEPT !.samples = [count |-> count, last |-> r.lastNow]]
    BY DEF AddSample, gap
  <2> HIDE DEF count, s
  <2>4. [count |-> count, last |-> r.lastNow] \in [count : Nat, last : Nat]
    BY <2>1, <2>2
  <2>5. MachineType(s)
    BY <2>3, <2>4, Fields DEF MachineType
  <2> QED
    BY <1>2, <2>3, <2>5
<1> HIDE DEF s
<1>4. Room(t) /\ MachineType(t)
  <2>1. <<>> \in Seq(Plans)
    OBVIOUS
  <2> QED
    BY <1>3, <2>1, StartRecoveryRoom, StartRecoveryType
<1> HIDE DEF t
<1>5. Room(TickWith(t, flags, FALSE)) /\ Room(TickWith(r, flags, FALSE))
  BY <1>4, TickWithRoom
<1> QED
  BY <1>2, <1>3, <1>5 DEF ObserveProgress, s, t

-----------------------------------------------------------------------------
(* The handlers.                                                           *)

\* begin_episode keeps the histories and forgets the rest.
LEMMA EpisodeRoom ==
    ASSUME MachineType(m), Room(m), Episode
    PROVE  Room(m')
<1>1. PICK now \in CallTimes, generation \in Generations :
        BeginEpisode(generation, now) \/ BeginEpisodeRefused(generation, now)
  BY DEF Episode
<1>2. CASE BeginEpisodeRefused(generation, now)
  <2> DEFINE p == [m EXCEPT !.outbox = <<>>]
  <2>1. /\ MachineType(p)
        /\ p.taboo = m.taboo /\ p.blamed = m.blamed /\ p.arrivals = m.arrivals
        /\ p.seen = m.seen /\ p.retired = m.retired /\ p.completed = m.completed
        /\ p.commands = m.commands /\ p.replans = m.replans
    BY Fields DEF MachineType
  <2> HIDE DEF p
  <2>2. Room(p)
    BY <2>1, SameRoom
  <2> QED
    BY <1>2, <2>1, <2>2, EnterTerminalRoom DEF BeginEpisodeRefused, p
<1>3. CASE BeginEpisode(generation, now)
  <2> DEFINE retired == RetirePending(m).retired
             completed == m.completed
             number == m.opSeq
             fresh == [InitialMachine EXCEPT
                       !.state = "monitoring", !.gen = generation,
                       !.lastNow = now, !.notBefore = now,
                       !.opSeq = number, !.completed = completed,
                       !.retired = retired]
             q == QueueSafeStop(fresh)
  <2>1. m' \in {fresh, q}
    BY <1>3 DEF BeginEpisode
  <2>2. Len(retired) <= HistoryCapacity /\ Len(completed) <= HistoryCapacity
    <3>1. Room(RetirePending(m))
      BY RetirePendingRoom
    <3> QED
      BY <3>1 DEF Room
  <2> HIDE DEF retired, completed, number
  <2>3. /\ DOMAIN fresh = DOMAIN InitialMachine
        /\ fresh.taboo = <<>> /\ fresh.blamed = NoPlan /\ fresh.arrivals = <<>>
        /\ fresh.seen = {} /\ fresh.retired = retired /\ fresh.completed = completed
        /\ fresh.commands = 0 /\ fresh.replans = 0
    BY Fields DEF InitialMachine
  <2> HIDE DEF fresh
  <2>4. /\ q.taboo = fresh.taboo /\ q.blamed = fresh.blamed /\ q.arrivals = fresh.arrivals
        /\ q.seen = fresh.seen /\ q.retired = fresh.retired
        /\ q.completed = fresh.completed
        /\ q.commands = fresh.commands /\ q.replans = fresh.replans
    BY <2>3, Fields DEF QueueSafeStop
  <2> HIDE DEF q
  <2>5. /\ TabooCapacity \in Nat /\ MaxCommands \in Nat /\ MaxReplanRequests \in Nat
        /\ Len(<<>>) = 0 /\ IsFiniteSet({}) /\ Cardinality({}) = 0
    BY ConfigAssumption, FS_EmptySet
  <2>6. Taboo(<<>>)
    BY <2>5 DEF Taboo
  <2>7. Room(fresh)
    BY <2>2, <2>3, <2>5, <2>6 DEF Room
  <2>8. Room(q)
    BY <2>4, <2>7, SameRoom
  <2> QED
    BY <2>1, <2>7, <2>8
<1> QED
  BY <1>1, <1>2, <1>3

\* What every handler but begin_episode starts from.
LEMMA CalledRoom ==
    ASSUME MachineType(m), Room(m), NEW now \in CallTimes
    PROVE  LET v == ValidateTime(m, now)
               d == RecoveryDeadline(v)
           IN  /\ MachineType(v) /\ Room(v) /\ MachineType(d) /\ Room(d)
               /\ \A why : Room(EnterTerminal(v, why)) /\ Room(EnterTerminal(d, why))
<1> DEFINE v == ValidateTime(m, now)
           d == RecoveryDeadline(v)
<1>1. now \in Nat
  BY ConfigAssumption DEF CallTimes, Time
<1>2. MachineType(v) /\ Room(v)
  BY <1>1, ValidateTimeType, ValidateTimeRoom
<1> HIDE DEF v
<1>3. MachineType(d) /\ Room(d)
  BY <1>2, RecoveryDeadlineType, ParagraphsRoom
<1> HIDE DEF d
<1>4. \A why : Room(EnterTerminal(v, why)) /\ Room(EnterTerminal(d, why))
  BY <1>2, <1>3, EnterTerminalRoom
<1> QED
  BY <1>2, <1>3, <1>4 DEF v, d

\* tick, as a handler.
LEMMA ClockedRoom ==
    ASSUME MachineType(m), Room(m), Clocked
    PROVE  Room(m')
<1>1. PICK now \in CallTimes :
        TickInvalid(now) \/ \E flags \in SafetyFlags : Tick(now, flags)
  BY DEF Clocked
<1> DEFINE v == ValidateTime(m, now)
<1>2. MachineType(v) /\ Room(v) /\ \A why : Room(EnterTerminal(v, why))
  BY CalledRoom
<1>3. \A flags \in SafetyFlags : Room(TickWith(v, flags, FALSE))
  BY <1>2, TickWithRoom
<1> QED
  BY <1>1, <1>2, <1>3 DEF TickInvalid, Tick

\* acknowledge.
LEMMA AcknowledgeRoom ==
    ASSUME MachineType(m), Room(m), Acknowledge
    PROVE  Room(m')
<1>1. PICK now \in CallTimes :
        \/ AckMalformed(now)
        \/ \E op \in AckOps :
             \/ AckStaleDropped(now, op)
             \/ \E success \in BOOLEAN : AckDuplicate(now, op, success)
             \/ \E gen \in Generations, rec \in Recoveries :
                  AckUnknown(now, op, gen, rec)
        \/ \E success \in BOOLEAN, evidence \in Evidence :
             AckPending(now, success, evidence)
  BY DEF Acknowledge
<1> DEFINE v == ValidateTime(m, now)
           d == RecoveryDeadline(v)
<1>2. /\ Room(v) /\ MachineType(d) /\ Room(d)
      /\ \A why : Room(EnterTerminal(v, why)) /\ Room(EnterTerminal(d, why))
  BY CalledRoom
<1>3. CASE AckMalformed(now)
  BY <1>2, <1>3 DEF AckMalformed
<1>4. ASSUME NEW op, AckStaleDropped(now, op)
      PROVE  Room(m')
  BY <1>2, <1>4 DEF AckStaleDropped
<1>5. ASSUME NEW op, NEW success, AckDuplicate(now, op, success)
      PROVE  Room(m')
  BY <1>2, <1>5 DEF AckDuplicate
<1>6. ASSUME NEW op, NEW gen, NEW rec, AckUnknown(now, op, gen, rec)
      PROVE  Room(m')
  BY <1>2, <1>6 DEF AckUnknown
<1>7. ASSUME NEW success \in BOOLEAN, NEW evidence, AckPending(now, success, evidence)
      PROVE  Room(m')
  <2> DEFINE c == RememberCompletion(d, d.pending.op, success)
             e == [c EXCEPT !.pending = NoCommand]
             action == d.pending.action
  <2>1. HasPending(v) /\ (d.state # "terminal_safe_stop" => d = v)
    <3>1. MachineType(v)
      BY CalledRoom
    <3> QED
      BY <1>7, <3>1, RecoveryDeadlineType DEF AckPending
  <2> HIDE DEF v
  <2> HIDE DEF d
  <2>2. d.pending.op \in Operations
    BY <1>2, Histories
  <2>3. Room(c) /\ MachineType(c) /\ Last(c.completed).op \in Operations
    BY <1>2, <2>2, RememberCompletionRoom, RememberCompletionType
  <2> HIDE DEF c
  <2>4. Room(e) /\ MachineType(e) /\ e.completed = c.completed
    <3>1. /\ e.taboo = c.taboo /\ e.blamed = c.blamed /\ e.arrivals = c.arrivals
          /\ e.seen = c.seen /\ e.retired = c.retired /\ e.completed = c.completed
          /\ e.commands = c.commands /\ e.replans = c.replans
      BY <2>3, Fields DEF MachineType
    <3>2. MachineType(e)
      BY <2>3, DropPendingType
    <3> HIDE DEF e
    <3> QED
      BY <2>3, <3>1, <3>2, SameRoom
  <2> HIDE DEF e
  <2>5. \A why : Room(RetryOrFail(d, why)) /\ Room(RetryOrFail(c, why))
    BY <1>2, <2>3, RetryOrFailRoom
  <2>6. d.state # "terminal_safe_stop" => action \in ActionStates
    <3>1. d.pending \in Commands /\ d.pending.action # "latch_safe_stop"
      BY <1>2 DEF MachineType
    <3>2. d.state # "terminal_safe_stop" => d.pending.action # "none"
      BY <2>1 DEF HasPending
    <3> QED
      BY <3>1, <3>2 DEF Commands
  <2>7. d.state # "terminal_safe_stop" => Room(CachedTick(CompleteAction(e, action)))
    BY <2>3, <2>4, <2>6, CompleteActionRoom, CompleteActionType, CachedTickRoom
  <2> QED
    BY <1>2, <1>7, <2>5, <2>7 DEF AckPending, d, v, c, e
<1> QED
  BY <1>1, <1>3, <1>4, <1>5, <1>6, <1>7

\* The plans are listed by a sequence of plans.
LEMMA OrdersAreSequences ==
    ASSUME NEW S, NEW q \in Seq(S), NEW x, NEW order \in SetToSeqs(Range(q) \cup {x})
    PROVE  order \in Seq(Range(q) \cup {x})
<1> DEFINE n == Len(q)
           X == Range(q) \cup {x}
<1>1. n \in Nat /\ IsFiniteSet(1..n) /\ q \in Surjection(1..n, Range(q))
  <2>1. n \in Nat /\ IsFiniteSet(1..n)
    BY FS_Interval
  <2>2. DOMAIN q = 1..n /\ q \in [1..n -> Range(q)]
    BY DEF Range
  <2> QED
    BY <2>1, <2>2 DEF Surjection, Range
<1>2. IsFiniteSet(Range(q))
  BY <1>1, FS_Surjection
<1>3. IsFiniteSet(X)
  BY <1>2, FS_AddElement
<1> HIDE DEF X
<1>4. order \in [1..Cardinality(X) -> X]
  BY DEF SetToSeqs, X
<1>5. Cardinality(X) \in Nat
  BY <1>3, FS_CardinalityType
<1>6. \A k \in Nat : [1..k -> X] \subseteq Seq(X)
  OBVIOUS
<1> QED
  BY <1>4, <1>5, <1>6 DEF X

\* observe.
LEMMA ObserveRoom ==
    ASSUME MachineType(m), Room(m), Observe
    PROVE  Room(m')
<1>1. PICK now \in CallTimes :
        \/ ObserveIdle(now)
        \/ ObserveInvalid(now)
        \/ \E goal \in Goals :
             \/ ObserveForeignGoal(now, goal)
             \/ \E flags \in SafetyFlags : ObserveValid(now, goal, flags)
  BY DEF Observe
<1> DEFINE v == ValidateTime(m, now)
<1>2. MachineType(v) /\ Room(v) /\ \A why : Room(EnterTerminal(v, why))
  BY CalledRoom
<1>3. CASE ObserveIdle(now) \/ ObserveInvalid(now)
  BY <1>2, <1>3 DEF ObserveIdle, ObserveInvalid
<1>4. ASSUME NEW goal, ObserveForeignGoal(now, goal)
      PROVE  Room(m')
  BY <1>2, <1>4 DEF ObserveForeignGoal
<1>5. ASSUME NEW goal \in Goals, NEW flags \in SafetyFlags,
             ObserveValid(now, goal, flags)
      PROVE  Room(m')
  <2> DEFINE a == AdoptGoal(v, goal)
             t == TickWith(a, flags, FALSE)
  <2> HIDE DEF v
  <2>1. MachineType(a) /\ Room(a)
    <3>1. MachineType(a)
      <4>1. MachineType([v EXCEPT !.samples = NoSamples, !.arrivals = <<>>, !.seen = {},
                                  !.active = NoPlan, !.goal = goal])
        BY <1>2, Fields DEF MachineType, NoSamples
      <4>2. MachineType([v EXCEPT !.goal = goal])
        BY <1>2, Fields DEF MachineType
      <4> QED
        BY <4>1, <4>2 DEF AdoptGoal, a
    <3> QED
      BY <1>2, <3>1, AdoptGoalRoom
  <2> HIDE DEF a
  <2>2. MachineType(t) /\ Room(t)
    BY <2>1, TickWithType, TickWithRoom
  <2> HIDE DEF t
  <2>3. \A running, stuck : Room(ObserveProgress(t, flags, running, stuck))
    BY <2>2, ObserveProgressRoom
  <2>4. ASSUME NEW p \in Plans, NEW running, NEW stuck, NEW window,
               NEW order \in Orders(t, p, running)
        PROVE  Room(ObserveProgress(PlanArrival(t, p, running, window, order),
                                    flags, running, stuck))
    <3>1. t.arrivals \in Seq(Plans)
      BY <2>2 DEF MachineType
    <3>2. order \in Seq(Range(t.arrivals) \cup {p})
      <4>1. order \in SetToSeqs(Range(t.arrivals) \cup {p}) \/ order = <<>>
        BY DEF Orders
      <4>2. <<>> \in Seq(Range(t.arrivals) \cup {p})
        OBVIOUS
      <4> QED
        BY <3>1, <4>1, <4>2, OrdersAreSequences
    <3>3. /\ MachineType(PlanArrival(t, p, running, window, order))
          /\ Room(PlanArrival(t, p, running, window, order))
      BY <2>2, <3>2, PlanArrivalType, PlanArrivalRoom
    <3> QED
      BY <3>3, ObserveProgressRoom
  <2> QED
    BY <1>5, <2>2, <2>3, <2>4 DEF ObserveValid, a, t, v
<1> QED
  BY <1>1, <1>3, <1>4, <1>5

\* submit_replanned_trajectory.
LEMMA SubmitRoom ==
    ASSUME MachineType(m), Room(m), Submit
    PROVE  Room(m')
<1>1. PICK now \in CallTimes :
        \/ SubmitStopped(now)
        \/ \E op \in {m.awaiting, NoOperation}, gen \in Generations,
              rec \in Recoveries :
             \/ SubmitRefused(now, op, gen, rec)
             \/ SubmitLate(now, op, gen, rec)
             \/ SubmitInvalid(now, op, gen, rec)
             \/ \E p \in Plans : \/ SubmitOld(now, op, gen, rec, p)
                                 \/ SubmitNovel(now, op, gen, rec, p)
  BY DEF Submit
<1> DEFINE d == RecoveryDeadline(ValidateTime(m, now))
<1>2. MachineType(d) /\ Room(d) /\ \A why : Room(EnterTerminal(d, why))
  BY CalledRoom
<1>3. ASSUME NEW q, MachineType(q), Room(q)
      PROVE  /\ \A s \in States : Room(CachedTick(Transition(q, s)))
             /\ \A why : Room(CachedTick(StartRetreatOrStop(q, why)))
  BY <1>3, TransitionType, TransitionRoom, StartRetreatOrStopType, StartRetreatOrStopRoom,
     CachedTickRoom
<1>4. "request_replan" \in States /\ "accept_fresh_plan" \in States
  BY DEF States, RecoveryStates, ActionStates
<1>5. CASE SubmitStopped(now)
  BY <1>2, <1>5 DEF SubmitStopped
<1>6. ASSUME NEW op, NEW gen, NEW rec, SubmitRefused(now, op, gen, rec)
      PROVE  Room(m')
  BY <1>2, <1>6 DEF SubmitRefused
<1>7. ASSUME NEW op, NEW gen, NEW rec, SubmitInvalid(now, op, gen, rec)
      PROVE  Room(m')
  BY <1>2, <1>7 DEF SubmitInvalid
<1>8. ASSUME NEW op, NEW gen, NEW rec, SubmitLate(now, op, gen, rec)
      PROVE  Room(m')
  <2> DEFINE q == [d EXCEPT !.awaiting = NoOperation, !.planDeadline = NoTime]
  <2> HIDE DEF d
  <2>1. /\ MachineType(q)
        /\ q.taboo = d.taboo /\ q.blamed = d.blamed /\ q.arrivals = d.arrivals
        /\ q.seen = d.seen /\ q.retired = d.retired /\ q.completed = d.completed
        /\ q.commands = d.commands /\ q.replans = d.replans
    BY <1>2, Constants, Fields DEF MachineType
  <2> HIDE DEF q
  <2>2. Room(q)
    BY <1>2, <2>1, SameRoom
  <2> QED
    BY <1>3, <1>4, <1>8, <2>1, <2>2 DEF SubmitLate, d, q
<1>9. ASSUME NEW op, NEW gen, NEW rec, NEW p \in Plans, SubmitOld(now, op, gen, rec, p)
      PROVE  Room(m')
  <2> DEFINE taboo == AddTaboo(d.taboo, p)
             q == [d EXCEPT !.taboo = taboo, !.rejections = @ + 1]
  <2> HIDE DEF d
  <2>1. /\ Taboo(taboo)
        /\ Spare(taboo) => Spare(d.taboo) /\ Range(d.taboo) \subseteq Range(taboo)
    BY <1>2, AddTabooTaboo DEF Room
  <2> HIDE DEF taboo
  <2>2. /\ MachineType(q)
        /\ q.taboo = taboo /\ q.blamed = d.blamed /\ q.arrivals = d.arrivals
        /\ q.seen = d.seen /\ q.retired = d.retired /\ q.completed = d.completed
        /\ q.commands = d.commands /\ q.replans = d.replans
    <3>1. MachineType(q)
      BY <1>2, RejectPlanType
    <3> QED
      BY <1>2, <3>1, Fields DEF MachineType
  <2> HIDE DEF q
  <2>3. Room(q)
    BY <1>2, <2>1, <2>2 DEF Room, Banned
  <2> QED
    BY <1>3, <1>4, <1>9, <2>2, <2>3 DEF SubmitOld, d, q, taboo
<1>10. ASSUME NEW op, NEW gen, NEW rec, NEW p \in Plans, SubmitNovel(now, op, gen, rec, p)
       PROVE  Room(m')
  <2> DEFINE q == [d EXCEPT !.accepted = p, !.planDeadline = NoTime,
                            !.awaiting = NoOperation]
  <2> HIDE DEF d
  <2>1. /\ MachineType(q)
        /\ q.taboo = d.taboo /\ q.blamed = d.blamed /\ q.arrivals = d.arrivals
        /\ q.seen = d.seen /\ q.retired = d.retired /\ q.completed = d.completed
        /\ q.commands = d.commands /\ q.replans = d.replans
    BY <1>2, Constants, Fields DEF MachineType
  <2> HIDE DEF q
  <2>2. Room(q)
    BY <1>2, <2>1, SameRoom
  <2> QED
    BY <1>2, <1>3, <1>4, <1>10, <2>1, <2>2 DEF SubmitNovel, d, q
<1> QED
  BY <1>1, <1>5, <1>6, <1>7, <1>8, <1>9, <1>10

-----------------------------------------------------------------------------
(* The theorems.                                                           *)

\* The inductive invariant.
THEOREM RoomAlways == Spec => [](Settled(m) /\ Room(m))
<1>1. Init => Room(m)
  <2> SUFFICES ASSUME Init PROVE Room(m)
    OBVIOUS
  <2>1. /\ m.taboo = <<>> /\ m.blamed = NoPlan /\ m.arrivals = <<>> /\ m.seen = {}
        /\ m.retired = <<>> /\ m.completed = <<>> /\ m.commands = 0 /\ m.replans = 0
    BY DEF Init, InitialMachine
  <2>2. /\ TabooCapacity \in Nat /\ HistoryCapacity \in Nat
        /\ MaxCommands \in Nat /\ MaxReplanRequests \in Nat
        /\ Len(<<>>) = 0 /\ IsFiniteSet({}) /\ Cardinality({}) = 0
    BY ConfigAssumption, FS_EmptySet
  <2>3. Taboo(<<>>)
    BY <2>2 DEF Taboo
  <2> QED
    BY <2>1, <2>2, <2>3 DEF Room
<1>2. Settled(m) => MachineType(m)
  BY DEF Settled, Guarded
<1>3. MachineType(m) /\ Room(m) /\ [Next]_m => Room(m)'
  <2>1. ASSUME Room(m), UNCHANGED m PROVE Room(m)'
    BY <2>1
  <2>2. MachineType(m) /\ Room(m) /\ Next => Room(m')
    BY EpisodeRoom, ClockedRoom, AcknowledgeRoom, ObserveRoom, SubmitRoom DEF Next
  <2> QED
    BY <2>1, <2>2
<1> QED
  BY <1>1, <1>2, <1>3, SettledAlways, PTL DEF Spec

\* The tokens of an accepted plan are not in the deque, so one whose tokens are is
\* another plan.
LEMMA BlamedIsBanned ==
    ASSUME Settled(m), m.blamed # NoPlan => Banned(m.blamed, m.taboo)
    PROVE  AcceptsAnother(m)
<1> SUFFICES ASSUME m.state = "accept_fresh_plan", m.blamed # NoPlan
             PROVE  /\ m.accepted.shape # m.blamed.shape
                    /\ m.accepted.abs # m.blamed.abs
  BY DEF AcceptsAnother
<1>1. \A i \in 1..2 : /\ PlanTokens(m.blamed)[i] \in Range(m.taboo)
                      /\ PlanTokens(m.accepted)[i] \notin Range(m.taboo)
  BY DEF Settled, Guarded, Sound, BarrierNovel, IsOld, IsTaboo, Banned
<1>2. /\ PlanTokens(m.blamed)[1] # PlanTokens(m.accepted)[1]
      /\ PlanTokens(m.blamed)[2] # PlanTokens(m.accepted)[2]
  BY <1>1
<1> QED
  BY <1>2 DEF PlanTokens

\* The deques, the set of seen shapes and the counters stay within the capacities
\* that _add_taboo, the histories and _issue_current_action give them, and the
\* taboo deque holds no token twice.
THEOREM MemoryStaysBounded == Spec => []MemoryIsBounded
<1>1. Room(m) => MemoryIsBounded
  <2> SUFFICES ASSUME Room(m) PROVE MemoryIsBounded
    OBVIOUS
  <2>1. Cardinality(Range(m.taboo)) = Len(m.taboo)
    BY CountDistinct DEF Room, Taboo
  <2> QED
    BY <2>1 DEF MemoryIsBounded, Room, Taboo
<1> QED
  BY <1>1, RoomAlways, PTL

\* Whatever plans are offered in between, a recovery accepts the plan it was
\* started for only if the full taboo deque has dropped a token of it: that plan
\* became taboo first (_start_recovery, _add_taboo).
THEOREM BlamedPlanStaysTaboo == Spec => []BlamedPlanNotAccepted
<1>1. ASSUME Settled(m), Room(m)
      PROVE  BlamedPlanNotAccepted
  <2>1. CASE \A token \in Range(PlanTokens(m.blamed)) : token \in Range(m.taboo)
    <3>1. Banned(m.blamed, m.taboo)
      BY <2>1 DEF Banned, PlanTokens, Range
    <3> QED
      BY <1>1, <3>1, BlamedIsBanned DEF BlamedPlanNotAccepted
  <2>2. CASE Spare(m.taboo)
    <3>1. m.blamed # NoPlan => Banned(m.blamed, m.taboo)
      BY <1>1, <2>2 DEF Room
    <3> QED
      BY <1>1, <3>1, BlamedIsBanned DEF BlamedPlanNotAccepted
  <2>3. Len(m.taboo) # TabooCapacity => Spare(m.taboo)
    <3>1. TabooCapacity \in Nat
      BY ConfigAssumption
    <3>2. Len(m.taboo) \in Nat /\ Len(m.taboo) <= TabooCapacity
      BY <1>1 DEF Room, Taboo
    <3> QED
      BY <3>1, <3>2 DEF Spare
  <2> QED
    BY <2>1, <2>2, <2>3 DEF BlamedPlanNotAccepted
<1> QED
  BY <1>1, RoomAlways, PTL

\* With a taboo deque that has room for both tokens of every plan it never does,
\* full or not.
THEOREM BlamedPlanNeverAccepted ==
    ASSUME Ample
    PROVE  Spec => []AcceptsAnother(m)
<1>1. Settled(m) /\ Room(m) => AcceptsAnother(m)
  BY BlamedIsBanned DEF Room, Spare
<1> QED
  BY <1>1, RoomAlways, PTL

=============================================================================
