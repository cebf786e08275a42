----------------------------- MODULE PanelProofs -----------------------------
(***************************************************************************)
(* What the panel draws. Movement states and adjustment of tracks of any   *)
(* length, over any places and for any sizes, gap and time limit; and the  *)
(* line at rest, which is the selected device's, whole up to its last      *)
(* minute but for what comes late from a buffer, and asked for along the   *)
(* roads when it is to be, for any devices, positions and clicks, and any  *)
(* order of the answers and messages.                                      *)
(***************************************************************************)
EXTENDS Track, TrackView, FiniteSetTheorems, WellFoundedInduction, TLAPS

(***************************************************************************)
(* Induction.                                                              *)
(***************************************************************************)

(* A nonempty set of numbers has a least one.                              *)
LEMMA LeastNumber ==
    ASSUME NEW S \in SUBSET Nat, S # {}
    PROVE  \E x \in S : \A y \in S : x <= y
  <1>1. PICK x \in S : \A y \in S : ~ (<<y, x>> \in OpToRel(<, Nat))
    BY NatLessThanWellFounded, WFMin
  <1>2. \A y \in S : x <= y
    <2> SUFFICES ASSUME NEW y \in S PROVE x <= y
      OBVIOUS
    <2>1. x \in Nat /\ y \in Nat
      BY <1>1
    <2>2. y < x => <<y, x>> \in OpToRel(<, Nat)
      BY <2>1 DEF OpToRel
    <2>3. ~ (y < x)
      BY <1>1, <2>2, Zenon
    <2> QED
      BY <2>1, <2>3
  <1> QED
    BY <1>2, Zenon

(* A set of numbers with 0 and the successor of each of them has them all. *)
LEMMA SetInduction ==
    ASSUME NEW S \in SUBSET Nat, 0 \in S, \A n \in S : n + 1 \in S
    PROVE  S = Nat
  <1> SUFFICES ASSUME Nat \ S # {} PROVE FALSE
    OBVIOUS
  <1>1. PICK m \in Nat \ S : \A y \in Nat \ S : m <= y
    BY LeastNumber
  <1>2. m \in Nat /\ m # 0 /\ m - 1 \in Nat /\ ~(m <= m - 1)
    BY <1>1
  <1>3. m - 1 \in S
    BY <1>1, <1>2
  <1>4. (m - 1) + 1 \in S /\ (m - 1) + 1 = m
    BY <1>2, <1>3
  <1> QED
    BY <1>1, <1>4

(* Induction up to N.                                                      *)
LEMMA FiniteInduction ==
    ASSUME NEW N \in Nat, NEW K \in SUBSET (0 .. N), 0 \in K,
           \A n \in K : n < N => n + 1 \in K
    PROVE  K = 0 .. N
  <1> DEFINE T == {n \in Nat : n <= N => n \in K}
  <1>1. 0 \in T
    OBVIOUS
  <1>2. ASSUME NEW n \in T PROVE n + 1 \in T
    OBVIOUS
  <1>3. T = Nat
    <2> HIDE DEF T
    <2>1. T \in SUBSET Nat
      BY DEF T
    <2> QED
      BY <1>1, <1>2, <2>1, SetInduction
  <1>4. ASSUME NEW n \in 0 .. N PROVE n \in K
    <2>1. n \in T
      BY <1>3
    <2> QED
      BY <2>1
  <1> QED
    BY <1>4

(* What is computed step by step from a first value exists.                *)
Steps(N, S) == [(1 .. N) \X S -> S]
(* f begins with a and each step gives the next value.                     *)
Follows(f, N, a, step) == f[0] = a /\ \A i \in 1 .. N : f[i] = step[<<i, f[i - 1]>>]

(* Such an f exists, by induction on its length.                           *)
LEMMA RecursionExists ==
    ASSUME NEW N \in Nat, NEW S, NEW a \in S, NEW step \in Steps(N, S)
    PROVE  \E f \in [0 .. N -> S] : Follows(f, N, a, step)
  <1> DEFINE Computes(f, n) == f[0] = a /\ \A i \in 1 .. n : f[i] = step[<<i, f[i - 1]>>]
             K == {n \in Nat : n <= N => \E f \in [0 .. n -> S] : Computes(f, n)}
  <1>1. 0 \in K
    <2>1. [j \in 0 .. 0 |-> a] \in [0 .. 0 -> S] /\ Computes([j \in 0 .. 0 |-> a], 0)
      OBVIOUS
    <2> QED
      BY <2>1
  <1>2. ASSUME NEW n \in K PROVE n + 1 \in K
    <2> HIDE DEF Computes
    <2>0. n \in Nat /\ n + 1 \in Nat /\ (n <= N => \E f \in [0 .. n -> S] : Computes(f, n))
      OBVIOUS
    <2> SUFFICES ASSUME n + 1 <= N
                 PROVE  \E f \in [0 .. n + 1 -> S] : Computes(f, n + 1)
      BY <2>0
    <2> HIDE DEF K
    <2>1. PICK f \in [0 .. n -> S] : Computes(f, n)
      BY <2>0
    <2> USE DEF Computes
    <2> DEFINE g == [j \in 0 .. n + 1 |-> IF j = n + 1 THEN step[<<n + 1, f[n]>>] ELSE f[j]]
    <2>2. f[n] \in S /\ n + 1 \in 1 .. N
      BY <2>0
    <2>3. g \in [0 .. n + 1 -> S]
      BY <2>0, <2>2 DEF Steps
    <2>4. g[0] = a
      BY <2>0, <2>1
    <2>5. ASSUME NEW i \in 1 .. n + 1 PROVE g[i] = step[<<i, g[i - 1]>>]
      <3>1. CASE i = n + 1
        <4>1. g[n + 1] = step[<<n + 1, f[n]>>]
          BY <2>0
        <4>2. (n + 1) - 1 = n /\ n \in 0 .. n + 1 /\ n # n + 1
          BY <2>0
        <4>3. g[n] = f[n]
          BY <4>2
        <4> HIDE DEF g
        <4> QED
          BY <3>1, <4>1, <4>2, <4>3
      <3>2. CASE i # n + 1
        BY <2>0, <2>1, <3>2
      <3> QED
        BY <3>1, <3>2
    <2> QED
      BY <2>3, <2>4, <2>5
  <1>3. K = Nat
    <2> HIDE DEF K
    <2>1. K \in SUBSET Nat
      BY DEF K
    <2> QED
      BY <1>1, <1>2, <2>1, SetInduction
  <1>4. N \in K
    <2> HIDE DEF K
    <2> QED
      BY <1>3
  <1> QED
    BY <1>4 DEF Follows

(* Every value of a recursion is of the type that each step keeps.         *)
LEMMA RecursionTyped ==
    ASSUME NEW N \in Nat, NEW S, NEW f, f = [i \in 0 .. N |-> f[i]],
           f[0] \in S, \A i \in 1 .. N : f[i - 1] \in S => f[i] \in S
    PROVE  f \in [0 .. N -> S]
  <1> DEFINE K == {n \in 0 .. N : f[n] \in S}
  <1>1. 0 \in K
    OBVIOUS
  <1>2. ASSUME NEW n \in K, n < N PROVE n + 1 \in K
    <2>1. n + 1 \in 1 .. N /\ (n + 1) - 1 = n /\ f[n] \in S
      BY <1>2
    <2>2. f[n + 1] \in S
      BY <2>1
    <2> QED
      BY <2>1, <2>2
  <1>3. K = 0 .. N
    <2> HIDE DEF K
    <2>1. K \in SUBSET (0 .. N)
      BY DEF K
    <2> QED
      BY <1>1, <1>2, <2>1, FiniteInduction
  <1>4. \A i \in 0 .. N : f[i] \in S
    BY <1>3
  <1> QED
    BY <1>4

(* A set of numbers from c on, with all between c and each of them.        *)
LEMMA Intervals ==
    ASSUME NEW c \in Nat, NEW N \in Nat, NEW C \in SUBSET (c .. N), C # {},
           \A i \in C : c .. i \subseteq C
    PROVE  \E e \in c .. N : C = c .. e /\ Cardinality(C) = e - c + 1 /\ IsFiniteSet(C)
  <1> DEFINE D == {k \in Nat : k >= c /\ k \notin C}
  <1>1. c \in C /\ c <= N
    <2>1. PICK i \in C : TRUE
      OBVIOUS
    <2>2. i \in c .. N
      OBVIOUS
    <2>3. c \in c .. i
      BY <2>2
    <2> QED
      BY <2>1, <2>2, <2>3
  <1>2. N + 1 \in D
    <2>1. N + 1 \notin c .. N
      OBVIOUS
    <2> QED
      BY <1>1, <2>1
  <1>3. PICK d \in D : \A y \in D : d <= y
    BY <1>2, LeastNumber
  <1>4. d \in Nat /\ d > c /\ d <= N + 1
    <2>1. d # c /\ d \in Nat /\ d >= c
      BY <1>1, <1>3
    <2> QED
      BY <1>2, <1>3, <2>1
  <1>5. C = c .. d - 1
    <2>1. ASSUME NEW k \in c .. d - 1 PROVE k \in C
      <3>1. k \in Nat /\ k >= c /\ ~ (d <= k)
        BY <1>4
      <3> QED
        BY <1>3, <3>1
    <2>2. ASSUME NEW k \in C PROVE k \in c .. d - 1
      <3>1. k \in c .. N /\ c .. k \subseteq C
        OBVIOUS
      <3>2. d \notin c .. k
        BY <1>3, <3>1
      <3> QED
        BY <1>4, <3>1, <3>2
    <2> QED
      BY <2>1, <2>2
  <1>6. d - 1 \in c .. N /\ Cardinality(C) = (d - 1) - c + 1 /\ IsFiniteSet(C)
    <2>1. d - 1 \in Int /\ ~ (c > d - 1)
      BY <1>4
    <2> QED
      BY <1>4, <1>5, <2>1, FS_Interval
  <1> QED
    BY <1>5, <1>6
(***************************************************************************)
(* Loops over a sequence.                                                  *)
(***************************************************************************)

(* The loop of Only.                                                       *)
Keeps(out, s, S) ==
    /\ out[0] = <<>>
    /\ \A i \in 1 .. Len(s) :
          out[i] = IF s[i] \in S THEN Append(out[i - 1], s[i]) ELSE out[i - 1]

(* Only is what its loop leaves, and all of it is in S.                    *)
LEMMA OnlyLoop ==
    ASSUME NEW T, NEW s \in Seq(T), NEW S
    PROVE  \E out \in [0 .. Len(s) -> Seq(T \cap S)] :
              Keeps(out, s, S) /\ Only(s, S) = out[Len(s)]
  <1> DEFINE N == Len(s)
             V == Seq(T \cap S)
             Step(out, x) == IF x \in S THEN Append(out, x) ELSE out
             Body(g) == [i \in 0 .. N |-> IF i = 0 THEN <<>> ELSE Step(g[i - 1], s[i])]
             step == [p \in (1 .. N) \X V |-> Step(p[2], s[p[1]])]
             out == CHOOSE g : g = Body(g)
  <1>1. N \in Nat /\ <<>> \in V
    OBVIOUS
  <1>2. ASSUME NEW i \in 1 .. N, NEW v \in V PROVE Step(v, s[i]) \in V
    BY <1>1
  <1>3. step \in Steps(N, V)
    BY <1>2 DEF Steps
  <1>4. PICK f \in [0 .. N -> V] : Follows(f, N, <<>>, step)
    <2> HIDE DEF step, N, V
    <2> QED
      BY <1>1, <1>3, RecursionExists
  <1>5. f = Body(f)
    <2>1. ASSUME NEW i \in 1 .. N PROVE f[i] = Step(f[i - 1], s[i])
      <3>1. i - 1 \in 0 .. N
        BY <1>1
      <3>2. <<i, f[i - 1]>> \in (1 .. N) \X V
        BY <3>1
      <3> HIDE DEF V, Step
      <3> QED
        BY <1>4, <3>2 DEF Follows
    <2>2. f[0] = <<>>
      BY <1>4 DEF Follows
    <2> HIDE DEF V, Step, N
    <2> QED
      BY <2>1, <2>2
  <1>6. out = Body(out)
    <2> HIDE DEF Body
    <2> QED
      BY <1>5
  <1>7. Only(s, S) = out[N]
    BY DEF Only, Loop
  <1> HIDE DEF out
  <1>8. out[0] = <<>> /\ out = [i \in 0 .. N |-> out[i]]
    BY <1>1, <1>6
  <1>9. ASSUME NEW i \in 1 .. N PROVE out[i] = Step(out[i - 1], s[i])
    <2>1. i \in 0 .. N /\ i # 0
      BY <1>1
    <2> HIDE DEF Step, N
    <2> QED
      BY <1>6, <2>1
  <1>10. out \in [0 .. N -> V]
    <2>1. out[0] \in V
      BY <1>1, <1>8
    <2>2. ASSUME NEW i \in 1 .. N, out[i - 1] \in V PROVE out[i] \in V
      BY <1>2, <1>9, <2>2
    <2> HIDE DEF N, V
    <2> QED
      BY <1>1, <1>8, <2>1, <2>2, RecursionTyped
  <1> QED
    BY <1>7, <1>8, <1>9, <1>10 DEF Keeps

(* What a loop keeps of s, in order.                                       *)
Ordered(s) == \A j, k \in 1 .. Len(s) : j <= k => s[j].time <= s[k].time
(* u is of elements of s, and in order of time if s is.                    *)
KeptOf(u, s) == /\ \A k \in 1 .. Len(u) : \E j \in 1 .. Len(s) : u[k] = s[j]
                /\ Ordered(s) => Ordered(u)

(* A loop that keeps or skips one element at a time keeps the order.       *)
LEMMA KeptInOrder ==
    ASSUME NEW s \in Seq(Rows), NEW out \in [0 .. Len(s) -> Seq(Rows)], out[0] = <<>>,
           \A i \in 1 .. Len(s) : out[i] = out[i - 1] \/ out[i] = Append(out[i - 1], s[i])
    PROVE  KeptOf(out[Len(s)], s)
  <1> DEFINE N == Len(s)
             From(n) == \A k \in 1 .. Len(out[n]) : \E j \in 1 .. n : out[n][k] = s[j]
             K == {n \in 0 .. N : From(n) /\ (Ordered(s) => Ordered(out[n]))}
  <1>1. N \in Nat
    OBVIOUS
  <1>2. 0 \in K
    BY <1>1 DEF Ordered
  <1>3. ASSUME NEW n \in K, n < N PROVE n + 1 \in K
    <2>1. /\ n \in Nat /\ n + 1 \in 1 .. N /\ (n + 1) - 1 = n /\ n + 1 \in 0 .. N
          /\ From(n) /\ out[n] \in Seq(Rows) /\ s[n + 1] \in Rows
      BY <1>1, <1>3, SMTT(30)
    <2> DEFINE v == out[n]
               x == s[n + 1]
    <2>2. CASE out[n + 1] = v
      BY <1>3, <2>1, <2>2
    <2>3. CASE out[n + 1] = Append(v, x)
      <3>1. /\ Len(Append(v, x)) = Len(v) + 1 /\ Append(v, x)[Len(v) + 1] = x
            /\ \A k \in 1 .. Len(v) : Append(v, x)[k] = v[k]
        BY <2>1
      <3>2. From(n + 1)
        <4> SUFFICES ASSUME NEW k \in 1 .. Len(v) + 1
                     PROVE  \E j \in 1 .. n + 1 : Append(v, x)[k] = s[j]
          BY <2>3, <3>1
        <4>1. CASE k = Len(v) + 1
          BY <2>1, <3>1, <4>1
        <4>2. CASE k # Len(v) + 1
          <5>1. k \in 1 .. Len(v)
            BY <2>1, <4>2
          <5>2. PICK j \in 1 .. n : v[k] = s[j]
            BY <2>1, <5>1
          <5> QED
            BY <2>1, <3>1, <5>1, <5>2
        <4> QED
          BY <4>1, <4>2
      <3>3. ASSUME Ordered(s) PROVE Ordered(Append(v, x))
        <4> SUFFICES ASSUME NEW j \in 1 .. Len(v) + 1, NEW k \in 1 .. Len(v) + 1, j <= k
                     PROVE  Append(v, x)[j].time <= Append(v, x)[k].time
          BY <3>1 DEF Ordered
        <4>1. CASE j = Len(v) + 1
          <5>1. k = j /\ x.time \in Nat
            BY <2>1, <4>1 DEF Rows
          <5> QED
            BY <3>1, <4>1, <5>1
        <4>2. CASE j # Len(v) + 1
          <5>1. j \in 1 .. Len(v)
            BY <2>1, <4>2
          <5>2. CASE k = Len(v) + 1
            <6>1. PICK i \in 1 .. n : v[j] = s[i]
              BY <2>1, <5>1
            <6>2. i \in 1 .. N /\ i <= n + 1
              BY <1>1, <2>1
            <6>3. s[i].time <= x.time
              BY <2>1, <3>3, <6>2 DEF Ordered
            <6> QED
              BY <3>1, <5>1, <5>2, <6>1, <6>3
          <5>3. CASE k # Len(v) + 1
            <6>1. k \in 1 .. Len(v)
              BY <2>1, <5>3
            <6>2. Ordered(v)
              BY <1>3, <3>3
            <6> QED
              BY <3>1, <5>1, <6>1, <6>2 DEF Ordered
          <5> QED
            BY <5>2, <5>3
        <4> QED
          BY <4>1, <4>2
      <3> QED
        BY <2>1, <2>3, <3>2, <3>3
    <2> QED
      BY <2>1, <2>2, <2>3
  <1>4. K = 0 .. N
    <2> HIDE DEF K, N
    <2>1. K \in SUBSET (0 .. N)
      BY DEF K
    <2> QED
      BY <1>1, <1>2, <1>3, <2>1, FiniteInduction
  <1>5. N \in K
    <2> HIDE DEF K
    <2> QED
      BY <1>1, <1>4
  <1> QED
    BY <1>5 DEF KeptOf

(* Rows with coordinates.                                                  *)
LEMMA ValidIs ==
    ASSUME NEW s \in Seq(Rows)
    PROVE  Valid(s) \in Seq(Points) /\ KeptOf(Valid(s), s)
  <1> DEFINE S == {row \in ToSet(s) : row.place # NoFix}
  <1>1. Rows \cap S \subseteq Points
    BY DEF Rows, Points
  <1>2. PICK out \in [0 .. Len(s) -> Seq(Rows \cap S)] :
              Keeps(out, s, S) /\ Only(s, S) = out[Len(s)]
    <2> HIDE DEF S
    <2> QED
      BY OnlyLoop
  <1>3. Valid(s) = out[Len(s)]
    BY <1>2 DEF Valid
  <1> HIDE DEF S
  <1>4. out[Len(s)] \in Seq(Points)
    BY <1>1, <1>2
  <1>5. out \in [0 .. Len(s) -> Seq(Rows)]
    BY <1>1, <1>2
  <1>6. KeptOf(out[Len(s)], s)
    BY <1>2, <1>5, KeptInOrder DEF Keeps
  <1> QED
    BY <1>3, <1>4, <1>6

(* The latest of them.                                                     *)
LEMMA RecentIs ==
    ASSUME NEW s \in Seq(Points)
    PROVE  Recent(s) \in Seq(Points) /\ KeptOf(Recent(s), s)
  <1> DEFINE n == IF MaxPoints > 2 THEN MaxPoints ELSE 2
  <1>1. n \in Nat /\ Len(s) \in Nat /\ n > 0
    BY SizesAssumption
  <1>2. CASE Len(s) <= n
    <2>1. Recent(s) = s
      BY <1>2 DEF Recent
    <2> QED
      BY <2>1 DEF KeptOf
  <1>3. CASE Len(s) > n
    <2>1. Recent(s) = SubSeq(s, Len(s) - n + 1, Len(s))
      <3>1. Recent(s) = IF Len(s) <= n THEN s ELSE SubSeq(s, Len(s) - n + 1, Len(s))
        BY DEF Recent
      <3> HIDE DEF n
      <3> QED
        BY <1>1, <1>3, <3>1
    <2> HIDE DEF n
    <2>2. /\ Recent(s) \in Seq(Points) /\ Len(Recent(s)) = n
          /\ \A k \in 1 .. n : Recent(s)[k] = s[Len(s) - n + k]
      BY <1>1, <1>3, <2>1
    <2>3. \A k \in 1 .. n : Len(s) - n + k \in 1 .. Len(s)
      BY <1>1, <1>3
    <2>4. ASSUME NEW j \in 1 .. n, NEW k \in 1 .. n, j <= k
          PROVE  Len(s) - n + j <= Len(s) - n + k
      BY <1>1, <2>4
    <2> QED
      BY <2>2, <2>3, <2>4 DEF KeptOf, Ordered
  <1> QED
    BY <1>1, <1>2, <1>3

(* The loop of filterGpsTrace.                                             *)
LEMMA FilterLoop ==
    ASSUME NEW s \in Seq(Points)
    PROVE  Loop(Keep, <<>>, s) \in Seq(Points) /\ KeptOf(Loop(Keep, <<>>, s), s)
  <1> DEFINE N == Len(s)
             V == Seq(Points)
             Body(g) == [i \in 0 .. N |-> IF i = 0 THEN <<>> ELSE Keep(g[i - 1], s[i])]
             step == [p \in (1 .. N) \X V |-> Keep(p[2], s[p[1]])]
             out == CHOOSE g : g = Body(g)
  <1>1. N \in Nat /\ <<>> \in V
    OBVIOUS
  <1>2. ASSUME NEW i \in 1 .. N, NEW v \in V
        PROVE  Keep(v, s[i]) \in V /\ (Keep(v, s[i]) = v \/ Keep(v, s[i]) = Append(v, s[i]))
    BY <1>1 DEF Keep
  <1>3. step \in Steps(N, V)
    <2> HIDE DEF V, N
    <2> QED
      BY <1>2 DEF Steps
  <1>4. PICK f \in [0 .. N -> V] : Follows(f, N, <<>>, step)
    <2> HIDE DEF step, N, V
    <2> QED
      BY <1>1, <1>3, RecursionExists
  <1>5. f = Body(f)
    <2>1. ASSUME NEW i \in 1 .. N PROVE f[i] = Keep(f[i - 1], s[i])
      <3>1. i - 1 \in 0 .. N
        BY <1>1
      <3>2. <<i, f[i - 1]>> \in (1 .. N) \X V
        BY <3>1
      <3> HIDE DEF V
      <3> QED
        BY <1>4, <3>2 DEF Follows
    <2>2. f[0] = <<>>
      BY <1>4 DEF Follows
    <2> HIDE DEF V, N
    <2> QED
      BY <2>1, <2>2
  <1>6. out = Body(out)
    <2> HIDE DEF Body
    <2> QED
      BY <1>5
  <1>7. Loop(Keep, <<>>, s) = out[N]
    BY DEF Loop
  <1> HIDE DEF out
  <1>8. out[0] = <<>> /\ out = [i \in 0 .. N |-> out[i]]
    BY <1>1, <1>6
  <1>9. ASSUME NEW i \in 1 .. N PROVE out[i] = Keep(out[i - 1], s[i])
    <2>1. i \in 0 .. N /\ i # 0
      BY <1>1
    <2> HIDE DEF N
    <2> QED
      BY <1>6, <2>1
  <1>10. out \in [0 .. N -> V]
    <2>1. out[0] \in V
      BY <1>1, <1>8
    <2>2. ASSUME NEW i \in 1 .. N, out[i - 1] \in V PROVE out[i] \in V
      BY <1>2, <1>9, <2>2
    <2> HIDE DEF N, V
    <2> QED
      BY <1>1, <1>8, <2>1, <2>2, RecursionTyped
  <1>11. out[N] \in V
    BY <1>1, <1>10
  <1>12. KeptOf(out[N], s)
    <2>1. Points \subseteq Rows
      BY DEF Points, Rows
    <2>2. s \in Seq(Rows) /\ out \in [0 .. N -> Seq(Rows)]
      BY <1>10, <2>1
    <2>3. \A i \in 1 .. N : out[i] = out[i - 1] \/ out[i] = Append(out[i - 1], s[i])
      <3> SUFFICES ASSUME NEW i \in 1 .. N
                   PROVE  out[i] = out[i - 1] \/ out[i] = Append(out[i - 1], s[i])
        OBVIOUS
      <3>1. out[i - 1] \in V
        BY <1>1, <1>10
      <3> HIDE DEF V
      <3> QED
        BY <1>2, <1>9, <3>1
    <2> QED
      BY <1>8, <2>2, <2>3, KeptInOrder
  <1> QED
    BY <1>7, <1>11, <1>12

(* What is kept of what is kept.                                           *)
LEMMA KeptTransitive ==
    ASSUME NEW u \in Seq(Rows), NEW v \in Seq(Rows), NEW w \in Seq(Rows),
           KeptOf(u, v), KeptOf(v, w)
    PROVE  KeptOf(u, w)
  BY DEF KeptOf

(* filterGpsTrace.                                                         *)
LEMMA FilteredIs ==
    ASSUME NEW s \in Seq(Rows)
    PROVE  Filtered(s) \in Seq(Points) /\ KeptOf(Filtered(s), s)
  <1>1. Valid(s) \in Seq(Points) /\ KeptOf(Valid(s), s)
    BY ValidIs
  <1>2. Recent(Valid(s)) \in Seq(Points) /\ KeptOf(Recent(Valid(s)), Valid(s))
    BY <1>1, RecentIs
  <1>3. Filtered(s) \in Seq(Points) /\ KeptOf(Filtered(s), Recent(Valid(s)))
    BY <1>2, FilterLoop DEF Filtered
  <1>4. Points \subseteq Rows
    BY DEF Points, Rows
  <1>5. Valid(s) \in Seq(Rows) /\ Recent(Valid(s)) \in Seq(Rows) /\ Filtered(s) \in Seq(Rows)
    BY <1>1, <1>2, <1>3, <1>4
  <1> QED
    BY <1>1, <1>2, <1>3, <1>5, KeptTransitive

(* Groups and chunks have at least one point.                              *)
NonEmpty == Seq(Points) \ {<<>>}
(* The groups are of the first n points.                                   *)
GroupsFrom(gs, s, n) == \A m \in 1 .. Len(gs) : \A i \in 1 .. Len(gs[m]) :
                            \E j \in 1 .. n : gs[m][i] = s[j]
(* a and b follow each other in c.                                         *)
HasPair(c, a, b) == \E i \in 1 .. Len(c) - 1 : c[i] = a /\ c[i + 1] = b
(* Points without a gap between them are together in a group.              *)
GroupsJoin(gs, s, n) == \A k \in 1 .. n - 1 : s[k + 1].time - s[k].time <= Gap =>
                            \E m \in 1 .. Len(gs) : HasPair(gs[m], s[k], s[k + 1])
(* All of g is at or before the time, or at or after it.                   *)
Before(g, time) == \A i \in 1 .. Len(g) : g[i].time <= time
After(g, time) == \A i \in 1 .. Len(g) : g[i].time >= time
(* A gap lies after or before each group, never inside one.                *)
GroupsPart(gs, s, n) == \A k \in 1 .. n - 1 : s[k + 1].time - s[k].time > Gap =>
                            \A m \in 1 .. Len(gs) : \/ Before(gs[m], s[k].time)
                                                    \/ After(gs[m], s[k + 1].time)
(* All of it, and the last group ends with the last point.                 *)
Grouped(gs, s, n) == /\ n = 0 => gs = <<>>
                     /\ n > 0 => gs # <<>> /\ Last(Last(gs)) = s[n]
                     /\ GroupsFrom(gs, s, n)
                     /\ GroupsJoin(gs, s, n)
                     /\ GroupsPart(gs, s, n)

(* A point without a gap before it goes on with the last group.            *)
LEMMA PlacedInSameGroup ==
    ASSUME NEW s \in Seq(Points), Ordered(s), NEW n \in Nat, n < Len(s),
           NEW gs \in Seq(NonEmpty), Grouped(gs, s, n),
           gs # <<>>, Joins(Last(gs), s[n + 1])
    PROVE  LET new == [gs EXCEPT ![Len(gs)] = Append(@, s[n + 1])]
           IN  new \in Seq(NonEmpty) /\ Grouped(new, s, n + 1)
  <1> DEFINE x == s[n + 1]
             last == gs[Len(gs)]
             more == Append(last, x)
             new == [gs EXCEPT ![Len(gs)] = Append(@, x)]
  <1>1. /\ Len(gs) \in Nat /\ Len(gs) > 0 /\ last \in Seq(Points) /\ last # <<>>
        /\ Len(last) \in Nat /\ Len(last) > 0 /\ n # 0 /\ n + 1 \in 1 .. Len(s) /\ n \in 1 .. Len(s)
        /\ x \in Points /\ x = s[n + 1] /\ last = gs[Len(gs)]
        /\ \A k \in 1 .. Len(s) : s[k].time \in Nat
    <2>1. \A k \in 1 .. Len(s) : s[k] \in Points
      OBVIOUS
    <2>2. \A k \in 1 .. Len(s) : s[k].time \in Nat
      BY <2>1 DEF Points
    <2>3. Len(gs) \in Nat /\ Len(gs) > 0 /\ last \in NonEmpty
      OBVIOUS
    <2>4. last \in Seq(Points) /\ last # <<>> /\ Len(last) \in Nat /\ Len(last) > 0
      BY <2>3 DEF NonEmpty
    <2>5. n # 0
      BY DEF Grouped
    <2>6. n + 1 \in 1 .. Len(s) /\ n \in 1 .. Len(s)
      BY <2>5
    <2> QED
      BY <2>1, <2>2, <2>3, <2>4, <2>5, <2>6
  <1>2. last[Len(last)] = s[n] /\ x.time - s[n].time <= Gap
    BY <1>1 DEF Grouped, Joins, Last
  <1>3. /\ more \in Seq(Points) /\ Len(more) = Len(last) + 1 /\ more[Len(last) + 1] = x
        /\ \A i \in 1 .. Len(last) : more[i] = last[i]
    BY <1>1
  <1>4. /\ Len(new) = Len(gs) /\ new[Len(gs)] = more
        /\ \A m \in 1 .. Len(gs) : m # Len(gs) => new[m] = gs[m]
    BY <1>1
  <1>5. new \in Seq(NonEmpty)
    <2>1. more \in NonEmpty
      <3> HIDE DEF more, last, x
      <3>1. more # <<>>
        BY <1>1, <1>3
      <3> QED
        BY <1>3, <3>1 DEF NonEmpty
    <2> QED
      BY <1>1, <2>1
  <1> HIDE DEF new, more, last, x
  <1>6. Last(Last(new)) = x
    BY <1>3, <1>4 DEF Last
  <1>7. GroupsFrom(new, s, n + 1)
    <2> SUFFICES ASSUME NEW m \in 1 .. Len(gs), NEW i \in 1 .. Len(new[m])
                 PROVE  \E j \in 1 .. n + 1 : new[m][i] = s[j]
      BY <1>4 DEF GroupsFrom
    <2>1. CASE m # Len(gs)
      BY <1>4, <2>1 DEF Grouped, GroupsFrom
    <2>2. CASE m = Len(gs) /\ i # Len(last) + 1
      <3>1. i \in 1 .. Len(last) /\ new[m][i] = last[i]
        BY <1>1, <1>3, <1>4, <2>2
      <3> QED
        BY <1>1, <3>1, SMTT(30) DEF Grouped, GroupsFrom
    <2>3. CASE m = Len(gs) /\ i = Len(last) + 1
      BY <1>1, <1>3, <1>4, <2>3
    <2> QED
      BY <2>1, <2>2, <2>3
  <1>8. GroupsJoin(new, s, n + 1)
    <2> SUFFICES ASSUME NEW k \in 1 .. n, s[k + 1].time - s[k].time <= Gap
                 PROVE  \E m \in 1 .. Len(gs) : HasPair(new[m], s[k], s[k + 1])
      BY <1>1, <1>4, <1>5 DEF GroupsJoin
    <2>1. CASE k = n
      <3>1. Len(last) \in 1 .. Len(last) /\ Len(last) \in 1 .. Len(more) - 1
        BY <1>1, <1>3
      <3>2. more[Len(last)] = s[n] /\ more[Len(last) + 1] = x
        BY <1>2, <1>3, <3>1
      <3>3. HasPair(more, s[n], x)
        BY <3>1, <3>2 DEF HasPair
      <3>4. HasPair(new[Len(gs)], s[k], s[k + 1]) /\ Len(gs) \in 1 .. Len(gs)
        BY <1>1, <1>4, <2>1, <3>3
      <3> QED
        BY <3>4
    <2>2. CASE k # n
      <3>1. k \in 1 .. n - 1
        BY <1>1, <2>2
      <3>2. PICK m \in 1 .. Len(gs) : HasPair(gs[m], s[k], s[k + 1])
        BY <3>1 DEF Grouped, GroupsJoin
      <3>3. CASE m # Len(gs)
        BY <1>4, <3>2, <3>3
      <3>4. CASE m = Len(gs)
        <4>1. PICK i \in 1 .. Len(last) - 1 : last[i] = s[k] /\ last[i + 1] = s[k + 1]
          BY <1>1, <3>2, <3>4 DEF HasPair
        <4>2. i \in 1 .. Len(more) - 1 /\ more[i] = s[k] /\ more[i + 1] = s[k + 1]
          BY <1>1, <1>3, <4>1, SMTT(30)
        <4>3. HasPair(more, s[k], s[k + 1])
          BY <4>2 DEF HasPair
        <4> QED
          BY <1>4, <3>4, <4>3
      <3> QED
        BY <3>3, <3>4
    <2> QED
      BY <2>1, <2>2
  <1>9. GroupsPart(new, s, n + 1)
    <2> SUFFICES ASSUME NEW k \in 1 .. n, s[k + 1].time - s[k].time > Gap, NEW m \in 1 .. Len(gs)
                 PROVE  Before(new[m], s[k].time) \/ After(new[m], s[k + 1].time)
      BY <1>1, <1>4, <1>5 DEF GroupsPart
    <2>1. k # n /\ k \in 1 .. n - 1 /\ k \in 1 .. Len(s) /\ k + 1 \in 1 .. Len(s) /\ k + 1 <= n
      <3>1. s[n].time \in Nat /\ x.time \in Nat
        BY <1>1 DEF Points
      <3>2. k # n
        BY <1>1, <1>2, <3>1, TimesAssumption
      <3> QED
        BY <1>1, <3>2
    <2>2. Before(gs[m], s[k].time) \/ After(gs[m], s[k + 1].time)
      BY <2>1 DEF Grouped, GroupsPart
    <2>3. CASE m # Len(gs)
      BY <1>4, <2>2, <2>3
    <2>4. CASE m = Len(gs)
      <3>1. s[k].time \in Nat /\ s[k + 1].time \in Nat /\ x.time \in Nat
        BY <1>1, <2>1 DEF Points
      <3>2. s[k + 1].time <= s[n].time /\ s[k + 1].time <= x.time
        <4>1. k + 1 <= n + 1
          BY <1>1, <2>1
        <4> QED
          BY <1>1, <2>1, <4>1 DEF Ordered
      <3>3. ~Before(last, s[k].time)
        <4> SUFFICES ASSUME Before(last, s[k].time) PROVE FALSE
          OBVIOUS
        <4>1. s[n].time <= s[k].time
          BY <1>1, <1>2, SMTT(30) DEF Before
        <4>2. s[n].time \in Nat
          BY <1>1 DEF Points
        <4>3. s[k + 1].time <= s[k].time
          BY <3>1, <3>2, <4>1, <4>2, SMTT(30)
        <4> HIDE DEF x
        <4> QED
          BY <3>1, <4>3, TimesAssumption, SMTT(30)
      <3>4. After(last, s[k + 1].time)
        BY <1>1, <2>2, <2>4, <3>3
      <3>5. ASSUME NEW i \in 1 .. Len(more) PROVE more[i].time >= s[k + 1].time
        <4>1. CASE i = Len(last) + 1
          BY <1>3, <3>1, <3>2, <4>1
        <4>2. CASE i # Len(last) + 1
          <5>1. i \in 1 .. Len(last)
            BY <1>1, <1>3, <4>2
          <5> QED
            BY <1>3, <3>4, <5>1 DEF After
        <4> QED
          BY <4>1, <4>2
      <3> QED
        BY <1>4, <2>4, <3>5 DEF After
    <2> QED
      BY <2>3, <2>4
  <1>10. Grouped(new, s, n + 1)
    BY <1>1, <1>4, <1>6, <1>7, <1>8, <1>9 DEF Grouped
  <1> QED
    BY <1>5, <1>10 DEF new, x

(* A point after a gap begins a group.                                     *)
LEMMA PlacedInNewGroup ==
    ASSUME NEW s \in Seq(Points), Ordered(s), NEW n \in Nat, n < Len(s),
           NEW gs \in Seq(NonEmpty), Grouped(gs, s, n),
           gs = <<>> \/ ~Joins(Last(gs), s[n + 1])
    PROVE  LET new == Append(gs, <<s[n + 1]>>)
           IN  new \in Seq(NonEmpty) /\ Grouped(new, s, n + 1)
  <1> DEFINE x == s[n + 1]
             one == <<x>>
             new == Append(gs, one)
  <1>1. /\ Len(gs) \in Nat /\ n + 1 \in 1 .. Len(s) /\ x \in Points /\ x = s[n + 1]
        /\ \A k \in 1 .. Len(s) : s[k].time \in Nat
    <2>1. \A k \in 1 .. Len(s) : s[k] \in Points
      OBVIOUS
    <2>2. \A k \in 1 .. Len(s) : s[k].time \in Nat
      BY <2>1 DEF Points
    <2> QED
      BY <2>1, <2>2
  <1>2. Len(one) = 1 /\ one[1] = x /\ one \in NonEmpty
    BY <1>1 DEF NonEmpty
  <1>3. /\ Len(new) = Len(gs) + 1 /\ new[Len(gs) + 1] = one /\ new \in Seq(NonEmpty)
        /\ \A m \in 1 .. Len(gs) : new[m] = gs[m]
    BY <1>2
  <1> HIDE DEF new, one, x
  <1>4. Last(Last(new)) = x /\ new # <<>>
    <2>1. Last(new) = one
      BY <1>3 DEF Last
    <2>2. new # <<>>
      <3> SUFFICES ASSUME new = <<>> PROVE FALSE
        OBVIOUS
      <3>1. Len(new) = 0
        OBVIOUS
      <3> QED
        BY <1>1, <1>3, <3>1
    <2>3. Last(one) = x
      BY <1>2 DEF Last
    <2> QED
      BY <2>1, <2>2, <2>3
  <1>5. GroupsFrom(new, s, n + 1)
    <2> SUFFICES ASSUME NEW m \in 1 .. Len(gs) + 1, NEW i \in 1 .. Len(new[m])
                 PROVE  \E j \in 1 .. n + 1 : new[m][i] = s[j]
      BY <1>3 DEF GroupsFrom
    <2>1. CASE m \in 1 .. Len(gs)
      BY <1>3, <2>1 DEF Grouped, GroupsFrom
    <2>2. CASE m = Len(gs) + 1
      <3>1. i = 1 /\ new[m][i] = x
        BY <1>2, <1>3, <2>2
      <3>2. n + 1 \in 1 .. n + 1
        OBVIOUS
      <3> QED
        BY <1>1, <3>1, <3>2
    <2> QED
      BY <1>1, <2>1, <2>2
  <1>6. n > 0 => x.time - s[n].time > Gap
    <2> SUFFICES ASSUME n > 0 PROVE x.time - s[n].time > Gap
      OBVIOUS
    <2>1. gs # <<>> /\ Last(Last(gs)) = s[n]
      BY DEF Grouped
    <2>2. ~(x.time - s[n].time <= Gap)
      BY <1>1, <2>1 DEF Joins
    <2>3. n \in 1 .. Len(s) /\ s[n].time \in Nat /\ x.time \in Nat
      BY <1>1
    <2> QED
      BY <2>2, <2>3, TimesAssumption
  <1>7. GroupsJoin(new, s, n + 1)
    <2> SUFFICES ASSUME NEW k \in 1 .. n, s[k + 1].time - s[k].time <= Gap
                 PROVE  \E m \in 1 .. Len(gs) + 1 : HasPair(new[m], s[k], s[k + 1])
      BY <1>1, <1>3 DEF GroupsJoin
    <2>1. k # n
      <3> SUFFICES ASSUME k = n PROVE FALSE
        OBVIOUS
      <3>1. x.time - s[n].time > Gap /\ x.time - s[n].time <= Gap
        BY <1>1, <1>6
      <3>2. n \in 1 .. Len(s) /\ s[n].time \in Nat /\ x.time \in Nat
        BY <1>1
      <3> QED
        BY <3>1, <3>2, TimesAssumption
    <2>2. k \in 1 .. n - 1
      BY <2>1
    <2>3. PICK m \in 1 .. Len(gs) : HasPair(gs[m], s[k], s[k + 1])
      BY <2>2 DEF Grouped, GroupsJoin
    <2> QED
      BY <1>1, <1>3, <2>3
  <1>8. GroupsPart(new, s, n + 1)
    <2> SUFFICES ASSUME NEW k \in 1 .. n, s[k + 1].time - s[k].time > Gap,
                        NEW m \in 1 .. Len(gs) + 1
                 PROVE  Before(new[m], s[k].time) \/ After(new[m], s[k + 1].time)
      BY <1>1, <1>3 DEF GroupsPart
    <2>1. k \in 1 .. Len(s) /\ k + 1 \in 1 .. Len(s) /\ k <= n /\ k + 1 <= n + 1
      BY <1>1
    <2>2. CASE m = Len(gs) + 1
      <3>1. s[k + 1].time <= x.time
        BY <1>1, <2>1 DEF Ordered
      <3>2. x.time >= s[k + 1].time
        BY <1>1, <2>1, <3>1
      <3> QED
        BY <1>2, <1>3, <2>2, <3>2 DEF After
    <2>3. CASE m \in 1 .. Len(gs) /\ k # n
      <3>1. k \in 1 .. n - 1
        BY <2>3
      <3> QED
        BY <1>3, <2>3, <3>1 DEF Grouped, GroupsPart
    <2>4. CASE m \in 1 .. Len(gs) /\ k = n
      <3>1. ASSUME NEW i \in 1 .. Len(gs[m]) PROVE gs[m][i].time <= s[n].time
        <4>1. PICK j \in 1 .. n : gs[m][i] = s[j]
          BY <2>4 DEF Grouped, GroupsFrom
        <4>2. j \in 1 .. Len(s) /\ n \in 1 .. Len(s) /\ j <= n
          BY <1>1, <2>4
        <4> QED
          BY <4>1, <4>2 DEF Ordered
      <3> QED
        BY <1>3, <2>4, <3>1 DEF Before
    <2> QED
      BY <1>1, <2>2, <2>3, <2>4
  <1>9. Grouped(new, s, n + 1)
    BY <1>1, <1>4, <1>5, <1>7, <1>8 DEF Grouped
  <1> QED
    BY <1>3, <1>9 DEF new, one, x

(* Each round of the loop of splitTrace groups one more point.             *)
LEMMA PlacedGroups ==
    ASSUME NEW s \in Seq(Points), Ordered(s), NEW n \in Nat, n < Len(s),
           NEW gs \in Seq(NonEmpty), Grouped(gs, s, n)
    PROVE  Grouped(Placed(gs, s[n + 1]), s, n + 1)
  BY PlacedInSameGroup, PlacedInNewGroup DEF Placed

(* splitTrace.                                                             *)
LEMMA GroupsIs ==
    ASSUME NEW s \in Seq(Points), Ordered(s)
    PROVE  Groups(s) \in Seq(NonEmpty) /\ Grouped(Groups(s), s, Len(s))
  <1> DEFINE N == Len(s)
             V == Seq(NonEmpty)
             Body(g) == [i \in 0 .. N |-> IF i = 0 THEN <<>> ELSE Placed(g[i - 1], s[i])]
             step == [p \in (1 .. N) \X V |-> Placed(p[2], s[p[1]])]
             out == CHOOSE g : g = Body(g)
  <1>1. N \in Nat /\ <<>> \in V
    OBVIOUS
  <1>2. ASSUME NEW i \in 1 .. N, NEW v \in V
        PROVE  Placed(v, s[i]) \in V
    <2>1. s[i] \in Points
      OBVIOUS
    <2>2. <<s[i]>> \in NonEmpty
      BY <2>1 DEF NonEmpty
    <2>3. CASE v # <<>>
      <3>1. Len(v) \in 1 .. Len(v) /\ v[Len(v)] \in NonEmpty
        BY <2>3
      <3>2. Append(v[Len(v)], s[i]) \in NonEmpty
        <4>1. v[Len(v)] \in Seq(Points)
          BY <3>1 DEF NonEmpty
        <4>2. /\ Append(v[Len(v)], s[i]) \in Seq(Points)
              /\ Append(v[Len(v)], s[i]) # <<>>
          BY <2>1, <4>1
        <4> QED
          BY <4>2 DEF NonEmpty
      <3>3. [v EXCEPT ![Len(v)] = Append(@, s[i])] \in V
        BY <3>1, <3>2
      <3>4. Append(v, <<s[i]>>) \in V
        BY <2>2
      <3> HIDE DEF V
      <3> QED
        BY <3>3, <3>4 DEF Placed
    <2>4. CASE v = <<>>
      BY <2>2, <2>4 DEF Placed
    <2> QED
      BY <2>3, <2>4
  <1>3. step \in Steps(N, V)
    <2> HIDE DEF V, N
    <2> QED
      BY <1>2 DEF Steps
  <1>4. PICK f \in [0 .. N -> V] : Follows(f, N, <<>>, step)
    <2> HIDE DEF step, N, V
    <2> QED
      BY <1>1, <1>3, RecursionExists
  <1>5. f = Body(f)
    <2>1. ASSUME NEW i \in 1 .. N PROVE f[i] = Placed(f[i - 1], s[i])
      <3>1. i - 1 \in 0 .. N
        BY <1>1
      <3>2. <<i, f[i - 1]>> \in (1 .. N) \X V
        BY <3>1
      <3> HIDE DEF V
      <3> QED
        BY <1>4, <3>2 DEF Follows
    <2>2. f[0] = <<>>
      BY <1>4 DEF Follows
    <2> HIDE DEF V, N
    <2> QED
      BY <2>1, <2>2
  <1>6. out = Body(out)
    <2> HIDE DEF Body
    <2> QED
      BY <1>5
  <1>7. Groups(s) = out[N]
    BY DEF Groups, Loop
  <1> HIDE DEF out
  <1>8. out[0] = <<>> /\ out = [i \in 0 .. N |-> out[i]]
    BY <1>1, <1>6
  <1>9. ASSUME NEW i \in 1 .. N PROVE out[i] = Placed(out[i - 1], s[i])
    <2>1. i \in 0 .. N /\ i # 0
      BY <1>1
    <2> HIDE DEF N
    <2> QED
      BY <1>6, <2>1
  <1>10. out \in [0 .. N -> V]
    <2>1. out[0] \in V
      BY <1>1, <1>8
    <2>2. ASSUME NEW i \in 1 .. N, out[i - 1] \in V PROVE out[i] \in V
      BY <1>2, <1>9, <2>2
    <2> HIDE DEF N, V
    <2> QED
      BY <1>1, <1>8, <2>1, <2>2, RecursionTyped
  <1> DEFINE K == {n \in 0 .. N : Grouped(out[n], s, n)}
  <1>11. 0 \in K
    BY <1>1, <1>8 DEF Grouped, GroupsFrom, GroupsJoin, GroupsPart
  <1>12. ASSUME NEW n \in K, n < N PROVE n + 1 \in K
    <2>1. n \in Nat /\ n + 1 \in 1 .. N /\ (n + 1) - 1 = n /\ n \in 0 .. N /\ Grouped(out[n], s, n)
      BY <1>1, <1>12
    <2>2. out[n + 1] = Placed(out[n], s[n + 1]) /\ out[n] \in V
      BY <1>9, <1>10, <2>1
    <2>3. Grouped(out[n + 1], s, n + 1)
      BY <1>12, <2>1, <2>2, PlacedGroups
    <2> QED
      BY <1>1, <2>1, <2>3
  <1>13. N \in K
    <2> HIDE DEF K, N
    <2>1. K \in SUBSET (0 .. N)
      BY DEF K
    <2>2. K = 0 .. N
      BY <1>1, <1>11, <1>12, <2>1, FiniteInduction
    <2> QED
      BY <1>1, <2>2
  <1>14. out[N] \in V
    BY <1>1, <1>10
  <1> QED
    BY <1>7, <1>13, <1>14

(* What is kept of a sequence is what is in the set.                       *)
Selects(u, s, S) == /\ \A k \in 1 .. Len(u) : \E j \in 1 .. Len(s) : u[k] = s[j]
                    /\ \A j \in 1 .. Len(s) : s[j] \in S => \E k \in 1 .. Len(u) : u[k] = s[j]

(* Only(s, S) has the elements of s that are in S, and no others.          *)
LEMMA OnlyIs ==
    ASSUME NEW T, NEW s \in Seq(T), NEW S
    PROVE  Only(s, S) \in Seq(T \cap S) /\ Selects(Only(s, S), s, S)
  <1> DEFINE N == Len(s)
  <1>1. PICK out \in [0 .. Len(s) -> Seq(T \cap S)] : Keeps(out, s, S) /\ Only(s, S) = out[Len(s)]
    BY OnlyLoop
  <1> DEFINE Both(n) == /\ \A k \in 1 .. Len(out[n]) : \E j \in 1 .. n : out[n][k] = s[j]
                        /\ \A j \in 1 .. n : s[j] \in S => \E k \in 1 .. Len(out[n]) : out[n][k] = s[j]
             K == {n \in 0 .. N : Both(n)}
  <1>2. N \in Nat
    OBVIOUS
  <1>3. 0 \in K
    BY <1>1, <1>2 DEF Keeps
  <1>4. ASSUME NEW n \in K, n < N PROVE n + 1 \in K
    <2> DEFINE v == out[n]
               w == out[n + 1]
               x == s[n + 1]
    <2>1. /\ n \in Nat /\ n + 1 \in 1 .. N /\ (n + 1) - 1 = n /\ n + 1 \in 0 .. N /\ n \in 0 .. N
          /\ Both(n) /\ v \in Seq(T \cap S) /\ x \in T
      <3>1. n \in 0 .. N /\ Both(n)
        BY <1>4
      <3>2. /\ n \in Nat /\ n + 1 \in 1 .. N /\ (n + 1) - 1 = n /\ n + 1 \in 0 .. N
        BY <1>2, <1>4, <3>1
      <3>3. v \in Seq(T \cap S) /\ x \in T
        BY <1>1, <3>1, <3>2
      <3> QED
        BY <3>1, <3>2, <3>3
    <2>2. w = IF x \in S THEN Append(v, x) ELSE v
      BY <1>1, <2>1 DEF Keeps
    <2>3. \A j \in 1 .. n + 1 : j \in 1 .. n \/ j = n + 1
      BY <2>1
    <2>4. 1 .. n \subseteq 1 .. n + 1 /\ n + 1 \in 1 .. n + 1
      BY <2>1
    <2>5. CASE x \notin S
      <3>1. w = v
        BY <2>2, <2>5
      <3>2. Both(n + 1)
        BY <2>1, <2>3, <2>4, <2>5, <3>1
      <3> QED
        BY <2>1, <3>2
    <2>6. CASE x \in S
      <3>1. /\ Len(w) = Len(v) + 1 /\ w[Len(v) + 1] = x /\ Len(v) \in Nat
            /\ \A k \in 1 .. Len(v) : w[k] = v[k]
        BY <2>1, <2>2, <2>6
      <3>2. \A k \in 1 .. Len(w) : k \in 1 .. Len(v) \/ k = Len(v) + 1
        BY <3>1
      <3>3. 1 .. Len(v) \subseteq 1 .. Len(w) /\ Len(v) + 1 \in 1 .. Len(w)
        BY <3>1
      <3>4. ASSUME NEW k \in 1 .. Len(w) PROVE \E j \in 1 .. n + 1 : w[k] = s[j]
        <4>1. CASE k = Len(v) + 1
          BY <2>4, <3>1, <4>1
        <4>2. CASE k \in 1 .. Len(v)
          <5>1. PICK j \in 1 .. n : v[k] = s[j]
            BY <2>1, <4>2
          <5> QED
            BY <2>4, <3>1, <4>2, <5>1
        <4> QED
          BY <3>2, <4>1, <4>2
      <3>5. ASSUME NEW j \in 1 .. n + 1, s[j] \in S PROVE \E k \in 1 .. Len(w) : w[k] = s[j]
        <4>1. CASE j = n + 1
          BY <3>1, <3>3, <4>1
        <4>2. CASE j \in 1 .. n
          <5>1. PICK k \in 1 .. Len(v) : v[k] = s[j]
            BY <2>1, <3>5, <4>2
          <5> QED
            BY <3>1, <3>3, <5>1
        <4> QED
          BY <2>3, <4>1, <4>2
      <3>6. Both(n + 1)
        BY <3>4, <3>5
      <3> QED
        BY <2>1, <3>6
    <2> QED
      BY <2>5, <2>6
  <1>5. N \in K
    <2> HIDE DEF K, N
    <2>1. K \in SUBSET (0 .. N)
      BY DEF K
    <2>2. K = 0 .. N
      BY <1>2, <1>3, <1>4, <2>1, FiniteInduction
    <2> QED
      BY <1>2, <2>2
  <1>6. out[N] \in Seq(T \cap S)
    BY <1>1, <1>2
  <1> QED
    BY <1>1, <1>5, <1>6 DEF Selects

(* The quotient of two numbers, by its bounds.                             *)
LEMMA Division ==
    ASSUME NEW a \in Nat, NEW d \in Nat \ {0}
    PROVE  a \div d \in Nat /\ (a \div d) * d <= a /\ a < (a \div d) * d + d
  OBVIOUS

(* A smaller number has no greater quotient.                               *)
LEMMA DivisionIsMonotonic ==
    ASSUME NEW a \in Nat, NEW b \in Nat, a <= b, NEW d \in Nat \ {0}
    PROVE  a \div d <= b \div d
  BY Division

(* chunksWithOverlap: the chunks are of the points of the group, and two   *)
(* consecutive points are together in one.                                 *)
LEMMA ChunksIs ==
    ASSUME NEW g \in NonEmpty
    PROVE  /\ Chunks(g) \in Seq(NonEmpty)
           /\ \A k \in 1 .. Len(Chunks(g)) : \A i \in 1 .. Len(Chunks(g)[k]) :
                 \E j \in 1 .. Len(g) : Chunks(g)[k][i] = g[j]
           /\ \A a, b : HasPair(g, a, b) => \E k \in 1 .. Len(Chunks(g)) : HasPair(Chunks(g)[k], a, b)
  <1> DEFINE L == Len(g)
             A == Advance
             Q == (L - 1) \div A + 1
             From(k) == 1 + (k - 1) * A
             To(k) == IF From(k) + ChunkSize - 1 < L THEN From(k) + ChunkSize - 1 ELSE L
             all == [k \in 1 .. Q |-> SubSeq(g, From(k), To(k))]
             S == {c \in ToSet(all) : Len(c) >= 2}
  <1>1. /\ g \in Seq(Points) /\ g # <<>> /\ L \in Nat /\ L > 0
        /\ A \in Nat \ {0} /\ ChunkSize = A + 1
    BY SizesAssumption DEF NonEmpty, Advance
  <1>2. CASE L <= ChunkSize
    <2>1. Chunks(g) = <<g>>
      BY <1>2 DEF Chunks
    <2> QED
      BY <1>1, <2>1
  <1>3. CASE ~(L <= ChunkSize)
    <2>1. Chunks(g) = Only(all, S)
      BY <1>3 DEF Chunks
    <2>2. Q \in Nat /\ L - 1 \in Nat
      BY <1>1, Division
    <2>3. ASSUME NEW k \in 1 .. Q
          PROVE  /\ From(k) \in Nat /\ From(k) >= 1 /\ To(k) \in Nat /\ To(k) <= L
                 /\ To(k) <= From(k) + A
                 /\ From(k) + A <= L => To(k) = From(k) + A
                 /\ From(k) + A > L => To(k) = L
      <3>1. k - 1 \in Nat
        BY <2>2
      <3>2. (k - 1) * A \in Nat
        BY <1>1, <3>1
      <3>3. From(k) \in Nat /\ From(k) >= 1
        BY <3>2
      <3> HIDE DEF From, A, L
      <3> QED
        BY <1>1, <3>3
    <2> HIDE DEF From, To, A, Q, L
    <2>4. ASSUME NEW k \in 1 .. Q
          PROVE  all[k] \in Seq(Points) /\ \A i \in 1 .. Len(all[k]) :
                     From(k) - 1 + i \in 1 .. L /\ all[k][i] = g[From(k) - 1 + i]
      <3>1. all[k] = SubSeq(g, From(k), To(k))
        OBVIOUS
      <3>2. PICK a \in Nat, z \in Nat : a = From(k) /\ z = To(k)
        BY <2>3
      <3>3. a >= 1 /\ z <= Len(g)
        BY <2>3, <3>2 DEF L
      <3>4. /\ SubSeq(g, a, z) \in Seq(Points)
            /\ \A i \in 1 .. Len(SubSeq(g, a, z)) :
                  a - 1 + i \in 1 .. Len(g) /\ SubSeq(g, a, z)[i] = g[a - 1 + i]
        BY <1>1, <3>3, SMTT(30)
      <3> HIDE DEF all
      <3> QED
        BY <3>1, <3>2, <3>4 DEF L
    <2>5. all \in Seq(Seq(Points)) /\ Len(all) = Q
      <3>1. all = [k \in 1 .. Q |-> all[k]]
        OBVIOUS
      <3> HIDE DEF all
      <3>2. all \in [1 .. Q -> Seq(Points)]
        BY <2>4, <3>1, SMTT(30)
      <3> QED
        BY <2>2, <3>2, SMTT(30)
    <2>6. /\ Only(all, S) \in Seq(Seq(Points) \cap S)
          /\ \A n \in 1 .. Len(Only(all, S)) : \E k \in 1 .. Q : Only(all, S)[n] = all[k]
          /\ \A k \in 1 .. Q : all[k] \in S =>
                \E n \in 1 .. Len(Only(all, S)) : Only(all, S)[n] = all[k]
      <3> HIDE DEF all, S
      <3>1. Only(all, S) \in Seq(Seq(Points) \cap S) /\ Selects(Only(all, S), all, S)
        BY <2>5, OnlyIs
      <3> QED
        BY <2>5, <3>1 DEF Selects
    <2>7. Seq(Points) \cap S \subseteq NonEmpty
      BY DEF NonEmpty
    <2>8. ASSUME NEW a, NEW b, HasPair(g, a, b)
          PROVE  \E n \in 1 .. Len(Only(all, S)) : HasPair(Only(all, S)[n], a, b)
      <3>1. PICK i \in 1 .. L - 1 : g[i] = a /\ g[i + 1] = b
        BY <2>8 DEF HasPair, L
      <3> DEFINE k == (i - 1) \div A + 1
                 p == i - From(k) + 1
      <3>2. i - 1 \in Nat /\ i - 1 <= L - 1 /\ i \in Nat /\ i + 1 <= L
        BY <1>1, <3>1
      <3>3. k \in 1 .. Q
        BY <1>1, <2>2, <3>2, Division, DivisionIsMonotonic DEF Q
      <3>4. From(k) <= i /\ i < From(k) + A
        <4> DEFINE q == (i - 1) \div A
        <4>1. q \in Nat /\ q * A <= i - 1 /\ i - 1 < q * A + A
          BY <1>1, <3>2, Division
        <4> HIDE DEF q
        <4>2. From(q + 1) = 1 + q * A
          BY <1>1, <4>1 DEF From
        <4>3. q * A \in Nat
          BY <1>1, <4>1
        <4>4. From(q + 1) <= i /\ i < From(q + 1) + A
          BY <1>1, <3>2, <4>1, <4>2, <4>3
        <4> QED
          BY <4>4 DEF q
      <3> HIDE DEF k
      <3>5. From(k) \in Nat /\ To(k) \in Nat /\ i + 1 <= To(k) /\ To(k) <= L
        BY <1>1, <2>3, <3>2, <3>3, <3>4
      <3>6. all[k] = SubSeq(g, From(k), To(k))
        BY <3>3
      <3> HIDE DEF all
      <3>7. /\ Len(all[k]) = To(k) - From(k) + 1 /\ Len(all[k]) >= 2
            /\ p \in 1 .. Len(all[k]) - 1 /\ p + 1 \in 1 .. Len(all[k])
        <4>1. From(k) >= 1
          BY <2>3, <3>3
        <4>2. Len(all[k]) = To(k) - From(k) + 1
          BY <1>1, <3>2, <3>4, <3>5, <3>6, <4>1 DEF L
        <4> QED
          BY <3>2, <3>4, <3>5, <4>2, SMTT(30)
      <3>8. all[k][p] = a /\ all[k][p + 1] = b
        <4>1. From(k) - 1 + p = i /\ From(k) - 1 + (p + 1) = i + 1 /\ p \in 1 .. Len(all[k])
          BY <3>2, <3>5, <3>7, SMTT(30)
        <4>2. all[k][p] = g[From(k) - 1 + p] /\ all[k][p + 1] = g[From(k) - 1 + (p + 1)]
          BY <2>4, <3>3, <3>7, <4>1
        <4> QED
          BY <3>1, <4>1, <4>2
      <3>9. HasPair(all[k], a, b)
        BY <3>7, <3>8 DEF HasPair
      <3>10. all[k] \in S
        <4>1. k \in 1 .. Len(all)
          BY <2>5, <3>3
        <4>2. all[k] \in ToSet(all)
          BY <2>5, <4>1 DEF ToSet
        <4> QED
          BY <3>7, <4>2
      <3> QED
        BY <2>6, <3>3, <3>9, <3>10
    <2>9. ASSUME NEW n \in 1 .. Len(Only(all, S)), NEW i \in 1 .. Len(Only(all, S)[n])
          PROVE  \E j \in 1 .. Len(g) : Only(all, S)[n][i] = g[j]
      <3>1. PICK k \in 1 .. Q : Only(all, S)[n] = all[k]
        BY <2>6
      <3> HIDE DEF all, S
      <3> QED
        BY <2>4, <2>9, <3>1 DEF L
    <2> HIDE DEF all, S
    <2>10. Only(all, S) \in Seq(NonEmpty)
      BY <2>6, <2>7
    <2> QED
      BY <2>1, <2>8, <2>9, <2>10
  <1> QED
    BY <1>2, <1>3

(* The chunks of the first n groups.                                       *)
Includes(g, c) == \A i \in 1 .. Len(c) : \E j \in 1 .. Len(g) : c[i] = g[j]
(* The pairs that follow each other in g do so in some chunk.              *)
HasPairsOf(w, g) == \A a, b : HasPair(g, a, b) => \E k \in 1 .. Len(w) : HasPair(w[k], a, b)
(* Each chunk is of one of the groups, and no pair of a group is lost.     *)
Cut(w, gs, n) == /\ \A k \in 1 .. Len(w) : \E m \in 1 .. n : Includes(gs[m], w[k])
                 /\ \A m \in 1 .. n : HasPairsOf(w, gs[m])

(* The chunks of a track are those of its groups.                          *)
LEMMA WorkIs ==
    ASSUME NEW s \in Seq(Points), Groups(s) \in Seq(NonEmpty)
    PROVE  Work(s) \in Seq(NonEmpty) /\ Cut(Work(s), Groups(s), Len(Groups(s)))
  <1> DEFINE gs == Groups(s)
             N == Len(gs)
             V == Seq(NonEmpty)
             More(v, i) == v \o Chunks(gs[i])
             Body(g) == [i \in 0 .. N |-> IF i = 0 THEN <<>> ELSE More(g[i - 1], i)]
             step == [p \in (1 .. N) \X V |-> p[2] \o Chunks(gs[p[1]])]
             out == CHOOSE g : g = Body(g)
  <1>1. N \in Nat /\ <<>> \in V
    OBVIOUS
  <1>2. ASSUME NEW i \in 1 .. N
        PROVE  /\ gs[i] \in NonEmpty /\ Chunks(gs[i]) \in V
               /\ \A k \in 1 .. Len(Chunks(gs[i])) : Includes(gs[i], Chunks(gs[i])[k])
               /\ HasPairsOf(Chunks(gs[i]), gs[i])
    <2>1. gs[i] \in NonEmpty
      OBVIOUS
    <2> HIDE DEF gs
    <2> QED
      BY <2>1, ChunksIs DEF Includes, HasPairsOf
  <1>3. step \in Steps(N, V)
    <2>1. ASSUME NEW i \in 1 .. N, NEW v \in V PROVE v \o Chunks(gs[i]) \in V
      BY <1>2
    <2> HIDE DEF V, N
    <2> QED
      BY <2>1 DEF Steps
  <1>4. PICK f \in [0 .. N -> V] : Follows(f, N, <<>>, step)
    <2> HIDE DEF step, N, V
    <2> QED
      BY <1>1, <1>3, RecursionExists
  <1>5. f = Body(f)
    <2>1. ASSUME NEW i \in 1 .. N PROVE f[i] = f[i - 1] \o Chunks(gs[i])
      <3>1. i - 1 \in 0 .. N
        BY <1>1
      <3>2. <<i, f[i - 1]>> \in (1 .. N) \X V
        BY <3>1
      <3> HIDE DEF V
      <3> QED
        BY <1>4, <3>2 DEF Follows
    <2>2. f[0] = <<>>
      BY <1>4 DEF Follows
    <2>3. \A i \in 1 .. N : f[i] = More(f[i - 1], i)
      BY <2>1
    <2> HIDE DEF V, N, gs, More
    <2> QED
      BY <2>2, <2>3
  <1>6. out = Body(out)
    <2> HIDE DEF Body
    <2> QED
      BY <1>5
  <1>7. Work(s) = out[N]
    BY DEF Work, Loop
  <1> HIDE DEF out
  <1>8. out[0] = <<>> /\ out = [i \in 0 .. N |-> out[i]]
    BY <1>1, <1>6
  <1>9. ASSUME NEW i \in 1 .. N PROVE out[i] = out[i - 1] \o Chunks(gs[i])
    <2>1. i \in 0 .. N /\ i # 0
      BY <1>1
    <2> HIDE DEF N
    <2> QED
      BY <1>6, <2>1
  <1>10. out \in [0 .. N -> V]
    <2>1. out[0] \in V
      BY <1>1, <1>8
    <2>2. ASSUME NEW i \in 1 .. N, out[i - 1] \in V PROVE out[i] \in V
      <3>1. out[i] = out[i - 1] \o Chunks(gs[i]) /\ Chunks(gs[i]) \in V
        BY <1>2, <1>9
      <3> HIDE DEF gs, N
      <3> QED
        BY <2>2, <3>1
    <2> HIDE DEF N, V
    <2> QED
      BY <1>1, <1>8, <2>1, <2>2, RecursionTyped
  <1> DEFINE K == {n \in 0 .. N : Cut(out[n], gs, n)}
  <1>11. 0 \in K
    BY <1>1, <1>8 DEF Cut
  <1> HIDE DEF gs
  <1>12. ASSUME NEW n \in K, n < N PROVE n + 1 \in K
    <2> DEFINE v == out[n]
               c == Chunks(gs[n + 1])
               w == out[n + 1]
    <2>1. n \in Nat /\ n + 1 \in 1 .. N /\ (n + 1) - 1 = n /\ n \in 0 .. N /\ Cut(v, gs, n)
      BY <1>1, <1>12
    <2>2. w = v \o c /\ v \in V /\ c \in V
      BY <1>2, <1>9, <1>10, <2>1
    <2>3. /\ \A k \in 1 .. Len(c) : Includes(gs[n + 1], c[k])
          /\ HasPairsOf(c, gs[n + 1])
      BY <1>2, <2>1
    <2> HIDE DEF c, v, w
    <2>4. /\ Len(v) \in Nat /\ Len(c) \in Nat /\ Len(w) = Len(v) + Len(c)
          /\ \A k \in 1 .. Len(v) : w[k] = v[k]
          /\ \A k \in 1 .. Len(c) : w[Len(v) + k] = c[k]
      BY <2>2
    <2>5. ASSUME NEW k \in 1 .. Len(w) PROVE \E m \in 1 .. n + 1 : Includes(gs[m], w[k])
      <3>1. CASE k <= Len(v)
        <4>1. k \in 1 .. Len(v)
          BY <2>4, <3>1
        <4>2. PICK m \in 1 .. n : Includes(gs[m], v[k])
          BY <2>1, <4>1 DEF Cut
        <4> QED
          BY <2>1, <2>4, <4>1, <4>2
      <3>2. CASE k > Len(v)
        <4>1. k - Len(v) \in 1 .. Len(c) /\ Len(v) + (k - Len(v)) = k
          BY <2>4, <3>2
        <4>2. w[k] = c[k - Len(v)]
          BY <2>4, <4>1
        <4> QED
          BY <2>1, <2>3, <4>1, <4>2
      <3> QED
        BY <2>4, <3>1, <3>2
    <2>6. ASSUME NEW m \in 1 .. n + 1, NEW a, NEW b, HasPair(gs[m], a, b)
          PROVE  \E k \in 1 .. Len(w) : HasPair(w[k], a, b)
      <3>1. CASE m = n + 1
        <4>1. PICK k \in 1 .. Len(c) : HasPair(c[k], a, b)
          BY <2>3, <2>6, <3>1 DEF HasPairsOf
        <4>2. Len(v) + k \in 1 .. Len(w) /\ w[Len(v) + k] = c[k]
          BY <2>4
        <4> QED
          BY <4>1, <4>2
      <3>2. CASE m # n + 1
        <4>1. m \in 1 .. n
          BY <2>1, <3>2
        <4>2. PICK k \in 1 .. Len(v) : HasPair(v[k], a, b)
          BY <2>1, <2>6, <4>1 DEF Cut, HasPairsOf
        <4>3. w[k] = v[k]
          BY <2>4, <4>2
        <4>4. k \in 1 .. Len(w)
          BY <2>4, <4>2
        <4> QED
          BY <4>2, <4>3, <4>4
      <3> QED
        BY <3>1, <3>2
    <2>7. Cut(w, gs, n + 1)
      BY <2>5, <2>6 DEF Cut, HasPairsOf
    <2> QED
      BY <1>1, <2>1, <2>7 DEF w
  <1>13. N \in K
    <2> HIDE DEF K, N
    <2>1. K \in SUBSET (0 .. N)
      BY DEF K
    <2>2. K = 0 .. N
      BY <1>1, <1>11, <1>12, <2>1, FiniteInduction
    <2> QED
      BY <1>1, <2>2
  <1>14. out[N] \in V
    BY <1>1, <1>10
  <1> QED
    BY <1>7, <1>13, <1>14 DEF gs

(* Two consecutive points are together in a chunk exactly when there is no *)
(* gap between them.                                                       *)
LEMMA WorkJoins ==
    ASSUME NEW s \in Seq(Points), Ordered(s)
    PROVE  /\ Work(s) \in Seq(NonEmpty)
           /\ \A n \in 1 .. Len(Work(s)) : Includes(s, Work(s)[n])
           /\ \A k \in 1 .. Len(s) - 1 :
                 s[k + 1].time - s[k].time <= Gap
                 <=> \E n \in 1 .. Len(Work(s)) : {s[k], s[k + 1]} \subseteq ToSet(Work(s)[n])
  <1> DEFINE gs == Groups(s)
             w == Work(s)
  <1>1. /\ gs \in Seq(NonEmpty) /\ Grouped(gs, s, Len(s)) /\ Len(gs) \in Nat
        /\ w \in Seq(NonEmpty) /\ Cut(w, gs, Len(gs)) /\ Len(s) \in Nat
    BY GroupsIs, WorkIs
  <1> HIDE DEF gs, w
  <1>2. ASSUME NEW n \in 1 .. Len(w) PROVE Includes(s, w[n])
    <2>1. PICK m \in 1 .. Len(gs) : Includes(gs[m], w[n])
      BY <1>1 DEF Cut
    <2>2. Includes(s, gs[m])
      BY <1>1 DEF Grouped, GroupsFrom, Includes
    <2> QED
      BY <2>1, <2>2 DEF Includes
  <1>3. ASSUME NEW k \in 1 .. Len(s) - 1, s[k + 1].time - s[k].time <= Gap
        PROVE  \E n \in 1 .. Len(w) : {s[k], s[k + 1]} \subseteq ToSet(w[n])
    <2>1. PICK m \in 1 .. Len(gs) : HasPair(gs[m], s[k], s[k + 1])
      BY <1>1, <1>3 DEF Grouped, GroupsJoin
    <2>2. PICK n \in 1 .. Len(w) : HasPair(w[n], s[k], s[k + 1])
      BY <1>1, <2>1 DEF Cut, HasPairsOf
    <2>3. w[n] \in Seq(Points)
      BY <1>1 DEF NonEmpty
    <2>4. PICK i \in 1 .. Len(w[n]) - 1 : w[n][i] = s[k] /\ w[n][i + 1] = s[k + 1]
      BY <2>2 DEF HasPair
    <2>5. i \in 1 .. Len(w[n]) /\ i + 1 \in 1 .. Len(w[n])
      BY <2>3
    <2>6. s[k] \in ToSet(w[n]) /\ s[k + 1] \in ToSet(w[n])
      BY <2>3, <2>4, <2>5 DEF ToSet
    <2> QED
      BY <2>6
  <1>4. ASSUME NEW k \in 1 .. Len(s) - 1, NEW n \in 1 .. Len(w),
               {s[k], s[k + 1]} \subseteq ToSet(w[n])
        PROVE  s[k + 1].time - s[k].time <= Gap
    <2>1. PICK m \in 1 .. Len(gs) : Includes(gs[m], w[n])
      BY <1>1 DEF Cut
    <2>2. w[n] \in Seq(Points)
      BY <1>1 DEF NonEmpty
    <2>3. PICK i \in 1 .. Len(gs[m]) : gs[m][i] = s[k]
      <3>1. s[k] \in ToSet(w[n])
        BY <1>4
      <3>2. PICK l \in 1 .. Len(w[n]) : w[n][l] = s[k]
        BY <2>2, <3>1 DEF ToSet
      <3> QED
        BY <2>1, <3>2 DEF Includes
    <2>4. PICK j \in 1 .. Len(gs[m]) : gs[m][j] = s[k + 1]
      <3>1. s[k + 1] \in ToSet(w[n])
        BY <1>4
      <3>2. PICK l \in 1 .. Len(w[n]) : w[n][l] = s[k + 1]
        BY <2>2, <3>1 DEF ToSet
      <3> QED
        BY <2>1, <3>2 DEF Includes
    <2>5. PICK p \in Nat, q \in Nat : p = s[k].time /\ q = s[k + 1].time
      <3>1. k \in 1 .. Len(s) /\ k + 1 \in 1 .. Len(s)
        BY <1>1
      <3>2. s[k] \in Points /\ s[k + 1] \in Points
        BY <3>1
      <3> QED
        BY <3>2 DEF Points
    <2>6. q - p > Gap => Before(gs[m], p) \/ After(gs[m], q)
      BY <1>1, <2>5 DEF Grouped, GroupsPart
    <2>7. Before(gs[m], p) => q <= p
      BY <2>4, <2>5 DEF Before
    <2>8. After(gs[m], q) => p >= q
      BY <2>3, <2>5 DEF After
    <2>9. Gap \in Nat
      BY TimesAssumption
    <2>10. ~(q - p > Gap)
      BY <2>6, <2>7, <2>8, <2>9
    <2> QED
      BY <2>5, <2>9, <2>10, SMTT(30)
  <1> QED
    BY <1>1, <1>2, <1>3, <1>4 DEF w

(* A row near a filtered point that was found is found too.                *)
LEMMA Inherited ==
    ASSUME trace \in Seq(Rows), snapped \subseteq Points,
           NEW i \in 1 .. Len(trace), trace[i].place # NoFix,
           NEW p \in snapped, Near(trace[i], p),
           \E k \in 1 .. Len(Filtered(trace)) : Filtered(trace)[k] = p
    PROVE  trace[i] \in SnappedPoints
  <1> DEFINE N == Len(trace)
             V == SUBSET Rows
             Body(g) == [n \in 0 .. N |-> IF n = 0 THEN snapped ELSE Inherit(g[n - 1], trace[n])]
             step == [q \in (1 .. N) \X V |-> Inherit(q[2], trace[q[1]])]
             out == CHOOSE g : g = Body(g)
  <1>1. N \in Nat /\ snapped \in V
    BY DEF Points, Rows
  <1>2. ASSUME NEW n \in 1 .. N, NEW v \in V
        PROVE  Inherit(v, trace[n]) \in V /\ v \subseteq Inherit(v, trace[n])
    <2>1. trace[n] \in Rows
      OBVIOUS
    <2> QED
      BY <2>1 DEF Inherit
  <1>3. step \in Steps(N, V)
    <2> HIDE DEF V, N
    <2> QED
      BY <1>2 DEF Steps
  <1>4. PICK f \in [0 .. N -> V] : Follows(f, N, snapped, step)
    <2> HIDE DEF step, N, V
    <2> QED
      BY <1>1, <1>3, RecursionExists
  <1>5. f = Body(f)
    <2>1. ASSUME NEW n \in 1 .. N PROVE f[n] = Inherit(f[n - 1], trace[n])
      <3>1. n - 1 \in 0 .. N
        BY <1>1
      <3>2. <<n, f[n - 1]>> \in (1 .. N) \X V
        BY <3>1
      <3> HIDE DEF V
      <3> QED
        BY <1>4, <3>2 DEF Follows
    <2>2. f[0] = snapped
      BY <1>4 DEF Follows
    <2> HIDE DEF V, N
    <2> QED
      BY <2>1, <2>2
  <1>6. out = Body(out)
    <2> HIDE DEF Body
    <2> QED
      BY <1>5
  <1>7. SnappedPoints = out[N]
    BY DEF SnappedPoints, Loop
  <1> HIDE DEF out
  <1>8. out[0] = snapped /\ out = [n \in 0 .. N |-> out[n]]
    BY <1>1, <1>6
  <1>9. ASSUME NEW n \in 1 .. N PROVE out[n] = Inherit(out[n - 1], trace[n])
    <2>1. n \in 0 .. N /\ n # 0
      BY <1>1
    <2> HIDE DEF N
    <2> QED
      BY <1>6, <2>1
  <1>10. out \in [0 .. N -> V]
    <2>1. out[0] \in V
      BY <1>1, <1>8
    <2>2. ASSUME NEW n \in 1 .. N, out[n - 1] \in V PROVE out[n] \in V
      BY <1>2, <1>9, <2>2
    <2> HIDE DEF N, V
    <2> QED
      BY <1>1, <1>8, <2>1, <2>2, RecursionTyped
  <1> DEFINE K == {n \in 0 .. N : snapped \subseteq out[n] /\ (n >= i => trace[i] \in out[n])}
  <1>11. 0 \in K
    BY <1>1, <1>8
  <1>12. ASSUME NEW n \in K, n < N PROVE n + 1 \in K
    <2>1. /\ n \in Nat /\ n + 1 \in 1 .. N /\ (n + 1) - 1 = n /\ n \in 0 .. N /\ n + 1 \in 0 .. N
          /\ snapped \subseteq out[n] /\ (n >= i => trace[i] \in out[n])
      BY <1>1, <1>12
    <2>2. out[n + 1] = Inherit(out[n], trace[n + 1]) /\ out[n] \in V
      BY <1>9, <1>10, <2>1
    <2>3. out[n] \subseteq out[n + 1]
      BY <1>2, <2>1, <2>2
    <2>4. CASE n + 1 = i
      <3>1. p \in out[n]
        BY <2>1
      <3>2. trace[i] \in Inherit(out[n], trace[i])
        BY <3>1 DEF Inherit
      <3> QED
        BY <2>1, <2>2, <2>3, <2>4, <3>2
    <2>5. CASE n + 1 # i
      BY <2>1, <2>3, <2>5
    <2> QED
      BY <2>4, <2>5
  <1>13. N \in K
    <2> HIDE DEF K, N
    <2>1. K \in SUBSET (0 .. N)
      BY DEF K
    <2>2. K = 0 .. N
      BY <1>1, <1>11, <1>12, <2>1, FiniteInduction
    <2> QED
      BY <1>1, <2>2
  <1> QED
    BY <1>1, <1>7, <1>13

(***************************************************************************)
(* Movement.                                                               *)
(***************************************************************************)

(* The histories of Movement.                                              *)
Tracks == Seq(Int \cup {NoFix})

(* clusterStart follows its loop.                                          *)
Follow(t, i, before) == IF ~M!Usable(t[i]) THEN i + 1
                        ELSE IF M!Continues(t, before, i) THEN before ELSE i
(* start is the sequence of values of clusterStart.                        *)
Starts(t, start) ==
    /\ start \in [0 .. Len(t) -> Nat]
    /\ start[0] = 1
    /\ \A i \in 1 .. Len(t) : start[i] = Follow(t, i, start[i - 1])

(* ClusterStart is that sequence.                                          *)
LEMMA ClusterStartIs ==
    ASSUME NEW t \in Tracks
    PROVE  Starts(t, M!ClusterStart(t))
  <1> DEFINE N == Len(t)
             step == [p \in (1 .. N) \X Nat |-> Follow(t, p[1], p[2])]
             Body(g) == [i \in 0 .. N |-> IF i = 0 THEN 1
                           ELSE LET before == g[i - 1]
                                IN IF ~M!Usable(t[i]) THEN i + 1
                                   ELSE IF M!Continues(t, before, i) THEN before ELSE i]
  <1>1. N \in Nat
    BY DEF Tracks
  <1>2. step \in Steps(N, Nat)
    BY <1>1 DEF Steps, Follow
  <1>3. PICK f \in [0 .. N -> Nat] : Follows(f, N, 1, step)
    <2>1. 1 \in Nat
      OBVIOUS
    <2> HIDE DEF step, N
    <2> QED
      BY <1>1, <1>2, <2>1, RecursionExists
  <1>4. f = Body(f)
    <2>1. ASSUME NEW i \in 1 .. N PROVE f[i] = Follow(t, i, f[i - 1])
      <3>1. i - 1 \in 0 .. N
        BY <1>1
      <3>2. <<i, f[i - 1]>> \in (1 .. N) \X Nat
        BY <3>1
      <3> QED
        BY <1>3, <3>2 DEF Follows
    <2> QED
      BY <1>1, <1>3, <2>1 DEF Follows, Follow
  <1>5. M!ClusterStart(t) = CHOOSE g : g = Body(g)
    BY DEF M!ClusterStart
  <1>6. M!ClusterStart(t) = Body(M!ClusterStart(t))
    <2> HIDE DEF Body
    <2> QED
      BY <1>4, <1>5
  <1> DEFINE start == M!ClusterStart(t)
  <1>7. start[0] = 1 /\ start = [i \in 0 .. N |-> start[i]]
    BY <1>1, <1>6
  <1>8. ASSUME NEW i \in 1 .. N PROVE start[i] = Follow(t, i, start[i - 1])
    BY <1>1, <1>6 DEF Follow
  <1>9. start \in [0 .. N -> Nat]
    <2>1. ASSUME NEW i \in 1 .. N, start[i - 1] \in Nat PROVE start[i] \in Nat
      BY <1>1, <1>8, <2>1 DEF Follow
    <2>2. start[0] \in Nat
      BY <1>7
    <2> HIDE DEF start, N
    <2> QED
      BY <1>1, <1>7, <2>1, <2>2, RecursionTyped
  <1> QED
    BY <1>1, <1>7, <1>8, <1>9 DEF Starts

(* The cluster of a place begins at or before it, and all from there to    *)
(* the place are fixes of that cluster.                                    *)
Together(t, start, i) ==
    /\ start[i] \in 1 .. i + 1
    /\ \A j \in start[i] .. i : /\ M!Usable(t[j])
                               /\ M!Distance(t[start[i]], t[j]) <= Radius
                               /\ start[j] = start[i]

(* It is so at every place, by induction on the place.                     *)
LEMMA ClustersAreTogether ==
    ASSUME NEW t \in Tracks, NEW start, Starts(t, start)
    PROVE  \A i \in 0 .. Len(t) : Together(t, start, i)
  <1> DEFINE N == Len(t)
             K == {n \in 0 .. N : Together(t, start, n)}
  <1>1. N \in Nat /\ \A i \in 1 .. N : M!Usable(t[i]) => t[i] \in Int
    BY DEF Tracks, M!Usable
  <1>2. 0 \in K
    <2>1. start[0] = 1 /\ 0 \in 0 .. N
      BY <1>1 DEF Starts
    <2> QED
      BY <2>1 DEF Together
  <1>3. ASSUME NEW n \in K, n < N PROVE n + 1 \in K
    <2>1. n \in Nat /\ n + 1 \in 1 .. N /\ (n + 1) - 1 = n /\ Together(t, start, n)
      BY <1>1, <1>3
    <2>2. start[n + 1] = Follow(t, n + 1, start[n])
      BY <2>1 DEF Starts
    <2>3. CASE ~M!Usable(t[n + 1])
      <3>1. start[n + 1] = n + 2
        BY <2>1, <2>2, <2>3 DEF Follow
      <3> QED
        BY <2>1, <3>1 DEF Together
    <2>4. CASE M!Usable(t[n + 1]) /\ start[n + 1] = n + 1
      <3>1. t[n + 1] \in Int
        BY <1>1, <2>1, <2>4
      <3>2. M!Distance(t[n + 1], t[n + 1]) <= Radius
        BY <3>1, StopsAssumption DEF M!Distance
      <3>3. \A j \in n + 1 .. n + 1 : j = n + 1
        BY <2>1
      <3> QED
        BY <2>1, <2>4, <3>2, <3>3 DEF Together
    <2>5. CASE /\ M!Usable(t[n + 1]) /\ start[n + 1] = start[n]
               /\ M!Continues(t, start[n], n + 1)
      <3>1. start[n] \in 1 .. n + 1
        BY <2>1 DEF Together
      <3>2. ASSUME NEW j \in start[n] .. n + 1
            PROVE  M!Usable(t[j]) /\ M!Distance(t[start[n]], t[j]) <= Radius /\ start[j] = start[n]
        <4>1. CASE j = n + 1
          BY <2>5, <4>1 DEF M!Continues
        <4>2. CASE j # n + 1
          <5>1. j \in start[n] .. n
            BY <2>1, <3>1, <4>2
          <5> QED
            BY <2>1, <5>1 DEF Together
        <4> QED
          BY <4>1, <4>2
      <3> QED
        BY <2>1, <2>5, <3>1, <3>2 DEF Together
    <2> QED
      BY <2>2, <2>3, <2>4, <2>5 DEF Follow
  <1>4. K = 0 .. N
    <2> HIDE DEF K, N
    <2>1. K \in SUBSET (0 .. N)
      BY DEF K
    <2> QED
      BY <1>1, <1>2, <1>3, <2>1, FiniteInduction
  <1> QED
    BY <1>4

(* The cluster of a place is a run of places around it.                    *)
Cluster(t, start, c) == {j \in 1 .. Len(t) : M!Usable(t[j]) /\ start[j] = c}

(* The run goes from the start of the cluster to some later place.         *)
LEMMA ClustersAreRuns ==
    ASSUME NEW t \in Tracks, NEW start, Starts(t, start),
           NEW i \in 1 .. Len(t), M!Usable(t[i])
    PROVE  /\ start[i] \in 1 .. i
           /\ \E e \in i .. Len(t) : /\ Cluster(t, start, start[i]) = start[i] .. e
                                    /\ Cardinality(Cluster(t, start, start[i])) = e - start[i] + 1
                                    /\ IsFiniteSet(Cluster(t, start, start[i]))
  <1> DEFINE N == Len(t)
             c == start[i]
             C == Cluster(t, start, c)
  <1>1. N \in Nat /\ i \in Nat /\ i - 1 \in 0 .. N /\ i \in 0 .. N
    BY DEF Tracks
  <1>2. start[i - 1] \in 1 .. i
    BY <1>1, ClustersAreTogether DEF Together
  <1>3. c \in 1 .. i
    BY <1>1, <1>2 DEF Starts, Follow
  <1>4. i \in C
    BY <1>1 DEF Cluster
  <1>5. ASSUME NEW k \in C PROVE k \in c .. N /\ c .. k \subseteq C
    <2>1. k \in 1 .. N /\ M!Usable(t[k]) /\ start[k] = c /\ k - 1 \in 0 .. N /\ k \in 0 .. N
      BY <1>1, <1>5 DEF Cluster
    <2>2. Together(t, start, k) /\ Together(t, start, k - 1)
      BY <2>1, ClustersAreTogether
    <2>3. c <= k
      BY <1>3, <2>1, <2>2 DEF Starts, Follow, Together
    <2>4. ASSUME NEW j \in c .. k PROVE j \in C
      BY <1>1, <1>3, <2>1, <2>2 DEF Together, Cluster
    <2> QED
      BY <1>3, <2>1, <2>3, <2>4
  <1>6. PICK e \in c .. N : C = c .. e /\ Cardinality(C) = e - c + 1 /\ IsFiniteSet(C)
    <2>1. c \in Nat /\ C \in SUBSET (c .. N) /\ C # {}
      BY <1>3, <1>4, <1>5
    <2> HIDE DEF C, c, N
    <2> QED
      BY <1>1, <1>5, <2>1, Intervals
  <1>7. e \in i .. N
    BY <1>1, <1>3, <1>4, <1>6
  <1> QED
    BY <1>3, <1>6, <1>7

(* The cardinality that Movement speaks of.                                *)
LEMMA SameCardinality == \A S : M!Cardinality(S) = Cardinality(S)
  BY DEF M!Cardinality, Cardinality

(* The mark of a place depends on the size of its cluster.                 *)
LEMMA AnnotateIs ==
    ASSUME NEW t \in Tracks
    PROVE  LET start == M!ClusterStart(t)
               Count(i) == Cardinality(Cluster(t, start, start[i]))
           IN  /\ M!Annotate(t) = [i \in 1 .. Len(t) |-> M!Annotate(t)[i]]
               /\ \A i \in 1 .. Len(t) :
                     M!Annotate(t)[i] = IF M!Usable(t[i]) /\ MinPulses <= Count(i)
                                        THEN M!Stopped(Count(i), start[i]) ELSE M!Moving
  <1> DEFINE start == M!ClusterStart(t)
             Same(c) == {j \in 1 .. Len(t) : M!Usable(t[j]) /\ start[j] = c}
             Mark(i) == LET n == Cardinality(Same(start[i]))
                        IN IF M!Usable(t[i]) /\ M!Confirmed(n) THEN M!Stopped(n, start[i])
                           ELSE M!Moving
  <1>1. M!Annotate(t) = [i \in 1 .. Len(t) |-> Mark(i)]
    BY SameCardinality DEF M!Annotate
  <1>2. \A c : Same(c) = Cluster(t, start, c)
    BY DEF Cluster
  <1>3. ASSUME NEW i \in 1 .. Len(t)
        PROVE  M!Annotate(t)[i] = LET n == Cardinality(Cluster(t, start, start[i]))
                                  IN IF M!Usable(t[i]) /\ MinPulses <= n
                                     THEN M!Stopped(n, start[i]) ELSE M!Moving
    <2>1. \A n : M!Confirmed(n) <=> MinPulses <= n
      BY DEF M!Confirmed
    <2> HIDE DEF Same, start
    <2>2. M!Annotate(t)[i] = Mark(i)
      BY <1>1
    <2> QED
      BY <1>2, <2>1, <2>2
  <1> HIDE DEF Mark, start
  <1> QED
    BY <1>1, <1>3 DEF start

(* Stops are runs of fixes within the radius of the first, cut short by    *)
(* nothing that belongs to them.                                           *)
LEMMA StopsAreRunsOfATrack ==
    ASSUME NEW t \in Tracks, NEW i \in 1 .. Len(t), M!Annotate(t)[i].state = "stopped"
    PROVE  LET marks == M!Annotate(t)
               c == marks[i].since
               e == c + marks[i].pulses - 1
           IN /\ i \in c .. e /\ e <= Len(t) /\ marks[i].pulses >= MinPulses
              /\ \A j \in c .. e : /\ M!Usable(t[j])
                                   /\ M!Distance(t[c], t[j]) <= Radius
                                   /\ marks[j] = marks[i]
              /\ e < Len(t) => \/ ~M!Usable(t[e + 1])
                               \/ M!Distance(t[c], t[e + 1]) > Radius
  <1> DEFINE start == M!ClusterStart(t)
             marks == M!Annotate(t)
             N == Len(t)
             c == start[i]
             C == Cluster(t, start, c)
  <1>1. Starts(t, start) /\ N \in Nat
    BY ClusterStartIs DEF Tracks
  <1>2. M!Usable(t[i]) /\ MinPulses <= Cardinality(C) /\ marks[i] = M!Stopped(Cardinality(C), c)
    BY AnnotateIs DEF M!Stopped, M!Moving
  <1>3. PICK e \in i .. N : C = c .. e /\ Cardinality(C) = e - c + 1
    BY <1>1, <1>2, ClustersAreRuns
  <1>4. c \in 1 .. i
    BY <1>1, <1>2, ClustersAreRuns
  <1>5. /\ marks[i].since = c /\ c + marks[i].pulses - 1 = e
        /\ marks[i].pulses >= MinPulses
    <2>1. marks[i].since = c /\ marks[i].pulses = e - c + 1
      BY <1>2, <1>3 DEF M!Stopped
    <2> QED
      BY <1>2, <1>3, <1>4, <2>1, StopsAssumption
  <1>6. ASSUME NEW j \in c .. e
        PROVE  M!Usable(t[j]) /\ M!Distance(t[c], t[j]) <= Radius /\ marks[j] = marks[i]
    <2>1. j \in C
      BY <1>3
    <2>2. j \in 1 .. N /\ M!Usable(t[j]) /\ start[j] = c
      BY <2>1 DEF Cluster
    <2>3. marks[j] = marks[i]
      BY <1>2, <2>2, AnnotateIs
    <2>4. M!Distance(t[c], t[j]) <= Radius
      <3>1. Together(t, start, j) /\ j \in start[j] .. j
        BY <1>1, <1>4, <2>2, ClustersAreTogether
      <3> QED
        BY <2>2, <3>1 DEF Together
    <2> QED
      BY <2>2, <2>3, <2>4
  <1>7. ASSUME e < N, M!Usable(t[e + 1]) PROVE M!Distance(t[c], t[e + 1]) > Radius
    <2>1. e + 1 \in 1 .. N /\ (e + 1) - 1 = e /\ e + 1 \notin C
      BY <1>1, <1>3, <1>4, <1>7
    <2>2. start[e + 1] # c
      BY <1>7, <2>1 DEF Cluster
    <2>3. e \in C
      BY <1>3, <1>4
    <2>4. start[e] = c
      BY <2>3 DEF Cluster
    <2>5. ~M!Continues(t, c, e + 1)
      BY <1>1, <1>7, <2>1, <2>2, <2>4 DEF Starts, Follow
    <2>6. c \in C /\ c \in 1 .. N
      BY <1>3, <1>4
    <2>7. M!Usable(t[c]) /\ t[c] \in Int /\ t[e + 1] \in Int
      BY <1>7, <2>1, <2>6 DEF Cluster, Tracks, M!Usable
    <2> QED
      BY <2>5, <2>7, StopsAssumption DEF M!Continues, M!Distance
  <1>8. i \in c .. e /\ e <= N
    BY <1>1, <1>3, <1>4
  <1> HIDE DEF marks, c, N
  <1> QED
    BY <1>5, <1>6, <1>7, <1>8 DEF marks, N

(* What a set of places between two has, at most.                          *)
LEMMA SmallSubset ==
    ASSUME NEW lo \in Nat, NEW hi \in Nat, lo <= hi, NEW S \in SUBSET (lo .. hi)
    PROVE  Cardinality(S) \in Nat /\ Cardinality(S) <= hi - lo + 1
  <1>1. IsFiniteSet(lo .. hi) /\ Cardinality(lo .. hi) = hi - lo + 1
    BY FS_Interval
  <1>2. IsFiniteSet(S) /\ Cardinality(S) <= Cardinality(lo .. hi)
    BY <1>1, FS_Subset
  <1> QED
    BY <1>1, <1>2, FS_CardinalityType

(* Consecutive fixes within the radius of one another lie in two clusters  *)
(* at most, and the first of two began before them: it is as long as what  *)
(* it has of them and one more.  So if there are 2 * MinPulses - 2 of them *)
(* the clusters are not both too short.                                    *)
LEMMA StaysOfATrack ==
    ASSUME NEW t \in Tracks, NEW a \in 1 .. Len(t), NEW e \in 1 .. Len(t),
           \A i, j \in a .. e : /\ M!Usable(t[i]) /\ M!Usable(t[j])
                               /\ M!Distance(t[i], t[j]) <= Radius,
           e - a + 1 >= 2 * MinPulses - 2
    PROVE  Cardinality({i \in a .. e : M!Annotate(t)[i].state = "moving"}) < MinPulses
  <1> DEFINE start == M!ClusterStart(t)
             Size(c) == Cardinality(Cluster(t, start, c))
             moving == {i \in a .. e : M!Annotate(t)[i].state = "moving"}
  <1>1. Starts(t, start) /\ Len(t) \in Nat /\ a \in Nat /\ e \in Nat /\ MinPulses \in 1 .. 3
    BY ClusterStartIs, StopsAssumption DEF Tracks
  <1>2. \A i \in a .. e : i \in 1 .. Len(t) /\ M!Usable(t[i])
    BY <1>1
  <1>3. \A i \in moving : i \in a .. e /\ Size(start[i]) < MinPulses
    <2> SUFFICES ASSUME NEW i \in moving PROVE Size(start[i]) < MinPulses
      OBVIOUS
    <2>1. i \in 1 .. Len(t) /\ M!Usable(t[i]) /\ M!Annotate(t)[i].state = "moving"
      BY <1>2
    <2>2. M!Annotate(t)[i] = IF M!Usable(t[i]) /\ MinPulses <= Size(start[i])
                             THEN M!Stopped(Size(start[i]), start[i]) ELSE M!Moving
      BY <2>1, AnnotateIs
    <2>3. Size(start[i]) \in Nat
      BY <1>1, <2>1, ClustersAreRuns, FS_CardinalityType
    <2> HIDE DEF Size, start
    <2>4. ~(MinPulses <= Size(start[i]))
      BY <2>1, <2>2 DEF M!Stopped, M!Moving
    <2> QED
      BY <1>1, <2>3, <2>4
  <1>4. CASE a > e
    <2>1. moving = {}
      BY <1>1, <1>4
    <2>2. Cardinality(moving) = 0
      BY <2>1, FS_EmptySet
    <2> QED
      BY <1>1, <2>2
  <1>5. ASSUME NEW i \in a .. e
        PROVE  /\ start[i] \in 1 .. i /\ Size(start[i]) \in Nat
               /\ Size(start[i]) >= i - start[i] + 1
               /\ \A j \in start[i] .. i : M!Usable(t[j]) /\ start[j] = start[i]
    <2>1. i \in 1 .. Len(t) /\ i \in 0 .. Len(t) /\ M!Usable(t[i]) /\ i \in Nat
      BY <1>1, <1>2
    <2>2. PICK d \in i .. Len(t) : Size(start[i]) = d - start[i] + 1
      BY <1>1, <2>1, ClustersAreRuns
    <2>3. start[i] \in 1 .. i
      BY <1>1, <2>1, ClustersAreRuns
    <2>4. Together(t, start, i)
      BY <1>1, <2>1, ClustersAreTogether
    <2>5. \A j \in start[i] .. i : M!Usable(t[j]) /\ start[j] = start[i]
      BY <2>4 DEF Together
    <2> HIDE DEF Size, start
    <2> QED
      BY <1>1, <2>1, <2>2, <2>3, <2>5
  <1> DEFINE s == start[e]
  <1>6. CASE a <= e /\ s <= a
    <2>1. e \in a .. e
      BY <1>1, <1>6
    <2>2. s \in 1 .. e /\ Size(s) >= e - s + 1 /\ Size(s) \in Nat
          /\ \A j \in s .. e : start[j] = s
      BY <1>5, <2>1
    <2>3. \A i \in a .. e : start[i] = s
      BY <1>1, <1>6, <2>2
    <2>4. Cardinality(moving) \in Nat /\ Cardinality(moving) <= e - a + 1
      BY <1>1, <1>6, SmallSubset
    <2>5. CASE moving = {}
      <3>1. Cardinality(moving) = 0
        BY <2>5, FS_EmptySet
      <3> QED
        BY <1>1, <3>1
    <2>6. CASE moving # {}
      <3>1. Size(s) < MinPulses
        BY <1>3, <2>3, <2>6
      <3> HIDE DEF Size, s, moving
      <3> QED
        BY <1>1, <1>6, <2>2, <2>4, <3>1 DEF moving
    <2> QED
      BY <2>5, <2>6
  <1>7. CASE a <= e /\ ~(s <= a)
    <2>1. e \in a .. e
      BY <1>1, <1>7
    <2>2. /\ s \in 1 .. e /\ Size(s) >= e - s + 1 /\ Size(s) \in Nat
          /\ \A j \in s .. e : start[j] = s
      BY <1>5, <2>1
    <2>3. /\ s \in Nat /\ a < s /\ s \in a .. e /\ s - 1 \in a .. e /\ s - 1 \in Nat
          /\ s \in s .. e /\ s \in 1 .. Len(t)
      BY <1>1, <1>7, <2>2
    <2> DEFINE b == start[s - 1]
    <2>4. /\ b \in 1 .. s - 1 /\ Size(b) \in Nat /\ Size(b) >= (s - 1) - b + 1
          /\ \A j \in b .. s - 1 : M!Usable(t[j]) /\ start[j] = b
      BY <1>5, <2>3
    <2>5. start[s] = s /\ M!Usable(t[s]) /\ start[s] = Follow(t, s, b)
      BY <1>1, <1>2, <2>2, <2>3 DEF Starts
    <2>6. ~M!Continues(t, b, s)
      <3>1. b # s
        BY <2>3, <2>4
      <3> HIDE DEF s, b
      <3> QED
        BY <2>5, <3>1 DEF Follow
    <2>7. ~(b \in a .. e)
      <3>1. b \in b .. s - 1
        BY <2>3, <2>4
      <3>2. M!Usable(t[b])
        BY <2>4, <3>1
      <3>3. ~(M!Distance(t[b], t[s]) <= Radius)
        BY <2>6, <3>2 DEF M!Continues
      <3> HIDE DEF s, b
      <3> QED
        BY <2>3, <3>3
    <2>8. b < a /\ Size(b) >= s - a + 1 /\ \A j \in a .. s - 1 : start[j] = b
      <3> HIDE DEF s, b, Size, start
      <3>1. b \in Nat /\ b < a
        BY <1>1, <2>3, <2>4, <2>7
      <3>2. Size(b) >= s - a + 1
        BY <1>1, <2>3, <2>4, <3>1
      <3>3. \A j \in a .. s - 1 : j \in b .. s - 1
        BY <1>1, <2>3, <3>1
      <3> QED
        BY <2>4, <3>1, <3>2, <3>3
    <2>9. \A i \in a .. e : i \in a .. s - 1 \/ i \in s .. e
      BY <1>1, <2>3
    <2>10. \A i \in moving : \/ i \in a .. s - 1 /\ Size(b) < MinPulses
                             \/ i \in s .. e /\ Size(s) < MinPulses
      BY <1>3, <2>2, <2>8, <2>9
    <2>11. ~(Size(b) < MinPulses /\ Size(s) < MinPulses)
      <3>1. Size(b) \in Nat /\ Size(s) \in Nat /\ s \in Nat
        BY <2>2, <2>3, <2>4
      <3>2. Size(b) >= s - a + 1 /\ Size(s) >= e - s + 1
        BY <2>2, <2>8
      <3>3. \A x, y, z \in Nat : x >= z - a + 1 /\ y >= e - z + 1
                                 => ~(x < MinPulses /\ y < MinPulses)
        BY <1>1
      <3> HIDE DEF s, b, Size
      <3> QED
        BY <3>1, <3>2, <3>3
    <2>12. CASE ~(Size(s) < MinPulses)
      <3>1. moving \in SUBSET (a .. s - 1)
        BY <2>10, <2>12
      <3>2. a <= s - 1
        BY <1>1, <2>3
      <3>3. Cardinality(moving) \in Nat /\ Cardinality(moving) <= (s - 1) - a + 1
        BY <1>1, <2>3, <3>1, <3>2, SmallSubset
      <3>4. CASE moving = {}
        <4>1. Cardinality(moving) = 0
          BY <3>4, FS_EmptySet
        <4> QED
          BY <1>1, <4>1
      <3>5. CASE moving # {}
        <4>1. Size(b) < MinPulses
          BY <2>10, <2>12, <3>5
        <4> HIDE DEF Size, s, b, moving
        <4> QED
          BY <1>1, <2>3, <2>4, <2>8, <3>3, <4>1 DEF moving
      <3> QED
        BY <3>4, <3>5
    <2>13. CASE ~(Size(b) < MinPulses)
      <3>1. moving \in SUBSET (s .. e)
        BY <2>10, <2>13
      <3>2. s <= e
        BY <1>1, <2>3
      <3>3. Cardinality(moving) \in Nat /\ Cardinality(moving) <= e - s + 1
        BY <1>1, <2>3, <3>1, <3>2, SmallSubset
      <3>4. CASE moving = {}
        <4>1. Cardinality(moving) = 0
          BY <3>4, FS_EmptySet
        <4> QED
          BY <1>1, <4>1
      <3>5. CASE moving # {}
        <4>1. Size(s) < MinPulses
          BY <2>10, <2>13, <3>5
        <4> HIDE DEF Size, s, b, moving
        <4> QED
          BY <1>1, <2>2, <2>3, <3>3, <4>1 DEF moving
      <3> QED
        BY <3>4, <3>5
    <2> QED
      BY <2>11, <2>12, <2>13
  <1> QED
    BY <1>1, <1>4, <1>6, <1>7

(* What arrives later changes no cluster but the last.                     *)
LEMMA PrefixKeepsClusters ==
    ASSUME NEW t \in Tracks, NEW u \in Tracks, Len(t) <= Len(u),
           \A k \in 1 .. Len(t) : u[k] = t[k],
           NEW s, Starts(t, s), NEW r, Starts(u, r)
    PROVE  \A i \in 0 .. Len(t) : r[i] = s[i]
  <1> DEFINE N == Len(t)
             K == {n \in 0 .. N : r[n] = s[n]}
  <1>1. N \in Nat /\ Len(u) \in Nat
    BY DEF Tracks
  <1>2. 0 \in K
    BY <1>1 DEF Starts
  <1>3. ASSUME NEW n \in K, n < N PROVE n + 1 \in K
    <2>1. n + 1 \in 1 .. N /\ n + 1 \in 1 .. Len(u) /\ (n + 1) - 1 = n /\ n \in 0 .. N
      BY <1>1, <1>3
    <2>2. s[n + 1] = Follow(t, n + 1, s[n]) /\ r[n + 1] = Follow(u, n + 1, s[n])
      BY <2>1 DEF Starts
    <2>3. s[n] \in 1 .. N
      BY <2>1, ClustersAreTogether DEF Together
    <2>4. u[n + 1] = t[n + 1] /\ u[s[n]] = t[s[n]]
      BY <2>1, <2>3
    <2> QED
      BY <2>1, <2>2, <2>4 DEF Follow, M!Continues
  <1>4. K = 0 .. N
    <2> HIDE DEF K, N
    <2>1. K \in SUBSET (0 .. N)
      BY DEF K
    <2> QED
      BY <1>1, <1>2, <1>3, <2>1, FiniteInduction
  <1> QED
    BY <1>4

(* What arrives later takes no stop back.                                  *)
LEMMA StopsAreKeptInATrack ==
    ASSUME NEW t \in Tracks, NEW u \in Tracks, Len(t) <= Len(u),
           \A k \in 1 .. Len(t) : u[k] = t[k],
           NEW i \in 1 .. Len(t), M!Annotate(t)[i].state = "stopped"
    PROVE  /\ M!Annotate(u)[i].state = "stopped"
           /\ M!Annotate(u)[i].since = M!Annotate(t)[i].since
           /\ M!Annotate(u)[i].pulses >= M!Annotate(t)[i].pulses
  <1> DEFINE s == M!ClusterStart(t)
             r == M!ClusterStart(u)
             C == Cluster(t, s, s[i])
             D == Cluster(u, r, r[i])
  <1>1. Starts(t, s) /\ Starts(u, r) /\ Len(t) \in Nat /\ Len(u) \in Nat
    BY ClusterStartIs DEF Tracks
  <1>2. \A j \in 0 .. Len(t) : r[j] = s[j]
    BY <1>1, PrefixKeepsClusters
  <1>3. /\ M!Usable(t[i]) /\ MinPulses <= Cardinality(C)
        /\ M!Annotate(t)[i] = M!Stopped(Cardinality(C), s[i])
    BY AnnotateIs DEF M!Stopped, M!Moving
  <1>4. i \in 1 .. Len(u) /\ M!Usable(u[i]) /\ r[i] = s[i]
    BY <1>1, <1>2, <1>3
  <1>5. IsFiniteSet(D)
    BY <1>1, <1>4, ClustersAreRuns
  <1>6. C \subseteq D
    BY <1>1, <1>2, <1>4 DEF Cluster
  <1>7. Cardinality(C) \in Nat /\ Cardinality(D) \in Nat /\ Cardinality(C) <= Cardinality(D)
    BY <1>5, <1>6, FS_Subset, FS_CardinalityType
  <1>8. M!Annotate(u)[i] = M!Stopped(Cardinality(D), r[i])
    <2>1. MinPulses <= Cardinality(D)
      BY <1>3, <1>7, StopsAssumption
    <2> QED
      BY <1>4, <2>1, AnnotateIs
  <1> QED
    BY <1>3, <1>4, <1>7, <1>8 DEF M!Stopped

(* The last three fixes of a track that ends with three.                   *)
LEMMA LastThreeIs ==
    ASSUME NEW t \in Tracks, Len(t) >= 3,
           \A j \in Len(t) - 2 .. Len(t) : M!Usable(t[j])
    PROVE  M!LastThree(t) = [i \in 1 .. 3 |-> Len(t) - 3 + i]
  <1> DEFINE n == Len(t)
             fixes == M!FixesUpTo(t, n)
             Later(j) == {m \in fixes : m > j}
  <1>1. n \in Nat /\ fixes \subseteq 1 .. n /\ n - 2 .. n \subseteq fixes
    BY DEF Tracks, M!FixesUpTo
  <1>2. IsFiniteSet(fixes) /\ Cardinality(n - 2 .. n) = 3
    <2>1. 1 \in Int /\ n \in Int /\ n - 2 \in Int /\ ~(n - 2 > n) /\ n - (n - 2) + 1 = 3
      BY <1>1
    <2>2. IsFiniteSet(1 .. n) /\ Cardinality(n - 2 .. n) = 3
      BY <2>1, FS_Interval
    <2> QED
      BY <1>1, <2>2, FS_Subset
  <1>3. Cardinality(fixes) \in Nat /\ Cardinality(fixes) >= 3
    BY <1>1, <1>2, FS_Subset, FS_CardinalityType
  <1>4. ASSUME NEW j \in n - 2 .. n PROVE Cardinality(Later(j)) = n - j
    <2>1. Later(j) = j + 1 .. n
      <3>1. ASSUME NEW m \in Later(j) PROVE m \in j + 1 .. n
        BY <1>1
      <3>2. ASSUME NEW m \in j + 1 .. n PROVE m \in Later(j)
        BY <1>1, SMTT(30)
      <3> QED
        BY <3>1, <3>2
    <2>2. j + 1 \in Int /\ n \in Int /\ n - (j + 1) + 1 = n - j /\ (j + 1 > n => n - j = 0)
      BY <1>1
    <2>3. Cardinality(j + 1 .. n) = n - j
      BY <2>2, FS_Interval
    <2> QED
      BY <2>1, <2>3
  <1>5. ASSUME NEW j \in fixes, j \notin n - 2 .. n PROVE Cardinality(Later(j)) >= 3
    <2>1. n - 2 .. n \subseteq Later(j) /\ Later(j) \subseteq fixes
      BY <1>1, <1>5
    <2> QED
      BY <1>2, <2>1, FS_Subset, FS_CardinalityType
  <1>6. ASSUME NEW i \in 1 .. 3
        PROVE  (CHOOSE j \in fixes : Cardinality(Later(j)) = 3 - i) = n - 3 + i
    <2>1. n - 3 + i \in fixes /\ Cardinality(Later(n - 3 + i)) = 3 - i
      BY <1>1, <1>4
    <2>2. ASSUME NEW j \in fixes, Cardinality(Later(j)) = 3 - i PROVE j = n - 3 + i
      <3>1. j \in n - 2 .. n
        BY <1>5, <2>2
      <3> QED
        BY <1>1, <1>4, <2>2, <3>1
    <2> HIDE DEF Later, fixes
    <2> QED
      BY <2>1, <2>2
  <1>7. M!LastThree(t) = [i \in 1 .. 3 |-> CHOOSE j \in fixes : Cardinality(Later(j)) = 3 - i]
    <2> DEFINE k == IF M!Cardinality(fixes) < 3 THEN M!Cardinality(fixes) ELSE 3
    <2>1. M!LastThree(t) =
             [i \in 1 .. k |-> CHOOSE j \in fixes : M!Cardinality(Later(j)) = k - i]
      BY DEF M!LastThree
    <2>2. ASSUME NEW i \in 1 .. 3
          PROVE  (CHOOSE j \in fixes : M!Cardinality(Later(j)) = 3 - i)
                    = CHOOSE j \in fixes : Cardinality(Later(j)) = 3 - i
      <3> HIDE DEF Later, fixes
      <3> QED
        BY SameCardinality
    <2> HIDE DEF Later, fixes
    <2>3. k = 3
      BY <1>3, SameCardinality
    <2> HIDE DEF k
    <2> QED
      BY <2>1, <2>2, <2>3
  <1> QED
    BY <1>6, <1>7

(* Three fixes at one place, the last of the track, are a stop in both     *)
(* views.                                                                  *)
LEMMA ParkedTrack ==
    ASSUME NEW t \in Tracks, Len(t) >= 3,
           \A j \in Len(t) - 2 .. Len(t) : M!Usable(t[j]) /\ t[j] = t[Len(t)]
    PROVE  /\ M!Annotate(t)[Len(t)].state = "stopped"
           /\ M!Annotate(t)[Len(t)].since <= Len(t) - 2
           /\ M!Current(t).state = "stopped" /\ M!Current(t).since = Len(t) - 2
  <1> DEFINE n == Len(t)
             s == M!ClusterStart(t)
  <1>1. n \in Nat /\ n - 2 \in 1 .. n /\ n - 1 \in 1 .. n /\ n \in 1 .. n
    BY DEF Tracks
  <1>2. /\ t[n - 2] = t[n] /\ t[n - 1] = t[n] /\ t[n] \in Int
        /\ M!Usable(t[n - 2]) /\ M!Usable(t[n - 1]) /\ M!Usable(t[n])
    <2>1. \A j \in n - 2 .. n : M!Usable(t[j]) /\ t[j] = t[n]
      OBVIOUS
    <2>2. n - 2 \in n - 2 .. n /\ n - 1 \in n - 2 .. n /\ n \in n - 2 .. n
      BY <1>1
    <2>3. M!Usable(t[n]) => t[n] \in Int
      BY <1>1 DEF M!Usable, Tracks
    <2> QED
      BY <2>1, <2>2, <2>3
  <1>3. Starts(t, s)
    BY ClusterStartIs
  <1> HIDE DEF s
  <1> DEFINE c == s[n - 2]
  <1>4. c \in 1 .. n - 2
    BY <1>1, <1>2, <1>3, ClustersAreRuns
  <1>5. M!Distance(t[c], t[n]) <= Radius /\ M!Usable(t[c])
    <2>1. Together(t, s, n - 2)
      BY <1>1, <1>3, ClustersAreTogether
    <2>2. n - 2 \in c .. n - 2 /\ c \in c .. n - 2
      BY <1>1, <1>4
    <2>3. M!Distance(t[c], t[n - 2]) <= Radius /\ M!Usable(t[c])
      BY <2>1, <2>2 DEF Together
    <2> QED
      BY <1>2, <2>3
  <1>6. s[n - 1] = c /\ s[n] = c
    <2>1. (n - 1) - 1 = n - 2
      BY <1>1
    <2>2. s[n - 1] = Follow(t, n - 1, c) /\ s[n] = Follow(t, n, s[n - 1])
      BY <1>1, <1>3, <2>1 DEF Starts
    <2>3. s[n - 1] = c
      BY <1>2, <1>5, <2>2 DEF Follow, M!Continues
    <2>4. s[n] = c
      BY <1>2, <1>5, <2>2, <2>3 DEF Follow, M!Continues
    <2> QED
      BY <2>3, <2>4
  <1>7. PICK e \in n .. n : /\ Cluster(t, s, s[n]) = s[n] .. e
                            /\ Cardinality(Cluster(t, s, s[n])) = e - s[n] + 1
    BY <1>1, <1>2, <1>3, ClustersAreRuns
  <1>8. MinPulses <= Cardinality(Cluster(t, s, s[n]))
    BY <1>1, <1>4, <1>6, <1>7, StopsAssumption
  <1>9. M!Annotate(t)[n] = M!Stopped(Cardinality(Cluster(t, s, s[n])), c)
    BY <1>1, <1>2, <1>6, <1>8, AnnotateIs DEF s
  <1>10. M!LastThree(t) = [i \in 1 .. 3 |-> n - 3 + i]
    BY <1>1, LastThreeIs
  <1> DEFINE r == [i \in 1 .. 3 |-> t[n - 3 + i]]
             q == M!ClusterStart(r)
  <1>11. r \in Tracks /\ Len(r) = 3 /\ r[1] = t[n] /\ r[2] = t[n] /\ r[3] = t[n]
    <2>1. \A i \in 1 .. 3 : n - 3 + i \in n - 2 .. n
      BY <1>1
    <2>2. \A i \in 1 .. 3 : t[n - 3 + i] = t[n]
      BY <2>1
    <2>3. r = [i \in 1 .. 3 |-> t[n]]
      BY <2>2
    <2> HIDE DEF r
    <2>4. r \in [1 .. 3 -> Int]
      BY <1>2, <2>3
    <2> QED
      BY <1>2, <2>3, <2>4 DEF Tracks
  <1>12. Starts(r, q)
    BY <1>11, ClusterStartIs
  <1> HIDE DEF q, r
  <1>13. q[1] = 1 /\ q[2] = 1 /\ q[3] = 1
    <2>1. M!Distance(t[n], t[n]) <= Radius
      BY <1>2, StopsAssumption DEF M!Distance
    <2>2. /\ q[0] = 1 /\ q[1] = Follow(r, 1, q[0]) /\ q[2] = Follow(r, 2, q[1])
          /\ q[3] = Follow(r, 3, q[2])
      BY <1>11, <1>12 DEF Starts
    <2>3. q[1] = 1
      BY <1>2, <1>11, <2>2 DEF Follow
    <2>4. q[2] = 1
      BY <1>2, <1>11, <2>1, <2>2, <2>3 DEF Follow, M!Continues
    <2>5. q[3] = 1
      BY <1>2, <1>11, <2>1, <2>2, <2>4 DEF Follow, M!Continues
    <2> QED
      BY <2>3, <2>4, <2>5
  <1>14. Cardinality(Cluster(r, q, 1)) = 3
    <2>1. M!Usable(r[3]) /\ 3 \in 1 .. Len(r)
      BY <1>2, <1>11
    <2>2. PICK d \in 3 .. Len(r) : Cardinality(Cluster(r, q, q[3])) = d - q[3] + 1
      BY <1>11, <1>12, <2>1, ClustersAreRuns
    <2> QED
      BY <1>11, <1>13, <2>2
  <1>15. M!Annotate(r)[3] = M!Stopped(3, 1)
    <2>1. M!Usable(r[3]) /\ 3 \in 1 .. Len(r) /\ MinPulses <= 3
      BY <1>2, <1>11, StopsAssumption
    <2> QED
      BY <1>11, <1>13, <1>14, <2>1, AnnotateIs DEF q
  <1>16. M!Current(t) = M!Stopped(3, n - 2)
    <2> DEFINE at == M!LastThree(t)
               rows == [i \in 1 .. Len(at) |-> t[at[i]]]
    <2>1. Len(at) = 3 /\ at[1] = n - 2
      BY <1>1, <1>10
    <2>2. rows = r
      BY <1>10, <2>1 DEF r
    <2>3. rows # <<>> /\ Len(rows) = 3
      BY <1>11, <2>2
    <2>4. M!Annotate(rows)[Len(rows)] = M!Stopped(3, 1)
      BY <1>15, <2>2, <2>3
    <2>5. M!Stopped(3, 1) # M!Moving /\ M!Stopped(3, 1).pulses = 3 /\ M!Stopped(3, 1).since = 1
      BY DEF M!Stopped, M!Moving
    <2>6. M!Current(t) = LET last == IF rows = <<>> THEN M!Moving ELSE M!Annotate(rows)[Len(rows)]
                         IN IF last = M!Moving THEN M!Moving ELSE M!Stopped(last.pulses, at[last.since])
      BY DEF M!Current
    <2> HIDE DEF rows, at
    <2> QED
      BY <2>1, <2>3, <2>4, <2>5, <2>6
  <1> QED
    BY <1>1, <1>4, <1>9, <1>16 DEF M!Stopped

(***************************************************************************)
(* The inductive invariant.                                                *)
(***************************************************************************)

(* The places of the rows, which Movement takes for its history.           *)
Way(s) == [k \in 1 .. Len(s) |-> s[k].place]

(* The types, with chunks that have at least one point.                    *)
InvTyped == /\ trace \in Seq(Rows)
            /\ phase \in {"trace", "match", "route", "done"}
            /\ todo \in Seq(NonEmpty)
            /\ drawn \in Seq(Pieces)
            /\ snapped \subseteq Points
            /\ spent \in Nat

(* What is published is the state of the rows that are stored.             *)
InvLive == trace # <<>> => live = M!Current(Way(trace))

(* Nothing is drawn while rows arrive.                                     *)
InvStart == phase = "trace" => drawn = <<>> /\ todo = <<>> /\ snapped = {}

(* Only a track that can be cut is asked for, and one chunk at a time.     *)
InvAsked == /\ phase \in {"match", "route"} => Enabled /\ Len(Filtered(trace)) >= 2
            /\ phase = "route" => todo # <<>>
            /\ phase = "done" => todo = <<>>

(* What a service gives coordinates to was in a chunk.                     *)
InvSnapped == \A p \in snapped :
                 \E k \in 1 .. Len(Filtered(trace)) : Filtered(trace)[k] = p

(* The pieces that are drawn are of chunks of the track, with points of    *)
(* their chunk only, and all of them unless Match found them; and every    *)
(* chunk has a piece or is left.                                           *)
OfChunk(piece) == /\ ToSet(piece.points) \subseteq ToSet(piece.chunk)
                  /\ piece.how # "match" => piece.points = piece.chunk
DrawnFor(chunk) == \E n \in 1 .. Len(drawn) : drawn[n].chunk = chunk
LeftToDo(chunk) == \E n \in 1 .. Len(todo) : todo[n] = chunk
Shares(work) ==
    /\ \A n \in 1 .. Len(drawn) : /\ \E m \in 1 .. Len(work) : drawn[n].chunk = work[m]
                                 /\ OfChunk(drawn[n])
    /\ \A n \in 1 .. Len(todo) : \E m \in 1 .. Len(work) : todo[n] = work[m]
    /\ \A m \in 1 .. Len(work) : DrawnFor(work[m]) \/ LeftToDo(work[m])
(* It is so from Begin on.                                                 *)
InvWork == phase # "trace" /\ Enabled /\ Len(Filtered(trace)) >= 2
           => Shares(Work(Filtered(trace)))

(* The inductive invariant.                                                *)
TrackInv == /\ InvTyped /\ Ordered(trace) /\ InvLive /\ InvStart
            /\ InvAsked /\ InvSnapped /\ InvWork

(* Nothing has arrived.                                                    *)
LEMMA TrackStarts == TrackInit => TrackInv
<1> SUFFICES ASSUME TrackInit PROVE TrackInv
  OBVIOUS
<1>1. /\ trace = <<>> /\ phase = "trace" /\ todo = <<>> /\ drawn = <<>>
      /\ snapped = {} /\ spent = 0
  BY DEF TrackInit, Init
<1>2. InvTyped
  BY <1>1 DEF InvTyped
<1>3. Ordered(trace)
  BY <1>1 DEF Ordered
<1>4. InvLive /\ InvStart /\ InvAsked /\ InvSnapped /\ InvWork
  BY <1>1 DEF InvLive, InvStart, InvAsked, InvSnapped, InvWork
<1> QED
  BY <1>2, <1>3, <1>4 DEF TrackInv

(* A row that arrives is not before the last one, and what is published is *)
(* the state of the rows with it.                                          *)
LEMMA ArriveKeeps ==
    ASSUME TrackInv, NEW place \in Places \cup {NoFix}, Arrive(place)
    PROVE  TrackInv'
<1> USE TimesAssumption
<1>1. Point(place) /\ M!Pulse(place)
  BY DEF Arrive
<1>2. PICK wait \in Waits :
         trace' = Append(trace, [place |-> place,
                                 time |-> IF trace = <<>> THEN 0 ELSE Last(trace).time + wait])
  BY <1>1 DEF Point
<1>3. /\ phase = "trace" /\ phase' = phase /\ todo' = todo /\ drawn' = drawn
      /\ snapped' = snapped /\ spent' = spent
  BY <1>1 DEF Point
<1> DEFINE time == IF trace = <<>> THEN 0 ELSE Last(trace).time + wait
           row == [place |-> place, time |-> time]
<1>4. trace \in Seq(Rows) /\ wait \in Nat
  BY DEF TrackInv, InvTyped
<1>5. trace # <<>> => /\ Len(trace) \in 1 .. Len(trace) /\ Last(trace) = trace[Len(trace)]
                      /\ trace[Len(trace)].time \in Nat
  <2> SUFFICES ASSUME trace # <<>>
               PROVE  /\ Len(trace) \in 1 .. Len(trace)
                      /\ trace[Len(trace)].time \in Nat
    BY DEF Last
  <2>1. Len(trace) \in 1 .. Len(trace)
    BY <1>4
  <2>2. trace[Len(trace)] \in Rows
    BY <1>4, <2>1
  <2> QED
    BY <2>1, <2>2 DEF Rows
<1>6. time \in Nat
  BY <1>4, <1>5
<1>7. row \in Rows
  BY <1>6 DEF Rows
<1>8. trace' = Append(trace, row)
  BY <1>2
<1>9. \A k \in 1 .. Len(trace) : trace[k].time \in Nat /\ trace[k].time <= time
  <2> SUFFICES ASSUME NEW k \in 1 .. Len(trace)
               PROVE  trace[k].time \in Nat /\ trace[k].time <= time
    OBVIOUS
  <2> trace[k] \in Rows
    BY <1>4
  <2>1. trace # <<>> /\ trace[k].time \in Nat
    BY <1>4 DEF Rows
  <2>2. trace[k].time <= trace[Len(trace)].time
    BY <1>4, <1>5, <2>1 DEF TrackInv, Ordered
  <2> QED
    BY <1>4, <1>5, <2>1, <2>2
<1>10. row.time = time
  OBVIOUS
<1> HIDE DEF row, time
<1>11. /\ Len(trace') = Len(trace) + 1 /\ trace'[Len(trace) + 1] = row
       /\ \A k \in 1 .. Len(trace) : trace'[k] = trace[k]
       /\ trace' \in Seq(Rows) /\ Len(trace) \in Nat
  BY <1>4, <1>7, <1>8
<1>12. InvTyped'
  BY <1>3, <1>11 DEF InvTyped, TrackInv
<1>13. Ordered(trace)'
  <2> SUFFICES ASSUME NEW j \in 1 .. Len(trace) + 1, NEW k \in 1 .. Len(trace) + 1, j <= k
               PROVE  trace'[j].time <= trace'[k].time
    BY <1>11 DEF Ordered
  <2>1. CASE k \in 1 .. Len(trace)
    <3>1. j \in 1 .. Len(trace)
      BY <2>1, <1>11
    <3> QED
      BY <2>1, <3>1, <1>11 DEF TrackInv, Ordered
  <2>2. CASE k = Len(trace) + 1 /\ j \in 1 .. Len(trace)
    BY <2>2, <1>9, <1>10, <1>11
  <2>3. CASE k = Len(trace) + 1 /\ j = Len(trace) + 1
    BY <2>3, <1>6, <1>10, <1>11
  <2> QED
    BY <2>1, <2>2, <2>3, <1>11
<1>14. InvLive'
  BY <1>1 DEF InvLive, Way, M!Pulse
<1>15. InvStart' /\ InvAsked' /\ InvSnapped' /\ InvWork'
  BY <1>3 DEF TrackInv, InvStart, InvAsked, InvSnapped, InvWork
<1> QED
  BY <1>12, <1>13, <1>14, <1>15 DEF TrackInv

(* The chunks are those of the filtered track.                             *)
LEMMA BeginKeeps ==
    ASSUME TrackInv, Begin, UNCHANGED live
    PROVE  TrackInv'
<1> DEFINE kept == Filtered(trace)
<1>1. /\ phase = "trace" /\ drawn = <<>> /\ todo = <<>> /\ snapped = {}
      /\ trace' = trace /\ snapped' = snapped /\ spent' = spent /\ live' = live
      /\ trace \in Seq(Rows) /\ spent \in Nat
  BY DEF Begin, TrackInv, InvStart, InvTyped
<1>2. kept \in Seq(Points) /\ Ordered(kept)
  BY <1>1, FilteredIs DEF TrackInv, KeptOf
<1>3. Work(kept) \in Seq(NonEmpty)
  BY <1>2, WorkJoins
<1>4. \/ /\ ~Enabled \/ Len(kept) < 2
         /\ phase' = "done" /\ todo' = todo
         /\ drawn' = IF kept = <<>> THEN <<>> ELSE <<Piece(kept, "raw", kept)>>
      \/ /\ Enabled /\ Len(kept) >= 2
         /\ phase' = "match" /\ todo' = Work(kept) /\ drawn' = drawn
  <2>1. Len(kept) \in Nat
    BY <1>2
  <2>2. CASE ~Enabled \/ Len(kept) < 2
    BY <2>2 DEF Begin
  <2>3. CASE ~(~Enabled \/ Len(kept) < 2)
    <3>1. Len(kept) >= 2
      BY <2>1, <2>3
    <3> QED
      BY <2>3, <3>1 DEF Begin
  <2> QED
    BY <2>2, <2>3
<1>5. Filtered(trace') = kept
  BY <1>1
<1>6. drawn' \in Seq(Pieces)
  <2>1. Piece(kept, "raw", kept) \in Pieces
    BY <1>2 DEF Piece, Pieces
  <2>2. <<Piece(kept, "raw", kept)>> \in Seq(Pieces) /\ <<>> \in Seq(Pieces)
    BY <2>1
  <2> QED
    BY <1>1, <1>4, <2>2
<1> HIDE DEF kept
<1>7. InvTyped'
  <2>1. <<>> \in Seq(NonEmpty)
    OBVIOUS
  <2>2. todo' \in Seq(NonEmpty)
    BY <1>1, <1>3, <1>4, <2>1 DEF kept
  <2>3. snapped' \subseteq Points /\ phase' \in {"trace", "match", "route", "done"}
    BY <1>1, <1>4
  <2> QED
    BY <1>1, <1>6, <2>2, <2>3 DEF InvTyped
<1>8. Ordered(trace)' /\ InvLive'
  BY <1>1 DEF TrackInv, Ordered, InvLive
<1>9. InvStart' /\ InvAsked' /\ InvSnapped'
  BY <1>1, <1>4, <1>5 DEF InvStart, InvAsked, InvSnapped
<1>10. InvWork'
  <2>1. CASE ~Enabled \/ Len(kept) < 2
    BY <1>2, <1>5, <2>1 DEF InvWork
  <2>2. CASE Enabled /\ phase' = "match" /\ todo' = Work(kept) /\ drawn' = drawn
    <3>1. Shares(Work(kept))'
      BY <1>1, <1>3, <1>5, <2>2 DEF Shares, DrawnFor, LeftToDo, kept
    <3> QED
      BY <1>5, <3>1 DEF InvWork, kept
  <2> QED
    BY <1>4, <2>1, <2>2
<1> QED
  BY <1>7, <1>8, <1>9, <1>10 DEF TrackInv

(* Pieces of the first chunk that is left are drawn.                       *)
LEMMA DrawKeeps ==
    ASSUME TrackInv, phase \in {"match", "route"}, todo # <<>>,
           drawn' \in Seq(Pieces), Len(drawn') > Len(drawn),
           \A n \in 1 .. Len(drawn) : drawn'[n] = drawn[n],
           \A n \in Len(drawn) + 1 .. Len(drawn') :
              drawn'[n].chunk = Head(todo) /\ OfChunk(drawn'[n]),
           todo' = Tail(todo), phase' = "match",
           trace' = trace, live' = live, spent' \in Nat,
           snapped' \subseteq snapped \cup ToSet(Head(todo))
    PROVE  TrackInv'
<1> DEFINE kept == Filtered(trace)
<1>1. /\ trace \in Seq(Rows) /\ todo \in Seq(NonEmpty) /\ drawn \in Seq(Pieces)
      /\ snapped \subseteq Points
  BY DEF TrackInv, InvTyped
<1>2. kept \in Seq(Points) /\ Ordered(kept)
  BY <1>1, FilteredIs DEF TrackInv, KeptOf
<1>3. Enabled /\ Len(kept) >= 2 /\ Shares(Work(kept))
  BY DEF TrackInv, InvAsked, InvWork
<1>4. Filtered(trace') = kept
  OBVIOUS
<1>5. Work(kept) \in Seq(NonEmpty) /\ \A n \in 1 .. Len(Work(kept)) : Includes(kept, Work(kept)[n])
  BY <1>2, WorkJoins
<1> DEFINE work == Work(kept)
           head == Head(todo)
<1>6. /\ head \in NonEmpty /\ head = todo[1] /\ head \in Seq(Points)
      /\ Len(todo) >= 1 /\ Len(todo) \in Nat /\ Len(drawn) \in Nat /\ Len(drawn') \in Nat
  BY <1>1 DEF NonEmpty
<1>7. Work(Filtered(trace')) = work
  BY <1>4
<1>8. /\ \A n \in Len(drawn) + 1 .. Len(drawn') : drawn'[n].chunk = head /\ OfChunk(drawn'[n])
      /\ snapped' \subseteq snapped \cup ToSet(head)
  OBVIOUS
<1> HIDE DEF kept, work, head
<1>9. /\ todo' \in Seq(NonEmpty) /\ Len(todo') = Len(todo) - 1
      /\ \A n \in 1 .. Len(todo) - 1 : todo'[n] = todo[n + 1]
  BY <1>1, <1>6
<1>10. /\ \A n \in 1 .. Len(drawn) : \E m \in 1 .. Len(work) : drawn[n].chunk = work[m]
       /\ \A n \in 1 .. Len(drawn) : OfChunk(drawn[n])
       /\ \A n \in 1 .. Len(todo) : \E m \in 1 .. Len(work) : todo[n] = work[m]
       /\ \A m \in 1 .. Len(work) : DrawnFor(work[m]) \/ LeftToDo(work[m])
  BY <1>3 DEF Shares, work
<1>11. \E m \in 1 .. Len(work) : head = work[m]
  BY <1>6, <1>10
<1>12. Shares(work)'
  <2>1. ASSUME NEW n \in 1 .. Len(drawn')
        PROVE  (\E m \in 1 .. Len(work) : drawn'[n].chunk = work[m]) /\ OfChunk(drawn'[n])
    <3>1. CASE n \in 1 .. Len(drawn)
      <4>1. drawn'[n] = drawn[n]
        BY <3>1
      <4> QED
        BY <1>10, <3>1, <4>1
    <3>2. CASE n \in Len(drawn) + 1 .. Len(drawn')
      BY <1>8, <1>11, <3>2
    <3> QED
      BY <1>6, <3>1, <3>2
  <2>2. ASSUME NEW n \in 1 .. Len(todo') PROVE \E m \in 1 .. Len(work) : todo'[n] = work[m]
    <3>1. n + 1 \in 1 .. Len(todo) /\ todo'[n] = todo[n + 1]
      BY <1>6, <1>9
    <3> QED
      BY <1>10, <3>1
  <2>3. ASSUME NEW m \in 1 .. Len(work) PROVE DrawnFor(work[m])' \/ LeftToDo(work[m])'
    <3>1. work' = work
      BY <1>7 DEF work, kept
    <3>2. CASE DrawnFor(work[m])
      <4>1. PICK n \in 1 .. Len(drawn) : drawn[n].chunk = work[m]
        BY <3>2 DEF DrawnFor
      <4>2. n \in 1 .. Len(drawn') /\ drawn'[n].chunk = work[m]
        BY <1>6, <4>1
      <4> QED
        BY <3>1, <4>2 DEF DrawnFor
    <3>3. CASE work[m] = head
      <4>1. Len(drawn') \in 1 .. Len(drawn') /\ Len(drawn') \in Len(drawn) + 1 .. Len(drawn')
        BY <1>6
      <4>2. drawn'[Len(drawn')].chunk = work[m]
        BY <1>8, <3>3, <4>1
      <4> QED
        BY <3>1, <4>1, <4>2 DEF DrawnFor
    <3>4. CASE LeftToDo(work[m]) /\ work[m] # head
      <4>1. PICK n \in 1 .. Len(todo) : todo[n] = work[m]
        BY <3>4 DEF LeftToDo
      <4>2. n # 1
        BY <1>6, <3>4, <4>1
      <4>3. n - 1 \in 1 .. Len(todo) - 1 /\ (n - 1) + 1 = n
        BY <1>6, <4>2
      <4>4. n - 1 \in 1 .. Len(todo') /\ todo'[n - 1] = work[m]
        BY <1>9, <4>1, <4>3
      <4> QED
        BY <3>1, <4>4 DEF LeftToDo
    <3> QED
      BY <1>10, <3>2, <3>3, <3>4
  <2>4. work' = work
    BY <1>7 DEF work, kept
  <2> QED
    BY <2>1, <2>2, <2>3, <2>4 DEF Shares, OfChunk
<1>13. \A p \in ToSet(head) : \E k \in 1 .. Len(kept) : kept[k] = p
  <2>1. Includes(kept, head)
    BY <1>5, <1>11 DEF work
  <2>2. \A p \in ToSet(head) : \E i \in 1 .. Len(head) : p = head[i]
    BY <1>6 DEF ToSet
  <2> QED
    BY <2>1, <2>2 DEF Includes
<1>14. ToSet(head) \subseteq Points
  BY <1>6 DEF ToSet
<1>15. InvTyped'
  BY <1>1, <1>8, <1>9, <1>14 DEF InvTyped
<1>16. Ordered(trace)' /\ InvLive'
  BY DEF TrackInv, Ordered, InvLive
<1>17. InvStart' /\ InvAsked'
  BY <1>3, <1>4 DEF InvStart, InvAsked, kept
<1>18. InvSnapped'
  <2>1. \A p \in snapped : \E k \in 1 .. Len(kept) : kept[k] = p
    BY DEF TrackInv, InvSnapped, kept
  <2>2. \A p \in snapped' : \E k \in 1 .. Len(kept) : kept[k] = p
    BY <1>8, <1>13, <2>1
  <2> QED
    BY <1>4, <2>2 DEF InvSnapped
<1>19. InvWork'
  BY <1>7, <1>12 DEF InvWork, work, kept
<1> QED
  BY <1>15, <1>16, <1>17, <1>18, <1>19 DEF TrackInv

(* One more chunk is drawn as a whole.                                     *)
LEMMA AddKeeps ==
    ASSUME TrackInv, phase \in {"match", "route"}, todo # <<>>,
           NEW how \in {"raw", "match", "route"}, Add(how), phase' = "match",
           trace' = trace, live' = live, spent' \in Nat,
           snapped' \subseteq snapped \cup ToSet(Head(todo))
    PROVE  TrackInv'
<1> DEFINE head == Head(todo)
           piece == Piece(head, how, head)
<1>1. todo \in Seq(NonEmpty) /\ drawn \in Seq(Pieces)
  BY DEF TrackInv, InvTyped
<1>2. head \in Seq(Points)
  BY <1>1 DEF NonEmpty
<1>3. piece \in Pieces /\ piece.chunk = head /\ OfChunk(piece)
  BY <1>2 DEF Piece, Pieces, OfChunk
<1>4. drawn' = Append(drawn, piece) /\ todo' = Tail(todo)
  BY DEF Add
<1> HIDE DEF piece
<1>5. /\ drawn' \in Seq(Pieces) /\ Len(drawn') = Len(drawn) + 1 /\ Len(drawn) \in Nat
      /\ drawn'[Len(drawn) + 1] = piece
      /\ \A n \in 1 .. Len(drawn) : drawn'[n] = drawn[n]
  BY <1>1, <1>3, <1>4
<1>6. \A n \in Len(drawn) + 1 .. Len(drawn') : n = Len(drawn) + 1
  BY <1>5
<1>7. \A n \in Len(drawn) + 1 .. Len(drawn') : drawn'[n].chunk = Head(todo) /\ OfChunk(drawn'[n])
  BY <1>3, <1>5, <1>6
<1>8. Len(drawn') > Len(drawn)
  BY <1>5
<1> QED
  BY <1>4, <1>5, <1>7, <1>8, DrawKeeps

(* The segments of an answer are of the chunk, as are the points that it   *)
(* has coordinates for.                                                    *)
LEMMA AnswersAre ==
    ASSUME NEW c \in Seq(Points), NEW m \in Answers(c)
    PROVE  /\ Segments(c, m) \in Seq(Pieces) /\ Len(Segments(c, m)) >= 1
           /\ \A k \in 1 .. Len(Segments(c, m)) :
                 Segments(c, m)[k].chunk = c /\ OfChunk(Segments(c, m)[k])
           /\ PointsOf(c, UNION Range(m)) \subseteq ToSet(c)
<1> DEFINE segments == {S \in SUBSET (1 .. Len(c)) : \E i, j \in S : i < j}
           Of(n) == {x \in [1 .. n -> segments] : \A k \in 2 .. n : \A i \in x[k - 1], j \in x[k] : i < j}
<1>1. PICK n \in 1 .. Len(c) \div 2 : m \in [1 .. n -> SUBSET (1 .. Len(c))]
  <2>1. m \in UNION {Of(n) : n \in 1 .. Len(c) \div 2}
    BY DEF Answers
  <2> HIDE DEF Of
  <2>2. PICK n \in 1 .. Len(c) \div 2 : m \in Of(n)
    BY <2>1
  <2>3. m \in [1 .. n -> segments]
    BY <2>2 DEF Of
  <2> QED
    BY <2>3
<1> HIDE DEF segments, Of
<1>2. n \in Nat /\ n >= 1 /\ Len(m) = n
  BY <1>1
<1>3. ASSUME NEW S \in SUBSET (1 .. Len(c)) PROVE PointsOf(c, S) \subseteq ToSet(c)
  BY DEF PointsOf, ToSet
<1>4. UNION Range(m) \in SUBSET (1 .. Len(c))
  BY <1>1 DEF Range
<1>5. ASSUME NEW k \in 1 .. n
      PROVE  LET piece == Piece(Only(c, PointsOf(c, m[k])), "match", c)
             IN  piece \in Pieces /\ piece.chunk = c /\ OfChunk(piece)
  <2> DEFINE u == Only(c, PointsOf(c, m[k]))
  <2>1. u \in Seq(Points) /\ \A i \in 1 .. Len(u) : \E j \in 1 .. Len(c) : u[i] = c[j]
    <3> DEFINE S == PointsOf(c, m[k])
    <3> HIDE DEF S
    <3>1. Only(c, S) \in Seq(Points \cap S) /\ Selects(Only(c, S), c, S)
      BY OnlyIs
    <3>2. u = Only(c, S)
      BY DEF S
    <3> HIDE DEF u
    <3>3. \A i \in 1 .. Len(u) : \E j \in 1 .. Len(c) : u[i] = c[j]
      BY <3>1, <3>2, Zenon DEF Selects
    <3>4. \A x \in Seq(Points \cap S) : x \in Seq(Points)
      BY SMTT(30)
    <3>5. u \in Seq(Points)
      BY <3>1, <3>2, <3>4, Zenon
    <3> QED
      BY <3>3, <3>5
  <2> HIDE DEF u
  <2>2. ToSet(u) \subseteq ToSet(c)
    BY <2>1 DEF ToSet
  <2> QED
    BY <2>1, <2>2 DEF Piece, Pieces, OfChunk, u
<1> DEFINE P(k) == Piece(Only(c, PointsOf(c, m[k])), "match", c)
<1>6. Segments(c, m) = [k \in 1 .. n |-> P(k)]
  BY <1>2 DEF Segments
<1> HIDE DEF P
<1>7. \A k \in 1 .. n : P(k) \in Pieces /\ P(k).chunk = c /\ OfChunk(P(k))
  BY <1>5 DEF P
<1>8. /\ Segments(c, m) \in Seq(Pieces) /\ Len(Segments(c, m)) = n
      /\ \A k \in 1 .. n : Segments(c, m)[k] = P(k)
  BY <1>2, <1>6, <1>7
<1> QED
  BY <1>2, <1>3, <1>4, <1>7, <1>8

(* Every step of the specification keeps the invariant.                    *)
LEMMA TrackStep == TrackInv /\ [TrackNext]_<<vars, live>> => TrackInv'
<1> SUFFICES ASSUME TrackInv, [TrackNext]_<<vars, live>> PROVE TrackInv'
  OBVIOUS
<1> DEFINE Kept == TrackInv'
<1>1. ASSUME NEW place \in Places \cup {NoFix}, Arrive(place) PROVE Kept
  BY <1>1, ArriveKeeps
<1>2. ASSUME Begin, UNCHANGED live PROVE Kept
  BY <1>2, BeginKeeps
<1>3. /\ spent \in Nat /\ todo \in Seq(NonEmpty) /\ snapped \subseteq Points
      /\ phase = "route" => todo # <<>>
      /\ Limit \in Nat
  BY SizesAssumption DEF TrackInv, InvTyped, InvAsked
<1>4. ASSUME Single, UNCHANGED live PROVE Kept
  <2>1. /\ phase \in {"match", "route"} /\ todo # <<>> /\ Add("raw") /\ phase' = "match"
        /\ trace' = trace /\ live' = live /\ spent' \in Nat
        /\ snapped' \subseteq snapped \cup ToSet(Head(todo))
    BY <1>3, <1>4 DEF Single
  <2> QED
    BY <2>1, AddKeeps
<1>5. ASSUME Match, UNCHANGED live PROVE Kept
  <2>1. /\ phase = "match" /\ todo # <<>> /\ trace' = trace /\ live' = live
        /\ \E t \in 0 .. Limit : Takes(t)
    BY <1>5 DEF Match
  <2>2. spent' \in Nat
    BY <1>3, <2>1 DEF Takes
  <2>3. CASE \E m \in Answers(Head(todo)) :
                  /\ drawn' = drawn \o Segments(Head(todo), m)
                  /\ snapped' = snapped \cup PointsOf(Head(todo), UNION Range(m))
                  /\ todo' = Tail(todo) /\ UNCHANGED phase
    <3> DEFINE head == Head(todo)
    <3>1. PICK m \in Answers(head) :
              /\ drawn' = drawn \o Segments(head, m)
              /\ snapped' = snapped \cup PointsOf(head, UNION Range(m))
              /\ todo' = Tail(todo) /\ UNCHANGED phase
      BY <2>3
    <3>2. head \in Seq(Points) /\ drawn \in Seq(Pieces)
      BY <1>3, <2>1 DEF NonEmpty, TrackInv, InvTyped
    <3> DEFINE more == Segments(head, m)
    <3>3. /\ more \in Seq(Pieces) /\ Len(more) >= 1
          /\ \A k \in 1 .. Len(more) : more[k].chunk = head /\ OfChunk(more[k])
          /\ PointsOf(head, UNION Range(m)) \subseteq ToSet(head)
      BY <3>2, AnswersAre
    <3> HIDE DEF more
    <3>4. /\ drawn' \in Seq(Pieces) /\ Len(drawn') = Len(drawn) + Len(more)
          /\ Len(drawn) \in Nat /\ Len(more) \in Nat
          /\ \A n \in 1 .. Len(drawn) : drawn'[n] = drawn[n]
          /\ \A n \in Len(drawn) + 1 .. Len(drawn') : drawn'[n] = more[n - Len(drawn)]
      BY <3>1, <3>2, <3>3 DEF more
    <3>5. ASSUME NEW n \in Len(drawn) + 1 .. Len(drawn')
          PROVE  drawn'[n].chunk = head /\ OfChunk(drawn'[n])
      <4>1. n - Len(drawn) \in 1 .. Len(more)
        BY <3>4
      <4> QED
        BY <3>3, <3>4, <4>1
    <3>6. Len(drawn') > Len(drawn)
      BY <3>3, <3>4
    <3>7. snapped' \subseteq snapped \cup ToSet(head)
      BY <3>1, <3>3
    <3>8. phase \in {"match", "route"} /\ phase' = "match" /\ todo' = Tail(todo)
      BY <2>1, <3>1
    <3> QED
      BY <2>1, <2>2, <3>4, <3>5, <3>6, <3>7, <3>8, DrawKeeps
  <2>4. CASE phase' = "route" /\ UNCHANGED <<drawn, todo, snapped>>
    BY <2>1, <2>2, <2>4 DEF TrackInv, InvTyped, Ordered, InvLive, InvStart, InvAsked,
       InvSnapped, InvWork, Shares, DrawnFor, LeftToDo
  <2> QED
    BY <1>5, <2>3, <2>4 DEF Match
<1>6. ASSUME Route, UNCHANGED live PROVE Kept
  <2>1. /\ phase = "route" /\ todo # <<>> /\ phase' = "match" /\ trace' = trace /\ live' = live
        /\ \E t \in 0 .. Limit : Takes(t)
    BY <1>3, <1>6 DEF Route
  <2>2. spent' \in Nat
    BY <1>3, <2>1 DEF Takes
  <2>3. \E how \in {"raw", "match", "route"} :
           Add(how) /\ snapped' \subseteq snapped \cup ToSet(Head(todo))
    BY <1>6 DEF Route
  <2> QED
    BY <2>1, <2>2, <2>3, AddKeeps
<1>7. ASSUME OutOfTime, UNCHANGED live PROVE Kept
  <2>1. /\ phase \in {"match", "route"} /\ todo # <<>> /\ Add("raw") /\ phase' = "match"
        /\ trace' = trace /\ live' = live /\ spent' \in Nat
        /\ snapped' \subseteq snapped \cup ToSet(Head(todo))
    BY <1>3, <1>7 DEF OutOfTime
  <2> QED
    BY <2>1, AddKeeps
<1>8. ASSUME Finish, UNCHANGED live PROVE Kept
  BY <1>3, <1>8 DEF Finish, TrackInv, InvTyped, Ordered, InvLive, InvStart, InvAsked,
     InvSnapped, InvWork, Shares, DrawnFor, LeftToDo
<1>9. ASSUME UNCHANGED <<vars, live>> PROVE Kept
  BY <1>9 DEF vars, TrackInv, InvTyped, Ordered, InvLive, InvStart, InvAsked, InvSnapped,
     InvWork, Shares, DrawnFor, LeftToDo
<1> QED
  <2>1. CASE Adjust /\ UNCHANGED live
    BY <2>1, <1>2, <1>4, <1>5, <1>6, <1>7, <1>8, <1>9 DEF Adjust, Done
  <2> QED
    BY <1>1, <1>9, <2>1 DEF TrackNext

(* The invariant holds of whatever arrives and whatever the services       *)
(* answer.                                                                 *)
LEMMA TrackInvariant == TrackSpec => []TrackInv
<1> QED
  BY TrackStarts, TrackStep, PTL DEF TrackSpec

(***************************************************************************)
(* What it implies.                                                        *)
(***************************************************************************)

(* The types of the variables.                                             *)
THEOREM TrackTyped == TrackSpec => []TypeOK
<1>1. TrackInv => TypeOK
  BY DEF TrackInv, InvTyped, TypeOK, NonEmpty
<1> QED
  BY <1>1, TrackInvariant, PTL

(* The places of the rows are a track of Movement.                         *)
LEMMA WayIs == ASSUME NEW s \in Seq(Rows)
               PROVE  Way(s) \in Tracks /\ Len(Way(s)) = Len(s)
                      /\ \A k \in 1 .. Len(s) : Way(s)[k] = s[k].place
<1>1. \A k \in 1 .. Len(s) : s[k].place \in Int \cup {NoFix}
  <2> SUFFICES ASSUME NEW k \in 1 .. Len(s) PROVE s[k].place \in Int \cup {NoFix}
    OBVIOUS
  <2>1. s[k] \in Rows
    OBVIOUS
  <2> QED
    BY <2>1, PlacesAssumption DEF Rows
<1> QED
  BY <1>1 DEF Way, Tracks

(* Only a row in a run that is long enough and stays within the radius of  *)
(* its first fix is marked as stopped; and a stay of 2 * MinPulses - 2     *)
(* fixes within the radius of one another is not missed: fewer than        *)
(* MinPulses of them are moving.  Whatever arrives, and however many rows  *)
(* there are.                                                              *)
THEOREM StopsAreRunsHolds == TrackSpec => []StopsAreRuns
<1>1. TrackInv => StopsAreRuns
  <2> SUFFICES ASSUME TrackInv PROVE M!StoppedInRun /\ M!StayIsStopped
    BY DEF StopsAreRuns, M!StopsAreRuns
  <2> DEFINE t == Way(trace)
  <2>1. t \in Tracks
    BY WayIs DEF TrackInv, InvTyped
  <2>2. M!StoppedInRun
    BY <2>1, StopsAreRunsOfATrack DEF M!StoppedInRun, Way
  <2>3. M!StayIsStopped
    <3>1. ASSUME NEW a \in 1 .. Len(t), NEW e \in 1 .. Len(t),
                 \A i, j \in a .. e : /\ M!Usable(t[i]) /\ M!Usable(t[j])
                                     /\ M!Distance(t[i], t[j]) <= Radius,
                 e - a + 1 >= 2 * MinPulses - 2
          PROVE  M!Cardinality({i \in a .. e : M!Annotate(t)[i].state = "moving"}) < MinPulses
      <4>1. Cardinality({i \in a .. e : M!Annotate(t)[i].state = "moving"}) < MinPulses
        BY <2>1, <3>1, StaysOfATrack
      <4> QED
        BY <4>1, SameCardinality
    <3> QED
      BY <3>1 DEF M!StayIsStopped, M!Stay, Way
  <2> QED
    BY <2>2, <2>3
<1> QED
  BY <1>1, TrackInvariant, PTL

(* Three fixes at one place are stopped in the history and in the state    *)
(* that is published, and the latter does not begin the stop too early.    *)
THEOREM ParkedIsStoppedHolds == TrackSpec => []ParkedIsStopped
<1>1. TrackInv => ParkedIsStopped
  <2> SUFFICES ASSUME TrackInv PROVE M!ParkedIsStopped
    BY DEF ParkedIsStopped
  <2> DEFINE t == Way(trace)
             n == Len(t)
  <2>1. t \in Tracks
    BY WayIs DEF TrackInv, InvTyped
  <2>2. n >= 3 => live = M!Current(t)
    BY WayIs DEF TrackInv, InvTyped, InvLive
  <2>3. n >= 3 /\ (\A j \in n - 2 .. n : M!Usable(t[j]) /\ t[j] = t[n]) =>
          LET marks == M!Annotate(t) IN
          /\ marks[n].state = "stopped" /\ live.state = "stopped"
          /\ marks[n].since <= live.since /\ live.since <= n - 2
    <3> SUFFICES ASSUME n >= 3, \A j \in n - 2 .. n : M!Usable(t[j]) /\ t[j] = t[n]
                 PROVE  /\ M!Annotate(t)[n].state = "stopped" /\ live.state = "stopped"
                        /\ M!Annotate(t)[n].since <= live.since /\ live.since <= n - 2
      OBVIOUS
    <3>1. n \in Nat
      BY <2>1 DEF Tracks
    <3> QED
      BY <2>1, <2>2, <3>1, ParkedTrack
  <2> QED
    BY <2>3 DEF M!ParkedIsStopped, Way
<1> QED
  BY <1>1, TrackInvariant, PTL

(* What arrives later never takes a stop back nor moves its beginning.     *)
THEOREM StopsAreKeptHolds == TrackSpec => StopsAreKept
<1>1. TrackInv /\ [TrackNext]_<<vars, live>> => [phase = "trace" => M!StopIsKept]_trace
  <2> SUFFICES ASSUME TrackInv, [TrackNext]_<<vars, live>>, trace' # trace, phase = "trace"
               PROVE  M!StopIsKept
    OBVIOUS
  <2>1. PICK place \in Places \cup {NoFix} : Arrive(place)
    BY DEF TrackNext, Adjust, Begin, Single, Match, Route, OutOfTime, Finish, Done, vars
  <2>2. TrackInv'
    BY <2>1, ArriveKeeps
  <2>3. trace \in Seq(Rows) /\ trace' \in Seq(Rows)
    BY <2>2 DEF TrackInv, InvTyped
  <2>4. \E row : trace' = Append(trace, row)
    BY <2>1 DEF Arrive, Point
  <2>5. Len(trace) <= Len(trace') /\ \A k \in 1 .. Len(trace) : trace'[k] = trace[k]
    BY <2>3, <2>4
  <2> DEFINE t == Way(trace)
             u == Way(trace')
  <2>6. /\ t \in Tracks /\ Len(t) = Len(trace)
        /\ \A k \in 1 .. Len(trace) : t[k] = trace[k].place
    BY <2>3, WayIs
  <2>7. /\ u \in Tracks /\ Len(u) = Len(trace')
        /\ \A k \in 1 .. Len(trace') : u[k] = trace'[k].place
    BY <2>3, WayIs
  <2>8. Len(t) <= Len(u) /\ \A k \in 1 .. Len(t) : u[k] = t[k]
    BY <2>3, <2>5, <2>6, <2>7
  <2> HIDE DEF t, u
  <2>9. \A i \in 1 .. Len(t) : M!Annotate(t)[i].state = "stopped" =>
           /\ M!Annotate(u)[i].state = "stopped"
           /\ M!Annotate(u)[i].since = M!Annotate(t)[i].since
           /\ M!Annotate(u)[i].pulses >= M!Annotate(t)[i].pulses
    BY <2>6, <2>7, <2>8, StopsAreKeptInATrack
  <2> QED
    BY <2>9 DEF M!StopIsKept, Way, t, u
<1> QED
  BY <1>1, TrackInvariant, PTL DEF TrackSpec, StopsAreKept

(* There is a line to draw whenever there is a fix, and each has two       *)
(* points or more, unless there is one fix.                                *)
THEOREM RouteIsDrawableHolds == TrackSpec => []RouteIsDrawable
<1>1. TrackInv => RouteIsDrawable
  <2> SUFFICES ASSUME TrackInv, Valid(trace) # <<>>
               PROVE  LET feature == Feature(Valid(trace)) IN
                      /\ feature.lines # <<>>
                      /\ (feature.type = "Point") = (Len(Valid(trace)) = 1)
                      /\ feature.type # "Point" =>
                            \A k \in 1 .. Len(feature.lines) : Len(feature.lines[k]) >= 2
    BY DEF RouteIsDrawable
  <2> DEFINE fixes == Valid(trace)
             long == {piece \in ToSet(drawn) : Len(piece.points) >= 2}
             drawable == Only(drawn, long)
  <2>1. trace \in Seq(Rows) /\ drawn \in Seq(Pieces)
    BY DEF TrackInv, InvTyped
  <2>2. fixes \in Seq(Points) /\ fixes # <<>>
    BY <2>1, ValidIs
  <2>3. drawable \in Seq(Pieces \cap long)
    BY <2>1, OnlyIs
  <2>4. Lines = [k \in 1 .. Len(drawable) |-> drawable[k].points]
    BY DEF Lines
  <2> HIDE DEF drawable
  <2>5. Len(Lines) = Len(drawable) /\ Len(Lines) \in Nat
        /\ \A k \in 1 .. Len(drawable) : Lines[k] = drawable[k].points
    BY <2>3, <2>4
  <2>6. ASSUME NEW k \in 1 .. Len(Lines) PROVE Len(Lines[k]) >= 2
    <3>1. drawable[k] \in long
      BY <2>3, <2>5
    <3> QED
      BY <2>5, <3>1
  <2>7. Len(fixes) \in Nat /\ Len(fixes) >= 1
    BY <2>2
  <2> HIDE DEF fixes, long
  <2> DEFINE lines == IF Lines = <<>> /\ Len(fixes) >= 2 THEN <<fixes>> ELSE Lines
  <2>8. Len(fixes) # 1 => /\ lines # <<>>
                          /\ \A k \in 1 .. Len(lines) : Len(lines[k]) >= 2
    <3> SUFFICES ASSUME Len(fixes) # 1
                 PROVE  lines # <<>> /\ \A k \in 1 .. Len(lines) : Len(lines[k]) >= 2
      OBVIOUS
    <3>1. CASE Lines = <<>>
      <4>1. Len(fixes) >= 2
        <5> HIDE DEF lines
        <5>1. \A n \in Nat : n >= 1 /\ n # 1 => n >= 2
          OBVIOUS
        <5> QED
          BY <2>7, <5>1, Zenon
      <4>2. lines = <<fixes>>
        BY <3>1, <4>1
      <4> QED
        BY <4>1, <4>2
    <3>2. CASE Lines # <<>>
      BY <2>6, <3>2
    <3> QED
      BY <3>1, <3>2
  <2>9. CASE Len(fixes) = 1
    <3>1. Feature(fixes) = [type |-> "Point", lines |-> <<fixes>>]
      BY <2>9 DEF Feature
    <3> QED
      BY <2>9, <3>1 DEF fixes
  <2>10. CASE Len(fixes) # 1
    <3>1. Feature(fixes).lines = lines /\ Feature(fixes).type # "Point"
      BY <2>10 DEF Feature
    <3> QED
      BY <2>8, <2>10, <3>1 DEF fixes
  <2> QED
    BY <2>9, <2>10
<1> QED
  BY <1>1, TrackInvariant, PTL

(* Once the first pulse of a stop has coordinates on the road, every pulse *)
(* of the stop is shown there.                                             *)
THEOREM StopsStayOnRoadsHolds == TrackSpec => []StopsStayOnRoads
<1>1. TrackInv => StopsStayOnRoads
  <2> DEFINE t == Way(trace)
  <2> SUFFICES ASSUME TrackInv, NEW i \in 1 .. Len(trace),
                      M!Annotate(t)[i].state = "stopped",
                      trace[M!Annotate(t)[i].since] \in snapped
               PROVE  trace[i] \in SnappedPoints
    BY DEF StopsStayOnRoads, Way
  <2> DEFINE c == M!Annotate(t)[i].since
             e == c + M!Annotate(t)[i].pulses - 1
  <2>1. trace \in Seq(Rows) /\ snapped \subseteq Points
    BY DEF TrackInv, InvTyped
  <2>2. /\ t \in Tracks /\ Len(t) = Len(trace)
        /\ \A k \in 1 .. Len(trace) : t[k] = trace[k].place
    BY <2>1, WayIs
  <2>3. i \in c .. e /\ \A j \in c .. e : M!Usable(t[j]) /\ M!Distance(t[c], t[j]) <= Radius
    BY <2>2, StopsAreRunsOfATrack
  <2>4. trace[i].place # NoFix /\ t[i] = trace[i].place
    BY <2>2, <2>3 DEF M!Usable
  <2> DEFINE p == trace[c]
  <2>5. p \in Points
    BY <2>1
  <2>6. t[c] = p.place
    <3>1. M!Annotate(t)[i] = M!Stopped(M!Annotate(t)[i].pulses, c) /\ c \in 1 .. i
      <4> DEFINE start == M!ClusterStart(t)
      <4>1. Starts(t, start)
        BY <2>2, ClusterStartIs
      <4>2. start[i] \in 1 .. i
        BY <2>2, <2>4, <4>1, ClustersAreRuns DEF M!Usable
      <4> HIDE DEF start
      <4>3. \E n : M!Annotate(t)[i] = IF M!Usable(t[i]) /\ MinPulses <= n
                                      THEN M!Stopped(n, start[i]) ELSE M!Moving
        BY <2>2, AnnotateIs DEF start
      <4> QED
        BY <4>2, <4>3 DEF M!Stopped, M!Moving
    <3> QED
      BY <2>1, <2>2, <3>1
  <2>7. M!Distance(t[c], t[i]) <= Radius
    BY <2>3
  <2>8. p.place \in Int /\ trace[i].place \in Int
    <3>1. trace[i] \in Rows
      BY <2>1
    <3> QED
      BY <2>4, <2>5, <3>1, PlacesAssumption DEF Points, Rows
  <2> HIDE DEF t, c, e, p
  <2>9. Near(trace[i], p)
    BY <2>4, <2>6, <2>7, <2>8, StopsAssumption DEF Near, Distance, M!Distance
  <2>10. p \in snapped
    BY DEF p, c, t
  <2>11. \E k \in 1 .. Len(Filtered(trace)) : Filtered(trace)[k] = p
    BY <2>10 DEF TrackInv, InvSnapped
  <2> QED
    BY <2>1, <2>4, <2>9, <2>10, <2>11, Inherited
<1> QED
  BY <1>1, TrackInvariant, PTL

(* Two points in a row of the filtered track that are no more than Gap     *)
(* apart are drawn in one piece, unless Match was asked for both and drew  *)
(* their chunk as it liked; those further apart never are: whatever was    *)
(* answered, failed or was given up.                                       *)
THEOREM CutExactlyAtGapsHolds == TrackSpec => []CutExactlyAtGaps
<1>1. TrackInv => CutExactlyAtGaps
  <2> DEFINE kept == Filtered(trace)
             work == Work(kept)
  <2> SUFFICES ASSUME TrackInv, phase = "done", Enabled, NEW k \in 1 .. Len(kept) - 1
               PROVE  IF kept[k + 1].time - kept[k].time <= Gap
                      THEN InOnePiece(kept[k], kept[k + 1]) \/ AskedTogether(kept[k], kept[k + 1])
                      ELSE ~InOnePiece(kept[k], kept[k + 1])
    BY DEF CutExactlyAtGaps
  <2>1. kept \in Seq(Points) /\ Ordered(kept)
    BY FilteredIs DEF TrackInv, InvTyped, KeptOf
  <2>2. Len(kept) >= 2
    BY <2>1
  <2>3. Shares(work) /\ todo = <<>>
    BY <2>2 DEF TrackInv, InvWork, InvAsked
  <2>4. drawn \in Seq(Pieces) /\ work \in Seq(NonEmpty)
    BY <2>1, WorkJoins DEF TrackInv, InvTyped
  <2>5. kept[k + 1].time - kept[k].time <= Gap
        <=> \E n \in 1 .. Len(work) : {kept[k], kept[k + 1]} \subseteq ToSet(work[n])
    BY <2>1, WorkJoins
  <2>6. \A m \in 1 .. Len(work) : DrawnFor(work[m])
    BY <2>3 DEF Shares, LeftToDo
  <2>7. \A n \in 1 .. Len(drawn) : /\ \E m \in 1 .. Len(work) : drawn[n].chunk = work[m]
                                   /\ OfChunk(drawn[n])
    BY <2>3 DEF Shares
  <2> HIDE DEF kept, work
  <2>8. CASE kept[k + 1].time - kept[k].time <= Gap
    <3>1. PICK m \in 1 .. Len(work) : {kept[k], kept[k + 1]} \subseteq ToSet(work[m])
      BY <2>5, <2>8
    <3>2. PICK n \in 1 .. Len(drawn) : drawn[n].chunk = work[m]
      BY <2>6 DEF DrawnFor
    <3>3. CASE drawn[n].how = "match"
      BY <2>8, <3>1, <3>2, <3>3 DEF AskedTogether
    <3>4. CASE drawn[n].how # "match"
      <4>1. drawn[n].points = work[m]
        BY <2>7, <3>2, <3>4 DEF OfChunk
      <4> QED
        BY <2>8, <3>1, <4>1 DEF InOnePiece
    <3> QED
      BY <3>3, <3>4
  <2>9. CASE ~(kept[k + 1].time - kept[k].time <= Gap)
    <3>1. ASSUME NEW n \in 1 .. Len(drawn), {kept[k], kept[k + 1]} \subseteq ToSet(drawn[n].points)
          PROVE  FALSE
      <4>1. PICK m \in 1 .. Len(work) : drawn[n].chunk = work[m]
        BY <2>7
      <4>2. {kept[k], kept[k + 1]} \subseteq ToSet(work[m])
        BY <2>7, <3>1, <4>1 DEF OfChunk
      <4> QED
        BY <2>5, <2>9, <4>2
    <3> QED
      BY <2>9, <3>1 DEF InOnePiece
  <2> QED
    BY <2>8, <2>9
<1> QED
  BY <1>1, TrackInvariant, PTL

(***************************************************************************)
(* The line of the selected device.                                        *)
(***************************************************************************)

(* What a request that has been answered brings: what has come since it    *)
(* was read is late, or else stamped after the range.                      *)
ReadRight(r) ==
    r.read # Unread =>
        /\ r.read \in 0 .. Len(table)
        /\ \A k \in 1 .. Len(table) : table[k].late \/ k <= r.read \/ ~(table[k].minute < r.until)

(* The ranges end at a minute that has begun, and no two requests have the *)
(* same number.                                                            *)
RequestsKnown == /\ hasta <= now
                 /\ \A r \in requests : r.until <= now /\ r.id <= requestId /\ ReadRight(r)
                 /\ \A r, o \in requests : r.id = o.id => r = o

(* The answer that will be drawn is to what the panel shows now.           *)
LatestIsMeant == selected # None /\ chains = 0 =>
    \A r \in requests : IsCurrent(r) => r.adjust = adjust /\ r.until = hasta

(* Nothing more will be drawn for the selected device.                     *)
Owed == chains > 0 \/ \E r \in requests : IsCurrent(r)
Drawn == selected # None /\ ~Owed

OwnLine == Drawn /\ fate # "failed" => \A p \in line : table[p.pos].dev = selected
OnRoads == Drawn /\ fate # "failed" /\ adjust => \A p \in line : p.asked
Whole == Drawn /\ fate = "drawn" =>
    \A k \in 1 .. Len(table) :
        table[k].dev = selected /\ table[k].minute < hasta /\ (table[k].late => k <= known)
        => \E p \in line : p.pos = k
LineInv == OwnLine /\ OnRoads /\ Whole

PanelInv == ViewTypeOK /\ RequestsKnown /\ LatestIsMeant /\ LineInv

(* A sequence over a set is one over a larger set.                         *)
LEMMA WiderSeq ==
    ASSUME NEW S, NEW T, S \subseteq T, NEW q \in Seq(S)
    PROVE  q \in Seq(T)
<1>1. Len(q) \in Nat /\ q \in [1 .. Len(q) -> S]
    OBVIOUS
<1>2. q \in [1 .. Len(q) -> T]
    BY <1>1
<1> QED BY <1>1, <1>2

(* A request that is made now is the latest one, if a device is selected.  *)
LEMMA Loading ==
    ASSUME PanelInv, NEW quiet \in BOOLEAN, Load(hasta', adjust', quiet), hasta' \in 0 .. now,
           adjust' \in BOOLEAN, selected' = selected, trail' = trail, table' = table, now' = now
    PROVE  /\ requests' \subseteq Requests /\ requestId' \in Nat
           /\ RequestsKnown' /\ LatestIsMeant' /\ LineInv'
<1>1. /\ requests \subseteq Requests /\ requestId \in Nat /\ now \in 0 .. MaxMinute
      /\ selected \in Devices \cup {None} /\ MaxMinute \in Nat
    BY BoundsAssumption DEF PanelInv, ViewTypeOK
<1>2. requestId' = requestId + 1 /\ \A r \in requests : r.id \in Nat /\ r.id <= requestId
    BY <1>1 DEF Load, PanelInv, RequestsKnown, Requests
<1> USE DEF trail
<1>3. CASE selected = None
  <2>1. requests' = requests
      BY <1>3 DEF Load
  <2>2. RequestsKnown'
      BY <1>1, <1>2, <2>1 DEF PanelInv, RequestsKnown, ReadRight
  <2> QED BY <1>1, <1>2, <1>3, <2>1, <2>2
          DEF LatestIsMeant, LineInv, OwnLine, OnRoads, Whole, Drawn
<1>4. CASE selected # None
  <2> PICK new : new = [id |-> requestId', dev |-> selected, until |-> hasta',
                        adjust |-> adjust', read |-> Unread]
      OBVIOUS
  <2>1. requests' = requests \cup {new} /\ new \in Requests
      BY <1>1, <1>2, <1>4 DEF Load, Requests
  <2>2. IsCurrent(new)'
      BY DEF IsCurrent
  <2>3. \A r \in requests : ~IsCurrent(r)'
      BY <1>1, <1>2 DEF IsCurrent
  <2>4. RequestsKnown'
    <3>1. \A r \in requests : r.until <= now' /\ r.id <= requestId' /\ ReadRight(r)'
        BY <1>1, <1>2 DEF PanelInv, RequestsKnown, ReadRight
    <3>2. new.until <= now' /\ new.id <= requestId' /\ ReadRight(new)'
        BY <1>1, <1>2 DEF ReadRight
    <3>3. \A r \in requests : r.id # new.id
        BY <1>1, <1>2
    <3>4. hasta' <= now'
        BY <1>1
    <3> QED BY <2>1, <3>1, <3>2, <3>3, <3>4 DEF PanelInv, RequestsKnown
  <2>5. LatestIsMeant'
      BY <2>1, <2>3 DEF LatestIsMeant
  <2>6. Owed'
      BY <2>1, <2>2 DEF Owed
  <2> QED BY <1>1, <1>2, <2>1, <2>4, <2>5, <2>6 DEF LineInv, OwnLine, OnRoads, Whole, Drawn
<1> QED BY <1>3, <1>4

(* Steps that leave the track alone.                                       *)
LEMMA Elsewhere ==
    ASSUME PanelInv, UNCHANGED <<selected, adjust, hasta, chains, requestId, requests, trail>>,
           table' = table, now' >= now, now' \in Nat
    PROVE  RequestsKnown' /\ LatestIsMeant' /\ LineInv'
<1>1. now \in Nat /\ hasta \in Nat /\ \A r \in requests : r.until \in Nat
    BY BoundsAssumption DEF PanelInv, ViewTypeOK, Requests
<1>2. RequestsKnown'
    BY <1>1 DEF PanelInv, RequestsKnown, ReadRight
<1>3. LatestIsMeant' /\ LineInv'
    BY DEF PanelInv, LatestIsMeant, LineInv, OwnLine, OnRoads, Whole, Drawn, Owed, IsCurrent, trail
<1> QED BY <1>2, <1>3

(* Without a selection there is nothing to draw.                           *)
LEMMA Deselected ==
    ASSUME PanelInv, selected' = None, UNCHANGED <<hasta, now, requestId, requests, table>>
    PROVE  RequestsKnown' /\ LatestIsMeant' /\ LineInv'
BY DEF PanelInv, RequestsKnown, ReadRight, LatestIsMeant, LineInv, OwnLine, OnRoads, Whole, Drawn

(* The page when it opens.                                                 *)
LEMMA Beginning == ViewInit => PanelInv
<1> SUFFICES ASSUME ViewInit PROVE PanelInv
    OBVIOUS
<1>1. /\ table = <<>> /\ wire = <<>> /\ requests = {} /\ line = {} /\ fresh = {} /\ known = 0
      /\ <<>> \in Seq(Entries) /\ <<>> \in Seq(1 .. Len(table)) /\ Len(<<>>) = 0
    BY DEF ViewInit
<1>2. ViewTypeOK
  <2>1. /\ 0 \in 0 .. MaxMinute /\ Len(table) <= MaxPositions
        /\ table \in Seq(Entries) /\ wire \in Seq(1 .. Len(table))
      BY <1>1, BoundsAssumption
  <2>2. requests \subseteq Requests /\ line \subseteq LinePoints /\ fresh \subseteq 1 .. Len(table)
      BY <1>1
  <2>3. /\ shown \subseteq Devices /\ archived \subseteq Devices /\ removals \subseteq Devices
        /\ selected \in Devices \cup {None} /\ adjust \in BOOLEAN /\ timer \in BOOLEAN
      BY PanelAssumption DEF ViewInit
  <2>4. /\ known \in 0 .. Len(table) /\ fate \in {"none", "drawn", "failed"}
        /\ loading \in BOOLEAN
    <3>1. 0 \in 0 .. 0 /\ Len(table) = 0
        BY <1>1
    <3> QED BY <1>1, <3>1 DEF ViewInit
  <2>5. now \in 0 .. MaxMinute /\ hasta \in 0 .. MaxMinute
      BY <2>1 DEF ViewInit
  <2>6. requestId \in Nat /\ chains \in Nat /\ clicks \in Nat /\ fails \in Nat
      BY DEF ViewInit
  <2> QED BY <1>1, <2>1, <2>2, <2>3, <2>4, <2>5, <2>6 DEF ViewTypeOK
<1>3. RequestsKnown /\ LatestIsMeant /\ LineInv
    BY <1>1 DEF ViewInit, RequestsKnown, LatestIsMeant, LineInv, OwnLine, OnRoads, Whole, Drawn
<1> QED BY <1>2, <1>3 DEF PanelInv

(* A load from the panel, with the types of the rest.                      *)
LEMMA LoadKeeps ==
    ASSUME PanelInv, NEW quiet \in BOOLEAN, Load(hasta', adjust', quiet), hasta' \in {now, hasta},
           adjust' \in BOOLEAN, selected' = selected, trail' = trail, UNCHANGED <<server, wire, shown>>,
           chains' \in Nat, timer' \in BOOLEAN, clicks' \in Nat, fails' \in Nat, removals' = removals
    PROVE  PanelInv'
<1>1. loading' \in BOOLEAN
    BY DEF Load, PanelInv, ViewTypeOK
<1>2. hasta' \in 0 .. now /\ hasta' \in 0 .. MaxMinute /\ table' = table /\ now' = now
    BY BoundsAssumption, SMTT(30) DEF PanelInv, ViewTypeOK, RequestsKnown, server
<1>3. /\ requests' \subseteq Requests /\ requestId' \in Nat
      /\ RequestsKnown' /\ LatestIsMeant' /\ LineInv'
    BY <1>2, Loading
<1>4. ViewTypeOK'
    BY <1>1, <1>2, <1>3 DEF PanelInv, ViewTypeOK, server, trail
<1> QED BY <1>3, <1>4 DEF PanelInv

(* Positions, minutes and answers of the server.                           *)
LEMMA ServerKeeps ==
    ASSUME PanelInv, Server \/ \E r \in requests : Read(r)
    PROVE  PanelInv'
<1>1. /\ table \in Seq(Entries) /\ Len(table) \in Nat /\ now \in Nat /\ MaxMinute \in Nat
      /\ MaxPositions \in Nat
    BY BoundsAssumption DEF PanelInv, ViewTypeOK
<1>2. CASE Tick
  <2>1. now' \in 0 .. MaxMinute /\ now' >= now
      BY <1>1, <1>2 DEF Tick, PanelInv, ViewTypeOK
  <2>2. ViewTypeOK'
      BY <1>2, <2>1 DEF Tick, PanelInv, ViewTypeOK, panel, trail
  <2>3. RequestsKnown' /\ LatestIsMeant' /\ LineInv'
      BY <1>2, <2>1, Elsewhere DEF Tick, panel
  <2> QED BY <2>2, <2>3 DEF PanelInv
<1>3. ASSUME NEW d \in Devices, Store(d)
      PROVE  PanelInv'
  <2> PICK last : last = Len(table) + 1
      OBVIOUS
  <2>1. PICK minute \in {m \in 0 .. MaxMinute : m <= now + Ahead} :
           table' = Append(table, [dev |-> d, minute |-> minute, gone |-> d \in archived,
                                   late |-> minute < now])
      BY <1>3 DEF Store
  <2> DEFINE e == [dev |-> d, minute |-> minute, gone |-> d \in archived, late |-> minute < now]
  <2> e \in Entries /\ table' = Append(table, e)
    <3>1. (minute < now) \in BOOLEAN /\ (d \in archived) \in BOOLEAN
        OBVIOUS
    <3> QED BY <2>1, <3>1 DEF Entries
  <2>2. /\ table' \in Seq(Entries) /\ Len(table') = last /\ table'[last] = e
        /\ \A k \in 1 .. Len(table) : table'[k] = table[k]
        /\ \A k \in 1 .. Len(table') : k \in 1 .. Len(table) \/ k = last
        /\ \A k \in 1 .. Len(table) : k \in 1 .. Len(table')
      BY <1>1, <2>1
  <2>3. ViewTypeOK'
    <3>1. Len(table') <= MaxPositions
        BY <1>1, <1>3, <2>2 DEF Store
    <3>2. fresh' \subseteq 1 .. Len(table') /\ wire' \in Seq(1 .. Len(table'))
      <4>1. 1 .. Len(table) \subseteq 1 .. Len(table') /\ last \in 1 .. Len(table')
          BY <1>1, <2>2
      <4>2. fresh \subseteq 1 .. Len(table) /\ wire \in Seq(1 .. Len(table))
          BY DEF PanelInv, ViewTypeOK
      <4>3. fresh' = fresh \cup {last} /\ wire' = wire
          BY <1>3, <2>2 DEF Store
      <4>4. wire \in Seq(1 .. Len(table'))
          BY <4>1, <4>2, WiderSeq
      <4> QED BY <4>1, <4>2, <4>3, <4>4
    <3>3. \A p \in line' : p.pos <= Len(table')
      <4>1. \A p \in line : p.pos \in Nat /\ p.pos <= Len(table)
          BY DEF PanelInv, ViewTypeOK, LinePoints, Positions
      <4>2. line' = line
          BY <1>3 DEF Store, panel, trail
      <4> QED BY <1>1, <2>2, <4>1, <4>2
    <3>4. known' \in 0 .. Len(table')
      <4>1. known \in 0 .. Len(table)
          BY DEF PanelInv, ViewTypeOK
      <4>2. known' = known
          BY <1>3 DEF Store, panel, trail
      <4> QED BY <1>1, <2>2, <4>1, <4>2
    <3> QED BY <1>3, <2>2, <3>1, <3>2, <3>3, <3>4 DEF Store, PanelInv, ViewTypeOK, panel, trail
  <2>4. /\ e.late \/ ~(e.minute < hasta)
        /\ \A r \in requests : e.late \/ ~(e.minute < r.until)
    <3>1. minute \in Nat /\ hasta \in Nat /\ hasta <= now
        BY <1>1, <2>1 DEF PanelInv, ViewTypeOK, RequestsKnown
    <3>2. \A r \in requests : r.until \in Nat /\ r.until <= now
        BY <1>1 DEF PanelInv, ViewTypeOK, RequestsKnown, Requests
    <3>3. e.minute = minute /\ (e.late <=> minute < now)
        OBVIOUS
    <3> QED BY <1>1, <3>1, <3>2, <3>3
  <2> HIDE DEF e
  <2>5. RequestsKnown'
    <3>1. ASSUME NEW r \in requests PROVE ReadRight(r)'
      <4>1. ReadRight(r)
          BY <3>1 DEF PanelInv, RequestsKnown
      <4> SUFFICES ASSUME r.read # Unread
                   PROVE  /\ r.read \in 0 .. last
                          /\ \A k \in 1 .. last : table'[k].late \/ k <= r.read
                                                  \/ ~(table'[k].minute < r.until)
          BY <2>2 DEF ReadRight
      <4>2. r.read \in 0 .. last
          BY <1>1, <4>1 DEF ReadRight
      <4> QED BY <2>2, <2>4, <4>1, <4>2 DEF ReadRight
    <3> QED BY <1>3, <3>1 DEF Store, PanelInv, RequestsKnown, panel
  <2>6. LatestIsMeant'
      BY <1>3 DEF Store, PanelInv, LatestIsMeant, IsCurrent, panel
  <2>7. (Drawn' <=> Drawn) /\ line' = line /\ fate' = fate /\ known' = known
        /\ selected' = selected /\ hasta' = hasta /\ adjust' = adjust
      BY <1>3 DEF Store, panel, trail, Drawn, Owed, IsCurrent
  <2>8. \A p \in line : p.pos \in 1 .. Len(table)
      BY <1>1 DEF PanelInv, ViewTypeOK, LinePoints, Positions
  <2>9. OwnLine' /\ OnRoads'
      BY <2>2, <2>7, <2>8 DEF PanelInv, LineInv, OwnLine, OnRoads
  <2>10. Whole'
    <3>1. known \in Nat /\ known < last
        BY <1>1 DEF PanelInv, ViewTypeOK
    <3>2. last \in Nat /\ ~(last <= known)
        BY <1>1, <3>1
    <3> QED BY <2>2, <2>4, <2>7, <3>2 DEF PanelInv, LineInv, Whole
  <2> QED BY <2>3, <2>5, <2>6, <2>9, <2>10 DEF PanelInv, LineInv
<1>4. ASSUME NEW k \in fresh, Publish(k)
      PROVE  PanelInv'
  <2>1. wire' \in Seq(1 .. Len(table))
      BY <1>4 DEF Publish, PanelInv, ViewTypeOK
  <2>2. ViewTypeOK'
      BY <1>4, <2>1 DEF Publish, PanelInv, ViewTypeOK, panel, trail
  <2>3. RequestsKnown' /\ LatestIsMeant' /\ LineInv'
      BY <1>1, <1>4, Elsewhere DEF Publish, panel
  <2> QED BY <2>2, <2>3 DEF PanelInv
<1>5. ASSUME NEW r \in requests, Read(r)
      PROVE  PanelInv'
  <2> PICK answer : answer = [r EXCEPT !.read = Len(table)]
      OBVIOUS
  <2>1. requests' = (requests \ {r}) \cup {answer} /\ r \in Requests
      BY <1>5 DEF Read, PanelInv, ViewTypeOK
  <2>2. /\ answer.id = r.id /\ answer.dev = r.dev /\ answer.until = r.until
        /\ answer.adjust = r.adjust /\ answer.read = Len(table)
      BY <2>1 DEF Requests
  <2>3. answer \in Requests
    <3>1. Len(table) \in 0 .. MaxPositions
        BY <1>1 DEF PanelInv, ViewTypeOK
    <3> QED BY <2>1, <3>1 DEF Requests
  <2>4. ViewTypeOK'
      BY <1>5, <2>1, <2>3 DEF Read, PanelInv, ViewTypeOK, server, trail
  <2>5. ReadRight(answer)'
    <3>1. table' = table /\ Len(table) \in 0 .. Len(table)
          /\ \A k \in 1 .. Len(table) : k <= Len(table)
        BY <1>1, <1>5 DEF Read, server
    <3> QED BY <2>2, <3>1 DEF ReadRight
  <2>6. RequestsKnown'
    <3>1. \A o \in requests : ReadRight(o)'
        BY <1>5 DEF Read, server, PanelInv, RequestsKnown, ReadRight
    <3>2. UNCHANGED <<hasta, now, requestId>>
        BY <1>5 DEF Read, server
    <3>3. /\ \A o \in requests : o.until <= now /\ o.id <= requestId
          /\ \A o, q \in requests : o.id = q.id => o = q
          /\ hasta <= now
        BY DEF PanelInv, RequestsKnown
    <3>4. answer.until <= now /\ answer.id <= requestId
        BY <2>2, <3>3
    <3>5. \A o \in requests' : o.until <= now' /\ o.id <= requestId' /\ ReadRight(o)'
        BY <2>1, <2>5, <3>1, <3>2, <3>3, <3>4
    <3>6. \A o \in requests \ {r} : o.id # answer.id
        BY <2>2, <3>3
    <3>7. \A o, q \in requests' : o.id = q.id => o = q
        BY <2>1, <3>3, <3>6
    <3>8. hasta' <= now'
        BY <3>2, <3>3
    <3> QED BY <3>5, <3>7, <3>8 DEF RequestsKnown
  <2>7. \A o \in requests' : \E q \in requests : /\ o.id = q.id /\ o.dev = q.dev
                                                 /\ o.adjust = q.adjust /\ o.until = q.until
      BY <2>1, <2>2
  <2>8. \A q \in requests : \E o \in requests' : o.id = q.id /\ o.dev = q.dev
      BY <2>1, <2>2
  <2>9. UNCHANGED <<selected, adjust, hasta, chains, requestId, line, fate, known, table>>
      BY <1>5 DEF Read, server, trail
  <2>10. LatestIsMeant' /\ (Drawn' <=> Drawn)
      BY <2>7, <2>8, <2>9 DEF PanelInv, LatestIsMeant, IsCurrent, Drawn, Owed
  <2>11. LineInv'
      BY <2>9, <2>10 DEF PanelInv, LineInv, OwnLine, OnRoads, Whole
  <2> QED BY <2>4, <2>6, <2>10, <2>11 DEF PanelInv
<1> QED BY <1>2, <1>3, <1>4, <1>5 DEF Server

(* What the operator does.                                                 *)
LEMMA OperatorKeeps ==
    ASSUME PanelInv, Operator
    PROVE  PanelInv'
<1>1. /\ now \in Nat /\ clicks \in Nat /\ chains \in Nat /\ timer \in BOOLEAN /\ fails \in Nat
      /\ adjust \in BOOLEAN
    BY BoundsAssumption DEF PanelInv, ViewTypeOK
<1>2. ASSUME NEW d \in Devices, Select(d)
      PROVE  PanelInv'
  <2>1. chains' \in Nat /\ chains' > 0 /\ clicks' \in Nat
      BY <1>1, <1>2 DEF Select, Click
  <2>2. ViewTypeOK'
      BY <1>2, <2>1 DEF Select, PanelInv, ViewTypeOK, server, trail
  <2>3. RequestsKnown'
      BY <1>2 DEF Select, server, PanelInv, RequestsKnown, ReadRight
  <2>4. LatestIsMeant' /\ LineInv'
      BY <2>1 DEF LatestIsMeant, LineInv, OwnLine, OnRoads, Whole, Drawn, Owed
  <2> QED BY <2>2, <2>3, <2>4 DEF PanelInv
<1>3. CASE RemoveDevice
  <2>1. ViewTypeOK'
      BY <1>1, <1>3 DEF RemoveDevice, Click, PanelInv, ViewTypeOK, trail
  <2>2. RequestsKnown' /\ LatestIsMeant' /\ LineInv'
      BY <1>1, <1>3, Elsewhere DEF RemoveDevice
  <2> QED BY <2>1, <2>2 DEF PanelInv
<1>4. CASE LoadRange
  <2>1. hasta' \in {now, hasta} /\ adjust' = adjust /\ Load(hasta', adjust, FALSE)
      BY <1>4 DEF LoadRange, ThisMinute
  <2>2. Load(hasta', adjust', FALSE) /\ adjust' \in BOOLEAN
      BY <1>1, <2>1
  <2>3. /\ selected' = selected /\ trail' = trail /\ UNCHANGED <<server, wire, shown>>
        /\ chains' \in Nat /\ timer' \in BOOLEAN /\ clicks' \in Nat /\ fails' \in Nat
        /\ removals' = removals
      BY <1>1, <1>4 DEF LoadRange, Click
  <2> QED BY <2>1, <2>2, <2>3, LoadKeeps
<1>5. CASE ToggleAdjust /\ selected # None
  <2>1. hasta' = hasta /\ adjust' = ~adjust /\ Load(hasta, adjust', FALSE)
      BY <1>5 DEF ToggleAdjust
  <2>2. Load(hasta', adjust', FALSE)
      BY <2>1
  <2>3. /\ selected' = selected /\ trail' = trail /\ UNCHANGED <<server, wire, shown>>
        /\ chains' \in Nat /\ timer' \in BOOLEAN /\ clicks' \in Nat /\ fails' \in Nat
        /\ removals' = removals
      BY <1>1, <1>5 DEF ToggleAdjust, Click
  <2>4. hasta' \in {now, hasta} /\ adjust' \in BOOLEAN
      BY <2>1
  <2> QED BY <2>2, <2>3, <2>4, LoadKeeps
<1>6. CASE ToggleAdjust /\ selected = None
  <2>1. ViewTypeOK'
      BY <1>1, <1>6 DEF ToggleAdjust, Click, PanelInv, ViewTypeOK, server, trail
  <2>2. RequestsKnown' /\ LatestIsMeant' /\ LineInv'
      BY <1>6, Deselected DEF ToggleAdjust, server
  <2> QED BY <2>1, <2>2 DEF PanelInv
<1>7. CASE Clear
  <2>1. ViewTypeOK'
    <3>1. known' \in 0 .. Len(table) /\ clicks' \in Nat
        BY <1>1, <1>7 DEF Clear, Click, PanelInv, ViewTypeOK
    <3> QED BY <1>1, <1>7, <3>1 DEF Clear, PanelInv, ViewTypeOK, server
  <2>2. RequestsKnown' /\ LatestIsMeant'
      BY <1>7 DEF Clear, server, PanelInv, RequestsKnown, ReadRight, LatestIsMeant, IsCurrent
  <2>3. LineInv'
      BY <1>7 DEF Clear, LineInv, OwnLine, OnRoads, Whole
  <2> QED BY <2>1, <2>2, <2>3 DEF PanelInv
<1> QED BY <1>2, <1>3, <1>4, <1>5, <1>6, <1>7 DEF Operator

(* The answers.                                                            *)
LEMMA AnswerKeeps ==
    ASSUME PanelInv, NEW r \in requests, Receive(r) \/ RequestFails(r)
    PROVE  PanelInv'
<1>1. requests' = requests \ {r} /\ UNCHANGED <<server, selected, adjust, hasta, chains, requestId>>
    BY DEF Receive, RequestFails
<1>2. RequestsKnown' /\ LatestIsMeant'
    BY <1>1 DEF server, PanelInv, RequestsKnown, ReadRight, LatestIsMeant, IsCurrent
<1>3. CASE RequestFails(r)
  <2>1. ViewTypeOK'
    <3>1. fails' \in Nat /\ known' \in 0 .. Len(table)
        BY <1>3 DEF RequestFails, Failed, PanelInv, ViewTypeOK
    <3> QED BY <1>1, <1>3, <3>1 DEF RequestFails, Failed, PanelInv, ViewTypeOK, server
  <2>2. LineInv'
      BY <1>3 DEF RequestFails, Failed, LineInv, OwnLine, OnRoads, Whole
  <2> QED BY <1>2, <2>1, <2>2 DEF PanelInv
<1>4. CASE Receive(r) /\ ~IsCurrent(r)
  <2>1. ViewTypeOK'
      BY <1>1, <1>4 DEF Receive, PanelInv, ViewTypeOK, server, trail
  <2>2. Drawn' => Drawn
      BY <1>1, <1>4 DEF Drawn, Owed, IsCurrent
  <2>3. LineInv'
      BY <1>1, <1>4, <2>2 DEF Receive, PanelInv, LineInv, OwnLine, OnRoads, Whole, server, trail
  <2> QED BY <1>2, <2>1, <2>3 DEF PanelInv
<1>5. CASE Receive(r) /\ IsCurrent(r)
  <2> DEFINE rows == RowsOf(r)
  <2>1. /\ r \in Requests /\ r.read # Unread /\ ReadRight(r) /\ r.dev = selected
        /\ line' = {[pos |-> k, asked |-> r.adjust] : k \in rows}
        /\ fate' = "drawn" /\ known' = r.read /\ loading' = FALSE
      BY <1>5 DEF Receive, Draw, PanelInv, ViewTypeOK, RequestsKnown, IsCurrent
  <2>2. /\ r.read \in 0 .. Len(table) /\ Len(table) \in Nat /\ Len(table) <= MaxPositions
        /\ MaxPositions \in Nat /\ r.adjust \in BOOLEAN
      BY <2>1, BoundsAssumption DEF ReadRight, Requests, PanelInv, ViewTypeOK
  <2>3. \A k \in rows : k \in 1 .. Len(table) /\ table[k].dev = selected /\ k \in Positions
      BY <2>1, <2>2 DEF RowsOf, Positions
  <2>11. \A k \in 1 .. Len(table) :
            table[k].dev = selected /\ table[k].minute < r.until /\ (table[k].late => k <= r.read)
            => k \in rows
    <3> SUFFICES ASSUME NEW k \in 1 .. Len(table), table[k].dev = selected,
                        table[k].minute < r.until, table[k].late => k <= r.read
                 PROVE  k \in rows
        OBVIOUS
    <3>1. k <= r.read
        BY <2>1 DEF ReadRight
    <3>2. k \in 1 .. r.read
        BY <2>2, <3>1
    <3> QED BY <2>1, <3>2 DEF RowsOf
  <2> HIDE DEF rows
  <2>12. \A p \in line' : p \in LinePoints /\ p.pos \in rows /\ p.asked = r.adjust
    <3> SUFFICES ASSUME NEW p \in line'
                 PROVE  p \in LinePoints /\ p.pos \in rows /\ p.asked = r.adjust
        OBVIOUS
    <3>1. PICK k \in rows : p = [pos |-> k, asked |-> r.adjust]
        BY <2>1
    <3> QED BY <2>2, <2>3, <3>1 DEF LinePoints
  <2>4. \A k \in rows : \E p \in line' : p.pos = k
    <3> SUFFICES ASSUME NEW k \in rows
                 PROVE  \E p \in line' : p.pos = k
        OBVIOUS
    <3>1. [pos |-> k, asked |-> r.adjust] \in line'
        BY <2>1
    <3>2. [pos |-> k, asked |-> r.adjust].pos = k
        OBVIOUS
    <3> QED BY <3>1, <3>2
  <2>5. ViewTypeOK'
    <3>1. line' \subseteq LinePoints /\ \A p \in line' : p.pos <= Len(table)
        BY <2>2, <2>3, <2>12
    <3>2. known' \in 0 .. Len(table)
        BY <2>1, <2>2
    <3> QED BY <1>1, <1>5, <2>1, <3>1, <3>2 DEF Receive, PanelInv, ViewTypeOK, server
  <2>6. Drawn' => chains = 0
      BY <1>1 DEF PanelInv, ViewTypeOK, Drawn, Owed
  <2>7. Drawn' => r.adjust = adjust /\ r.until = hasta
      BY <1>1, <1>5, <2>6 DEF Drawn, PanelInv, LatestIsMeant
  <2>8. OwnLine'
      BY <1>1, <2>3, <2>12 DEF OwnLine, server
  <2>9. OnRoads'
      BY <1>1, <2>7, <2>12 DEF OnRoads
  <2>10. Whole'
      BY <1>1, <2>1, <2>4, <2>7, <2>11 DEF Whole, server
  <2> QED BY <1>2, <2>5, <2>8, <2>9, <2>10 DEF PanelInv, LineInv
<1> QED BY <1>3, <1>4, <1>5

(* A live position.                                                        *)
LEMMA MessageKeeps ==
    ASSUME PanelInv, Message
    PROVE  PanelInv'
<1> DEFINE k == Head(wire)
<1>1. /\ k \in 1 .. Len(table) /\ wire' \in Seq(1 .. Len(table)) /\ Len(table) \in Nat
      /\ table[k] \in Entries /\ k \in Positions
  <2>1. /\ wire \in Seq(1 .. Len(table)) /\ wire # <<>> /\ table \in Seq(Entries)
        /\ Len(table) <= MaxPositions /\ MaxPositions \in Nat
      BY BoundsAssumption DEF Message, PanelInv, ViewTypeOK
  <2>2. k \in 1 .. Len(table) /\ Tail(wire) \in Seq(1 .. Len(table))
      BY <2>1
  <2> QED BY <2>1, <2>2 DEF Message, Positions
<1>2. /\ UNCHANGED <<server, adjust, hasta, chains, requestId, requests, loading, fate, known,
                     clicks, fails>>
      /\ selected' \in {selected, None} /\ timer' \in BOOLEAN /\ removals' = removals
      /\ shown' \subseteq Devices
    BY <1>1 DEF Message, Extend, PanelInv, ViewTypeOK, Entries
<1>3. \/ line' = line
      \/ line' = line \cup {[pos |-> k, asked |-> FALSE]} /\ ~adjust /\ table[k].dev = selected
    BY DEF Message, Extend
<1>4. ViewTypeOK'
  <2>1. [pos |-> k, asked |-> FALSE] \in LinePoints
      BY <1>1 DEF LinePoints
  <2>2. line \subseteq LinePoints /\ \A p \in line : p.pos <= Len(table)
      BY DEF PanelInv, ViewTypeOK
  <2>3. k <= Len(table)
      BY <1>1
  <2>4. line' \subseteq LinePoints /\ \A p \in line' : p.pos <= Len(table)
    <3>1. CASE line' = line
        BY <2>2, <3>1
    <3>2. CASE line' = line \cup {[pos |-> k, asked |-> FALSE]}
      <4>1. [pos |-> k, asked |-> FALSE].pos = k
          OBVIOUS
      <4> HIDE DEF k
      <4> QED BY <2>1, <2>2, <2>3, <3>2, <4>1
    <3> QED BY <1>3, <3>1, <3>2
  <2> QED BY <1>1, <1>2, <2>4 DEF PanelInv, ViewTypeOK, server
<1>5. CASE selected' = None
    BY <1>2, <1>4, <1>5, Deselected DEF server, PanelInv
<1>6. CASE selected' = selected
  <2>1. RequestsKnown' /\ LatestIsMeant'
      BY <1>2, <1>6 DEF server, PanelInv, RequestsKnown, ReadRight, LatestIsMeant, IsCurrent
  <2>2. (Drawn' <=> Drawn) /\ table' = table
      BY <1>2, <1>6 DEF Drawn, Owed, IsCurrent, server
  <2>3. /\ \A p \in line' : p \in line \/ (p.pos = k /\ ~adjust /\ table[k].dev = selected)
        /\ line \subseteq line'
      BY <1>3
  <2>4. LineInv'
      BY <1>2, <1>6, <2>2, <2>3 DEF PanelInv, LineInv, OwnLine, OnRoads, Whole
  <2> QED BY <1>4, <2>1, <2>4 DEF PanelInv
<1> QED BY <1>2, <1>5, <1>6

(* The rest of the page's events.                                          *)
LEMMA BrowserKeeps ==
    ASSUME PanelInv, Browser
    PROVE  PanelInv'
<1>1. /\ now \in Nat /\ clicks \in Nat /\ chains \in Nat /\ timer \in BOOLEAN /\ fails \in Nat
      /\ adjust \in BOOLEAN
    BY BoundsAssumption DEF PanelInv, ViewTypeOK
<1>2. CASE SelectionLoads
  <2>1. chains' \in Nat
      BY <1>1, <1>2 DEF SelectionLoads
  <2> QED BY <1>1, <1>2, <2>1, LoadKeeps DEF SelectionLoads, ThisMinute
<1>3. CASE Removed
  <2>1. ViewTypeOK'
      BY <1>3 DEF Removed, PanelInv, ViewTypeOK, server
  <2>2. RequestsKnown' /\ LatestIsMeant' /\ LineInv'
      BY <1>3, Deselected DEF Removed, server
  <2> QED BY <2>1, <2>2 DEF PanelInv
<1>4. CASE RemovalFails
  <2>1. ViewTypeOK'
      BY <1>1, <1>4 DEF RemovalFails, PanelInv, ViewTypeOK, server, trail
  <2>2. RequestsKnown' /\ LatestIsMeant' /\ LineInv'
      BY <1>1, <1>4, Elsewhere DEF RemovalFails, server
  <2> QED BY <2>1, <2>2 DEF PanelInv
<1>5. CASE TimerFires
  <2>1. CASE selected = None \/ line = {}
    <3>1. ViewTypeOK'
        BY <1>5, <2>1 DEF TimerFires, PanelInv, ViewTypeOK, server, trail
    <3>2. /\ UNCHANGED <<selected, adjust, hasta, chains, requestId, requests, trail>>
          /\ table' = table /\ now' >= now /\ now' \in Nat
      <4>1. UNCHANGED <<hasta, requestId, requests>>
          BY <1>5, <2>1 DEF TimerFires
      <4>2. UNCHANGED <<server, selected, adjust, chains, trail>>
          BY <1>5 DEF TimerFires
      <4>3. table' = table /\ now' = now
          BY <4>2 DEF server
      <4> QED BY <1>1, <4>1, <4>2, <4>3
    <3>3. RequestsKnown' /\ LatestIsMeant' /\ LineInv'
        BY <3>2, Elsewhere
    <3> QED BY <3>1, <3>3 DEF PanelInv
  <2>2. CASE ~(selected = None \/ line = {})
      BY <1>1, <1>5, <2>2, LoadKeeps DEF TimerFires, ThisMinute
  <2> QED BY <2>1, <2>2
<1> QED BY <1>2, <1>3, <1>4, <1>5, MessageKeeps DEF Browser

-----------------------------------------------------------------------------
(* The types, what is known of the requests, and the line.                 *)
LEMMA InvariantHolds == Spec => []PanelInv
<1>1. PanelInv /\ [Next]_viewVars => PanelInv'
  <2> SUFFICES ASSUME PanelInv, [Next]_viewVars PROVE PanelInv'
      OBVIOUS
  <2>1. CASE UNCHANGED viewVars
    <3>1. RequestsKnown' /\ LatestIsMeant' /\ LineInv'
      <4>1. now \in Nat
          BY BoundsAssumption DEF PanelInv, ViewTypeOK
      <4> QED BY <2>1, <4>1, Elsewhere DEF viewVars, server, panel
    <3> QED BY <2>1, <3>1 DEF PanelInv, ViewTypeOK, viewVars, server, panel, trail
  <2>2. CASE Alert
    <3>1. now \in Nat
        BY BoundsAssumption DEF PanelInv, ViewTypeOK
    <3>2. RequestsKnown' /\ LatestIsMeant' /\ LineInv'
        BY <2>2, <3>1, Elsewhere DEF Alert, server
    <3> QED BY <2>2, <3>2 DEF Alert, PanelInv, ViewTypeOK, server, trail
  <2> QED BY <2>1, <2>2, ServerKeeps, OperatorKeeps, AnswerKeeps, BrowserKeeps DEF Next, Network, Idle
<1> QED BY <1>1, Beginning, PTL DEF Spec

(* The variables have their types.                                         *)
THEOREM TypeCorrect == Spec => []ViewTypeOK
<1>1. PanelInv => ViewTypeOK
    BY DEF PanelInv
<1> QED BY <1>1, InvariantHolds, PTL

(* The line of app.js:1042 grows with points of another device only until  *)
(* the selected device's own answer arrives.                               *)
THEOREM NoForeignLineAtRest == Spec => []LineIsOfTheSelected
<1>1. PanelInv => LineIsOfTheSelected
    BY DEF PanelInv, LineInv, OwnLine, LineIsOfTheSelected, AtRest, Drawn, Owed
<1> QED BY <1>1, InvariantHolds, PTL

(* With the box checked, every point of a line at rest came in an answer   *)
(* that was asked for along the roads: none is a live position, and none   *)
(* is of an answer from before the box was checked.                        *)
THEOREM RestIsAskedOnRoads == Spec => []AllAskedOnRoads
<1>1. PanelInv => AllAskedOnRoads
    BY DEF PanelInv, LineInv, OnRoads, AllAskedOnRoads, AtRest, Drawn, Owed
<1> QED BY <1>1, InvariantHolds, PTL

(* No order of answers and messages leaves out of the line at rest what    *)
(* was stamped before the end of the range and came in time, nor what came *)
(* late from a tracker's buffer but before the line was read.              *)
THEOREM NoPastMinuteIsMissing == Spec => []PastMinutesAreDrawn
<1>1. PanelInv => PastMinutesAreDrawn
  <2> SUFFICES ASSUME PanelInv, AtRest, fate = "drawn", NEW k \in 1 .. Len(table),
                      table[k].dev = selected, table[k].minute < hasta,
                      table[k].late => k <= known
               PROVE  \E p \in line : p.pos = k
      BY DEF PastMinutesAreDrawn
  <2>1. table[k] \in Entries
      BY DEF PanelInv, ViewTypeOK
  <2>2. selected \in Devices
      BY <2>1 DEF Entries
  <2>3. selected # None
      BY <2>2, PanelAssumption
  <2> QED BY <2>3 DEF PanelInv, LineInv, Whole, AtRest, Drawn, Owed
<1> QED BY <1>1, InvariantHolds, PTL
=============================================================================
