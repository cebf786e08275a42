--------------------------- MODULE DecoderProofs ---------------------------
(***************************************************************************)
(* What a tracker of GT06 or JT808 may mean is read as it was meant, and   *)
(* answered as it expects, for all the values of the fields.               *)
(*                                                                         *)
(* A frame is laid out first, byte by byte; then what the decoder finds in *)
(* each place is what was written there.                                   *)
(***************************************************************************)
EXTENDS Tracker, SequenceTheorems, WellFoundedInduction, TLAPS

-----------------------------------------------------------------------------
(* Induction, and recursion up to a number.                                *)

(* A nonempty set of numbers has a least one.                              *)
LEMMA LeastNumber ==
    ASSUME NEW S \in SUBSET Nat, S # {}
    PROVE  \E x \in S : \A y \in S : x <= y
  <1>1. PICK x \in S : \A y \in S : ~ (<<y, x>> \in OpToRel(<, Nat))
    BY NatLessThanWellFounded, WFMin
  <1>2. \A y \in S : x <= y
    <2> SUFFICES ASSUME NEW y \in S PROVE x <= y
      OBVIOUS
    <2>1. x \in Nat /\ y \in Nat
      BY <1>1
    <2>2. y < x => <<y, x>> \in OpToRel(<, Nat)
      BY <2>1 DEF OpToRel
    <2>3. ~ (y < x)
      BY <1>1, <2>2, Zenon
    <2> QED
      BY <2>1, <2>3
  <1> QED
    BY <1>2, Zenon

(* A set of numbers with 0 and the successor of each of them has them all. *)
LEMMA SetInduction ==
    ASSUME NEW S \in SUBSET Nat, 0 \in S, \A n \in S : n + 1 \in S
    PROVE  S = Nat
  <1> SUFFICES ASSUME Nat \ S # {} PROVE FALSE
    OBVIOUS
  <1>1. PICK m \in Nat \ S : \A y \in Nat \ S : m <= y
    BY LeastNumber
  <1>2. m \in Nat /\ m # 0 /\ m - 1 \in Nat /\ ~(m <= m - 1)
    BY <1>1
  <1>3. m - 1 \in S
    BY <1>1, <1>2
  <1>4. (m - 1) + 1 \in S /\ (m - 1) + 1 = m
    BY <1>2, <1>3
  <1> QED
    BY <1>1, <1>4

(* Induction up to N.                                                      *)
LEMMA FiniteInduction ==
    ASSUME NEW N \in Nat, NEW K \in SUBSET (0 .. N), 0 \in K,
           \A n \in K : n < N => n + 1 \in K
    PROVE  K = 0 .. N
  <1> DEFINE T == {n \in Nat : n <= N => n \in K}
  <1>1. 0 \in T
    OBVIOUS
  <1>2. ASSUME NEW n \in T PROVE n + 1 \in T
    OBVIOUS
  <1>3. T = Nat
    <2> HIDE DEF T
    <2>1. T \in SUBSET Nat
      BY DEF T
    <2> QED
      BY <1>1, <1>2, <2>1, SetInduction
  <1>4. ASSUME NEW n \in 0 .. N PROVE n \in K
    <2>1. n \in T
      BY <1>3
    <2> QED
      BY <2>1
  <1> QED
    BY <1>4

(* What is computed step by step from a first value exists.                *)
Steps(N, S) == [(1 .. N) \X S -> S]

(* f begins with a and each step gives the next value.                     *)
Follows(f, N, a, step) == f[0] = a /\ \A i \in 1 .. N : f[i] = step[<<i, f[i - 1]>>]

(* Such an f exists, by induction on its length.                           *)
LEMMA RecursionExists ==
    ASSUME NEW N \in Nat, NEW S, NEW a \in S, NEW step \in Steps(N, S)
    PROVE  \E f \in [0 .. N -> S] : Follows(f, N, a, step)
  <1> DEFINE Computes(f, n) == f[0] = a /\ \A i \in 1 .. n : f[i] = step[<<i, f[i - 1]>>]
             K == {n \in Nat : n <= N => \E f \in [0 .. n -> S] : Computes(f, n)}
  <1>1. 0 \in K
    <2>1. [j \in 0 .. 0 |-> a] \in [0 .. 0 -> S] /\ Computes([j \in 0 .. 0 |-> a], 0)
      OBVIOUS
    <2> QED
      BY <2>1
  <1>2. ASSUME NEW n \in K PROVE n + 1 \in K
    <2> HIDE DEF Computes
    <2>0. n \in Nat /\ n + 1 \in Nat /\ (n <= N => \E f \in [0 .. n -> S] : Computes(f, n))
      OBVIOUS
    <2> SUFFICES ASSUME n + 1 <= N
                 PROVE  \E f \in [0 .. n + 1 -> S] : Computes(f, n + 1)
      BY <2>0
    <2> HIDE DEF K
    <2>1. PICK f \in [0 .. n -> S] : Computes(f, n)
      BY <2>0
    <2> USE DEF Computes
    <2> DEFINE g == [j \in 0 .. n + 1 |-> IF j = n + 1 THEN step[<<n + 1, f[n]>>] ELSE f[j]]
    <2>2. f[n] \in S /\ n + 1 \in 1 .. N
      BY <2>0
    <2>3. g \in [0 .. n + 1 -> S]
      BY <2>0, <2>2 DEF Steps
    <2>4. g[0] = a
      BY <2>0, <2>1
    <2>5. ASSUME NEW i \in 1 .. n + 1 PROVE g[i] = step[<<i, g[i - 1]>>]
      <3>1. CASE i = n + 1
        <4>1. g[n + 1] = step[<<n + 1, f[n]>>]
          BY <2>0
        <4>2. (n + 1) - 1 = n /\ n \in 0 .. n + 1 /\ n # n + 1
          BY <2>0
        <4>3. g[n] = f[n]
          BY <4>2
        <4> HIDE DEF g
        <4> QED
          BY <3>1, <4>1, <4>2, <4>3
      <3>2. CASE i # n + 1
        BY <2>0, <2>1, <3>2
      <3> QED
        BY <3>1, <3>2
    <2> QED
      BY <2>3, <2>4, <2>5
  <1>3. K = Nat
    <2> HIDE DEF K
    <2>1. K \in SUBSET Nat
      BY DEF K
    <2> QED
      BY <1>1, <1>2, <2>1, SetInduction
  <1>4. N \in K
    <2> HIDE DEF K
    <2> QED
      BY <1>3
  <1> QED
    BY <1>4 DEF Follows

(* What stands where in a concatenation.                                   *)
Glued(u, s, t) ==
    /\ u \in Seq(Byte)
    /\ Len(s) \in Nat /\ Len(t) \in Nat
    /\ Len(u) = Len(s) + Len(t)
    /\ \A i \in 1 .. Len(s) : u[i] = s[i]
    /\ \A i \in 1 .. Len(t) : u[Len(s) + i] = t[i]

(* A concatenation is glued of its two parts.                              *)
LEMMA ConcatIs ==
    ASSUME NEW s \in Seq(Byte), NEW t \in Seq(Byte)
    PROVE  Glued(s \o t, s, t)
  <1> DEFINE u == s \o t
  <1>1. Len(s) \in Nat /\ Len(t) \in Nat
    BY LenProperties
  <1>2. /\ u \in Seq(Byte)
        /\ Len(u) = Len(s) + Len(t)
        /\ \A i \in 1 .. Len(s) + Len(t) : u[i] = IF i <= Len(s) THEN s[i] ELSE t[i - Len(s)]
    BY ConcatProperties
  <1> HIDE DEF u
  <1>3. ASSUME NEW i \in 1 .. Len(t) PROVE u[Len(s) + i] = t[i]
    <2>1. /\ Len(s) + i \in 1 .. Len(s) + Len(t) /\ ~(Len(s) + i <= Len(s))
          /\ (Len(s) + i) - Len(s) = i
      BY <1>1
    <2> QED
      BY <1>2, <2>1
  <1>4. ASSUME NEW i \in 1 .. Len(s) PROVE u[i] = s[i]
    <2>1. i \in 1 .. Len(s) + Len(t) /\ i <= Len(s)
      BY <1>1
    <2> QED
      BY <1>2, <2>1
  <1> QED
    BY <1>1, <1>2, <1>3, <1>4 DEF Glued, u

-----------------------------------------------------------------------------
(* Sequences that are joined.                                              *)

(* g[k] is what the first k frames are when they follow each other.        *)
Concatenates(g, fs) ==
    /\ g \in [0 .. Len(fs) -> Seq(Byte)]
    /\ g[0] = <<>>
    /\ \A k \in 1 .. Len(fs) : g[k] = g[k - 1] \o fs[k]

(* There is such a g.                                                      *)
LEMMA JoinExists ==
    ASSUME NEW fs \in Seq(Seq(Byte))
    PROVE  \E g : Concatenates(g, fs)
  <1> DEFINE N == Len(fs)
             T == Seq(Byte)
             step == [p \in (1 .. N) \X T |-> p[2] \o fs[p[1]]]
  <1>1. N \in Nat /\ <<>> \in T /\ \A k \in 1 .. N : fs[k] \in T
    BY LenProperties, ElementOfSeq, EmptySeq
  <1>2. step \in Steps(N, T)
    <2>1. ASSUME NEW p \in (1 .. N) \X T PROVE p[2] \o fs[p[1]] \in T
      BY <1>1, ConcatProperties
    <2> QED
      BY <2>1 DEF Steps
  <1>3. \A i \in 1 .. N, s \in T : step[<<i, s>>] = s \o fs[i]
    OBVIOUS
  <1> HIDE DEF step, T
  <1>4. PICK f \in [0 .. N -> T] : Follows(f, N, <<>>, step)
    BY <1>1, <1>2, RecursionExists
  <1>5. ASSUME NEW i \in 1 .. N PROVE f[i] = f[i - 1] \o fs[i]
    <2>1. i - 1 \in 0 .. N
      BY <1>1
    <2>2. f[i - 1] \in T
      BY <2>1
    <2> QED
      BY <1>3, <1>4, <2>2 DEF Follows
  <1>6. f[0] = <<>>
    BY <1>4 DEF Follows
  <1> QED
    BY <1>5, <1>6 DEF Concatenates, T

(* FlattenSeq of the first k frames.                                       *)
LEMMA FlattenIsJoined ==
    ASSUME NEW fs \in Seq(Seq(Byte)), NEW g, Concatenates(g, fs), NEW k \in 0 .. Len(fs)
    PROVE  FlattenSeq(SubSeq(fs, 1, k)) = g[k]
  <1> DEFINE t == SubSeq(fs, 1, k)
  <1>0. Len(fs) \in Nat /\ k \in Nat
    BY LenProperties
  <1>1. Len(t) = k /\ \A i \in 1 .. k : t[i] = fs[i]
    <2>1. \A i \in 1 .. k : fs[i] \in Seq(Byte)
      BY <1>0, ElementOfSeq
    <2>2. /\ Len(t) = IF 1 <= k THEN k - 1 + 1 ELSE 0
          /\ \A i \in 1 .. k - 1 + 1 : t[i] = fs[1 + i - 1]
      BY <1>0, <2>1, SubSeqProperties
    <2>3. \A i \in 1 .. k : i \in 1 .. k - 1 + 1 /\ 1 + i - 1 = i
      BY <1>0
    <2> HIDE DEF t
    <2> QED
      BY <1>0, <2>2, <2>3
  <1>2. CASE k = 0
    <2>1. t = <<>>
      BY <1>2, SubSeqEmpty
    <2> QED
      BY <1>2, <2>1 DEF Concatenates, FlattenSeq
  <1>3. CASE k # 0
    <2> DEFINE Body(h) == [i \in 1 .. Len(t) |-> IF i = 1 THEN t[i] ELSE h[i - 1] \o t[i]]
               c == CHOOSE h : h = Body(h)
               f == [i \in 1 .. k |-> g[i]]
    <2>1. FlattenSeq(t) = c[Len(t)]
      BY <1>1, <1>3 DEF FlattenSeq
    <2> HIDE DEF t
    <2>2. g[1] = fs[1]
      <3>1. g[1] = g[0] \o fs[1]
        <4>1. 1 \in 1 .. Len(fs) /\ 1 - 1 = 0
          BY <1>0, <1>3
        <4> QED
          BY <4>1 DEF Concatenates
      <3>2. fs[1] \in Seq(Byte)
        BY <1>0, <1>3, ElementOfSeq
      <3> QED
        BY <3>1, <3>2, ConcatEmptySeq DEF Concatenates
    <2>3. f = Body(f)
      <3>1. ASSUME NEW i \in 1 .. k
            PROVE  g[i] = IF i = 1 THEN t[i] ELSE f[i - 1] \o t[i]
        <4>1. CASE i = 1
          BY <1>1, <2>2, <4>1
        <4>2. CASE i # 1
          <5>1. i - 1 \in 1 .. k /\ i \in 1 .. Len(fs)
            BY <1>0, <4>2
          <5>2. f[i - 1] = g[i - 1]
            BY <5>1
          <5> HIDE DEF f
          <5> QED
            BY <1>1, <4>2, <5>1, <5>2 DEF Concatenates
        <4> QED
          BY <4>1, <4>2
      <3> QED
        BY <1>1, <3>1
    <2>4. c = Body(c)
      <3> HIDE DEF Body
      <3> QED
        BY <2>3
    <2>5. \A i \in 1 .. k : c[i] = IF i = 1 THEN t[i] ELSE c[i - 1] \o t[i]
      <3>1. \A i \in 1 .. k : Body(c)[i] = IF i = 1 THEN t[i] ELSE c[i - 1] \o t[i]
        <4> HIDE DEF c
        <4> QED
          BY <1>1
      <3> HIDE DEF c, Body
      <3> QED
        BY <2>4, <3>1
    <2> HIDE DEF c, f
    <2> DEFINE K == {i \in 0 .. k : i = 0 \/ c[i] = g[i]}
    <2>6. ASSUME NEW i \in K, i < k PROVE i + 1 \in K
      <3>1. i + 1 \in 1 .. k /\ i + 1 \in 1 .. Len(fs) /\ i + 1 \in 0 .. k
            /\ (i + 1) - 1 = i
        BY <1>0, <2>6
      <3>2. CASE i = 0
        BY <1>1, <2>2, <2>5, <3>1, <3>2
      <3>3. CASE i # 0
        <4>1. c[i + 1] = c[i] \o t[i + 1]
          <5>1. c[i + 1] = IF i + 1 = 1 THEN t[i + 1] ELSE c[(i + 1) - 1] \o t[i + 1]
            BY <2>5, <3>1, Zenon
          <5>2. i + 1 # 1
            BY <1>0, <3>3
          <5> QED
            BY <3>1, <5>1, <5>2, Zenon
        <4>2. g[i + 1] = g[i] \o fs[i + 1]
          BY <3>1 DEF Concatenates
        <4> QED
          BY <1>1, <3>1, <3>3, <4>1, <4>2
      <3> QED
        BY <3>2, <3>3
    <2>7. K = 0 .. k
      <3>1. 0 \in K /\ K \in SUBSET (0 .. k)
        BY <1>0
      <3> HIDE DEF K
      <3> QED
        BY <1>0, <2>6, <3>1, FiniteInduction
    <2>8. c[k] = g[k]
      <3>1. k \in K
        <4> HIDE DEF K
        <4> QED
          BY <1>0, <2>7
      <3> QED
        BY <1>3, <3>1
    <2> QED
      BY <1>1, <2>1, <2>8 DEF t
  <1> QED
    BY <1>2, <1>3

(* What has been joined stays at the beginning.                            *)
LEMMA JoinPrefix ==
    ASSUME NEW fs \in Seq(Seq(Byte)), NEW g, Concatenates(g, fs),
           NEW j \in 0 .. Len(fs), NEW k \in j .. Len(fs)
    PROVE  /\ Len(g[j]) \in Nat /\ Len(g[k]) \in Nat
           /\ Len(g[j]) <= Len(g[k])
           /\ \A i \in 1 .. Len(g[j]) : g[k][i] = g[j][i]
  <1>0. Len(fs) \in Nat
    BY LenProperties
  <1>1. \A n \in 0 .. Len(fs) : g[n] \in Seq(Byte) /\ Len(g[n]) \in Nat
    BY LenProperties DEF Concatenates
  <1> DEFINE Begins(n) == /\ Len(g[j]) <= Len(g[n])
                          /\ \A i \in 1 .. Len(g[j]) : g[n][i] = g[j][i]
             K == {d \in 0 .. Len(fs) - j : Begins(j + d)}
  <1>2. 0 \in K
    <2>1. Begins(j)
      BY <1>1
    <2>2. j + 0 = j /\ 0 \in 0 .. Len(fs) - j
      BY <1>0
    <2> HIDE DEF Begins
    <2> QED
      BY <2>1, <2>2
  <1>3. ASSUME NEW d \in K, d < Len(fs) - j PROVE d + 1 \in K
    <2>0. d \in 0 .. Len(fs) - j
      OBVIOUS
    <2>1. /\ d + 1 \in 0 .. Len(fs) - j
          /\ j + (d + 1) \in 1 .. Len(fs)
          /\ (j + (d + 1)) - 1 = j + d /\ j + d \in 0 .. Len(fs)
      <3> HIDE DEF K
      <3> QED
        BY <1>0, <1>3, <2>0
    <2> DEFINE n == j + d
               m == j + (d + 1)
    <2>2. Begins(n)
      OBVIOUS
    <2>3. g[m] = g[n] \o fs[m] /\ m \in 1 .. Len(fs)
      BY <2>1 DEF Concatenates
    <2>4. fs[m] \in Seq(Byte) /\ Len(fs[m]) \in Nat
      BY <2>3, ElementOfSeq, LenProperties
    <2>5. n \in 0 .. Len(fs)
      BY <2>1
    <2> HIDE DEF n, m
    <2>6. /\ Len(g[m]) = Len(g[n]) + Len(fs[m])
          /\ \A i \in 1 .. Len(g[n]) : g[m][i] = g[n][i]
      <3>1. g[n] \in Seq(Byte)
        BY <1>1, <2>5
      <3> HIDE DEF K, Begins
      <3>2. Glued(g[m], g[n], fs[m])
        BY <2>3, <2>4, <3>1, ConcatIs
      <3> QED
        BY <3>2 DEF Glued
    <2>7. Begins(m)
      <3>1. Len(g[j]) \in Nat /\ Len(g[n]) \in Nat
        BY <1>1, <2>5
      <3>2. \A a, b, c \in Nat : a <= b => a <= b + c /\ \A i \in 1 .. a : i \in 1 .. b
        OBVIOUS
      <3>3. Len(g[j]) <= Len(g[n]) /\ \A i \in 1 .. Len(g[j]) : g[n][i] = g[j][i]
        BY <2>2
      <3>4. Len(g[j]) <= Len(g[n]) + Len(fs[m]) /\ \A i \in 1 .. Len(g[j]) : i \in 1 .. Len(g[n])
        BY <2>4, <3>1, <3>2, <3>3, Zenon
      <3> HIDE DEF K
      <3>5. Len(g[j]) <= Len(g[m])
        BY <2>6, <3>4, Zenon
      <3>6. \A i \in 1 .. Len(g[j]) : g[m][i] = g[j][i]
        BY <2>6, <3>3, <3>4, Zenon
      <3> QED
        BY <3>5, <3>6, Zenon
    <2> HIDE DEF Begins
    <2> QED
      BY <2>1, <2>7 DEF m
  <1>4. K = 0 .. Len(fs) - j
    <2>1. K \in SUBSET (0 .. Len(fs) - j) /\ Len(fs) - j \in Nat
      BY <1>0
    <2> HIDE DEF K
    <2> QED
      BY <1>2, <1>3, <2>1, FiniteInduction
  <1>5. Begins(k)
    <2>1. k - j \in 0 .. Len(fs) - j /\ j + (k - j) = k
      BY <1>0
    <2> HIDE DEF Begins
    <2>2. k - j \in K
      <3> HIDE DEF K
      <3> QED
        BY <1>4, <2>1
    <2> QED
      BY <2>1, <2>2
  <1> QED
    BY <1>0, <1>1, <1>5

-----------------------------------------------------------------------------
(* What the step of a loop is that goes over a sequence of T.              *)
Turns(S, T) == [S -> [T -> S]]

(* What a loop has after each of its steps.                                *)
Looped(out, step, first, s) ==
    /\ out[0] = first
    /\ \A i \in 1 .. Len(s) : out[i] = step[out[i - 1]][s[i]]
    /\ Loop(step, first, s) = out[Len(s)]

(* A loop takes its steps one after another.                               *)
LEMMA LoopIs ==
    ASSUME NEW S, NEW T, NEW step \in Turns(S, T), NEW first \in S, NEW s \in Seq(T)
    PROVE  \E out \in [0 .. Len(s) -> S] : Looped(out, step, first, s)
  <1> DEFINE N == Len(s)
             Body(g) == [n \in 0 .. N |-> IF n = 0 THEN first ELSE step[g[n - 1]][s[n]]]
             turn == [p \in (1 .. N) \X S |-> step[p[2]][s[p[1]]]]
             out == CHOOSE g : g = Body(g)
  <1>1. N \in Nat /\ \A i \in 1 .. N : s[i] \in T
    BY LenProperties, ElementOfSeq
  <1>2. turn \in Steps(N, S)
    <2>1. ASSUME NEW p \in (1 .. N) \X S PROVE step[p[2]][s[p[1]]] \in S
      <3>1. p[1] \in 1 .. N /\ p[2] \in S
        OBVIOUS
      <3>2. s[p[1]] \in T
        BY <1>1, <3>1
      <3> HIDE DEF N
      <3> QED
        BY <3>1, <3>2 DEF Turns
    <2> HIDE DEF N
    <2> QED
      BY <2>1 DEF Steps
  <1>3. PICK f \in [0 .. N -> S] : Follows(f, N, first, turn)
    <2> HIDE DEF turn, N
    <2> QED
      BY <1>1, <1>2, RecursionExists
  <1>4. \A i \in 1 .. N : f[i] = step[f[i - 1]][s[i]]
    <2> SUFFICES ASSUME NEW i \in 1 .. N PROVE f[i] = step[f[i - 1]][s[i]]
      OBVIOUS
    <2>1. i - 1 \in 0 .. N
      BY <1>1
    <2>2. <<i, f[i - 1]>> \in (1 .. N) \X S
      BY <2>1
    <2> QED
      BY <1>3, <2>2 DEF Follows
  <1>5. f[0] = first
    BY <1>3 DEF Follows
  <1>6. f = Body(f)
    <2> HIDE DEF N
    <2> QED
      BY <1>1, <1>4, <1>5
  <1>7. out = Body(out)
    <2> HIDE DEF Body
    <2> QED
      BY <1>6
  <1>8. Loop(step, first, s) = out[N]
    BY DEF Loop
  <1> HIDE DEF out
  <1>9. out[0] = first /\ out = [n \in 0 .. N |-> out[n]]
    <2> HIDE DEF N
    <2> QED
      BY <1>1, <1>7
  <1>10. ASSUME NEW i \in 1 .. N PROVE out[i] = step[out[i - 1]][s[i]]
    <2>1. i \in 0 .. N /\ i # 0
      BY <1>1
    <2> HIDE DEF N
    <2> QED
      BY <1>7, <2>1
  <1>11. out \in [0 .. N -> S]
    <2> DEFINE K == {n \in 0 .. N : out[n] \in S}
    <2>1. 0 \in K
      BY <1>1, <1>9
    <2>2. ASSUME NEW n \in K, n < N PROVE n + 1 \in K
      <3>1. n + 1 \in 1 .. N /\ (n + 1) - 1 = n /\ out[n] \in S /\ n + 1 \in 0 .. N
        BY <1>1, <2>2
      <3>2. out[n + 1] = step[out[n]][s[n + 1]]
        BY <1>10, <3>1
      <3>3. s[n + 1] \in T
        BY <1>1, <3>1
      <3> HIDE DEF N
      <3> QED
        BY <3>1, <3>2, <3>3 DEF Turns
    <2>3. K = 0 .. N
      <3> HIDE DEF K, N
      <3>1. K \in SUBSET (0 .. N)
        BY DEF K
      <3> QED
        BY <1>1, <2>1, <2>2, <3>1, FiniteInduction
    <2>4. \A n \in 0 .. N : out[n] \in S
      BY <2>3
    <2> HIDE DEF N, K
    <2> QED
      BY <1>9, <2>4
  <1>12. Looped(out, step, first, s)
    BY <1>8, <1>9, <1>10 DEF Looped
  <1> QED
    BY <1>11, <1>12

(* The same loops in the decoders.                                         *)
LEMMA SameLoop ==
    ASSUME NEW step, NEW first, NEW s
    PROVE  /\ J!Loop(step, first, s) = Loop(step, first, s)
           /\ G!Loop(step, first, s) = Loop(step, first, s)
           /\ Txt!Loop(step, first, s) = Loop(step, first, s)
  BY DEF J!Loop, G!Loop, Txt!Loop, Loop

-----------------------------------------------------------------------------
(* Numbers.                                                                *)

(* A bit counts its weight or nothing.                                     *)
LEMMA XorTyped ==
    ASSUME NEW a \in Int, NEW b \in Int
    PROVE  G!XorByte(a, b) \in 0 .. 255 /\ G!Xor(a, b) \in TwoBytes
  <1>1. ASSUME NEW x \in Int, NEW y \in Int PROVE G!XorByte(x, y) \in 0 .. 255
    <2> DEFINE d(w) == (x \div w + y \div w) % 2
    <2>0. \A m \in Int : m % 2 \in 0 .. 1
      OBVIOUS
    <2>1. \A w \in Nat \ {0} : x \div w \in Int /\ y \div w \in Int
      OBVIOUS
    <2>2. ASSUME NEW w \in Nat \ {0} PROVE d(w) \in 0 .. 1
      <3>1. x \div w + y \div w \in Int
        BY <2>1
      <3> QED
        BY <2>0, <3>1
    <2>3. G!XorByte(x, y) = 1 * d(1) + 2 * d(2) + 4 * d(4) + 8 * d(8)
                              + 16 * d(16) + 32 * d(32) + 64 * d(64) + 128 * d(128)
      BY DEF G!XorByte
    <2> HIDE DEF d
    <2>4. /\ d(1) \in 0 .. 1 /\ d(2) \in 0 .. 1 /\ d(4) \in 0 .. 1 /\ d(8) \in 0 .. 1
          /\ d(16) \in 0 .. 1 /\ d(32) \in 0 .. 1 /\ d(64) \in 0 .. 1 /\ d(128) \in 0 .. 1
      BY <2>2
    <2> QED
      BY <2>3, <2>4
  <1>2. PICK p \in Int, q \in Int, r \in Int, t \in Int :
           p = a \div 256 /\ q = b \div 256 /\ r = (a % 256) /\ t = (b % 256)
    OBVIOUS
  <1>3. \A m, n \in Int : G!XorByte(m, n) \in Byte
    BY <1>1 DEF Byte
  <1>4. PICK x \in Byte : x = G!XorByte(p, q)
    BY <1>3, Zenon
  <1>5. PICK y \in Byte : y = G!XorByte(r, t)
    BY <1>3, Zenon
  <1>6. 256 * x + y \in TwoBytes
    BY SMT DEF Byte, TwoBytes
  <1>7. G!Xor(a, b) = 256 * x + y
    BY <1>2, <1>4, <1>5, SMT DEF G!Xor
  <1>8. G!XorByte(a, b) \in 0 .. 255
    BY <1>3, Zenon DEF Byte
  <1> QED
    BY <1>6, <1>7, <1>8

(* A checksum of GT06 has two bytes.                                       *)
LEMMA CrcTyped ==
    ASSUME NEW b \in Seq(Byte)
    PROVE  G!CrcItu(b) \in TwoBytes
  <1>1. \A c \in TwoBytes : G!Shift(c) \in TwoBytes
    <2> SUFFICES ASSUME NEW c \in TwoBytes PROVE G!Shift(c) \in TwoBytes
      OBVIOUS
    <2>1. c \div 2 \in TwoBytes /\ c \div 2 \in Int
      BY DEF TwoBytes
    <2>2. G!Xor(c \div 2, 33800) \in TwoBytes
      BY <2>1, XorTyped
    <2> QED
      BY <2>1, <2>2 DEF G!Shift
  <1>2. \A c \in TwoBytes : G!FourShifts(c) \in TwoBytes
    BY <1>1 DEF G!FourShifts
  <1>3. \A byte \in Byte : G!CrcTable[byte] \in TwoBytes
    <2>1. Byte \subseteq TwoBytes
      BY DEF Byte, TwoBytes
    <2> QED
      BY <1>2, <2>1 DEF G!CrcTable, G!Byte, Byte
  <1> DEFINE step == [crc \in G!TwoBytes |-> [byte \in G!Byte |->
                        G!Xor(crc \div 256, G!CrcTable[G!XorByte(crc % 256, byte)])]]
  <1>4. step \in Turns(TwoBytes, Byte)
    <2>1. ASSUME NEW crc \in TwoBytes, NEW byte \in Byte
          PROVE  G!Xor(crc \div 256, G!CrcTable[G!XorByte(crc % 256, byte)]) \in TwoBytes
      <3>1. crc % 256 \in Int /\ crc \div 256 \in Int /\ byte \in Int
        BY DEF TwoBytes, Byte
      <3>2. G!XorByte(crc % 256, byte) \in Byte
        BY <3>1, XorTyped DEF Byte
      <3>3. G!CrcTable[G!XorByte(crc % 256, byte)] \in Int
        BY <1>3, <3>2 DEF TwoBytes
      <3> QED
        BY <3>1, <3>3, XorTyped
    <2>2. G!TwoBytes = TwoBytes /\ G!Byte = Byte
      BY DEF G!TwoBytes, G!Byte, TwoBytes, Byte
    <2> QED
      BY <2>1, <2>2 DEF Turns
  <1>5. PICK first \in TwoBytes : first = 65535
    <2>1. 65535 \in TwoBytes
      BY DEF TwoBytes
    <2> QED
      BY <2>1
  <1>6. G!CrcItu(b) = 65535 - G!Loop(step, first, b)
    BY <1>5 DEF G!CrcItu
  <1> HIDE DEF step
  <1>7. Loop(step, first, b) \in TwoBytes
    <2>0. PICK out \in [0 .. Len(b) -> TwoBytes] : Looped(out, step, first, b)
      BY <1>4, LoopIs
    <2>1. Loop(step, first, b) = out[Len(b)]
      BY <2>0 DEF Looped
    <2>2. Len(b) \in 0 .. Len(b)
      BY LenProperties
    <2> QED
      BY <2>1, <2>2
  <1>8. \A n \in TwoBytes : 65535 - n \in TwoBytes
    BY DEF TwoBytes
  <1> QED
    BY <1>6, <1>7, <1>8, SameLoop

-----------------------------------------------------------------------------
(* The bytes of a frame.                                                   *)

(* A part of b that agrees with s place by place is s.                     *)
LEMMA SliceIs ==
    ASSUME NEW b \in Seq(Byte), NEW s \in Seq(Byte), NEW k \in Nat, k + Len(s) <= Len(b),
           \A i \in 1 .. Len(s) : b[k + i] = s[i]
    PROVE  SubSeq(b, k + 1, k + Len(s)) = s
  <1>1. PICK n \in Nat : n = Len(s)
    BY LenProperties
  <1>2. Len(b) \in Nat
    BY LenProperties
  <1>3. k + 1 \in Int /\ k + n \in Int
    BY <1>1
  <1>4. \A i \in k + 1 .. k + n : b[i] \in Byte
    <2> SUFFICES ASSUME NEW i \in k + 1 .. k + n PROVE b[i] \in Byte
      OBVIOUS
    <2>1. i \in 1 .. Len(b)
      BY <1>1, <1>2
    <2> QED
      BY <2>1, ElementOfSeq
  <1> DEFINE u == SubSeq(b, k + 1, k + n)
  <1>5. /\ u \in Seq(Byte)
        /\ Len(u) = IF k + 1 <= k + n THEN (k + n) - (k + 1) + 1 ELSE 0
        /\ \A i \in 1 .. (k + n) - (k + 1) + 1 : u[i] = b[(k + 1) + i - 1]
    BY <1>3, <1>4, SubSeqProperties
  <1>6. Len(u) = n
    BY <1>1, <1>5
  <1>7. ASSUME NEW i \in 1 .. n PROVE u[i] = s[i]
    <2>1. i \in 1 .. (k + n) - (k + 1) + 1 /\ (k + 1) + i - 1 = k + i
      BY <1>1
    <2>2. u[i] = b[k + i]
      BY <1>5, <2>1
    <2> QED
      BY <1>1, <2>2
  <1> HIDE DEF u
  <1>8. u = s
    BY <1>1, <1>5, <1>6, <1>7, SeqEqual
  <1> QED
    BY <1>1, <1>8 DEF u

(* A part of b is of bytes.                                                *)
LEMMA PartIs ==
    ASSUME NEW b \in Seq(Byte), NEW m \in 1 .. Len(b) + 1, NEW n \in 0 .. Len(b), m <= n + 1
    PROVE  /\ SubSeq(b, m, n) \in Seq(Byte)
           /\ Len(SubSeq(b, m, n)) = n - m + 1
           /\ \A i \in 1 .. n - m + 1 : SubSeq(b, m, n)[i] = b[m + i - 1]
  <1>1. Len(b) \in Nat
    BY LenProperties
  <1>2. \A i \in m .. n : b[i] \in Byte
    <2> SUFFICES ASSUME NEW i \in m .. n PROVE b[i] \in Byte
      OBVIOUS
    <2>1. i \in 1 .. Len(b)
      BY <1>1
    <2> QED
      BY <2>1, ElementOfSeq
  <1>3. m \in Int /\ n \in Int
    BY <1>1
  <1>4. /\ SubSeq(b, m, n) \in Seq(Byte)
        /\ Len(SubSeq(b, m, n)) = IF m <= n THEN n - m + 1 ELSE 0
        /\ \A i \in 1 .. n - m + 1 : SubSeq(b, m, n)[i] = b[m + i - 1]
    BY <1>2, <1>3, SubSeqProperties
  <1> QED
    BY <1>1, <1>4

(* A number of two bytes and its bytes.                                    *)
LEMMA WordIs ==
    ASSUME NEW n \in TwoBytes
    PROVE  /\ WordBytes(n) \in Seq(Byte) /\ Len(WordBytes(n)) = 2
           /\ 256 * WordBytes(n)[1] + WordBytes(n)[2] = n
           /\ G!WordBytes(n) = WordBytes(n) /\ J!WordBytes(n) = WordBytes(n)
  <1>1. n \in Nat /\ n < 65536
    BY DEF TwoBytes
  <1>2. n \div 256 \in Byte /\ n % 256 \in Byte /\ 256 * (n \div 256) + (n % 256) = n
    BY <1>1 DEF Byte
  <1> QED
    BY <1>2 DEF WordBytes, G!WordBytes, J!WordBytes

-----------------------------------------------------------------------------
(* GT06.                                                                   *)

(* What encodeFrame makes of a number, a payload p and a serial.           *)
Encoded(f, number, p, serial) ==
    /\ f \in Seq(Byte) /\ Len(f) = Len(p) + 10
    /\ f[1] = 120 /\ f[2] = 120 /\ f[3] = Len(p) + 5 /\ f[4] = number
    /\ SubSeq(f, 5, Len(f) - 6) = p
    /\ G!Word(f, Len(f) - 5) = serial
    /\ G!FrameErrors(f, 4) = {}

(* encodeFrame makes that.                                                 *)
LEMMA EncodeFrameIs ==
    ASSUME NEW number \in Byte, NEW p \in Seq(Byte), Len(p) <= 250, NEW serial \in TwoBytes
    PROVE  Encoded(G!EncodeFrame(number, p, serial), number, p, serial)
  <1> DEFINE a == <<Len(p) + 5, number>>
             w == WordBytes(serial)
             ap == a \o p
             c == ap \o w
             v == WordBytes(G!CrcItu(c))
             o == <<120, 120>>
             oc == o \o c
             ocv == oc \o v
             s == <<13, 10>>
             f == ocv \o s
  <1>1. PICK n \in Nat : n = Len(p) /\ n <= 250
    BY LenProperties
  <1>2. /\ a \in Seq(Byte) /\ Len(a) = 2 /\ a[1] = n + 5 /\ a[2] = number
        /\ o \in Seq(Byte) /\ Len(o) = 2 /\ o[1] = 120 /\ o[2] = 120
        /\ s \in Seq(Byte) /\ Len(s) = 2 /\ s[1] = 13 /\ s[2] = 10
    <2>1. n + 5 \in Byte /\ 120 \in Byte /\ 13 \in Byte /\ 10 \in Byte
      <3>1. \A x \in Nat : x <= 255 => x \in Byte
        BY DEF Byte
      <3>2. n + 5 \in Nat /\ n + 5 <= 255
        BY <1>1
      <3> QED
        BY <3>1, <3>2
    <2>2. a = <<n + 5, number>>
      BY <1>1
    <2> QED
      BY <2>1, <2>2
  <1>3. w \in Seq(Byte) /\ Len(w) = 2 /\ 256 * w[1] + w[2] = serial /\ G!WordBytes(serial) = w
    BY WordIs
  <1>4. /\ ap \in Seq(Byte) /\ Len(ap) = n + 2
        /\ ap[1] = n + 5 /\ ap[2] = number /\ \A i \in 1 .. n : ap[2 + i] = p[i]
    <2>1. Glued(ap, a, p)
      BY <1>2, ConcatIs
    <2> HIDE DEF a, ap
    <2> QED
      BY <1>1, <1>2, <2>1 DEF Glued
  <1>5. /\ c \in Seq(Byte) /\ Len(c) = n + 4
        /\ c[1] = n + 5 /\ c[2] = number /\ \A i \in 1 .. n : c[2 + i] = p[i]
        /\ c[n + 3] = w[1] /\ c[n + 4] = w[2]
    <2> HIDE DEF w, ap
    <2>1. Glued(c, ap, w)
      BY <1>3, <1>4, ConcatIs
    <2> HIDE DEF c
    <2>2. \A i \in 1 .. n + 2 : c[i] = ap[i]
      BY <1>4, <2>1 DEF Glued
    <2>3. /\ c[n + 2 + 1] = w[1] /\ c[n + 2 + 2] = w[2] /\ c \in Seq(Byte) /\ Len(c) = n + 2 + 2
      BY <1>3, <1>4, <2>1 DEF Glued
    <2>4. \A i \in 1 .. n : c[2 + i] = p[i]
      BY <1>1, <1>4, <2>2
    <2>5. c[1] = n + 5 /\ c[2] = number
      BY <1>1, <1>4, <2>2
    <2> QED
      BY <1>1, <2>3, <2>4, <2>5
  <1>6. G!CrcItu(c) \in TwoBytes
    <2> HIDE DEF c
    <2> QED
      BY <1>5, CrcTyped
  <1>7. /\ v \in Seq(Byte) /\ Len(v) = 2 /\ 256 * v[1] + v[2] = G!CrcItu(c)
        /\ G!WordBytes(G!CrcItu(c)) = v
    <2> HIDE DEF c
    <2> QED
      BY <1>6, WordIs
  <1>8. oc \in Seq(Byte) /\ Len(oc) = n + 6 /\ oc[1] = 120 /\ oc[2] = 120
        /\ \A i \in 1 .. n + 4 : oc[2 + i] = c[i]
    <2> HIDE DEF c, o
    <2>1. Glued(oc, o, c)
      BY <1>2, <1>5, ConcatIs
    <2> QED
      BY <1>1, <1>2, <1>5, <2>1 DEF Glued
  <1>9. ocv \in Seq(Byte) /\ Len(ocv) = n + 8
        /\ (\A i \in 1 .. n + 6 : ocv[i] = oc[i])
        /\ ocv[n + 7] = v[1] /\ ocv[n + 8] = v[2]
    <2> HIDE DEF oc, v
    <2>1. Glued(ocv, oc, v)
      BY <1>7, <1>8, ConcatIs
    <2> HIDE DEF ocv
    <2>2. /\ ocv[n + 6 + 1] = v[1] /\ ocv[n + 6 + 2] = v[2] /\ Len(ocv) = n + 6 + 2
      BY <1>7, <1>8, <2>1 DEF Glued
    <2>3. ocv \in Seq(Byte) /\ \A i \in 1 .. n + 6 : ocv[i] = oc[i]
      BY <1>8, <2>1 DEF Glued
    <2> QED
      BY <1>1, <2>2, <2>3
  <1>10. /\ f \in Seq(Byte) /\ Len(f) = n + 10
         /\ (\A i \in 1 .. n + 8 : f[i] = ocv[i]) /\ f[n + 9] = 13 /\ f[n + 10] = 10
    <2> HIDE DEF ocv, s
    <2>1. Glued(f, ocv, s)
      BY <1>2, <1>9, ConcatIs
    <2> HIDE DEF f
    <2>2. /\ f[n + 8 + 1] = s[1] /\ f[n + 8 + 2] = s[2] /\ Len(f) = n + 8 + 2
      BY <1>2, <1>9, <2>1 DEF Glued
    <2>3. f \in Seq(Byte) /\ \A i \in 1 .. n + 8 : f[i] = ocv[i]
      BY <1>9, <2>1 DEF Glued
    <2> QED
      BY <1>1, <1>2, <2>2, <2>3
  <1>11. f = G!EncodeFrame(number, p, serial)
    <2> HIDE DEF w, v
    <2> QED
      BY <1>3, <1>7 DEF G!EncodeFrame, G!StopBytes
  <1> HIDE DEF a, w, ap, c, v, o, oc, ocv, s, f
  <1>12. \A i \in 1 .. n + 6 : f[i] = oc[i]
    BY <1>1, <1>9, <1>10
  <1>13. \A i \in 1 .. n + 4 : f[2 + i] = c[i]
    BY <1>1, <1>8, <1>12
  <1>14. f[1] = 120 /\ f[2] = 120 /\ f[3] = n + 5 /\ f[4] = number
    <2>1. f[2 + 1] = c[1] /\ f[2 + 2] = c[2]
      BY <1>1, <1>13
    <2> QED
      BY <1>1, <1>5, <1>8, <1>12, <2>1
  <1>15. SubSeq(f, 5, Len(f) - 6) = p
    <2>1. \A i \in 1 .. n : f[4 + i] = p[i]
      BY SMTT(30), <1>1, <1>5, <1>13
    <2>2. 4 + 1 = 5 /\ 4 + Len(p) = Len(f) - 6 /\ 4 + Len(p) <= Len(f)
      BY <1>1, <1>10
    <2>3. SubSeq(f, 4 + 1, 4 + Len(p)) = p
      BY <1>1, <1>10, <2>1, <2>2, SliceIs
    <2> QED
      BY <2>2, <2>3
  <1>16. G!Word(f, Len(f) - 5) = serial
    <2>1. f[2 + (n + 3)] = c[n + 3] /\ f[2 + (n + 4)] = c[n + 4]
      BY <1>1, <1>13
    <2>2. f[n + 5] = w[1] /\ f[n + 6] = w[2]
      BY <1>1, <1>5, <2>1
    <2>3. Len(f) - 5 = n + 5 /\ n + 5 + 1 = n + 6
      BY <1>1, <1>10
    <2> QED
      BY <1>3, <2>2, <2>3 DEF G!Word
  <1>17. G!FrameErrors(f, 4) = {}
    <2>1. Len(f) - 3 = n + 7 /\ n + 7 + 1 = n + 8 /\ n + 7 + 2 = n + 9
      BY <1>1, <1>10
    <2>2. G!Part(f, n + 9, 2) = G!StopBytes
      <3>1. n + 8 \in Nat /\ (n + 8) + Len(s) <= Len(f) /\ \A i \in 1 .. Len(s) : f[(n + 8) + i] = s[i]
        BY <1>1, <1>2, <1>10
      <3>2. SubSeq(f, (n + 8) + 1, (n + 8) + Len(s)) = s
        BY SMTT(30), <1>2, <1>10, <3>1, SliceIs
      <3>3. (n + 8) + 1 = n + 9 /\ (n + 8) + Len(s) = n + 9 + 2 - 1
        BY <1>1, <1>2
      <3>4. s = G!StopBytes
        BY DEF s, G!StopBytes
      <3> QED
        BY <3>2, <3>3, <3>4 DEF G!Part
    <2>3. SubSeq(f, 3, n + 7 - 1) = c
      <3>1. 2 \in Nat /\ 2 + Len(c) <= Len(f) /\ \A i \in 1 .. Len(c) : f[2 + i] = c[i]
        BY <1>1, <1>5, <1>10, <1>13
      <3>2. SubSeq(f, 2 + 1, 2 + Len(c)) = c
        BY <1>5, <1>10, <3>1, SliceIs
      <3>3. 2 + 1 = 3 /\ 2 + Len(c) = n + 7 - 1
        BY <1>1, <1>5
      <3> QED
        BY <3>2, <3>3
    <2>4. G!Word(f, n + 7) = G!CrcItu(c)
      <3>1. f[n + 7] = ocv[n + 7] /\ f[n + 8] = ocv[n + 8]
        BY <1>1, <1>10
      <3>2. f[n + 7] = v[1] /\ f[n + 7 + 1] = v[2]
        BY <1>9, <2>1, <3>1
      <3> QED
        BY <1>7, <3>2 DEF G!Word
    <2> DEFINE crcAt == Len(f) - 3
    <2>5. crcAt = n + 7 /\ crcAt + 2 = n + 9
      BY <2>1
    <2>6. G!FrameErrors(f, 4) =
             (IF G!Part(f, crcAt + 2, 2) # G!StopBytes THEN {"terminador"} ELSE {})
               \cup (IF G!Word(f, crcAt) # G!CrcItu(SubSeq(f, 3, crcAt - 1)) THEN {"crc"} ELSE {})
      BY DEF G!FrameErrors
    <2> HIDE DEF crcAt
    <2>7. G!Part(f, crcAt + 2, 2) = G!StopBytes
      BY <2>2, <2>5
    <2>8. SubSeq(f, 3, crcAt - 1) = c
      BY <2>3, <2>5
    <2>9. G!Word(f, crcAt) = G!CrcItu(SubSeq(f, 3, crcAt - 1))
      BY <2>4, <2>5, <2>8
    <2> QED
      BY <2>6, <2>7, <2>9
  <1> QED
    BY <1>1, <1>10, <1>11, <1>14, <1>15, <1>16, <1>17 DEF Encoded

(* What is read of m is what is read of its payload p.                     *)
Reads(got, number, p, serial) ==
    /\ got.id = number /\ got.serial = serial
    /\ got.errors = G!Content(number, p).errors
    /\ got.from = G!Content(number, p).from
    /\ got.positions = G!Content(number, p).positions
    /\ got.alarm = G!Content(number, p).alarm
    /\ got.flag = G!Content(number, p).flag
    /\ got.text = G!Content(number, p).text

(* And decode reads it.                                                    *)
LEMMA Gt06DecodeIs ==
    ASSUME NEW number \in Byte, NEW p \in Seq(Byte), NEW serial \in TwoBytes,
           NEW f, Encoded(f, number, p, serial)
    PROVE  Reads(G!Decode(f), number, p, serial)
  <1>1. PICK n \in Nat : n = Len(p)
    BY LenProperties
  <1>2. Len(f) = n + 10 /\ f[1] # 121 /\ f[4] = number
    BY <1>1 DEF Encoded
  <1> DEFINE content == G!Content(number, p)
             serialAt == Len(f) - 5
  <1>3. SubSeq(f, 4 + 1, serialAt - 1) = p
    <2>1. 4 + 1 = 5 /\ serialAt - 1 = Len(f) - 6
      BY <1>2
    <2> HIDE DEF serialAt
    <2> QED
      BY <2>1 DEF Encoded
  <1>4. G!Word(f, serialAt) = serial /\ G!FrameErrors(f, 4) = {}
    BY DEF Encoded
  <1>5. ~ (4 + 1 > serialAt)
    BY <1>1, <1>2
  <1>6. G!Decode(f) =
          [type |-> IF number \in DOMAIN G!Names THEN G!Names[number] ELSE "desconocido",
           errors |-> {} \cup content.errors,
           from |-> content.from, serial |-> serial, id |-> number,
           positions |-> content.positions, alarm |-> content.alarm,
           flag |-> content.flag, text |-> content.text]
    <2> HIDE DEF content
    <2> QED
      BY <1>2, <1>3, <1>4, <1>5 DEF G!Decode, content
  <1> QED
    BY <1>6 DEF Reads

(* The digit k of the n bytes that digits are encoded in.                  *)
BcdDigit(digits, n, k) ==
    LET j == Len(digits) - 2 * n + k IN IF j >= 1 THEN digits[j] ELSE 0

(* The digits of a BCD are those encoded, behind zeros or cut in front.    *)
LEMMA BcdIs ==
    ASSUME NEW digits \in Seq(0 .. 9), NEW n \in Nat
    PROVE  /\ BcdEncode(digits, n) \in Seq(Byte) /\ Len(BcdEncode(digits, n)) = n
           /\ \A k \in 1 .. 2 * n : BcdDigit(digits, n, k) \in 0 .. 9
           /\ Digits(BcdEncode(digits, n)) = [k \in 1 .. 2 * n |-> BcdDigit(digits, n, k)]
  <1> DEFINE b == [k \in 1 .. n |-> 16 * BcdDigit(digits, n, 2 * k - 1) + BcdDigit(digits, n, 2 * k)]
  <1>1. BcdEncode(digits, n) = b
    BY DEF BcdEncode, BcdDigit
  <1>2. ASSUME NEW k \in 1 .. 2 * n PROVE BcdDigit(digits, n, k) \in 0 .. 9
    <2>1. Len(digits) \in Nat
      BY LenProperties
    <2>2. CASE Len(digits) - 2 * n + k >= 1
      <3>1. Len(digits) - 2 * n + k \in 1 .. Len(digits)
        BY <2>1, <2>2
      <3>2. digits[Len(digits) - 2 * n + k] \in 0 .. 9
        BY <3>1, ElementOfSeq
      <3> QED
        BY <2>2, <3>2 DEF BcdDigit
    <2>3. CASE ~ (Len(digits) - 2 * n + k >= 1)
      BY <2>3 DEF BcdDigit
    <2> QED
      BY <2>2, <2>3
  <1>3. ASSUME NEW k \in 1 .. n
        PROVE  /\ b[k] \in Byte
               /\ b[k] \div 16 = BcdDigit(digits, n, 2 * k - 1)
               /\ b[k] % 16 = BcdDigit(digits, n, 2 * k)
    <2>1. 2 * k - 1 \in 1 .. 2 * n /\ 2 * k \in 1 .. 2 * n
      OBVIOUS
    <2>2. PICK x \in 0 .. 9 : x = BcdDigit(digits, n, 2 * k - 1)
      BY <1>2, <2>1
    <2>3. PICK y \in 0 .. 9 : y = BcdDigit(digits, n, 2 * k)
      BY <1>2, <2>1
    <2>4. b[k] = 16 * x + y
      BY <2>2, <2>3
    <2>5. 16 * x + y \in Byte /\ (16 * x + y) \div 16 = x /\ (16 * x + y) % 16 = y
      BY DEF Byte
    <2> HIDE DEF b
    <2> QED
      BY <2>2, <2>3, <2>4, <2>5
  <1>4. b \in Seq(Byte) /\ Len(b) = n
    <2>1. b \in [1 .. n -> Byte]
      BY <1>3
    <2> HIDE DEF b
    <2> QED
      BY <2>1
  <1> HIDE DEF b
  <1>5. ASSUME NEW k \in 1 .. 2 * n
        PROVE  (IF k % 2 = 1 THEN b[(k + 1) \div 2] \div 16 ELSE b[k \div 2] % 16)
                  = BcdDigit(digits, n, k)
    <2>1. CASE k % 2 = 1
      <3>1. (k + 1) \div 2 \in 1 .. n /\ 2 * ((k + 1) \div 2) - 1 = k
        BY <2>1
      <3> QED
        BY <1>3, <2>1, <3>1
    <2>2. CASE k % 2 # 1
      <3>1. k \div 2 \in 1 .. n /\ 2 * (k \div 2) = k
        BY <2>2
      <3> QED
        BY <1>3, <2>2, <3>1
    <2> QED
      BY <2>1, <2>2
  <1>6. Digits(b) = [k \in 1 .. 2 * n |-> BcdDigit(digits, n, k)]
    BY <1>4, <1>5 DEF Digits
  <1> QED
    BY <1>1, <1>2, <1>4, <1>6

(* What is below 2^32, and its bytes.                                      *)
FourBytes == {n \in Nat : n \div 65536 \in TwoBytes}

(* The four bytes behind i are read as n.                                  *)
LongRead(n, limit, b, i) ==
    (\A j \in 1 .. 4 : b[i + j] = LongBytes(n)[j]) =>
        /\ Long(b, i + 1) = n
        /\ LongAbove(b, i + 1, limit) <=> n > limit
        /\ (\A j \in i + 1 .. i + 4 : b[j] = 0) <=> n = 0

(* Four bytes are read as the number that was written, and compared as it. *)
LEMMA LongIs ==
    ASSUME NEW n \in FourBytes
    PROVE  /\ LongBytes(n) \in Seq(Byte) /\ Len(LongBytes(n)) = 4
           /\ \A limit \in Nat, i \in Nat : \A b : LongRead(n, limit, b, i)
  <1> DEFINE v == WordBytes(n \div 65536)
             w == WordBytes(n % 65536)
             s == v \o w
  <1>1. PICK q \in TwoBytes, r \in TwoBytes : q = n \div 65536 /\ r = n % 65536 /\ n = 65536 * q + r
    BY DEF FourBytes, TwoBytes
  <1>2. /\ v \in Seq(Byte) /\ Len(v) = 2 /\ 256 * v[1] + v[2] = q
        /\ w \in Seq(Byte) /\ Len(w) = 2 /\ 256 * w[1] + w[2] = r
    BY <1>1, WordIs
  <1>3. LongBytes(n) = s
    BY DEF LongBytes
  <1> HIDE DEF v, w
  <1>4. Glued(s, v, w)
    BY <1>2, ConcatIs
  <1> HIDE DEF s
  <1>5. /\ s \in Seq(Byte) /\ Len(s) = 4
        /\ s[1] = v[1] /\ s[2] = v[2] /\ s[2 + 1] = w[1] /\ s[2 + 2] = w[2]
    BY <1>2, <1>4 DEF Glued
  <1>6. \A k \in 1 .. 4 : s[k] \in Byte
    BY <1>5, ElementOfSeq
  <1>7. 256 * s[1] + s[2] = q /\ 256 * s[3] + s[4] = r
    BY <1>2, <1>5
  <1>8. ASSUME NEW limit \in Nat, NEW b, NEW i \in Nat, \A j \in 1 .. 4 : b[i + j] = s[j]
        PROVE  /\ Long(b, i + 1) = n
               /\ LongAbove(b, i + 1, limit) <=> n > limit
               /\ (\A j \in i + 1 .. i + 4 : b[j] = 0) <=> n = 0
    <2>1. /\ b[i + 1] = s[1] /\ b[i + 2] = s[2] /\ b[i + 3] = s[3] /\ b[i + 4] = s[4]
          /\ (i + 1) + 1 = i + 2 /\ (i + 1) + 2 = i + 3 /\ (i + 3) + 1 = i + 4
      BY <1>8
    <2>2. Word(b, i + 1) = q /\ Word(b, (i + 1) + 2) = r
      BY <1>7, <2>1 DEF Word
    <2>3. Long(b, i + 1) = n
      BY <1>1, <2>2 DEF Long
    <2>4. LongAbove(b, i + 1, limit) <=> n > limit
      <3>1. q \in Nat /\ r \in Nat /\ r < 65536
        BY DEF TwoBytes
      <3>2. PICK ql \in Nat, rl \in Nat : rl < 65536 /\
               ql = limit \div 65536 /\ rl = limit % 65536 /\ limit = 65536 * ql + rl
        OBVIOUS
      <3>3. LongAbove(b, i + 1, limit) <=> q > ql \/ (q = ql /\ r > rl)
        BY <2>2, <3>2 DEF LongAbove
      <3>4. (q > ql \/ (q = ql /\ r > rl)) <=> 65536 * q + r > 65536 * ql + rl
        BY <3>1, <3>2
      <3> QED
        BY <1>1, <3>2, <3>3, <3>4
    <2>5. (\A j \in i + 1 .. i + 4 : b[j] = 0) <=> n = 0
      <3>1. (\A j \in i + 1 .. i + 4 : b[j] = 0) <=> (b[i + 1] = 0 /\ b[i + 2] = 0 /\ b[i + 3] = 0 /\ b[i + 4] = 0)
        <4>1. \A j \in i + 1 .. i + 4 : j = i + 1 \/ j = i + 2 \/ j = i + 3 \/ j = i + 4
          OBVIOUS
        <4>2. i + 1 \in i + 1 .. i + 4 /\ i + 2 \in i + 1 .. i + 4 /\ i + 3 \in i + 1 .. i + 4 /\ i + 4 \in i + 1 .. i + 4
          OBVIOUS
        <4> QED
          BY <4>1, <4>2
      <3>2. s[1] \in 0 .. 255 /\ s[2] \in 0 .. 255 /\ s[3] \in 0 .. 255 /\ s[4] \in 0 .. 255
        BY <1>6 DEF Byte
      <3>3. n = 65536 * (256 * s[1] + s[2]) + (256 * s[3] + s[4])
        BY SMTT(30), <1>1, <1>7
      <3>4. PICK x \in 0 .. 255, y \in 0 .. 255, z \in 0 .. 255, u \in 0 .. 255 :
               x = s[1] /\ y = s[2] /\ z = s[3] /\ u = s[4]
        BY <3>2
      <3>5. 65536 * (256 * x + y) + (256 * z + u) = 0 <=> x = 0 /\ y = 0 /\ z = 0 /\ u = 0
        BY SMT
      <3>6. n = 0 <=> s[1] = 0 /\ s[2] = 0 /\ s[3] = 0 /\ s[4] = 0
        BY <3>3, <3>4, <3>5, SMT
      <3> QED
        BY <2>1, <3>1, <3>6
    <2> QED
      BY <2>3, <2>4, <2>5
  <1>9. ASSUME NEW limit \in Nat, NEW b, NEW i \in Nat PROVE LongRead(n, limit, b, i)
    BY <1>3, <1>8 DEF LongRead
  <1> QED
    BY <1>3, <1>5, <1>9

(* A function of the first n numbers is a sequence.                        *)
LEMMA TupleIs ==
    ASSUME NEW n \in Nat, NEW S, NEW f \in [1 .. n -> S]
    PROVE  f \in Seq(S) /\ Len(f) = n
  OBVIOUS

(* The dates of the decoders are those of a fix.                           *)
LEMMA SameDate ==
    ASSUME NEW d
    PROVE  /\ G!DateUtc(d) = DateUtc(d) /\ J!DateUtc(d) = DateUtc(d) /\ Txt!DateUtc(d) = DateUtc(d)
  BY DEF DateUtc, DaysIn, LeapYear, G!DateUtc, G!DaysIn, G!LeapYear,
         J!DateUtc, J!DaysIn, J!LeapYear, Txt!DateUtc, Txt!DaysIn, Txt!LeapYear

(* What the decoders need of a fix.                                        *)
LEMMA FixIs ==
    ASSUME NEW fix \in Fix
    PROVE  /\ fix.lat \in Int /\ fix.lon \in Int /\ Abs(fix.lat) \in Nat /\ Abs(fix.lon) \in Nat
           /\ Abs(fix.lat) <= Degrees(1000) /\ Abs(fix.lon) <= Degrees(1000)
           /\ Abs(fix.lat) * 9 \in FourBytes /\ Abs(fix.lon) * 9 \in FourBytes
           /\ Abs(fix.lat) * 5 \in FourBytes /\ Abs(fix.lon) * 5 \in FourBytes
           /\ fix.fixed \in BOOLEAN /\ fix.cut \in BOOLEAN
           /\ fix.speed \in Byte /\ fix.course \in 0 .. 360 /\ fix.satellites \in 0 .. 15
           /\ fix.time \in Seq(Byte) /\ Len(fix.time) = 6 /\ DateUtc(fix.time) = fix.time
           /\ \A k \in 1 .. 6 : fix.time[k] \in 0 .. 99
  <1>1. /\ fix.lat \in -Degrees(1000) .. Degrees(1000) /\ fix.lon \in -Degrees(1000) .. Degrees(1000)
        /\ fix.fixed \in BOOLEAN /\ fix.cut \in BOOLEAN /\ fix.time \in Dates
        /\ fix.speed \in Byte /\ fix.course \in 0 .. 360 /\ fix.satellites \in 0 .. 15
    BY DEF Fix
  <1>0. Degrees(1000) = 200000000
    BY SMT DEF Degrees
  <1>2. ASSUME NEW n \in -Degrees(1000) .. Degrees(1000)
        PROVE  /\ n \in Int /\ Abs(n) \in Nat /\ Abs(n) <= Degrees(1000)
               /\ Abs(n) * 9 \in FourBytes /\ Abs(n) * 5 \in FourBytes
    <2>1. PICK d \in Nat : d = Degrees(1000) /\ d * 9 < 65536 * 65536
      BY <1>0, SMT
    <2>2. n \in -d .. d
      BY <2>1
    <2>3. n \in Int /\ Abs(n) \in Nat /\ Abs(n) <= d
      BY <2>2 DEF Abs
    <2>4. PICK a \in Nat : a = Abs(n)
      BY <2>3
    <2>5. a * 9 < 65536 * 65536 /\ a * 5 < 65536 * 65536 /\ a * 9 \in Nat /\ a * 5 \in Nat
      BY <2>1, <2>3, <2>4, SMT
    <2>6. \A x \in Nat : x < 65536 * 65536 => x \div 65536 \in Nat /\ x \div 65536 < 65536
      BY SMT
    <2>7. a * 9 \in FourBytes /\ a * 5 \in FourBytes
      BY <2>5, <2>6, SMT DEF FourBytes, TwoBytes
    <2> QED
      BY <2>1, <2>3, <2>4, <2>7
  <1>3. fix.time \in [1 .. 6 -> 0 .. 99] /\ DateUtc(fix.time) = fix.time
    BY <1>1 DEF Dates
  <1>4. /\ fix.time \in Seq(Byte) /\ Len(fix.time) = 6 
        /\ \A k \in 1 .. 6 : fix.time[k] \in 0 .. 99
    <2>1. \A k \in 1 .. 6 : fix.time[k] \in 0 .. 99 /\ fix.time[k] \in Byte
      BY <1>3 DEF Byte
    <2>2. fix.time \in [1 .. 6 -> Byte]
      BY <1>3, <2>1
    <2> QED
      BY <2>1, <2>2, TupleIs
  <1> QED
    BY <1>1, <1>2, <1>3, <1>4

-----------------------------------------------------------------------------
(* The fixes of GT06.                                                      *)

(* The bytes of a fix, at the places where they are read.                  *)
Gt06Flags(fix) == 1024 * Bits(<<fix.lat >= 0, fix.lon < 0, fix.fixed>>) + fix.course

(* The bytes of a fix, at the beginning of the payload b.                  *)
GpsBlock(b, fix) ==
    /\ b \in Seq(Byte) /\ Len(b) >= 26
    /\ \A k \in 1 .. 6 : b[k] = fix.time[k]
    /\ b[7] = 192 + fix.satellites
    /\ \A j \in 1 .. 4 : b[7 + j] = LongBytes(Abs(fix.lat) * 9)[j]
    /\ \A j \in 1 .. 4 : b[11 + j] = LongBytes(Abs(fix.lon) * 9)[j]
    /\ b[16] = fix.speed
    /\ 256 * b[17] + b[18] = Gt06Flags(fix)

(* Course, speed and fix of what a GT06 tracker means.                     *)
LEMMA CourseIs ==
    ASSUME NEW fix \in Fix
    PROVE  fix.course \in 0 .. 360 /\ fix.speed \in Byte /\ fix.fixed \in BOOLEAN
  BY DEF Fix

(* The flags and the course fit in two bytes.                              *)
LEMMA FlagsAreTyped ==
    ASSUME NEW fix \in Fix
    PROVE  Gt06Flags(fix) \in TwoBytes
  <1>1. fix.course \in 0 .. 360
    BY CourseIs
  <1>2. Bits(<<fix.lat >= 0, fix.lon < 0, fix.fixed>>) \in 0 .. 7
    BY DEF Bits
  <1> DEFINE bits == Bits(<<fix.lat >= 0, fix.lon < 0, fix.fixed>>)
             course == fix.course
  <1> HIDE DEF bits, course
  <1>3. PICK x \in 0 .. 7, y \in 0 .. 360 : x = bits /\ y = course
    <2>1. bits \in 0 .. 7 /\ course \in 0 .. 360
      BY <1>1, <1>2 DEF bits, course
    <2> QED
      BY <2>1
  <1>4. 1024 * x + y \in Nat /\ 1024 * x + y < 65536
    BY SMT
  <1>5. Gt06Flags(fix) = 1024 * x + y
    BY <1>3 DEF Gt06Flags, bits, course
  <1> QED
    BY <1>4, <1>5 DEF TwoBytes

(* The payload of a position begins with them.                             *)
LEMMA Gt06PayloadIs ==
    ASSUME NEW fix \in Fix
    PROVE  Gt06Payload(fix) \in Seq(Byte) /\ Len(Gt06Payload(fix)) = 26 /\ GpsBlock(Gt06Payload(fix), fix)
  <1> DEFINE s1 == <<192 + fix.satellites>>
             a == LongBytes(Abs(fix.lat) * 9)
             o == LongBytes(Abs(fix.lon) * 9)
             s2 == <<fix.speed>>
             w == WordBytes(Gt06Flags(fix))
             s3 == <<1, 78, 20, 26, 43, 60, 77, 94>>
             t == fix.time
             p1 == t \o s1
             p2 == p1 \o a
             p3 == p2 \o o
             p4 == p3 \o s2
             p5 == p4 \o w
             p == p5 \o s3
  <1>1. /\ fix.speed \in Byte /\ fix.satellites \in 0 .. 15
        /\ t \in Seq(Byte) /\ Len(t) = 6
    BY FixIs
  <1>2. /\ a \in Seq(Byte) /\ Len(a) = 4 /\ o \in Seq(Byte) /\ Len(o) = 4
    BY FixIs, LongIs
  <1>3. w \in Seq(Byte) /\ Len(w) = 2 /\ 256 * w[1] + w[2] = Gt06Flags(fix)
    BY FlagsAreTyped, WordIs
  <1>4. /\ s1 \in Seq(Byte) /\ Len(s1) = 1 /\ s1[1] = 192 + fix.satellites
        /\ s2 \in Seq(Byte) /\ Len(s2) = 1 /\ s2[1] = fix.speed
        /\ s3 \in Seq(Byte) /\ Len(s3) = 8
    <2>1. 192 + fix.satellites \in Byte
      <3>1. PICK x \in 0 .. 15 : x = fix.satellites
        BY <1>1
      <3>2. 192 + x \in Byte
        BY DEF Byte
      <3> QED
        BY <3>1, <3>2
    <2>2. 1 \in Byte /\ 78 \in Byte /\ 20 \in Byte /\ 26 \in Byte /\ 43 \in Byte /\ 60 \in Byte
          /\ 77 \in Byte /\ 94 \in Byte
      BY DEF Byte
    <2> QED
      BY <1>1, <2>1, <2>2
  <1>5. p = Gt06Payload(fix)
    BY DEF Gt06Payload, Gt06Flags
  <1> HIDE DEF s1, a, o, s2, w, s3, t
  <1>6. Glued(p1, t, s1)
    BY <1>1, <1>4, ConcatIs
  <1> HIDE DEF p1
  <1>7. p1 \in Seq(Byte) /\ Len(p1) = 7 /\ (\A k \in 1 .. 6 : p1[k] = t[k]) /\ p1[7] = s1[1]
    <2>1. p1[6 + 1] = s1[1]
      BY <1>1, <1>4, <1>6 DEF Glued
    <2> QED
      BY <1>1, <1>4, <1>6, <2>1 DEF Glued
  <1>8. Glued(p2, p1, a)
    BY <1>2, <1>7, ConcatIs
  <1> HIDE DEF p2
  <1>9. /\ p2 \in Seq(Byte) /\ Len(p2) = 11
        /\ \A k \in 1 .. 7 : p2[k] = p1[k]
        /\ \A j \in 1 .. 4 : p2[7 + j] = a[j]
    BY <1>2, <1>7, <1>8 DEF Glued
  <1>10. Glued(p3, p2, o)
    BY <1>2, <1>9, ConcatIs
  <1> HIDE DEF p3
  <1>11. /\ p3 \in Seq(Byte) /\ Len(p3) = 15
         /\ \A k \in 1 .. 11 : p3[k] = p2[k]
         /\ \A j \in 1 .. 4 : p3[11 + j] = o[j]
    BY <1>2, <1>9, <1>10 DEF Glued
  <1>12. Glued(p4, p3, s2)
    BY <1>4, <1>11, ConcatIs
  <1> HIDE DEF p4
  <1>13. /\ p4 \in Seq(Byte) /\ Len(p4) = 16
         /\ \A k \in 1 .. 15 : p4[k] = p3[k]
         /\ p4[16] = s2[1]
    <2>1. p4[15 + 1] = s2[1]
      BY <1>4, <1>11, <1>12 DEF Glued
    <2> QED
      BY <1>4, <1>11, <1>12, <2>1 DEF Glued
  <1>14. Glued(p5, p4, w)
    BY <1>3, <1>13, ConcatIs
  <1> HIDE DEF p5
  <1>15. /\ p5 \in Seq(Byte) /\ Len(p5) = 18
         /\ \A k \in 1 .. 16 : p5[k] = p4[k]
         /\ p5[17] = w[1] /\ p5[18] = w[2]
    <2>1. p5[16 + 1] = w[1] /\ p5[16 + 2] = w[2]
      BY <1>3, <1>13, <1>14 DEF Glued
    <2> QED
      BY <1>3, <1>13, <1>14, <2>1 DEF Glued
  <1>16. Glued(p, p5, s3)
    BY <1>4, <1>15, ConcatIs
  <1> HIDE DEF p
  <1>17. p \in Seq(Byte) /\ Len(p) = 26 /\ \A k \in 1 .. 18 : p[k] = p5[k]
    BY <1>4, <1>15, <1>16 DEF Glued
  <1>c4. \A k \in 1 .. 16 : p[k] = p4[k]
    BY SMTT(30), <1>15, <1>17
  <1>c3. \A k \in 1 .. 15 : p[k] = p3[k]
    <2>1. \A k \in 1 .. 15 : p4[k] = p3[k]
      BY <1>13
    <2>2. \A k \in 1 .. 15 : p[k] = p4[k]
      BY <1>c4
    <2> QED
      BY <2>1, <2>2
  <1>c2. \A k \in 1 .. 11 : p[k] = p2[k]
    BY SMTT(30), <1>11, <1>c3
  <1>c1. \A k \in 1 .. 7 : p[k] = p1[k]
    BY <1>9, <1>c2
  <1>18. \A k \in 1 .. 6 : p[k] = t[k]
    BY <1>7, <1>c1
  <1>19. p[7] = s1[1] /\ p[16] = s2[1] /\ p[17] = w[1] /\ p[18] = w[2]
    <2>1. p[7] = s1[1]
      BY <1>7, <1>c1
    <2>2. p[16] = s2[1]
      <3>1. p[16] = p4[16]
        BY <1>c4
      <3> QED
        BY <1>13, <3>1
    <2>3. p[17] = w[1] /\ p[18] = w[2]
      BY <1>15, <1>17
    <2> QED
      BY <2>1, <2>2, <2>3
  <1>20. \A j \in 1 .. 4 : p[7 + j] = a[j]
    <2>1. \A j \in 1 .. 4 : 7 + j \in 1 .. 11
      OBVIOUS
    <2> QED
      BY <1>9, <1>c2, <2>1
  <1>21. \A j \in 1 .. 4 : p[11 + j] = o[j]
    <2>1. \A j \in 1 .. 4 : 11 + j \in 1 .. 15
      OBVIOUS
    <2> QED
      BY <1>11, <1>c3, <2>1
  <1>22. GpsBlock(p, fix)
    BY <1>3, <1>4, <1>17, <1>18, <1>19, <1>20, <1>21 DEF GpsBlock, a, o, t
  <1> QED
    BY <1>5, <1>17, <1>22

(* The same numbers in the decoders.                                       *)
LEMMA SameNumbers ==
    /\ \A b, i : G!Word(b, i) = Word(b, i) /\ J!Word(b, i) = Word(b, i)
    /\ \A b, i : G!Long(b, i) = Long(b, i) /\ J!Long(b, i) = Long(b, i)
    /\ \A b, i, limit : /\ G!LongAbove(b, i, limit) <=> LongAbove(b, i, limit)
                        /\ J!LongAbove(b, i, limit) <=> LongAbove(b, i, limit)
    /\ \A n, k : (G!Bit(n, k) <=> Bit(n, k)) /\ (J!Bit(n, k) <=> Bit(n, k))
    /\ \A b, i, n : G!Part(b, i, n) = Part(b, i, n) /\ J!Part(b, i, n) = Part(b, i, n)
    /\ \A x, n : G!Signed(x, n) = Signed(x, n) /\ J!Signed(x, n) = Signed(x, n)
    /\ \A b : G!Digits(b) = Digits(b) /\ J!Digits(b) = Digits(b)
  BY DEF Word, G!Word, J!Word, Long, G!Long, J!Long, LongAbove, G!LongAbove, J!LongAbove,
         Bit, G!Bit, J!Bit, Weights, G!Weights, J!Weights, Part, G!Part, J!Part,
         Signed, G!Signed, J!Signed, Digits, G!Digits, J!Digits

(* A coordinate and its limit, in five millionths and in other units.      *)
LEMMA Signs ==
    ASSUME NEW n \in Int, NEW scale \in {5, 9}
    PROVE  /\ Signed(n < 0, Abs(n) * scale) = scale * n
           /\ ~ (n >= 0) <=> n < 0
           /\ Abs(n) = 0 <=> n = 0
           /\ Abs(n) * scale = 0 <=> n = 0
  BY DEF Signed, Abs

(* The flags: north, west and fixed.                                       *)
LEMMA FlagsAre ==
    ASSUME NEW fix \in Fix, NEW x \in Byte, NEW y \in Byte, 256 * x + y = Gt06Flags(fix)
    PROVE  /\ Bit(x, 2) <=> fix.lat >= 0
           /\ Bit(x, 3) <=> fix.lon < 0
           /\ Bit(x, 4) <=> fix.fixed
           /\ (256 * x + y) % 1024 = fix.course
  <1>1. PICK c \in 0 .. 360 : c = fix.course
    BY CourseIs
  <1>2. fix.fixed \in BOOLEAN
    BY CourseIs
  <1> DEFINE north == IF fix.lat >= 0 THEN 1 ELSE 0
             west == IF fix.lon < 0 THEN 1 ELSE 0
             fixed == IF fix.fixed THEN 1 ELSE 0
  <1>3. Gt06Flags(fix) = 1024 * (north + (IF fix.lon < 0 THEN 2 ELSE 0) + (IF fix.fixed THEN 4 ELSE 0)) + c
    <2>1. Bits(<<fix.lat >= 0, fix.lon < 0, fix.fixed>>)
            = north + (IF fix.lon < 0 THEN 2 ELSE 0) + (IF fix.fixed THEN 4 ELSE 0)
      BY DEF Bits
    <2> QED
      BY <1>1, <2>1 DEF Gt06Flags
  <1>4. /\ (IF fix.lon < 0 THEN 2 ELSE 0) = 2 * west
        /\ (IF fix.fixed THEN 4 ELSE 0) = 4 * fixed
        /\ north \in 0 .. 1 /\ west \in 0 .. 1 /\ fixed \in 0 .. 1
        /\ (north = 1 <=> fix.lat >= 0) /\ (west = 1 <=> fix.lon < 0) /\ (fixed = 1 <=> fix.fixed)
    BY <1>2
  <1> HIDE DEF north, west, fixed
  <1>5. 256 * x + y = 1024 * (north + 2 * west + 4 * fixed) + c
    BY <1>3, <1>4
  <1>6. x \in 0 .. 255 /\ y \in 0 .. 255
    BY DEF Byte
  <1>7. PICK d \in 0 .. 1 : x = 4 * (north + 2 * west + 4 * fixed) + d
    <2>1. c \div 256 \in 0 .. 1
      OBVIOUS
    <2>2. x = 4 * (north + 2 * west + 4 * fixed) + (c \div 256)
      BY <1>4, <1>5, <1>6
    <2> QED
      BY <2>1, <2>2
  <1>8. (x \div 4) % 2 = north /\ (x \div 8) % 2 = west /\ (x \div 16) % 2 = fixed
    BY <1>4, <1>7
  <1>9. /\ Bit(x, 2) <=> (x \div 4) % 2 = 1
        /\ Bit(x, 3) <=> (x \div 8) % 2 = 1
        /\ Bit(x, 4) <=> (x \div 16) % 2 = 1
    BY DEF Bit, Weights
  <1>10. (256 * x + y) % 1024 = c
    BY <1>4, <1>5
  <1> QED
    BY <1>1, <1>4, <1>8, <1>9, <1>10

(* The limits of the Earth are those that the decoder compares with.       *)
LEMMA Limits ==
    ASSUME NEW n \in Nat
    PROVE  /\ n * 9 > 162000000 <=> ~ (n <= Degrees(90))
           /\ n * 9 > 324000000 <=> ~ (n <= Degrees(180))
           /\ n * 5 > 90000000 <=> ~ (n <= Degrees(90))
           /\ n * 5 > 180000000 <=> ~ (n <= Degrees(180))
  <1>1. Degrees(90) = 18000000 /\ Degrees(180) = 36000000
    BY SMT DEF Degrees
  <1> QED
    BY <1>1, SMT

(* The point of a GPS block is that of its fix.                            *)
LEMMA Gt06PointSays ==
    ASSUME NEW fix \in Fix, NEW b, GpsBlock(b, fix)
    PROVE  /\ G!Point(b) = IF Somewhere(fix) THEN Point(fix, 9) ELSE <<>>
           /\ Somewhere(fix) => ~ G!LongAbove(b, 8, 162000000) /\ ~ G!LongAbove(b, 12, 324000000)
  <1> DEFINE a == Abs(fix.lat) * 9
             o == Abs(fix.lon) * 9
  <1>1. a \in FourBytes /\ o \in FourBytes /\ Abs(fix.lat) \in Nat /\ Abs(fix.lon) \in Nat
        /\ fix.lat \in Int /\ fix.lon \in Int
    BY FixIs
  <1>2. /\ \A j \in 1 .. 4 : b[7 + j] = LongBytes(a)[j]
        /\ \A j \in 1 .. 4 : b[11 + j] = LongBytes(o)[j]
    BY DEF GpsBlock
  <1>3. PICK ll \in Nat, lo \in Nat : ll = 162000000 /\ lo = 324000000
    BY SMT
  <1>4. /\ 7 + 1 = 8 /\ 7 + 4 = 11 /\ 11 + 1 = 12 /\ 11 + 4 = 15 /\ 7 \in Nat /\ 11 \in Nat
    OBVIOUS
  <1> DEFINE at == 7
             ot == 11
  <1> HIDE DEF a, o, at, ot
  <1>5. /\ Long(b, 8) = a
        /\ LongAbove(b, 8, ll) <=> a > ll
        /\ (\A j \in 8 .. 11 : b[j] = 0) <=> a = 0
    <2>1. at \in Nat /\ at + 1 = 8 /\ at + 4 = 11 /\ \A j \in 1 .. 4 : b[at + j] = LongBytes(a)[j]
      BY <1>2, <1>4 DEF at
    <2>2. /\ Long(b, at + 1) = a
          /\ LongAbove(b, at + 1, ll) <=> a > ll
          /\ (\A j \in at + 1 .. at + 4 : b[j] = 0) <=> a = 0
      <3>1. LongRead(a, ll, b, at)
        BY <1>1, <2>1, LongIs
      <3> QED
        BY <2>1, <3>1 DEF LongRead
    <2> QED
      BY <2>1, <2>2
  <1>6. /\ Long(b, 12) = o
        /\ LongAbove(b, 12, lo) <=> o > lo
        /\ (\A j \in 12 .. 15 : b[j] = 0) <=> o = 0
    <2>1. ot \in Nat /\ ot + 1 = 12 /\ ot + 4 = 15 /\ \A j \in 1 .. 4 : b[ot + j] = LongBytes(o)[j]
      BY <1>2, <1>4 DEF ot
    <2>2. /\ Long(b, ot + 1) = o
          /\ LongAbove(b, ot + 1, lo) <=> o > lo
          /\ (\A j \in ot + 1 .. ot + 4 : b[j] = 0) <=> o = 0
      <3>1. LongRead(o, lo, b, ot)
        BY <1>1, <2>1, LongIs
      <3> QED
        BY <2>1, <3>1 DEF LongRead
    <2> QED
      BY <2>1, <2>2
  <1>7. (\A j \in 8 .. 15 : b[j] = 0) <=> a = 0 /\ o = 0
    <2>1. \A j \in 8 .. 15 : j \in 8 .. 11 \/ j \in 12 .. 15
      OBVIOUS
    <2>2. \A j \in 8 .. 11 : j \in 8 .. 15
      OBVIOUS
    <2>3. \A j \in 12 .. 15 : j \in 8 .. 15
      OBVIOUS
    <2> QED
      BY <1>5, <1>6, <2>1, <2>2, <2>3
  <1>8. /\ a > ll <=> ~ (Abs(fix.lat) <= Degrees(90))
        /\ o > lo <=> ~ (Abs(fix.lon) <= Degrees(180))
    BY <1>1, <1>3, Limits, SMT DEF a, o
  <1>9. /\ Signed(fix.lat < 0, a) = 9 * fix.lat /\ Signed(fix.lon < 0, o) = 9 * fix.lon
        /\ (a = 0 <=> fix.lat = 0) /\ (o = 0 <=> fix.lon = 0)
        /\ (~ (fix.lat >= 0) <=> fix.lat < 0)
    <2>1. 9 \in {5, 9}
      OBVIOUS
    <2> QED
      BY <1>1, <2>1, Signs DEF a, o
  <1>10. /\ Bit(b[17], 2) <=> fix.lat >= 0
         /\ Bit(b[17], 3) <=> fix.lon < 0
         /\ Bit(b[17], 4) <=> fix.fixed
    <2>1. b[17] \in Byte /\ b[18] \in Byte
      <3>1. b \in Seq(Byte) /\ Len(b) >= 26
        BY DEF GpsBlock
      <3>2. Len(b) \in Nat
        BY <3>1, LenProperties
      <3>3. 17 \in 1 .. Len(b) /\ 18 \in 1 .. Len(b)
        BY <3>1, <3>2
      <3> QED
        BY <3>1, <3>3, ElementOfSeq
    <2>2. 256 * b[17] + b[18] = Gt06Flags(fix)
      BY DEF GpsBlock
    <2> QED
      BY <2>1, <2>2, FlagsAre
  <1>11. <<fix.lat, fix.lon>> # <<0, 0>> <=> ~ (a = 0 /\ o = 0)
    BY <1>9
  <1>12. Somewhere(fix) <=> ~ (\/ LongAbove(b, 8, ll) \/ LongAbove(b, 12, lo)
                               \/ \A i \in 8 .. 15 : b[i] = 0
                               \/ ~ Bit(b[17], 4))
    BY <1>5, <1>6, <1>7, <1>8, <1>10, <1>11 DEF Somewhere
  <1>13. G!Point(b) = IF \/ LongAbove(b, 8, ll) \/ LongAbove(b, 12, lo)
                         \/ \A i \in 8 .. 15 : b[i] = 0
                         \/ ~ Bit(b[17], 4)
                      THEN <<>>
                      ELSE <<Signed(~ Bit(b[17], 2), Long(b, 8)), Signed(Bit(b[17], 3), Long(b, 12))>>
    <2>1. /\ G!LongAbove(b, 8, ll) <=> LongAbove(b, 8, ll)
          /\ G!LongAbove(b, 12, lo) <=> LongAbove(b, 12, lo)
          /\ G!Bit(b[17], 2) <=> Bit(b[17], 2)
          /\ G!Bit(b[17], 3) <=> Bit(b[17], 3)
          /\ G!Bit(b[17], 4) <=> Bit(b[17], 4)
          /\ G!Long(b, 8) = Long(b, 8) /\ G!Long(b, 12) = Long(b, 12)
          /\ G!Signed(~ G!Bit(b[17], 2), Long(b, 8)) = Signed(~ G!Bit(b[17], 2), Long(b, 8))
          /\ G!Signed(G!Bit(b[17], 3), Long(b, 12)) = Signed(G!Bit(b[17], 3), Long(b, 12))
      BY SameNumbers
    <2> HIDE DEF G!LongAbove, G!Bit, G!Long, G!Signed
    <2>2. G!Point(b) = IF \/ G!LongAbove(b, 8, ll) \/ G!LongAbove(b, 12, lo)
                          \/ \A i \in 8 .. 15 : b[i] = 0
                          \/ ~ G!Bit(b[17], 4)
                       THEN <<>>
                       ELSE <<G!Signed(~ G!Bit(b[17], 2), G!Long(b, 8)),
                              G!Signed(G!Bit(b[17], 3), G!Long(b, 12))>>
      BY <1>3, SMT DEF G!Point
    <2>3. /\ Signed(~ G!Bit(b[17], 2), Long(b, 8)) = Signed(~ Bit(b[17], 2), Long(b, 8))
          /\ Signed(G!Bit(b[17], 3), Long(b, 12)) = Signed(Bit(b[17], 3), Long(b, 12))
      BY <2>1 DEF Signed
    <2> QED
      BY <2>1, <2>2, <2>3
  <1>14. /\ Signed(~ Bit(b[17], 2), Long(b, 8)) = 9 * fix.lat
         /\ Signed(Bit(b[17], 3), Long(b, 12)) = 9 * fix.lon
    <2>1. ~ Bit(b[17], 2) <=> fix.lat < 0
      BY <1>9, <1>10
    <2> QED
      BY <1>5, <1>6, <1>9, <1>10, <2>1 DEF Signed
  <1>15. G!Point(b) = IF Somewhere(fix) THEN Point(fix, 9) ELSE <<>>
    BY <1>12, <1>13, <1>14 DEF Point
  <1>16. Somewhere(fix) => ~ G!LongAbove(b, 8, ll) /\ ~ G!LongAbove(b, 12, lo)
    BY <1>12, SameNumbers
  <1> QED
    BY <1>3, <1>15, <1>16, SMT

(* What the decoder makes of a GPS block says the fix.                     *)
LEMMA Gt06PositionSays ==
    ASSUME NEW fix \in Fix, NEW b, GpsBlock(b, fix)
    PROVE  /\ SaysFix(G!Position(b), fix, 9, 1)
           /\ Somewhere(fix) => G!Position(b).errors = {}
  <1>1. b \in Seq(Byte) /\ Len(b) \in Nat /\ Len(b) >= 26
    BY LenProperties DEF GpsBlock
  <1>2. b[17] \in Byte /\ b[18] \in Byte /\ b[7] = 192 + fix.satellites /\ b[16] = fix.speed
    <2>1. 17 \in 1 .. Len(b) /\ 18 \in 1 .. Len(b)
      BY <1>1
    <2> QED
      BY <1>1, <2>1, ElementOfSeq DEF GpsBlock
  <1> DEFINE course == G!Word(b, 17) % 1024
             time == G!DateUtc(G!Part(b, 1, 6))
             above == G!LongAbove(b, 8, 162000000) \/ G!LongAbove(b, 12, 324000000)
  <1>3. course = fix.course
    <2>1. G!Word(b, 17) = 256 * b[17] + b[18]
      BY DEF G!Word
    <2>2. 256 * b[17] + b[18] = Gt06Flags(fix)
      BY DEF GpsBlock
    <2> QED
      BY <1>2, <2>1, <2>2, FlagsAre
  <1>4. time = fix.time /\ time # <<>>
    <2>1. fix.time \in Seq(Byte) /\ Len(fix.time) = 6 /\ DateUtc(fix.time) = fix.time
      BY FixIs
    <2>2. \A i \in 1 .. 6 : b[0 + i] = fix.time[i]
      <3>1. \A i \in 1 .. 6 : b[i] = fix.time[i]
        BY DEF GpsBlock
      <3>2. \A i \in 1 .. 6 : 0 + i = i
        OBVIOUS
      <3> QED
        BY <3>1, <3>2
    <2>3. SubSeq(b, 0 + 1, 0 + Len(fix.time)) = fix.time
      BY <1>1, <2>1, <2>2, SliceIs
    <2>4. G!Part(b, 1, 6) = fix.time
      BY <2>1, <2>3 DEF G!Part
    <2>5. time = fix.time
      BY <2>1, <2>4, SameDate
    <2>6. fix.time # <<>>
      <3>1. Len(<<>>) = 0
        OBVIOUS
      <3>2. Len(fix.time) = 6
        BY <2>1
      <3> QED
        BY <3>1, <3>2
    <2> QED
      BY <2>5, <2>6
  <1>5. /\ G!Point(b) = IF Somewhere(fix) THEN Point(fix, 9) ELSE <<>>
        /\ Somewhere(fix) => ~ above
    BY Gt06PointSays
  <1>6. b[7] % 16 = fix.satellites
    <2>1. PICK s \in 0 .. 15 : s = fix.satellites
      BY FixIs
    <2> QED
      BY <1>2, <2>1
  <1>7. fix.course \in 0 .. 360 /\ fix.speed \in Nat
    <2>1. fix.course \in 0 .. 360 /\ fix.speed \in Byte
      BY FixIs
    <2> QED
      BY <2>1 DEF Byte
  <1>8. G!Position(b) =
          [point |-> G!Point(b), time |-> time, speed |-> b[16],
           course |-> IF course <= 360 THEN <<course>> ELSE <<>>,
           satellites |-> <<b[7] % 16>>,
           errors |-> (IF course > 360 THEN {"rumbo"} ELSE {})
                 \cup (IF above THEN {"rango"} ELSE {})
                 \cup (IF time = <<>> THEN {"fecha"} ELSE {})]
    BY SMT DEF G!Position
  <1> HIDE DEF course, time, above
  <1>9. /\ G!Position(b).point = G!Point(b) /\ G!Position(b).time = fix.time
        /\ G!Position(b).speed = fix.speed
        /\ G!Position(b).course = <<fix.course>> /\ G!Position(b).satellites = <<fix.satellites>>
        /\ ~ above => G!Position(b).errors = {}
    <2>1. /\ G!Position(b).point = G!Point(b) /\ G!Position(b).time = time
          /\ G!Position(b).speed = b[16]
          /\ G!Position(b).course = IF course <= 360 THEN <<course>> ELSE <<>>
          /\ G!Position(b).satellites = <<b[7] % 16>>
          /\ G!Position(b).errors = (IF course > 360 THEN {"rumbo"} ELSE {})
                                \cup (IF above THEN {"rango"} ELSE {})
                                \cup (IF time = <<>> THEN {"fecha"} ELSE {})
      BY <1>8
    <2> HIDE DEF G!Position
    <2>2. course <= 360 /\ ~ (course > 360)
      BY <1>3, <1>7
    <2> QED
      BY <1>2, <1>3, <1>4, <1>6, <2>1, <2>2
  <1>10. 1 * fix.speed = fix.speed
    BY <1>7
  <1> QED
    BY <1>5, <1>9, <1>10 DEF SaysFix

(* The steps of WholeFixes.                                                *)
Keep == [whole \in Seq(Fix) |-> [fix \in Fix |-> IF fix.cut THEN whole ELSE Append(whole, fix)]]

(* The fixes that were not cut, as the loop takes them.                    *)
LEMMA KeepIs ==
    ASSUME NEW fixes \in Seq(Fix)
    PROVE  \E out \in [0 .. Len(fixes) -> Seq(Fix)] :
              /\ out[0] = <<>>
              /\ \A i \in 1 .. Len(fixes) :
                    out[i] = IF fixes[i].cut THEN out[i - 1] ELSE Append(out[i - 1], fixes[i])
              /\ \A m : m.fixes = fixes => WholeFixes(m) = out[Len(fixes)]
  <1>1. Keep \in Turns(Seq(Fix), Fix)
    BY DEF Turns, Keep
  <1>2. PICK first \in Seq(Fix) : first = <<>>
    <2>1. <<>> \in Seq(Fix)
      OBVIOUS
    <2> QED
      BY <2>1
  <1>3. PICK out \in [0 .. Len(fixes) -> Seq(Fix)] :
           /\ out[0] = first
           /\ \A i \in 1 .. Len(fixes) : out[i] = Keep[out[i - 1]][fixes[i]]
           /\ Loop(Keep, first, fixes) = out[Len(fixes)]
    <2>1. PICK o \in [0 .. Len(fixes) -> Seq(Fix)] : Looped(o, Keep, first, fixes)
      BY <1>1, LoopIs
    <2> QED
      BY <2>1 DEF Looped
  <1>4. ASSUME NEW i \in 1 .. Len(fixes)
        PROVE  out[i] = IF fixes[i].cut THEN out[i - 1] ELSE Append(out[i - 1], fixes[i])
    <2>1. fixes[i] \in Fix /\ out[i - 1] \in Seq(Fix)
      <3>1. i - 1 \in 0 .. Len(fixes)
        BY LenProperties
      <3> QED
        BY <3>1, ElementOfSeq
    <2>2. Keep[out[i - 1]][fixes[i]] = IF fixes[i].cut THEN out[i - 1] ELSE Append(out[i - 1], fixes[i])
      BY <2>1 DEF Keep
    <2> QED
      BY <1>3, <2>2
  <1>5. ASSUME NEW m, m.fixes = fixes PROVE WholeFixes(m) = out[Len(fixes)]
    <2>1. WholeFixes(m) = Loop(Keep, first, fixes)
      BY <1>2, <1>5 DEF WholeFixes, Keep
    <2> QED
      BY <1>3, <2>1
  <1> QED
    BY <1>2, <1>3, <1>4, <1>5

(* What is told of the fixes of a message that has none, or one.           *)
LEMMA WholeNone ==
    ASSUME NEW m, m.fixes = <<>>
    PROVE  WholeFixes(m) = <<>> /\ Len(m.fixes) = 0
  <1>1. PICK s \in Seq(Fix) : s = <<>>
    <2>1. <<>> \in Seq(Fix)
      OBVIOUS
    <2> QED
      BY <2>1
  <1>2. Len(s) = 0
    BY <1>1
  <1>3. \E out \in [0 .. Len(s) -> Seq(Fix)] : out[0] = <<>> /\ WholeFixes(m) = out[Len(s)]
    BY <1>1, KeepIs
  <1> QED
    BY <1>1, <1>2, <1>3

(* Of one fix: it, if it was not cut.                                      *)
LEMMA WholeOne ==
    ASSUME NEW m, m.fixes \in Seq(Fix), Len(m.fixes) = 1
    PROVE  WholeFixes(m) = IF m.fixes[1].cut THEN <<>> ELSE <<m.fixes[1]>>
  <1>1. PICK s \in Seq(Fix) : s = m.fixes
    OBVIOUS
  <1>2. PICK out \in [0 .. Len(s) -> Seq(Fix)] :
           /\ out[0] = <<>>
           /\ \A i \in 1 .. Len(s) :
                 out[i] = IF s[i].cut THEN out[i - 1] ELSE Append(out[i - 1], s[i])
           /\ WholeFixes(m) = out[Len(s)]
    BY <1>1, KeepIs
  <1>3. 1 \in 1 .. Len(s) /\ 1 - 1 = 0 /\ Len(s) = 1
    BY <1>1
  <1>4. out[1] = IF s[1].cut THEN <<>> ELSE Append(<<>>, s[1])
    BY <1>2, <1>3
  <1>5. Append(<<>>, s[1]) = <<s[1]>>
    OBVIOUS
  <1> QED
    BY <1>1, <1>2, <1>3, <1>4, <1>5

-----------------------------------------------------------------------------
(* What the content c of a message says of m.                              *)
ContentSays(c, m) ==
    /\ Len(c.positions) = Len(WholeFixes(m))
    /\ \A k \in 1 .. Len(c.positions) : SaysFix(c.positions[k], WholeFixes(m)[k], 9, 1)
    /\ m.id = G!Login => c.from = m.digits
    /\ m.id = G!StringPacket => c.flag = m.flag /\ c.text = m.text
    /\ m.id = G!Alarm => c.alarm = m.text
    /\ (\A k \in 1 .. Len(m.fixes) : Somewhere(m.fixes[k]) /\ ~m.fixes[k].cut) => c.errors = {}

(* The payload p of a message m of GT06 and what is read of it.            *)
Carries(m, p) ==
    /\ p \in Seq(Byte) /\ Len(p) <= 250 /\ m.id \in Byte /\ m.serial \in TwoBytes
    /\ Gt06Frame(m) = G!EncodeFrame(m.id, p, m.serial)
    /\ ContentSays(G!Content(m.id, p), m)

(* The numbers of the messages of GT06.                                    *)
LEMMA Gt06Ids ==
    /\ G!Login = 1 /\ G!LocationPacket = 18 /\ G!Status = 19 /\ G!StringPacket = 21
    /\ G!Alarm = 22 /\ G!CommandResponse = 33 /\ G!LocationExt = 34 /\ G!Command = 128
    /\ G!TimeRequest = 138 /\ G!Info = 148
    /\ {1, 18, 19, 21, 22, 128, 138} \subseteq Byte
  BY DEF G!Login, G!LocationPacket, G!Status, G!StringPacket, G!Alarm, G!CommandResponse,
         G!LocationExt, G!Command, G!TimeRequest, G!Info, Byte

(* A sequence with a length is not empty.                                  *)
LEMMA EmptyIs == \A s : Len(s) # 0 => s # <<>>
  <1>1. Len(<<>>) = 0
    OBVIOUS
  <1> QED
    BY <1>1

(* A login carries the digits of its IMEI.                                 *)
LEMMA LoginCarries ==
    ASSUME NEW m, m.serial \in TwoBytes, m.id = G!Login,
           m.digits \in [1 .. 15 -> 0 .. 9], m.fixes = <<>>
    PROVE  \E p : Carries(m, p)
  <1> DEFINE p == BcdEncode(m.digits, 8)
             d == m.digits
  <1>0. PICK D : D = 0 .. 9
    OBVIOUS
  <1>1. d \in Seq(D) /\ Len(d) = 15 /\ d \in Seq(0 .. 9)
    <2>1. d \in [1 .. 15 -> D] /\ 15 \in Nat
      BY <1>0
    <2> HIDE DEF d
    <2>2. d \in Seq(D) /\ Len(d) = 15
      BY <2>1, TupleIs
    <2> QED
      BY <1>0, <2>2
  <1> HIDE DEF d
  <1>2. /\ p \in Seq(Byte) /\ Len(p) = 8
        /\ Digits(p) = [k \in 1 .. 16 |-> BcdDigit(d, 8, k)]
        /\ \A k \in 1 .. 16 : BcdDigit(d, 8, k) \in 0 .. 9
    <2>1. /\ BcdEncode(d, 8) \in Seq(Byte) /\ Len(BcdEncode(d, 8)) = 8
          /\ \A k \in 1 .. 2 * 8 : BcdDigit(d, 8, k) \in 0 .. 9
          /\ Digits(BcdEncode(d, 8)) = [k \in 1 .. 2 * 8 |-> BcdDigit(d, 8, k)]
      <3>1. 8 \in Nat
        OBVIOUS
      <3> QED
        BY <1>1, <3>1, BcdIs
    <2>2. 2 * 8 = 16
      OBVIOUS
    <2> QED
      BY <2>1, <2>2 DEF d
  <1> HIDE DEF p
  <1>3. BcdDigit(d, 8, 1) = 0 /\ \A k \in 1 .. 15 : BcdDigit(d, 8, k + 1) = d[k]
    BY <1>1 DEF BcdDigit
  <1> DEFINE e == [k \in 1 .. 16 |-> BcdDigit(d, 8, k)]
  <1>4. e \in Seq(D) /\ Len(e) = 16 /\ e[1] = 0 /\ \A k \in 1 .. 15 : e[1 + k] = d[k]
    <2>1. PICK n \in Nat : n = 16
      OBVIOUS
    <2>5. e \in [1 .. n -> D]
      BY <1>0, <1>2, <2>1
    <2>2. e[1] = 0
      BY <1>3
    <2>3. \A k \in 1 .. 15 : 1 + k \in 1 .. 16 /\ e[1 + k] = BcdDigit(d, 8, k + 1)
      OBVIOUS
    <2> HIDE DEF e
    <2>4. e \in Seq(D) /\ Len(e) = 16
      <3>1. e \in Seq(D) /\ Len(e) = n
        BY <2>5, TupleIs
      <3> QED
        BY <2>1, <3>1
    <2> QED
      BY <1>3, <2>2, <2>3, <2>4
  <1> HIDE DEF e
  <1>5. Tail(e) = d
    <2>1. /\ Tail(e) \in Seq(D) /\ Len(Tail(e)) = Len(e) - 1
          /\ \A i \in 1 .. Len(Tail(e)) : Tail(e)[i] = e[i + 1]
      <3>1. e # <<>>
        <4>1. Len(e) # 0
          BY <1>4
        <4> QED
          BY <4>1, EmptyIs
      <3>2. e \in Seq(D)
        BY <1>4
      <3> QED
        BY <3>1, <3>2, HeadTailProperties
    <2>2. Len(Tail(e)) = Len(d)
      BY <1>1, <1>4, <2>1
    <2>3. ASSUME NEW k \in 1 .. Len(d) PROVE d[k] = Tail(e)[k]
      <3>1. Tail(e)[k] = e[k + 1]
        BY <2>1, <2>2
      <3>2. e[1 + k] = d[k]
        BY <1>1, <1>4
      <3>3. k + 1 = 1 + k
        BY <1>1
      <3> QED
        BY <3>1, <3>2, <3>3
    <2>4. Tail(e) \in Seq(D) /\ d \in Seq(D)
      BY <1>1, <2>1
    <2> QED
      BY <2>2, <2>3, <2>4, SeqEqual
  <1>6. G!Part(p, 1, 8) = p
    <2>1. SubSeq(p, 1, Len(p)) = p
      BY <1>2, SubSeqFull
    <2> QED
      BY <1>2, <2>1 DEF G!Part
  <1>7. G!Imei(G!Part(p, 1, 8)) = d
    BY <1>2, <1>4, <1>5, <1>6, SameNumbers DEF G!Imei, e
  <1>8. /\ G!Content(m.id, p).from = d /\ G!Content(m.id, p).positions = <<>>
        /\ G!Content(m.id, p).errors = {}
    BY <1>2, <1>7 DEF G!Content, G!Needed
  <1>9. ContentSays(G!Content(m.id, p), m)
    BY <1>8, WholeNone, Gt06Ids DEF ContentSays, d
  <1>10. Gt06Frame(m) = G!EncodeFrame(m.id, p, m.serial)
    BY Gt06Ids DEF Gt06Frame, p
  <1> QED
    <2>1. m.id \in Byte /\ Len(p) <= 250
      BY <1>2, Gt06Ids
    <2> QED
      BY <1>2, <1>9, <1>10, <2>1 DEF Carries

(* A heartbeat and a question carry nothing that is told.                  *)
LEMMA PlainCarries ==
    ASSUME NEW m, m.serial \in TwoBytes, m.id \in {G!Status, G!TimeRequest}, m.fixes = <<>>
    PROVE  \E p : Carries(m, p)
  <1> DEFINE p == IF m.id = G!Status THEN <<70, 4, 4, 0, 1>> ELSE <<>>
  <1>1. p \in Seq(Byte) /\ Len(p) <= 250
    <2>1. 70 \in Byte /\ 4 \in Byte /\ 0 \in Byte /\ 1 \in Byte
      BY DEF Byte
    <2>2. <<70, 4, 4, 0, 1>> \in Seq(Byte) /\ Len(<<70, 4, 4, 0, 1>>) = 5
      BY <2>1
    <2>3. <<>> \in Seq(Byte) /\ Len(<<>>) = 0
      OBVIOUS
    <2> QED
      BY <2>2, <2>3
  <1>2. Gt06Frame(m) = G!EncodeFrame(m.id, p, m.serial)
    BY Gt06Ids DEF Gt06Frame
  <1>3. /\ G!Content(m.id, p).positions = <<>> /\ G!Content(m.id, p).errors = {}
    <2> HIDE DEF p
    <2>1. G!Needed(m.id) = 0 /\ ~ (Len(p) < 0)
      BY <1>1, Gt06Ids, LenProperties DEF G!Needed
    <2> QED
      BY <2>1, Gt06Ids DEF G!Content
  <1> HIDE DEF p
  <1>4. ContentSays(G!Content(m.id, p), m)
    BY <1>3, WholeNone, Gt06Ids DEF ContentSays
  <1>5. m.id \in Byte
    BY Gt06Ids
  <1> QED
    BY <1>1, <1>2, <1>4, <1>5 DEF Carries

(* A block that is continued is still there.                               *)
LEMMA BlockExtends ==
    ASSUME NEW fix \in Fix, NEW b \in Seq(Byte), GpsBlock(b, fix), NEW t \in Seq(Byte)
    PROVE  GpsBlock(b \o t, fix)
  <1> DEFINE c == b \o t
  <1>1. Glued(c, b, t)
    BY ConcatIs
  <1> HIDE DEF c
  <1>2. Len(b) >= 26 /\ Len(b) \in Nat /\ Len(t) \in Nat
    BY LenProperties DEF GpsBlock
  <1>3. c \in Seq(Byte) /\ Len(c) >= 26 /\ \A k \in 1 .. 26 : c[k] = b[k]
    <2>1. /\ c \in Seq(Byte) /\ Len(c) = Len(b) + Len(t)
          /\ \A k \in 1 .. Len(b) : c[k] = b[k]
      BY <1>1 DEF Glued
    <2>2. \A k \in 1 .. 26 : k \in 1 .. Len(b)
      BY <1>2
    <2>3. Len(c) >= 26
      BY <1>2, <2>1
    <2> QED
      BY <2>1, <2>2, <2>3
  <1>4. \A k \in 1 .. 6 : c[k] = fix.time[k]
    <2>1. \A k \in 1 .. 6 : c[k] = b[k]
      <3>1. \A k \in 1 .. 6 : k \in 1 .. 26
        OBVIOUS
      <3> QED
        BY <1>3, <3>1
    <2> QED
      BY <2>1 DEF GpsBlock
  <1>5. \A j \in 1 .. 4 : c[7 + j] = LongBytes(Abs(fix.lat) * 9)[j]
    <2>1. \A j \in 1 .. 4 : 7 + j \in 1 .. 26
      OBVIOUS
    <2>2. \A j \in 1 .. 4 : b[7 + j] = LongBytes(Abs(fix.lat) * 9)[j]
      BY DEF GpsBlock
    <2> QED
      BY <1>3, <2>1, <2>2
  <1>6. \A j \in 1 .. 4 : c[11 + j] = LongBytes(Abs(fix.lon) * 9)[j]
    <2>1. \A j \in 1 .. 4 : 11 + j \in 1 .. 26
      OBVIOUS
    <2>2. \A j \in 1 .. 4 : b[11 + j] = LongBytes(Abs(fix.lon) * 9)[j]
      BY DEF GpsBlock
    <2> QED
      BY <1>3, <2>1, <2>2
  <1>7. c[7] = b[7] /\ c[16] = b[16] /\ c[17] = b[17] /\ c[18] = b[18]
    BY <1>3
  <1>8. GpsBlock(c, fix)
    <2>1. b[7] = 192 + fix.satellites /\ b[16] = fix.speed /\ 256 * b[17] + b[18] = Gt06Flags(fix)
      BY DEF GpsBlock
    <2> QED
      BY <1>3, <1>4, <1>5, <1>6, <1>7, <2>1 DEF GpsBlock
  <1> QED
    BY <1>8 DEF c

(* What a payload with a block says of its only fix.                       *)
LEMMA BlockSays ==
    ASSUME NEW m, m.fixes \in Seq(Fix), Len(m.fixes) = 1, ~ m.fixes[1].cut,
           NEW p, GpsBlock(p, m.fixes[1]),
           m.id \in {G!LocationPacket, G!Alarm},
           m.id = G!Alarm => G!AlarmCode(p) = m.text
    PROVE  ContentSays(G!Content(m.id, p), m)
  <1> DEFINE fix == m.fixes[1]
             c == G!Content(m.id, p)
  <1>1. fix \in Fix
    BY ElementOfSeq
  <1>2. SaysFix(G!Position(p), fix, 9, 1) /\ (Somewhere(fix) => G!Position(p).errors = {})
    BY <1>1, Gt06PositionSays
  <1>3. WholeFixes(m) = <<fix>>
    BY WholeOne
  <1>4. Len(p) >= 26 /\ Len(p) \in Nat
    BY LenProperties DEF GpsBlock
  <1>5. /\ c.positions = <<G!Position(p)>> /\ c.errors = G!Position(p).errors
        /\ m.id = G!Alarm => c.alarm = G!AlarmCode(p)
    <2>1. G!Needed(m.id) = 18
      BY Gt06Ids DEF G!Needed, G!GpsSize
    <2>2. ~ (Len(p) < G!Needed(m.id))
      BY <1>4, <2>1
    <2> HIDE DEF G!Needed, G!Position
    <2> QED
      BY <2>2, Gt06Ids DEF G!Content
  <1> HIDE DEF c, fix
  <1>6. Len(c.positions) = 1 /\ Len(WholeFixes(m)) = 1 /\ c.positions[1] = G!Position(p)
        /\ WholeFixes(m)[1] = fix
    BY <1>3, <1>5
  <1>7. \A k \in 1 .. Len(c.positions) : SaysFix(c.positions[k], WholeFixes(m)[k], 9, 1)
    BY <1>2, <1>6
  <1>8. (\A k \in 1 .. Len(m.fixes) : Somewhere(m.fixes[k]) /\ ~m.fixes[k].cut) => c.errors = {}
    BY <1>2, <1>5 DEF fix
  <1> QED
    BY <1>5, <1>6, <1>7, <1>8, Gt06Ids DEF ContentSays, c

(* A position carries its fix.                                             *)
LEMMA PositionCarries ==
    ASSUME NEW m, m.serial \in TwoBytes, m.id = G!LocationPacket,
           m.fixes \in Seq(Fix), Len(m.fixes) = 1, ~ m.fixes[1].cut
    PROVE  \E p : Carries(m, p)
  <1> DEFINE p == Gt06Payload(m.fixes[1])
  <1>1. m.fixes[1] \in Fix
    BY ElementOfSeq
  <1>2. p \in Seq(Byte) /\ Len(p) = 26 /\ GpsBlock(p, m.fixes[1])
    BY <1>1, Gt06PayloadIs
  <1>3. Gt06Frame(m) = G!EncodeFrame(m.id, p, m.serial)
    BY Gt06Ids DEF Gt06Frame
  <1> HIDE DEF p
  <1>4. m.id \in {G!LocationPacket, G!Alarm} /\ m.id # G!Alarm /\ m.id \in Byte
    BY Gt06Ids
  <1>5. ContentSays(G!Content(m.id, p), m)
    BY <1>2, <1>4, BlockSays
  <1>6. Len(p) <= 250
    BY <1>2
  <1> QED
    BY <1>2, <1>3, <1>4, <1>5, <1>6 DEF Carries

(* An alarm carries its fix and its code.                                  *)
LEMMA AlarmCarries ==
    ASSUME NEW m, m.serial \in TwoBytes, m.id = G!Alarm,
           m.fixes \in Seq(Fix), Len(m.fixes) = 1, ~ m.fixes[1].cut,
           NEW code \in Byte, m.text = <<code>>
    PROVE  \E p : Carries(m, p)
  <1> DEFINE b == Gt06Payload(m.fixes[1])
             t == <<70, 6, 4>>
             s == <<code>>
             u == <<2>>
             bt == b \o t
             bts == bt \o s
             p == bts \o u
  <1>1. m.fixes[1] \in Fix
    BY ElementOfSeq
  <1>2. b \in Seq(Byte) /\ Len(b) = 26 /\ GpsBlock(b, m.fixes[1])
    BY <1>1, Gt06PayloadIs
  <1>3. Gt06Frame(m) = G!EncodeFrame(m.id, p, m.serial)
    BY Gt06Ids DEF Gt06Frame
  <1>4. /\ t \in Seq(Byte) /\ Len(t) = 3 /\ u \in Seq(Byte) /\ Len(u) = 1
        /\ s \in Seq(Byte) /\ Len(s) = 1 /\ s[1] = code
    <2>1. 70 \in Byte /\ 6 \in Byte /\ 4 \in Byte /\ 2 \in Byte
      BY DEF Byte
    <2> QED
      BY <2>1
  <1> HIDE DEF b, t, s, u
  <1>5. bt \in Seq(Byte) /\ Len(bt) = 29 /\ GpsBlock(bt, m.fixes[1])
        /\ \A k \in 1 .. 26 : bt[k] = b[k]
    <2>1. Glued(bt, b, t)
      BY <1>2, <1>4, ConcatIs
    <2>2. GpsBlock(bt, m.fixes[1])
      BY <1>1, <1>2, <1>4, BlockExtends
    <2> HIDE DEF bt
    <2> QED
      BY <1>2, <1>4, <2>1, <2>2 DEF Glued
  <1> HIDE DEF bt
  <1>6. bts \in Seq(Byte) /\ Len(bts) = 30 /\ GpsBlock(bts, m.fixes[1]) /\ bts[30] = code
    <2>1. Glued(bts, bt, s)
      BY <1>4, <1>5, ConcatIs
    <2>2. GpsBlock(bts, m.fixes[1])
      BY <1>1, <1>4, <1>5, BlockExtends
    <2> HIDE DEF bts
    <2>3. bts \in Seq(Byte) /\ Len(bts) = 30 /\ bts[29 + 1] = code
      BY <1>4, <1>5, <2>1 DEF Glued
    <2>4. 29 + 1 = 30
      OBVIOUS
    <2> QED
      BY <2>2, <2>3, <2>4
  <1> HIDE DEF bts
  <1>7. p \in Seq(Byte) /\ Len(p) = 31 /\ GpsBlock(p, m.fixes[1]) /\ p[30] = code
    <2>1. Glued(p, bts, u)
      BY <1>4, <1>6, ConcatIs
    <2>2. GpsBlock(p, m.fixes[1])
      BY <1>1, <1>4, <1>6, BlockExtends
    <2> HIDE DEF p
    <2>3. p \in Seq(Byte) /\ Len(p) = 31 /\ \A k \in 1 .. 30 : p[k] = bts[k]
      BY <1>4, <1>6, <2>1 DEF Glued
    <2>4. p[30] = bts[30]
      BY <2>3
    <2> QED
      BY <1>6, <2>2, <2>3, <2>4
  <1> HIDE DEF p
  <1>8. G!AlarmCode(p) = m.text
    <2>1. Len(p) - 18 = 13
      BY <1>7
    <2>2. G!AlarmCode(p) = <<p[30]>>
      BY <1>7, <2>1 DEF G!AlarmCode, G!GpsSize
    <2> QED
      BY <1>7, <2>2
  <1>9. m.id \in {G!LocationPacket, G!Alarm} /\ m.id \in Byte
    BY Gt06Ids
  <1>10. ContentSays(G!Content(m.id, p), m)
    BY <1>7, <1>8, <1>9, BlockSays
  <1>11. Len(p) <= 250
    BY <1>7
  <1> QED
    BY <1>3, <1>7, <1>9, <1>10, <1>11 DEF Carries

(* A length, a flag, a text and a language.                                *)
Tagged(x, flag, text) == <<x>> \o flag \o text \o WordBytes(2)

(* What the answer to a command carries: its length, its flag and its      *)
(* text.                                                                   *)
HasTag(q, x, flag, text) ==
    /\ q \in Seq(Byte) /\ Len(q) = Len(text) + 7 /\ q[1] = x
    /\ SubSeq(q, 2, 5) = flag
    /\ \A i \in 1 .. Len(text) : q[5 + i] = text[i]
    /\ SubSeq(q, 6, 5 + Len(text)) = text

(* It is laid out so.                                                      *)
LEMMA TaggedIs ==
    ASSUME NEW x \in Byte, NEW flag \in Seq(Byte), Len(flag) = 4, NEW text \in Seq(Byte)
    PROVE  HasTag(Tagged(x, flag, text), x, flag, text)
  <1> DEFINE o == <<x>>
             w == WordBytes(2)
             q1 == o \o flag
             q2 == q1 \o text
             q == q2 \o w
  <1>1. o \in Seq(Byte) /\ Len(o) = 1 /\ o[1] = x
    OBVIOUS
  <1>2. w \in Seq(Byte) /\ Len(w) = 2
    <2>1. 2 \in TwoBytes
      BY DEF TwoBytes
    <2> QED
      BY <2>1, WordIs
  <1>3. PICK n \in Nat : n = Len(text)
    BY LenProperties
  <1>4. q = Tagged(x, flag, text)
    BY DEF Tagged
  <1> HIDE DEF o, w
  <1>5. Glued(q1, o, flag)
    BY <1>1, ConcatIs
  <1> HIDE DEF q1
  <1>6. /\ q1 \in Seq(Byte) /\ Len(q1) = 5 /\ q1[1] = x
        /\ \A i \in 1 .. 4 : q1[1 + i] = flag[i]
    BY <1>1, <1>5 DEF Glued
  <1>7. Glued(q2, q1, text)
    BY <1>6, ConcatIs
  <1> HIDE DEF q2
  <1>8. /\ q2 \in Seq(Byte) /\ Len(q2) = 5 + n
        /\ \A i \in 1 .. 5 : q2[i] = q1[i]
        /\ \A i \in 1 .. n : q2[5 + i] = text[i]
    BY <1>3, <1>6, <1>7 DEF Glued
  <1>9. Glued(q, q2, w)
    BY <1>2, <1>8, ConcatIs
  <1> HIDE DEF q
  <1>10. /\ q \in Seq(Byte) /\ Len(q) = n + 7
         /\ \A i \in 1 .. 5 + n : q[i] = q2[i]
    BY <1>2, <1>3, <1>8, <1>9 DEF Glued
  <1>11. q[1] = x /\ \A i \in 1 .. 4 : q[1 + i] = flag[i]
    <2>1. \A i \in 1 .. 5 : q[i] = q1[i]
      <3>1. \A i \in 1 .. 5 : i \in 1 .. 5 + n
        OBVIOUS
      <3> QED
        BY <1>8, <1>10, <3>1
    <2>2. \A i \in 1 .. 4 : 1 + i \in 1 .. 5
      OBVIOUS
    <2> QED
      BY <1>6, <2>1, <2>2
  <1>12. \A i \in 1 .. n : q[5 + i] = text[i]
    <2>1. \A i \in 1 .. n : 5 + i \in 1 .. 5 + n
      OBVIOUS
    <2> QED
      BY <1>8, <1>10, <2>1
  <1>13. SubSeq(q, 2, 5) = flag
    <2>1. SubSeq(q, 1 + 1, 1 + Len(flag)) = flag
      BY <1>10, <1>11, SliceIs
    <2>2. 1 + 1 = 2 /\ 1 + Len(flag) = 5
      BY SMTT(30)
    <2> QED
      BY <2>1, <2>2
  <1>14. SubSeq(q, 6, 5 + n) = text
    <2>1. 5 \in Nat /\ 5 + Len(text) <= Len(q) /\ \A i \in 1 .. Len(text) : q[5 + i] = text[i]
      BY <1>3, <1>10, <1>12
    <2>2. SubSeq(q, 5 + 1, 5 + Len(text)) = text
      BY <1>10, <2>1, SliceIs
    <2>3. 5 + 1 = 6 /\ 5 + Len(text) = 5 + n
      BY <1>3
    <2> QED
      BY <2>2, <2>3
  <1> QED
    BY <1>3, <1>4, <1>10, <1>11, <1>12, <1>13, <1>14 DEF HasTag

(* An answer carries the flag of its command and its own text.             *)
LEMMA StringCarries ==
    ASSUME NEW m, m.serial \in TwoBytes, m.id = G!StringPacket, m.fixes = <<>>,
           NEW c \in Nat, m.command \in Seq(Byte), Len(m.command) = c, c <= 180,
           m.flag \in Seq(Byte), Len(m.flag) = 4,
           NEW n \in Nat, m.text \in Seq(Byte), Len(m.text) = n, n <= 243,
           \A i \in 1 .. n : m.text[i] # 0
    PROVE  \E p : Carries(m, p)
  <1>3. \A x \in Nat : x <= 255 => x \in Byte
    BY DEF Byte
  <1>4. PICK x \in Byte, y \in Byte : x = 4 + c /\ y = 4 + n
    BY <1>3
  <1>16. PICK flag \in Seq(Byte), text \in Seq(Byte), command \in Seq(Byte) :
            flag = m.flag /\ text = m.text /\ command = m.command /\ Len(flag) = 4
    OBVIOUS
  <1> DEFINE q == Tagged(x, m.flag, m.command)
             p == Tagged(y, m.flag, m.text)
             f == G!EncodeFrame(G!Command, q, m.serial)
  <1>5. q \in Seq(Byte) /\ Len(q) = c + 7 /\ SubSeq(q, 2, 5) = m.flag
    <2>1. HasTag(Tagged(x, flag, command), x, flag, command)
      BY <1>16, TaggedIs
    <2>2. q = Tagged(x, flag, command)
      BY <1>16
    <2> HIDE DEF q
    <2> QED
      BY <1>16, <2>1, <2>2 DEF HasTag
  <1>6. /\ p \in Seq(Byte) /\ Len(p) = n + 7 /\ p[1] = 4 + n /\ SubSeq(p, 2, 5) = m.flag
        /\ \A i \in 1 .. n : p[5 + i] = m.text[i]
        /\ SubSeq(p, 6, 5 + n) = m.text
    <2>1. HasTag(p, y, flag, text)
      <3>1. p = Tagged(y, flag, text)
        BY <1>16
      <3> HIDE DEF p
      <3> QED
        BY <1>16, <3>1, TaggedIs
    <2> HIDE DEF p
    <2> QED
      BY <1>4, <1>16, <2>1 DEF HasTag
  <1>7. 2 \in TwoBytes /\ G!WordBytes(2) = WordBytes(2)
    <2>1. 2 \in TwoBytes
      BY DEF TwoBytes
    <2> QED
      BY <2>1, WordIs
  <1>8. G!CommandFrame(m.command, m.flag, m.serial) = f
    BY <1>4, <1>7 DEF G!CommandFrame, Tagged
  <1> HIDE DEF q
  <1>9. SubSeq(f, 5, Len(f) - 6) = q
    <2>1. Len(q) <= 250 /\ G!Command \in Byte /\ q \in Seq(Byte)
      BY <1>5, Gt06Ids
    <2>2. Encoded(f, G!Command, q, m.serial)
      BY <2>1, EncodeFrameIs DEF f
    <2> QED
      BY <2>2 DEF Encoded
  <1> HIDE DEF f
  <1>10. Gt06Frame(m) = G!EncodeFrame(m.id, p, m.serial)
    <2>1. Gt06Frame(m) = Respond(f, m.text, m.serial)
      BY <1>8 DEF Gt06Frame
    <2>2. Respond(f, m.text, m.serial) = G!EncodeFrame(m.id, p, m.serial)
      BY <1>4, <1>5, <1>7, <1>9 DEF Respond, Tagged
    <2> QED
      BY <2>1, <2>2
  <1> HIDE DEF p
  <1>11. G!FlagOf(p) = m.flag
    <2>1. Len(p) >= 5 /\ 2 + 4 - 1 = 5
      BY <1>6
    <2> QED
      BY <1>6, <2>1 DEF G!FlagOf, G!Part
  <1>12. G!TextOf(p) = m.text
    <2> DEFINE shown == {i \in 6 .. Len(p) : i < 6 + p[1] - 4 /\ p[i] # 0}
    <2>1. shown = 6 .. 5 + n
      <3>1. ASSUME NEW i \in 6 .. 5 + n PROVE i \in 6 .. Len(p) /\ i < 6 + p[1] - 4 /\ p[i] # 0
        <4>1. i - 5 \in 1 .. n /\ 5 + (i - 5) = i
          OBVIOUS
        <4>2. p[i] = m.text[i - 5] /\ m.text[i - 5] # 0
          BY <1>6, <4>1
        <4> QED
          BY <1>6, <4>2
      <3>2. ASSUME NEW i \in shown PROVE i \in 6 .. 5 + n
        BY <1>6
      <3> QED
        BY <3>1, <3>2
    <2>2. G!TextOf(p) = IF shown = {} THEN <<>>
                        ELSE SubSeq(p, 6, CHOOSE i \in shown : \A j \in shown : j <= i)
      <3>1. Len(p) >= 5
        BY <1>6
      <3> QED
        BY <3>1 DEF G!TextOf
    <2> HIDE DEF shown
    <2>3. CASE n = 0
      <3>1. m.text = <<>>
        BY <2>3, EmptySeq
      <3> QED
        BY <2>1, <2>2, <2>3, <3>1
    <2>4. CASE n # 0
      <3>1. shown # {} /\ 5 + n \in shown /\ \A j \in shown : j <= 5 + n
        <4>1. 5 + n \in 6 .. 5 + n
          BY <2>4
        <4>2. 5 + n \in shown
          BY <2>1, <4>1
        <4>3. \A j \in shown : j <= 5 + n
          BY <2>1
        <4> QED
          BY <4>2, <4>3
      <3>2. (CHOOSE i \in shown : \A j \in shown : j <= i) = 5 + n
        BY <2>1, <3>1
      <3> QED
        BY <1>6, <2>2, <3>1, <3>2
    <2> QED
      BY <2>3, <2>4
  <1>13. /\ G!Content(m.id, p).positions = <<>> /\ G!Content(m.id, p).errors = {}
         /\ G!Content(m.id, p).flag = m.flag /\ G!Content(m.id, p).text = m.text
    <2>1. G!Needed(m.id) = 0 /\ ~ (Len(p) < 0) /\ p # <<>>
      BY <1>6, EmptyIs, Gt06Ids DEF G!Needed
    <2> HIDE DEF G!Needed, G!FlagOf, G!TextOf
    <2> QED
      BY <1>11, <1>12, <2>1, Gt06Ids DEF G!Content
  <1>14. ContentSays(G!Content(m.id, p), m)
    BY <1>13, WholeNone, Gt06Ids DEF ContentSays
  <1>15. m.id \in Byte /\ Len(p) <= 250
    BY <1>6, Gt06Ids
  <1> QED
    BY <1>6, <1>10, <1>14, <1>15 DEF Carries

(* Whatever a tracker of GT06 means is carried.                            *)
LEMMA Gt06Carries ==
    ASSUME NEW m, Gt06Meant(m)
    PROVE  \E p : Carries(m, p)
  <1>1. m.serial \in TwoBytes
    BY DEF Gt06Meant
  <1>2. CASE m.id = G!Login /\ m.digits \in [1 .. 15 -> 0 .. 9] /\ m.fixes = <<>>
    BY <1>1, <1>2, LoginCarries
  <1>3. CASE m.id \in {G!Status, G!TimeRequest} /\ m.fixes = <<>>
    BY <1>1, <1>3, PlainCarries
  <1>4. CASE /\ m.id \in {G!LocationPacket, G!Alarm}
             /\ m.fixes \in Seq(Fix) /\ Len(m.fixes) = 1 /\ ~m.fixes[1].cut
             /\ m.id = G!Alarm => \E code \in Byte : m.text = <<code>>
    <2>1. CASE m.id = G!LocationPacket
      BY <1>1, <1>4, <2>1, PositionCarries
    <2>2. CASE m.id = G!Alarm
      <3>1. PICK code \in Byte : m.text = <<code>>
        BY <1>4, <2>2
      <3> QED
        BY <1>1, <1>4, <2>2, <3>1, AlarmCarries
    <2> QED
      BY <1>4, <2>1, <2>2
  <1>5. CASE /\ m.id = G!StringPacket /\ m.fixes = <<>>
             /\ m.command \in Seq(Byte) /\ Len(m.command) \in 2 .. 180
             /\ m.flag \in [1 .. 4 -> Byte]
             /\ m.text \in Seq(1 .. 255) /\ Len(m.text) <= 243
    <2>1. m.flag \in Seq(Byte) /\ Len(m.flag) = 4
      <3>1. PICK k \in Nat : k = 4
        OBVIOUS
      <3>2. m.flag \in [1 .. k -> Byte]
        BY <1>5, <3>1
      <3>3. m.flag \in Seq(Byte) /\ Len(m.flag) = k
        BY <3>2, TupleIs
      <3> QED
        BY <3>1, <3>3
    <2>2. PICK c \in Nat : c = Len(m.command) /\ c <= 180
      <3>1. Len(m.command) \in Nat
        BY <1>5, LenProperties
      <3>2. Len(m.command) <= 180
        <4>1. Len(m.command) \in 2 .. 180
          BY <1>5
        <4>2. \A x \in 2 .. 180 : x <= 180
          OBVIOUS
        <4> QED
          BY <4>1, <4>2
      <3> QED
        BY <3>1, <3>2
    <2>3. PICK T : T = 1 .. 255
      OBVIOUS
    <2>4. \A x \in T : x \in Byte /\ x # 0
      BY <2>3 DEF Byte
    <2>5. m.text \in Seq(T)
      BY <1>5, <2>3
    <2>6. PICK n \in Nat : n = Len(m.text) /\ n <= 243
      BY <1>5, <2>5, LenProperties
    <2>7. \A i \in 1 .. n : m.text[i] \in T
      BY <2>5, <2>6, ElementOfSeq
    <2>8. \A i \in 1 .. n : m.text[i] # 0
      BY <2>4, <2>7
    <2>9. m.text \in Seq(Byte)
      <3>1. m.text = [i \in 1 .. n |-> m.text[i]]
        BY <2>5, <2>6, LenProperties
      <3>2. m.text \in [1 .. n -> Byte]
        BY <2>4, <2>7, <3>1
      <3> QED
        BY <3>2, TupleIs
    <2>10. m.id = G!StringPacket /\ m.fixes = <<>> /\ m.command \in Seq(Byte)
      BY <1>5
    <2> QED
      BY <1>1, <2>1, <2>2, <2>6, <2>8, <2>9, <2>10, StringCarries
  <1> QED
    BY <1>2, <1>3, <1>4, <1>5 DEF Gt06Meant

(* What is decoded of it says what it meant.                               *)
LEMMA Gt06Says ==
    ASSUME NEW m, m.protocol = "gt06", Gt06Meant(m)
    PROVE  SaysBinary(G!Decode(Gt06Frame(m)), m) /\ Gt06Frame(m)[1] = 120
  <1>1. PICK p : Carries(m, p)
    BY Gt06Carries
  <1>2. /\ p \in Seq(Byte) /\ Len(p) <= 250 /\ m.id \in Byte /\ m.serial \in TwoBytes
        /\ Gt06Frame(m) = G!EncodeFrame(m.id, p, m.serial)
        /\ ContentSays(G!Content(m.id, p), m)
    BY <1>1 DEF Carries
  <1>3. PICK f : f = Gt06Frame(m) /\ Encoded(f, m.id, p, m.serial)
    BY <1>2, EncodeFrameIs
  <1>4. Reads(G!Decode(f), m.id, p, m.serial)
    BY <1>2, <1>3, Gt06DecodeIs
  <1>5. f[1] = 120
    BY <1>3 DEF Encoded
  <1>6. PICK r : r = G!Decode(f)
    OBVIOUS
  <1>7. PICK c : c = G!Content(m.id, p)
    OBVIOUS
  <1>8. /\ r.id = m.id /\ r.serial = m.serial /\ r.errors = c.errors /\ r.from = c.from
        /\ r.positions = c.positions /\ r.alarm = c.alarm /\ r.flag = c.flag /\ r.text = c.text
    BY <1>4, <1>6, <1>7 DEF Reads
  <1>9. ContentSays(c, m)
    BY <1>2, <1>7
  <1>10. \A k \in 1 .. Len(r.positions) : SaysFix(r.positions[k], WholeFixes(m)[k], 9, 1)
    BY <1>8, <1>9 DEF ContentSays
  <1>11. SaysBinary(r, m)
    BY <1>8, <1>9, <1>10 DEF ContentSays, SaysBinary
  <1> QED
    BY <1>3, <1>5, <1>6, <1>11

(* And it is answered as it must.                                          *)
LEMMA Gt06IsAnswered ==
    ASSUME NEW m, m.protocol = "gt06", Gt06Meant(m),
           NEW r, r.id = m.id, r.serial = m.serial,
           NEW now \in [1 .. 6 -> Byte]
    PROVE  Answers(G!Reply(r, now), m)
  <1>1. m.serial \in TwoBytes /\ m.id \in {1, 18, 19, 21, 22, 138}
    BY Gt06Ids DEF Gt06Meant
  <1>2. MustBeAnswered(m) <=> m.id \in {1, 19, 22, 138}
    BY Gt06Ids DEF MustBeAnswered
  <1>3. CASE m.id \notin {1, 19, 22, 138}
    BY <1>1, <1>2, <1>3, Gt06Ids DEF Answers, G!Reply
  <1>4. CASE m.id \in {1, 19, 22, 138}
    <2> DEFINE p == IF m.id = 138 THEN now ELSE <<>>
               f == G!EncodeFrame(m.id, p, m.serial)
    <2>1. p \in Seq(Byte) /\ Len(p) <= 6
      <3>1. PICK k \in Nat : k = 6
        OBVIOUS
      <3>2. now \in [1 .. k -> Byte]
        BY <3>1
      <3>3. now \in Seq(Byte) /\ Len(now) = k
        BY <3>2, TupleIs
      <3>4. <<>> \in Seq(Byte) /\ Len(<<>>) = 0
        OBVIOUS
      <3>5. p = now \/ p = <<>>
        OBVIOUS
      <3> HIDE DEF p
      <3>6. k <= 6 /\ 0 <= 6
        BY <3>1
      <3> QED
        BY <3>3, <3>4, <3>5, <3>6
    <2>2. G!Reply(r, now) = f
      BY <1>4, Gt06Ids DEF G!Reply, G!TimeResponse
    <2> HIDE DEF p
    <2>3. Encoded(f, m.id, p, m.serial)
      <3>1. m.id \in Byte
        BY <1>4, Gt06Ids
      <3> QED
        BY <1>1, <2>1, <3>1, EncodeFrameIs
    <2> HIDE DEF f
    <2>4. /\ f \in Seq(Byte) /\ Len(f) = Len(p) + 10 /\ f[3] = Len(p) + 5 /\ f[4] = m.id
          /\ G!Word(f, Len(f) - 5) = m.serial /\ G!FrameErrors(f, 4) = {} /\ Len(p) \in Nat
      BY <2>1, <2>3, LenProperties DEF Encoded
    <2>5. AnswersGt06(f, m)
      <3>1. Len(f) = f[3] + 5
        BY <2>4
      <3>2. Word(f, Len(f) - 5) = m.serial
        BY <2>4, SameNumbers
      <3> QED
        BY <2>4, <3>1, <3>2 DEF AnswersGt06
    <2>6. f # <<>>
      <3>1. Len(f) # 0
        BY <2>4
      <3> QED
        BY <3>1, EmptyIs
    <2> QED
      BY <1>2, <1>4, <2>2, <2>5, <2>6 DEF Answers
  <1> QED
    BY <1>3, <1>4

-----------------------------------------------------------------------------
(* JT808: the escape.                                                      *)

(* What a byte is escaped to.                                              *)
Marked(x) == x \in {125, 126}

(* What a byte becomes when it is escaped.                                 *)
Piece(x) == IF Marked(x) THEN <<125, x - 124>> ELSE <<x>>

(* And each of those of b.                                                 *)
Pieces(b) == [i \in 1 .. Len(b) |-> Piece(b[i])]

(* One byte, or two.                                                       *)
LEMMA PieceIs ==
    ASSUME NEW x \in Byte
    PROVE  /\ Piece(x) \in Seq(Byte)
           /\ Marked(x) => Len(Piece(x)) = 2 /\ Piece(x)[1] = 125 /\ Piece(x)[2] = x - 124
           /\ ~ Marked(x) => Len(Piece(x)) = 1 /\ Piece(x)[1] = x
  <1>1. CASE Marked(x)
    <2>1. x - 124 \in Byte /\ 125 \in Byte
      BY <1>1 DEF Marked, Byte
    <2> QED
      BY <1>1, <2>1 DEF Piece
  <1>2. CASE ~ Marked(x)
    BY <1>2 DEF Piece
  <1> QED
    BY <1>1, <1>2

(* One piece of each byte.                                                 *)
LEMMA PiecesAre ==
    ASSUME NEW b \in Seq(Byte)
    PROVE  /\ Pieces(b) \in Seq(Seq(Byte)) /\ Len(Pieces(b)) = Len(b)
           /\ \A i \in 1 .. Len(b) : Pieces(b)[i] = Piece(b[i]) /\ b[i] \in Byte
  <1>1. \A i \in 1 .. Len(b) : b[i] \in Byte
    BY ElementOfSeq
  <1>2. Pieces(b) \in [1 .. Len(b) -> Seq(Byte)]
    BY <1>1, PieceIs DEF Pieces
  <1>3. Len(b) \in Nat
    BY LenProperties
  <1>4. Pieces(b) \in Seq(Seq(Byte)) /\ Len(Pieces(b)) = Len(b)
    BY <1>2, <1>3, TupleIs
  <1>5. \A i \in 1 .. Len(b) : Pieces(b)[i] = Piece(b[i])
    BY DEF Pieces
  <1> QED
    BY <1>1, <1>4, <1>5

(* The escape of b joins its pieces.                                       *)
LEMMA EscapeIs ==
    ASSUME NEW b \in Seq(Byte)
    PROVE  \E g : Concatenates(g, Pieces(b)) /\ J!Escape(b) = g[Len(b)]
  <1> DEFINE step == [out \in Seq(Byte) |-> [x \in Byte |->
                        out \o IF x \in {J!EscapeByte, J!Delimiter}
                               THEN <<J!EscapeByte, x - 124>> ELSE <<x>>]]
  <1>1. \A out \in Seq(Byte), x \in Byte : step[out][x] = out \o Piece(x) /\ out \o Piece(x) \in Seq(Byte)
    <2> SUFFICES ASSUME NEW out \in Seq(Byte), NEW x \in Byte
                 PROVE  step[out][x] = out \o Piece(x) /\ out \o Piece(x) \in Seq(Byte)
      OBVIOUS
    <2>1. out \o Piece(x) \in Seq(Byte)
      BY PieceIs, ConcatProperties
    <2>2. (IF x \in {J!EscapeByte, J!Delimiter} THEN <<J!EscapeByte, x - 124>> ELSE <<x>>) = Piece(x)
      BY DEF Piece, Marked, J!EscapeByte, J!Delimiter
    <2> QED
      BY <2>1, <2>2
  <1>2. step \in Turns(Seq(Byte), Byte)
    <2>1. step = [out \in Seq(Byte) |-> [x \in Byte |-> out \o Piece(x)]]
      BY DEF Piece, Marked, J!EscapeByte, J!Delimiter
    <2> HIDE DEF step
    <2> QED
      BY <1>1, <2>1 DEF Turns
  <1>3. J!Escape(b) = Loop(step, <<>>, b)
    <2>1. J!Byte = Byte
      BY DEF J!Byte, Byte
    <2>2. J!Escape(b) = J!Loop(step, <<>>, b)
      BY <2>1 DEF J!Escape
    <2> QED
      BY <2>2, SameLoop
  <1> HIDE DEF step
  <1>4. PICK first \in Seq(Byte) : first = <<>>
    <2>1. <<>> \in Seq(Byte)
      OBVIOUS
    <2> QED
      BY <2>1
  <1>5. PICK out \in [0 .. Len(b) -> Seq(Byte)] :
           /\ out[0] = first
           /\ \A i \in 1 .. Len(b) : out[i] = step[out[i - 1]][b[i]]
           /\ Loop(step, first, b) = out[Len(b)]
    <2>1. PICK o \in [0 .. Len(b) -> Seq(Byte)] : Looped(o, step, first, b)
      BY <1>2, LoopIs
    <2> QED
      BY <2>1 DEF Looped
  <1>6. ASSUME NEW i \in 1 .. Len(b) PROVE out[i] = out[i - 1] \o Pieces(b)[i]
    <2>1. out[i - 1] \in Seq(Byte)
      <3>1. i - 1 \in 0 .. Len(b)
        BY LenProperties
      <3> QED
        BY <3>1
    <2>2. b[i] \in Byte /\ Pieces(b)[i] = Piece(b[i])
      BY PiecesAre
    <2> QED
      BY <1>1, <1>5, <2>1, <2>2
  <1>7. Concatenates(out, Pieces(b))
    BY <1>4, <1>5, <1>6, PiecesAre DEF Concatenates
  <1>8. J!Escape(b) = out[Len(b)]
    BY <1>3, <1>4, <1>5
  <1> QED
    BY <1>7, <1>8

(* e is b with its marks, and at[i] of its bytes are of the first i of b.  *)
Stuffed(e, at, b) ==
    /\ e \in Seq(Byte) /\ at \in [0 .. Len(b) -> 0 .. Len(e)]
    /\ at[0] = 0 /\ at[Len(b)] = Len(e)
    /\ \A i \in 1 .. Len(b) :
         IF Marked(b[i])
         THEN at[i] = at[i - 1] + 2 /\ e[at[i - 1] + 1] = 125 /\ e[at[i - 1] + 2] = b[i] - 124
         ELSE at[i] = at[i - 1] + 1 /\ e[at[i - 1] + 1] = b[i]

(* The escape of b is its pieces, side by side.                            *)
LEMMA StuffedIs ==
    ASSUME NEW b \in Seq(Byte)
    PROVE  \E at : Stuffed(J!Escape(b), at, b)
  <1>1. PICK g : Concatenates(g, Pieces(b)) /\ J!Escape(b) = g[Len(b)]
    BY EscapeIs
  <1>2. PICK N \in Nat : N = Len(b)
    BY LenProperties
  <1>3. PICK fs \in Seq(Seq(Byte)) : fs = Pieces(b) /\ Len(fs) = N
    BY <1>2, PiecesAre
  <1>4. Concatenates(g, fs)
    BY <1>1, <1>3
  <1> DEFINE e == g[N]
             at == [i \in 0 .. N |-> Len(g[i])]
  <1>5. \A i \in 0 .. N : g[i] \in Seq(Byte) /\ Len(g[i]) \in Nat
    BY <1>3, <1>4, LenProperties DEF Concatenates
  <1>6. ASSUME NEW i \in 0 .. N
        PROVE  Len(g[i]) <= Len(e) /\ \A k \in 1 .. Len(g[i]) : e[k] = g[i][k]
    <2>1. i \in 0 .. Len(fs) /\ N \in i .. Len(fs)
      BY <1>3
    <2> QED
      BY <1>4, <2>1, JoinPrefix
  <1>7. ASSUME NEW i \in 1 .. N
        PROVE  IF Marked(b[i])
               THEN at[i] = at[i - 1] + 2 /\ e[at[i - 1] + 1] = 125 /\ e[at[i - 1] + 2] = b[i] - 124
               ELSE at[i] = at[i - 1] + 1 /\ e[at[i - 1] + 1] = b[i]
    <2>1. b[i] \in Byte /\ fs[i] = Piece(b[i])
      BY <1>2, <1>3, PiecesAre
    <2>2. i \in 0 .. N /\ i - 1 \in 0 .. N
      OBVIOUS
    <2>3. PICK s \in Seq(Byte), p \in Seq(Byte), u \in {g[i]} : s = g[i - 1] /\ p = Piece(b[i]) /\ u = g[i]
      BY <1>5, <2>1, <2>2, PieceIs
    <2>4. u = s \o p
      BY <1>3, <1>4, <2>1, <2>3 DEF Concatenates
    <2>5. Glued(u, s, p)
      BY <2>4, ConcatIs
    <2>6. at[i - 1] = Len(s) /\ at[i] = Len(u) /\ Len(s) \in Nat /\ Len(u) \in Nat
      BY <1>5, <2>2, <2>3
    <2>7. \A k \in 1 .. Len(u) : e[k] = u[k]
      BY <1>6, <2>2, <2>3
    <2> HIDE DEF e, at
    <2>8. CASE Marked(b[i])
      <3>1. Len(p) = 2 /\ p[1] = 125 /\ p[2] = b[i] - 124
        BY <2>1, <2>3, <2>8, PieceIs
      <3>2. Len(u) = Len(s) + 2 /\ u[Len(s) + 1] = 125 /\ u[Len(s) + 2] = b[i] - 124
        BY <2>5, <3>1 DEF Glued
      <3>3. Len(s) + 1 \in 1 .. Len(u) /\ Len(s) + 2 \in 1 .. Len(u)
        BY <2>6, <3>2
      <3>4. e[Len(s) + 1] = 125 /\ e[Len(s) + 2] = b[i] - 124
        BY <2>7, <3>2, <3>3
      <3> QED
        BY <2>6, <2>8, <3>2, <3>4
    <2>9. CASE ~ Marked(b[i])
      <3>1. Len(p) = 1 /\ p[1] = b[i]
        BY <2>1, <2>3, <2>9, PieceIs
      <3>2. Len(u) = Len(s) + 1 /\ u[Len(s) + 1] = b[i]
        BY <2>5, <3>1 DEF Glued
      <3>3. Len(s) + 1 \in 1 .. Len(u)
        BY <2>6, <3>2
      <3>4. e[Len(s) + 1] = b[i]
        BY <2>7, <3>2, <3>3
      <3> QED
        BY <2>6, <2>9, <3>2, <3>4
    <2> QED
      BY <2>8, <2>9
  <1>8. at \in [0 .. N -> 0 .. Len(e)] /\ at[0] = 0 /\ at[N] = Len(e) /\ e \in Seq(Byte)
    <2>1. \A i \in 0 .. N : Len(g[i]) \in 0 .. Len(e)
      BY <1>5, <1>6
    <2>2. Len(g[0]) = 0
      BY <1>4 DEF Concatenates
    <2>3. 0 \in 0 .. N /\ N \in 0 .. N
      OBVIOUS
    <2> QED
      BY <1>5, <2>1, <2>2, <2>3
  <1>9. Stuffed(e, at, b)
    <2> HIDE DEF e, at
    <2> QED
      BY <1>2, <1>7, <1>8 DEF Stuffed
  <1> QED
    BY <1>1, <1>2, <1>9

(* No delimiter is left in it, and each mark is followed by what it hides. *)
Clean2(e) == \A k \in 1 .. Len(e) :
               e[k] # 126 /\ (e[k] = 125 => k < Len(e) /\ e[k + 1] \in {1, 2})

(* It has no delimiter, and no escape that is not one of its pieces.       *)
LEMMA StuffedIsClean ==
    ASSUME NEW b \in Seq(Byte), NEW e, NEW at, Stuffed(e, at, b)
    PROVE  /\ Clean2(e)
           /\ \A i \in 1 .. Len(b) :
                /\ at[i - 1] + 1 \in 1 .. Len(e) /\ at[i] \in 1 .. Len(e)
                /\ e[at[i]] # 125
  <1>1. PICK N \in Nat : N = Len(b)
    BY LenProperties
  <1>2. PICK L \in Nat : L = Len(e)
    BY LenProperties DEF Stuffed
  <1>3. /\ \A i \in 0 .. N : at[i] \in 0 .. L
        /\ at[0] = 0 /\ at[N] = L
    BY <1>1, <1>2 DEF Stuffed
  <1>4. ASSUME NEW i \in 1 .. N
        PROVE  IF Marked(b[i])
               THEN at[i] = at[i - 1] + 2 /\ e[at[i - 1] + 1] = 125 /\ e[at[i - 1] + 2] = b[i] - 124
               ELSE at[i] = at[i - 1] + 1 /\ e[at[i - 1] + 1] = b[i]
    BY <1>1 DEF Stuffed
  <1>5. ASSUME NEW i \in 1 .. N
        PROVE  /\ at[i - 1] \in 0 .. L /\ at[i] \in 1 .. L /\ at[i - 1] < at[i]
               /\ at[i] = at[i - 1] + 1 \/ at[i] = at[i - 1] + 2
               /\ e[at[i]] # 125 /\ e[at[i]] # 126
               /\ at[i] = at[i - 1] + 2 => e[at[i - 1] + 1] = 125 /\ e[at[i]] \in {1, 2}
    <2>1. at[i - 1] \in 0 .. L /\ at[i] \in 0 .. L
      <3>1. i - 1 \in 0 .. N /\ i \in 0 .. N
        OBVIOUS
      <3> QED
        BY <1>3, <3>1
    <2>2. CASE Marked(b[i])
      <3>1. at[i] = at[i - 1] + 2 /\ e[at[i - 1] + 1] = 125 /\ e[at[i - 1] + 2] = b[i] - 124
        BY <1>4, <2>2
      <3>2. b[i] - 124 \in {1, 2}
        BY <2>2 DEF Marked
      <3> QED
        BY <2>1, <3>1, <3>2
    <2>3. CASE ~ Marked(b[i])
      <3>1. at[i] = at[i - 1] + 1 /\ e[at[i - 1] + 1] = b[i]
        BY <1>4, <2>3
      <3>2. b[i] # 125 /\ b[i] # 126
        BY <2>3 DEF Marked
      <3> QED
        BY <2>1, <3>1, <3>2
    <2> QED
      BY <2>2, <2>3
  <1> DEFINE Fine(k) == e[k] # 126 /\ (e[k] = 125 => k < L /\ e[k + 1] \in {1, 2})
             K == {i \in 0 .. N : \A k \in 1 .. at[i] : Fine(k)}
  <1>6. 0 \in K
    BY <1>3
  <1>7. ASSUME NEW n \in K, n < N PROVE n + 1 \in K
    <2>0. n \in 0 .. N /\ n < N
      BY <1>7
    <2>1. n + 1 \in 1 .. N /\ (n + 1) - 1 = n
      BY <2>0
    <2>2. PICK i \in 1 .. N : i = n + 1 /\ i - 1 = n
      BY <2>1
    <2>3. /\ at[n] \in 0 .. L /\ at[i] \in 1 .. L
          /\ at[i] = at[n] + 1 \/ at[i] = at[n] + 2
          /\ e[at[i]] # 125 /\ e[at[i]] # 126
          /\ at[i] = at[n] + 2 => e[at[n] + 1] = 125 /\ e[at[i]] \in {1, 2}
      BY <1>5, <2>2
    <2>4. ASSUME NEW k \in 1 .. at[i] PROVE Fine(k)
      <3>1. CASE k \in 1 .. at[n]
        BY <3>1
      <3>2. CASE k = at[i]
        BY <2>3, <3>2
      <3>3. CASE k = at[n] + 1 /\ at[i] = at[n] + 2
        <4>1. k + 1 = at[i] /\ k < L
          BY <2>3, <3>3
        <4> QED
          BY SMTT(30), <2>3, <3>3, <4>1
      <3>4. PICK x \in Int, y \in Int : x = at[n] /\ y = at[i] /\ (y = x + 1 \/ y = x + 2)
        BY <2>3
      <3>6. k \in 1 .. y
        BY <3>4
      <3>5. k \in 1 .. x \/ k = y \/ (k = x + 1 /\ y = x + 2)
        <4>1. PICK z \in Int : z = k /\ 1 <= z /\ z <= y
          BY <3>4, <3>6
        <4> QED
          BY <3>4, <4>1
      <3> HIDE DEF Fine
      <3> QED
        BY <3>1, <3>2, <3>3, <3>4, <3>5
    <2> HIDE DEF Fine
    <2> QED
      BY <2>2, <2>4
  <1>8. N \in K
    <2> HIDE DEF K
    <2>1. K \in SUBSET (0 .. N)
      BY DEF K
    <2>2. K = 0 .. N
      BY <1>6, <1>7, <2>1, FiniteInduction
    <2> QED
      BY <2>2
  <1>9. Clean2(e)
    <2>1. \A k \in 1 .. L : Fine(k)
      BY <1>3, <1>8
    <2> QED
      BY <1>2, <2>1 DEF Clean2
  <1>10. ASSUME NEW i \in 1 .. N
         PROVE  at[i - 1] + 1 \in 1 .. L /\ at[i] \in 1 .. L /\ e[at[i]] # 125
    <2>1. PICK x \in 0 .. L, y \in 1 .. L : x = at[i - 1] /\ y = at[i] /\ x < y /\ e[y] # 125
      BY SMTT(30), <1>5
    <2>2. x + 1 \in 1 .. L
      BY <2>1
    <2> QED
      BY <2>1, <2>2
  <1> QED
    BY <1>1, <1>2, <1>9, <1>10

(* The marks are the only pairs.                                           *)
LEMMA StuffedPairs ==
    ASSUME NEW b \in Seq(Byte), NEW e, NEW at, Stuffed(e, at, b)
    PROVE  ~ J!Malformed(e)
  <1>1. Clean2(e)
    BY StuffedIsClean
  <1>2. Len(e) \in Nat
    BY LenProperties DEF Stuffed
  <1>3. ASSUME NEW i \in 1 .. Len(e), e[i] = 125 PROVE i \in J!Pairs(e)
    <2>1. i < Len(e) /\ e[i + 1] \in {1, 2}
      BY <1>1, <1>3 DEF Clean2
    <2>2. i \in 1 .. Len(e) - 1
      BY <1>2, <2>1
    <2> QED
      BY <1>3, <2>1, <2>2 DEF J!Pairs, J!EscapeByte
  <1> QED
    BY <1>3 DEF J!Malformed, J!EscapeByte

(* What is escaped is found again.                                         *)
LEMMA UnescapeIs ==
    ASSUME NEW b \in Seq(Byte), NEW e, NEW at, Stuffed(e, at, b)
    PROVE  J!Unescape(e) = b
  <1>1. PICK N \in Nat : N = Len(b)
    BY LenProperties
  <1>2. PICK L \in Nat : L = Len(e) /\ e \in Seq(Byte)
    BY LenProperties DEF Stuffed
  <1>3. /\ \A i \in 0 .. N : at[i] \in 0 .. L
        /\ at[0] = 0 /\ at[N] = L
    BY <1>1, <1>2 DEF Stuffed
  <1>4. ASSUME NEW i \in 1 .. N
        PROVE  /\ IF Marked(b[i])
                  THEN at[i] = at[i - 1] + 2 /\ e[at[i - 1] + 1] = 125 /\ e[at[i - 1] + 2] = b[i] - 124
                  ELSE at[i] = at[i - 1] + 1 /\ e[at[i - 1] + 1] = b[i]
               /\ at[i - 1] + 1 \in 1 .. L /\ at[i] \in 1 .. L /\ e[at[i]] # 125
               /\ b[i] \in Byte
    <2>1. at[i - 1] + 1 \in 1 .. L /\ at[i] \in 1 .. L /\ e[at[i]] # 125
      BY <1>1, <1>2, StuffedIsClean
    <2>2. b[i] \in Byte
      BY <1>1, ElementOfSeq
    <2> QED
      BY <1>1, <2>1, <2>2 DEF Stuffed
  <1> DEFINE pairs == J!Pairs(e)
             step == [out \in Seq(Byte) |-> [i \in 1 .. L |->
                        IF i - 1 \in pairs THEN out
                        ELSE Append(out, IF i \in pairs THEN 124 + e[i + 1] ELSE e[i])]]
             places == [i \in 1 .. L |-> i]
  <1>5. pairs = {i \in 1 .. L - 1 : e[i] = 125 /\ e[i + 1] \in {1, 2}}
    BY <1>2 DEF J!Pairs, J!EscapeByte
  <1>6. J!Unescape(e) = Loop(step, <<>>, places)
    <2>1. J!Byte = Byte
      BY DEF J!Byte, Byte
    <2>2. J!Unescape(e) = J!Loop(step, <<>>, places)
      BY <1>2, <2>1 DEF J!Unescape
    <2> QED
      BY <2>2, SameLoop
  <1>7. places \in Seq(1 .. L) /\ Len(places) = L /\ \A i \in 1 .. L : places[i] = i
    <2>1. places \in [1 .. L -> 1 .. L]
      OBVIOUS
    <2>2. \A i \in 1 .. L : places[i] = i
      OBVIOUS
    <2> HIDE DEF places
    <2>3. PICK T : T = 1 .. L
      OBVIOUS
    <2>4. places \in Seq(T) /\ Len(places) = L
      BY <2>1, <2>3, TupleIs
    <2> QED
      BY <2>2, <2>3, <2>4
  <1> HIDE DEF pairs
  <1>8. ASSUME NEW i \in 1 .. L
        PROVE  (IF i \in pairs THEN 124 + e[i + 1] ELSE e[i]) \in Byte
    <2>1. CASE i \in pairs
      <3>1. 124 + e[i + 1] \in {125, 126}
        BY <1>5, <2>1
      <3>2. 125 \in Byte /\ 126 \in Byte
        BY DEF Byte
      <3> QED
        BY <2>1, <3>1, <3>2
    <2>2. CASE i \notin pairs
      BY <1>2, <2>2, ElementOfSeq
    <2> QED
      BY <2>1, <2>2
  <1>9. step \in Turns(Seq(Byte), 1 .. L)
    <2>1. ASSUME NEW out \in Seq(Byte), NEW i \in 1 .. L
          PROVE  (IF i - 1 \in pairs THEN out
                  ELSE Append(out, IF i \in pairs THEN 124 + e[i + 1] ELSE e[i])) \in Seq(Byte)
      BY <1>8, AppendProperties
    <2> QED
      BY <2>1 DEF Turns
  <1>10. \A out \in Seq(Byte), i \in 1 .. L :
            step[out][i] = IF i - 1 \in pairs THEN out
                           ELSE Append(out, IF i \in pairs THEN 124 + e[i + 1] ELSE e[i])
    OBVIOUS
  <1> HIDE DEF step, places
  <1>11. PICK first \in Seq(Byte) : first = <<>>
    <2>1. <<>> \in Seq(Byte)
      OBVIOUS
    <2> QED
      BY <2>1
  <1>12. PICK u \in [0 .. L -> Seq(Byte)] :
            /\ u[0] = first
            /\ \A k \in 1 .. L : u[k] = step[u[k - 1]][k]
            /\ Loop(step, first, places) = u[L]
    <2>1. PICK T : T = 1 .. L
      OBVIOUS
    <2>2. step \in Turns(Seq(Byte), T) /\ places \in Seq(T)
      BY <1>7, <1>9, <2>1
    <2>0. PICK u \in [0 .. Len(places) -> Seq(Byte)] : Looped(u, step, first, places)
      BY <2>2, LoopIs
    <2>3. /\ u[0] = first
          /\ \A k \in 1 .. Len(places) : u[k] = step[u[k - 1]][places[k]]
          /\ Loop(step, first, places) = u[Len(places)]
      BY <2>0 DEF Looped
    <2> QED
      BY <1>7, <2>3
  <1>13. ASSUME NEW k \in 1 .. L
         PROVE  /\ u[k - 1] \in Seq(Byte)
                /\ u[k] = IF k - 1 \in pairs THEN u[k - 1]
                          ELSE Append(u[k - 1], IF k \in pairs THEN 124 + e[k + 1] ELSE e[k])
    <2>1. k - 1 \in 0 .. L
      OBVIOUS
    <2>2. u[k - 1] \in Seq(Byte)
      BY <2>1
    <2> QED
      BY <1>10, <1>12, <2>2
  <1> DEFINE Same(s, n) == Len(s) = n /\ \A k \in 1 .. n : s[k] = b[k]
             K == {i \in 0 .. N : Same(u[at[i]], i) /\ at[i] \notin pairs}
  <1>14. 0 \in K
    <2>1. at[0] \notin pairs
      BY <1>3, <1>5
    <2>2. Len(u[0]) = 0
      BY <1>11, <1>12
    <2> QED
      BY <1>3, <2>1, <2>2
  <1>15. ASSUME NEW n \in K, n < N PROVE n + 1 \in K
    <2>0. n \in 0 .. N /\ n < N
      BY <1>15
    <2>1. PICK i \in 1 .. N : i = n + 1 /\ i - 1 = n
      BY <2>0
    <2>2. PICK x \in Byte, p \in 0 .. L : x = b[i] /\ p = at[n] /\ p + 1 \in 1 .. L
      BY <1>3, <1>4, <2>1
    <2>3. Same(u[p], n) /\ p \notin pairs /\ u[p] \in Seq(Byte)
      BY <1>12, <2>2
    <2>4. at[i] \in 1 .. L /\ e[at[i]] # 125 /\ at[i] \notin pairs
      BY <1>4, <1>5
    <2> HIDE DEF K
    <2>a. IF Marked(x) THEN at[i] = p + 2 /\ e[p + 1] = 125 /\ e[p + 2] = x - 124
                       ELSE at[i] = p + 1 /\ e[p + 1] = x
      <3>1. IF Marked(b[i])
              THEN at[i] = at[i - 1] + 2 /\ e[at[i - 1] + 1] = 125 /\ e[at[i - 1] + 2] = b[i] - 124
              ELSE at[i] = at[i - 1] + 1 /\ e[at[i - 1] + 1] = b[i]
        BY <1>4
      <3> QED
        BY <2>1, <2>2, <3>1
    <2>5. u[p + 1] = Append(u[p], x)
      <3>1. PICK k \in 1 .. L : k = p + 1 /\ k - 1 = p
        BY <2>2
      <3>2. u[k] = Append(u[p], IF k \in pairs THEN 124 + e[k + 1] ELSE e[k])
        BY <1>13, <2>3, <3>1
      <3>3. CASE Marked(x)
        <4>1. e[k] = 125 /\ e[k + 1] = x - 124 /\ at[i] = k + 1
          <5>1. at[i] = p + 2 /\ e[p + 1] = 125 /\ e[p + 2] = x - 124
            BY <2>a, <3>3
          <5> QED
            BY <3>1, <5>1
        <4>2. k \in pairs
          <5>1. x - 124 \in {1, 2}
            BY <3>3 DEF Marked
          <5>2. k \in 1 .. L - 1
            BY <2>4, <4>1
          <5> QED
            BY <1>5, <4>1, <5>1, <5>2
        <4>3. 124 + e[k + 1] = x
          BY <4>1 DEF Byte
        <4> QED
          BY <3>1, <3>2, <4>2, <4>3
      <3>4. CASE ~ Marked(x)
        <4>1. e[k] = x /\ at[i] = k
          <5>1. at[i] = p + 1 /\ e[p + 1] = x
            BY <2>a, <3>4
          <5> QED
            BY <3>1, <5>1
        <4>2. k \notin pairs
          BY <2>4, <4>1
        <4> QED
          BY <3>1, <3>2, <4>1, <4>2
      <3> QED
        BY <3>3, <3>4
    <2>6. u[at[i]] = Append(u[p], x)
      <3>1. CASE Marked(x)
        <4>1. at[i] = p + 2 /\ e[p + 1] = 125 /\ e[p + 2] = x - 124
          BY <2>a, <3>1
        <4>2. p + 1 \in pairs
          <5>1. x - 124 \in {1, 2}
            BY <3>1 DEF Marked
          <5>2. p + 1 \in 1 .. L - 1
            <6>1. PICK q \in 1 .. L : q = at[i] /\ q = p + 2
              BY <2>4, <4>1
            <6> QED
              BY <6>1
          <5>3. (p + 1) + 1 = p + 2
            BY <2>2
          <5> QED
            BY <1>5, <4>1, <5>1, <5>2, <5>3
        <4>3. PICK k \in 1 .. L : k = at[i] /\ k - 1 = p + 1
          BY <2>4, <4>1
        <4>4. u[k] = u[k - 1]
          BY <1>13, <4>2, <4>3
        <4> QED
          BY <2>5, <4>3, <4>4
      <3>2. CASE ~ Marked(x)
        <4>1. at[i] = p + 1
          BY <2>a, <3>2
        <4> QED
          BY <2>5, <4>1
      <3> QED
        BY <3>1, <3>2
    <2>7. PICK s \in Seq(Byte) : s = u[p]
      BY <2>3
    <2>8. Len(Append(s, x)) = n + 1 /\ \A k \in 1 .. n + 1 : Append(s, x)[k] = b[k]
      <3>1. /\ Len(Append(s, x)) = Len(s) + 1
            /\ \A k \in 1 .. Len(s) : Append(s, x)[k] = s[k]
            /\ Append(s, x)[Len(s) + 1] = x
        BY AppendProperties
      <3>2. Len(s) = n /\ \A k \in 1 .. n : s[k] = b[k]
        BY <2>3, <2>7
      <3>3. x = b[n + 1] /\ \A k \in 1 .. n + 1 : k \in 1 .. n \/ k = n + 1
        BY <2>1, <2>2
      <3> QED
        BY <3>1, <3>2, <3>3
    <2>9. Same(u[at[i]], i)
      BY <2>1, <2>6, <2>7, <2>8
    <2>10. i \in 0 .. N /\ i = n + 1
      BY <2>1
    <2> HIDE DEF Same
    <2> QED
      BY <2>4, <2>9, <2>10 DEF K
  <1>16. N \in K
    <2> HIDE DEF K
    <2>1. K \in SUBSET (0 .. N)
      BY DEF K
    <2>2. K = 0 .. N
      BY <1>14, <1>15, <2>1, FiniteInduction
    <2> QED
      BY <2>2
  <1>17. PICK s \in Seq(Byte) : s = u[L]
    <2>1. L \in 0 .. L
      OBVIOUS
    <2> QED
      BY <2>1
  <1>18. Len(s) = N /\ \A k \in 1 .. N : s[k] = b[k]
    BY <1>3, <1>16, <1>17
  <1>19. s = b
    BY <1>1, <1>18, SeqEqual
  <1> QED
    BY <1>6, <1>11, <1>12, <1>17, <1>19

-----------------------------------------------------------------------------
(* JT808: the frame.                                                       *)

(* The checksum of bytes is a byte.                                        *)
LEMMA XorSumTyped ==
    ASSUME NEW b \in Seq(Byte)
    PROVE  J!XorChecksum(b) \in Byte /\ XorChecksum(b) = J!XorChecksum(b)
  <1> DEFINE step == [x \in J!Byte |-> [y \in J!Byte |-> J!XorByte(x, y)]]
  <1>1. ASSUME NEW x \in Byte, NEW y \in Byte PROVE G!XorByte(x, y) \in Byte
    <2>1. x \in Int /\ y \in Int
      BY DEF Byte
    <2>2. G!XorByte(x, y) \in 0 .. 255
      BY <2>1, XorTyped
    <2> QED
      BY <2>2 DEF Byte
  <1>2. \A x, y : J!XorByte(x, y) = G!XorByte(x, y) /\ XorByte(x, y) = G!XorByte(x, y)
    BY DEF J!XorByte, G!XorByte, XorByte
  <1>3. J!Byte = Byte
    BY DEF J!Byte, Byte
  <1>4. step = [x \in Byte |-> [y \in Byte |-> G!XorByte(x, y)]]
    BY <1>2, <1>3
  <1>5. J!XorChecksum(b) = J!Loop(step, 0, b)
    BY DEF J!XorChecksum
  <1>6. XorChecksum(b) = Loop(step, 0, b)
    BY <1>2, <1>4 DEF XorChecksum
  <1>7. step \in Turns(Byte, Byte)
    <2> HIDE DEF step
    <2> QED
      BY <1>1, <1>4 DEF Turns
  <1>8. 0 \in Byte
    BY DEF Byte
  <1> HIDE DEF step
  <1>9. PICK out \in [0 .. Len(b) -> Byte] : Loop(step, 0, b) = out[Len(b)]
    <2>1. PICK o \in [0 .. Len(b) -> Byte] : Looped(o, step, 0, b)
      BY <1>7, <1>8, LoopIs
    <2> QED
      BY <2>1 DEF Looped
  <1>10. Len(b) \in 0 .. Len(b)
    BY LenProperties
  <1> QED
    BY <1>5, <1>6, <1>9, <1>10, SameLoop

(* The content of a frame: its header, of twelve bytes, and its body.      *)
IsContent(c, id, digits, body, serial) ==
    /\ c \in Seq(Byte) /\ Len(c) = 12 + Len(body)
    /\ Word(c, 1) = id /\ Word(c, 3) = Len(body) /\ Word(c, 11) = serial
    /\ Part(c, 5, 6) = BcdEncode(digits, 6)
    /\ SubSeq(c, 13, Len(c)) = body

(* The header and the body of a frame are laid out so.                     *)
LEMMA ContentIs ==
    ASSUME NEW id \in TwoBytes, NEW digits \in Seq(0 .. 9), NEW body \in Seq(Byte),
           Len(body) < 1024, NEW serial \in TwoBytes
    PROVE  IsContent(WordBytes(id) \o WordBytes(Len(body) % 1024) \o BcdEncode(digits, 6)
                       \o WordBytes(serial) \o body, id, digits, body, serial)
  <1>1. PICK n \in Nat : n = Len(body) /\ n < 1024 /\ n % 1024 = n /\ n \in TwoBytes
    <2>1. PICK n \in Nat : n = Len(body) /\ n < 1024
      BY LenProperties
    <2>2. n % 1024 = n /\ n < 65536
      BY <2>1
    <2> QED
      BY <2>1, <2>2 DEF TwoBytes
  <1> DEFINE v == WordBytes(id)
             w == WordBytes(n)
             t == BcdEncode(digits, 6)
             s == WordBytes(serial)
             c1 == v \o w
             c2 == c1 \o t
             c3 == c2 \o s
             c == c3 \o body
  <1>2. /\ v \in Seq(Byte) /\ Len(v) = 2 /\ 256 * v[1] + v[2] = id
        /\ w \in Seq(Byte) /\ Len(w) = 2 /\ 256 * w[1] + w[2] = n
        /\ s \in Seq(Byte) /\ Len(s) = 2 /\ 256 * s[1] + s[2] = serial
    BY <1>1, WordIs
  <1>3. t \in Seq(Byte) /\ Len(t) = 6
    <2>1. 6 \in Nat
      OBVIOUS
    <2> QED
      BY <2>1, BcdIs
  <1> HIDE DEF v, w, t, s
  <1>4. Glued(c1, v, w)
    BY <1>2, ConcatIs
  <1> HIDE DEF c1
  <1>5. /\ c1 \in Seq(Byte) /\ Len(c1) = 4
        /\ c1[1] = v[1] /\ c1[2] = v[2] /\ c1[3] = w[1] /\ c1[4] = w[2]
    <2>1. /\ c1 \in Seq(Byte) /\ Len(c1) = 4
          /\ c1[1] = v[1] /\ c1[2] = v[2] /\ c1[2 + 1] = w[1] /\ c1[2 + 2] = w[2]
      BY <1>2, <1>4 DEF Glued
    <2> QED
      BY <2>1
  <1>6. Glued(c2, c1, t)
    BY <1>3, <1>5, ConcatIs
  <1> HIDE DEF c2
  <1>7. /\ c2 \in Seq(Byte) /\ Len(c2) = 10
        /\ \A k \in 1 .. 4 : c2[k] = c1[k]
        /\ \A k \in 1 .. 6 : c2[4 + k] = t[k]
    BY <1>3, <1>5, <1>6 DEF Glued
  <1>8. Glued(c3, c2, s)
    BY <1>2, <1>7, ConcatIs
  <1> HIDE DEF c3
  <1>9. /\ c3 \in Seq(Byte) /\ Len(c3) = 12
        /\ \A k \in 1 .. 10 : c3[k] = c2[k]
        /\ c3[11] = s[1] /\ c3[12] = s[2]
    <2>1. /\ c3 \in Seq(Byte) /\ Len(c3) = 12
          /\ \A k \in 1 .. 10 : c3[k] = c2[k]
          /\ c3[10 + 1] = s[1] /\ c3[10 + 2] = s[2]
      BY <1>2, <1>7, <1>8 DEF Glued
    <2> QED
      BY <2>1
  <1>10. Glued(c, c3, body)
    BY <1>9, ConcatIs
  <1> HIDE DEF c
  <1>11. /\ c \in Seq(Byte) /\ Len(c) = 12 + n
         /\ \A k \in 1 .. 12 : c[k] = c3[k]
         /\ \A k \in 1 .. n : c[12 + k] = body[k]
    BY <1>1, <1>9, <1>10 DEF Glued
  <1>12. \A k \in 1 .. 10 : c[k] = c2[k]
    <2>1. \A k \in 1 .. 10 : k \in 1 .. 12
      OBVIOUS
    <2> QED
      BY SMTT(30), <1>9, <1>11, <2>1
  <1>13. Word(c, 1) = id /\ Word(c, 3) = n /\ Word(c, 11) = serial
    <2>1. c[1] = v[1] /\ c[1 + 1] = v[2] /\ c[3] = w[1] /\ c[3 + 1] = w[2]
      <3>1. \A k \in 1 .. 4 : c[k] = c1[k]
        <4>1. \A k \in 1 .. 4 : k \in 1 .. 10
          OBVIOUS
        <4> QED
          BY <1>7, <1>12, <4>1
      <3> QED
        BY <1>5, <3>1
    <2>2. c[11] = s[1] /\ c[11 + 1] = s[2]
      BY <1>9, <1>11
    <2> QED
      BY <1>2, <2>1, <2>2 DEF Word
  <1>14. Part(c, 5, 6) = t
    <2>1. \A k \in 1 .. 6 : c[4 + k] = t[k]
      <3>1. \A k \in 1 .. 6 : 4 + k \in 1 .. 10
        OBVIOUS
      <3> QED
        BY <1>7, <1>12, <3>1
    <2>2. SubSeq(c, 4 + 1, 4 + Len(t)) = t
      BY <1>3, <1>11, <2>1, SliceIs
    <2>3. 4 + 1 = 5 /\ 4 + Len(t) = 5 + 6 - 1
      BY <1>3
    <2> QED
      BY <2>2, <2>3, SMTT(30) DEF Part
  <1>15. SubSeq(c, 13, Len(c)) = body
    <2>1. 12 \in Nat /\ 12 + Len(body) <= Len(c) /\ \A i \in 1 .. Len(body) : c[12 + i] = body[i]
      BY <1>1, <1>11
    <2>2. SubSeq(c, 12 + 1, 12 + Len(body)) = body
      BY SMTT(30), <1>11, <2>1, SliceIs
    <2>3. 12 + 1 = 13 /\ 12 + Len(body) = Len(c)
      BY <1>1, <1>11
    <2> QED
      BY <2>2, <2>3
  <1>16. IsContent(c, id, digits, body, serial)
    BY <1>1, <1>11, <1>13, <1>14, <1>15 DEF IsContent, t
  <1>17. c = WordBytes(id) \o WordBytes(n) \o BcdEncode(digits, 6) \o WordBytes(serial) \o body
    BY DEF c, c3, c2, c1, v, w, t, s
  <1>18. Len(body) % 1024 = n
    BY <1>1
  <1> QED
    BY <1>16, <1>17, <1>18

(* The frame of a content: only its ends are delimiters, and inside is the *)
(* content with its checksum.                                              *)
Wrapped(f, c) ==
    LET inner == SubSeq(f, 2, Len(f) - 1)
    IN /\ f \in Seq(Byte) /\ Len(f) >= 2
       /\ \A i \in 1 .. Len(f) : f[i] = 126 <=> i \in {1, Len(f)}
       /\ inner \in Seq(Byte) /\ ~ J!Malformed(inner)
       /\ J!Unescape(inner) = Append(c, XorChecksum(c))

(* Its delimiters, its escape and its checksum are undone.                 *)
LEMMA WrappedIs ==
    ASSUME NEW c \in Seq(Byte)
    PROVE  Wrapped(<<126>> \o J!Escape(Append(c, J!XorChecksum(c))) \o <<126>>, c)
  <1>1. PICK sum \in Byte : sum = J!XorChecksum(c) /\ sum = XorChecksum(c)
    BY XorSumTyped
  <1>2. PICK b \in Seq(Byte) : b = Append(c, sum)
    BY AppendProperties
  <1>3. PICK e \in Seq(Byte) : /\ e = J!Escape(b) /\ J!Unescape(e) = b /\ ~ J!Malformed(e)
                               /\ \A i \in 1 .. Len(e) : e[i] # 126
    <2>1. PICK at : Stuffed(J!Escape(b), at, b)
      BY StuffedIs
    <2>2. J!Escape(b) \in Seq(Byte)
      BY <2>1 DEF Stuffed
    <2>3. PICK e \in Seq(Byte) : e = J!Escape(b)
      BY <2>2
    <2>4. Stuffed(e, at, b)
      BY <2>1, <2>3
    <2>5. J!Unescape(e) = b /\ ~ J!Malformed(e)
      BY <2>3, <2>4, StuffedPairs, UnescapeIs
    <2>6. \A i \in 1 .. Len(e) : e[i] # 126
      <3>1. Clean2(e)
        BY <2>4, StuffedIsClean
      <3> QED
        BY <3>1 DEF Clean2
    <2> QED
      BY <2>3, <2>5, <2>6
  <1>4. PICK q \in Seq(Byte) : q = <<126>> /\ Len(q) = 1 /\ q[1] = 126
    <2>1. 126 \in Byte
      BY DEF Byte
    <2>2. <<126>> \in Seq(Byte) /\ Len(<<126>>) = 1 /\ <<126>>[1] = 126
      BY <2>1
    <2> QED
      BY <2>2
  <1>5. PICK n \in Nat : n = Len(e)
    BY LenProperties
  <1> DEFINE f1 == q \o e
             f == f1 \o q
  <1>6. Glued(f1, q, e)
    BY ConcatIs
  <1> HIDE DEF f1
  <1>7. f1 \in Seq(Byte) /\ Len(f1) = 1 + n /\ f1[1] = 126 /\ \A k \in 1 .. n : f1[1 + k] = e[k]
    BY <1>4, <1>5, <1>6 DEF Glued
  <1>8. Glued(f, f1, q)
    BY <1>7, ConcatIs
  <1> HIDE DEF f
  <1>9. /\ f \in Seq(Byte) /\ Len(f) = 2 + n
        /\ \A k \in 1 .. 1 + n : f[k] = f1[k]
        /\ f[1 + n + 1] = 126
    BY <1>4, <1>5, <1>7, <1>8 DEF Glued
  <1>10. f[1] = 126 /\ \A k \in 1 .. n : f[1 + k] = e[k]
    <2>1. \A k \in 1 .. n : 1 + k \in 1 .. 1 + n
      OBVIOUS
    <2>2. 1 \in 1 .. 1 + n
      OBVIOUS
    <2> QED
      BY <1>7, <1>9, <2>1, <2>2
  <1>11. SubSeq(f, 2, Len(f) - 1) = e
    <2>1. SubSeq(f, 1 + 1, 1 + Len(e)) = e
      BY <1>5, <1>9, <1>10, SliceIs
    <2>2. 1 + 1 = 2 /\ 1 + Len(e) = Len(f) - 1
      BY <1>5, <1>9
    <2> QED
      BY <2>1, <2>2
  <1>12. ASSUME NEW i \in 1 .. Len(f) PROVE f[i] = 126 <=> i \in {1, Len(f)}
    <2>1. CASE i = 1
      BY <1>10, <2>1
    <2>2. CASE i = Len(f)
      <3>1. 1 + n + 1 = Len(f)
        BY <1>9
      <3> QED
        BY <1>9, <2>2, <3>1
    <2>3. CASE i # 1 /\ i # Len(f)
      <3>1. PICK k \in 1 .. n : i = 1 + k
        <4>1. i - 1 \in 1 .. n /\ i = 1 + (i - 1)
          BY <1>9, <2>3
        <4> QED
          BY <4>1
      <3>2. f[i] = e[k]
        BY <1>10, <3>1
      <3>3. e[k] # 126
        BY <1>3, <1>5
      <3> QED
        BY <2>3, <3>2, <3>3
    <2> QED
      BY <2>1, <2>2, <2>3
  <1>13. Wrapped(f, c)
    <2>1. f \in Seq(Byte) /\ Len(f) >= 2
      BY <1>9
    <2>2. Append(c, XorChecksum(c)) = b
      BY <1>1, <1>2
    <2>3. e \in Seq(Byte) /\ ~ J!Malformed(e) /\ J!Unescape(e) = Append(c, XorChecksum(c))
      BY <1>3, <2>2
    <2> QED
      BY <1>11, <1>12, <2>1, <2>3 DEF Wrapped
  <1>14. f = <<126>> \o J!Escape(Append(c, J!XorChecksum(c))) \o <<126>>
    BY <1>1, <1>2, <1>3, <1>4 DEF f, f1
  <1> QED
    BY <1>13, <1>14

(* The zeros in front of the digits of a sender are taken off again.       *)
Sender(digits) == digits \in Seq(0 .. 9) /\ Len(digits) \in 1 .. 12 /\ digits[1] # 0

(* The digits of a terminal are read without the zeros before them.        *)
LEMMA TerminalIs ==
    ASSUME NEW digits, Sender(digits)
    PROVE  J!Terminal(BcdEncode(digits, 6)) = digits
  <1>1. PICK n \in 1 .. 12 : n = Len(digits)
    BY DEF Sender
  <1>2. \A i \in 1 .. n : digits[i] \in 0 .. 9
    BY <1>1, ElementOfSeq DEF Sender
  <1>21. PICK d : d = [k \in 1 .. 12 |-> BcdDigit(digits, 6, k)]
    OBVIOUS
  <1>3. J!Digits(BcdEncode(digits, 6)) = d
    <2>1. 6 \in Nat /\ 2 * 6 = 12
      OBVIOUS
    <2>2. Digits(BcdEncode(digits, 6)) = [k \in 1 .. 2 * 6 |-> BcdDigit(digits, 6, k)]
      BY <2>1, BcdIs DEF Sender
    <2>3. J!Digits(BcdEncode(digits, 6)) = Digits(BcdEncode(digits, 6))
      BY DEF J!Digits, Digits
    <2> QED
      BY <1>21, <2>1, <2>2, <2>3
  <1>4. \A k \in 1 .. 12 : d[k] = IF n - 12 + k >= 1 THEN digits[n - 12 + k] ELSE 0
    <2>1. 2 * 6 = 12
      OBVIOUS
    <2> QED
      BY <1>1, <1>21, <2>1 DEF BcdDigit
  <1>45. d = [k \in 1 .. 12 |-> d[k]]
    BY <1>21
  <1>46. PICK first \in 1 .. 12 : first = 13 - n
    OBVIOUS
  <1>5. \A k \in 1 .. 12 : d[k] \in 0 .. 9
    <2> SUFFICES ASSUME NEW k \in 1 .. 12 PROVE d[k] \in 0 .. 9
      OBVIOUS
    <2>1. CASE n - 12 + k >= 1
      <3>1. n - 12 + k \in 1 .. n
        BY <2>1
      <3> QED
        BY <1>2, <1>4, <2>1, <3>1
    <2>2. CASE ~ (n - 12 + k >= 1)
      BY <1>4, <2>2
    <2> QED
      BY <2>1, <2>2
  <1>6. d \in Seq(Byte) /\ Len(d) = 12
    <2>1. \A k \in 1 .. 12 : d[k] \in Byte
      BY <1>5 DEF Byte
    <2>2. d \in [1 .. 12 -> Byte]
      BY <1>45, <2>1
    <2>3. 12 \in Nat
      OBVIOUS
    <2> QED
      BY <2>2, <2>3, TupleIs
  <1>7. digits \in Seq(Byte)
    <2>1. 0 .. 9 \subseteq Byte
      BY DEF Byte
    <2>2. digits \in [1 .. n -> Byte] /\ n \in Nat
      <3>1. digits \in [1 .. n -> 0 .. 9]
        BY <1>1, LenProperties, <1>2 DEF Sender
      <3> QED
        BY <2>1, <3>1
    <2> QED
      BY <2>2, TupleIs
  <1>8. first \in 1 .. 12 /\ d[first] # 0 /\ \A k \in 1 .. 12 : d[k] # 0 => first <= k
    <2>1. first \in 1 .. 12 /\ n - 12 + first = 1
      BY <1>46
    <2>2. d[first] = digits[1]
      BY <1>4, <2>1
    <2>3. \A k \in 1 .. 12 : d[k] # 0 => first <= k
      BY <1>4, <1>46
    <2>4. digits[1] # 0
      BY DEF Sender
    <2> QED
      BY <2>1, <2>2, <2>3, <2>4
  <1>9. SubSeq(d, first, 12) = digits
    <2>1. PICK z \in Nat : z = 12 - n
      <3>1. 12 - n \in Nat
        OBVIOUS
      <3> QED
        BY <3>1
    <2>2. z + Len(digits) <= Len(d) /\ \A i \in 1 .. Len(digits) : d[z + i] = digits[i]
      <3>1. ASSUME NEW i \in 1 .. n PROVE d[z + i] = digits[i]
        <4>1. PICK k \in 1 .. 12 : k = z + i /\ n - 12 + k = i
          <5>1. z + i \in 1 .. 12 /\ n - 12 + (z + i) = i
            BY <2>1
          <5> QED
            BY <5>1
        <4>2. d[k] = digits[i]
          BY <1>4, <4>1
        <4> QED
          BY <4>1, <4>2
      <3>2. z + n <= 12
        BY <2>1
      <3> QED
        BY <1>1, <1>6, <3>1, <3>2
    <2>3. SubSeq(d, z + 1, z + Len(digits)) = digits
      BY <1>6, <1>7, <2>2, SliceIs
    <2>4. z + 1 = first /\ z + Len(digits) = 12
      BY <1>1, <1>46, <2>1
    <2> QED
      BY <2>3, <2>4
  <1> DEFINE real == {k \in 1 .. 12 : d[k] # 0}
  <1>10. (CHOOSE k \in real : \A j \in real : k <= j) = first
    <2>1. first \in real /\ \A j \in real : first <= j
      BY <1>8
    <2>2. \A k \in real : (\A j \in real : k <= j) => k = first
      BY <2>1
    <2> HIDE DEF real
    <2> QED
      BY <2>1, <2>2
  <1>11. real # {}
    BY <1>8
  <1>12. J!Terminal(BcdEncode(digits, 6)) = SubSeq(d, first, 12)
    <2> DEFINE Real(s) == {k \in 1 .. Len(s) : s[k] # 0}
               Cut(s) == IF Real(s) = {} THEN s
                         ELSE SubSeq(s, CHOOSE k \in Real(s) : \A j \in Real(s) : k <= j, Len(s))
    <2>1. J!Terminal(BcdEncode(digits, 6)) = Cut(J!Digits(BcdEncode(digits, 6)))
      BY DEF J!Terminal
    <2>2. Real(d) = real
      BY <1>6
    <2> HIDE DEF real, Real
    <2>3. Cut(d) = SubSeq(d, first, 12)
      BY <1>6, <1>10, <1>11, <2>2
    <2> HIDE DEF Cut
    <2> QED
      BY <1>3, <2>1, <2>3
  <1> QED
    BY <1>9, <1>12

(* What decode gives of a frame with that content.                         *)
JContent(id, body) == IF id = J!LocationMsg THEN J!Single(body)
                      ELSE IF id = J!LocationBatch THEN J!Batch(body) ELSE J!Nothing

(* What is read of a frame is what was meant.                              *)
JReads(got, id, digits, body, serial) ==
    /\ got.id = id /\ got.serial = serial /\ got.from = digits /\ got.terminalBytes = 6
    /\ got.errors = JContent(id, body).errors
    /\ got.positions = JContent(id, body).positions

(* A frame is read as its content.                                         *)
LEMMA Jt808DecodeIs ==
    ASSUME NEW f, NEW c, Wrapped(f, c),
           NEW id \in TwoBytes, NEW digits, Sender(digits),
           NEW body \in Seq(Byte), Len(body) < 1024, NEW serial \in TwoBytes,
           IsContent(c, id, digits, body, serial)
    PROVE  JReads(J!Decode(f), id, digits, body, serial)
  <1>1. PICK n \in Nat : n = Len(body) /\ n < 1024
    BY LenProperties
  <1>2. c \in Seq(Byte) /\ Len(c) = 12 + n
    BY <1>1 DEF IsContent
  <1>3. PICK sum \in Byte : sum = J!XorChecksum(c) /\ sum = XorChecksum(c)
    BY <1>2, XorSumTyped
  <1> DEFINE inner == SubSeq(f, 2, Len(f) - 1)
             data == Append(c, sum)
  <1>4. J!Unescape(inner) = data /\ ~ J!Malformed(inner)
    BY <1>3 DEF Wrapped
  <1>5. Len(data) = 13 + n /\ data[13 + n] = sum
    <2>1. Len(data) = Len(c) + 1 /\ data[Len(c) + 1] = sum
      BY <1>2, AppendProperties
    <2>2. Len(c) + 1 = 13 + n
      BY <1>2
    <2> HIDE DEF data
    <2> QED
      BY <2>1, <2>2
  <1>6. SubSeq(data, 1, Len(data) - 1) = c
    <2>1. data \in Seq(Byte) /\ \A i \in 1 .. Len(c) : data[i] = c[i]
      BY <1>2, AppendProperties
    <2> HIDE DEF data
    <2>2. 0 \in Nat /\ 0 + Len(c) <= Len(data) /\ \A i \in 1 .. Len(c) : data[0 + i] = c[i]
      <3>1. \A i \in 1 .. Len(c) : 0 + i = i
        BY <1>2
      <3> QED
        BY <1>2, <1>5, <2>1, <3>1
    <2>3. SubSeq(data, 0 + 1, 0 + Len(c)) = c
      BY <1>2, <2>1, <2>2, SliceIs
    <2>4. 0 + 1 = 1 /\ 0 + Len(c) = Len(data) - 1
      BY <1>2, <1>5
    <2> QED
      BY <2>3, <2>4
  <1> HIDE DEF data, inner
  <1>7. /\ J!Word(c, 1) = id /\ J!Word(c, 3) = n /\ J!Word(c, 11) = serial
        /\ J!Part(c, 5, 6) = BcdEncode(digits, 6)
        /\ SubSeq(c, 13, Len(c)) = body
    <2>1. \A i : J!Word(c, i) = Word(c, i)
      BY DEF J!Word, Word
    <2>2. J!Part(c, 5, 6) = Part(c, 5, 6)
      BY DEF J!Part, Part
    <2> QED
      BY <1>1, <2>1, <2>2 DEF IsContent
  <1>8. J!Bit(n, 14) = FALSE /\ J!Bit(n, 13) = FALSE /\ (n \div 1024) % 8 = 0 /\ n % 1024 = n
    <2>1. J!Weights[14 + 1] = 16384 /\ J!Weights[13 + 1] = 8192
      BY DEF J!Weights
    <2>2. n \div 16384 = 0 /\ n \div 8192 = 0 /\ n \div 1024 = 0 /\ n % 1024 = n
      BY <1>1
    <2>3. J!Bit(n, 14) = FALSE
      BY <2>1, <2>2 DEF J!Bit
    <2>4. J!Bit(n, 13) = FALSE
      BY <2>1, <2>2 DEF J!Bit
    <2> QED
      BY <2>2, <2>3, <2>4
  <1>9. J!Terminal(BcdEncode(digits, 6)) = digits
    BY TerminalIs
  <1>10. J!HeaderErrors(inner, c, 12, n) = {}
    <2>1. J!Unescape(inner)[Len(c) + 1] = sum
      <3>1. Len(c) + 1 = 13 + n
        BY <1>2
      <3> QED
        BY <1>4, <1>5, <3>1
    <2>2. Len(c) - 12 = n % 1024
      BY <1>2, <1>8
    <2> QED
      BY <1>3, <1>4, <1>8, <2>1, <2>2 DEF J!HeaderErrors
  <1> DEFINE content == JContent(id, body)
  <1>11. J!Decode(f) =
           [type |-> IF id \in DOMAIN J!Names THEN J!Names[id] ELSE "desconocido",
            errors |-> {} \cup content.errors,
            from |-> digits, serial |-> serial, id |-> id, terminalBytes |-> 6,
            positions |-> content.positions, alarm |-> content.alarm]
    <2>1. ~ (Len(data) < 13) /\ ~ (Len(c) < 12)
      BY <1>1, <1>2, <1>5
    <2>2. content = IF id = J!LocationMsg THEN J!Single(body)
                    ELSE IF id = J!LocationBatch THEN J!Batch(body) ELSE J!Nothing
      BY DEF JContent
    <2> HIDE DEF content
    <2> DEFINE Final(i, d, all, attrs, bytes, at, head, told, has) ==
                 IF Len(d) < 13 THEN J!Unread("invalido")
                 ELSE IF Len(all) < head THEN J!Unread("excepcion")
                 ELSE [type |-> IF (attrs \div 1024) % 8 # 0 THEN "cifrado"
                                ELSE IF told \in DOMAIN J!Names THEN J!Names[told] ELSE "desconocido",
                       errors |-> J!HeaderErrors(i, all, head, attrs) \cup has.errors,
                       from |-> J!Terminal(J!Part(all, at, bytes)),
                       serial |-> J!Word(all, at + bytes), id |-> told,
                       terminalBytes |-> bytes, positions |-> has.positions, alarm |-> has.alarm]
               Placed(i, d, all, attrs, bytes, at, head) ==
                 Final(i, d, all, attrs, bytes, at, head, J!Word(all, 1),
                       IF (attrs \div 1024) % 8 # 0 THEN J!Nothing
                       ELSE IF J!Word(all, 1) = J!LocationMsg THEN J!Single(SubSeq(all, head + 1, Len(all)))
                       ELSE IF J!Word(all, 1) = J!LocationBatch THEN J!Batch(SubSeq(all, head + 1, Len(all)))
                       ELSE J!Nothing)
               Headed(i, d, all, attrs) ==
                 Placed(i, d, all, attrs, IF J!Bit(attrs, 14) THEN 10 ELSE 6,
                        IF J!Bit(attrs, 14) THEN 6 ELSE 5,
                        (IF J!Bit(attrs, 14) THEN 6 ELSE 5) + (IF J!Bit(attrs, 14) THEN 10 ELSE 6) + 1
                          + (IF J!Bit(attrs, 13) THEN 4 ELSE 0))
               Summed(i, d, all) == Headed(i, d, all, J!Word(all, 3))
               Inside(i, d) == Summed(i, d, SubSeq(d, 1, Len(d) - 1))
    <2>3. J!Decode(f) = Inside(inner, J!Unescape(inner))
      BY DEF J!Decode, inner
    <2>4. Final(inner, data, c, n, 6, 5, 12, id, content) =
            [type |-> IF id \in DOMAIN J!Names THEN J!Names[id] ELSE "desconocido",
             errors |-> {} \cup content.errors,
             from |-> digits, serial |-> serial, id |-> id, terminalBytes |-> 6,
             positions |-> content.positions, alarm |-> content.alarm]
      <3>1. 5 + 6 = 11
        OBVIOUS
      <3>2. ~ ((n \div 1024) % 8 # 0)
        BY <1>8
      <3>3. Final(inner, data, c, n, 6, 5, 12, id, content) =
              [type |-> IF id \in DOMAIN J!Names THEN J!Names[id] ELSE "desconocido",
               errors |-> J!HeaderErrors(inner, c, 12, n) \cup content.errors,
               from |-> J!Terminal(J!Part(c, 5, 6)), serial |-> J!Word(c, 5 + 6), id |-> id,
               terminalBytes |-> 6,
               positions |-> content.positions, alarm |-> content.alarm]
        <4> HIDE DEF content
        <4> QED
          BY ZenonT(30), <2>1, <3>2
      <3> HIDE DEF Final, content
      <3> QED
        BY <1>7, <1>9, <1>10, <3>1, <3>3
    <2> HIDE DEF Final
    <2>5. Placed(inner, data, c, n, 6, 5, 12) = Final(inner, data, c, n, 6, 5, 12, id, content)
      <3> DEFINE parts == (n \div 1024) % 8 # 0
      <3>1. ~ parts
        BY <1>8
      <3>2. J!Word(c, 1) = id /\ SubSeq(c, 12 + 1, Len(c)) = body
        BY <1>7
      <3> HIDE DEF parts
      <3>3. content = (IF parts THEN J!Nothing
                       ELSE IF J!Word(c, 1) = J!LocationMsg THEN J!Single(SubSeq(c, 12 + 1, Len(c)))
                       ELSE IF J!Word(c, 1) = J!LocationBatch THEN J!Batch(SubSeq(c, 12 + 1, Len(c)))
                       ELSE J!Nothing)
        BY <2>2, <3>1, <3>2
      <3> QED
        BY <3>2, <3>3 DEF parts
    <2> HIDE DEF Placed
    <2>6. Headed(inner, data, c, n) = Placed(inner, data, c, n, 6, 5, 12)
      <3>1. 5 + 6 + 1 + 0 = 12
        OBVIOUS
      <3> QED
        BY <1>8, <3>1
    <2> HIDE DEF Headed
    <2>7. Inside(inner, data) = Headed(inner, data, c, n)
      BY <1>6, <1>7
    <2> HIDE DEF Inside
    <2> QED
      BY <1>4, <2>3, <2>4, <2>5, <2>6, <2>7
  <1> QED
    BY <1>11 DEF JReads

(* p holds x behind its first at bytes; what is appended leaves it there.  *)
Holds(p, at, x) ==
    /\ p \in Seq(Byte) /\ x \in Seq(Byte) /\ at \in Nat /\ at + Len(x) <= Len(p)
    /\ \A j \in 1 .. Len(x) : p[at + j] = x[j]

(* q is p with s behind it, and holds what p holds.                        *)
Extends(q, p, s) ==
    /\ q \in Seq(Byte) /\ Len(q) = Len(p) + Len(s)
    /\ Holds(q, Len(p), s)
    /\ \A at, x : Holds(p, at, x) => Holds(q, at, x)

(* So is what is joined.                                                   *)
LEMMA ExtendsIs ==
    ASSUME NEW p \in Seq(Byte), NEW s \in Seq(Byte)
    PROVE  Extends(p \o s, p, s)
  <1>1. PICK n \in Nat, k \in Nat : n = Len(p) /\ k = Len(s)
    BY LenProperties
  <1>2. PICK q : q = p \o s
    OBVIOUS
  <1>3. Glued(q, p, s)
    BY <1>2, ConcatIs
  <1>4. /\ q \in Seq(Byte) /\ Len(q) = n + k
        /\ \A i \in 1 .. n : q[i] = p[i]
        /\ \A i \in 1 .. k : q[n + i] = s[i]
    BY <1>1, <1>3 DEF Glued
  <1>5. Holds(q, n, s)
    <2>1. q \in Seq(Byte) /\ n \in Nat /\ n + Len(s) <= Len(q)
      BY <1>1, <1>4
    <2>2. \A i \in 1 .. Len(s) : q[n + i] = s[i]
      BY <1>1, <1>4
    <2> QED
      BY <2>1, <2>2 DEF Holds
  <1>6. ASSUME NEW at, NEW x, Holds(p, at, x) PROVE Holds(q, at, x)
    <2>1. PICK l \in Nat : l = Len(x)
      BY <1>6, LenProperties DEF Holds
    <2>2. x \in Seq(Byte) /\ at \in Nat /\ at + l <= n /\ \A j \in 1 .. l : p[at + j] = x[j]
      BY <1>1, <1>6, <2>1 DEF Holds
    <2>3. ASSUME NEW j \in 1 .. l PROVE q[at + j] = x[j]
      <3>1. at + j \in 1 .. n
        BY <2>2
      <3>2. q[at + j] = p[at + j]
        BY <1>4, <3>1
      <3> QED
        BY <2>2, <3>2
    <2>4. at + l <= n + k
      BY <2>2
    <2> QED
      BY <1>4, <2>1, <2>2, <2>3, <2>4 DEF Holds
  <1> QED
    BY <1>1, <1>2, <1>4, <1>5, <1>6 DEF Extends

(* What is held is cut out again.                                          *)
LEMMA HeldIsCut ==
    ASSUME NEW p, NEW at, NEW x, Holds(p, at, x)
    PROVE  SubSeq(p, at + 1, at + Len(x)) = x
  BY SliceIs DEF Holds

(* A frame that is built is read.                                          *)
LEMMA BuildIs ==
    ASSUME NEW id \in TwoBytes, NEW digits, Sender(digits),
           NEW body \in Seq(Byte), Len(body) < 1024, NEW serial \in TwoBytes
    PROVE  \E c : /\ Wrapped(J!BuildFrame(id, digits, body, serial, 6), c)
                  /\ IsContent(c, id, digits, body, serial)
  <1>1. PICK c : c = WordBytes(id) \o WordBytes(Len(body) % 1024) \o BcdEncode(digits, 6)
                       \o WordBytes(serial) \o body
    OBVIOUS
  <1>2. IsContent(c, id, digits, body, serial)
    <2>1. digits \in Seq(0 .. 9)
      BY DEF Sender
    <2> QED
      BY <1>1, <2>1, ContentIs
  <1>3. c \in Seq(Byte)
    BY <1>2 DEF IsContent
  <1>4. Wrapped(<<126>> \o J!Escape(Append(c, J!XorChecksum(c))) \o <<126>>, c)
    BY <1>3, WrappedIs
  <1>5. J!BuildFrame(id, digits, body, serial, 6)
          = <<126>> \o J!Escape(Append(c, J!XorChecksum(c))) \o <<126>>
    <2>1. \A n : J!WordBytes(n) = WordBytes(n)
      BY DEF J!WordBytes, WordBytes
    <2>2. J!BcdEncode(digits, 6) = BcdEncode(digits, 6)
      BY DEF J!BcdEncode, BcdEncode
    <2> QED
      BY <1>1, <2>1, <2>2 DEF J!BuildFrame, J!Delimiter
  <1> QED
    BY <1>2, <1>4, <1>5

(* A frame that was built is read as it was meant.                         *)
LEMMA Jt808Reads ==
    ASSUME NEW id \in TwoBytes, NEW digits, Sender(digits),
           NEW body \in Seq(Byte), Len(body) < 1024, NEW serial \in TwoBytes
    PROVE  JReads(J!Decode(J!BuildFrame(id, digits, body, serial, 6)), id, digits, body, serial)
  <1>1. PICK c : /\ Wrapped(J!BuildFrame(id, digits, body, serial, 6), c)
                 /\ IsContent(c, id, digits, body, serial)
    BY BuildIs
  <1> QED
    BY <1>1, Jt808DecodeIs

-----------------------------------------------------------------------------
(* The body of a fix of JT808.                                             *)

(* The pieces of the body and where each is.                               *)
Jt808Flags(fix) == 1 + 2 * Bits(<<fix.fixed, fix.lat < 0, fix.lon < 0>>)

(* A date in BCD.                                                          *)
BcdTime(time) == [k \in 1 .. 6 |-> 16 * (time[k] \div 10) + (time[k] % 10)]

(* A position of JT808 that is not cut.                                    *)
Whole808(fix) ==
    <<0, 0, 0, 0, 0, 0, 0, Jt808Flags(fix)>>
      \o LongBytes(Abs(fix.lat) * 5) \o LongBytes(Abs(fix.lon) * 5)
      \o WordBytes(1920) \o WordBytes(fix.speed * 10) \o WordBytes(fix.course)
      \o BcdTime(fix.time) \o <<49, 1, fix.satellites, 48, 1, 28>>

(* Where each part of it is.                                               *)
FixBlock(b, fix) ==
    /\ b \in Seq(Byte) /\ Len(b) = 34
    /\ b[8] = Jt808Flags(fix)
    /\ Holds(b, 8, LongBytes(Abs(fix.lat) * 5)) /\ Holds(b, 12, LongBytes(Abs(fix.lon) * 5))
    /\ 256 * b[19] + b[20] = fix.speed * 10 /\ 256 * b[21] + b[22] = fix.course
    /\ Holds(b, 22, BcdTime(fix.time))
    /\ b[29] = 49 /\ b[30] = 1 /\ b[31] = fix.satellites /\ b[32] = 48 /\ b[33] = 1

(* What a fix is written in fits in bytes, and its date is read back from  *)
(* BCD.                                                                    *)
LEMMA FixBytes ==
    ASSUME NEW fix \in Fix
    PROVE  /\ Jt808Flags(fix) \in 1 .. 15
           /\ fix.speed * 10 \in TwoBytes /\ fix.course \in TwoBytes
           /\ BcdTime(fix.time) \in Seq(Byte) /\ Len(BcdTime(fix.time)) = 6
           /\ \A k \in 1 .. 6 : /\ BcdTime(fix.time)[k] \div 16 = fix.time[k] \div 10
                                /\ BcdTime(fix.time)[k] % 16 = fix.time[k] % 10
                                /\ fix.time[k] \div 10 \in 0 .. 9 /\ fix.time[k] % 10 \in 0 .. 9
                                /\ 10 * (fix.time[k] \div 10) + (fix.time[k] % 10) = fix.time[k]
  <1>1. Jt808Flags(fix) \in 1 .. 15
    <2>1. Bits(<<fix.fixed, fix.lat < 0, fix.lon < 0>>) \in 0 .. 7
      BY DEF Bits
    <2> DEFINE bits == Bits(<<fix.fixed, fix.lat < 0, fix.lon < 0>>)
    <2> HIDE DEF bits
    <2>2. PICK x \in 0 .. 7 : x = bits
      BY <2>1 DEF bits
    <2> QED
      BY <2>2 DEF Jt808Flags, bits
  <1>2. fix.speed * 10 \in TwoBytes /\ fix.course \in TwoBytes
    <2>0. fix.speed \in Byte /\ fix.course \in 0 .. 360
      BY CourseIs
    <2>1. ASSUME NEW s \in Byte PROVE s * 10 \in TwoBytes
      BY SMT DEF Byte, TwoBytes
    <2>2. ASSUME NEW c \in 0 .. 360 PROVE c \in TwoBytes
      BY SMT DEF TwoBytes
    <2> QED
      BY <2>0, <2>1, <2>2
  <1>3. ASSUME NEW k \in 1 .. 6
        PROVE  /\ BcdTime(fix.time)[k] \in Byte
               /\ BcdTime(fix.time)[k] \div 16 = fix.time[k] \div 10
               /\ BcdTime(fix.time)[k] % 16 = fix.time[k] % 10
               /\ fix.time[k] \div 10 \in 0 .. 9 /\ fix.time[k] % 10 \in 0 .. 9
               /\ 10 * (fix.time[k] \div 10) + (fix.time[k] % 10) = fix.time[k]
    <2>0. fix.time \in [1 .. 6 -> 0 .. 99]
      BY DEF Fix, Dates
    <2>1. PICK t \in 0 .. 99 : t = fix.time[k]
      BY <2>0
    <2>2. PICK q \in 0 .. 9, r \in 0 .. 9 : q = t \div 10 /\ r = t % 10 /\ 10 * q + r = t
      <3>1. t \div 10 \in 0 .. 9 /\ t % 10 \in 0 .. 9 /\ 10 * (t \div 10) + (t % 10) = t
        OBVIOUS
      <3> QED
        BY <3>1
    <2>3. BcdTime(fix.time)[k] = 16 * q + r
      BY <2>1, <2>2 DEF BcdTime
    <2>4. 16 * q + r \in Byte /\ (16 * q + r) \div 16 = q /\ (16 * q + r) % 16 = r
      BY DEF Byte
    <2> QED
      BY <2>1, <2>2, <2>3, <2>4
  <1>4. BcdTime(fix.time) \in Seq(Byte) /\ Len(BcdTime(fix.time)) = 6
    <2>1. BcdTime(fix.time) = [k \in 1 .. 6 |-> BcdTime(fix.time)[k]]
      BY DEF BcdTime
    <2>2. BcdTime(fix.time) \in [1 .. 6 -> Byte]
      BY <1>3, <2>1
    <2>3. 6 \in Nat
      OBVIOUS
    <2> QED
      BY <2>2, <2>3, TupleIs
  <1> QED
    BY <1>1, <1>2, <1>3, <1>4

(* A position is laid out so.                                              *)
LEMMA FixBlockIs ==
    ASSUME NEW fix \in Fix
    PROVE  FixBlock(Whole808(fix), fix)
  <1> DEFINE z == <<0, 0, 0, 0, 0, 0, 0, Jt808Flags(fix)>>
             a == LongBytes(Abs(fix.lat) * 5)
             o == LongBytes(Abs(fix.lon) * 5)
             h == WordBytes(1920)
             v == WordBytes(fix.speed * 10)
             c == WordBytes(fix.course)
             t == BcdTime(fix.time)
             x == <<49, 1, fix.satellites, 48, 1, 28>>
             p1 == z \o a
             p2 == p1 \o o
             p3 == p2 \o h
             p4 == p3 \o v
             p5 == p4 \o c
             p6 == p5 \o t
             p == p6 \o x
  <1>1. z \in Seq(Byte) /\ Len(z) = 8 /\ z[8] = Jt808Flags(fix)
    <2>0. Jt808Flags(fix) \in 1 .. 15
      BY FixBytes
    <2>1. PICK y \in Byte : y = Jt808Flags(fix)
      BY <2>0 DEF Byte
    <2>2. 0 \in Byte
      BY DEF Byte
    <2> QED
      BY <2>1, <2>2
  <1>2. a \in Seq(Byte) /\ Len(a) = 4 /\ o \in Seq(Byte) /\ Len(o) = 4
    BY FixIs, LongIs
  <1>3. /\ h \in Seq(Byte) /\ Len(h) = 2
        /\ v \in Seq(Byte) /\ Len(v) = 2 /\ 256 * v[1] + v[2] = fix.speed * 10
        /\ c \in Seq(Byte) /\ Len(c) = 2 /\ 256 * c[1] + c[2] = fix.course
    <2>1. 1920 \in TwoBytes
      BY DEF TwoBytes
    <2> QED
      BY <2>1, FixBytes, WordIs
  <1>4. t \in Seq(Byte) /\ Len(t) = 6
    BY FixBytes
  <1>5. /\ x \in Seq(Byte) /\ Len(x) = 6
        /\ x[1] = 49 /\ x[2] = 1 /\ x[3] = fix.satellites /\ x[4] = 48 /\ x[5] = 1
    <2>0. fix.satellites \in 0 .. 15
      BY FixIs
    <2>1. PICK y \in Byte : y = fix.satellites
      BY <2>0 DEF Byte
    <2>2. 49 \in Byte /\ 1 \in Byte /\ 48 \in Byte /\ 28 \in Byte
      BY DEF Byte
    <2> QED
      BY <2>1, <2>2
  <1>6. Whole808(fix) = p
    BY DEF Whole808
  <1> HIDE DEF z, a, o, h, v, c, t, x
  <1>11. p1 \in Seq(Byte) /\ Len(p1) = 12 /\ Holds(p1, 8, a)
    <2>1. Extends(p1, z, a)
      BY <1>1, <1>2, ExtendsIs
    <2> HIDE DEF p1
    <2> QED
      BY <1>1, <1>2, <2>1 DEF Extends
  <1>12. p1[8] = z[8]
    <2>1. Glued(p1, z, a)
      BY <1>1, <1>2, ConcatIs
    <2> QED
      BY <1>1, <2>1 DEF Glued
  <1> HIDE DEF p1
  <1>21. p2 \in Seq(Byte) /\ Len(p2) = 16 /\ Holds(p2, 12, o) /\ Holds(p2, 8, a)
    <2>1. Extends(p2, p1, o)
      BY <1>2, <1>11, ExtendsIs
    <2> HIDE DEF p2
    <2> QED
      BY <1>2, <1>11, <2>1 DEF Extends
  <1>22. p2[8] = z[8]
    <2>1. Glued(p2, p1, o)
      BY <1>2, <1>11, ConcatIs
    <2> QED
      BY <1>11, <1>12, <2>1 DEF Glued
  <1> HIDE DEF p2
  <1>31. p3 \in Seq(Byte) /\ Len(p3) = 18 /\ Holds(p3, 12, o) /\ Holds(p3, 8, a)
    <2>1. Extends(p3, p2, h)
      BY <1>3, <1>21, ExtendsIs
    <2> HIDE DEF p3
    <2> QED
      BY <1>3, <1>21, <2>1 DEF Extends
  <1>32. p3[8] = z[8]
    <2>1. Glued(p3, p2, h)
      BY <1>3, <1>21, ConcatIs
    <2> QED
      BY <1>21, <1>22, <2>1 DEF Glued
  <1> HIDE DEF p3
  <1>41. /\ p4 \in Seq(Byte) /\ Len(p4) = 20
         /\ Holds(p4, 18, v) /\ Holds(p4, 12, o) /\ Holds(p4, 8, a)
    <2>1. Extends(p4, p3, v)
      BY <1>3, <1>31, ExtendsIs
    <2> HIDE DEF p4
    <2> QED
      BY <1>3, <1>31, <2>1 DEF Extends
  <1>42. p4[8] = z[8]
    <2>1. Glued(p4, p3, v)
      BY <1>3, <1>31, ConcatIs
    <2> QED
      BY <1>31, <1>32, <2>1 DEF Glued
  <1> HIDE DEF p4
  <1>51. /\ p5 \in Seq(Byte) /\ Len(p5) = 22
         /\ Holds(p5, 20, c) /\ Holds(p5, 18, v) /\ Holds(p5, 12, o) /\ Holds(p5, 8, a)
    <2>1. Extends(p5, p4, c)
      BY <1>3, <1>41, ExtendsIs
    <2> HIDE DEF p5
    <2> QED
      BY <1>3, <1>41, <2>1 DEF Extends
  <1>52. p5[8] = z[8]
    <2>1. Glued(p5, p4, c)
      BY <1>3, <1>41, ConcatIs
    <2> QED
      BY <1>41, <1>42, <2>1, SMTT(30) DEF Glued
  <1> HIDE DEF p5
  <1>61. /\ p6 \in Seq(Byte) /\ Len(p6) = 28
         /\ Holds(p6, 22, t) /\ Holds(p6, 20, c) /\ Holds(p6, 18, v) /\ Holds(p6, 12, o) /\ Holds(p6, 8, a)
    <2>1. Extends(p6, p5, t)
      BY <1>4, <1>51, ExtendsIs
    <2> HIDE DEF p6
    <2> QED
      BY <1>4, <1>51, <2>1 DEF Extends
  <1>62. p6[8] = z[8]
    <2>1. Glued(p6, p5, t)
      BY <1>4, <1>51, ConcatIs
    <2> QED
      BY SMTT(30), <1>51, <1>52, <2>1 DEF Glued
  <1> HIDE DEF p6
  <1>71. /\ p \in Seq(Byte) /\ Len(p) = 34 /\ Holds(p, 28, x)
         /\ Holds(p, 22, t) /\ Holds(p, 20, c) /\ Holds(p, 18, v) /\ Holds(p, 12, o) /\ Holds(p, 8, a)
    <2>1. Extends(p, p6, x)
      BY <1>5, <1>61, ExtendsIs
    <2> HIDE DEF p
    <2> QED
      BY <1>5, <1>61, <2>1 DEF Extends
  <1>72. p[8] = z[8]
    <2>1. Glued(p, p6, x)
      BY <1>5, <1>61, ConcatIs
    <2>2. 8 \in 1 .. Len(p6)
      BY <1>61
    <2> QED
      BY <1>62, <2>1, <2>2 DEF Glued
  <1> HIDE DEF p
  <1>8. p[19] = v[1] /\ p[20] = v[2] /\ p[21] = c[1] /\ p[22] = c[2]
    <2>1. p[18 + 1] = v[1] /\ p[18 + 2] = v[2]
      BY <1>3, <1>71 DEF Holds
    <2>2. p[20 + 1] = c[1] /\ p[20 + 2] = c[2]
      BY <1>3, <1>71 DEF Holds
    <2> QED
      BY <2>1, <2>2
  <1>9. p[29] = x[1] /\ p[30] = x[2] /\ p[31] = x[3] /\ p[32] = x[4] /\ p[33] = x[5]
    <2>1. \A j \in 1 .. 6 : p[28 + j] = x[j]
      BY <1>5, <1>71 DEF Holds
    <2>2. p[28 + 1] = x[1] /\ p[28 + 2] = x[2] /\ p[28 + 3] = x[3] /\ p[28 + 4] = x[4] /\ p[28 + 5] = x[5]
      BY <2>1
    <2> QED
      BY <2>2
  <1>10. FixBlock(p, fix)
    <2>1. Holds(p, 8, LongBytes(Abs(fix.lat) * 5)) /\ Holds(p, 12, LongBytes(Abs(fix.lon) * 5))
          /\ Holds(p, 22, BcdTime(fix.time))
      BY <1>71 DEF a, o, t
    <2> QED
      BY <1>1, <1>3, <1>5, <1>71, <1>72, <1>8, <1>9, <2>1 DEF FixBlock
  <1> QED
    BY <1>6, <1>10

(* The flags of JT808: fixed, south and west.                              *)
LEMMA Jt808FlagsAre ==
    ASSUME NEW fix \in Fix
    PROVE  /\ Bit(Jt808Flags(fix), 1) <=> fix.fixed
           /\ Bit(Jt808Flags(fix), 2) <=> fix.lat < 0
           /\ Bit(Jt808Flags(fix), 3) <=> fix.lon < 0
  <1>1. fix.fixed \in BOOLEAN
    BY FixIs
  <1> DEFINE fixed == IF fix.fixed THEN 1 ELSE 0
             south == IF fix.lat < 0 THEN 1 ELSE 0
             west == IF fix.lon < 0 THEN 1 ELSE 0
  <1>2. Jt808Flags(fix) = 1 + 2 * (fixed + (IF fix.lat < 0 THEN 2 ELSE 0) + (IF fix.lon < 0 THEN 4 ELSE 0))
    BY DEF Bits, Jt808Flags
  <1>3. /\ (IF fix.lat < 0 THEN 2 ELSE 0) = 2 * south
        /\ (IF fix.lon < 0 THEN 4 ELSE 0) = 4 * west
        /\ fixed \in 0 .. 1 /\ south \in 0 .. 1 /\ west \in 0 .. 1
        /\ (fixed = 1 <=> fix.fixed) /\ (south = 1 <=> fix.lat < 0) /\ (west = 1 <=> fix.lon < 0)
    BY <1>1
  <1> HIDE DEF fixed, south, west
  <1>4. PICK x \in Int : x = Jt808Flags(fix) /\ x = 1 + 2 * (fixed + 2 * south + 4 * west)
    BY <1>2, <1>3
  <1>5. (x \div 2) % 2 = fixed /\ (x \div 4) % 2 = south /\ (x \div 8) % 2 = west
    BY <1>3, <1>4
  <1>6. /\ Bit(x, 1) <=> (x \div 2) % 2 = 1
        /\ Bit(x, 2) <=> (x \div 4) % 2 = 1
        /\ Bit(x, 3) <=> (x \div 8) % 2 = 1
    BY DEF Bit, Weights
  <1> QED
    BY <1>3, <1>4, <1>5, <1>6

(* The point of the body is that of its fix.                               *)
LEMMA Jt808PointSays ==
    ASSUME NEW fix \in Fix, NEW b, FixBlock(b, fix)
    PROVE  /\ J!Point(b) = IF Somewhere(fix) THEN Point(fix, 5) ELSE <<>>
           /\ Somewhere(fix) => ~ J!LongAbove(b, 9, 90000000) /\ ~ J!LongAbove(b, 13, 180000000)
  <1> DEFINE a == Abs(fix.lat) * 5
             o == Abs(fix.lon) * 5
  <1>1. a \in FourBytes /\ o \in FourBytes /\ Abs(fix.lat) \in Nat /\ Abs(fix.lon) \in Nat
        /\ fix.lat \in Int /\ fix.lon \in Int
    BY FixIs
  <1>2. /\ \A j \in 1 .. 4 : b[8 + j] = LongBytes(a)[j]
        /\ \A j \in 1 .. 4 : b[12 + j] = LongBytes(o)[j]
    <2>1. Len(LongBytes(a)) = 4 /\ Len(LongBytes(o)) = 4
      BY <1>1, LongIs
    <2>2. Holds(b, 8, LongBytes(a)) /\ Holds(b, 12, LongBytes(o))
      BY DEF FixBlock
    <2> HIDE DEF a, o
    <2> QED
      BY <2>1, <2>2 DEF Holds
  <1>3. PICK ll \in Nat, lo \in Nat : ll = 90000000 /\ lo = 180000000
    BY SMT
  <1>4. /\ 8 + 1 = 9 /\ 8 + 4 = 12 /\ 12 + 1 = 13 /\ 12 + 4 = 16 /\ 8 \in Nat /\ 12 \in Nat
    OBVIOUS
  <1> DEFINE at == 8
             ot == 12
  <1> HIDE DEF a, o, at, ot
  <1>5. /\ Long(b, 9) = a
        /\ LongAbove(b, 9, ll) <=> a > ll
        /\ (\A j \in 9 .. 12 : b[j] = 0) <=> a = 0
    <2>1. at \in Nat /\ at + 1 = 9 /\ at + 4 = 12 /\ \A j \in 1 .. 4 : b[at + j] = LongBytes(a)[j]
      BY <1>2, <1>4 DEF at
    <2>2. /\ Long(b, at + 1) = a
          /\ LongAbove(b, at + 1, ll) <=> a > ll
          /\ (\A j \in at + 1 .. at + 4 : b[j] = 0) <=> a = 0
      <3>1. LongRead(a, ll, b, at)
        BY <1>1, <2>1, LongIs
      <3> QED
        BY <2>1, <3>1 DEF LongRead
    <2> QED
      BY <2>1, <2>2
  <1>6. /\ Long(b, 13) = o
        /\ LongAbove(b, 13, lo) <=> o > lo
        /\ (\A j \in 13 .. 16 : b[j] = 0) <=> o = 0
    <2>1. ot \in Nat /\ ot + 1 = 13 /\ ot + 4 = 16 /\ \A j \in 1 .. 4 : b[ot + j] = LongBytes(o)[j]
      BY <1>2, <1>4 DEF ot
    <2>2. /\ Long(b, ot + 1) = o
          /\ LongAbove(b, ot + 1, lo) <=> o > lo
          /\ (\A j \in ot + 1 .. ot + 4 : b[j] = 0) <=> o = 0
      <3>1. LongRead(o, lo, b, ot)
        BY <1>1, <2>1, LongIs
      <3> QED
        BY <2>1, <3>1 DEF LongRead
    <2> QED
      BY <2>1, <2>2
  <1>7. (\A j \in 9 .. 16 : b[j] = 0) <=> a = 0 /\ o = 0
    <2>1. \A j \in 9 .. 16 : j \in 9 .. 12 \/ j \in 13 .. 16
      OBVIOUS
    <2>2. \A j \in 9 .. 12 : j \in 9 .. 16
      OBVIOUS
    <2>3. \A j \in 13 .. 16 : j \in 9 .. 16
      OBVIOUS
    <2> QED
      BY <1>5, <1>6, <2>1, <2>2, <2>3
  <1>8. /\ a > ll <=> ~ (Abs(fix.lat) <= Degrees(90))
        /\ o > lo <=> ~ (Abs(fix.lon) <= Degrees(180))
    BY <1>1, <1>3, Limits, SMT DEF a, o
  <1>9. /\ Signed(fix.lat < 0, a) = 5 * fix.lat /\ Signed(fix.lon < 0, o) = 5 * fix.lon
        /\ (a = 0 <=> fix.lat = 0) /\ (o = 0 <=> fix.lon = 0)
    <2>1. 5 \in {5, 9}
      OBVIOUS
    <2> QED
      BY <1>1, <2>1, Signs DEF a, o
  <1>10. /\ Bit(b[8], 1) <=> fix.fixed
         /\ Bit(b[8], 2) <=> fix.lat < 0
         /\ Bit(b[8], 3) <=> fix.lon < 0
    <2>1. b[8] = Jt808Flags(fix)
      BY DEF FixBlock
    <2> QED
      BY <2>1, Jt808FlagsAre
  <1>11. <<fix.lat, fix.lon>> # <<0, 0>> <=> ~ (a = 0 /\ o = 0)
    BY <1>9
  <1>12. Somewhere(fix) <=> ~ (\/ LongAbove(b, 9, ll) \/ LongAbove(b, 13, lo)
                               \/ \A i \in 9 .. 16 : b[i] = 0
                               \/ ~ Bit(b[8], 1))
    BY <1>5, <1>6, <1>7, <1>8, <1>10, <1>11 DEF Somewhere
  <1>13. J!Point(b) = IF \/ LongAbove(b, 9, ll) \/ LongAbove(b, 13, lo)
                         \/ \A i \in 9 .. 16 : b[i] = 0
                         \/ ~ Bit(b[8], 1)
                      THEN <<>>
                      ELSE <<Signed(Bit(b[8], 2), Long(b, 9)), Signed(Bit(b[8], 3), Long(b, 13))>>
    <2>1. /\ J!LongAbove(b, 9, ll) <=> LongAbove(b, 9, ll)
          /\ J!LongAbove(b, 13, lo) <=> LongAbove(b, 13, lo)
          /\ J!Bit(b[8], 2) <=> Bit(b[8], 2)
          /\ J!Bit(b[8], 3) <=> Bit(b[8], 3)
          /\ J!Bit(b[8], 1) <=> Bit(b[8], 1)
          /\ J!Long(b, 9) = Long(b, 9) /\ J!Long(b, 13) = Long(b, 13)
          /\ J!Signed(J!Bit(b[8], 2), Long(b, 9)) = Signed(J!Bit(b[8], 2), Long(b, 9))
          /\ J!Signed(J!Bit(b[8], 3), Long(b, 13)) = Signed(J!Bit(b[8], 3), Long(b, 13))
      BY SameNumbers
    <2> HIDE DEF J!LongAbove, J!Bit, J!Long, J!Signed
    <2>2. J!Point(b) = IF \/ J!LongAbove(b, 9, ll) \/ J!LongAbove(b, 13, lo)
                          \/ \A i \in 9 .. 16 : b[i] = 0
                          \/ ~ J!Bit(b[8], 1)
                       THEN <<>>
                       ELSE <<J!Signed(J!Bit(b[8], 2), J!Long(b, 9)),
                              J!Signed(J!Bit(b[8], 3), J!Long(b, 13))>>
      BY <1>3, SMT DEF J!Point
    <2>3. /\ Signed(J!Bit(b[8], 2), Long(b, 9)) = Signed(Bit(b[8], 2), Long(b, 9))
          /\ Signed(J!Bit(b[8], 3), Long(b, 13)) = Signed(Bit(b[8], 3), Long(b, 13))
      BY <2>1 DEF Signed
    <2> QED
      BY <2>1, <2>2, <2>3
  <1>14. /\ Signed(Bit(b[8], 2), Long(b, 9)) = 5 * fix.lat
         /\ Signed(Bit(b[8], 3), Long(b, 13)) = 5 * fix.lon
    BY <1>5, <1>6, <1>9, <1>10 DEF Signed
  <1>15. J!Point(b) = IF Somewhere(fix) THEN Point(fix, 5) ELSE <<>>
    BY <1>12, <1>13, <1>14 DEF Point
  <1>16. Somewhere(fix) => ~ J!LongAbove(b, 9, ll) /\ ~ J!LongAbove(b, 13, lo)
    BY <1>12, SameNumbers
  <1> QED
    BY <1>3, <1>15, <1>16, SMT

(* The date of the body is that of its fix.                                *)
LEMMA BcdDateSays ==
    ASSUME NEW fix \in Fix
    PROVE  J!BcdDate(BcdTime(fix.time)) = fix.time
  <1> DEFINE b == BcdTime(fix.time)
             d == Digits(b)
  <1>1. Len(b) = 6 /\ 2 * Len(b) = 12
    <2>1. Len(b) = 6
      BY FixBytes
    <2> HIDE DEF b
    <2> QED
      BY <2>1
  <1>2. ASSUME NEW k \in 1 .. 6
        PROVE  /\ b[k] \div 16 = fix.time[k] \div 10 /\ b[k] % 16 = fix.time[k] % 10
               /\ b[k] \div 16 \in 0 .. 9 /\ b[k] % 16 \in 0 .. 9
               /\ 10 * (b[k] \div 16) + (b[k] % 16) = fix.time[k]
    <2> HIDE DEF b
    <2> QED
      BY FixBytes DEF b
  <1> HIDE DEF b
  <1>3. \A k \in 1 .. 12 : d[k] = IF k % 2 = 1 THEN b[(k + 1) \div 2] \div 16 ELSE b[k \div 2] % 16
    BY <1>1 DEF Digits
  <1> HIDE DEF d
  <1>4. ASSUME NEW k \in 1 .. 12 PROVE ~ (d[k] > 9)
    <2>1. CASE k % 2 = 1
      <3>1. PICK j \in 1 .. 6 : j = (k + 1) \div 2
        BY <2>1
      <3> QED
        BY <1>2, <1>3, <2>1, <3>1
    <2>2. CASE k % 2 # 1
      <3>1. PICK j \in 1 .. 6 : j = k \div 2
        BY <2>2
      <3> QED
        BY <1>2, <1>3, <2>2, <3>1
    <2> QED
      BY <2>1, <2>2
  <1>5. ASSUME NEW k \in 1 .. 6 PROVE 10 * d[2 * k - 1] + d[2 * k] = fix.time[k]
    <2>1. PICK i \in 1 .. 12, j \in 1 .. 12 :
            /\ i = 2 * k - 1 /\ j = 2 * k /\ i % 2 = 1 /\ ~ (j % 2 = 1)
            /\ (i + 1) \div 2 = k /\ j \div 2 = k
      <3>1. 2 * k - 1 \in 1 .. 12 /\ 2 * k \in 1 .. 12 /\ (2 * k - 1) % 2 = 1 /\ (2 * k) % 2 = 0
            /\ ((2 * k - 1) + 1) \div 2 = k /\ (2 * k) \div 2 = k
        OBVIOUS
      <3> QED
        BY <3>1
    <2>2. d[i] = b[k] \div 16 /\ d[j] = b[k] % 16
      BY <1>3, <2>1
    <2> QED
      BY <1>2, <2>1, <2>2
  <1>6. [k \in 1 .. 6 |-> 10 * d[2 * k - 1] + d[2 * k]] = fix.time
    <2>1. fix.time \in [1 .. 6 -> 0 .. 99]
      BY DEF Fix, Dates
    <2>2. [k \in 1 .. 6 |-> 10 * d[2 * k - 1] + d[2 * k]] = [k \in 1 .. 6 |-> fix.time[k]]
      BY <1>5
    <2> QED
      BY <2>1, <2>2
  <1>7. J!Digits(b) = d
    BY SameNumbers DEF d
  <1>8. J!BcdDate(b) = J!DateUtc([k \in 1 .. 6 |-> 10 * d[2 * k - 1] + d[2 * k]])
    BY <1>4, <1>7 DEF J!BcdDate
  <1>9. J!DateUtc(fix.time) = fix.time
    BY SameDate, FixIs
  <1> QED
    BY <1>6, <1>8, <1>9 DEF b

(* A turn of decodeExtras leaves what it may be in.                        *)
LEMMA ElementTyped ==
    ASSUME NEW b \in Seq(Byte), NEW e \in J!Elements
    PROVE  J!NextElement(b, e) \in J!Elements
  <1>1. PICK L \in Nat : L = Len(b)
    BY LenProperties
  <1>2. PICK at \in Nat \ {0}, told \in Seq(Byte), cut \in BOOLEAN :
           e = [at |-> at, satellites |-> told, cut |-> cut]
    <2>1. J!Byte = Byte
      BY DEF J!Byte, Byte
    <2> QED
      BY <2>1 DEF J!Elements
  <1>3. \A x \in Nat \ {0}, s \in Seq(Byte), y \in BOOLEAN :
           [at |-> x, satellites |-> s, cut |-> y] \in J!Elements
    <2>1. J!Byte = Byte
      BY DEF J!Byte, Byte
    <2> QED
      BY <2>1 DEF J!Elements
  <1>4. CASE at + 1 > L
    BY <1>1, <1>2, <1>4 DEF J!NextElement
  <1>5. CASE at + 1 <= L
    <2>1. PICK size \in 0 .. 255 : size = b[at + 1]
      <3>1. at + 1 \in 1 .. L
        BY <1>5
      <3>2. b[at + 1] \in Byte
        BY <1>1, <3>1, ElementOfSeq
      <3> QED
        BY <3>2 DEF Byte
    <2>2. CASE at + 1 + size > L
      <3>0. ~ (e.at + 1 > Len(b)) /\ b[e.at + 1] = size /\ e.at + 1 + size > Len(b)
        BY <1>1, <1>2, <1>5, <2>1, <2>2
      <3>3. J!NextElement(b, e) = [e EXCEPT !.at = Len(b), !.cut = TRUE]
        BY <3>0 DEF J!NextElement
      <3>1. J!NextElement(b, e) = [at |-> L, satellites |-> told, cut |-> TRUE]
        BY <1>1, <1>2, <3>3
      <3>2. L \in Nat \ {0}
        BY <1>5
      <3> QED
        BY <1>3, <3>1, <3>2
    <2>3. CASE at + 1 + size <= L
      <3>1. PICK s : s = IF b[at] = 49 /\ size = 1 THEN <<b[at + 2]>> ELSE told
        OBVIOUS
      <3>0. /\ ~ (e.at + 1 > Len(b)) /\ b[e.at + 1] = size /\ ~ (e.at + 1 + size > Len(b))
            /\ e.at = at /\ e.satellites = told /\ e.cut = cut
        BY <1>1, <1>2, <1>5, <2>1, <2>3
      <3>5. J!NextElement(b, e) =
              [e EXCEPT !.at = e.at + 2 + size,
                        !.satellites = IF b[e.at] = 49 /\ size = 1 THEN <<b[e.at + 2]>> ELSE e.satellites]
        BY <3>0 DEF J!NextElement
      <3>2. J!NextElement(b, e) = [at |-> at + 2 + size, satellites |-> s, cut |-> cut]
        BY <1>2, <3>0, <3>1, <3>5
      <3>3. s \in Seq(Byte)
        <4>1. CASE b[at] = 49 /\ size = 1
          <5>1. at + 2 \in 1 .. L
            BY <2>3, <4>1
          <5>2. b[at + 2] \in Byte
            BY <1>1, <5>1, ElementOfSeq
          <5> QED
            BY <3>1, <4>1, <5>2
        <4>2. CASE ~ (b[at] = 49 /\ size = 1)
          BY <3>1, <4>2
        <4> QED
          BY <4>1, <4>2
      <3>4. at + 2 + size \in Nat \ {0}
        OBVIOUS
      <3> QED
        BY <1>3, <3>2, <3>3, <3>4
    <2> QED
      BY <2>2, <2>3
  <1> QED
    BY <1>4, <1>5

(* The elements of the body give its satellites, and none is cut.          *)
LEMMA ExtrasSay ==
    ASSUME NEW fix \in Fix, NEW b, FixBlock(b, fix)
    PROVE  J!Extras(b, 29).satellites = <<fix.satellites>> /\ J!Extras(b, 29).cut = FALSE
  <1>1. /\ b \in Seq(Byte) /\ Len(b) = 34
        /\ b[29] = 49 /\ b[30] = 1 /\ b[31] = fix.satellites /\ b[32] = 48 /\ b[33] = 1
    BY DEF FixBlock
  <1> DEFINE step == [e \in J!Elements |-> [x \in Byte |-> J!NextElement(b, e)]]
             told == [at |-> 32, satellites |-> <<fix.satellites>>, cut |-> FALSE]
             rest == [at |-> 35, satellites |-> <<fix.satellites>>, cut |-> FALSE]
  <1>2. step \in Turns(J!Elements, Byte)
    <2>1. \A e \in J!Elements : J!NextElement(b, e) \in J!Elements
      BY <1>1, ElementTyped
    <2> QED
      BY <2>1 DEF Turns
  <1>3. PICK first \in J!Elements : first = [at |-> 29, satellites |-> <<>>, cut |-> FALSE]
    <2>1. <<>> \in Seq(J!Byte) /\ 29 \in Nat \ {0} /\ FALSE \in BOOLEAN
      OBVIOUS
    <2>2. [at |-> 29, satellites |-> <<>>, cut |-> FALSE] \in J!Elements
      BY <2>1 DEF J!Elements
    <2> QED
      BY <2>2
  <1>4. J!Extras(b, 29) = Loop(step, first, b)
    <2>1. J!Byte = Byte
      BY DEF J!Byte, Byte
    <2>2. J!Extras(b, 29) = J!Loop(step, first, b)
      BY <1>3, <2>1 DEF J!Extras
    <2> QED
      BY <2>2, SameLoop
  <1>5. \A e \in J!Elements, x \in Byte : step[e][x] = J!NextElement(b, e)
    OBVIOUS
  <1> HIDE DEF step
  <1>6. PICK out \in [0 .. Len(b) -> J!Elements] :
           /\ out[0] = first
           /\ \A i \in 1 .. Len(b) : out[i] = step[out[i - 1]][b[i]]
           /\ Loop(step, first, b) = out[Len(b)]
    <2>1. b \in Seq(Byte) /\ step \in Turns(J!Elements, Byte)
      BY <1>1, <1>2
    <2>2. PICK o \in [0 .. Len(b) -> J!Elements] : Looped(o, step, first, b)
      BY <2>1, LoopIs
    <2> QED
      BY <2>2 DEF Looped
  <1>7. ASSUME NEW i \in 1 .. 34 PROVE out[i] = J!NextElement(b, out[i - 1])
    <2>1. i \in 1 .. Len(b) /\ i - 1 \in 0 .. Len(b)
      BY <1>1
    <2>2. b[i] \in Byte /\ out[i - 1] \in J!Elements
      BY <1>1, <1>6, <2>1, ElementOfSeq
    <2> QED
      BY <1>5, <1>6, <2>1, <2>2
  <1>8. J!NextElement(b, first) = told
    <2>1. first.at = 29 /\ first.satellites = <<>> /\ first.cut = FALSE
      BY <1>3
    <2>2. ~ (29 + 1 > Len(b)) /\ b[29 + 1] = 1 /\ ~ (29 + 1 + 1 > Len(b)) /\ 29 + 2 + 1 = 32
          /\ b[29 + 2] = fix.satellites
      BY <1>1
    <2> QED
      BY <1>1, <1>3, <2>1, <2>2 DEF J!NextElement
  <1>9. J!NextElement(b, told) = rest
    <2>1. ~ (32 + 1 > Len(b)) /\ b[32 + 1] = 1 /\ ~ (32 + 1 + 1 > Len(b)) /\ 32 + 2 + 1 = 35 /\ b[32] # 49
      BY <1>1
    <2> QED
      BY <2>1 DEF J!NextElement
  <1>10. J!NextElement(b, rest) = rest
    <2>1. 35 + 1 > Len(b)
      BY <1>1
    <2> QED
      BY <2>1 DEF J!NextElement
  <1> HIDE DEF told, rest
  <1>11. out[2] = rest
    <2>1. 1 \in 1 .. 34 /\ 2 \in 1 .. 34 /\ 1 - 1 = 0 /\ 2 - 1 = 1
      OBVIOUS
    <2>2. out[1] = told
      BY <1>6, <1>7, <1>8, <2>1
    <2> QED
      BY <1>7, <1>9, <2>1, <2>2
  <1> DEFINE K == {i \in 0 .. 34 : i >= 2 => out[i] = rest}
  <1>12. 0 \in K
    OBVIOUS
  <1>13. ASSUME NEW n \in K, n < 34 PROVE n + 1 \in K
    <2>1. n \in 0 .. 34 /\ n < 34 /\ (n >= 2 => out[n] = rest)
      BY <1>13
    <2>2. PICK i \in 1 .. 34 : i = n + 1 /\ i - 1 = n
      BY <2>1
    <2>3. i >= 2 => out[i] = rest
      <3>1. CASE n >= 2
        BY <1>7, <1>10, <2>1, <2>2, <3>1
      <3>2. CASE i = 2
        BY <1>11, <3>2
      <3>3. CASE i < 2
        BY <3>3
      <3> QED
        BY <2>1, <2>2, <3>1, <3>2, <3>3
    <2> QED
      BY <2>2, <2>3
  <1>14. K = 0 .. 34
    <2> HIDE DEF K
    <2>1. K \in SUBSET (0 .. 34) /\ 34 \in Nat
      BY DEF K
    <2> QED
      BY <1>12, <1>13, <2>1, FiniteInduction
  <1>15. out[34] = rest
    <2>1. 34 \in K
      BY <1>14
    <2> QED
      BY <2>1
  <1>16. J!Extras(b, 29) = rest
    <2>1. Loop(step, first, b) = out[34]
      BY <1>1, <1>6
    <2> QED
      BY <1>4, <1>15, <2>1
  <1> QED
    BY <1>16 DEF rest

(* What the decoder makes of the body says the fix.                        *)
LEMMA Jt808PositionSays ==
    ASSUME NEW fix \in Fix, NEW b, FixBlock(b, fix)
    PROVE  /\ SaysFix(J!Position(b), fix, 5, 10)
           /\ Somewhere(fix) => J!Position(b).errors = {}
  <1>1. b \in Seq(Byte) /\ Len(b) = 34
    BY DEF FixBlock
  <1> DEFINE course == J!Word(b, 21)
             time == J!BcdDate(J!Part(b, 23, 6))
             extras == J!Extras(b, 29)
             above == J!LongAbove(b, 9, 90000000) \/ J!LongAbove(b, 13, 180000000)
  <1>2. course = fix.course /\ J!Word(b, 19) = fix.speed * 10
    BY DEF J!Word, FixBlock
  <1>3. time = fix.time /\ time # <<>>
    <2>1. Holds(b, 22, BcdTime(fix.time)) /\ Len(BcdTime(fix.time)) = 6
      BY FixBytes DEF FixBlock
    <2>2. SubSeq(b, 22 + 1, 22 + Len(BcdTime(fix.time))) = BcdTime(fix.time)
      BY <2>1, HeldIsCut
    <2>3. 22 + 1 = 23 /\ 22 + Len(BcdTime(fix.time)) = 23 + 6 - 1
      BY <2>1
    <2>4. J!Part(b, 23, 6) = BcdTime(fix.time)
      BY <2>2, <2>3 DEF J!Part
    <2>5. time = fix.time
      BY <2>4, BcdDateSays
    <2>6. Len(fix.time) # 0
      BY FixIs
    <2> QED
      BY <2>5, <2>6, EmptyIs
  <1>4. /\ J!Point(b) = IF Somewhere(fix) THEN Point(fix, 5) ELSE <<>>
        /\ Somewhere(fix) => ~ above
    BY Jt808PointSays
  <1>5. extras.satellites = <<fix.satellites>> /\ extras.cut = FALSE
    BY ExtrasSay
  <1>6. fix.course \in 0 .. 360 /\ fix.speed \in Nat
    <2>1. fix.course \in 0 .. 360 /\ fix.speed \in Byte
      BY FixIs
    <2> QED
      BY <2>1 DEF Byte
  <1>7. J!Position(b) =
          [point |-> J!Point(b), time |-> time, speed |-> J!Word(b, 19),
           course |-> IF course <= 360 THEN <<course>> ELSE <<>>,
           satellites |-> extras.satellites,
           errors |-> (IF course > 360 THEN {"rumbo"} ELSE {})
                 \cup (IF above THEN {"rango"} ELSE {})
                 \cup (IF time = <<>> THEN {"fecha"} ELSE {})
                 \cup (IF extras.cut THEN {"extra"} ELSE {})]
    <2>1. J!Extras(b, J!BodySize + 1) = extras
      <3>1. J!BodySize + 1 = 29
        BY DEF J!BodySize
      <3> QED
        BY <3>1
    <2> DEFINE Made(e) ==
          [point |-> J!Point(b), time |-> time, speed |-> J!Word(b, 19),
           course |-> IF course <= 360 THEN <<course>> ELSE <<>>,
           satellites |-> e.satellites,
           errors |-> (IF course > 360 THEN {"rumbo"} ELSE {})
                 \cup (IF above THEN {"rango"} ELSE {})
                 \cup (IF time = <<>> THEN {"fecha"} ELSE {})
                 \cup (IF e.cut THEN {"extra"} ELSE {})]
    <2>2. J!Position(b) = Made(J!Extras(b, J!BodySize + 1))
      BY SMT DEF J!Position
    <2>3. Made(extras) = Made(J!Extras(b, J!BodySize + 1))
      <3> HIDE DEF Made, extras
      <3> QED
        BY <2>1
    <2> QED
      BY <2>2, <2>3, SMT
  <1> HIDE DEF course, time, above, extras
  <1>8. /\ J!Position(b).point = J!Point(b) /\ J!Position(b).time = fix.time
        /\ J!Position(b).speed = fix.speed * 10
        /\ J!Position(b).course = <<fix.course>> /\ J!Position(b).satellites = <<fix.satellites>>
        /\ ~ above => J!Position(b).errors = {}
    <2>1. /\ J!Position(b).point = J!Point(b) /\ J!Position(b).time = time
          /\ J!Position(b).speed = J!Word(b, 19)
          /\ J!Position(b).course = IF course <= 360 THEN <<course>> ELSE <<>>
          /\ J!Position(b).satellites = extras.satellites
          /\ J!Position(b).errors = (IF course > 360 THEN {"rumbo"} ELSE {})
                                \cup (IF above THEN {"rango"} ELSE {})
                                \cup (IF time = <<>> THEN {"fecha"} ELSE {})
                                \cup (IF extras.cut THEN {"extra"} ELSE {})
      BY <1>7
    <2> HIDE DEF J!Position
    <2>2. course <= 360 /\ ~ (course > 360)
      BY <1>2, <1>6
    <2> QED
      BY <1>2, <1>3, <1>5, <2>1, <2>2
  <1>9. 10 * fix.speed = fix.speed * 10
    BY <1>6
  <1> QED
    BY <1>4, <1>8, <1>9 DEF SaysFix

(* The body that is sent: whole, or cut to 20 bytes.                       *)
LEMMA Jt808BodyIs ==
    ASSUME NEW fix \in Fix
    PROVE  /\ Jt808Body(fix) \in Seq(Byte)
           /\ Len(Jt808Body(fix)) = IF fix.cut THEN 20 ELSE 34
           /\ ~ fix.cut => FixBlock(Jt808Body(fix), fix)
  <1>1. PICK b : b = Whole808(fix) /\ FixBlock(b, fix)
    BY FixBlockIs
  <1>2. b \in Seq(Byte) /\ Len(b) = 34
    BY <1>1 DEF FixBlock
  <1>3. Jt808Body(fix) = IF fix.cut THEN SubSeq(b, 1, 20) ELSE b
    BY <1>1 DEF Jt808Body, Whole808, Jt808Flags, BcdTime
  <1>4. SubSeq(b, 1, 20) \in Seq(Byte) /\ Len(SubSeq(b, 1, 20)) = 20
    <2>1. PICK x \in 1 .. Len(b) + 1, y \in 0 .. Len(b) : x = 1 /\ y = 20 /\ x <= y + 1 /\ y - x + 1 = 20
      <3>1. 1 \in 1 .. Len(b) + 1 /\ 20 \in 0 .. Len(b) /\ 1 <= 20 + 1 /\ 20 - 1 + 1 = 20
        BY <1>2
      <3> QED
        BY <3>1
    <2>2. SubSeq(b, x, y) \in Seq(Byte) /\ Len(SubSeq(b, x, y)) = y - x + 1
      BY <1>2, <2>1, PartIs
    <2> QED
      BY <2>1, <2>2
  <1> QED
    BY <1>1, <1>2, <1>3, <1>4

(* A sequence of one.                                                      *)
LEMMA OneIs == \A x : Len(<<x>>) = 1 /\ <<x>>[1] = x
  OBVIOUS

(* What the content c of a message of JT808 says of m.                     *)
Content808Says(c, m) ==
    /\ Len(c.positions) = Len(WholeFixes(m))
    /\ \A k \in 1 .. Len(c.positions) : SaysFix(c.positions[k], WholeFixes(m)[k], 5, 10)
    /\ (\A k \in 1 .. Len(m.fixes) : Somewhere(m.fixes[k]) /\ ~m.fixes[k].cut) => c.errors = {}

(* The body of one position says what was meant.                           *)
LEMMA SingleSays ==
    ASSUME NEW m, m.fixes \in Seq(Fix), Len(m.fixes) = 1
    PROVE  Content808Says(J!Single(Jt808Body(m.fixes[1])), m)
  <1>1. PICK fix \in Fix : fix = m.fixes[1]
    <2>1. 1 \in 1 .. Len(m.fixes)
      OBVIOUS
    <2>2. m.fixes[1] \in Fix
      BY <2>1, ElementOfSeq
    <2> QED
      BY <2>2
  <1>2. PICK b : b = Jt808Body(fix)
    OBVIOUS
  <1>3. WholeFixes(m) = IF fix.cut THEN <<>> ELSE <<fix>>
    BY <1>1, WholeOne
  <1>4. 1 \in 1 .. Len(m.fixes)
    OBVIOUS
  <1>5. CASE fix.cut
    <2>1. Len(b) = 20
      BY <1>2, <1>5, Jt808BodyIs
    <2>2. Len(b) < J!BodySize
      BY <2>1 DEF J!BodySize
    <2>3. J!Single(b).positions = <<>>
      BY <2>2 DEF J!Single, J!Nothing
    <2>4. Len(<<>>) = 0
      OBVIOUS
    <2>5. ~ (\A k \in 1 .. Len(m.fixes) : Somewhere(m.fixes[k]) /\ ~m.fixes[k].cut)
      BY <1>1, <1>4, <1>5
    <2>6. WholeFixes(m) = <<>>
      BY <1>3, <1>5
    <2> QED
      BY <1>1, <1>2, <2>3, <2>4, <2>5, <2>6 DEF Content808Says
  <1>6. CASE ~ fix.cut
    <2>1. FixBlock(b, fix)
      BY <1>2, <1>6, Jt808BodyIs
    <2>2. ~ (Len(b) < J!BodySize)
      BY <2>1 DEF FixBlock, J!BodySize
    <2>3. PICK p : p = J!Position(b)
      OBVIOUS
    <2>4. J!Single(b).positions = <<p>> /\ J!Single(b).errors = p.errors
      BY <2>2, <2>3 DEF J!Single
    <2>5. SaysFix(p, fix, 5, 10) /\ (Somewhere(fix) => p.errors = {})
      BY <2>1, <2>3, Jt808PositionSays
    <2>6. PICK s : s = <<p>> /\ Len(s) = 1 /\ s[1] = p
      BY OneIs
    <2>7. PICK w : w = <<fix>> /\ Len(w) = 1 /\ w[1] = fix
      BY OneIs
    <2>8. WholeFixes(m) = w
      BY <1>3, <1>6, <2>7
    <2>9. (\A k \in 1 .. Len(m.fixes) : Somewhere(m.fixes[k]) /\ ~m.fixes[k].cut) => p.errors = {}
      BY <1>1, <1>4, <2>5
    <2>10. J!Single(b).positions = s
      BY <2>4, <2>6
    <2>11. \A k \in 1 .. Len(s) : SaysFix(s[k], w[k], 5, 10)
      BY <2>5, <2>6, <2>7
    <2> QED
      BY <1>1, <1>2, <2>4, <2>6, <2>7, <2>8, <2>9, <2>10, <2>11 DEF Content808Says
  <1> QED
    BY <1>5, <1>6

-----------------------------------------------------------------------------
(* The batch of JT808.                                                     *)

(* Where the items of the batch b of fixes are.                            *)
Item(fix) == WordBytes(Len(Jt808Body(fix))) \o Jt808Body(fix)

(* The items of a batch.                                                   *)
Items(fixes) == [k \in 1 .. Len(fixes) |-> Item(fixes[k])]

(* A batch in the bytes b: the k-th item begins behind at[k - 1].          *)
Laid(b, fixes, at) ==
    /\ b \in Seq(Byte) /\ Word(b, 1) = Len(fixes) /\ Len(b) < 1024 /\ 3 <= Len(b)
    /\ at \in [0 .. Len(fixes) -> Nat] /\ at[0] = 3 /\ Len(fixes) <= Len(b)
    /\ \A k \in 1 .. Len(fixes) : Holds(b, at[k - 1], Item(fixes[k])) /\ at[k] = at[k - 1] + Len(Item(fixes[k]))

(* An item is its length and its position.                                 *)
LEMMA ItemIs ==
    ASSUME NEW fix \in Fix
    PROVE  /\ Item(fix) \in Seq(Byte) /\ Len(Item(fix)) = 2 + Len(Jt808Body(fix))
           /\ Len(Item(fix)) \in 2 .. 36
           /\ 256 * Item(fix)[1] + Item(fix)[2] = Len(Jt808Body(fix))
           /\ Holds(Item(fix), 2, Jt808Body(fix))
  <1>1. PICK b \in Seq(Byte), n \in 20 .. 34 : b = Jt808Body(fix) /\ n = Len(b)
    <2>1. Jt808Body(fix) \in Seq(Byte) /\ Len(Jt808Body(fix)) \in 20 .. 34
      BY Jt808BodyIs
    <2> QED
      BY <2>1
  <1>2. PICK w \in Seq(Byte) : w = WordBytes(n) /\ Len(w) = 2 /\ 256 * w[1] + w[2] = n
    <2>1. n \in TwoBytes
      BY DEF TwoBytes
    <2> QED
      BY <2>1, WordIs
  <1>3. PICK i : i = w \o b
    OBVIOUS
  <1>4. Extends(i, w, b)
    BY <1>3, ExtendsIs
  <1>5. i \in Seq(Byte) /\ Len(i) = 2 + n /\ Holds(i, 2, b)
    BY <1>1, <1>2, <1>4 DEF Extends
  <1>6. i[1] = w[1] /\ i[2] = w[2]
    <2>1. Glued(i, w, b)
      BY <1>3, ConcatIs
    <2> QED
      BY <1>2, <2>1 DEF Glued
  <1>7. Item(fix) = i
    BY <1>1, <1>2, <1>3 DEF Item
  <1>8. Len(i) = 2 + n /\ Len(i) \in 2 .. 36
    <2>1. 2 + n \in 2 .. 36
      OBVIOUS
    <2> QED
      BY <1>5, <2>1
  <1>9. 256 * i[1] + i[2] = n
    BY <1>2, <1>6
  <1>10. i \in Seq(Byte) /\ Holds(i, 2, b)
    BY <1>5
  <1> QED
    BY <1>1, <1>7, <1>8, <1>9, <1>10

(* One of each fix.                                                        *)
LEMMA ItemsAre ==
    ASSUME NEW fixes \in Seq(Fix)
    PROVE  /\ Items(fixes) \in Seq(Seq(Byte)) /\ Len(Items(fixes)) = Len(fixes)
           /\ \A k \in 1 .. Len(fixes) : Items(fixes)[k] = Item(fixes[k]) /\ fixes[k] \in Fix
  <1>1. \A k \in 1 .. Len(fixes) : fixes[k] \in Fix
    BY ElementOfSeq
  <1>2. \A k \in 1 .. Len(fixes) : Item(fixes[k]) \in Seq(Byte)
    BY <1>1, ItemIs
  <1>3. Items(fixes) \in [1 .. Len(fixes) -> Seq(Byte)]
    BY <1>2 DEF Items
  <1>4. Len(fixes) \in Nat
    BY LenProperties
  <1>5. Items(fixes) \in Seq(Seq(Byte)) /\ Len(Items(fixes)) = Len(fixes)
    BY <1>3, <1>4, TupleIs
  <1>6. \A k \in 1 .. Len(fixes) : Items(fixes)[k] = Item(fixes[k])
    BY DEF Items
  <1> QED
    BY <1>1, <1>5, <1>6

(* As many as a batch holds.                                               *)
LEMMA UpTo28 == \A x \in Nat : x <= 28 => x \in 0 .. 28
  OBVIOUS

(* Joining bytes associates.                                               *)
LEMMA BytesAssociate ==
    ASSUME NEW s \in Seq(Byte), NEW t \in Seq(Byte), NEW u \in Seq(Byte)
    PROVE  s \o (t \o u) = (s \o t) \o u
  BY SMTT(30), ConcatAssociative

(* The body of a batch is laid out so.                                     *)
LEMMA BatchBodyIs ==
    ASSUME NEW fixes \in Seq(Fix), Len(fixes) <= 28
    PROVE  \E at : Laid(BatchBody(fixes), fixes, at) /\ at[Len(fixes)] = Len(BatchBody(fixes))
  <1>1. PICK n \in 0 .. 28 : n = Len(fixes)
    <2>0. Len(fixes) \in Nat
      BY LenProperties
    <2>1. Len(fixes) \in 0 .. 28
      BY <2>0, UpTo28
    <2> QED
      BY <2>1
  <1>2. PICK items \in Seq(Seq(Byte)) :
           /\ items = Items(fixes) /\ Len(items) = n
           /\ \A k \in 1 .. n : items[k] = Item(fixes[k]) /\ fixes[k] \in Fix
    BY <1>1, ItemsAre
  <1>3. PICK g : Concatenates(g, items)
    BY JoinExists
  <1>4. /\ g[0] = <<>>
        /\ \A k \in 0 .. n : g[k] \in Seq(Byte)
        /\ \A k \in 1 .. n : g[k] = g[k - 1] \o items[k]
    BY <1>2, <1>3 DEF Concatenates
  <1>5. FlattenSeq(items) = g[n]
    <2>1. FlattenSeq(SubSeq(items, 1, n)) = g[n]
      <3>1. n \in 0 .. Len(items)
        BY <1>2
      <3> QED
        BY <1>3, <3>1, FlattenIsJoined
    <2>2. SubSeq(items, 1, n) = items
      BY <1>2, SubSeqFull
    <2> QED
      BY <2>1, <2>2
  <1>6. PICK h \in Seq(Byte) : h = WordBytes(n) \o <<1>> /\ Len(h) = 3 /\ 256 * h[1] + h[2] = n
    <2>1. PICK w \in Seq(Byte) : w = WordBytes(n) /\ Len(w) = 2 /\ 256 * w[1] + w[2] = n
      <3>1. n \in TwoBytes
        BY DEF TwoBytes
      <3> QED
        BY <3>1, WordIs
    <2>2. PICK o \in Seq(Byte) : o = <<1>> /\ Len(o) = 1
      <3>1. 1 \in Byte
        BY DEF Byte
      <3>2. <<1>> \in Seq(Byte)
        BY <3>1
      <3> QED
        BY <3>2, OneIs
    <2>3. PICK h : h = w \o o
      OBVIOUS
    <2>4. Glued(h, w, o)
      BY <2>3, ConcatIs
    <2>5. h \in Seq(Byte) /\ Len(h) = 3 /\ h[1] = w[1] /\ h[2] = w[2]
      BY <2>1, <2>2, <2>4 DEF Glued
    <2> QED
      BY <2>1, <2>2, <2>3, <2>5
  <1> DEFINE p(k) == h \o g[k]
  <1>7. BatchBody(fixes) = p(n)
    <2>1. Items(fixes) = [k \in 1 .. Len(fixes) |-> WordBytes(Len(Jt808Body(fixes[k]))) \o Jt808Body(fixes[k])]
      BY DEF Items, Item
    <2>2. BatchBody(fixes) = WordBytes(n) \o <<1>> \o FlattenSeq(Items(fixes))
      BY <1>1, <2>1 DEF BatchBody
    <2> QED
      BY <1>2, <1>5, <1>6, <2>2
  <1>8. ASSUME NEW k \in 1 .. n
        PROVE  k - 1 \in 0 .. n /\ k \in 0 .. n /\ Extends(p(k), p(k - 1), items[k])
    <2>1. k - 1 \in 0 .. n /\ k \in 0 .. n
      OBVIOUS
    <2>2. g[k - 1] \in Seq(Byte) /\ items[k] \in Seq(Byte)
      BY <1>2, <1>4, <2>1, ElementOfSeq
    <2>3. h \o (g[k - 1] \o items[k]) = (h \o g[k - 1]) \o items[k]
      BY <2>2, BytesAssociate
    <2>4. h \o g[k - 1] \in Seq(Byte)
      BY <2>2, ConcatProperties
    <2>5. Extends((h \o g[k - 1]) \o items[k], h \o g[k - 1], items[k])
      BY <2>2, <2>4, ExtendsIs
    <2> QED
      BY <1>4, <2>1, <2>3, <2>5
  <1>9. ASSUME NEW k \in 0 .. n PROVE p(k) \in Seq(Byte) /\ Len(p(k)) \in Nat /\ p(k)[1] = h[1] /\ p(k)[2] = h[2]
    <2>1. Glued(p(k), h, g[k])
      BY <1>4, ConcatIs
    <2> HIDE DEF p
    <2>2. p(k) \in Seq(Byte) /\ \A i \in 1 .. 3 : p(k)[i] = h[i]
      BY <1>6, <2>1 DEF Glued
    <2>3. 1 \in 1 .. 3 /\ 2 \in 1 .. 3
      OBVIOUS
    <2> QED
      BY <2>2, <2>3, LenProperties
  <1>10. Len(p(0)) = 3
    <2>1. p(0) = h
      BY <1>4, ConcatEmptySeq
    <2> QED
      BY <1>6, <2>1
  <1> HIDE DEF p
  <1> DEFINE at == [k \in 0 .. n |-> Len(p(k))]
  <1>11. at \in [0 .. n -> Nat] /\ at[0] = 3 /\ \A k \in 0 .. n : at[k] = Len(p(k))
    BY <1>9, <1>10
  <1> HIDE DEF at
  <1>12. ASSUME NEW k \in 1 .. n
         PROVE  /\ at[k] = at[k - 1] + Len(items[k]) /\ Len(items[k]) \in 2 .. 36
                /\ Holds(p(k), at[k - 1], items[k])
    <2>1. Len(items[k]) \in 2 .. 36
      BY <1>2, ItemIs
    <2> QED
      BY <1>8, <1>11, <2>1 DEF Extends
  <1> DEFINE K == {k \in 0 .. n : /\ 3 + 2 * k <= at[k] /\ at[k] <= 3 + 36 * k
                                  /\ \A j \in 1 .. k : Holds(p(k), at[j - 1], items[j])}
  <1>13. 0 \in K
    BY <1>11
  <1>14. ASSUME NEW k \in K, k < n PROVE k + 1 \in K
    <2>1. /\ k \in 0 .. n /\ k < n /\ 3 + 2 * k <= at[k] /\ at[k] <= 3 + 36 * k
          /\ \A j \in 1 .. k : Holds(p(k), at[j - 1], items[j])
      BY <1>14
    <2>2. PICK i \in 1 .. n : i = k + 1 /\ i - 1 = k /\ i \in 0 .. n
      BY <2>1
    <2>3. PICK x \in Nat, l \in 2 .. 36 : x = at[k] /\ l = Len(items[i]) /\ at[i] = x + l
      BY <1>11, <1>12, <2>1, <2>2
    <2>7. k \in Nat /\ 3 + 2 * k <= x /\ x <= 3 + 36 * k
      BY <2>1, <2>3
    <2>4. 3 + 2 * i <= x + l /\ x + l <= 3 + 36 * i
      <3>1. 3 + 2 * (k + 1) <= x + l /\ x + l <= 3 + 36 * (k + 1)
        <4> HIDE DEF K
        <4> QED
          BY <2>7
      <3> QED
        BY <2>2, <3>1
    <2>5. \A y, z : Holds(p(k), y, z) => Holds(p(i), y, z)
      <3>1. Extends(p(i), p(k), items[i])
        BY <1>8, <2>2
      <3> QED
        BY <3>1 DEF Extends
    <2>6. ASSUME NEW j \in 1 .. i PROVE Holds(p(i), at[j - 1], items[j])
      <3>1. CASE j = i
        BY <1>12, <3>1
      <3>2. CASE j # i
        <4>1. j \in 1 .. k
          BY <2>2, <3>2
        <4> QED
          BY <2>1, <2>5, <4>1
      <3> QED
        BY <3>1, <3>2
    <2> QED
      BY <2>2, <2>3, <2>4, <2>6
  <1>15. n \in K
    <2> HIDE DEF K
    <2>1. K \in SUBSET (0 .. n) /\ n \in Nat
      BY DEF K
    <2>2. K = 0 .. n
      BY <1>13, <1>14, <2>1, FiniteInduction
    <2> QED
      BY <2>2
  <1>16. PICK x \in Nat : /\ x = at[n] /\ x = Len(p(n)) /\ 3 + 2 * n <= x /\ x <= 3 + 36 * n
                          /\ \A j \in 1 .. n : Holds(p(n), at[j - 1], items[j])
    <2>1. at[n] \in Nat /\ at[n] = Len(p(n))
      BY <1>11
    <2> QED
      BY <1>15, <2>1
  <1>17. x < 1024 /\ 3 <= x /\ n <= x
    <2>1. 3 + 2 * n <= x /\ x <= 3 + 36 * n
      BY <1>16
    <2> HIDE DEF K
    <2> QED
      BY <2>1
  <1>18. Word(p(n), 1) = n
    BY <1>6, <1>9 DEF Word
  <1>19. \A k \in 1 .. n : items[k] = Item(fixes[k])
    BY <1>2
  <1>20. Laid(p(n), fixes, at)
    <2>1. p(n) \in Seq(Byte)
      BY <1>9
    <2>2. \A k \in 1 .. n : Holds(p(n), at[k - 1], Item(fixes[k])) /\ at[k] = at[k - 1] + Len(Item(fixes[k]))
      BY <1>12, <1>16, <1>19
    <2> QED
      BY <1>1, <1>11, <1>16, <1>17, <1>18, <2>1, <2>2 DEF Laid
  <1> QED
    BY <1>1, <1>7, <1>16, <1>20

(* A batch is such a record, and a turn moves it on.                       *)
BatchAt(at, left, items, errors) == [at |-> at, left |-> left, items |-> items, errors |-> errors]

(* A batch in which the reader stands elsewhere.                           *)
Moved(batch, x, y) == [batch EXCEPT !.at = x, !.left = y]

(* Nothing else of it changes.                                             *)
LEMMA BatchMoved ==
    ASSUME NEW at, NEW left, NEW items, NEW errors, NEW x, NEW y
    PROVE  Moved(BatchAt(at, left, items, errors), x, y) = BatchAt(x, y, items, errors)
  <1>1. PICK batch : batch = BatchAt(at, left, items, errors)
    OBVIOUS
  <1>2. PICK once : once = BatchAt(x, left, items, errors)
    OBVIOUS
  <1>3. [batch EXCEPT !.at = x] = once
    BY <1>1, <1>2 DEF BatchAt
  <1>4. [once EXCEPT !.left = y] = BatchAt(x, y, items, errors)
    BY <1>2 DEF BatchAt
  <1>5. Moved(batch, x, y) = [[batch EXCEPT !.at = x] EXCEPT !.left = y]
    BY DEF Moved
  <1> QED
    BY <1>1, <1>3, <1>4, <1>5

(* A turn of decodeLocationBatch leaves what it may be in.                 *)
LEMMA NextItemTyped ==
    ASSUME NEW b \in Seq(Byte), NEW batch \in J!Batches
    PROVE  J!NextItem(b, batch) \in J!Batches
  <1>0. J!Byte = Byte
    BY DEF J!Byte, Byte
  <1>1. PICK L \in Nat : L = Len(b)
    BY LenProperties
  <1>2. PICK at \in Nat \ {0}, left \in Int, items \in Seq(Seq(Byte)), errors \in SUBSET {"item", "lote"} :
           batch = [at |-> at, left |-> left, items |-> items, errors |-> errors]
    BY <1>0 DEF J!Batches
  <1>3. \A x \in Nat \ {0}, y \in Int, s \in Seq(Seq(Byte)), e \in SUBSET {"item", "lote"} :
           [at |-> x, left |-> y, items |-> s, errors |-> e] \in J!Batches
    BY <1>0 DEF J!Batches
  <1>4. batch.at = at /\ batch.left = left /\ batch.items = items /\ batch.errors = errors
    BY <1>2
  <1>7. errors \cup {"lote"} \in SUBSET {"item", "lote"} /\ errors \cup {"item"} \in SUBSET {"item", "lote"}
    OBVIOUS
  <1>5. CASE left = 0 \/ at + 1 > L
    BY <1>1, <1>4, <1>5 DEF J!NextItem
  <1>6. CASE ~ (left = 0 \/ at + 1 > L)
    <2>1. PICK x \in 0 .. 255, y \in 0 .. 255 : x = b[at] /\ y = b[at + 1]
      <3>1. at \in 1 .. L /\ at + 1 \in 1 .. L
        BY <1>6
      <3>2. b[at] \in Byte /\ b[at + 1] \in Byte
        BY <1>1, <3>1, ElementOfSeq
      <3> QED
        BY <3>2 DEF Byte
    <2>2. PICK size \in Nat : size = J!Word(b, at)
      <3>1. J!Word(b, at) = 256 * x + y
        BY <2>1 DEF J!Word
      <3>2. 256 * x + y \in Nat
        OBVIOUS
      <3> QED
        BY <3>1, <3>2
    <2>3. CASE at + 1 + size > L
      <3>1. ~ (batch.left = 0 \/ batch.at + 1 > Len(b)) /\ batch.at + 1 + J!Word(b, batch.at) > Len(b)
        BY <1>1, <1>4, <1>6, <2>2, <2>3
      <3>2. J!NextItem(b, batch) = [batch EXCEPT !.left = 0, !.errors = @ \cup {"lote"}]
        BY <3>1 DEF J!NextItem
      <3>3. J!NextItem(b, batch) = [at |-> at, left |-> 0, items |-> items, errors |-> errors \cup {"lote"}]
        BY <1>2, <3>2
      <3>4. 0 \in Int
        OBVIOUS
      <3> QED
        BY <1>0, <1>7, <3>3, <3>4 DEF J!Batches
    <2>4. CASE ~ (at + 1 + size > L)
      <3>1. PICK item \in Seq(Byte) : item = J!Part(b, at + 2, size)
        <4>1. PICK u \in 1 .. L + 1, v \in 0 .. L : u = at + 2 /\ v = at + 2 + size - 1 /\ u <= v + 1
          <5>1. at + 2 \in 1 .. L + 1 /\ at + 2 + size - 1 \in 0 .. L /\ at + 2 <= at + 2 + size - 1 + 1
            BY <2>4
          <5> QED
            BY <5>1
        <4>2. SubSeq(b, u, v) \in Seq(Byte)
          BY <1>1, <4>1, PartIs
        <4>3. J!Part(b, at + 2, size) = SubSeq(b, u, v)
          BY <4>1 DEF J!Part
        <4> QED
          BY <4>2, <4>3
      <3>2. PICK rest : rest = [at |-> at + 2 + size, left |-> left - 1, items |-> items, errors |-> errors]
        OBVIOUS
      <3>3. J!NextItem(b, batch) = J!AfterItem(rest, item)
        <4>1. ~ (batch.left = 0 \/ batch.at + 1 > Len(b)) /\ ~ (batch.at + 1 + J!Word(b, batch.at) > Len(b))
          BY <1>1, <1>4, <1>6, <2>2, <2>4
        <4>2. J!NextItem(b, batch) =
                J!AfterItem([batch EXCEPT !.at = @ + 2 + J!Word(b, batch.at), !.left = @ - 1],
                            J!Part(b, batch.at + 2, J!Word(b, batch.at)))
          BY <4>1 DEF J!NextItem
        <4>3. [batch EXCEPT !.at = @ + 2 + J!Word(b, batch.at), !.left = @ - 1] = rest
          <5>1. batch.at + 2 + J!Word(b, batch.at) = at + 2 + size /\ batch.left - 1 = left - 1
            BY <1>4, <2>2
          <5>2. PICK u, v : u = at + 2 + size /\ v = left - 1
            OBVIOUS
          <5>3. Moved(batch, u, v) = BatchAt(u, v, items, errors)
            <6>1. batch = BatchAt(at, left, items, errors)
              BY <1>2 DEF BatchAt
            <6> QED
              BY <6>1, BatchMoved
          <5>4. [batch EXCEPT !.at = @ + 2 + J!Word(b, batch.at), !.left = @ - 1] = Moved(batch, u, v)
            BY <5>1, <5>2 DEF Moved
          <5>5. rest = BatchAt(u, v, items, errors)
            BY <3>2, <5>2 DEF BatchAt
          <5> QED
            BY <5>3, <5>4, <5>5
        <4> QED
          BY <1>4, <2>2, <3>1, <4>2, <4>3
      <3>4. at + 2 + size \in Nat \ {0} /\ left - 1 \in Int
        OBVIOUS
      <3>5. CASE Len(item) < J!BodySize
        <4>1. J!AfterItem(rest, item)
                = [at |-> at + 2 + size, left |-> left - 1, items |-> items, errors |-> errors \cup {"item"}]
          BY <3>2, <3>5 DEF J!AfterItem
        <4> QED
          BY <1>0, <1>7, <3>3, <3>4, <4>1 DEF J!Batches
      <3>6. CASE ~ (Len(item) < J!BodySize)
        <4>1. J!AfterItem(rest, item)
                = [at |-> at + 2 + size, left |-> left - 1, items |-> Append(items, item), errors |-> errors]
          BY <3>2, <3>6 DEF J!AfterItem
        <4>2. PICK all \in Seq(Seq(Byte)) : all = Append(items, item)
          <5>1. Append(items, item) \in Seq(Seq(Byte))
            BY AppendProperties
          <5> QED
            BY <5>1
        <4>3. J!NextItem(b, batch) = [at |-> at + 2 + size, left |-> left - 1, items |-> all, errors |-> errors]
          BY <3>3, <4>1, <4>2
        <4> QED
          BY <1>0, <3>4, <4>3 DEF J!Batches
      <3> QED
        BY <3>5, <3>6
    <2> QED
      BY SMTT(30), <2>3, <2>4
  <1> QED
    BY <1>5, <1>6

(* A turn at an item that is laid out.                                     *)
LEMMA NextItemIs ==
    ASSUME NEW b, NEW batch \in J!Batches, NEW fix \in Fix, NEW p, batch.at = p + 1, batch.left # 0,
           Holds(b, p, Item(fix))
    PROVE  LET next == J!NextItem(b, batch)
           IN /\ next.at = p + Len(Item(fix)) + 1 /\ next.left = batch.left - 1
              /\ next.items = IF fix.cut THEN batch.items ELSE Append(batch.items, Jt808Body(fix))
              /\ ~ fix.cut => next.errors = batch.errors
  <1>1. PICK body \in Seq(Byte), n \in {20, 34} :
           /\ body = Jt808Body(fix) /\ n = Len(body) /\ n = IF fix.cut THEN 20 ELSE 34
    BY Jt808BodyIs
  <1>2. PICK item \in Seq(Byte) :
           /\ item = Item(fix) /\ Len(item) = 2 + n /\ 256 * item[1] + item[2] = n /\ Holds(item, 2, body)
    BY <1>1, ItemIs
  <1>3. PICK L \in Nat : L = Len(b)
    BY LenProperties DEF Holds
  <1>4. p \in Nat /\ p + 2 + n <= L /\ b \in Seq(Byte) /\ \A j \in 1 .. 2 + n : b[p + j] = item[j]
    <2>1. p \in Nat /\ p + (2 + n) <= L /\ b \in Seq(Byte) /\ \A j \in 1 .. 2 + n : b[p + j] = item[j]
      BY <1>2, <1>3 DEF Holds
    <2>2. p + (2 + n) = p + 2 + n
      BY <2>1
    <2> QED
      BY <2>1, <2>2
  <1>5. J!Word(b, p + 1) = n
    <2>1. 1 \in 1 .. 2 + n /\ 2 \in 1 .. 2 + n /\ (p + 1) + 1 = p + 2
      BY <1>4
    <2>2. b[p + 1] = item[1] /\ b[p + 2] = item[2]
      BY <1>4, <2>1
    <2> QED
      BY <1>2, <2>1, <2>2 DEF J!Word
  <1>6. J!Part(b, p + 1 + 2, n) = body
    <2>1. PICK q \in Nat : q = p + 2
      BY <1>4
    <2>2. \A i \in 1 .. n : b[q + i] = body[i]
      <3>1. \A i \in 1 .. n : item[2 + i] = body[i]
        BY <1>1, <1>2 DEF Holds
      <3>2. ASSUME NEW i \in 1 .. n PROVE b[q + i] = body[i]
        <4>1. PICK j \in 1 .. 2 + n : j = 2 + i /\ p + j = q + i
          <5>1. 2 + i \in 1 .. 2 + n /\ p + (2 + i) = q + i
            BY <1>4, <2>1
          <5> QED
            BY <5>1
        <4>2. b[p + j] = item[j]
          BY <1>4
        <4>3. item[j] = body[i]
          BY <3>1, <4>1
        <4> QED
          BY <4>1, <4>2, <4>3
      <3> QED
        BY <3>2
    <2>3. q + Len(body) <= Len(b)
      BY <1>1, <1>3, <1>4, <2>1
    <2>4. SubSeq(b, q + 1, q + Len(body)) = body
      <3>1. b \in Seq(Byte) /\ \A i \in 1 .. Len(body) : b[q + i] = body[i]
        BY <1>1, <1>4, <2>2
      <3> QED
        BY <2>3, <3>1, SliceIs
    <2>5. q + 1 = p + 1 + 2 /\ q + Len(body) = p + 1 + 2 + n - 1
      BY <1>1, <1>4, <2>1
    <2> QED
      BY <2>4, <2>5 DEF J!Part
  <1>7. PICK left, items, errors :
           batch = [at |-> p + 1, left |-> left, items |-> items, errors |-> errors]
           /\ batch.left = left /\ batch.items = items /\ batch.errors = errors
    BY DEF J!Batches
  <1>8. PICK rest : rest = [at |-> p + 1 + 2 + n, left |-> left - 1, items |-> items, errors |-> errors]
    OBVIOUS
  <1>9. J!NextItem(b, batch) = J!AfterItem(rest, body)
    <2>1. ~ (batch.left = 0 \/ batch.at + 1 > Len(b)) /\ ~ (batch.at + 1 + J!Word(b, batch.at) > Len(b))
      <3>1. ~ (p + 1 + 1 > L) /\ ~ (p + 1 + 1 + n > L)
        BY <1>4
      <3> QED
        BY <1>3, <1>5, <3>1
    <2>2. J!NextItem(b, batch) =
            J!AfterItem([batch EXCEPT !.at = @ + 2 + J!Word(b, batch.at), !.left = @ - 1],
                        J!Part(b, batch.at + 2, J!Word(b, batch.at)))
      BY <2>1 DEF J!NextItem
    <2>3. [batch EXCEPT !.at = @ + 2 + J!Word(b, batch.at), !.left = @ - 1] = rest
      <3>1. batch.at + 2 + J!Word(b, batch.at) = p + 1 + 2 + n /\ batch.left - 1 = left - 1
        BY <1>5, <1>7
      <3>2. PICK u, v : u = p + 1 + 2 + n /\ v = left - 1
        OBVIOUS
      <3>3. Moved(batch, u, v) = BatchAt(u, v, items, errors)
        <4>1. batch = BatchAt(p + 1, left, items, errors)
          BY <1>7 DEF BatchAt
        <4> QED
          BY <4>1, BatchMoved
      <3>4. [batch EXCEPT !.at = @ + 2 + J!Word(b, batch.at), !.left = @ - 1] = Moved(batch, u, v)
        BY <3>1, <3>2 DEF Moved
      <3>5. rest = BatchAt(u, v, items, errors)
        BY <1>8, <3>2 DEF BatchAt
      <3> QED
        BY <3>3, <3>4, <3>5
    <2> QED
      BY <1>5, <1>6, <2>2, <2>3
  <1>10. p + 1 + 2 + n = p + Len(Item(fix)) + 1
    BY <1>2, <1>4
  <1>11. CASE fix.cut
    <2>1. Len(body) < J!BodySize
      BY <1>1, <1>11 DEF J!BodySize
    <2>2. J!AfterItem(rest, body)
            = [at |-> p + 1 + 2 + n, left |-> left - 1, items |-> items, errors |-> errors \cup {"item"}]
      BY <1>8, <2>1 DEF J!AfterItem
    <2> QED
      BY <1>7, <1>9, <1>10, <1>11, <2>2
  <1>12. CASE ~ fix.cut
    <2>1. ~ (Len(body) < J!BodySize)
      BY <1>1, <1>12 DEF J!BodySize
    <2>2. J!AfterItem(rest, body)
            = [at |-> p + 1 + 2 + n, left |-> left - 1, items |-> Append(items, body), errors |-> errors]
      BY <1>8, <2>1 DEF J!AfterItem
    <2> QED
      BY <1>1, <1>7, <1>9, <1>10, <1>12, <2>2
  <1> QED
    BY <1>11, <1>12

(* What has been read of a batch before the byte behind at: the whole      *)
(* items, and no error when none was cut.                                  *)
Caught(batch, at, left, whole, cuts) ==
    /\ batch.at = at + 1 /\ batch.left = left
    /\ Len(batch.items) = Len(whole)
    /\ \A j \in 1 .. Len(whole) : FixBlock(batch.items[j], whole[j])
    /\ cuts = {} => batch.errors = {}

(* Another item is read: its fix is kept, or counts as an error if it was  *)
(* cut.                                                                    *)
LEMMA CaughtNext ==
    ASSUME NEW b, NEW batch \in J!Batches, NEW p, NEW left \in Nat, left # 0,
           NEW whole \in Seq(Fix), NEW cuts, NEW after, cuts \subseteq after,
           NEW fix \in Fix, fix.cut => after # {},
           Caught(batch, p, left, whole, cuts), Holds(b, p, Item(fix))
    PROVE  Caught(J!NextItem(b, batch), p + Len(Item(fix)), left - 1,
                  IF fix.cut THEN whole ELSE Append(whole, fix), after)
  <1>1. PICK items \in Seq(Seq(Byte)) : items = batch.items
    <2>1. J!Byte = Byte
      BY DEF J!Byte, Byte
    <2> QED
      BY <2>1 DEF J!Batches
  <1>2. /\ batch.at = p + 1 /\ batch.left = left
        /\ Len(items) = Len(whole) /\ \A j \in 1 .. Len(whole) : FixBlock(items[j], whole[j])
        /\ cuts = {} => batch.errors = {}
    BY <1>1 DEF Caught
  <1>3. PICK next : /\ next = J!NextItem(b, batch)
                    /\ next.at = p + Len(Item(fix)) + 1 /\ next.left = left - 1
                    /\ next.items = IF fix.cut THEN items ELSE Append(items, Jt808Body(fix))
                    /\ ~ fix.cut => next.errors = batch.errors
    BY <1>1, <1>2, NextItemIs
  <1>4. CASE fix.cut
    <2>1. after # {}
      BY <1>4
    <2> QED
      BY <1>2, <1>3, <1>4, <2>1 DEF Caught
  <1>5. CASE ~ fix.cut
    <2>1. PICK body \in Seq(Byte) : body = Jt808Body(fix) /\ FixBlock(body, fix)
      <3>1. Jt808Body(fix) \in Seq(Byte) /\ FixBlock(Jt808Body(fix), fix)
        BY <1>5, Jt808BodyIs
      <3> QED
        BY <3>1
    <2>2. PICK n \in Nat : n = Len(whole) /\ n = Len(items)
      <3>1. Len(whole) \in Nat
        BY LenProperties
      <3> QED
        BY <1>2, <3>1
    <2>3. PICK s : s = Append(items, body) /\ Len(s) = n + 1
                   /\ (\A j \in 1 .. n : s[j] = items[j]) /\ s[n + 1] = body
      <3>1. /\ Len(Append(items, body)) = n + 1
            /\ \A j \in 1 .. n : Append(items, body)[j] = items[j]
            /\ Append(items, body)[n + 1] = body
        BY <2>2, AppendProperties
      <3> QED
        BY <3>1
    <2>4. PICK w : w = Append(whole, fix) /\ Len(w) = n + 1
                   /\ (\A j \in 1 .. n : w[j] = whole[j]) /\ w[n + 1] = fix
      <3>1. PICK T : T = Fix
        OBVIOUS
      <3>2. whole \in Seq(T) /\ fix \in T
        BY <3>1
      <3>3. /\ Len(Append(whole, fix)) = Len(whole) + 1
            /\ \A j \in 1 .. Len(whole) : Append(whole, fix)[j] = whole[j]
            /\ Append(whole, fix)[Len(whole) + 1] = fix
        BY <3>2, AppendProperties
      <3> QED
        BY <2>2, <3>3
    <2>5. ASSUME NEW j \in 1 .. n + 1 PROVE FixBlock(s[j], w[j])
      <3>1. CASE j = n + 1
        BY <2>1, <2>3, <2>4, <3>1
      <3>2. CASE j # n + 1
        <4>1. j \in 1 .. n
          BY <3>2
        <4>2. FixBlock(items[j], whole[j])
          BY <1>2, <2>2, <4>1
        <4> QED
          BY <2>3, <2>4, <4>1, <4>2
      <3> QED
        BY <3>1, <3>2
    <2>6. next.items = s
      BY <1>3, <1>5, <2>1, <2>3
    <2>7. after = {} => next.errors = {}
      <3>1. after = {} => cuts = {}
        OBVIOUS
      <3> QED
        BY <1>2, <1>3, <1>5, <3>1
    <2>8. Caught(next, p + Len(Item(fix)), left - 1, w, after)
      BY <1>3, <2>3, <2>4, <2>5, <2>6, <2>7 DEF Caught
    <2> QED
      BY <1>3, <1>5, <2>4, <2>8
  <1> QED
    BY <1>4, <1>5

(* The loop over a batch takes its steps one after another.                *)
LEMMA BatchTurns ==
    ASSUME NEW turn \in Turns(J!Batches, Byte), NEW first \in J!Batches, NEW c \in Seq(Byte)
    PROVE  \E out \in [0 .. Len(c) -> J!Batches] :
              /\ out[0] = first
              /\ \A i \in 1 .. Len(c) : out[i] = turn[out[i - 1]][c[i]]
              /\ Loop(turn, first, c) = out[Len(c)]
  BY LoopIs

(* What is read of the batch: the fixes that were not cut.                 *)
LEMMA BatchSays ==
    ASSUME NEW m, m.fixes \in Seq(Fix), Len(m.fixes) <= 28
    PROVE  Content808Says(J!Batch(BatchBody(m.fixes)), m)
  <1>1. PICK fixes \in Seq(Fix) : fixes = m.fixes
    OBVIOUS
  <1>2. PICK at, b : b = BatchBody(fixes) /\ Laid(b, fixes, at) /\ at[Len(fixes)] = Len(b)
    BY <1>1, BatchBodyIs
  <1>3. PICK n \in Nat : n = Len(fixes)
    BY LenProperties
  <1>4. PICK L \in Nat : L = Len(b) /\ 3 <= L /\ n <= L
    <2>1. b \in Seq(Byte) /\ 3 <= Len(b) /\ n <= Len(b)
      BY <1>2, <1>3 DEF Laid
    <2> QED
      BY <2>1, LenProperties
  <1>5. /\ b \in Seq(Byte) /\ Word(b, 1) = n /\ at[0] = 3
        /\ \A k \in 0 .. n : at[k] \in Nat
        /\ \A k \in 1 .. n : Holds(b, at[k - 1], Item(fixes[k])) /\ at[k] = at[k - 1] + Len(Item(fixes[k]))
    BY <1>2, <1>3 DEF Laid
  <1>6. PICK whole \in [0 .. n -> Seq(Fix)] :
           /\ whole[0] = <<>>
           /\ \A i \in 1 .. n : whole[i] = IF fixes[i].cut THEN whole[i - 1] ELSE Append(whole[i - 1], fixes[i])
           /\ WholeFixes(m) = whole[n]
    BY <1>1, <1>3, KeepIs
  <1> DEFINE step == [batch \in J!Batches |-> [x \in Byte |-> J!NextItem(b, batch)]]
             cuts(k) == {j \in 1 .. k : fixes[j].cut}
  <1>7. step \in Turns(J!Batches, Byte)
    <2>1. \A batch \in J!Batches : J!NextItem(b, batch) \in J!Batches
      BY <1>5, NextItemTyped
    <2> QED
      BY <2>1 DEF Turns
  <1>8. PICK first \in J!Batches : first = [at |-> 4, left |-> n, items |-> <<>>, errors |-> {}]
    <2>1. <<>> \in Seq(Seq(J!Byte)) /\ 4 \in Nat \ {0} /\ n \in Int /\ {} \in SUBSET {"item", "lote"}
      OBVIOUS
    <2>2. [at |-> 4, left |-> n, items |-> <<>>, errors |-> {}] \in J!Batches
      BY <2>1 DEF J!Batches
    <2> QED
      BY <2>2
  <1>9. \A batch \in J!Batches, x \in Byte : step[batch][x] = J!NextItem(b, batch)
    OBVIOUS
  <1>10. PICK all : /\ all = Loop(step, first, b)
                    /\ J!Batch(b).positions = [k \in 1 .. Len(all.items) |-> J!Position(all.items[k])]
                    /\ J!Batch(b).errors = all.errors
    <2>1. J!Byte = Byte /\ J!Word(b, 1) = n
      BY <1>5, SameNumbers DEF J!Byte, Byte
    <2>2. ~ (Len(b) < 3)
      BY <1>4
    <2>3. J!Loop(step, first, b) = Loop(step, first, b)
      BY SameLoop
    <2>4. PICK all : all = J!Loop(step, first, b)
      OBVIOUS
    <2>5. J!Batch(b) = [J!Nothing EXCEPT !.positions = [k \in 1 .. Len(all.items) |-> J!Position(all.items[k])],
                                         !.errors = all.errors]
      BY <1>8, <2>1, <2>2, <2>4 DEF J!Batch
    <2>6. /\ J!Batch(b).positions = [k \in 1 .. Len(all.items) |-> J!Position(all.items[k])]
          /\ J!Batch(b).errors = all.errors
      BY <2>5 DEF J!Nothing
    <2> QED
      BY <2>3, <2>4, <2>6
  <1> HIDE DEF step
  <1>11. PICK out \in [0 .. Len(b) -> J!Batches] :
            /\ out[0] = first
            /\ \A i \in 1 .. Len(b) : out[i] = step[out[i - 1]][b[i]]
            /\ Loop(step, first, b) = out[Len(b)]
    <2>1. PICK c \in Seq(Byte) : c = b
      BY <1>5
    <2>2. PICK turn \in Turns(J!Batches, Byte) : turn = step
      BY <1>7
    <2>3. \E out \in [0 .. Len(c) -> J!Batches] :
            /\ out[0] = first
            /\ \A i \in 1 .. Len(c) : out[i] = turn[out[i - 1]][c[i]]
            /\ Loop(turn, first, c) = out[Len(c)]
      BY BatchTurns
    <2> QED
      BY <2>1, <2>2, <2>3
  <1>12. ASSUME NEW i \in 1 .. L
         PROVE  out[i] = J!NextItem(b, out[i - 1]) /\ out[i - 1] \in J!Batches /\ i - 1 \in 0 .. L
    <2>1. i \in 1 .. Len(b) /\ i - 1 \in 0 .. Len(b)
      BY <1>4
    <2>2. b[i] \in Byte /\ out[i - 1] \in J!Batches
      BY <1>5, <1>11, <2>1, ElementOfSeq
    <2> QED
      BY <1>4, <1>9, <1>11, <2>1, <2>2
  <1> DEFINE Right(i) == Caught(out[i], at[i], n - i, whole[i], cuts(i))
             K == {i \in 0 .. n : Right(i)}
  <1>13. 0 \in K
    <2>1. first.at = 3 + 1 /\ first.left = n - 0 /\ first.items = <<>> /\ first.errors = {}
      BY <1>8
    <2>2. Len(<<>>) = 0 /\ \A j : j \notin 1 .. 0
      OBVIOUS
    <2>3. Caught(first, at[0], n - 0, whole[0], cuts(0))
      <3> HIDE DEF cuts
      <3> QED
        BY <1>5, <1>6, <2>1, <2>2 DEF Caught
    <2> QED
      BY <1>11, <2>3
  <1>14. ASSUME NEW k \in K, k < n PROVE k + 1 \in K
    <2>1. k \in 0 .. n /\ k < n /\ Right(k)
      BY <1>14
    <2>2. PICK i \in 1 .. n : i = k + 1 /\ i - 1 = k /\ i \in 1 .. L
      <3>1. k + 1 \in 1 .. n /\ (k + 1) - 1 = k /\ k + 1 \in 1 .. L
        BY <1>4, <2>1
      <3> QED
        BY <3>1
    <2>3. PICK fix \in Fix : fix = fixes[i]
      <3>1. fixes[i] \in Fix
        BY <1>3, ElementOfSeq
      <3> QED
        BY <3>1
    <2>4. cuts(k) \subseteq cuts(i) /\ (fix.cut => cuts(i) # {})
      <3>1. \A j \in 1 .. k : j \in 1 .. i
        BY <2>1, <2>2
      <3>2. i \in 1 .. i
        OBVIOUS
      <3> QED
        BY <2>3, <3>1, <3>2
    <2>5. PICK left \in Nat : left = n - k /\ left # 0 /\ left - 1 = n - i
      <3>1. n - k \in Nat /\ n - k # 0 /\ (n - k) - 1 = n - i
        BY <2>1, <2>2
      <3> QED
        BY <3>1
    <2>6. out[k] \in J!Batches /\ out[i] = J!NextItem(b, out[k]) /\ whole[k] \in Seq(Fix)
      <3>1. out[i - 1] \in J!Batches /\ out[i] = J!NextItem(b, out[i - 1])
        BY <1>12, <2>2
      <3> QED
        BY <1>6, <2>1, <2>2, <3>1
    <2>7. Holds(b, at[k], Item(fix)) /\ at[i] = at[k] + Len(Item(fix))
      BY <1>5, <2>2, <2>3
    <2>8. Caught(out[k], at[k], left, whole[k], cuts(k))
      BY <2>1, <2>5
    <2> HIDE DEF cuts
    <2>9. Caught(J!NextItem(b, out[k]), at[k] + Len(Item(fix)), left - 1,
                 IF fix.cut THEN whole[k] ELSE Append(whole[k], fix), cuts(i))
      BY <2>4, <2>5, <2>6, <2>7, <2>8, CaughtNext
    <2>10. whole[i] = IF fix.cut THEN whole[k] ELSE Append(whole[k], fix)
      BY <1>6, <2>2, <2>3
    <2>11. Caught(out[i], at[i], n - i, whole[i], cuts(i))
      BY <2>5, <2>6, <2>7, <2>9, <2>10
    <2> QED
      BY <2>2, <2>11
  <1>15. Right(n)
    <2> HIDE DEF K
    <2>1. K \in SUBSET (0 .. n)
      BY DEF K
    <2>2. K = 0 .. n
      BY <1>13, <1>14, <2>1, FiniteInduction
    <2>3. n \in K
      BY <2>2
    <2> QED
      BY <2>3 DEF K
  <1>16. out[n].left = 0
    <2>1. n - n = 0
      OBVIOUS
    <2> QED
      BY <1>15, <2>1 DEF Caught
  <1> DEFINE Q == {i \in 0 .. L : i >= n => out[i] = out[n]}
  <1>17. 0 \in Q
    <2>1. 0 >= n => 0 = n
      OBVIOUS
    <2> QED
      BY <2>1
  <1>18. ASSUME NEW k \in Q, k < L PROVE k + 1 \in Q
    <2>1. k \in 0 .. L /\ k < L /\ (k >= n => out[k] = out[n])
      BY <1>18
    <2>2. PICK i \in 1 .. L : i = k + 1 /\ i - 1 = k
      <3>1. k + 1 \in 1 .. L /\ (k + 1) - 1 = k
        BY <2>1
      <3> QED
        BY <3>1
    <2>3. i >= n => out[i] = out[n]
      <3>1. CASE k >= n
        <4>1. out[i] = J!NextItem(b, out[n])
          BY <1>12, <2>1, <2>2, <3>1
        <4>2. J!NextItem(b, out[n]) = out[n]
          BY <1>16 DEF J!NextItem
        <4> QED
          BY <4>1, <4>2
      <3>2. CASE ~ (k >= n)
        <4>1. i >= n => i = n
          BY <2>1, <2>2, <3>2
        <4> QED
          BY <4>1
      <3> QED
        BY <3>1, <3>2
    <2> QED
      BY <2>2, <2>3
  <1>19. out[L] = out[n]
    <2> HIDE DEF Q
    <2>1. Q \in SUBSET (0 .. L)
      BY DEF Q
    <2>2. Q = 0 .. L
      BY <1>17, <1>18, <2>1, FiniteInduction
    <2>3. L \in Q
      BY <2>2
    <2> QED
      BY <1>4, <2>3 DEF Q
  <1>20. Caught(all, at[n], n - n, whole[n], cuts(n))
    BY <1>4, <1>10, <1>11, <1>15, <1>19
  <1>21. PICK l \in Nat, w \in Seq(Fix) : l = Len(w) /\ w = whole[n]
    <2>1. whole[n] \in Seq(Fix) /\ Len(whole[n]) \in Nat
      BY <1>6, LenProperties
    <2> QED
      BY <2>1
  <1>22. Len(all.items) = l /\ (\A j \in 1 .. l : FixBlock(all.items[j], w[j])) /\ (cuts(n) = {} => all.errors = {})
    <2> HIDE DEF cuts
    <2> QED
      BY <1>20, <1>21 DEF Caught
  <1>23. PICK positions : /\ positions = J!Batch(b).positions /\ Len(positions) = l
                          /\ \A j \in 1 .. l : positions[j] = J!Position(all.items[j])
    <2>1. PICK positions : positions = [k \in 1 .. l |-> J!Position(all.items[k])]
      OBVIOUS
    <2>2. Len(positions) = l
      BY <2>1
    <2>3. positions = J!Batch(b).positions
      BY <1>10, <1>22, <2>1
    <2> QED
      BY <2>1, <2>2, <2>3
  <1>24. ASSUME NEW j \in 1 .. l PROVE SaysFix(positions[j], w[j], 5, 10)
    <2>1. w[j] \in Fix
      BY <1>21, ElementOfSeq
    <2>2. FixBlock(all.items[j], w[j])
      BY <1>22
    <2> QED
      BY <1>23, <2>1, <2>2, Jt808PositionSays
  <1>25. (\A k \in 1 .. Len(m.fixes) : Somewhere(m.fixes[k]) /\ ~m.fixes[k].cut) => J!Batch(b).errors = {}
    <2>1. (\A k \in 1 .. n : ~fixes[k].cut) => cuts(n) = {}
      OBVIOUS
    <2> QED
      BY <1>1, <1>3, <1>10, <1>22, <2>1
  <1>26. WholeFixes(m) = w
    BY <1>6, <1>21
  <1> QED
    BY <1>1, <1>2, <1>21, <1>23, <1>24, <1>25, <1>26 DEF Content808Says

(* The body of a message m of JT808 and what is read of it.                *)
Carries808(m, body) ==
    /\ body \in Seq(Byte) /\ Len(body) < 1024
    /\ m.id \in TwoBytes /\ m.serial \in TwoBytes /\ Sender(m.digits)
    /\ Jt808Frame(m) = J!BuildFrame(m.id, m.digits, body, m.serial, 6)
    /\ Content808Says(JContent(m.id, body), m)

-----------------------------------------------------------------------------
(* The messages of JT808 and their answers.                                *)

(* The numbers of the messages of JT808.                                   *)
LEMMA Jt808Ids ==
    /\ J!Register = 256 /\ J!Auth = 258 /\ J!Heartbeat = 2 /\ J!Logout = 3
    /\ J!LocationMsg = 512 /\ J!LocationBatch = 1796
    /\ J!PlatformResponse = 32769 /\ J!RegisterResponse = 33024
    /\ {2, 3, 256, 258, 512, 1796, 32769, 33024} \subseteq TwoBytes
  BY SMT DEF J!Register, J!Auth, J!Heartbeat, J!Logout, J!LocationMsg, J!LocationBatch,
         J!PlatformResponse, J!RegisterResponse, TwoBytes

(* The digits of a sender as they are written.                             *)
LEMMA AsciiIs ==
    ASSUME NEW digits, Sender(digits)
    PROVE  J!Ascii(digits) \in Seq(Byte) /\ Len(J!Ascii(digits)) <= 12
  <1>1. PICK T : T = 0 .. 9
    OBVIOUS
  <1>2. PICK N : N = 1 .. 12
    OBVIOUS
  <1>3. PICK n \in Nat : n = Len(digits) /\ n <= 12
    <2>1. digits \in Seq(T) /\ Len(digits) \in N
      BY <1>1, <1>2 DEF Sender
    <2>2. \A x \in Nat : x \in N => x <= 12
      BY <1>2
    <2> QED
      BY <2>1, <2>2, LenProperties
  <1>4. \A k \in 1 .. n : digits[k] \in T
    <2>1. digits \in Seq(T)
      BY <1>1 DEF Sender
    <2> QED
      BY <1>3, <2>1, ElementOfSeq
  <1>5. \A x \in T : (IF x < 10 THEN 48 + x ELSE 87 + x) \in Byte
    BY <1>1 DEF Byte
  <1>6. J!Ascii(digits) \in [1 .. n -> Byte]
    BY <1>3, <1>4, <1>5 DEF J!Ascii
  <1>7. J!Ascii(digits) \in Seq(Byte) /\ Len(J!Ascii(digits)) = n
    BY <1>6, TupleIs
  <1> QED
    BY <1>3, <1>7

(* A message without a position carries what it means.                     *)
LEMMA NoFixCarries ==
    ASSUME NEW m, m.serial \in TwoBytes, Sender(m.digits), m.fixes = <<>>,
           m.id \in {J!Register, J!Auth, J!Heartbeat, J!Logout}
    PROVE  \E body : Carries808(m, body)
  <1>1. m.id \in {256, 258, 2, 3} /\ m.id \in TwoBytes /\ m.id # 512 /\ m.id # 1796
    BY Jt808Ids, SMT
  <1>2. PICK body \in Seq(Byte) : /\ Len(body) < 1024
                                  /\ Jt808Frame(m) = J!BuildFrame(m.id, m.digits, body, m.serial, 6)
    <2>1. CASE m.id = 258
      <3>1. Jt808Frame(m) = J!BuildFrame(m.id, m.digits, J!Ascii(m.digits), m.serial, 6)
        BY <2>1, Jt808Ids, SMT DEF Jt808Frame
      <3>2. Len(J!Ascii(m.digits)) < 1024
        BY AsciiIs
      <3> QED
        BY <3>1, <3>2, AsciiIs
    <2>2. CASE m.id = 256
      <3>1. Jt808Frame(m) = J!BuildFrame(m.id, m.digits, <<0, 44, 0, 100, 83, 69, 69, 87, 79>>, m.serial, 6)
        BY <2>2, Jt808Ids, SMT DEF Jt808Frame
      <3>2. {0, 44, 100, 83, 69, 87, 79} \subseteq Byte
        BY DEF Byte
      <3>3. /\ <<0, 44, 0, 100, 83, 69, 69, 87, 79>> \in Seq(Byte)
            /\ Len(<<0, 44, 0, 100, 83, 69, 69, 87, 79>>) < 1024
        BY <3>2
      <3> QED
        BY <3>1, <3>3
    <2>3. CASE m.id \in {2, 3}
      <3>1. Jt808Frame(m) = J!BuildFrame(m.id, m.digits, <<>>, m.serial, 6)
        BY <2>3, Jt808Ids, SMT DEF Jt808Frame
      <3>2. <<>> \in Seq(Byte) /\ Len(<<>>) < 1024
        OBVIOUS
      <3> QED
        BY <3>1, <3>2
    <2> QED
      BY <1>1, <2>1, <2>2, <2>3
  <1>3. JContent(m.id, body) = J!Nothing
    BY <1>1, Jt808Ids, SMT DEF JContent
  <1>4. Content808Says(J!Nothing, m)
    <2>1. WholeFixes(m) = <<>>
      BY WholeNone
    <2>2. J!Nothing.positions = <<>> /\ J!Nothing.errors = {}
      BY DEF J!Nothing
    <2>3. Len(<<>>) = 0 /\ \A k : k \notin 1 .. 0
      OBVIOUS
    <2> QED
      BY <2>1, <2>2, <2>3 DEF Content808Says
  <1> QED
    BY <1>1, <1>2, <1>3, <1>4 DEF Carries808

(* So does one position,                                                   *)
LEMMA SingleCarries ==
    ASSUME NEW m, m.serial \in TwoBytes, Sender(m.digits), m.id = J!LocationMsg,
           m.fixes \in Seq(Fix), Len(m.fixes) = 1
    PROVE  \E body : Carries808(m, body)
  <1>1. PICK fix \in Fix : fix = m.fixes[1]
    <2>1. 1 \in 1 .. Len(m.fixes)
      OBVIOUS
    <2> QED
      BY <2>1, ElementOfSeq
  <1>2. m.id = 512 /\ m.id \in TwoBytes
    BY Jt808Ids
  <1>3. Jt808Frame(m) = J!BuildFrame(m.id, m.digits, Jt808Body(fix), m.serial, 6)
    BY <1>1, <1>2, Jt808Ids, SMT DEF Jt808Frame
  <1>4. Jt808Body(fix) \in Seq(Byte) /\ Len(Jt808Body(fix)) < 1024
    <2>1. PICK n : n = Len(Jt808Body(fix)) /\ n = IF fix.cut THEN 20 ELSE 34
      BY Jt808BodyIs
    <2>2. n < 1024
      BY <2>1
    <2> QED
      BY <2>1, <2>2, Jt808BodyIs
  <1>5. JContent(m.id, Jt808Body(fix)) = J!Single(Jt808Body(fix))
    BY DEF JContent
  <1>6. Content808Says(J!Single(Jt808Body(fix)), m)
    BY <1>1, SingleSays
  <1> QED
    BY <1>2, <1>3, <1>4, <1>5, <1>6 DEF Carries808

(* and a batch;                                                            *)
LEMMA BatchCarries ==
    ASSUME NEW m, m.serial \in TwoBytes, Sender(m.digits), m.id = J!LocationBatch,
           m.fixes \in Seq(Fix), Len(m.fixes) <= 28
    PROVE  \E body : Carries808(m, body)
  <1>1. PICK body : body = BatchBody(m.fixes)
    OBVIOUS
  <1>2. Content808Says(J!Batch(body), m)
    BY <1>1, BatchSays
  <1>3. body \in Seq(Byte) /\ Len(body) < 1024
    <2>1. PICK at : Laid(body, m.fixes, at)
      BY <1>1, BatchBodyIs
    <2> QED
      BY <2>1 DEF Laid
  <1>4. Jt808Frame(m) = J!BuildFrame(m.id, m.digits, body, m.serial, 6)
    BY <1>1, Jt808Ids, SMT DEF Jt808Frame
  <1>5. m.id \in TwoBytes /\ m.id # J!LocationMsg
    BY Jt808Ids, SMT
  <1>6. JContent(m.id, body) = J!Batch(body)
    BY <1>5 DEF JContent
  <1> QED
    BY <1>2, <1>3, <1>4, <1>5, <1>6 DEF Carries808

(* and so does every message that a terminal may mean.                     *)
LEMMA Jt808Carries ==
    ASSUME NEW m, Jt808Meant(m)
    PROVE  \E body : Carries808(m, body)
  <1>1. m.serial \in TwoBytes /\ Sender(m.digits)
    BY DEF Jt808Meant, Sender
  <1>2. CASE m.id \in {J!Register, J!Auth, J!Heartbeat, J!Logout} /\ m.fixes = <<>>
    BY <1>1, <1>2, NoFixCarries
  <1>3. CASE m.id = J!LocationMsg /\ m.fixes \in Seq(Fix) /\ Len(m.fixes) = 1
    BY <1>1, <1>3, SingleCarries
  <1>4. CASE m.id = J!LocationBatch /\ m.fixes \in Seq(Fix) /\ Len(m.fixes) <= 28
    BY <1>1, <1>4, BatchCarries
  <1> QED
    BY <1>2, <1>3, <1>4 DEF Jt808Meant

(* A message of JT808 is read as it was meant.                             *)
LEMMA Jt808Says ==
    ASSUME NEW m, m.protocol = "jt808", Jt808Meant(m)
    PROVE  /\ SaysBinary(J!Decode(Jt808Frame(m)), m) /\ Jt808Frame(m)[1] = 126
           /\ J!Decode(Jt808Frame(m)).id = m.id /\ J!Decode(Jt808Frame(m)).serial = m.serial
           /\ J!Decode(Jt808Frame(m)).from = m.digits /\ J!Decode(Jt808Frame(m)).terminalBytes = 6
  <1>1. PICK body : Carries808(m, body)
    BY Jt808Carries
  <1>2. /\ body \in Seq(Byte) /\ Len(body) < 1024
        /\ m.id \in TwoBytes /\ m.serial \in TwoBytes /\ Sender(m.digits)
        /\ Jt808Frame(m) = J!BuildFrame(m.id, m.digits, body, m.serial, 6)
        /\ Content808Says(JContent(m.id, body), m)
    BY <1>1 DEF Carries808
  <1>3. PICK r, c : r = J!Decode(Jt808Frame(m)) /\ c = JContent(m.id, body)
    OBVIOUS
  <1>4. JReads(r, m.id, m.digits, body, m.serial)
    BY <1>2, <1>3, Jt808Reads
  <1>5. /\ r.id = m.id /\ r.serial = m.serial /\ r.from = m.digits /\ r.terminalBytes = 6
        /\ r.errors = c.errors /\ r.positions = c.positions
    BY <1>3, <1>4 DEF JReads
  <1>6. Content808Says(c, m)
    BY <1>2, <1>3
  <1>7. \A k \in 1 .. Len(r.positions) : SaysFix(r.positions[k], WholeFixes(m)[k], 5, 10)
    BY <1>5, <1>6 DEF Content808Says
  <1>8. SaysBinary(r, m)
    BY <1>5, <1>6, <1>7 DEF Content808Says, SaysBinary
  <1>9. Jt808Frame(m)[1] = 126
    <2>1. PICK w : Wrapped(J!BuildFrame(m.id, m.digits, body, m.serial, 6), w)
      BY <1>2, BuildIs
    <2>2. PICK f : f = Jt808Frame(m) /\ Wrapped(f, w)
      BY <1>2, <2>1
    <2>3. PICK n \in Nat : n = Len(f) /\ n >= 2
      BY <2>2, LenProperties DEF Wrapped
    <2>4. \A i \in 1 .. n : f[i] = 126 <=> i \in {1, n}
      BY <2>2, <2>3 DEF Wrapped
    <2> QED
      BY <2>2, <2>3, <2>4
  <1> QED
    BY <1>3, <1>5, <1>8, <1>9

(* How the tracker reads an answer of JT808.                               *)
Told(f, id, digits, body) ==
    LET data == J!Unescape(SubSeq(f, 2, Len(f) - 1))
    IN /\ \A i \in 1 .. Len(f) : f[i] = 126 <=> i \in {1, Len(f)}
       /\ XorChecksum(SubSeq(data, 1, Len(data) - 1)) = data[Len(data)]
       /\ J!Terminal(Part(data, 5, 6)) = digits
       /\ Word(data, 1) = id /\ Word(data, 3) = Len(body)
       /\ SubSeq(data, 13, Len(data) - 1) = body

(* What the terminal is told is cut out of the answer.                     *)
LEMMA ToldIs ==
    ASSUME NEW f, NEW c, Wrapped(f, c), NEW id, NEW digits, Sender(digits),
           NEW body \in Seq(Byte), NEW serial, IsContent(c, id, digits, body, serial)
    PROVE  Told(f, id, digits, body)
  <1>1. PICK n \in Nat : n = Len(body)
    BY LenProperties
  <1>2. c \in Seq(Byte) /\ Len(c) = 12 + n
    BY <1>1 DEF IsContent
  <1>3. PICK sum \in Byte : sum = XorChecksum(c)
    BY <1>2, XorSumTyped
  <1>4. PICK data \in Seq(Byte) : /\ data = Append(c, sum)
                                  /\ Len(data) = 13 + n /\ data[13 + n] = sum
                                  /\ \A i \in 1 .. 12 + n : data[i] = c[i]
    <2>1. /\ Append(c, sum) \in Seq(Byte)
          /\ Len(Append(c, sum)) = Len(c) + 1 /\ Append(c, sum)[Len(c) + 1] = sum
          /\ \A i \in 1 .. Len(c) : Append(c, sum)[i] = c[i]
      BY <1>2, AppendProperties
    <2>2. Len(c) + 1 = 13 + n
      BY <1>2
    <2> QED
      BY <1>2, <2>1, <2>2
  <1>5. J!Unescape(SubSeq(f, 2, Len(f) - 1)) = data
    BY <1>3, <1>4 DEF Wrapped
  <1>6. SubSeq(data, 1, Len(data) - 1) = c
    <2>1. 0 \in Nat /\ 0 + Len(c) <= Len(data) /\ \A i \in 1 .. Len(c) : data[0 + i] = c[i]
      BY <1>2, <1>4
    <2>2. SubSeq(data, 0 + 1, 0 + Len(c)) = c
      BY <1>2, <2>1, SliceIs
    <2>3. 0 + 1 = 1 /\ 0 + Len(c) = Len(data) - 1
      BY <1>2, <1>4
    <2> QED
      BY <2>2, <2>3
  <1>7. Word(data, 1) = id /\ Word(data, 3) = Len(body)
    <2>1. Word(c, 1) = id /\ Word(c, 3) = Len(body)
      BY DEF IsContent
    <2>2. Word(data, 1) = Word(c, 1) /\ Word(data, 3) = Word(c, 3)
      BY <1>4 DEF Word
    <2> QED
      BY <2>1, <2>2
  <1>8. Part(data, 5, 6) = BcdEncode(digits, 6)
    <2>1. SubSeq(c, 5, 10) = BcdEncode(digits, 6)
      <3>1. 5 + 6 - 1 = 10 /\ Part(c, 5, 6) = BcdEncode(digits, 6)
        BY DEF IsContent
      <3> QED
        BY <3>1 DEF Part
    <2>2. PICK s \in Seq(Byte) : s = SubSeq(c, 5, 10) /\ Len(s) = 6 /\ \A i \in 1 .. 6 : s[i] = c[4 + i]
      <3>1. 5 \in 1 .. Len(c) + 1 /\ 10 \in 0 .. Len(c) /\ 5 <= 10 + 1
        BY <1>2
      <3>2. /\ SubSeq(c, 5, 10) \in Seq(Byte) /\ Len(SubSeq(c, 5, 10)) = 10 - 5 + 1
            /\ \A i \in 1 .. 10 - 5 + 1 : SubSeq(c, 5, 10)[i] = c[5 + i - 1]
        BY <1>2, <3>1, PartIs
      <3>3. 10 - 5 + 1 = 6 /\ \A i \in 1 .. 6 : 5 + i - 1 = 4 + i
        OBVIOUS
      <3>4. PICK t : t = SubSeq(c, 5, 10)
        OBVIOUS
      <3>5. t \in Seq(Byte) /\ Len(t) = 6
        BY <3>2, <3>3, <3>4
      <3>6. \A i \in 1 .. 6 : t[i] = c[4 + i]
        BY <3>2, <3>3, <3>4
      <3> QED
        BY <3>4, <3>5, <3>6
    <2>3. SubSeq(data, 4 + 1, 4 + Len(s)) = s
      <3>1. 4 \in Nat /\ 4 + Len(s) <= Len(data) /\ \A i \in 1 .. Len(s) : data[4 + i] = s[i]
        BY <1>4, <2>2
      <3> QED
        BY <3>1, SliceIs
    <2>4. 4 + 1 = 5 /\ 4 + Len(s) = 5 + 6 - 1
      BY <2>2
    <2> QED
      BY <2>1, <2>2, <2>3, <2>4 DEF Part
  <1>9. SubSeq(data, 13, Len(data) - 1) = body
    <2>1. \A i \in 1 .. n : body[i] = c[12 + i]
      <3>1. 13 \in 1 .. Len(c) + 1 /\ Len(c) \in 0 .. Len(c) /\ 13 <= Len(c) + 1
        BY <1>2
      <3>2. \A i \in 1 .. Len(c) - 13 + 1 : SubSeq(c, 13, Len(c))[i] = c[13 + i - 1]
        BY <1>2, <3>1, PartIs
      <3>3. Len(c) - 13 + 1 = n /\ \A i \in 1 .. n : 13 + i - 1 = 12 + i
        BY <1>2
      <3>4. SubSeq(c, 13, Len(c)) = body
        BY DEF IsContent
      <3> QED
        BY <3>2, <3>3, <3>4
    <2>2. 12 \in Nat /\ 12 + Len(body) <= Len(data) /\ \A i \in 1 .. Len(body) : data[12 + i] = body[i]
      BY <1>1, <1>4, <2>1
    <2>3. SubSeq(data, 12 + 1, 12 + Len(body)) = body
      BY <2>2, SliceIs
    <2>4. 12 + 1 = 13 /\ 12 + Len(body) = Len(data) - 1
      BY <1>1, <1>4
    <2> QED
      BY <2>3, <2>4
  <1>10. J!Terminal(BcdEncode(digits, 6)) = digits
    BY TerminalIs
  <1>11. \A i \in 1 .. Len(f) : f[i] = 126 <=> i \in {1, Len(f)}
    BY DEF Wrapped
  <1>12. XorChecksum(c) = data[Len(data)]
    BY <1>3, <1>4
  <1> QED
    BY <1>5, <1>6, <1>7, <1>8, <1>9, <1>10, <1>11, <1>12 DEF Told

(* The bytes of an answer.                                                 *)
LEMMA AnswerBytes ==
    ASSUME NEW w \in Seq(Byte), Len(w) = 2, NEW s \in Seq(Byte), Len(s) <= 12
    PROVE  w \o <<0>> \o s \in Seq(Byte) /\ Len(w \o <<0>> \o s) < 1024
  <1>1. PICK z \in Seq(Byte) : z = <<0>> /\ Len(z) = 1
    <2>1. 0 \in Byte
      BY DEF Byte
    <2>2. <<0>> \in Seq(Byte) /\ Len(<<0>>) = 1
      BY <2>1
    <2> QED
      BY <2>2
  <1>2. PICK q : q = w \o z
    OBVIOUS
  <1>3. Glued(q, w, z)
    BY <1>2, ConcatIs
  <1>4. q \in Seq(Byte) /\ Len(q) = 3
    BY <1>1, <1>3 DEF Glued
  <1>5. Glued(q \o s, q, s)
    BY <1>4, ConcatIs
  <1>6. q \o s \in Seq(Byte) /\ Len(q \o s) = 3 + Len(s)
    BY <1>4, <1>5 DEF Glued
  <1>7. Len(s) \in Nat
    BY LenProperties
  <1> QED
    BY <1>1, <1>2, <1>6, <1>7

(* A message of JT808 is answered, and its tracker reads the answer.       *)
LEMMA Jt808IsAnswered ==
    ASSUME NEW m, m.protocol = "jt808", Jt808Meant(m), NEW s \in TwoBytes,
           NEW r, r.id = m.id, r.serial = m.serial, r.from = m.digits, r.terminalBytes = 6
    PROVE  Answers(J!Reply(r, s), m)
  <1>1. m.serial \in TwoBytes /\ Sender(m.digits)
    BY DEF Jt808Meant, Sender
  <1>2. m.id \in {256, 258, 2, 3, 512, 1796} /\ m.id \in TwoBytes
    BY Jt808Ids, SMT DEF Jt808Meant
  <1> DEFINE id == IF m.id = J!Register THEN J!RegisterResponse ELSE J!PlatformResponse
             body == IF m.id = J!Register
                     THEN WordBytes(m.serial) \o <<0>> \o J!Ascii(m.digits)
                     ELSE WordBytes(m.serial) \o WordBytes(m.id) \o <<0>>
  <1>3. id \in TwoBytes
    BY Jt808Ids, SMT
  <1>4. body \in Seq(Byte) /\ Len(body) < 1024
    <2>1. PICK w \in Seq(Byte) : w = WordBytes(m.serial) /\ Len(w) = 2
      BY <1>1, WordIs
    <2>2. PICK v \in Seq(Byte) : v = WordBytes(m.id) /\ Len(v) = 2
      BY <1>2, WordIs
    <2>3. PICK a \in Seq(Byte) : a = J!Ascii(m.digits) /\ Len(a) <= 12
      BY <1>1, AsciiIs
    <2>4. w \o <<0>> \o a \in Seq(Byte) /\ Len(w \o <<0>> \o a) < 1024
      BY <2>1, <2>3, AnswerBytes
    <2>5. w \o v \o <<0>> \in Seq(Byte) /\ Len(w \o v \o <<0>>) < 1024
      <3>1. PICK z \in Seq(Byte) : z = <<0>> /\ Len(z) = 1
        <4>1. 0 \in Byte
          BY DEF Byte
        <4>2. <<0>> \in Seq(Byte) /\ Len(<<0>>) = 1
          BY <4>1
        <4> QED
          BY <4>2
      <3>2. PICK q : q = w \o v
        OBVIOUS
      <3>3. Glued(q, w, v)
        BY <3>2, ConcatIs
      <3>4. q \in Seq(Byte) /\ Len(q) = 4
        BY <2>1, <2>2, <3>3 DEF Glued
      <3>5. Glued(q \o z, q, z)
        BY <3>4, ConcatIs
      <3>6. q \o z \in Seq(Byte) /\ Len(q \o z) = 5
        BY <3>1, <3>4, <3>5 DEF Glued
      <3> QED
        BY <3>1, <3>2, <3>6
    <2> QED
      BY <2>1, <2>2, <2>3, <2>4, <2>5
  <1>5. J!Reply(r, s) = J!BuildFrame(id, m.digits, body, s, 6)
    <2>1. J!WordBytes(m.serial) = WordBytes(m.serial) /\ J!WordBytes(m.id) = WordBytes(m.id)
      BY <1>1, <1>2, WordIs
    <2>2. CASE m.id = J!Register
      BY <2>1, <2>2 DEF J!Reply
    <2>3. CASE m.id # J!Register
      <3>1. m.id \in {J!Auth, J!LocationMsg, J!LocationBatch, J!Heartbeat, J!Logout}
        BY <1>2, <2>3, Jt808Ids, SMT
      <3> QED
        BY <2>1, <2>3, <3>1 DEF J!Reply
    <2> QED
      BY <2>2, <2>3
  <1>6. (m.id = J!Register => /\ id = J!RegisterResponse
                              /\ body = WordBytes(m.serial) \o <<0>> \o J!Ascii(m.digits))
        /\ (m.id # J!Register => /\ id = J!PlatformResponse
                                 /\ body = WordBytes(m.serial) \o WordBytes(m.id) \o <<0>>)
    OBVIOUS
  <1> HIDE DEF id, body
  <1>7. PICK c, f : f = J!Reply(r, s) /\ Wrapped(f, c) /\ IsContent(c, id, m.digits, body, s)
    <2>1. PICK c : /\ Wrapped(J!BuildFrame(id, m.digits, body, s, 6), c)
                   /\ IsContent(c, id, m.digits, body, s)
      BY <1>1, <1>3, <1>4, BuildIs
    <2> QED
      BY <1>5, <2>1
  <1>8. Told(f, id, m.digits, body)
    BY <1>1, <1>4, <1>7, ToldIs
  <1>9. f # <<>>
    <2>1. Len(f) >= 2
      BY <1>7 DEF Wrapped
    <2>2. Len(f) # 0
      BY <2>1
    <2> QED
      BY <2>2, EmptyIs
  <1>10. AnswersJt808(f, m)
    BY <1>6, <1>8 DEF AnswersJt808, Told, J!Delimiter
  <1>11. MustBeAnswered(m)
    BY <1>2, Jt808Ids, SMT DEF MustBeAnswered
  <1> QED
    BY <1>7, <1>9, <1>10, <1>11 DEF Answers
=============================================================================
