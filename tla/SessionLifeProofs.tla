-------------------------- MODULE SessionLifeProofs --------------------------
(***************************************************************************)
(* What tickets, players, teams and attributes keep on their way from the  *)
(* core into a session and through any number of rounds of backfill, for   *)
(* any tickets, any players and any attributes.                            *)
(*                                                                         *)
(* Two operators of the model are defined by recursion: Only, the loop     *)
(* that appends what it keeps, and FlattenSeq. The first part says what    *)
(* they compute. Their induction is that of StepByStep, which needs no     *)
(* more than the pigeonhole principle.                                     *)
(***************************************************************************)
EXTENDS SessionLife, FiniteSetTheorems, SequenceTheorems, TLAPS

\* A set that holds 0, and with any number below n the next, holds all numbers from 0
\* to n. Otherwise adding 1 would map its part below the first number that is missing
\* into that part without 0.
LEMMA StepByStep ==
  ASSUME NEW n \in Nat, NEW P, 0 \in P,
         \A k \in 0 .. n - 1 : k \in P => k + 1 \in P
  PROVE  \A k \in 0 .. n : k \in P
  <1> SUFFICES ASSUME NEW i \in 0 .. n, i \notin P PROVE FALSE
    OBVIOUS
  <1> DEFINE S == {k \in 0 .. i : k \in P}
             next == [k \in S |-> k + 1]
  <1>1. IsFiniteSet(S) /\ IsFiniteSet(S \ {0}) /\ Cardinality(S \ {0}) < Cardinality(S)
    <2>1. IsFiniteSet(0 .. i) /\ S \in SUBSET (0 .. i)
      BY FS_Interval
    <2>2. 0 \in S
      OBVIOUS
    <2> HIDE DEF S
    <2>3. IsFiniteSet(S)
      BY <2>1, FS_Subset
    <2>4. IsFiniteSet(S \ {0}) /\ Cardinality(S \ {0}) = Cardinality(S) - 1
      BY <2>2, <2>3, FS_RemoveElement
    <2>5. Cardinality(S) \in Nat
      BY <2>3, FS_CardinalityType
    <2> QED BY <2>3, <2>4, <2>5
  <1>2. next \in [S -> S \ {0}]
    OBVIOUS
  <1>3. \A x, y \in S : x # y => next[x] # next[y]
    OBVIOUS
  <1> HIDE DEF S, next
  <1> QED BY <1>1, <1>2, <1>3, FS_PigeonHole

(***************************************************************************)
(* There is a function that starts with a value and makes each of the      *)
(* following from the one before.                                          *)
(***************************************************************************)
Unrolls(f, first, step, n) ==
    f[0] = first /\ \A k \in 1 .. n : f[k] = step[<<f[k - 1], k>>]

\* A recursion over 0 .. n with values in T has a solution.
LEMMA RecursionDefines ==
  ASSUME NEW n \in Nat, NEW T, NEW first \in T,
         NEW step \in [T \X (1 .. n) -> T]
  PROVE  \E f \in [0 .. n -> T] : Unrolls(f, first, step, n)
  <1> DEFINE Up(f, k) == /\ f \in [0 .. k -> T] /\ f[0] = first
                         /\ \A j \in 1 .. k : f[j] = step[<<f[j - 1], j>>]
             P == {k \in 0 .. n : \E f \in [0 .. k -> T] : Up(f, k)}
  <1>1. 0 \in P
    <2> DEFINE f == [j \in 0 .. 0 |-> first]
    <2>1. Up(f, 0)
      OBVIOUS
    <2> HIDE DEF f
    <2> QED BY <2>1
  <1>2. ASSUME NEW k \in 0 .. n - 1, k \in P PROVE k + 1 \in P
    <2>1. PICK f \in [0 .. k -> T] : Up(f, k)
      BY <1>2
    <2> DEFINE g == [j \in 0 .. k + 1 |-> IF j = k + 1 THEN step[<<f[k], k + 1>>] ELSE f[j]]
    <2>2. step[<<f[k], k + 1>>] \in T
      OBVIOUS
    <2>3. g \in [0 .. k + 1 -> T] /\ g[0] = first
      BY <2>1, <2>2
    <2>4. \A j \in 1 .. k + 1 : g[j] = step[<<g[j - 1], j>>]
      <3> SUFFICES ASSUME NEW j \in 1 .. k + 1 PROVE g[j] = step[<<g[j - 1], j>>]
        OBVIOUS
      <3>1. CASE j = k + 1
        <4>1. k \in 0 .. k + 1 /\ k # k + 1 /\ j - 1 = k
          BY <3>1
        <4>2. g[k] = f[k] /\ g[j] = step[<<f[k], k + 1>>]
          BY <3>1, <4>1
        <4> QED BY <3>1, <4>1, <4>2
      <3>2. CASE j # k + 1
        <4>1. j \in 1 .. k /\ j - 1 \in 0 .. k /\ j - 1 # k + 1
          BY <3>2
        <4>2. g[j] = f[j] /\ g[j - 1] = f[j - 1]
          BY <3>2, <4>1
        <4> QED BY <2>1, <4>1, <4>2
      <3> QED BY <3>1, <3>2
    <2> HIDE DEF g
    <2>5. k + 1 \in 0 .. n
      OBVIOUS
    <2> QED BY <2>3, <2>4, <2>5
  <1> HIDE DEF P
  <1>3. \A k \in 0 .. n : k \in P
    BY <1>1, <1>2, StepByStep
  <1>4. n \in P
    BY <1>3
  <1> QED BY <1>4 DEF P, Unrolls

-----------------------------------------------------------------------------
(***************************************************************************)
(* Only: what it appends and in which order.                               *)
(***************************************************************************)
OnlyStep(f, s, kept, n) ==
    f[n] = IF n \in kept THEN Append(f[n - 1], s[n]) ELSE f[n - 1]

OnlySteps(f, s, kept) == f[0] = <<>> /\ \A n \in 1 .. Len(s) : OnlyStep(f, s, kept, n)

OnlyFunction(s, kept) ==
    CHOOSE f : f = [n \in 0 .. Len(s) |->
                       IF n = 0 THEN <<>>
                       ELSE IF n \in kept THEN Append(f[n - 1], s[n]) ELSE f[n - 1]]

\* The recursive function of Only exists, and Only is its last value.
LEMMA OnlyUnfolds ==
  ASSUME NEW S, NEW s \in Seq(S), NEW kept
  PROVE  \E f \in [0 .. Len(s) -> Seq(S)] :
            OnlySteps(f, s, kept) /\ Only(s, kept) = f[Len(s)]
  <1> DEFINE T == Seq(S)
             m == Len(s)
             step == [p \in T \X (1 .. m) |->
                         IF p[2] \in kept THEN Append(p[1], s[p[2]]) ELSE p[1]]
             Def(f) == f = [n \in 0 .. m |->
                               IF n = 0 THEN <<>>
                               ELSE IF n \in kept THEN Append(f[n - 1], s[n]) ELSE f[n - 1]]
             Steps(f) == \A n \in 1 .. m : OnlyStep(f, s, kept, n)
             g == OnlyFunction(s, kept)
  <1>1. step \in [T \X (1 .. m) -> T] /\ <<>> \in T /\ m \in Nat
    BY ElementOfSeq, AppendProperties, EmptySeq, LenProperties
  <1>2. \A p \in T : \A n \in 1 .. m :
            step[<<p, n>>] = IF n \in kept THEN Append(p, s[n]) ELSE p
    OBVIOUS
  <1> HIDE DEF T, step
  <1>3. PICK f \in [0 .. m -> T] : Unrolls(f, <<>>, step, m)
    <2> HIDE DEF m
    <2> QED BY <1>1, RecursionDefines
  <1>4. Steps(f)
    <2> SUFFICES ASSUME NEW n \in 1 .. m PROVE OnlyStep(f, s, kept, n)
      OBVIOUS
    <2>1. n - 1 \in 0 .. m
      BY <1>1
    <2>2. f[n - 1] \in T /\ f[n] = step[<<f[n - 1], n>>]
      BY <1>3, <2>1 DEF Unrolls
    <2> QED BY <1>2, <2>2 DEF OnlyStep
  <1>5. f[0] = <<>>
    BY <1>3 DEF Unrolls
  <1> HIDE DEF m
  <1>6. Def(f)
    <2>1. \A n \in 0 .. m :
              f[n] = IF n = 0 THEN <<>>
                     ELSE IF n \in kept THEN Append(f[n - 1], s[n]) ELSE f[n - 1]
      <3> SUFFICES ASSUME NEW n \in 0 .. m
                   PROVE  f[n] = IF n = 0 THEN <<>>
                                 ELSE IF n \in kept THEN Append(f[n - 1], s[n]) ELSE f[n - 1]
        OBVIOUS
      <3>1. CASE n = 0
        BY <1>5, <3>1
      <3>2. CASE n # 0
        <4>1. n \in 1 .. m
          BY <1>1, <3>2
        <4> QED BY <1>4, <3>2, <4>1 DEF OnlyStep
      <3> QED BY <3>1, <3>2
    <2> QED BY <2>1
  <1>7. Def(g) /\ Only(s, kept) = g[m]
    BY <1>6 DEF Only, OnlyFunction, m
  <1> HIDE DEF g
  <1>8. g[0] = <<>> /\ Steps(g)
    <2>1. 0 \in 0 .. m
      BY <1>1
    <2>2. g[0] = <<>>
      BY ONLY <1>7, <2>1
    <2>3. ASSUME NEW n \in 1 .. m PROVE OnlyStep(g, s, kept, n)
      <3>1. n \in 0 .. m /\ n # 0
        BY <1>1
      <3> QED BY ONLY <1>7, <3>1 DEF OnlyStep
    <2> QED BY <2>2, <2>3
  <1>9. \A k \in 0 .. m : f[k] = g[k]
    <2> DEFINE P == {k \in 0 .. m : f[k] = g[k]}
    <2>1. 0 \in P
      BY <1>1, <1>5, <1>8
    <2>2. ASSUME NEW k \in 0 .. m - 1, k \in P PROVE k + 1 \in P
      <3>1. k + 1 \in 1 .. m /\ k + 1 \in 0 .. m /\ k + 1 - 1 = k
        BY <1>1
      <3>2. OnlyStep(f, s, kept, k + 1) /\ OnlyStep(g, s, kept, k + 1)
        BY <1>4, <1>8, <3>1
      <3> QED BY <2>2, <3>1, <3>2 DEF OnlyStep
    <2> HIDE DEF P
    <2>3. \A k \in 0 .. m : k \in P
      BY <1>1, <2>1, <2>2, StepByStep
    <2> QED BY <2>3 DEF P
  <1> QED BY <1>1, <1>4, <1>5, <1>7, <1>9 DEF OnlySteps, m, T

\* What is kept of a sequence is a sequence of the same elements.
LEMMA OnlyType ==
  ASSUME NEW S, NEW s \in Seq(S), NEW kept
  PROVE  Only(s, kept) \in Seq(S)
  BY OnlyUnfolds, LenProperties

\* Every element that is kept is there.
LEMMA OnlyKeeps ==
  ASSUME NEW S, NEW s \in Seq(S), NEW kept, NEW i \in 1 .. Len(s), i \in kept
  PROVE  \E j \in 1 .. Len(Only(s, kept)) : Only(s, kept)[j] = s[i]
  <1>1. PICK f \in [0 .. Len(s) -> Seq(S)] : OnlySteps(f, s, kept) /\ Only(s, kept) = f[Len(s)]
    BY OnlyUnfolds
  <1> DEFINE There(t) == \E j \in 1 .. Len(t) : t[j] = s[i]
             P == {k \in 0 .. Len(s) : k >= i => There(f[k])}
  <1>2. Len(s) \in Nat
    BY LenProperties
  <1>3. ASSUME NEW k \in 0 .. Len(s) - 1, k \in P PROVE k + 1 \in P
    <2>1. k + 1 \in 1 .. Len(s) /\ k \in 0 .. Len(s) /\ k + 1 - 1 = k
      BY <1>2
    <2>2. f[k] \in Seq(S) /\ s[k + 1] \in S
      BY <2>1, ElementOfSeq
    <2>3. OnlyStep(f, s, kept, k + 1)
      BY <1>1, <2>1 DEF OnlySteps
    <2>4. CASE k + 1 \in kept
      <3> DEFINE t == Append(f[k], s[k + 1])
      <3>1. Len(t) = Len(f[k]) + 1 /\ t[Len(t)] = s[k + 1] /\ Len(f[k]) \in Nat
            /\ \A j \in 1 .. Len(f[k]) : t[j] = f[k][j]
        BY <2>2, AppendProperties, LenProperties
      <3>2. f[k + 1] = t
        BY <2>1, <2>3, <2>4 DEF OnlyStep
      <3> HIDE DEF t
      <3>3. CASE k + 1 = i
        BY <2>1, <3>1, <3>2, <3>3
      <3>4. CASE k >= i
        <4>1. PICK j \in 1 .. Len(f[k]) : f[k][j] = s[i]
          BY <1>3, <3>4
        <4>2. j \in 1 .. Len(t) /\ t[j] = s[i]
          BY <3>1, <4>1
        <4> QED BY <2>1, <3>2, <4>2
      <3> QED BY <2>1, <3>3, <3>4
    <2>5. CASE k + 1 \notin kept
      <3>1. k + 1 # i /\ f[k + 1] = f[k]
        BY <2>1, <2>3, <2>5 DEF OnlyStep
      <3>2. k + 1 >= i => There(f[k + 1])
        BY <1>3, <3>1
      <3> QED BY <2>1, <3>2
    <2> QED BY <2>4, <2>5
  <1>4. 0 \in P
    BY <1>2
  <1> HIDE DEF P
  <1>5. \A k \in 0 .. Len(s) : k \in P
    BY <1>2, <1>3, <1>4, StepByStep
  <1> QED BY <1>1, <1>2, <1>5 DEF P

\* When every position is kept, nothing is left out.
LEMMA OnlyAll ==
  ASSUME NEW S, NEW s \in Seq(S), NEW kept, \A n \in 1 .. Len(s) : n \in kept
  PROVE  Only(s, kept) = s
  <1>1. PICK f \in [0 .. Len(s) -> Seq(S)] : OnlySteps(f, s, kept) /\ Only(s, kept) = f[Len(s)]
    BY OnlyUnfolds
  <1> DEFINE Same(k) == Len(f[k]) = k /\ \A j \in 1 .. k : f[k][j] = s[j]
             P == {k \in 0 .. Len(s) : Same(k)}
  <1>2. Len(s) \in Nat
    BY LenProperties
  <1>3. 0 \in P
    BY <1>1, <1>2, EmptySeq DEF OnlySteps
  <1>4. ASSUME NEW k \in 0 .. Len(s) - 1, k \in P PROVE k + 1 \in P
    <2>1. k + 1 \in 1 .. Len(s) /\ k \in 0 .. Len(s) /\ k + 1 - 1 = k
      BY <1>2
    <2>2. f[k] \in Seq(S) /\ s[k + 1] \in S
      BY <2>1, ElementOfSeq
    <2>3. f[k + 1] = Append(f[k], s[k + 1])
      <3>1. OnlyStep(f, s, kept, k + 1) /\ k + 1 \in kept
        BY <1>1, <2>1 DEF OnlySteps
      <3> QED BY <2>1, <3>1 DEF OnlyStep
    <2>4. Len(f[k + 1]) = k + 1 /\ f[k + 1][k + 1] = s[k + 1]
          /\ \A j \in 1 .. k : f[k + 1][j] = f[k][j]
      BY <1>4, <2>2, <2>3, AppendProperties
    <2>5. Same(k + 1)
      BY <1>4, <2>1, <2>4
    <2> QED BY <2>1, <2>5
  <1> HIDE DEF P
  <1>5. \A k \in 0 .. Len(s) : k \in P
    BY <1>2, <1>3, <1>4, StepByStep
  <1>6. f[Len(s)] \in Seq(S) /\ Same(Len(s))
    BY <1>2, <1>5 DEF P
  <1> QED BY <1>1, <1>6, SeqEqual
-----------------------------------------------------------------------------
(***************************************************************************)
(* FlattenSeq, one sequence at a time.                                     *)
(***************************************************************************)
FlattenStep(f, s, n) == f[n] = f[n - 1] \o s[n]

FlattenSteps(f, s) == f[0] = <<>> /\ \A n \in 1 .. Len(s) : FlattenStep(f, s, n)

FlattenFunction(s) ==
    CHOOSE f : f = [i \in 1 .. Len(s) |-> IF i = 1 THEN s[i] ELSE f[i - 1] \o s[i]]

\* The recursive function of FlattenSeq exists, and FlattenSeq is its last value.
LEMMA FlattenUnfolds ==
  ASSUME NEW U, NEW s \in Seq(Seq(U))
  PROVE  \E f \in [0 .. Len(s) -> Seq(U)] : FlattenSteps(f, s) /\ FlattenSeq(s) = f[Len(s)]
  <1> DEFINE T == Seq(U)
             m == Len(s)
             step == [p \in T \X (1 .. m) |-> p[1] \o s[p[2]]]
             Def(f) == f = [i \in 1 .. m |-> IF i = 1 THEN s[i] ELSE f[i - 1] \o s[i]]
             g == FlattenFunction(s)
  <1>1. step \in [T \X (1 .. m) -> T] /\ <<>> \in T /\ m \in Nat
    BY ElementOfSeq, ConcatProperties, EmptySeq, LenProperties
  <1>2. \A p \in T : \A n \in 1 .. m : step[<<p, n>>] = p \o s[n]
    OBVIOUS
  <1>3. \A n \in 1 .. m : s[n] \in T
    BY ElementOfSeq
  <1> HIDE DEF step
  <1>4. PICK f \in [0 .. m -> T] : Unrolls(f, <<>>, step, m)
    <2> HIDE DEF m, T
    <2> QED BY <1>1, RecursionDefines
  <1>5. \A n \in 1 .. m : FlattenStep(f, s, n)
    <2> SUFFICES ASSUME NEW n \in 1 .. m PROVE FlattenStep(f, s, n)
      OBVIOUS
    <2>1. n - 1 \in 0 .. m
      BY <1>1
    <2>2. f[n - 1] \in T /\ f[n] = step[<<f[n - 1], n>>]
      BY <1>4, <2>1 DEF Unrolls
    <2> QED BY <1>2, <2>2 DEF FlattenStep
  <1>6. f[0] = <<>>
    BY <1>4 DEF Unrolls
  <1>7. CASE m = 0
    <2>1. s = <<>>
      BY <1>7, EmptySeq
    <2> QED BY <1>5, <1>6, <1>7, <2>1 DEF FlattenSeq, FlattenSteps
  <1>8. CASE m # 0
    <2> DEFINE h == [i \in 1 .. m |-> f[i]]
    <2>1. FlattenSeq(s) = g[m]
      BY <1>8 DEF FlattenSeq, FlattenFunction
    <2> HIDE DEF m
    <2>2. Def(h)
      <3>1. \A i \in 1 .. m : h[i] = IF i = 1 THEN s[i] ELSE h[i - 1] \o s[i]
        <4> SUFFICES ASSUME NEW i \in 1 .. m
                     PROVE  h[i] = IF i = 1 THEN s[i] ELSE h[i - 1] \o s[i]
          OBVIOUS
        <4>1. CASE i = 1
          <5>1. FlattenStep(f, s, i) /\ i - 1 = 0
            BY <1>5, <4>1
          <5>2. <<>> \o s[i] = s[i]
            BY <1>3, ConcatEmptySeq DEF T
          <5> QED BY <1>6, <4>1, <5>1, <5>2 DEF FlattenStep
        <4>2. CASE i # 1
          <5>1. i - 1 \in 1 .. m
            BY <1>1, <4>2
          <5> QED BY <1>5, <4>2, <5>1 DEF FlattenStep
        <4> QED BY <4>1, <4>2
      <3> QED BY <3>1
    <2>3. Def(g)
      BY <2>2 DEF FlattenFunction, m
    <2> HIDE DEF g, h
    <2>4. g[1] = s[1] /\ \A i \in 2 .. m : FlattenStep(g, s, i)
      <3>1. 1 \in 1 .. m
        BY <1>1, <1>8
      <3>2. g[1] = s[1]
        BY ONLY <2>3, <3>1
      <3>3. ASSUME NEW i \in 2 .. m PROVE FlattenStep(g, s, i)
        <4>1. i \in 1 .. m /\ i # 1
          BY <1>1
        <4> QED BY ONLY <2>3, <4>1 DEF FlattenStep
      <3> QED BY <3>2, <3>3
    <2>5. \A k \in 0 .. m : k >= 1 => f[k] = g[k]
      <3> DEFINE P == {k \in 0 .. m : k >= 1 => f[k] = g[k]}
      <3>1. 0 \in P
        BY <1>1
      <3>2. ASSUME NEW k \in 0 .. m - 1, k \in P PROVE k + 1 \in P
        <4>1. PICK j \in 1 .. m : j = k + 1 /\ j - 1 = k
          BY <1>1
        <4>2. f[j] = f[k] \o s[j]
          BY <1>5, <4>1 DEF FlattenStep
        <4>3. f[j] = g[j]
          <5>1. CASE k = 0
            <6>1. <<>> \o s[1] = s[1] /\ j = 1
              BY <1>3, <4>1, <5>1, ConcatEmptySeq DEF T
            <6> QED BY <1>6, <2>4, <4>2, <5>1, <6>1
          <5>2. CASE k # 0
            <6>1. j \in 2 .. m /\ f[k] = g[k]
              BY <1>1, <3>2, <4>1, <5>2
            <6> QED BY <2>4, <4>1, <4>2, <6>1 DEF FlattenStep
          <5> QED BY <5>1, <5>2
        <4> QED BY <4>1, <4>3
      <3> HIDE DEF P
      <3>3. \A k \in 0 .. m : k \in P
        BY <1>1, <3>1, <3>2, StepByStep
      <3> QED BY <3>3 DEF P
    <2>6. f[m] = g[m]
      BY <1>1, <1>8, <2>5
    <2> QED BY <1>5, <1>6, <2>1, <2>6 DEF FlattenSteps, m, T
  <1> QED BY <1>7, <1>8

\* Concatenating no sequences.
LEMMA FlattenEmpty ==
  FlattenSeq(<<>>) = <<>>
  <1>1. Len(<<>>) = 0
    OBVIOUS
  <1> QED BY <1>1 DEF FlattenSeq

\* Concatenating sequences over U gives one.
LEMMA FlattenType ==
  ASSUME NEW U, NEW s \in Seq(Seq(U))
  PROVE  FlattenSeq(s) \in Seq(U)
  <1>1. PICK f \in [0 .. Len(s) -> Seq(U)] : FlattenSteps(f, s) /\ FlattenSeq(s) = f[Len(s)]
    BY FlattenUnfolds
  <1>2. Len(s) \in 0 .. Len(s)
    BY LenProperties
  <1> QED BY <1>1, <1>2

\* Concatenating one sequence more.
LEMMA FlattenAppend ==
  ASSUME NEW U, NEW s \in Seq(Seq(U)), NEW e \in Seq(U)
  PROVE  FlattenSeq(Append(s, e)) = FlattenSeq(s) \o e
  <1> DEFINE t == Append(s, e)
             m == Len(s)
  <1>1. /\ t \in Seq(Seq(U)) /\ m \in Nat /\ Len(t) = m + 1
        /\ t[m + 1] = e /\ \A j \in 1 .. m : t[j] = s[j]
    BY AppendProperties, LenProperties
  <1>2. PICK f \in [0 .. m -> Seq(U)] : FlattenSteps(f, s) /\ FlattenSeq(s) = f[m]
    BY FlattenUnfolds
  <1> HIDE DEF t, m
  <1>3. PICK g \in [0 .. m + 1 -> Seq(U)] : FlattenSteps(g, t) /\ FlattenSeq(t) = g[m + 1]
    BY <1>1, FlattenUnfolds
  <1> DEFINE P == {k \in 0 .. m : f[k] = g[k]}
  <1>4. 0 \in P
    BY <1>1, <1>2, <1>3 DEF FlattenSteps
  <1>5. ASSUME NEW k \in 0 .. m - 1, k \in P PROVE k + 1 \in P
    <2>1. PICK j \in 1 .. m : j = k + 1 /\ j - 1 = k /\ j \in 1 .. m + 1
      BY <1>1
    <2>2. FlattenStep(f, s, j) /\ FlattenStep(g, t, j) /\ t[j] = s[j] /\ f[k] = g[k]
      BY <1>1, <1>2, <1>3, <1>5, <2>1 DEF FlattenSteps, m
    <2>3. f[j] = g[j]
      BY <2>1, <2>2 DEF FlattenStep
    <2> QED BY <2>1, <2>3
  <1>6. \A k \in 0 .. m : k \in P
    <2> HIDE DEF P
    <2> QED BY <1>1, <1>4, <1>5, StepByStep
  <1>7. f[m] = g[m]
    BY <1>1, <1>6
  <1>8. PICK j : j = m + 1 /\ j - 1 = m
    BY <1>1
  <1>9. FlattenStep(g, t, j)
    BY <1>1, <1>3, <1>8 DEF FlattenSteps
  <1>10. g[j] = g[m] \o e
    BY <1>1, <1>8, <1>9 DEF FlattenStep
  <1> QED BY <1>2, <1>3, <1>7, <1>8, <1>10 DEF t

Users(teams) == [n \in DOMAIN teams |-> teams[n].users]

\* The users of a list of teams are one list for each team.
LEMMA UsersType ==
  ASSUME NEW U, NEW S, \A t \in S : t.users \in Seq(U), NEW teams \in Seq(S)
  PROVE  /\ Users(teams) \in Seq(Seq(U))
         /\ Len(Users(teams)) = Len(teams)
         /\ \A n \in 1 .. Len(teams) : Users(teams)[n] = teams[n].users
  <1>1. DOMAIN teams = 1 .. Len(teams) /\ Len(teams) \in Nat
    BY LenProperties
  <1>2. \A n \in 1 .. Len(teams) : teams[n].users \in Seq(U)
    BY ElementOfSeq
  <1>3. Users(teams) \in [1 .. Len(teams) -> Seq(U)]
    BY <1>1, <1>2 DEF Users
  <1> QED BY <1>1, <1>3, IsASeq, LenProperties DEF Users

\* The users after one more team.
LEMMA UsersAppend ==
  ASSUME NEW U, NEW S, \A t \in S : t.users \in Seq(U), NEW teams \in Seq(S), NEW team \in S
  PROVE  Users(Append(teams, team)) = Append(Users(teams), team.users)
  <1> DEFINE all == Append(teams, team)
             us == Users(teams)
             both == Append(us, team.users)
  <1>1. /\ all \in Seq(S) /\ Len(all) = Len(teams) + 1 /\ all[Len(teams) + 1] = team
        /\ Len(teams) \in Nat /\ \A n \in 1 .. Len(teams) : all[n] = teams[n]
    BY AppendProperties, LenProperties
  <1>2. /\ us \in Seq(Seq(U)) /\ Len(us) = Len(teams)
        /\ \A n \in 1 .. Len(teams) : us[n] = teams[n].users
    BY UsersType
  <1>3. team.users \in Seq(U)
    OBVIOUS
  <1>4. /\ Users(all) \in Seq(Seq(U)) /\ Len(Users(all)) = Len(teams) + 1
        /\ \A n \in 1 .. Len(teams) + 1 : Users(all)[n] = all[n].users
    <2> HIDE DEF all
    <2>1. all \in Seq(S)
      BY <1>1
    <2>2. /\ Users(all) \in Seq(Seq(U)) /\ Len(Users(all)) = Len(all)
          /\ \A n \in 1 .. Len(all) : Users(all)[n] = all[n].users
      BY ONLY <2>1, \A t \in S : t.users \in Seq(U), UsersType
    <2> QED BY <1>1, <2>2
  <1> HIDE DEF all, us
  <1>5. /\ both \in Seq(Seq(U)) /\ Len(both) = Len(teams) + 1
        /\ both[Len(teams) + 1] = team.users
        /\ \A n \in 1 .. Len(teams) : both[n] = us[n]
    BY <1>2, <1>3, AppendProperties
  <1> HIDE DEF both
  <1>6. \A n \in 1 .. Len(teams) + 1 : Users(all)[n] = both[n]
    <2>1. ASSUME NEW n \in 1 .. Len(teams) PROVE Users(all)[n] = both[n]
      <3>1. n \in 1 .. Len(teams) + 1
        BY <1>1
      <3>2. all[n] = teams[n] /\ both[n] = us[n] /\ us[n] = teams[n].users
        BY <1>1, <1>2, <1>5
      <3> QED BY <1>4, <3>1, <3>2
    <2>2. ASSUME NEW n, n = Len(teams) + 1 PROVE Users(all)[n] = both[n]
      BY <1>1, <1>4, <1>5, <2>2
    <2>3. \A n \in 1 .. Len(teams) + 1 : n \in 1 .. Len(teams) \/ n = Len(teams) + 1
      BY <1>1
    <2> QED BY <2>1, <2>2, <2>3
  <1>7. Users(all) = both
    BY <1>4, <1>5, <1>6, SeqEqual
  <1> QED BY <1>7 DEF all, both, us

\* The players of all teams are those of the teams with users.
LEMMA FlattenWithUsers ==
  ASSUME NEW U, NEW S, \A t \in S : t.users \in Seq(U), NEW teams \in Seq(S)
  PROVE  FlattenSeq(Users(WithUsers(teams))) = FlattenSeq(Users(teams))
  <1> DEFINE m == Len(teams)
             us == Users(teams)
             kept == {n \in DOMAIN teams : teams[n].users # <<>>}
  <1>1. m \in Nat /\ us \in Seq(Seq(U)) /\ Len(us) = m
        /\ \A n \in 1 .. m : us[n] = teams[n].users /\ teams[n] \in S /\ (n \in kept <=> us[n] # <<>>)
    BY UsersType, LenProperties, ElementOfSeq
  <1>2. PICK f \in [0 .. m -> Seq(S)] :
            OnlySteps(f, teams, kept) /\ WithUsers(teams) = f[m]
    <2> HIDE DEF kept
    <2>1. WithUsers(teams) = Only(teams, kept)
      BY DEF WithUsers, kept
    <2> QED BY <2>1, OnlyUnfolds
  <1> HIDE DEF us, kept, m
  <1>3. PICK g \in [0 .. m -> Seq(U)] : FlattenSteps(g, us) /\ FlattenSeq(us) = g[m]
    BY <1>1, FlattenUnfolds
  <1> DEFINE P == {k \in 0 .. m : FlattenSeq(Users(f[k])) = g[k]}
  <1>4. 0 \in P
    <2>1. Users(<<>>) = <<>>
      BY EmptySeq, UsersType, LenProperties
    <2> QED BY <1>1, <1>2, <1>3, <2>1, FlattenEmpty DEF FlattenSteps, OnlySteps
  <1>5. ASSUME NEW k \in 0 .. m - 1, k \in P PROVE k + 1 \in P
    <2>1. PICK j \in 1 .. m : j = k + 1 /\ j - 1 = k
      <3>1. m \in Nat
        BY <1>1
      <3> QED BY <3>1
    <2>2. OnlyStep(f, teams, kept, j) /\ FlattenStep(g, us, j)
      BY <1>1, <1>2, <1>3, <2>1 DEF OnlySteps, FlattenSteps, m
    <2>3. k \in 0 .. m /\ f[k] \in Seq(S) /\ g[k] \in Seq(U) /\ FlattenSeq(Users(f[k])) = g[k]
      BY <1>1, <1>5
    <2>4. g[j] = g[k] \o us[j]
      BY <2>1, <2>2 DEF FlattenStep
    <2>5. CASE j \in kept
      <3>1. f[j] = Append(f[k], teams[j]) /\ teams[j] \in S /\ us[j] = teams[j].users
        BY <1>1, <2>1, <2>2, <2>5 DEF OnlyStep
      <3>2. Users(f[j]) = Append(Users(f[k]), us[j])
        <4>1. Users(Append(f[k], teams[j])) = Append(Users(f[k]), teams[j].users)
          <5>1. f[k] \in Seq(S) /\ teams[j] \in S
            BY <2>3, <3>1
          <5> QED BY ONLY <5>1, \A t \in S : t.users \in Seq(U), UsersAppend
        <4> QED BY <3>1, <4>1
      <3>3. Users(f[k]) \in Seq(Seq(U)) /\ us[j] \in Seq(U)
        BY <1>1, <2>3, <3>1, UsersType
      <3>4. FlattenSeq(Users(f[j])) = g[j]
        BY <2>3, <2>4, <3>2, <3>3, FlattenAppend
      <3> QED BY <2>1, <3>4
    <2>6. CASE j \notin kept
      <3>1. f[j] = f[k] /\ us[j] = <<>>
        BY <1>1, <2>1, <2>2, <2>6 DEF OnlyStep
      <3>2. g[j] = g[k]
        BY <2>3, <2>4, <3>1, ConcatEmptySeq
      <3> QED BY <2>1, <2>3, <3>1, <3>2
    <2> QED BY <2>5, <2>6
  <1>6. \A k \in 0 .. m : k \in P
    <2> HIDE DEF P
    <2> QED BY <1>1, <1>4, <1>5, StepByStep
  <1>7. m \in P
    BY <1>1, <1>6
  <1> QED BY <1>2, <1>3, <1>7 DEF us, m
-----------------------------------------------------------------------------
(***************************************************************************)
(* Attributes: one trip over the wire leaves what Kept says, and a second  *)
(* one nothing to do.                                                      *)
(***************************************************************************)
Maps == UNION {[names -> Values] : names \in SUBSET Names}

Json == {map \in Maps : Holds(map, {"json"})}

\* No attribute map is a nil map.
LEMMA MapsAreNotNil ==
  Nil \notin Maps
  BY SessionAssumption DEF Maps

\* A function from some names to values is an attribute map.
LEMMA MapType ==
  ASSUME NEW names \in SUBSET Names, NEW map \in [names -> Values]
  PROVE  map \in Maps
  BY DEF Maps

\* The core's attributes are maps or nil.
LEMMA AttributesAreMaps ==
  Attributes \subseteq Maps \cup {Nil}
  <1> SUFFICES ASSUME NEW a \in Attributes, a # Nil PROVE a \in Maps
    OBVIOUS
  <1>1. a \in [DOMAIN a -> Values]
    BY SessionAssumption
  <1>2. DOMAIN a \in SUBSET Names
    BY DEF Names
  <1> QED BY <1>1, <1>2, MapType

\* The empty map holds nothing that JSON cannot write.
LEMMA EmptyMapIsJson ==
  EmptyMap \in Json
  <1>1. EmptyMap \in [{} -> Values]
    BY DEF EmptyMap
  <1>2. EmptyMap \in Maps
    BY <1>1, MapType
  <1> QED BY <1>2 DEF Json, Holds, EmptyMap

\* A map read back from JSON has the same names.
LEMMA WithTypeIsJson ==
  ASSUME NEW map \in Maps
  PROVE  WithType(map, "json") \in Json /\ DOMAIN WithType(map, "json") = DOMAIN map
  <1>1. PICK names \in SUBSET Names : map \in [names -> Values]
    BY DEF Maps
  <1>2. \A k \in names : [map[k] EXCEPT !.type = "json"] \in Values
                         /\ [map[k] EXCEPT !.type = "json"].type = "json"
    BY <1>1 DEF Values
  <1>3. WithType(map, "json") \in [names -> Values]
    BY <1>1, <1>2 DEF WithType
  <1>4. \A k \in names : WithType(map, "json")[k].type = "json"
    BY <1>1, <1>2 DEF WithType
  <1> QED BY <1>1, <1>3, <1>4, MapType DEF Json, Holds

\* What is JSON already stays as it is.
LEMMA JsonStays ==
  ASSUME NEW map \in Json
  PROVE  /\ map \in Maps /\ map # Nil /\ IsStruct(map)
         /\ WithType(map, "json") = map
         /\ convertAttribute(map) = map
         /\ NewStruct(map) = map
         /\ AsMap(map) = map
         /\ Kept(map) = map
  <1>1. PICK names \in SUBSET Names : map \in [names -> Values]
    BY DEF Maps, Json
  <1>2. \A k \in names : map[k] \in Values /\ map[k].type = "json"
    BY <1>1 DEF Json, Holds
  <1>3. \A k \in names : [map[k] EXCEPT !.type = "json"] = map[k]
    BY <1>2 DEF Values
  <1>4. WithType(map, "json") = map
    BY <1>1, <1>3 DEF WithType
  <1>5. map \in Maps /\ map # Nil
    BY MapsAreNotNil DEF Json
  <1>6. Holds(map, {"json", "typed"}) /\ Holds(map, {"json", "nan"})
    BY DEF Json, Holds
  <1> QED BY <1>4, <1>5, <1>6 DEF IsStruct, convertAttribute, NewStruct, AsMap, Kept

\* One trip over the wire leaves what Kept says, whatever the attributes.
LEMMA TripKeeps ==
  ASSUME NEW a \in Maps \cup {Nil}
  PROVE  AsMap(NewStruct(convertAttribute(a))) = Kept(a) /\ Kept(a) \in Json
  <1>1. CASE a = Nil
    <2>1. NewStruct(convertAttribute(a)) = EmptyMap /\ Kept(a) = EmptyMap
      BY <1>1 DEF NewStruct, convertAttribute, Kept
    <2> QED BY <2>1, EmptyMapIsJson, JsonStays
  <1>2. CASE a # Nil /\ Holds(a, {"json", "typed"})
    <2>1. WithType(a, "json") \in Json
      BY <1>2, WithTypeIsJson
    <2>2. convertAttribute(a) = WithType(a, "json") /\ Kept(a) = WithType(a, "json")
      BY <1>2 DEF convertAttribute, Kept
    <2> QED BY <2>1, <2>2, JsonStays
  <1>3. CASE a # Nil /\ ~Holds(a, {"json", "typed"}) /\ Holds(a, {"json", "nan"})
    <2>1. NewStruct(convertAttribute(a)) = a /\ Kept(a) = WithType(a, "json")
      BY <1>3 DEF convertAttribute, NewStruct, Kept
    <2>2. AsMap(a) = WithType(a, "json")
      BY <1>3 DEF AsMap
    <2> QED BY <1>3, <2>1, <2>2, WithTypeIsJson
  <1>4. CASE a # Nil /\ ~Holds(a, {"json", "typed"}) /\ ~Holds(a, {"json", "nan"})
    <2>1. NewStruct(convertAttribute(a)) = Nil /\ Kept(a) = EmptyMap
      BY <1>4 DEF convertAttribute, NewStruct, Kept
    <2> QED BY <2>1, EmptyMapIsJson DEF AsMap
  <1> QED BY <1>1, <1>2, <1>3, <1>4

\* The attributes that EnrichTicket adds survive a trip.
LEMMA EnrichMapIsJson ==
  enrichMap \in Json /\ enrichMap # EmptyMap
  <1>1. enrichMap \in [{"enrichedNumber"} -> Values] /\ {"enrichedNumber"} \in SUBSET Names
    BY DEF enrichMap, Values, Names
  <1>2. enrichMap["enrichedNumber"].type = "json" /\ DOMAIN enrichMap = {"enrichedNumber"}
    BY DEF enrichMap
  <1>3. DOMAIN EmptyMap = {}
    BY DEF EmptyMap
  <1> QED BY <1>1, <1>2, <1>3, MapType DEF Json, Holds

-----------------------------------------------------------------------------
(***************************************************************************)
(* Tickets: what arrives is in JSON and without parties, with the players  *)
(* of the ticket that was sent. A ticket like this arrives unchanged.      *)
(***************************************************************************)
Player == [id : STRING, party : STRING \cup {""}, attributes : Maps \cup {Nil}]
Ticket == [id : TicketIDs, players : Seq(Player), attributes : Maps \cup {Nil}]

JsonPlayer == [id : STRING, party : {""}, attributes : Json]
JsonTicket == [id : TicketIDs, players : Seq(JsonPlayer), attributes : Json]

\* A ticket that has arrived is a ticket.
LEMMA JsonTicketIsTicket ==
  ASSUME NEW ticket \in JsonTicket
  PROVE  ticket \in Ticket
  <1>1. JsonPlayer \subseteq Player
    <2>1. Json \subseteq Maps
      <3> SUFFICES ASSUME NEW map \in Json PROVE map \in Maps
        OBVIOUS
      <3> QED BY JsonStays
    <2> QED BY <2>1 DEF JsonPlayer, Player
  <1>2. ticket.players \in Seq(Player)
    <2>1. ticket.players \in Seq(JsonPlayer)
      BY DEF JsonTicket
    <2> QED BY <1>1, <2>1, SeqMonotonic
  <1> QED BY <1>2 DEF JsonTicket, Ticket, Json

\* A ticket arrives with its id, its players in order, and the attributes that are
\* kept.
LEMMA Arrival ==
  ASSUME NEW ticket \in Ticket
  PROVE  LET there == Arrives(ticket)
         IN  /\ there \in JsonTicket
             /\ there.id = ticket.id
             /\ there.attributes = Kept(ticket.attributes)
             /\ Len(there.players) = Len(ticket.players)
             /\ \A n \in 1 .. Len(ticket.players) :
                   /\ there.players[n].id = ticket.players[n].id
                   /\ there.players[n].attributes = Kept(ticket.players[n].attributes)
  <1> DEFINE there == Arrives(ticket)
             m == Len(ticket.players)
             sent(n) == ticket.players[n]
             trip(a) == AsMap(NewStruct(convertAttribute(a)))
  <1>1. ticket.players \in Seq(Player) /\ m \in Nat /\ DOMAIN ticket.players = 1 .. m
        /\ \A n \in 1 .. m : sent(n) \in Player
    BY LenProperties, ElementOfSeq DEF Ticket
  <1>2. /\ there.id = ticket.id
        /\ there.attributes = trip(ticket.attributes)
        /\ there.players = [n \in 1 .. m |-> [id |-> sent(n).id, party |-> "",
                                               attributes |-> trip(sent(n).attributes)]]
        /\ there = [id |-> there.id, players |-> there.players, attributes |-> there.attributes]
    BY <1>1 DEF Arrives, ProtoTicketToMatchfunctionTicket, MatchfunctionTicketToProtoTicket,
                ProtoTicket, ProtoPlayer, MatchfunctionPlayer, Converted, Ticket, Player
  <1>3. trip(ticket.attributes) = Kept(ticket.attributes) /\ Kept(ticket.attributes) \in Json
    BY TripKeeps DEF Ticket
  <1>4. \A n \in 1 .. m : trip(sent(n).attributes) = Kept(sent(n).attributes)
                          /\ Kept(sent(n).attributes) \in Json /\ sent(n).id \in STRING
    BY <1>1, TripKeeps DEF Player
  <1> HIDE DEF there, trip, m
  <1>5. /\ there.players \in [1 .. m -> JsonPlayer]
        /\ \A n \in 1 .. m : there.players[n].id = sent(n).id
                             /\ there.players[n].attributes = Kept(sent(n).attributes)
    <2>1. \A n \in 1 .. m :
              [id |-> sent(n).id, party |-> "", attributes |-> trip(sent(n).attributes)]
                  \in JsonPlayer
      BY <1>4 DEF JsonPlayer
    <2>2. \A n \in 1 .. m :
              there.players[n] = [id |-> sent(n).id, party |-> "", attributes |-> trip(sent(n).attributes)]
      BY <1>2
    <2> HIDE DEF sent
    <2>3. there.players \in [1 .. m -> JsonPlayer]
      BY <1>2, <2>1
    <2>4. ASSUME NEW n \in 1 .. m
          PROVE  there.players[n].id = sent(n).id
                 /\ there.players[n].attributes = Kept(sent(n).attributes)
      <3>1. PICK player, id, a : player = there.players[n] /\ id = sent(n).id
                                 /\ a = trip(sent(n).attributes)
        OBVIOUS
      <3>2. player = [id |-> id, party |-> "", attributes |-> a]
        BY <2>2, <3>1
      <3>3. player.id = id /\ player.attributes = a
        BY ONLY <3>2
      <3> QED BY <1>4, <3>1, <3>3
    <2> QED BY <2>3, <2>4
  <1>6. there.players \in Seq(JsonPlayer) /\ Len(there.players) = m
    BY <1>1, <1>5, IsASeq, LenProperties
  <1>7. there \in JsonTicket
    BY <1>2, <1>3, <1>6 DEF JsonTicket, Ticket
  <1> QED BY <1>2, <1>3, <1>5, <1>6, <1>7 DEF there, m

\* A ticket that has arrived once is not changed by further trips.
LEMMA ArrivesUnchanged ==
  ASSUME NEW ticket \in JsonTicket
  PROVE  Arrives(ticket) = ticket
  <1> DEFINE there == Arrives(ticket)
             m == Len(ticket.players)
  <1>1. /\ there \in JsonTicket
        /\ there.id = ticket.id
        /\ there.attributes = Kept(ticket.attributes)
        /\ Len(there.players) = m
        /\ \A n \in 1 .. m : there.players[n].id = ticket.players[n].id
                             /\ there.players[n].attributes = Kept(ticket.players[n].attributes)
    <2>1. ticket \in Ticket
      BY JsonTicketIsTicket
    <2> QED BY <2>1, Arrival
  <1> HIDE DEF there
  <1>2. /\ there.players \in Seq(JsonPlayer) /\ ticket.players \in Seq(JsonPlayer)
        /\ ticket.attributes \in Json
    BY <1>1 DEF JsonTicket
  <1>3. there.attributes = ticket.attributes
    BY <1>1, <1>2, JsonStays
  <1>4. ASSUME NEW n \in 1 .. m PROVE there.players[n] = ticket.players[n]
    <2>1. PICK p \in JsonPlayer, q \in JsonPlayer : p = there.players[n] /\ q = ticket.players[n]
      BY <1>1, <1>2, ElementOfSeq
    <2>2. p.id = q.id /\ p.attributes = Kept(q.attributes)
      BY <1>1, <2>1
    <2>3. q.attributes \in Json /\ p.party = "" /\ q.party = ""
      BY DEF JsonPlayer
    <2>4. p.attributes = q.attributes
      BY <2>2, <2>3, JsonStays
    <2>5. /\ p = [id |-> p.id, party |-> p.party, attributes |-> p.attributes]
          /\ q = [id |-> q.id, party |-> q.party, attributes |-> q.attributes]
      BY DEF JsonPlayer
    <2>6. p = q
      BY ONLY <2>2, <2>3, <2>4, <2>5
    <2> QED BY <2>1, <2>6
  <1>5. there.players = ticket.players
    BY <1>1, <1>2, <1>4, SeqEqual
  <1>6. there = ticket
    BY <1>1, <1>3, <1>5 DEF JsonTicket
  <1> QED BY <1>6 DEF there

\* The conversions on the way of a ticket in a match and of one in a proposal.
LEMMA ProtoTicketKeeps ==
  ASSUME NEW ticket \in JsonTicket
  PROVE  /\ MatchfunctionTicketToProtoTicket(ticket) = ProtoTicket(ticket)
         /\ ProtoTicket(ticket).attributes = ticket.attributes
         /\ ProtoTicketToMatchfunctionTicket(ProtoTicket(ticket)) = ticket
  <1> DEFINE m == Len(ticket.players)
  <1>1. /\ ticket.players \in Seq(JsonPlayer) /\ ticket.attributes \in Json
        /\ DOMAIN ticket.players = 1 .. m
        /\ \A n \in 1 .. m : ticket.players[n] \in JsonPlayer
    BY LenProperties, ElementOfSeq DEF JsonTicket
  <1>2. \A player \in JsonPlayer : Converted(player) = player
    <2> SUFFICES ASSUME NEW player \in JsonPlayer PROVE Converted(player) = player
      OBVIOUS
    <2>1. convertAttribute(player.attributes) = player.attributes
      BY JsonStays DEF JsonPlayer
    <2> QED BY <2>1 DEF Converted, JsonPlayer
  <1>3. Converted(ticket) = ticket
    <2>1. convertAttribute(ticket.attributes) = ticket.attributes
      BY <1>1, JsonStays
    <2> QED BY <2>1 DEF Converted, JsonTicket
  <1>4. [n \in DOMAIN ticket.players |-> Converted(ticket.players[n])] = ticket.players
    <2>1. [n \in DOMAIN ticket.players |-> Converted(ticket.players[n])]
              = [n \in DOMAIN ticket.players |-> ticket.players[n]]
      BY <1>1, <1>2
    <2>2. ticket.players = [n \in DOMAIN ticket.players |-> ticket.players[n]]
      BY <1>1
    <2> QED BY <2>1, <2>2
  <1>5. [Converted(ticket) EXCEPT
             !.players = [n \in DOMAIN @ |-> Converted(ticket.players[n])]] = ticket
    BY <1>3, <1>4 DEF JsonTicket
  <1>6. MatchfunctionTicketToProtoTicket(ticket) = ProtoTicket(ticket)
    BY <1>5 DEF MatchfunctionTicketToProtoTicket
  <1>7. ProtoTicket(ticket).attributes = ticket.attributes
    BY <1>1, JsonStays DEF ProtoTicket
  <1> QED BY <1>6, <1>7, ArrivesUnchanged DEF Arrives

\* Tickets that are in JSON keep their place and their content on the trip of a match.
LEMMA TicketsTrip ==
  ASSUME NEW ts \in Seq(JsonTicket)
  PROVE  /\ MatchfunctionTickets(MatchfunctionTicketsToProtoTickets(ts)) = ts
         /\ \A n \in DOMAIN MatchfunctionTicketsToProtoTickets(ts) :
               IsStruct(MatchfunctionTicketsToProtoTickets(ts)[n].attributes)
  <1> DEFINE proto == MatchfunctionTicketsToProtoTickets(ts)
  <1>1. DOMAIN ts = 1 .. Len(ts) /\ \A n \in 1 .. Len(ts) : ts[n] \in JsonTicket
    BY LenProperties, ElementOfSeq
  <1>2. DOMAIN proto = DOMAIN ts /\ \A n \in DOMAIN ts : proto[n] = ProtoTicket(ts[n])
    BY <1>1, ProtoTicketKeeps DEF MatchfunctionTicketsToProtoTickets
  <1> HIDE DEF proto
  <1>3. \A n \in DOMAIN ts : /\ ProtoTicketToMatchfunctionTicket(proto[n]) = ts[n]
                             /\ IsStruct(proto[n].attributes)
    <2> SUFFICES ASSUME NEW n \in DOMAIN ts
                 PROVE  /\ ProtoTicketToMatchfunctionTicket(proto[n]) = ts[n]
                        /\ IsStruct(proto[n].attributes)
      OBVIOUS
    <2>1. proto[n] = ProtoTicket(ts[n]) /\ ts[n] \in JsonTicket
      BY <1>1, <1>2
    <2>2. ts[n].attributes \in Json
      BY <2>1 DEF JsonTicket
    <2> QED BY <2>1, <2>2, ProtoTicketKeeps, JsonStays
  <1>4. MatchfunctionTickets(proto) = [n \in DOMAIN ts |-> ts[n]]
    BY <1>2, <1>3 DEF MatchfunctionTickets
  <1>5. ts = [n \in DOMAIN ts |-> ts[n]]
    OBVIOUS
  <1> QED BY <1>2, <1>3, <1>4, <1>5 DEF proto

-----------------------------------------------------------------------------
(***************************************************************************)
(* Teams: each has at most one party, and that one is the whole team.      *)
(***************************************************************************)
Party(users) == [id |-> "", users |-> users]

Team ==
    {team \in [id : Nat, users : Seq(STRING), parties : SUBSET {Party(users) : users \in Seq(STRING)}] :
        team.parties \subseteq {Party(team.users)}}

\* The ids of a list of players, one for each.
LEMMA PlayerIDsType ==
  ASSUME NEW S, \A player \in S : player.id \in STRING, NEW players \in Seq(S)
  PROVE  /\ PlayerIDs(players) \in Seq(STRING)
         /\ Len(PlayerIDs(players)) = Len(players)
         /\ \A n \in 1 .. Len(players) : PlayerIDs(players)[n] = players[n].id
  <1>1. DOMAIN players = 1 .. Len(players) /\ Len(players) \in Nat
    BY LenProperties
  <1>2. \A n \in 1 .. Len(players) : players[n].id \in STRING
    BY ElementOfSeq
  <1>3. PlayerIDs(players) \in [1 .. Len(players) -> STRING]
    BY <1>1, <1>2 DEF PlayerIDs
  <1> QED BY <1>1, <1>3, IsASeq, LenProperties DEF PlayerIDs

\* A team whose only party, if it has one, is all its users.
LEMMA TeamType ==
  ASSUME NEW id \in Nat, NEW users \in Seq(STRING), NEW parties, parties \subseteq {Party(users)}
  PROVE  [id |-> id, users |-> users, parties |-> parties] \in Team
  <1>1. parties \in SUBSET {Party(us) : us \in Seq(STRING)}
    OBVIOUS
  <1> QED BY <1>1 DEF Team

\* The team of a ticket that arrived: its players, and all of them in one party.
LEMMA TeamOfTicket ==
  ASSUME NEW ticket \in JsonTicket, NEW id \in Nat
  PROVE  [id |-> id, users |-> PlayerIDs(ticket.players),
          parties |-> PlayerDataToParties(ticket.players)] \in Team
  <1> DEFINE players == ticket.players
  <1>1. players \in Seq(JsonPlayer) /\ DOMAIN players = 1 .. Len(players)
        /\ \A n \in 1 .. Len(players) : players[n] \in JsonPlayer
    BY LenProperties, ElementOfSeq DEF JsonTicket
  <1>2. PlayerIDs(players) \in Seq(STRING)
    <2>1. \A player \in JsonPlayer : player.id \in STRING
      BY DEF JsonPlayer
    <2> QED BY <1>1, <2>1, PlayerIDsType
  <1> HIDE DEF players
  <1>3. \A n \in DOMAIN players : players[n].party = ""
    BY <1>1 DEF JsonPlayer
  <1>4. ASSUME NEW n \in DOMAIN players
        PROVE  Only(players, {m \in DOMAIN players : players[m].party = players[n].party}) = players
    <2> DEFINE kept == {m \in DOMAIN players : players[m].party = players[n].party}
    <2>1. \A m \in 1 .. Len(players) : m \in kept
      BY <1>1, <1>3
    <2> HIDE DEF kept
    <2>2. Only(players, kept) = players
      BY <1>1, <2>1, OnlyAll
    <2> QED BY <2>2 DEF kept
  <1>5. PlayerDataToParties(players) \subseteq {Party(PlayerIDs(players))}
    BY <1>3, <1>4 DEF PlayerDataToParties, Party
  <1> QED BY <1>2, <1>5, TeamType DEF players

\* Leaving out teams leaves teams.
LEMMA WithUsersType ==
  ASSUME NEW teams \in Seq(Team)
  PROVE  WithUsers(teams) \in Seq(Team)
  BY OnlyType DEF WithUsers

\* The players of two tickets, one ticket after the other.
LEMMA FlattenPair ==
  ASSUME NEW U, NEW a \in Seq(U), NEW b \in Seq(U)
  PROVE  FlattenSeq(<<a, b>>) = a \o b
  <1>1. /\ <<>> \in Seq(Seq(U)) /\ <<a>> \in Seq(Seq(U))
        /\ Append(<<>>, a) = <<a>> /\ Append(<<a>>, b) = <<a, b>>
    <2> DEFINE T == Seq(U)
    <2>1. a \in T /\ b \in T
      OBVIOUS
    <2> HIDE DEF T
    <2>2. Append(<<>>, a) = <<a>>
      OBVIOUS
    <2>3. <<>> \in Seq(T)
      BY EmptySeq
    <2>4. <<a>> \in Seq(T) /\ Len(<<a>>) = 1 /\ <<a>>[1] = a
      BY <2>1, <2>2, <2>3, AppendProperties
    <2>5. <<a, b>> \in Seq(T) /\ Len(<<a, b>>) = 2 /\ <<a, b>>[1] = a /\ <<a, b>>[2] = b
      BY <2>1
    <2> DEFINE s == Append(<<a>>, b)
    <2>6. s \in Seq(T) /\ Len(s) = 1 + 1 /\ s[1] = a /\ s[1 + 1] = b
      BY <2>1, <2>4, AppendProperties
    <2> HIDE DEF s
    <2>7. \A n \in 1 .. Len(s) : s[n] = <<a, b>>[n]
      <3>1. \A n \in 1 .. Len(s) : n = 1 \/ n = 2
        BY <2>6
      <3> QED BY <2>5, <2>6, <3>1
    <2>8. s = <<a, b>>
      BY <2>5, <2>6, <2>7, SeqEqual
    <2> QED BY <2>2, <2>3, <2>4, <2>8 DEF T, s
  <1>2. FlattenSeq(<<a>>) = <<>> \o a
    BY <1>1, FlattenAppend, FlattenEmpty
  <1>3. <<>> \o a = a
    BY ConcatEmptySeq
  <1>4. FlattenSeq(<<a, b>>) = FlattenSeq(<<a>>) \o b
    BY <1>1, FlattenAppend
  <1> QED BY <1>2, <1>3, <1>4

\* The players of a match of two are the first ticket's, then the second's.
LEMMA PlayersOfPair ==
  ASSUME NEW s \in JsonTicket, NEW t \in JsonTicket
  PROVE  PlayerIDs(PlayersOf(<<s, t>>)) = PlayerIDs(s.players) \o PlayerIDs(t.players)
  <1> DEFINE a == s.players
             b == t.players
             all == a \o b
  <1>1. a \in Seq(JsonPlayer) /\ b \in Seq(JsonPlayer)
    BY DEF JsonTicket
  <1>2. PlayersOf(<<s, t>>) = all
    <2>1. [n \in DOMAIN <<s, t>> |-> <<s, t>>[n].players] = <<a, b>>
      OBVIOUS
    <2> HIDE DEF a, b
    <2> QED BY <1>1, <2>1, FlattenPair DEF PlayersOf
  <1> HIDE DEF a, b
  <1>3. /\ all \in Seq(JsonPlayer) /\ Len(all) = Len(a) + Len(b)
        /\ Len(a) \in Nat /\ Len(b) \in Nat
        /\ \A n \in 1 .. Len(a) + Len(b) :
              all[n] = IF n <= Len(a) THEN a[n] ELSE b[n - Len(a)]
    BY <1>1, ConcatProperties, LenProperties
  <1> HIDE DEF all
  <1>4. \A player \in JsonPlayer : player.id \in STRING
    BY DEF JsonPlayer
  <1>5. /\ PlayerIDs(a) \in Seq(STRING) /\ Len(PlayerIDs(a)) = Len(a)
        /\ \A n \in 1 .. Len(a) : PlayerIDs(a)[n] = a[n].id
    BY <1>1, <1>4, PlayerIDsType
  <1>6. /\ PlayerIDs(b) \in Seq(STRING) /\ Len(PlayerIDs(b)) = Len(b)
        /\ \A n \in 1 .. Len(b) : PlayerIDs(b)[n] = b[n].id
    BY <1>1, <1>4, PlayerIDsType
  <1>7. /\ PlayerIDs(all) \in Seq(STRING) /\ Len(PlayerIDs(all)) = Len(all)
        /\ \A n \in 1 .. Len(all) : PlayerIDs(all)[n] = all[n].id
    BY <1>3, <1>4, PlayerIDsType
  <1> DEFINE both == PlayerIDs(a) \o PlayerIDs(b)
  <1>8. /\ both \in Seq(STRING) /\ Len(both) = Len(a) + Len(b)
        /\ \A n \in 1 .. Len(a) + Len(b) :
              both[n] = IF n <= Len(a) THEN PlayerIDs(a)[n] ELSE PlayerIDs(b)[n - Len(a)]
    BY <1>5, <1>6, ConcatProperties
  <1> HIDE DEF both
  <1>9. ASSUME NEW n \in 1 .. Len(a) + Len(b) PROVE PlayerIDs(all)[n] = both[n]
    <2>1. CASE n <= Len(a)
      <3>1. n \in 1 .. Len(a)
        BY <1>3, <2>1
      <3> QED BY <1>3, <1>5, <1>7, <1>8, <2>1, <3>1
    <2>2. CASE ~(n <= Len(a))
      <3>1. n - Len(a) \in 1 .. Len(b)
        BY <1>3, <2>2
      <3> QED BY <1>3, <1>6, <1>7, <1>8, <2>2, <3>1
    <2> QED BY <2>1, <2>2
  <1>10. PlayerIDs(all) = both
    BY <1>3, <1>7, <1>8, <1>9, SeqEqual
  <1> QED BY <1>2, <1>10 DEF both, a, b
-----------------------------------------------------------------------------
(***************************************************************************)
(* The inductive invariant.                                                *)
(***************************************************************************)
\* EnrichTicket has left tickets that a trip does not change.
TicketsInv ==
    /\ tickets \in [TicketIDs -> Ticket]
    /\ \A id \in TicketIDs : tickets[id].id = id
                             /\ PlayerIDs(tickets[id].players) = PlayerIDs(Players[id])
    /\ enriched \subseteq TicketIDs
    /\ \A id \in enriched : tickets[id] \in JsonTicket /\ tickets[id].attributes # EmptyMap

\* The session has its tickets as they arrived, and a ticket that is in it is not
\* enriched any more. (tickets[used[n]] is what the core would send today.)
SessionInv ==
    /\ session \in [tickets : Seq(JsonTicket), teams : Seq(Team), attributes : Json]
    /\ used \in Seq(TicketIDs) /\ Len(used) = Cardinality(Range(used))
    /\ Len(session.tickets) = Len(used)
    /\ session = NoMatch <=> used = <<>>
    /\ \A n \in 1 .. Len(used) : session.tickets[n] = Arrives(tickets[used[n]])
    /\ session # NoMatch => DOMAIN session.attributes = {"assignment"}

\* The ids on the wire are those generated so far.
ResponseInv ==
    /\ uuids \in 0 .. MaxUUIDs
    /\ IsStruct(response.attributes)
    /\ \A n \in DOMAIN response.tickets : IsStruct(response.tickets[n].attributes)
    /\ response.teams \in Seq(Team)
    /\ "generatedID" \in DOMAIN response.attributes =>
           response.attributes["generatedID"].of \in 0 .. uuids

IInv == TicketsInv /\ SessionInv /\ ResponseInv

\* The tickets the core begins with.
LEMMA CoreTicketType ==
  ASSUME NEW id \in TicketIDs, NEW a \in Attributes
  PROVE  /\ CoreTicket(id, a) \in Ticket
         /\ CoreTicket(id, a).id = id
         /\ PlayerIDs(CoreTicket(id, a).players) = PlayerIDs(Players[id])
  <1> DEFINE P == [id : STRING, party : STRING]
             m == Len(Players[id])
             ps == CoreTicket(id, a).players
  <1>1. Players[id] \in Seq(P) /\ m \in Nat /\ DOMAIN Players[id] = 1 .. m
        /\ \A n \in 1 .. m : Players[id][n] \in P
    BY SessionAssumption, LenProperties, ElementOfSeq
  <1>2. a \in Maps \cup {Nil}
    BY AttributesAreMaps
  <1>3. ps = [n \in 1 .. m |-> [id |-> Players[id][n].id, party |-> Players[id][n].party,
                                attributes |-> a]]
    BY <1>1 DEF CoreTicket
  <1>4. ps \in [1 .. m -> Player]
    <2>1. \A n \in 1 .. m : [id |-> Players[id][n].id, party |-> Players[id][n].party,
                             attributes |-> a] \in Player
      BY <1>1, <1>2 DEF Player
    <2> QED BY <1>3, <2>1
  <1>5. ps \in Seq(Player) /\ DOMAIN ps = 1 .. m
    <2> HIDE DEF ps, m
    <2> QED BY <1>1, <1>4, IsASeq
  <1>6. CoreTicket(id, a) \in Ticket
    BY <1>2, <1>5 DEF CoreTicket, Ticket
  <1>7. \A n \in 1 .. m : ps[n].id = Players[id][n].id
    BY <1>3
  <1>8. PlayerIDs(ps) = PlayerIDs(Players[id])
    BY <1>1, <1>5, <1>7 DEF PlayerIDs
  <1> QED BY <1>6, <1>8 DEF CoreTicket

\* The empty match has the types of a session and of a response.
LEMMA NoMatchType ==
  /\ NoMatch \in [tickets : Seq(JsonTicket), teams : Seq(Team), attributes : Json]
  /\ IsStruct(NoMatch.attributes) /\ DOMAIN NoMatch.attributes = {}
  /\ NoMatch.tickets = <<>> /\ NoMatch.teams = <<>>
  <1>1. EmptyMap \in Json /\ IsStruct(EmptyMap) /\ DOMAIN EmptyMap = {}
    BY EmptyMapIsJson, JsonStays DEF EmptyMap
  <1>2. <<>> \in Seq(JsonTicket) /\ <<>> \in Seq(Team)
    BY EmptySeq
  <1> QED BY <1>1, <1>2 DEF NoMatch

\* The invariant holds at the start.
LEMMA InitIInv ==
  ASSUME Init
  PROVE  IInv
  <1>1. TicketsInv
    <2>1. ASSUME NEW id \in TicketIDs
          PROVE  /\ tickets[id] \in Ticket /\ tickets[id].id = id
                 /\ PlayerIDs(tickets[id].players) = PlayerIDs(Players[id])
      <3>1. PICK i \in TicketIDs, a \in Attributes : tickets[id] = CoreTicket(i, a)
        BY DEF Init
      <3>2. tickets[id].id = id
        BY DEF Init
      <3> QED BY <3>1, <3>2, CoreTicketType
    <2>2. DOMAIN tickets = TicketIDs /\ tickets = [id \in TicketIDs |-> tickets[id]]
      BY DEF Init
    <2>3. enriched = {}
      BY DEF Init
    <2> QED BY <2>1, <2>2, <2>3 DEF TicketsInv
  <1>2. SessionInv
    <2>1. session = NoMatch /\ used = <<>>
      BY DEF Init
    <2>2. used \in Seq(TicketIDs) /\ Len(used) = 0
      BY <2>1, EmptySeq
    <2>3. Range(used) = {} /\ Cardinality({}) = 0
      BY <2>2, LenProperties, FS_EmptySet DEF Range
    <2>4. Len(session.tickets) = 0
      BY <2>1, NoMatchType, EmptySeq
    <2>5. \A n \in 1 .. Len(used) : session.tickets[n] = Arrives(tickets[used[n]])
      BY <2>2
    <2> QED BY <2>1, <2>2, <2>3, <2>4, <2>5, NoMatchType DEF SessionInv
  <1>3. ResponseInv
    <2>1. response = NoMatch /\ uuids = 0 /\ MaxUUIDs \in Nat
      BY SessionAssumption DEF Init
    <2>2. DOMAIN response.tickets = {} /\ response.teams \in Seq(Team)
      BY <2>1, NoMatchType, EmptySeq, LenProperties
    <2> QED BY <2>1, <2>2, NoMatchType DEF ResponseInv
  <1> QED BY <1>1, <1>2, <1>3 DEF IInv
-----------------------------------------------------------------------------
(***************************************************************************)
(* EnrichTicket.                                                           *)
(***************************************************************************)
LEMMA Enriched ==
  ASSUME NEW ticket \in Ticket
  PROVE  LET back == Arrives(Enrich(Arrives(ticket)))
         IN  /\ back \in JsonTicket /\ back.id = ticket.id
             /\ PlayerIDs(back.players) = PlayerIDs(ticket.players)
             /\ Kept(ticket.attributes) = EmptyMap => back.attributes = enrichMap
             /\ Kept(ticket.attributes) # EmptyMap => back.attributes = Kept(ticket.attributes)
             /\ ticket \in JsonTicket /\ ticket.attributes # EmptyMap => back = ticket
  <1> DEFINE there == Arrives(ticket)
             rich == Enrich(there)
  <1>1. /\ there \in JsonTicket /\ there.id = ticket.id
        /\ there.attributes = Kept(ticket.attributes)
        /\ Len(there.players) = Len(ticket.players)
        /\ \A n \in 1 .. Len(ticket.players) : there.players[n].id = ticket.players[n].id
    BY Arrival
  <1>2. ticket \in JsonTicket => there = ticket
    BY ArrivesUnchanged
  <1>3. there.players \in Seq(JsonPlayer) /\ ticket.players \in Seq(Player)
    BY <1>1 DEF JsonTicket, Ticket
  <1> HIDE DEF there
  <1>4. DOMAIN there.players = 1 .. Len(there.players)
        /\ DOMAIN ticket.players = 1 .. Len(ticket.players)
    BY <1>3, LenProperties
  <1>5. PlayerIDs(there.players) = PlayerIDs(ticket.players)
    BY <1>1, <1>4 DEF PlayerIDs
  <1>6. /\ rich \in JsonTicket /\ rich.id = there.id /\ rich.players = there.players
        /\ rich.attributes = IF there.attributes = EmptyMap THEN enrichMap ELSE there.attributes
        /\ there.attributes # EmptyMap => rich = there
    BY <1>1, EnrichMapIsJson DEF Enrich, JsonTicket
  <1> HIDE DEF rich
  <1>7. Arrives(rich) = rich
    BY <1>6, ArrivesUnchanged
  <1>8. ticket \in JsonTicket /\ ticket.attributes # EmptyMap => rich = ticket
    BY <1>2, <1>6
  <1> QED BY <1>1, <1>5, <1>6, <1>7, <1>8 DEF there, rich

\* An unused ticket is none of those in the session.
LEMMA RangeOfUsed ==
  ASSUME SessionInv
  PROVE  /\ DOMAIN used = 1 .. Len(used) /\ Len(used) \in Nat
         /\ \A n \in 1 .. Len(used) : used[n] \in TicketIDs
         /\ \A id \in Unused : id \in TicketIDs /\ id \notin Range(used)
                               /\ \A n \in 1 .. Len(used) : used[n] # id
  <1>1. DOMAIN used = 1 .. Len(used) /\ Len(used) \in Nat
        /\ \A n \in 1 .. Len(used) : used[n] \in TicketIDs
    BY LenProperties, ElementOfSeq DEF SessionInv
  <1> QED BY <1>1 DEF Unused, Range

\* EnrichTicket only touches a ticket outside the session.
LEMMA EnrichTicketStep ==
  ASSUME IInv, NEW id \in TicketIDs, EnrichTicket(id)
  PROVE  IInv'
  <1> DEFINE back == Arrives(Enrich(Arrives(tickets[id])))
  <1>1. /\ id \in Unused /\ tickets' = [tickets EXCEPT ![id] = back]
        /\ enriched' = enriched \cup {id}
        /\ UNCHANGED <<used, session, response, uuids>>
    BY DEF EnrichTicket
  <1>2. tickets[id] \in Ticket
    BY DEF IInv, TicketsInv
  <1>3. /\ back \in JsonTicket /\ back.id = tickets[id].id
        /\ PlayerIDs(back.players) = PlayerIDs(tickets[id].players)
        /\ back.attributes # EmptyMap
    BY <1>2, Enriched, EnrichMapIsJson
  <1> HIDE DEF back
  <1>4. TicketsInv'
    <2>1. tickets' \in [TicketIDs -> Ticket] /\ enriched' \subseteq TicketIDs
      BY <1>1, <1>3, JsonTicketIsTicket DEF IInv, TicketsInv
    <2>2. \A i \in TicketIDs : tickets'[i] = IF i = id THEN back ELSE tickets[i]
      BY <1>1 DEF IInv, TicketsInv
    <2> QED BY <1>1, <1>3, <2>1, <2>2 DEF IInv, TicketsInv
  <1>5. SessionInv'
    <2>1. ASSUME NEW n \in 1 .. Len(used)
          PROVE  session.tickets[n] = Arrives(tickets'[used[n]])
      <3>1. used[n] \in TicketIDs /\ used[n] # id
        BY <1>1, RangeOfUsed DEF IInv
      <3>2. tickets'[used[n]] = tickets[used[n]]
        BY <1>1, <3>1 DEF IInv, TicketsInv
      <3> QED BY <3>2 DEF IInv, SessionInv
    <2> QED BY <1>1, <2>1 DEF IInv, SessionInv
  <1>6. ResponseInv'
    BY <1>1 DEF IInv, ResponseInv
  <1> QED BY <1>4, <1>5, <1>6 DEF IInv
-----------------------------------------------------------------------------
(***************************************************************************)
(* MakeMatches.                                                            *)
(***************************************************************************)
\* The attribute of a match becomes JSON on the wire, and nothing is lost.
LEMMA AssignmentTrip ==
  ASSUME NEW i \in Nat
  PROVE  LET proto == NewStruct(convertAttribute([assignment |-> [type |-> "typed", of |-> i]]))
         IN  proto \in Json /\ DOMAIN proto = {"assignment"}
  <1> DEFINE a == [assignment |-> [type |-> "typed", of |-> i]]
  <1>1. /\ a \in [{"assignment"} -> Values] /\ {"assignment"} \in SUBSET Names
        /\ DOMAIN a = {"assignment"} /\ Holds(a, {"json", "typed"})
    BY DEF Values, Names, Holds
  <1> HIDE DEF a
  <1>2. a \in Maps /\ a # Nil
    BY <1>1, MapType, MapsAreNotNil
  <1>3. convertAttribute(a) = WithType(a, "json")
    BY <1>1, <1>2 DEF convertAttribute
  <1> QED BY <1>1, <1>2, <1>3, WithTypeIsJson, JsonStays DEF a

\* What MakeMatches puts on the wire and the core takes over.
LEMMA MatchMade ==
  ASSUME IInv, NEW ids \in TicketIDs \X TicketIDs, MakeMatches(ids)
  PROVE  \E s \in JsonTicket, t \in JsonTicket, team \in Team, a \in Json :
            /\ s = Arrives(tickets[ids[1]]) /\ t = Arrives(tickets[ids[2]])
            /\ team.users = PlayerIDs(s.players) \o PlayerIDs(t.players)
            /\ DOMAIN a = {"assignment"}
            /\ session' = [tickets |-> <<s, t>>, teams |-> <<team>>, attributes |-> a]
            /\ response'.attributes = a /\ response'.teams = <<team>>
            /\ \A n \in DOMAIN response'.tickets : IsStruct(response'.tickets[n].attributes)
  <1> DEFINE s == Arrives(tickets[ids[1]])
             t == Arrives(tickets[ids[2]])
             ts == <<s, t>>
             team == [id |-> uuids + 1, users |-> PlayerIDs(PlayersOf(ts)), parties |-> {}]
             assignment == [assignment |-> [type |-> "typed", of |-> uuids + 1]]
             a == NewStruct(convertAttribute(assignment))
  <1>1. s \in JsonTicket /\ t \in JsonTicket
    <2>1. tickets[ids[1]] \in Ticket /\ tickets[ids[2]] \in Ticket
      BY DEF IInv, TicketsInv
    <2> QED BY <2>1, Arrival
  <1>2. [n \in DOMAIN ids |-> Arrives(tickets[ids[n]])] = ts
    <2>1. PICK i \in TicketIDs, j \in TicketIDs : ids = <<i, j>>
      OBVIOUS
    <2>2. [n \in DOMAIN <<i, j>> |-> Arrives(tickets[<<i, j>>[n]])]
              = <<Arrives(tickets[i]), Arrives(tickets[j])>>
      OBVIOUS
    <2> QED BY <2>1, <2>2
  <1>3. response' = MatchfunctionMatchToProtoMatch(BuildMatch(ts, uuids + 1))
        /\ session' = ProtoMatchToMatchfunctionMatch(response')
    BY <1>2 DEF MakeMatches
  <1> HIDE DEF s, t
  <1>4. uuids + 1 \in Nat
    BY SessionAssumption DEF IInv, ResponseInv
  <1>5. a \in Json /\ DOMAIN a = {"assignment"}
    BY <1>4, AssignmentTrip
  <1>6. PlayerIDs(PlayersOf(ts)) = PlayerIDs(s.players) \o PlayerIDs(t.players)
    BY <1>1, PlayersOfPair
  <1>7. PlayerIDs(PlayersOf(ts)) \in Seq(STRING)
    <2>1. \A player \in JsonPlayer : player.id \in STRING
      BY DEF JsonPlayer
    <2>2. s.players \in Seq(JsonPlayer) /\ t.players \in Seq(JsonPlayer)
      BY <1>1 DEF JsonTicket
    <2>3. PlayerIDs(s.players) \in Seq(STRING) /\ PlayerIDs(t.players) \in Seq(STRING)
      BY <2>1, <2>2, PlayerIDsType
    <2> QED BY <1>6, <2>3, ConcatProperties
  <1>8. team \in Team /\ team.users = PlayerIDs(PlayersOf(ts))
    BY <1>4, <1>7, TeamType
  <1>9. ts \in Seq(JsonTicket)
    BY <1>1
  <1>10. /\ response'.tickets = MatchfunctionTicketsToProtoTickets(ts)
         /\ response'.teams = <<team>> /\ response'.attributes = a
    BY <1>3 DEF MatchfunctionMatchToProtoMatch, BuildMatch
  <1> HIDE DEF ts, team, a
  <1>11. session' = [tickets |-> ts, teams |-> <<team>>, attributes |-> a]
    BY <1>3, <1>5, <1>9, <1>10, TicketsTrip, JsonStays DEF ProtoMatchToMatchfunctionMatch
  <1>12. \A n \in DOMAIN response'.tickets : IsStruct(response'.tickets[n].attributes)
    BY <1>9, <1>10, TicketsTrip
  <1> QED BY <1>1, <1>5, <1>6, <1>8, <1>10, <1>11, <1>12 DEF s, t, ts

\* A match makes a session of its two tickets.
LEMMA MakeMatchesStep ==
  ASSUME IInv, NEW ids \in TicketIDs \X TicketIDs, ids[1] # ids[2], MakeMatches(ids)
  PROVE  IInv'
  <1>1. PICK s \in JsonTicket, t \in JsonTicket, team \in Team, a \in Json :
            /\ s = Arrives(tickets[ids[1]]) /\ t = Arrives(tickets[ids[2]])
            /\ DOMAIN a = {"assignment"}
            /\ session' = [tickets |-> <<s, t>>, teams |-> <<team>>, attributes |-> a]
            /\ response'.attributes = a /\ response'.teams = <<team>>
            /\ \A n \in DOMAIN response'.tickets : IsStruct(response'.tickets[n].attributes)
    BY MatchMade
  <1>2. /\ used' = ids /\ uuids' = uuids + 1 /\ uuids < MaxUUIDs
        /\ UNCHANGED <<tickets, enriched>>
    BY DEF MakeMatches
  <1>3. TicketsInv'
    BY <1>2 DEF IInv, TicketsInv
  <1>4. <<s, t>> \in Seq(JsonTicket) /\ <<team>> \in Seq(Team)
        /\ Len(<<s, t>>) = 2 /\ <<s, t>>[1] = s /\ <<s, t>>[2] = t
    OBVIOUS
  <1>5. SessionInv'
    <2>1. PICK i \in TicketIDs, j \in TicketIDs : ids = <<i, j>> /\ i # j
      OBVIOUS
    <2>2. /\ <<i, j>> \in Seq(TicketIDs) /\ Len(<<i, j>>) = 2 /\ DOMAIN <<i, j>> = 1 .. 2
          /\ <<i, j>>[1] = i /\ <<i, j>>[2] = j
      OBVIOUS
    <2>3. Range(used') = {i, j}
      <3>1. \A n \in 1 .. 2 : n = 1 \/ n = 2
        OBVIOUS
      <3> QED BY <1>2, <2>1, <2>2, <3>1 DEF Range
    <2>4. Cardinality({i, j}) = 2
      <3>1. IsFiniteSet({i}) /\ Cardinality({i}) = 1
        BY FS_Singleton
      <3>2. Cardinality({i} \cup {j}) = Cardinality({i}) + 1
        BY <2>1, <3>1, FS_AddElement
      <3>3. {i} \cup {j} = {i, j}
        OBVIOUS
      <3> QED BY <3>1, <3>2, <3>3
    <2>5. session' \in [tickets : Seq(JsonTicket), teams : Seq(Team), attributes : Json]
          /\ session'.tickets = <<s, t>> /\ session'.attributes = a
      BY <1>1, <1>4
    <2>6. session' # NoMatch
      BY <1>4, <2>5, NoMatchType, EmptySeq
    <2>7. used' # <<>>
      BY <1>2, <2>1, <2>2, EmptySeq
    <2>8. \A n \in 1 .. Len(used') : session'.tickets[n] = Arrives(tickets'[used'[n]])
      <3>1. \A n \in 1 .. 2 : n = 1 \/ n = 2
        OBVIOUS
      <3> QED BY <1>1, <1>2, <1>4, <2>1, <2>2, <2>5, <3>1
    <2> QED BY <1>1, <1>2, <1>4, <2>1, <2>2, <2>3, <2>4, <2>5, <2>6, <2>7, <2>8 DEF SessionInv
  <1>6. ResponseInv'
    <2>1. uuids' \in 0 .. MaxUUIDs
      BY <1>2, SessionAssumption DEF IInv, ResponseInv
    <2>2. "generatedID" \notin DOMAIN response'.attributes
      BY <1>1
    <2> QED BY <1>1, <1>4, <2>1, <2>2, JsonStays DEF ResponseInv
  <1> QED BY <1>3, <1>5, <1>6 DEF IInv
-----------------------------------------------------------------------------
(***************************************************************************)
(* BackfillMatches.                                                        *)
(***************************************************************************)
LEMMA AssignIsJson ==
  ASSUME NEW map \in Json, NEW name \in Names, NEW value \in Values, value.type = "json"
  PROVE  LET new == Assign(map, name, value)
         IN  /\ new \in Json /\ DOMAIN new = {name} \cup DOMAIN map
             /\ new[name] = value
             /\ \A k \in DOMAIN map : k # name => new[k] = map[k]
  <1> DEFINE new == Assign(map, name, value)
  <1>1. PICK names \in SUBSET Names : map \in [names -> Values]
    BY DEF Json, Maps
  <1>2. \A k \in names : map[k] \in Values /\ map[k].type = "json"
    BY <1>1 DEF Json, Holds
  <1>3. new \in [{name} \cup names -> Values] /\ {name} \cup names \in SUBSET Names
    BY <1>1, <1>2 DEF Assign
  <1>4. /\ new[name] = value
        /\ \A k \in names : k # name => new[k] = map[k]
    BY <1>1 DEF Assign
  <1>5. new \in Maps
    BY <1>3, MapType
  <1>6. \A k \in {name} \cup names : new[k].type = "json"
    BY <1>2, <1>4
  <1> HIDE DEF new
  <1>7. new \in Json
    BY <1>3, <1>5, <1>6 DEF Json, Holds
  <1> QED BY <1>1, <1>3, <1>4, <1>7 DEF new

GeneratedID(n) == [type |-> "json", of |-> n]

\* What BackfillMatches puts on the wire and the core may take over.
LEMMA ProposalMade ==
  ASSUME IInv, NEW id \in TicketIDs, NEW accepted \in BOOLEAN, BackfillMatches(id, accepted)
  PROVE  \E t \in JsonTicket, team \in Team :
            /\ t = Arrives(tickets[id]) /\ team.users = PlayerIDs(t.players)
            /\ response'.teams = Append(WithUsers(session.teams), team)
            /\ response'.attributes
                   = Assign(session.attributes, "generatedID", GeneratedID(uuids + 2))
            /\ response'.attributes \in Json
            /\ \A n \in DOMAIN response'.tickets : IsStruct(response'.tickets[n].attributes)
            /\ accepted =>
                   session' = [tickets    |-> session.tickets \o <<t>>,
                               teams      |-> response'.teams,
                               attributes |-> session.attributes]
  <1> DEFINE t == Arrives(tickets[id])
             team == [id |-> uuids + 1, users |-> PlayerIDs(t.players),
                      parties |-> PlayerDataToParties(t.players)]
             match == ProtoPartialMatchToMatchfunctionMatch(
                          MatchfunctionBackfillTicketToProtoBackfillTicket(session))
             teams == Append(WithUsers(session.teams), team)
             a == Assign(session.attributes, "generatedID", GeneratedID(uuids + 2))
  <1>1. t \in JsonTicket
    <2>1. tickets[id] \in Ticket
      BY DEF IInv, TicketsInv
    <2> QED BY <2>1, Arrival
  <1>2. uuids + 1 \in Nat /\ uuids + 2 \in Nat
    BY SessionAssumption DEF IInv, ResponseInv
  <1>3. session \in [tickets : Seq(JsonTicket), teams : Seq(Team), attributes : Json]
    BY DEF IInv, SessionInv
  <1>4. response' = MatchfunctionBackfillProposalToProtoBackfillProposal(
                        BuildProposal(match, t, uuids + 1, uuids + 2))
    BY DEF BackfillMatches
  <1>5. accepted => session' = [session EXCEPT !.tickets = @ \o MatchfunctionTickets(response'.tickets),
                                               !.teams = response'.teams]
    BY <1>3 DEF BackfillMatches, ProtoBackfillProposalToMatchfunctionBackfillProposal
  <1> HIDE DEF t
  <1>6. match.teams = WithUsers(session.teams) /\ match.attributes = session.attributes
    <2>1. session.attributes \in Json
      BY <1>3
    <2> QED BY <2>1, JsonStays DEF ProtoPartialMatchToMatchfunctionMatch,
                                   MatchfunctionBackfillTicketToProtoBackfillTicket
  <1> HIDE DEF match
  <1>7. team \in Team /\ team.users = PlayerIDs(t.players)
    BY <1>1, <1>2, TeamOfTicket
  <1>8. a \in Json
    <2>1. GeneratedID(uuids + 2) \in Values /\ GeneratedID(uuids + 2).type = "json"
          /\ "generatedID" \in Names
      BY <1>2 DEF GeneratedID, Values, Names
    <2> QED BY <1>3, <2>1, AssignIsJson
  <1>9. /\ response'.tickets = [n \in DOMAIN <<t>> |-> ProtoTicket(<<t>>[n])]
        /\ response'.teams = teams
        /\ response'.attributes = NewStruct(a)
    BY <1>4, <1>6 DEF MatchfunctionBackfillProposalToProtoBackfillProposal, BuildProposal, GeneratedID
  <1> HIDE DEF a, teams, team
  <1>10. response'.attributes = a
    BY <1>8, <1>9, JsonStays
  <1>11. /\ MatchfunctionTickets(response'.tickets) = <<t>>
         /\ \A n \in DOMAIN response'.tickets : IsStruct(response'.tickets[n].attributes)
    <2>1. <<t>> \in Seq(JsonTicket)
      BY <1>1
    <2>2. response'.tickets = MatchfunctionTicketsToProtoTickets(<<t>>)
      <3>1. \A n \in DOMAIN <<t>> : ProtoTicket(<<t>>[n]) = MatchfunctionTicketToProtoTicket(<<t>>[n])
        BY <1>1, ProtoTicketKeeps
      <3> QED BY <1>9, <3>1 DEF MatchfunctionTicketsToProtoTickets
    <2> QED BY <2>1, <2>2, TicketsTrip
  <1>12. accepted => session' = [tickets |-> session.tickets \o <<t>>, teams |-> response'.teams,
                                 attributes |-> session.attributes]
    BY <1>3, <1>5, <1>11
  <1> QED BY <1>1, <1>7, <1>8, <1>9, <1>10, <1>11, <1>12 DEF t, a, teams

\* One more id that is not there yet: one more element.
LEMMA RangeGrows ==
  ASSUME NEW S, NEW s \in Seq(S), NEW e \in S, e \notin Range(s)
  PROVE  Cardinality(Range(Append(s, e))) = Cardinality(Range(s)) + 1
  <1> DEFINE m == Len(s)
             t == Append(s, e)
             n == m + 1
  <1>1. /\ m \in Nat /\ n \in Nat /\ DOMAIN s = 1 .. m /\ DOMAIN t = 1 .. n
        /\ t[n] = e /\ \A k \in 1 .. m : t[k] = s[k]
    BY AppendProperties, LenProperties
  <1>2. n \in 1 .. n /\ \A k \in 1 .. n : k \in 1 .. m \/ k = n
    BY <1>1
  <1>3. \A k \in 1 .. m : k \in 1 .. n
    BY <1>1
  <1> HIDE DEF m, n, t
  <1>4. Range(t) = Range(s) \cup {e}
    <2>1. ASSUME NEW x \in Range(t) PROVE x \in Range(s) \cup {e}
      BY <1>1, <1>2 DEF Range
    <2>2. ASSUME NEW x \in Range(s) PROVE x \in Range(t)
      <3>1. PICK k \in 1 .. m : x = s[k]
        BY <1>1 DEF Range
      <3> QED BY <1>1, <1>3, <3>1 DEF Range
    <2>3. e \in Range(t)
      BY <1>1, <1>2 DEF Range
    <2> QED BY <2>1, <2>2, <2>3
  <1>5. IsFiniteSet(Range(s))
    <2>1. IsFiniteSet(1 .. m)
      BY <1>1, FS_Interval
    <2>2. s \in Surjection(1 .. m, Range(s))
      BY <1>1 DEF Surjection, Range
    <2> QED BY <2>1, <2>2, FS_Surjection
  <1> QED BY <1>4, <1>5, FS_AddElement DEF t

\* A proposal that is taken over adds its ticket to the session.
LEMMA BackfillMatchesStep ==
  ASSUME IInv, NEW id \in TicketIDs, NEW accepted \in BOOLEAN, BackfillMatches(id, accepted)
  PROVE  IInv'
  <1>1. PICK t \in JsonTicket, team \in Team :
            /\ t = Arrives(tickets[id])
            /\ response'.teams = Append(WithUsers(session.teams), team)
            /\ response'.attributes
                   = Assign(session.attributes, "generatedID", GeneratedID(uuids + 2))
            /\ response'.attributes \in Json
            /\ \A n \in DOMAIN response'.tickets : IsStruct(response'.tickets[n].attributes)
            /\ accepted =>
                   session' = [tickets    |-> session.tickets \o <<t>>,
                               teams      |-> response'.teams,
                               attributes |-> session.attributes]
    BY ProposalMade
  <1>2. /\ session # NoMatch /\ id \in Unused /\ uuids + 2 <= MaxUUIDs /\ uuids' = uuids + 2
        /\ IF accepted THEN used' = Append(used, id) ELSE UNCHANGED <<session, used>>
        /\ UNCHANGED <<tickets, enriched>>
    BY DEF BackfillMatches
  <1>3. TicketsInv'
    BY <1>2 DEF IInv, TicketsInv
  <1>4. response'.teams \in Seq(Team)
    <2>1. WithUsers(session.teams) \in Seq(Team)
      BY WithUsersType DEF IInv, SessionInv
    <2> QED BY <1>1, <2>1, AppendProperties
  <1>5. SessionInv'
    <2>1. CASE accepted
      <3> DEFINE ts == session.tickets \o <<t>>
                 m == Len(used)
      <3>1. /\ used \in Seq(TicketIDs) /\ m \in Nat /\ m = Cardinality(Range(used))
            /\ session.tickets \in Seq(JsonTicket) /\ Len(session.tickets) = m
            /\ session.attributes \in Json /\ DOMAIN session.attributes = {"assignment"}
            /\ DOMAIN used = 1 .. m
            /\ \A n \in 1 .. m : session.tickets[n] = Arrives(tickets[used[n]])
        BY <1>2, RangeOfUsed DEF IInv, SessionInv
      <3>2. /\ used' = Append(used, id) /\ used' \in Seq(TicketIDs) /\ Len(used') = m + 1
            /\ used'[m + 1] = id /\ \A n \in 1 .. m : used'[n] = used[n]
            /\ DOMAIN used' = 1 .. m + 1
        <4>1. used' = Append(used, id)
          BY <1>2, <2>1
        <4> QED BY <3>1, <4>1, AppendProperties, LenProperties
      <3>3. /\ ts \in Seq(JsonTicket) /\ Len(ts) = m + 1
            /\ ts[m + 1] = t /\ \A n \in 1 .. m : ts[n] = session.tickets[n]
        <4>1. <<t>> \in Seq(JsonTicket) /\ Len(<<t>>) = 1 /\ <<t>>[1] = t
          BY <1>1
        <4> HIDE DEF m
        <4> QED BY <3>1, <4>1, ConcatProperties
      <3>4. /\ session' = [tickets |-> ts, teams |-> response'.teams,
                           attributes |-> session.attributes]
            /\ session' \in [tickets : Seq(JsonTicket), teams : Seq(Team), attributes : Json]
        <4>1. session' = [tickets |-> ts, teams |-> response'.teams,
                          attributes |-> session.attributes]
          BY <1>1, <2>1
        <4> HIDE DEF ts
        <4> QED BY <1>4, <3>1, <3>3, <4>1
      <3> HIDE DEF ts, m
      <3>5. Cardinality(Range(used')) = m + 1
        <4>1. id \notin Range(used)
          BY <1>2, RangeOfUsed DEF IInv
        <4> QED BY <3>1, <3>2, <4>1, RangeGrows
      <3>6. \A n \in 1 .. m + 1 : session'.tickets[n] = Arrives(tickets'[used'[n]])
        <4>1. ASSUME NEW n \in 1 .. m PROVE ts[n] = Arrives(tickets[used'[n]])
          BY <3>1, <3>2, <3>3
        <4>2. ts[m + 1] = Arrives(tickets[used'[m + 1]])
          BY <1>1, <3>2, <3>3
        <4>3. \A n \in 1 .. m + 1 : n \in 1 .. m \/ n = m + 1
          BY <3>1
        <4>4. session'.tickets = ts /\ tickets' = tickets
          BY <1>2, <3>4
        <4> QED BY <4>1, <4>2, <4>3, <4>4
      <3>7. session' # NoMatch /\ used' # <<>>
        <4>1. session'.tickets = ts /\ Len(ts) # 0 /\ Len(used') # 0
          BY <3>1, <3>2, <3>3, <3>4
        <4> QED BY <4>1, NoMatchType, EmptySeq
      <3> QED BY <3>1, <3>2, <3>3, <3>4, <3>5, <3>6, <3>7 DEF SessionInv
    <2>2. CASE ~accepted
      <3>1. UNCHANGED <<session, used, tickets>>
        BY <1>2, <2>2
      <3> QED BY <3>1 DEF IInv, SessionInv
    <2> QED BY <2>1, <2>2
  <1>6. ResponseInv'
    <2>1. uuids' \in 0 .. MaxUUIDs /\ uuids + 2 \in Nat
      BY <1>2, SessionAssumption DEF IInv, ResponseInv
    <2>2. session.attributes \in Json /\ "generatedID" \in Names
          /\ GeneratedID(uuids + 2) \in Values /\ GeneratedID(uuids + 2).type = "json"
          /\ GeneratedID(uuids + 2).of = uuids + 2
      BY <2>1 DEF IInv, SessionInv, GeneratedID, Values, Names
    <2>3. response'.attributes["generatedID"] = GeneratedID(uuids + 2)
      <3>1. Assign(session.attributes, "generatedID", GeneratedID(uuids + 2))["generatedID"]
                = GeneratedID(uuids + 2)
        BY <2>2, AssignIsJson
      <3> QED BY <1>1, <3>1
    <2>4. response'.attributes["generatedID"].of \in 0 .. uuids'
      BY <1>2, <2>1, <2>2, <2>3
    <2> QED BY <1>1, <1>4, <2>1, <2>4, JsonStays DEF ResponseInv
  <1> QED BY <1>3, <1>5, <1>6 DEF IInv

\* Every step keeps the invariant.
LEMMA NextIInv ==
  ASSUME IInv, [Next]_vars
  PROVE  IInv'
  <1>1. CASE \E id \in TicketIDs : EnrichTicket(id)
    BY <1>1, EnrichTicketStep
  <1>2. CASE \E ids \in TicketIDs \X TicketIDs : ids[1] # ids[2] /\ MakeMatches(ids)
    BY <1>2, MakeMatchesStep
  <1>3. CASE \E id \in TicketIDs, accepted \in BOOLEAN : BackfillMatches(id, accepted)
    BY <1>3, BackfillMatchesStep
  <1>4. CASE UNCHANGED vars
    BY <1>4 DEF vars, IInv, TicketsInv, SessionInv, ResponseInv
  <1> QED BY <1>1, <1>2, <1>3, <1>4 DEF Next

\* The invariant holds in every state of every behavior.
LEMMA Invariance ==
  Spec => []IInv
  BY InitIInv, NextIInv, PTL DEF Spec

-----------------------------------------------------------------------------
(***************************************************************************)
(* The invariants of the run.                                              *)
(***************************************************************************)
\* The core's tickets keep their players, nobody is in a session twice, and no
\* conversion of a match or a proposal loses its attributes.
THEOREM TypeCorrect ==
  Spec => []TypeOK
  <1>1. IInv => TypeOK
    <2>1. IInv => /\ used \in Seq(TicketIDs) /\ Len(used) = Cardinality(Range(used))
                  /\ Len(session.tickets) = Len(used) /\ (session = NoMatch <=> used = <<>>)
      BY DEF IInv, SessionInv
    <2>2. IInv => /\ uuids \in 0 .. MaxUUIDs /\ IsStruct(response.attributes)
                  /\ \A n \in DOMAIN response.tickets : IsStruct(response.tickets[n].attributes)
      BY DEF IInv, ResponseInv
    <2>3. IInv => /\ enriched \subseteq TicketIDs
                  /\ \A id \in TicketIDs : /\ tickets[id].id = id
                                           /\ PlayerIDs(tickets[id].players) = PlayerIDs(Players[id])
      BY DEF IInv, TicketsInv
    <2> QED BY <2>1, <2>2, <2>3 DEF TypeOK
  <1> QED BY <1>1, Invariance, PTL

\* A ticket and its players are in the session with the attributes that survive the
\* trip, by whichever RPC they came in.
THEOREM AttributesAreKept ==
  Spec => []AttributesReachTheSession
  <1>1. ASSUME IInv PROVE AttributesReachTheSession
    <2> SUFFICES ASSUME NEW n \in DOMAIN used
                 PROVE  LET sent == tickets[used[n]]
                            there == session.tickets[n]
                        IN  /\ there.attributes = Kept(sent.attributes)
                            /\ \A m \in DOMAIN sent.players :
                                  there.players[m].attributes = Kept(sent.players[m].attributes)
      BY DEF AttributesReachTheSession
    <2> DEFINE sent == tickets[used[n]]
               there == session.tickets[n]
    <2>1. n \in 1 .. Len(used) /\ used[n] \in TicketIDs
      BY <1>1, RangeOfUsed DEF IInv
    <2>2. sent \in Ticket /\ there = Arrives(sent)
      BY <1>1, <2>1 DEF IInv, SessionInv, TicketsInv
    <2> HIDE DEF sent, there
    <2>3. DOMAIN sent.players = 1 .. Len(sent.players)
      BY <2>2, LenProperties DEF Ticket
    <2>4. /\ there.attributes = Kept(sent.attributes)
          /\ \A m \in 1 .. Len(sent.players) :
                there.players[m].attributes = Kept(sent.players[m].attributes)
      BY <2>2, Arrival
    <2> QED BY <2>3, <2>4 DEF sent, there
  <1> QED BY <1>1, Invariance, PTL

\* The one party of a team, if there is one, is the team.
THEOREM PartiesAreTheTeam ==
  Spec => []PartiesSplitTheirTeam
  <1>1. ASSUME IInv PROVE PartiesSplitTheirTeam
    <2> SUFFICES ASSUME NEW n \in DOMAIN response.teams, response.teams[n].parties # {},
                        NEW k \in DOMAIN response.teams[n].users
                 PROVE  Cardinality({p \in response.teams[n].parties :
                                        response.teams[n].users[k] \in Range(p.users)}) = 1
      BY DEF PartiesSplitTheirTeam
    <2>1. PICK team \in Team : team = response.teams[n]
      <3>1. response.teams \in Seq(Team)
        BY <1>1 DEF IInv, ResponseInv
      <3> QED BY <3>1, LenProperties, ElementOfSeq
    <2>2. team.parties = {Party(team.users)}
      BY <2>1 DEF Team
    <2>3. Party(team.users).users = team.users /\ team.users[k] \in Range(team.users)
      BY <2>1 DEF Party, Range
    <2>4. {p \in team.parties : team.users[k] \in Range(p.users)} = {Party(team.users)}
      BY <2>2, <2>3
    <2> QED BY <2>1, <2>4, FS_Singleton
  <1> QED BY <1>1, Invariance, PTL
-----------------------------------------------------------------------------
(***************************************************************************)
(* Every player on one team.                                               *)
(***************************************************************************)
Joined(u) == [n \in DOMAIN u |-> PlayerIDs(Players[u[n]])]

Together(ids, teams) ==
    \E k \in 1 .. Len(teams) : Range(ids) \subseteq Range(Users(teams)[k])

TeamsInv ==
    /\ FlattenSeq(Users(session.teams)) = FlattenSeq(Joined(used))
    /\ \A n \in 1 .. Len(used) : Together(PlayerIDs(Players[used[n]]), session.teams)

\* Concatenating a single sequence.
LEMMA FlattenOne ==
  ASSUME NEW U, NEW a \in Seq(U)
  PROVE  FlattenSeq(<<a>>) = a
  <1>1. <<>> \in Seq(Seq(U))
    BY EmptySeq
  <1>2. Append(<<>>, a) = <<a>>
    OBVIOUS
  <1>3. FlattenSeq(<<a>>) = <<>> \o a
    BY <1>1, <1>2, FlattenAppend, FlattenEmpty
  <1> QED BY <1>3, ConcatEmptySeq

\* The elements of two sequences are among those of both together.
LEMMA RangeOfConcat ==
  ASSUME NEW U, NEW a \in Seq(U), NEW b \in Seq(U)
  PROVE  Range(a) \subseteq Range(a \o b) /\ Range(b) \subseteq Range(a \o b)
  <1> DEFINE c == a \o b
             m == Len(a)
             l == Len(b)
  <1>1. /\ DOMAIN a = 1 .. m /\ DOMAIN b = 1 .. l /\ DOMAIN c = 1 .. m + l
        /\ m \in Nat /\ l \in Nat
        /\ \A n \in 1 .. m + l : c[n] = IF n <= m THEN a[n] ELSE b[n - m]
    BY ConcatProperties, LenProperties
  <1> HIDE DEF c, m, l
  <1>2. ASSUME NEW n \in 1 .. m PROVE a[n] \in Range(c)
    <2>1. n \in 1 .. m + l /\ n <= m
      BY <1>1
    <2> QED BY <1>1, <2>1 DEF Range
  <1>3. ASSUME NEW n \in 1 .. l PROVE b[n] \in Range(c)
    <2>1. PICK k \in 1 .. m + l : k = m + n /\ ~(k <= m) /\ k - m = n
      BY <1>1
    <2> QED BY <1>1, <2>1 DEF Range
  <1> QED BY <1>1, <1>2, <1>3 DEF Range, c

\* The players of a ticket of the core have ids.
LEMMA PlayersOfCore ==
  ASSUME NEW id \in TicketIDs
  PROVE  PlayerIDs(Players[id]) \in Seq(STRING)
  BY SessionAssumption, PlayerIDsType

\* A ticket arrives with the players it was created with, enriched or not.
LEMMA PlayersArrive ==
  ASSUME IInv, NEW id \in TicketIDs
  PROVE  PlayerIDs(Arrives(tickets[id]).players) = PlayerIDs(Players[id])
  <1> DEFINE sent == tickets[id].players
             there == Arrives(tickets[id]).players
  <1>1. tickets[id] \in Ticket /\ PlayerIDs(sent) = PlayerIDs(Players[id])
    BY DEF IInv, TicketsInv
  <1>2. /\ there \in Seq(JsonPlayer) /\ sent \in Seq(Player) /\ Len(there) = Len(sent)
        /\ \A n \in 1 .. Len(sent) : there[n].id = sent[n].id
    BY <1>1, Arrival DEF JsonTicket, Ticket
  <1> HIDE DEF sent, there
  <1>3. DOMAIN there = 1 .. Len(sent) /\ DOMAIN sent = 1 .. Len(sent)
    BY <1>2, LenProperties
  <1>4. PlayerIDs(there) = PlayerIDs(sent)
    BY <1>2, <1>3 DEF PlayerIDs
  <1> QED BY <1>1, <1>4 DEF there

\* The players of a list of tickets, one list for each.
LEMMA JoinedType ==
  ASSUME NEW u \in Seq(TicketIDs)
  PROVE  /\ Joined(u) \in Seq(Seq(STRING)) /\ Len(Joined(u)) = Len(u)
         /\ \A n \in 1 .. Len(u) : Joined(u)[n] = PlayerIDs(Players[u[n]])
  <1>1. DOMAIN u = 1 .. Len(u) /\ Len(u) \in Nat
    BY LenProperties
  <1>2. \A n \in 1 .. Len(u) : PlayerIDs(Players[u[n]]) \in Seq(STRING)
    BY ElementOfSeq, PlayersOfCore
  <1>3. Joined(u) \in [1 .. Len(u) -> Seq(STRING)]
    BY <1>1, <1>2 DEF Joined
  <1> QED BY <1>1, <1>3, IsASeq, LenProperties DEF Joined

\* The players after one more ticket.
LEMMA JoinedAppend ==
  ASSUME NEW u \in Seq(TicketIDs), NEW id \in TicketIDs
  PROVE  Joined(Append(u, id)) = Append(Joined(u), PlayerIDs(Players[id]))
  <1> DEFINE v == Append(u, id)
             m == Len(u)
             joined == Append(Joined(u), PlayerIDs(Players[id]))
  <1>1. /\ v \in Seq(TicketIDs) /\ Len(v) = m + 1 /\ v[m + 1] = id /\ m \in Nat
        /\ \A n \in 1 .. m : v[n] = u[n]
    BY AppendProperties, LenProperties
  <1>2. /\ Joined(u) \in Seq(Seq(STRING)) /\ Len(Joined(u)) = m
        /\ \A n \in 1 .. m : Joined(u)[n] = PlayerIDs(Players[u[n]])
    BY JoinedType
  <1> HIDE DEF v, m
  <1>3. /\ Joined(v) \in Seq(Seq(STRING)) /\ Len(Joined(v)) = m + 1
        /\ \A n \in 1 .. m + 1 : Joined(v)[n] = PlayerIDs(Players[v[n]])
    BY <1>1, JoinedType
  <1>4. /\ joined \in Seq(Seq(STRING)) /\ Len(joined) = m + 1
        /\ joined[m + 1] = PlayerIDs(Players[id])
        /\ \A n \in 1 .. m : joined[n] = Joined(u)[n]
    BY <1>2, PlayersOfCore, AppendProperties
  <1> HIDE DEF joined
  <1>5. \A n \in 1 .. m + 1 : Joined(v)[n] = joined[n]
    <2>1. ASSUME NEW n \in 1 .. m PROVE Joined(v)[n] = joined[n]
      <3>1. n \in 1 .. m + 1
        BY <1>1
      <3>2. v[n] = u[n] /\ joined[n] = Joined(u)[n]
        BY <1>1, <1>4
      <3>3. Joined(u)[n] = PlayerIDs(Players[u[n]]) /\ Joined(v)[n] = PlayerIDs(Players[v[n]])
        BY <1>2, <1>3, <3>1
      <3> QED BY <3>2, <3>3
    <2>2. ASSUME NEW n, n = m + 1 PROVE Joined(v)[n] = joined[n]
      BY <1>1, <1>3, <1>4, <2>2
    <2>3. \A n \in 1 .. m + 1 : n \in 1 .. m \/ n = m + 1
      BY <1>1
    <2> QED BY <2>1, <2>2, <2>3
  <1>6. Joined(v) = joined
    BY <1>3, <1>4, <1>5, SeqEqual
  <1> QED BY <1>6 DEF v, joined

\* The users of the teams on the wire.
LEMMA UsersOfTeams ==
  ASSUME NEW teams \in Seq(Team)
  PROVE  /\ Users(teams) \in Seq(Seq(STRING)) /\ Len(Users(teams)) = Len(teams)
         /\ DOMAIN teams = 1 .. Len(teams) /\ DOMAIN Users(teams) = 1 .. Len(teams)
         /\ Len(teams) \in Nat
         /\ \A k \in 1 .. Len(teams) : Users(teams)[k] = teams[k].users
  <1>1. \A team \in Team : team.users \in Seq(STRING)
    BY DEF Team
  <1>2. /\ Users(teams) \in Seq(Seq(STRING)) /\ Len(Users(teams)) = Len(teams)
        /\ \A k \in 1 .. Len(teams) : Users(teams)[k] = teams[k].users
    BY <1>1, UsersType
  <1> QED BY <1>2, LenProperties

\* A match puts the players of both tickets on its one team.
LEMMA MakeMatchesTeams ==
  ASSUME IInv, NEW ids \in TicketIDs \X TicketIDs, MakeMatches(ids)
  PROVE  TeamsInv'
  <1>1. PICK s \in JsonTicket, t \in JsonTicket, team \in Team, attributes \in Json :
            /\ s = Arrives(tickets[ids[1]]) /\ t = Arrives(tickets[ids[2]])
            /\ team.users = PlayerIDs(s.players) \o PlayerIDs(t.players)
            /\ session' = [tickets |-> <<s, t>>, teams |-> <<team>>, attributes |-> attributes]
    BY MatchMade
  <1>2. PICK i \in TicketIDs, j \in TicketIDs : ids = <<i, j>>
    OBVIOUS
  <1> DEFINE a == PlayerIDs(Players[i])
             b == PlayerIDs(Players[j])
  <1>3. a \in Seq(STRING) /\ b \in Seq(STRING) /\ a \o b \in Seq(STRING)
    BY PlayersOfCore, ConcatProperties
  <1>4. team.users = a \o b
    BY <1>1, <1>2, PlayersArrive
  <1>5. used' = <<i, j>> /\ DOMAIN <<i, j>> = 1 .. 2 /\ <<i, j>>[1] = i /\ <<i, j>>[2] = j
        /\ Len(<<i, j>>) = 2
    BY <1>2 DEF MakeMatches
  <1>6. Joined(used') = <<a, b>>
    BY <1>5 DEF Joined
  <1>7. Users(session'.teams) = <<a \o b>>
    <2>1. <<team>> \in Seq(Team) /\ Len(<<team>>) = 1 /\ DOMAIN <<team>> = 1 .. 1 /\ <<team>>[1] = team
      OBVIOUS
    <2>2. Users(<<team>>) = [n \in 1 .. 1 |-> team.users]
      BY <2>1 DEF Users
    <2> QED BY <1>1, <1>4, <2>2
  <1> HIDE DEF a, b
  <1>8. FlattenSeq(<<a \o b>>) = a \o b
    BY <1>3, FlattenOne
  <1>9. FlattenSeq(<<a, b>>) = a \o b
    BY <1>3, FlattenPair
  <1>10. Range(a) \subseteq Range(a \o b) /\ Range(b) \subseteq Range(a \o b)
    BY <1>3, RangeOfConcat
  <1>11. \A n \in 1 .. Len(used') : Together(PlayerIDs(Players[used'[n]]), session'.teams)
    <2>1. Len(session'.teams) = 1 /\ Users(session'.teams)[1] = a \o b
      BY <1>1, <1>7
    <2>2. \A n \in 1 .. 2 : n = 1 \/ n = 2
      OBVIOUS
    <2>3. Together(a, session'.teams) /\ Together(b, session'.teams)
      <3>1. 1 \in 1 .. Len(session'.teams)
        BY <2>1
      <3> QED BY <1>10, <2>1, <3>1 DEF Together
    <2> QED BY <1>5, <2>2, <2>3 DEF a, b
  <1> QED BY <1>6, <1>7, <1>8, <1>9, <1>11 DEF TeamsInv

\* A proposal taken over puts the players of its ticket on a team of their own.
LEMMA BackfillMatchesTeams ==
  ASSUME IInv, TeamsInv, NEW id \in TicketIDs, BackfillMatches(id, TRUE)
  PROVE  TeamsInv'
  <1>1. PICK t \in JsonTicket, team \in Team :
            /\ t = Arrives(tickets[id]) /\ team.users = PlayerIDs(t.players)
            /\ response'.teams = Append(WithUsers(session.teams), team)
            /\ TRUE => session' = [tickets    |-> session.tickets \o <<t>>,
                                   teams      |-> response'.teams,
                                   attributes |-> session.attributes]
    BY ProposalMade
  <1> DEFINE ids == PlayerIDs(Players[id])
             teams == WithUsers(session.teams)
             all == Append(teams, team)
  <1>2. team.users = ids /\ ids \in Seq(STRING)
    BY <1>1, PlayersArrive, PlayersOfCore
  <1>3. session.teams \in Seq(Team) /\ used \in Seq(TicketIDs)
    BY DEF IInv, SessionInv
  <1>4. teams \in Seq(Team)
    BY <1>3, WithUsersType
  <1>5. used' = Append(used, id) /\ session'.teams = all
    BY <1>1 DEF BackfillMatches
  <1>6. \A te \in Team : te.users \in Seq(STRING)
    BY DEF Team
  <1> HIDE DEF ids
  <1>7. FlattenSeq(Users(teams)) = FlattenSeq(Users(session.teams))
    BY <1>3, <1>6, FlattenWithUsers
  <1> HIDE DEF teams
  <1>8. FlattenSeq(Users(all)) = FlattenSeq(Users(teams)) \o ids
    <2>1. Users(all) = Append(Users(teams), ids)
      <3>1. Users(all) = Append(Users(teams), team.users)
        BY <1>4, <1>6, UsersAppend
      <3> QED BY <1>2, <3>1
    <2> HIDE DEF all
    <2> QED BY <1>2, <1>4, <2>1, UsersOfTeams, FlattenAppend
  <1>9. FlattenSeq(Joined(used')) = FlattenSeq(Joined(used)) \o ids
    <2>1. Joined(used') = Append(Joined(used), ids)
      BY <1>3, <1>5, JoinedAppend DEF ids
    <2> QED BY <1>2, <1>3, <2>1, JoinedType, FlattenAppend
  <1>10. /\ Len(all) = Len(teams) + 1 /\ Len(teams) \in Nat /\ all \in Seq(Team)
         /\ all[Len(teams) + 1] = team /\ \A k \in 1 .. Len(teams) : all[k] = teams[k]
    BY <1>4, AppendProperties, LenProperties
  <1> HIDE DEF all
  <1>11. ASSUME NEW p \in Seq(STRING), Together(p, session.teams) PROVE Together(p, all)
    <2>1. PICK k \in 1 .. Len(session.teams) : Range(p) \subseteq Range(session.teams[k].users)
      BY <1>3, <1>11, UsersOfTeams DEF Together
    <2>2. CASE session.teams[k].users = <<>>
      <3>1. Range(session.teams[k].users) = {}
        BY <2>2 DEF Range
      <3>2. Len(all) \in 1 .. Len(all)
        BY <1>10
      <3> QED BY <2>1, <3>1, <3>2 DEF Together
    <2>3. CASE session.teams[k].users # <<>>
      <3> DEFINE kept == {n \in DOMAIN session.teams : session.teams[n].users # <<>>}
      <3>1. k \in kept
        BY <1>3, <2>3, UsersOfTeams
      <3>2. teams = Only(session.teams, kept)
        BY DEF teams, WithUsers
      <3> HIDE DEF kept
      <3>3. PICK j \in 1 .. Len(teams) : teams[j] = session.teams[k]
        <4> DEFINE s == session.teams
        <4>1. s \in Seq(Team) /\ k \in 1 .. Len(s)
          BY <1>3
        <4> HIDE DEF s
        <4>2. \E j \in 1 .. Len(Only(s, kept)) : Only(s, kept)[j] = s[k]
          BY <3>1, <4>1, OnlyKeeps
        <4> QED BY <3>2, <4>2 DEF s
      <3>4. j \in 1 .. Len(all) /\ all[j] = session.teams[k]
        BY <1>10, <3>3
      <3>5. Users(all)[j] = session.teams[k].users
        BY <1>10, <3>4, UsersOfTeams
      <3> QED BY <2>1, <3>4, <3>5 DEF Together
    <2> QED BY <2>2, <2>3
  <1>12. Together(ids, all)
    <2>1. PICK j \in 1 .. Len(all) : j = Len(teams) + 1
      BY <1>10
    <2>2. Users(all)[j] = ids
      BY <1>2, <1>10, <2>1, UsersOfTeams
    <2> QED BY <2>1, <2>2 DEF Together
  <1>13. \A n \in 1 .. Len(used') : Together(PlayerIDs(Players[used'[n]]), all)
    <2>1. /\ Len(used') = Len(used) + 1 /\ Len(used) \in Nat /\ used'[Len(used) + 1] = id
          /\ \A n \in 1 .. Len(used) : used'[n] = used[n] /\ used[n] \in TicketIDs
      BY <1>3, <1>5, AppendProperties, LenProperties, ElementOfSeq
    <2>2. ASSUME NEW n \in 1 .. Len(used) PROVE Together(PlayerIDs(Players[used'[n]]), all)
      <3>1. used'[n] \in TicketIDs /\ Together(PlayerIDs(Players[used'[n]]), session.teams)
        BY <2>1 DEF TeamsInv
      <3> QED BY <1>11, <3>1, PlayersOfCore
    <2>3. ASSUME NEW n, n = Len(used) + 1 PROVE Together(PlayerIDs(Players[used'[n]]), all)
      BY <1>12, <2>1, <2>3 DEF ids
    <2>4. \A n \in 1 .. Len(used') : n \in 1 .. Len(used) \/ n = Len(used) + 1
      BY <2>1
    <2> QED BY <2>2, <2>3, <2>4
  <1> QED BY <1>5, <1>7, <1>8, <1>9, <1>13 DEF TeamsInv

\* Every player of the session is on exactly one team, and no ticket is split.
THEOREM PlayersStayOnTheirTeam ==
  Spec => []EveryPlayerOnOneTeam
  <1>1. ASSUME Init PROVE TeamsInv
    <2>1. session.teams = <<>> /\ used = <<>>
      <3>1. session = NoMatch /\ used = <<>>
        BY <1>1 DEF Init
      <3> QED BY <3>1, NoMatchType
    <2>2. Users(<<>>) = <<>> /\ Joined(<<>>) = <<>> /\ Len(<<>>) = 0
      BY DEF Users, Joined
    <2> QED BY <2>1, <2>2 DEF TeamsInv
  <1>2. ASSUME IInv, TeamsInv, [Next]_vars PROVE TeamsInv'
    <2>1. ASSUME NEW id \in TicketIDs, EnrichTicket(id) PROVE TeamsInv'
      <3>1. UNCHANGED <<used, session>>
        BY <2>1 DEF EnrichTicket
      <3> QED BY <1>2, <3>1 DEF TeamsInv
    <2>2. CASE \E ids \in TicketIDs \X TicketIDs : ids[1] # ids[2] /\ MakeMatches(ids)
      BY <1>2, <2>2, MakeMatchesTeams
    <2>3. ASSUME NEW id \in TicketIDs, BackfillMatches(id, FALSE) PROVE TeamsInv'
      <3>1. UNCHANGED <<used, session>>
        BY <2>3 DEF BackfillMatches
      <3> QED BY <1>2, <3>1 DEF TeamsInv
    <2>4. ASSUME NEW id \in TicketIDs, BackfillMatches(id, TRUE) PROVE TeamsInv'
      BY <1>2, <2>4, BackfillMatchesTeams
    <2>5. CASE UNCHANGED vars
      BY <1>2, <2>5 DEF vars, TeamsInv
    <2> QED BY <1>2, <2>1, <2>2, <2>3, <2>4, <2>5 DEF Next
  <1>3. ASSUME IInv, TeamsInv PROVE EveryPlayerOnOneTeam
    <2>1. /\ session.teams \in Seq(Team)
          /\ DOMAIN Users(session.teams) = 1 .. Len(session.teams) /\ DOMAIN used = 1 .. Len(used)
      BY <1>3, UsersOfTeams, RangeOfUsed DEF IInv, SessionInv
    <2>2. Users(session.teams) = [n \in DOMAIN session.teams |-> session.teams[n].users]
          /\ Joined(used) = [n \in DOMAIN used |-> PlayerIDs(Players[used[n]])]
      BY DEF Users, Joined
    <2>3. \A n \in DOMAIN used : \E k \in DOMAIN Users(session.teams) :
              Range(PlayerIDs(Players[used[n]])) \subseteq Range(Users(session.teams)[k])
      BY <1>3, <2>1 DEF TeamsInv, Together
    <2>4. FlattenSeq(Users(session.teams)) = FlattenSeq(Joined(used))
      BY <1>3 DEF TeamsInv
    <2> DEFINE users == Users(session.teams)
    <2> QED BY <2>2, <2>3, <2>4 DEF EveryPlayerOnOneTeam
  <1> QED BY <1>1, <1>2, <1>3, Invariance, PTL DEF Spec

-----------------------------------------------------------------------------
(***************************************************************************)
(* The action properties of the run.                                       *)
(***************************************************************************)
LEMMA FrontOfAppend ==
  ASSUME NEW S, NEW s \in Seq(S), NEW e \in S
  PROVE  Front(Append(s, e)) = s
  <1> DEFINE t == Append(s, e)
             m == Len(s)
  <1>1. /\ t \in Seq(S) /\ Len(t) = m + 1 /\ m \in Nat /\ \A n \in 1 .. m : t[n] = s[n]
    BY AppendProperties, LenProperties
  <1> HIDE DEF t
  <1>2. m + 1 - 1 = m
    BY <1>1
  <1>3. Front(t) = SubSeq(t, 1, m)
    BY <1>1, <1>2 DEF Front
  <1>4. SubSeq(t, 1, m) \in Seq(S) /\ Len(SubSeq(t, 1, m)) = m
        /\ \A n \in 1 .. m : SubSeq(t, 1, m)[n] = t[n]
    BY <1>1, SubSeqProperties
  <1>5. Front(t) = s
    BY <1>1, <1>3, <1>4, SeqEqual
  <1> QED BY <1>5 DEF t

\* A proposal adds a team and an id to the session and takes nothing from it.
THEOREM ProposalsTakeNothing ==
  Spec => ProposalsExtendTheSession
  <1>1. ASSUME IInv, [Next]_vars, session # NoMatch, response' # response
        PROVE  /\ Front(response'.teams) = WithUsers(session.teams)
               /\ \A k \in DOMAIN session.attributes :
                     k \in DOMAIN response'.attributes
                     /\ response'.attributes[k] = session.attributes[k]
               /\ "generatedID" \in DOMAIN response.attributes =>
                     response'.attributes["generatedID"] # response.attributes["generatedID"]
    <2>1. PICK id \in TicketIDs, accepted \in BOOLEAN : BackfillMatches(id, accepted)
      BY <1>1 DEF Next, EnrichTicket, MakeMatches, vars
    <2>2. PICK t \in JsonTicket, team \in Team :
              /\ t = Arrives(tickets[id]) /\ team.users = PlayerIDs(t.players)
              /\ response'.teams = Append(WithUsers(session.teams), team)
              /\ response'.attributes
                     = Assign(session.attributes, "generatedID", GeneratedID(uuids + 2))
      BY <1>1, <2>1, ProposalMade
    <2>3. Front(response'.teams) = WithUsers(session.teams)
      <3>1. WithUsers(session.teams) \in Seq(Team)
        BY <1>1, WithUsersType DEF IInv, SessionInv
      <3> QED BY <2>2, <3>1, FrontOfAppend
    <2>4. uuids + 2 \in Nat /\ uuids \in Nat
      BY <1>1, SessionAssumption DEF IInv, ResponseInv
    <2>5. session.attributes \in Json /\ "generatedID" \in Names
          /\ GeneratedID(uuids + 2) \in Values /\ GeneratedID(uuids + 2).type = "json"
          /\ GeneratedID(uuids + 2).of = uuids + 2
      BY <1>1, <2>4 DEF IInv, SessionInv, GeneratedID, Values, Names
    <2>6. LET new == Assign(session.attributes, "generatedID", GeneratedID(uuids + 2))
          IN  /\ DOMAIN new = {"generatedID"} \cup DOMAIN session.attributes
              /\ new["generatedID"] = GeneratedID(uuids + 2)
              /\ \A k \in DOMAIN session.attributes :
                    k # "generatedID" => new[k] = session.attributes[k]
      <3> DEFINE map == session.attributes
                 value == GeneratedID(uuids + 2)
      <3>1. map \in Json /\ "generatedID" \in Names /\ value \in Values /\ value.type = "json"
        BY <2>5
      <3> HIDE DEF map, value
      <3>2. /\ DOMAIN Assign(map, "generatedID", value) = {"generatedID"} \cup DOMAIN map
            /\ Assign(map, "generatedID", value)["generatedID"] = value
            /\ \A k \in DOMAIN map :
                  k # "generatedID" => Assign(map, "generatedID", value)[k] = map[k]
        BY ONLY <3>1, AssignIsJson
      <3> QED BY <3>2 DEF map, value
    <2>7. \A k \in DOMAIN session.attributes : k # "generatedID"
      BY <1>1 DEF IInv, SessionInv
    <2>8. "generatedID" \in DOMAIN response.attributes =>
              response.attributes["generatedID"].of \in 0 .. uuids
      BY <1>1 DEF IInv, ResponseInv
    <2>9. "generatedID" \in DOMAIN response.attributes =>
              response'.attributes["generatedID"] # response.attributes["generatedID"]
      BY <2>2, <2>4, <2>5, <2>6, <2>8
    <2> QED BY <2>2, <2>3, <2>6, <2>7, <2>9
  <1>2. IInv /\ [Next]_vars =>
            [session # NoMatch /\ response' # response =>
                /\ Front(response'.teams) = WithUsers(session.teams)
                /\ \A k \in DOMAIN session.attributes :
                      k \in DOMAIN response'.attributes
                      /\ response'.attributes[k] = session.attributes[k]
                /\ "generatedID" \in DOMAIN response.attributes =>
                      response'.attributes["generatedID"] # response.attributes["generatedID"]]_vars
    BY <1>1
  <1> QED BY <1>2, Invariance, PTL DEF Spec, ProposalsExtendTheSession

\* A second EnrichTicket changes nothing, and the first one only empty attributes.
THEOREM EnrichOnce ==
  Spec => EnrichIsIdempotent
  <1> DEFINE Once == \A id \in TicketIDs :
                        LET kept == Kept(tickets[id].attributes)
                        IN  /\ id \in enriched => tickets'[id] = tickets[id]
                            /\ id \in enriched' \ enriched =>
                                  tickets'[id].attributes = IF kept = EmptyMap THEN enrichMap ELSE kept
  <1>1. ASSUME IInv, NEW i \in TicketIDs, EnrichTicket(i) PROVE Once
    <2> DEFINE back == Arrives(Enrich(Arrives(tickets[i])))
    <2>1. /\ tickets' = [tickets EXCEPT ![i] = back]
          /\ enriched' = enriched \cup {i}
      BY <1>1 DEF EnrichTicket
    <2>2. /\ tickets[i] \in Ticket
          /\ i \in enriched => tickets[i] \in JsonTicket /\ tickets[i].attributes # EmptyMap
      BY <1>1 DEF IInv, TicketsInv
    <2>3. /\ back.attributes = IF Kept(tickets[i].attributes) = EmptyMap THEN enrichMap
                               ELSE Kept(tickets[i].attributes)
          /\ i \in enriched => back = tickets[i]
      <3>1. /\ Kept(tickets[i].attributes) = EmptyMap => back.attributes = enrichMap
            /\ Kept(tickets[i].attributes) # EmptyMap => back.attributes = Kept(tickets[i].attributes)
        BY <2>2, Enriched
      <3>2. tickets[i] \in JsonTicket /\ tickets[i].attributes # EmptyMap => back = tickets[i]
        BY <2>2, Enriched
      <3> HIDE DEF back
      <3> QED BY <2>2, <3>1, <3>2
    <2> HIDE DEF back
    <2>4. \A id \in TicketIDs : tickets'[id] = IF id = i THEN back ELSE tickets[id]
      BY <1>1, <2>1 DEF IInv, TicketsInv
    <2> QED BY <2>1, <2>3, <2>4
  <1>2. ASSUME UNCHANGED <<tickets, enriched>> PROVE Once
    BY <1>2
  <1>3. IInv /\ [Next]_vars => [Once]_vars
    <2>1. ASSUME NEW ids, MakeMatches(ids) PROVE Once
      BY <1>2, <2>1 DEF MakeMatches
    <2>2. ASSUME NEW id, NEW accepted, BackfillMatches(id, accepted) PROVE Once
      BY <1>2, <2>2 DEF BackfillMatches
    <2> HIDE DEF Once
    <2> QED BY <1>1, <2>1, <2>2 DEF Next
  <1> QED BY <1>3, Invariance, PTL DEF Spec, EnrichIsIdempotent

=============================================================================
