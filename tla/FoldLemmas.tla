------------------------------ MODULE FoldLemmas ------------------------------
(***************************************************************************)
(* Folds over sequences, and what follows for sums and concatenations.      *)
(***************************************************************************)
EXTENDS Integers, SequencesExt, SequenceTheorems, FiniteSetTheorems, WellFoundedInduction, TLAPS

-----------------------------------------------------------------------------
(* Induction and folds.                                                     *)

\* A nonempty set of natural numbers has a least element.
LEMMA LeastNatural ==
  ASSUME NEW T \in SUBSET Nat, T # {}
  PROVE  \E n \in T : \A k \in T : n <= k
<1> DEFINE R == {ss \in Nat \X Nat : ss[1] < ss[2]}
<1>1. IsWellFoundedOn(R, Nat)
  BY NatLessThanWellFounded DEF OpToRel
<1>2. PICK n \in T : \A k \in T : <<k, n>> \notin R
  BY <1>1, WFMin, Zenon
<1>3. ASSUME NEW k \in T PROVE n <= k
  <2>1. <<k, n>> \in Nat \X Nat
    OBVIOUS
  <2>2. ~(<<k, n>>[1] < <<k, n>>[2])
    BY <1>2, <2>1, Zenon
  <2> QED BY <2>2
<1> QED BY <1>3

\* The values of a fold over the numbers up to n: it takes the greatest last.
Folds(it, n, base, step) ==
    it = [s \in SUBSET (1..n) |-> IF s = {} THEN base ELSE step[<<Max(s), it[s \ {Max(s)}]>>]]

LEMMA Greatest ==
  ASSUME NEW n \in Nat, NEW s \in SUBSET (1..n), n \in s
  PROVE  Max(s) = n
<1>1. n \in s /\ \A k \in s : n >= k
  OBVIOUS
<1>2. \A m \in s : (\A k \in s : m >= k) => m = n
  BY <1>1
<1> QED BY <1>1, <1>2 DEF Max

\* A nonempty set of numbers up to n has a greatest element.
LEMMA GreatestUpTo ==
  ASSUME NEW n \in Nat, NEW s \in SUBSET (0..n), s # {}
  PROVE  Max(s) \in s /\ \A k \in s : k <= Max(s)
<1> DEFINE T == {n - k : k \in s}
<1>1. T \in SUBSET Nat /\ T # {}
  <2>1. \A k \in s : n - k \in Nat
    OBVIOUS
  <2>2. PICK k \in s : TRUE
    OBVIOUS
  <2>3. n - k \in T
    OBVIOUS
  <2> QED BY <2>1, <2>3
<1>2. PICK m \in T : \A k \in T : m <= k
  <2> HIDE DEF T
  <2> QED BY <1>1, LeastNatural
<1>3. PICK g \in s : m = n - g
  BY <1>2
<1>4. \A k \in s : g >= k
  <2> TAKE k \in s
  <2>1. n - g <= n - k
    BY <1>2, <1>3
  <2> QED BY <2>1
<1>5. Max(s) \in s /\ \A k \in s : Max(s) >= k
  BY <1>4 DEF Max
<1>6. Max(s) \in Nat /\ \A k \in s : k \in Nat
  <2>1. \A k \in s : k \in Nat
    OBVIOUS
  <2> QED BY <1>5, <2>1
<1> QED BY <1>5, <1>6

LEMMA GreatestIn ==
  ASSUME NEW n \in Nat, NEW s \in SUBSET (1..n), s # {}
  PROVE  Max(s) \in s /\ \A k \in s : k <= Max(s)
<1>1. s \in SUBSET (0..n)
  OBVIOUS
<1> QED BY <1>1, GreatestUpTo

LEMMA LeastIn ==
  ASSUME NEW s \in SUBSET Nat, s # {}
  PROVE  Min(s) \in s /\ \A k \in s : Min(s) <= k
<1>1. PICK m \in s : \A k \in s : m <= k
  BY LeastNatural
<1> QED BY <1>1 DEF Min

HasFold(n, V, base, step) == \E it \in [SUBSET (1..n) -> V] : Folds(it, n, base, step)

LEMMA FoldExists ==
  ASSUME NEW N \in Nat, NEW V, NEW base \in V, NEW step \in [(1..N) \X V -> V]
  PROVE  HasFold(N, V, base, step)
<1> DEFINE Bad == {n \in 0..N : ~HasFold(n, V, base, step)}
<1>1. SUFFICES ASSUME Bad # {} PROVE FALSE
  BY DEF Bad
<1>2. PICK n \in Bad : \A k \in Bad : n <= k
  <2>1. Bad \in SUBSET Nat
    OBVIOUS
  <2> HIDE DEF Bad
  <2> QED BY <1>1, <2>1, LeastNatural
<1>3. n # 0
  <2>1. SUFFICES ASSUME n = 0 PROVE HasFold(n, V, base, step)
    BY <1>2
  <2> DEFINE it == [s \in SUBSET (1..n) |-> base]
  <2>2. \A s \in SUBSET (1..n) : s = {}
    BY <2>1
  <2>3. Folds(it, n, base, step)
    BY <2>2 DEF Folds
  <2> QED BY <2>3 DEF HasFold
<1>4. n - 1 \in 0..N /\ n - 1 \notin Bad
  <2>1. n \in 0..N /\ (n - 1 \in Bad => n <= n - 1)
    BY <1>2
  <2> HIDE DEF Bad
  <2> QED BY <2>1, <1>3
<1>5. PICK it \in [SUBSET (1..(n - 1)) -> V] : Folds(it, n - 1, base, step)
  BY <1>4 DEF HasFold
<1> DEFINE next == [s \in SUBSET (1..n) |-> IF n \in s THEN step[<<n, it[s \ {n}]>>] ELSE it[s]]
<1>6. ASSUME NEW s \in SUBSET (1..n)
      PROVE  /\ next[s] \in V
             /\ next[s] = IF s = {} THEN base ELSE step[<<Max(s), next[s \ {Max(s)}]>>]
  <2>1. CASE n \in s
    <3>1. Max(s) = n
      BY <2>1, <1>2, Greatest
    <3>2. s \ {n} \in SUBSET (1..(n - 1)) /\ n \notin s \ {n} /\ s \ {n} \in SUBSET (1..n)
      BY <1>2
    <3>3. next[s \ {n}] = it[s \ {n}] /\ it[s \ {n}] \in V
      BY <3>2
    <3>4. next[s] = step[<<n, it[s \ {n}]>>]
      BY <2>1
    <3>5. <<n, it[s \ {n}]>> \in (1..N) \X V
      BY <3>3, <1>2, <1>3
    <3> HIDE DEF next
    <3> QED BY <2>1, <3>1, <3>3, <3>4, <3>5
  <2>2. CASE n \notin s
    <3>0. \A k \in s : k \in 1..(n - 1)
      BY <2>2, <1>2
    <3>1. \A m : s \in SUBSET (1..(n - 1)) /\ s \ {m} \in SUBSET (1..(n - 1)) /\ n \notin s \ {m} /\ s \ {m} \in SUBSET (1..n)
      BY <2>2, <3>0
    <3>2. it[s] = IF s = {} THEN base ELSE step[<<Max(s), it[s \ {Max(s)}]>>]
      BY <1>5, <3>1 DEF Folds
    <3>3. next[s] = it[s] /\ next[s \ {Max(s)}] = it[s \ {Max(s)}]
      BY <2>2, <3>1
    <3> HIDE DEF next
    <3> QED BY <3>1, <3>2, <3>3
  <2> QED BY <2>1, <2>2
<1>7. Folds(next, n, base, step)
  <2>1. next = [s \in SUBSET (1..n) |-> next[s]]
    OBVIOUS
  <2> HIDE DEF next
  <2> QED BY <1>6, <2>1 DEF Folds
<1>8. next \in [SUBSET (1..n) -> V]
  <2>1. next = [s \in SUBSET (1..n) |-> next[s]]
    OBVIOUS
  <2> HIDE DEF next
  <2> QED BY <1>6, <2>1
<1> QED BY <1>2, <1>7, <1>8 DEF HasFold

LEMMA UpTo ==
  ASSUME NEW n \in Nat, NEW i \in 1..n
  PROVE  1..i \in SUBSET (1..n) /\ 1..i # {} /\ i \in 1..i /\ (1..i) \ {i} = 1..(i - 1)
  OBVIOUS

\* Induction up to N, on a set.
LEMMA CountingUp ==
  ASSUME NEW N \in Nat, NEW S, 0 \in S, \A i \in 1..N : i - 1 \in S => i \in S
  PROVE  \A i \in 0..N : i \in S
<1> DEFINE T == {i \in 0..N : i \notin S}
<1>1. SUFFICES ASSUME T # {} PROVE FALSE
  OBVIOUS
<1>2. PICK i \in T : \A k \in T : i <= k
  <2>1. T \in SUBSET Nat
    OBVIOUS
  <2> HIDE DEF T
  <2> QED BY <1>1, <2>1, LeastNatural
<1>3. i \in 0..N /\ i \notin S /\ i # 0
  BY <1>2
<1>4. i \in 1..N /\ i - 1 \in 0..N /\ i - 1 \notin T
  <2>1. i - 1 \in T => i <= i - 1
    BY <1>2
  <2> HIDE DEF T
  <2> QED BY <1>3, <2>1
<1> QED BY <1>3, <1>4

\* The steps of a fold taken in turn.
Turns(g, N, base, step) == g[0] = base /\ \A i \in 1..N : g[i] = step[<<i, g[i - 1]>>]

LEMMA TurnsOfFold ==
  ASSUME NEW N \in Nat, NEW V, NEW base, NEW step, NEW it \in [SUBSET (1..N) -> V], Folds(it, N, base, step)
  PROVE  Turns([i \in 0..N |-> it[1..i]], N, base, step) /\ [i \in 0..N |-> it[1..i]] \in [0..N -> V]
<1> DEFINE g == [i \in 0..N |-> it[1..i]]
<1>1. 1..0 = {} /\ 1..0 \in SUBSET (1..N)
  OBVIOUS
<1>2. g[0] = base
  BY <1>1 DEF Folds
<1>3. ASSUME NEW i \in 1..N PROVE g[i] = step[<<i, g[i - 1]>>]
  <2>1. 1..i \in SUBSET (1..N) /\ 1..i # {} /\ i \in 1..i /\ (1..i) \ {i} = 1..(i - 1)
    BY UpTo
  <2>2. Max(1..i) = i
    BY <2>1, Greatest
  <2>3. it[1..i] = step[<<Max(1..i), it[(1..i) \ {Max(1..i)}]>>]
    BY <2>1 DEF Folds
  <2>4. i - 1 \in 0..N /\ i \in 0..N
    OBVIOUS
  <2> QED BY <2>1, <2>2, <2>3, <2>4
<1>4. \A i \in 0..N : 1..i \in SUBSET (1..N)
  OBVIOUS
<1> QED BY <1>2, <1>3, <1>4 DEF Turns

LEMMA TurnsExist ==
  ASSUME NEW N \in Nat, NEW V, NEW base \in V, NEW step \in [(1..N) \X V -> V]
  PROVE  \E g \in [0..N -> V] : Turns(g, N, base, step)
<1>1. PICK it \in [SUBSET (1..N) -> V] : Folds(it, N, base, step)
  BY FoldExists DEF HasFold
<1> QED BY <1>1, TurnsOfFold

-----------------------------------------------------------------------------
(* Sums and concatenations.                                                 *)

Summed(numbers) == FoldLeft(LAMBDA sum, n : sum + n, 0, numbers)

\* The sum of a sequence, number by number.
LEMMA SummedInTurn ==
  ASSUME NEW ns \in Seq(Nat)
  PROVE  \E g \in [0..Len(ns) -> Nat] :
            /\ g[0] = 0 /\ \A i \in 1..Len(ns) : g[i] = g[i - 1] + ns[i]
            /\ Summed(ns) = g[Len(ns)]
<1> DEFINE N == Len(ns)
           D == DOMAIN ns
           step == [p \in (1..N) \X Nat |-> p[2] + ns[p[1]]]
           fold[s \in SUBSET D] == IF s = {} THEN 0 ELSE fold[s \ {Max(s)}] + ns[Max(s)]
<1>1. N \in Nat /\ D = 1..N
  OBVIOUS
<1>2. step \in [(1..N) \X Nat -> Nat]
  OBVIOUS
<1>3. PICK it \in [SUBSET (1..N) -> Nat] : Folds(it, N, 0, step)
  <2> HIDE DEF step, N
  <2>1. HasFold(N, Nat, 0, step)
    BY <1>1, <1>2, FoldExists
  <2> QED BY <2>1 DEF HasFold
<1>4. \A s \in SUBSET D : it[s] = IF s = {} THEN 0 ELSE it[s \ {Max(s)}] + ns[Max(s)]
  <2>1. ASSUME NEW s \in SUBSET D, s # {}
        PROVE  step[<<Max(s), it[s \ {Max(s)}]>>] = it[s \ {Max(s)}] + ns[Max(s)]
    <3>1. Max(s) \in 1..N
      BY <1>1, <2>1, GreatestIn
    <3>2. it[s \ {Max(s)}] \in Nat
      BY <1>1, <1>3
    <3> QED BY <3>1, <3>2
  <2>2. \A s \in SUBSET D : it[s] = IF s = {} THEN 0 ELSE step[<<Max(s), it[s \ {Max(s)}]>>]
    BY <1>1, <1>3 DEF Folds
  <2> HIDE DEF step, D
  <2> QED BY <2>1, <2>2
<1>5. it = [s \in SUBSET D |-> IF s = {} THEN 0 ELSE it[s \ {Max(s)}] + ns[Max(s)]]
  <2> HIDE DEF D, N
  <2> QED BY <1>1, <1>3, <1>4
<1>6. Summed(ns) = fold[D]
  BY DEF Summed, FoldLeft, MapThenFoldSet
<1>7. fold = [s \in SUBSET D |-> IF s = {} THEN 0 ELSE fold[s \ {Max(s)}] + ns[Max(s)]]
  <2> HIDE DEF D
  <2> QED BY <1>5
<1> HIDE DEF fold
<1> DEFINE g == [i \in 0..N |-> fold[1..i]]
<1>8. g[0] = 0
  BY <1>1, <1>7
<1>9. ASSUME NEW i \in 1..N PROVE g[i] = g[i - 1] + ns[i]
  <2>1. 1..i \in SUBSET (1..N) /\ 1..i # {} /\ i \in 1..i /\ (1..i) \ {i} = 1..(i - 1)
    BY <1>1, UpTo
  <2>2. Max(1..i) = i
    BY <2>1, Greatest
  <2>3. fold[1..i] = fold[(1..i) \ {Max(1..i)}] + ns[Max(1..i)]
    BY <1>1, <1>7, <2>1
  <2>4. i \in 0..N /\ i - 1 \in 0..N
    BY <1>1
  <2> HIDE DEF N
  <2> QED BY <2>1, <2>2, <2>3, <2>4
<1> DEFINE S == {i \in 0..N : g[i] \in Nat}
<1>10. \A i \in 0..N : i \in S
  <2>1. 0 \in S
    BY <1>1, <1>8
  <2>2. ASSUME NEW i \in 1..N, i - 1 \in S PROVE i \in S
    <3>1. g[i - 1] \in Nat /\ ns[i] \in Nat /\ i \in 0..N
      BY <2>2
    <3> HIDE DEF g
    <3> QED BY <1>9, <3>1
  <2> HIDE DEF S
  <2> QED BY <1>1, <2>1, <2>2, CountingUp
<1>11. g \in [0..N -> Nat]
  BY <1>10
<1>12. Summed(ns) = g[N]
  BY <1>1, <1>6
<1> HIDE DEF g
<1> QED BY <1>8, <1>9, <1>11, <1>12

LEMMA SummedNumbers ==
  ASSUME NEW ns \in Seq(Nat)
  PROVE  Summed(ns) \in Nat
<1>1. Len(ns) \in 0..Len(ns)
  OBVIOUS
<1> QED BY <1>1, SummedInTurn

LEMMA SummedNothing == Summed(<<>>) = 0
<1>1. <<>> \in Seq(Nat) /\ Len(<<>>) = 0
  OBVIOUS
<1> QED BY <1>1, SummedInTurn

LEMMA SummedAppend ==
  ASSUME NEW ns \in Seq(Nat), NEW n \in Nat
  PROVE  Summed(Append(ns, n)) = Summed(ns) + n
<1> DEFINE N == Len(ns)
           more == Append(ns, n)
<1>1. N \in Nat /\ more \in Seq(Nat) /\ Len(more) = N + 1 /\ more[N + 1] = n /\ \A i \in 1..N : more[i] = ns[i]
  OBVIOUS
<1>2. PICK g \in [0..N -> Nat] : g[0] = 0 /\ (\A i \in 1..N : g[i] = g[i - 1] + ns[i]) /\ Summed(ns) = g[N]
  BY SummedInTurn
<1> HIDE DEF more, N
<1>3. PICK h \in [0..(N + 1) -> Nat] : h[0] = 0 /\ (\A i \in 1..(N + 1) : h[i] = h[i - 1] + more[i]) /\ Summed(more) = h[N + 1]
  BY <1>1, SummedInTurn
<1> DEFINE S == {i \in 0..N : g[i] = h[i]}
<1>4. \A i \in 0..N : i \in S
  <2>1. 0 \in S
    BY <1>1, <1>2, <1>3
  <2>2. ASSUME NEW i \in 1..N, i - 1 \in S PROVE i \in S
    <3>1. i \in 1..(N + 1) /\ i \in 0..N
      BY <1>1
    <3> QED BY <1>1, <1>2, <1>3, <2>2, <3>1
  <2> HIDE DEF S
  <2> QED BY <1>1, <2>1, <2>2, CountingUp
<1>5. g[N] = h[N] /\ N + 1 \in 1..(N + 1) /\ (N + 1) - 1 = N
  BY <1>1, <1>4
<1>6. h[N + 1] = h[N] + more[N + 1]
  BY <1>3, <1>5
<1> QED BY <1>1, <1>2, <1>3, <1>5, <1>6 DEF more

\* Sequences put together, one by one.
LEMMA FlattenedInTurn ==
  ASSUME NEW T, NEW ss \in Seq(Seq(T))
  PROVE  \E g \in [0..Len(ss) -> Seq(T)] :
            /\ g[0] = <<>> /\ \A i \in 1..Len(ss) : g[i] = g[i - 1] \o ss[i]
            /\ FlattenSeq(ss) = g[Len(ss)]
<1> DEFINE N == Len(ss)
           step == [p \in (1..N) \X Seq(T) |-> p[2] \o ss[p[1]]]
           flat[i \in 1..N] == IF i = 1 THEN ss[i] ELSE flat[i - 1] \o ss[i]
<1>1. N \in Nat /\ \A i \in 1..N : ss[i] \in Seq(T)
  OBVIOUS
<1>2. step \in [(1..N) \X Seq(T) -> Seq(T)]
  OBVIOUS
<1>3. <<>> \in Seq(T)
  OBVIOUS
<1>5. PICK g \in [0..N -> Seq(T)] : Turns(g, N, <<>>, step)
  <2> HIDE DEF step, N
  <2> QED BY <1>1, <1>2, <1>3, TurnsExist
<1>6. ASSUME NEW i \in 1..N PROVE i - 1 \in 0..N /\ g[i] = g[i - 1] \o ss[i]
  <2>1. i - 1 \in 0..N
    BY <1>1
  <2>2. g[i] = step[<<i, g[i - 1]>>] /\ g[i - 1] \in Seq(T)
    BY <1>5, <2>1 DEF Turns
  <2> QED BY <2>1, <2>2
<1>7. g[0] = <<>>
  BY <1>5 DEF Turns
<1> DEFINE up == [i \in 1..N |-> g[i]]
<1>8. up = [i \in 1..N |-> IF i = 1 THEN ss[i] ELSE up[i - 1] \o ss[i]]
  <2>1. ASSUME NEW i \in 1..N PROVE g[i] = IF i = 1 THEN ss[i] ELSE up[i - 1] \o ss[i]
    <3>1. CASE i = 1
      <4>0. i - 1 = 0 /\ ss[i] \in Seq(T)
        BY <1>1, <3>1
      <4>1. g[i] = g[i - 1] \o ss[i] /\ i - 1 = 0 /\ ss[i] \in Seq(T)
        BY <1>6, <4>0, Zenon
      <4>2. g[i] = <<>> \o ss[i]
        BY <1>7, <4>1
      <4> QED BY <3>1, <4>1, <4>2
    <3>2. CASE i # 1
      <4>1. i - 1 \in 1..N
        BY <1>1, <3>2
      <4> QED BY <1>6, <3>2, <4>1
    <3> QED BY <3>1, <3>2
  <2> HIDE DEF N
  <2> QED BY <2>1
<1>9. flat = [i \in 1..N |-> IF i = 1 THEN ss[i] ELSE flat[i - 1] \o ss[i]]
  <2> HIDE DEF up, N
  <2> QED BY <1>8
<1>10. FlattenSeq(ss) = IF N = 0 THEN ss ELSE flat[N]
  BY DEF FlattenSeq
<1> HIDE DEF flat
<1> DEFINE S == {i \in 0..N : i = 0 \/ flat[i] = g[i]}
<1>11. \A i \in 0..N : i \in S
  <2>1. 0 \in S
    BY <1>1
  <2>2. ASSUME NEW i \in 1..N, i - 1 \in S PROVE i \in S
    <3>1. flat[i] = IF i = 1 THEN ss[i] ELSE flat[i - 1] \o ss[i]
      <4> HIDE DEF N
      <4> QED BY <1>9
    <3>2. CASE i = 1
      <4>0. i - 1 = 0 /\ ss[i] \in Seq(T)
        BY <1>1, <3>2
      <4>1. g[i] = g[i - 1] \o ss[i] /\ i - 1 = 0 /\ ss[i] \in Seq(T)
        BY <1>6, <4>0, Zenon
      <4>2. g[i] = <<>> \o ss[i]
        BY <1>7, <4>1
      <4>3. g[i] = ss[i]
        BY <4>1, <4>2
      <4> QED BY <2>2, <3>1, <3>2, <4>3
    <3>3. CASE i # 1
      <4>1. i - 1 # 0 /\ flat[i - 1] = g[i - 1] /\ i \in 0..N
        BY <1>1, <2>2, <3>3
      <4>2. flat[i] = flat[i - 1] \o ss[i] /\ g[i] = g[i - 1] \o ss[i]
        BY <1>6, <2>2, <3>1, <3>3
      <4> QED BY <4>1, <4>2
    <3> QED BY <3>2, <3>3
  <2> HIDE DEF S, N
  <2> QED BY <1>1, <2>1, <2>2, CountingUp
<1>12. FlattenSeq(ss) = g[N]
  <2>1. CASE N = 0
    BY <1>7, <1>10, <2>1
  <2>2. CASE N # 0
    <3>1. N \in 0..N
      BY <1>1
    <3> QED BY <1>10, <1>11, <2>2, <3>1
  <2> QED BY <2>1, <2>2
<1> QED BY <1>5, <1>6, <1>7, <1>12

LEMMA FlattenedTyped ==
  ASSUME NEW T, NEW ss \in Seq(Seq(T))
  PROVE  FlattenSeq(ss) \in Seq(T)
<1>1. Len(ss) \in 0..Len(ss)
  OBVIOUS
<1>2. PICK g \in [0..Len(ss) -> Seq(T)] : FlattenSeq(ss) = g[Len(ss)]
  BY FlattenedInTurn
<1> QED BY <1>1, <1>2

LEMMA FlattenedNothing == FlattenSeq(<<>>) = <<>>
  BY DEF FlattenSeq

LEMMA FlattenedAppend ==
  ASSUME NEW T, NEW ss \in Seq(Seq(T)), NEW s \in Seq(T)
  PROVE  FlattenSeq(Append(ss, s)) = FlattenSeq(ss) \o s
<1> DEFINE N == Len(ss)
           more == Append(ss, s)
<1>1. N \in Nat /\ more \in Seq(Seq(T)) /\ Len(more) = N + 1 /\ more[N + 1] = s /\ \A i \in 1..N : more[i] = ss[i]
  OBVIOUS
<1>2. PICK g \in [0..N -> Seq(T)] : g[0] = <<>> /\ (\A i \in 1..N : g[i] = g[i - 1] \o ss[i]) /\ FlattenSeq(ss) = g[N]
  BY FlattenedInTurn
<1> HIDE DEF more, N
<1>3. PICK h \in [0..(N + 1) -> Seq(T)] : h[0] = <<>> /\ (\A i \in 1..(N + 1) : h[i] = h[i - 1] \o more[i]) /\ FlattenSeq(more) = h[N + 1]
  <2>1. \E h \in [0..Len(more) -> Seq(T)] :
            /\ h[0] = <<>> /\ \A i \in 1..Len(more) : h[i] = h[i - 1] \o more[i]
            /\ FlattenSeq(more) = h[Len(more)]
    BY <1>1, FlattenedInTurn, Zenon
  <2> QED BY <1>1, <2>1
<1> DEFINE S == {i \in 0..N : g[i] = h[i]}
<1>4. \A i \in 0..N : i \in S
  <2>1. 0 \in S
    BY <1>1, <1>2, <1>3
  <2>2. ASSUME NEW i \in 1..N, i - 1 \in S PROVE i \in S
    <3>1. i \in 1..(N + 1) /\ i \in 0..N
      BY <1>1
    <3>2. g[i] = g[i - 1] \o ss[i] /\ h[i] = h[i - 1] \o more[i] /\ g[i - 1] = h[i - 1] /\ more[i] = ss[i]
      BY <1>1, <1>2, <1>3, <2>2, <3>1
    <3> QED BY <3>1, <3>2
  <2> HIDE DEF S
  <2> QED BY <1>1, <2>1, <2>2, CountingUp
<1>5. g[N] = h[N] /\ N + 1 \in 1..(N + 1) /\ (N + 1) - 1 = N
  <2>0. N \in Nat
    BY <1>1
  <2>1. N \in 0..N /\ N + 1 \in 1..(N + 1) /\ (N + 1) - 1 = N
    BY <2>0
  <2>2. N \in S
    BY <1>4, <2>1
  <2> QED BY <2>1, <2>2
<1>6. h[N + 1] = h[N] \o more[N + 1]
  BY <1>3, <1>5
<1> QED BY <1>1, <1>2, <1>3, <1>5, <1>6 DEF more

LEMMA PrefixGrowsBy ==
  ASSUME NEW T, NEW s \in Seq(T), NEW i \in 1..Len(s)
  PROVE  /\ SubSeq(s, 1, i) \in Seq(T) /\ SubSeq(s, 1, i - 1) \in Seq(T)
         /\ SubSeq(s, 1, i) = Append(SubSeq(s, 1, i - 1), s[i])
         /\ s[i] \in T
<1>1. SubSeq(s, 1, i - 1) \in Seq(T) /\ Len(SubSeq(s, 1, i - 1)) = i - 1
  OBVIOUS
<1>2. SubSeq(s, 1, i) \in Seq(T) /\ Len(SubSeq(s, 1, i)) = i
  OBVIOUS
<1>3. s[i] \in T
  OBVIOUS
<1>4. \A k \in 1..i : SubSeq(s, 1, i)[k] = s[k]
  OBVIOUS
<1>5. \A k \in 1..(i - 1) : SubSeq(s, 1, i - 1)[k] = s[k]
  OBVIOUS
<1> DEFINE less == SubSeq(s, 1, i - 1)
           more == SubSeq(s, 1, i)
<1>6. Len(Append(less, s[i])) = i /\ Append(less, s[i]) \in Seq(T)
  BY <1>1, <1>3
<1>7. ASSUME NEW k \in 1..i PROVE Append(less, s[i])[k] = s[k]
  BY <1>1, <1>3, <1>5
<1> HIDE DEF less, more
<1>8. more = Append(less, s[i])
  BY <1>2, <1>4, <1>6, <1>7 DEF more
<1> QED BY <1>1, <1>2, <1>3, <1>8 DEF less, more

LEMMA AppendOfConcat ==
  ASSUME NEW T, NEW s \in Seq(T), NEW t \in Seq(T), NEW x \in T
  PROVE  s \o Append(t, x) = Append(s \o t, x)
<1>1. /\ s \o Append(t, x) \in Seq(T) /\ Append(s \o t, x) \in Seq(T)
      /\ Len(s \o Append(t, x)) = Len(s) + Len(t) + 1 /\ Len(Append(s \o t, x)) = Len(s) + Len(t) + 1
  OBVIOUS
<1>2. \A i \in 1..(Len(s) + Len(t) + 1) : (s \o Append(t, x))[i] = Append(s \o t, x)[i]
  OBVIOUS
<1> QED BY <1>1, <1>2, SeqEqual

LEMMA FlattenedBothAppend ==
  ASSUME NEW T, NEW a \in Seq(Seq(T)), NEW b \in Seq(Seq(T)), NEW s \in Seq(T),
         FlattenSeq(a \o b) = FlattenSeq(a) \o FlattenSeq(b)
  PROVE  FlattenSeq(a \o Append(b, s)) = FlattenSeq(a) \o FlattenSeq(Append(b, s))
<1>1. PICK E : E = Seq(T)
  OBVIOUS
<1>2. a \o b \in Seq(E) /\ a \o Append(b, s) = Append(a \o b, s)
  <2>1. a \in Seq(E) /\ b \in Seq(E) /\ s \in E
    BY <1>1
  <2> QED BY <2>1, AppendOfConcat
<1>3. FlattenSeq(Append(a \o b, s)) = FlattenSeq(a \o b) \o s /\ FlattenSeq(Append(b, s)) = FlattenSeq(b) \o s
  BY <1>1, <1>2, FlattenedAppend
<1>4. PICK x \in Seq(T), y \in Seq(T) : x = FlattenSeq(a) /\ y = FlattenSeq(b)
  BY FlattenedTyped
<1>5. (x \o y) \o s = x \o (y \o s)
  BY <1>4, ConcatAssociative
<1> QED BY <1>2, <1>3, <1>4, <1>5

LEMMA FlattenedBoth ==
  ASSUME NEW T, NEW a \in Seq(Seq(T)), NEW b \in Seq(Seq(T))
  PROVE  FlattenSeq(a \o b) = FlattenSeq(a) \o FlattenSeq(b)
<1> DEFINE part(i) == SubSeq(b, 1, i)
           S == {i \in 0..Len(b) : FlattenSeq(a \o part(i)) = FlattenSeq(a) \o FlattenSeq(part(i))}
<1>1. Len(b) \in Nat /\ part(0) = <<>> /\ part(Len(b)) = b /\ FlattenSeq(a) \in Seq(T)
  BY FlattenedTyped
<1>2. 0 \in S
  <2>1. PICK x \in Seq(T) : x = FlattenSeq(a)
    BY <1>1
  <2>2. x \o <<>> = x /\ a \o <<>> = a
    OBVIOUS
  <2>3. FlattenSeq(a \o <<>>) = FlattenSeq(a) \o FlattenSeq(<<>>)
    BY <2>1, <2>2, FlattenedNothing
  <2>4. part(0) = <<>> /\ 0 \in 0..Len(b)
    BY <1>1
  <2> HIDE DEF part
  <2>5. FlattenSeq(a \o part(0)) = FlattenSeq(a) \o FlattenSeq(part(0))
    BY <2>3, <2>4
  <2> QED BY <2>4, <2>5
<1>3. ASSUME NEW i \in 1..Len(b), i - 1 \in S PROVE i \in S
  <2>1. part(i - 1) \in Seq(Seq(T)) /\ part(i) = Append(part(i - 1), b[i]) /\ b[i] \in Seq(T)
    BY PrefixGrowsBy, Zenon
  <2>2. FlattenSeq(a \o part(i - 1)) = FlattenSeq(a) \o FlattenSeq(part(i - 1))
    BY <1>3
  <2> HIDE DEF part
  <2>3. FlattenSeq(a \o part(i)) = FlattenSeq(a) \o FlattenSeq(part(i))
    BY <2>1, <2>2, FlattenedBothAppend
  <2> QED BY <2>3
<1>4. Len(b) \in 0..Len(b)
  BY <1>1
<1> HIDE DEF S
<1>5. Len(b) \in S
  BY <1>1, <1>2, <1>3, <1>4, CountingUp
<1> QED BY <1>1, <1>5 DEF S

\* The sum over a sequence of what each element counts for.
Measured(f, s) == [i \in DOMAIN s |-> f[s[i]]]

LEMMA SummedMeasured ==
  ASSUME NEW T, NEW f \in [T -> Nat], NEW s \in Seq(T), NEW x \in T
  PROVE  /\ Summed(Measured(f, s)) \in Nat
         /\ Summed(Measured(f, Append(s, x))) = Summed(Measured(f, s)) + f[x]
<1> DEFINE ns == Measured(f, s)
           more == Measured(f, Append(s, x))
<1>1. ns \in Seq(Nat) /\ Len(ns) = Len(s) /\ f[x] \in Nat
  BY DEF Measured
<1>2. more \in Seq(Nat) /\ Len(more) = Len(s) + 1
  BY DEF Measured
<1>3. Append(ns, f[x]) \in Seq(Nat) /\ Len(Append(ns, f[x])) = Len(s) + 1
  BY <1>1
<1>4. ASSUME NEW i \in 1..(Len(s) + 1) PROVE more[i] = Append(ns, f[x])[i]
  <2>1. CASE i = Len(s) + 1
    BY <1>1, <2>1 DEF Measured
  <2>2. CASE i \in 1..Len(s)
    BY <1>1, <2>2 DEF Measured
  <2>3. i = Len(s) + 1 \/ i \in 1..Len(s)
    OBVIOUS
  <2> QED BY <2>1, <2>2, <2>3
<1> HIDE DEF ns, more
<1>5. more = Append(ns, f[x])
  BY <1>2, <1>3, <1>4, SeqEqual
<1>6. Summed(ns) \in Nat /\ Summed(more) = Summed(ns) + f[x]
  BY <1>1, <1>5, SummedNumbers, SummedAppend
<1> QED BY <1>6 DEF ns, more

\* Sequences put together are as long as all of them.
Lengths(ss) == [i \in DOMAIN ss |-> Len(ss[i])]

LEMMA LengthsAppend ==
  ASSUME NEW T, NEW ss \in Seq(Seq(T)), NEW s \in Seq(T)
  PROVE  Summed(Lengths(ss)) \in Nat /\ Summed(Lengths(Append(ss, s))) = Summed(Lengths(ss)) + Len(s)
<1> DEFINE f == [x \in Seq(T) |-> Len(x)]
<1>1. f \in [Seq(T) -> Nat]
  OBVIOUS
<1>2. ASSUME NEW tt \in Seq(Seq(T)) PROVE Lengths(tt) = Measured(f, tt)
  <2>1. \A i \in DOMAIN tt : tt[i] \in Seq(T)
    OBVIOUS
  <2> QED BY <2>1 DEF Measured, Lengths
<1>3. f[s] = Len(s) /\ Append(ss, s) \in Seq(Seq(T))
  OBVIOUS
<1> HIDE DEF f
<1>4. Summed(Measured(f, ss)) \in Nat /\ Summed(Measured(f, Append(ss, s))) = Summed(Measured(f, ss)) + f[s]
  BY <1>1, SummedMeasured, Zenon
<1> QED BY <1>2, <1>3, <1>4

LEMMA FlattenedLength ==
  ASSUME NEW T, NEW ss \in Seq(Seq(T))
  PROVE  Len(FlattenSeq(ss)) = Summed(Lengths(ss))
<1> DEFINE part(i) == SubSeq(ss, 1, i)
           S == {i \in 0..Len(ss) : Summed(Lengths(part(i))) = Len(FlattenSeq(part(i)))}
<1>1. Len(ss) \in Nat /\ part(0) = <<>> /\ part(Len(ss)) = ss
  OBVIOUS
<1>2. 0 \in S
  <2>1. [i \in DOMAIN <<>> |-> Len(<<>>[i])] = <<>> /\ Len(<<>>) = 0
    OBVIOUS
  <2>2. Summed(Lengths(<<>>)) = Len(FlattenSeq(<<>>))
    BY <2>1, SummedNothing, FlattenedNothing DEF Lengths
  <2> HIDE DEF part
  <2> QED BY <1>1, <2>2
<1>3. ASSUME NEW i \in 1..Len(ss), i - 1 \in S PROVE i \in S
  <2>1. part(i - 1) \in Seq(Seq(T)) /\ part(i) = Append(part(i - 1), ss[i]) /\ ss[i] \in Seq(T)
    BY PrefixGrowsBy, Zenon
  <2>2. Summed(Lengths(part(i - 1))) = Len(FlattenSeq(part(i - 1)))
    BY <1>3
  <2> HIDE DEF part
  <2>3. Summed(Lengths(part(i))) = Summed(Lengths(part(i - 1))) + Len(ss[i])
    BY <2>1, LengthsAppend
  <2>4. PICK x \in Seq(T), y \in Seq(T) : x = FlattenSeq(part(i - 1)) /\ y = ss[i]
    BY <2>1, FlattenedTyped
  <2>5. FlattenSeq(part(i)) = x \o y
    BY <2>1, <2>4, FlattenedAppend
  <2>6. Len(x \o y) = Len(x) + Len(y)
    BY <2>4
  <2>7. Summed(Lengths(part(i))) = Len(FlattenSeq(part(i))) /\ i \in 0..Len(ss)
    <3>1. Summed(Lengths(part(i))) = Len(x) + Len(y)
      BY <2>2, <2>3, <2>4
    <3>2. Len(FlattenSeq(part(i))) = Len(x) + Len(y)
      BY <2>5, <2>6
    <3> QED BY <3>1, <3>2
  <2> QED BY <2>7
<1>4. Len(ss) \in 0..Len(ss)
  BY <1>1
<1> HIDE DEF S
<1>5. Len(ss) \in S
  BY <1>1, <1>2, <1>3, <1>4, CountingUp
<1> QED BY <1>1, <1>5 DEF S

\* A sequence around one of its elements.
LEMMA SplitAround ==
  ASSUME NEW T, NEW s \in Seq(T), NEW k \in 1..Len(s)
  PROVE  s = Append(SubSeq(s, 1, k - 1), s[k]) \o SubSeq(s, k + 1, Len(s))
<1> DEFINE before == SubSeq(s, 1, k - 1)
           after == SubSeq(s, k + 1, Len(s))
           upto == Append(before, s[k])
           whole == upto \o after
<1>1. before \in Seq(T) /\ Len(before) = k - 1 /\ after \in Seq(T) /\ Len(after) = Len(s) - k /\ s[k] \in T
  OBVIOUS
<1>2. \A i \in 1..(k - 1) : before[i] = s[i]
  OBVIOUS
<1>3. \A i \in 1..(Len(s) - k) : after[i] = s[k + i]
  OBVIOUS
<1> HIDE DEF before, after
<1>4. upto \in Seq(T) /\ Len(upto) = k /\ upto[k] = s[k] /\ \A i \in 1..(k - 1) : upto[i] = before[i]
  BY <1>1
<1> HIDE DEF upto
<1>5. whole \in Seq(T) /\ Len(whole) = Len(s)
  <2>1. whole \in Seq(T) /\ Len(whole) = Len(upto) + Len(after)
    BY <1>1, <1>4, ConcatProperties
  <2>2. Len(s) \in Nat /\ k \in Int
    OBVIOUS
  <2> HIDE DEF whole
  <2> QED BY <1>1, <1>4, <2>1, <2>2
<1>6. ASSUME NEW i \in 1..Len(s) PROVE whole[i] = s[i]
  <2>1. CASE i <= k
    <3>1. whole[i] = upto[i]
      BY <1>1, <1>4, <2>1
    <3>2. i = k \/ i \in 1..(k - 1)
      BY <2>1
    <3> QED BY <1>2, <1>4, <3>1, <3>2
  <2>2. CASE i > k
    <3>1. i - k \in 1..(Len(s) - k) /\ k + (i - k) = i
      BY <2>2
    <3>2. whole[i] = after[i - k]
      BY <1>1, <1>4, <2>2
    <3>3. after[i - k] = s[k + (i - k)]
      BY <1>3, <3>1
    <3> QED BY <3>1, <3>2, <3>3
  <2>3. i <= k \/ i > k
    OBVIOUS
  <2> QED BY <2>1, <2>2, <2>3
<1> HIDE DEF whole
<1>7. whole = s
  BY <1>5, <1>6, SeqEqual
<1> QED BY <1>7 DEF whole, upto, before, after

\* ... and each of them is found where the ones before it end.
LEMMA FlattenedPart ==
  ASSUME NEW T, NEW ss \in Seq(Seq(T)), NEW k \in 1..Len(ss)
  PROVE  LET start == Summed(Lengths(SubSeq(ss, 1, k - 1)))
         IN  SubSeq(FlattenSeq(ss), start + 1, start + Len(ss[k])) = ss[k]
<1> DEFINE before == SubSeq(ss, 1, k - 1)
           after == SubSeq(ss, k + 1, Len(ss))
<1>1. PICK E : E = Seq(T)
  OBVIOUS
<1>2. before \in Seq(E) /\ after \in Seq(E) /\ ss[k] \in E /\ ss \in Seq(E)
  BY <1>1
<1>3. ss = Append(before, ss[k]) \o after
  BY <1>1, SplitAround, Zenon
<1> HIDE DEF before, after
<1>4. PICK x \in Seq(T), y \in Seq(T), z \in Seq(T) : x = FlattenSeq(before) /\ y = ss[k] /\ z = FlattenSeq(after)
  BY <1>1, <1>2, FlattenedTyped
<1>5. FlattenSeq(Append(before, ss[k])) = x \o y
  BY <1>1, <1>2, <1>4, FlattenedAppend
<1>6. FlattenSeq(ss) = (x \o y) \o z
  <2>1. Append(before, ss[k]) \in Seq(E)
    BY <1>2
  <2>2. FlattenSeq(Append(before, ss[k]) \o after) = FlattenSeq(Append(before, ss[k])) \o FlattenSeq(after)
    BY <1>1, <1>2, <2>1, FlattenedBoth
  <2> QED BY <1>3, <1>4, <1>5, <2>2
<1>7. Len(x) = Summed(Lengths(before))
  BY <1>1, <1>2, <1>4, FlattenedLength
<1>8. SubSeq((x \o y) \o z, Len(x) + 1, Len(x) + Len(y)) = y
  <2> DEFINE all == (x \o y) \o z
             part == SubSeq(all, Len(x) + 1, Len(x) + Len(y))
  <2>1. all \in Seq(T) /\ Len(all) = Len(x) + Len(y) + Len(z)
    BY <1>4
  <2>2. ASSUME NEW i \in 1..Len(y) PROVE all[Len(x) + i] = y[i]
    <3>1. x \o y \in Seq(T) /\ Len(x \o y) = Len(x) + Len(y) /\ Len(x) + i \in 1..(Len(x) + Len(y))
      BY <1>4
    <3>2. (x \o y)[Len(x) + i] = y[i]
      BY <1>4
    <3>3. all[Len(x) + i] = (x \o y)[Len(x) + i]
      BY <1>4, <3>1
    <3> QED BY <3>2, <3>3
  <2> HIDE DEF all
  <2>3. part \in Seq(T) /\ Len(part) = Len(y)
    BY <1>4, <2>1
  <2>4. \A i \in 1..Len(y) : part[i] = all[Len(x) + i]
    BY <1>4, <2>1
  <2> HIDE DEF part
  <2>5. part = y
    BY <1>4, <2>2, <2>3, <2>4, SeqEqual
  <2> QED BY <2>5 DEF all, part
<1> QED BY <1>4, <1>6, <1>7, <1>8 DEF before
=============================================================================
