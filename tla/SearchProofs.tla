---------------------------- MODULE SearchProofs ----------------------------
(***************************************************************************)
(* Proofs about Search, for any tokens and limits, any requests and corpus:  *)
(* rates are kept in every window, and the answers are what the strategy    *)
(* promises for the indexes that did not fail.                              *)
(***************************************************************************)
EXTENDS Search, FoldLemmas, FiniteSetTheorems, TLAPS

-----------------------------------------------------------------------------
(* Rates.                                                                   *)

\* admissions of a token since a time, and what its limiter keeps of them
Since(t, from) == {a \in admitted : a.token = t /\ a.at >= from}
KeptSince(times, from) == {k \in 1..Len(times) : times[k] >= from}

RateTyped ==
    /\ ticks \in 0..MaxClock
    /\ DOMAIN token = DOMAIN Tokens
    /\ \A t \in DOMAIN Tokens : token[t].times \in Seq(Nat)
    /\ IsFiniteSet(admitted) /\ \A a \in admitted : a.at \in Nat

\* the limiter forgets nothing that is in the window of now
LimiterKnows ==
    \A t \in DOMAIN Tokens, from \in Int : EffectiveLimit(t) > 0 /\ from + Window >= ticks =>
        Cardinality(Since(t, from)) <= Cardinality(KeptSince(token[t].times, from))

RateIInv == RateTyped /\ LimiterKnows /\ RateKept

\* The parts of the assumption that are about numbers.
LEMMA SearchConstants ==
  /\ Window \in Nat /\ MaxClock \in Nat /\ RrfK \in Nat /\ RrfScale \in Nat /\ One \in Nat /\ One # 0
  /\ \A t \in DOMAIN Tokens : EffectiveLimit(t) \in Int
<1>1. /\ Window \in Nat /\ MaxClock \in Nat /\ RrfK \in Nat /\ RrfScale \in Nat /\ One \in Nat /\ One # 0
  BY SearchAssumption
<1>2. GlobalLimit \in Int /\ \A t \in DOMAIN Tokens : Tokens[t].limit \in Int
  BY SearchAssumption
<1> QED BY <1>1, <1>2 DEF EffectiveLimit

\* Only what is out of the window is dropped.
LEMMA DroppedAreOld ==
  ASSUME RateTyped, NEW t \in DOMAIN Tokens
  PROVE  LET times == token[t].times
         IN  /\ Expired(t) \in 0..Len(times)
             /\ \A k \in 1..Expired(t) : times[k] + Window < ticks
<1> DEFINE times == token[t].times
           Stops == {k \in 0 .. Len(times) : k = Len(times) \/ ticks - times[k + 1] <= Window}
<1>1. times \in Seq(Nat) /\ ticks \in Nat /\ Window \in Nat
  BY SearchConstants DEF RateTyped
<1> HIDE DEF times
<1>2. Stops \in SUBSET Nat /\ Len(times) \in Stops
  BY <1>1
<1>3. Min(Stops) \in Stops /\ \A k \in Stops : Min(Stops) <= k
  <2> HIDE DEF Stops
  <2> QED BY <1>2, LeastIn
<1>4. Expired(t) = Min(Stops)
  BY DEF Expired, times
<1>5. Expired(t) \in 0..Len(times)
  BY <1>3, <1>4
<1>6. ASSUME NEW k \in 1..Expired(t) PROVE times[k] + Window < ticks
  <2>1. k - 1 \in 0..Len(times) /\ k \in 1..Len(times) /\ ~(Expired(t) <= k - 1)
    BY <1>1, <1>5
  <2>2. k - 1 \notin Stops
    <3> HIDE DEF Stops
    <3> QED BY <1>3, <1>4, <2>1
  <2>3. ~(ticks - times[(k - 1) + 1] <= Window) /\ (k - 1) + 1 = k
    BY <2>1, <2>2
  <2>4. times[k] \in Nat
    BY <1>1, <2>1
  <2>5. PICK x \in Nat : x = times[k]
    BY <2>4
  <2>6. ~(ticks - x <= Window)
    BY <2>3, <2>5
  <2>7. x + Window < ticks
    BY <1>1, <2>6
  <2> QED BY <2>5, <2>7
<1> QED BY <1>5, <1>6 DEF times

\* What is kept of a sequence of times, after some were dropped and one added.
AllBefore(times, d, from) == \A k \in 1..d : times[k] < from
CountedSince(times, kept, now, from) ==
    /\ kept \in Seq(Nat)
    /\ Cardinality(KeptSince(times, from)) \in Nat
    /\ Cardinality(KeptSince(times, from)) <= Len(kept)
    /\ Cardinality(KeptSince(Append(kept, now), from))
         = Cardinality(KeptSince(times, from)) + (IF now >= from THEN 1 ELSE 0)

\* Dropping what is too old and adding a time loses none that counts.
LEMMA KeptMore ==
  ASSUME NEW times \in Seq(Nat), NEW d \in 0..Len(times), NEW now \in Nat, NEW from \in Int, AllBefore(times, d, from)
  PROVE  CountedSince(times, SubSeq(times, d + 1, Len(times)), now, from)
<1> DEFINE kept == SubSeq(times, d + 1, Len(times))
           more == Append(kept, now)
           old == KeptSince(times, from)
           shifted == KeptSince(kept, from)
           n == Len(times) - d
<1>1. kept \in Seq(Nat) /\ Len(kept) = n /\ n \in Nat /\ \A k \in 1..n : kept[k] = times[k + d]
  <2>1. n \in Nat /\ d + 1 \in 1..(Len(times) + 1) /\ Len(times) \in Nat
    OBVIOUS
  <2>2. kept \in Seq(Nat) /\ Len(kept) = n
    BY <2>1
  <2>3. ASSUME NEW k \in 1..n PROVE kept[k] = times[k + d]
    <3>1. kept[k] = times[(d + 1) + k - 1] /\ (d + 1) + k - 1 = k + d
      BY <2>1
    <3> QED BY <3>1
  <2> QED BY <2>1, <2>2, <2>3
<1>2. \A k \in 1..Len(times) : times[k] \in Nat
  OBVIOUS
<1> HIDE DEF kept
<1>3. Cardinality(old) = Cardinality(shifted) /\ IsFiniteSet(old) /\ IsFiniteSet(shifted)
  <2>1. old \subseteq 1..Len(times) /\ shifted \subseteq 1..n
    BY <1>1 DEF KeptSince
  <2>2. IsFiniteSet(old) /\ IsFiniteSet(shifted)
    <3>1. IsFiniteSet(1..Len(times)) /\ IsFiniteSet(1..n)
      BY <1>1, FS_Interval
    <3> QED BY <2>1, <3>1, FS_Subset
  <2> DEFINE f == [k \in old |-> k - d]
  <2>3. ASSUME NEW k \in old PROVE k - d \in shifted
    <3>1. k \in 1..Len(times) /\ times[k] >= from /\ times[k] \in Nat
      BY <1>2 DEF KeptSince
    <3>2. ~(k <= d)
      <4>1. SUFFICES ASSUME k <= d PROVE FALSE
        OBVIOUS
      <4>2. times[k] < from
        BY <3>1, <4>1 DEF AllBefore
      <4>3. PICK x \in Nat : x = times[k]
        BY <3>1
      <4> QED BY <3>1, <4>2, <4>3
    <3>3. k - d \in 1..n /\ (k - d) + d = k
      BY <3>1, <3>2
    <3> QED BY <1>1, <3>1, <3>3 DEF KeptSince
  <2>4. ASSUME NEW k \in shifted PROVE k + d \in old /\ (k + d) - d = k
    <3>1. k \in 1..n /\ kept[k] >= from
      BY <1>1 DEF KeptSince
    <3>2. k + d \in 1..Len(times) /\ kept[k] = times[k + d] /\ (k + d) - d = k
      BY <1>1, <3>1
    <3> QED BY <3>1, <3>2 DEF KeptSince
  <2>5. \A a, b \in old : a - d = b - d => a = b
    BY <2>1
  <2>6. f \in [old -> shifted] /\ (\A a, b \in old : f[a] = f[b] => a = b) /\ \A b \in shifted : \E a \in old : f[a] = b
    BY <2>3, <2>4, <2>5
  <2> HIDE DEF f, old, shifted
  <2>7. f \in Bijection(old, shifted)
    BY <2>6 DEF Bijection, Injection, Surjection, IsInjective
  <2>8. ExistsBijection(old, shifted)
    BY <2>7 DEF ExistsBijection
  <2> QED BY <2>2, <2>8, FS_Bijection
<1>4. Cardinality(shifted) <= n
  <2>0. IsFiniteSet(1..n) /\ Cardinality(1..n) = n
    <3>1. \A m \in Nat : IsFiniteSet(1..m) /\ Cardinality(1..m) = IF 1 > m THEN 0 ELSE m - 1 + 1
      BY FS_Interval
    <3>2. \A m \in Nat : (IF 1 > m THEN 0 ELSE m - 1 + 1) = m
      OBVIOUS
    <3> HIDE DEF n
    <3> QED BY <1>1, <3>1, <3>2
  <2>1. shifted \subseteq 1..n
    BY <1>1 DEF KeptSince
  <2> QED BY <2>0, <2>1, FS_Subset
<1>5. KeptSince(more, from) = IF now >= from THEN shifted \cup {n + 1} ELSE shifted
  <2>1. Len(more) = n + 1 /\ more[n + 1] = now /\ \A k \in 1..n : more[k] = kept[k]
    <3>1. Len(more) = Len(kept) + 1 /\ more[Len(kept) + 1] = now /\ \A k \in 1..Len(kept) : more[k] = kept[k]
      <4>1. \A s \in Seq(Nat) : /\ Len(Append(s, now)) = Len(s) + 1 /\ Append(s, now)[Len(s) + 1] = now
                                /\ \A k \in 1..Len(s) : Append(s, now)[k] = s[k]
        OBVIOUS
      <4>2. kept \in Seq(Nat)
        BY <1>1
      <4> QED BY <4>1, <4>2
    <3> HIDE DEF more, n
    <3> QED BY <1>1, <3>1
  <2> HIDE DEF more
  <2>2. 1..(n + 1) = 1..n \cup {n + 1}
    BY <1>1
  <2> QED BY <1>1, <2>1, <2>2 DEF KeptSince
<1>6. n + 1 \notin shifted
  BY <1>1 DEF KeptSince
<1>7. Cardinality(shifted \cup {n + 1}) = Cardinality(shifted) + 1
  BY <1>3, <1>6, FS_AddElement
<1>8. Cardinality(shifted) \in Nat
  BY <1>3, FS_CardinalityType
<1> HIDE DEF old, shifted, more
<1> QED BY <1>1, <1>3, <1>4, <1>5, <1>7, <1>8 DEF kept, old, more, CountedSince

\* Nobody was admitted yet.
LEMMA RateStart == SearchInit => RateIInv
<1> SUFFICES ASSUME SearchInit PROVE RateIInv
  OBVIOUS
<1>1. \A t \in DOMAIN Tokens : token[t].times = <<>>
  BY DEF SearchInit
<1>2. RateTyped
  <2>1. ticks \in 0..MaxClock /\ DOMAIN token = DOMAIN Tokens
    BY SearchConstants DEF SearchInit
  <2>2. IsFiniteSet(admitted) /\ \A a \in admitted : a.at \in Nat
    BY FS_EmptySet DEF SearchInit
  <2>3. \A t \in DOMAIN Tokens : token[t].times \in Seq(Nat)
    <3>1. <<>> \in Seq(Nat)
      OBVIOUS
    <3> QED BY <1>1, <3>1
  <2> QED BY <2>1, <2>2, <2>3 DEF RateTyped
<1>3. \A t, from : Since(t, from) = {}
  BY DEF SearchInit, Since
<1>4. \A from : KeptSince(<<>>, from) = {}
  BY DEF KeptSince
<1>5. Cardinality({}) = 0
  BY FS_EmptySet
<1>6. LimiterKnows
  <2>1. \A t \in DOMAIN Tokens, from \in Int : /\ Cardinality(Since(t, from)) = 0
                                               /\ Cardinality(KeptSince(token[t].times, from)) = 0
    BY <1>1, <1>3, <1>4, <1>5
  <2> QED BY <2>1 DEF LimiterKnows
<1>7. \A t, from : {a \in admitted : a.token = t /\ a.at \in from .. (from + Window)} = {}
  BY DEF SearchInit
<1>8. RateKept
  <2>1. SUFFICES ASSUME NEW t \in DOMAIN Tokens, NEW from \in 0 .. MaxClock, EffectiveLimit(t) > 0
                 PROVE  Cardinality({a \in admitted : a.token = t /\ a.at \in from .. (from + Window)}) <= EffectiveLimit(t)
    BY DEF RateKept
  <2>2. 0 <= EffectiveLimit(t)
    BY <2>1, SearchConstants
  <2> QED BY <1>5, <1>7, <2>2
<1> QED BY <1>2, <1>6, <1>8 DEF RateIInv

\* One admission more counts one more at most.
LEMMA OneMoreAdmitted ==
  ASSUME NEW S, IsFiniteSet(S), NEW x
  PROVE  IsFiniteSet(S \cup {x}) /\ Cardinality(S \cup {x}) <= Cardinality(S) + 1 /\ Cardinality(S) \in Nat
<1>1. Cardinality(S) \in Nat
  BY FS_CardinalityType
<1> QED BY <1>1, FS_AddElement

\* An admission.
LEMMA AdmissionKeepsRate ==
  ASSUME RateIInv, NEW t \in DOMAIN Tokens, EffectiveLimit(t) > 0, CheckRateLimit(t),
         NEW e, e.token = t, e.at = ticks, admitted' = admitted \cup {e},
         token' = [token EXCEPT ![t].times = Append(InWindow(t), ticks)], UNCHANGED ticks
  PROVE  RateIInv'
<1> DEFINE times == token[t].times
           now == Append(InWindow(t), ticks)
<1>1. RateTyped /\ LimiterKnows /\ RateKept
  BY DEF RateIInv
<1>2. /\ ticks \in Nat /\ Window \in Nat /\ MaxClock \in Nat /\ EffectiveLimit(t) \in Int /\ times \in Seq(Nat)
      /\ IsFiniteSet(admitted) /\ ticks' = ticks
  BY <1>1, SearchConstants DEF RateTyped
<1>3. Expired(t) \in 0..Len(times) /\ \A k \in 1..Expired(t) : times[k] + Window < ticks
  BY <1>1, DroppedAreOld
<1>4. token'[t].times = now /\ \A u \in DOMAIN Tokens \ {t} : token'[u] = token[u]
  BY <1>1 DEF RateTyped
<1>5. DOMAIN token' = DOMAIN Tokens
  BY <1>1 DEF RateTyped
<1>6. \A u \in DOMAIN Tokens : EffectiveLimit(u)' = EffectiveLimit(u)
  BY DEF EffectiveLimit
<1>7. PICK d : d = Expired(t)
  OBVIOUS
<1>8. InWindow(t) = SubSeq(times, d + 1, Len(times)) /\ d \in 0..Len(times)
  BY <1>3, <1>7 DEF InWindow
<1>9. Len(InWindow(t)) < EffectiveLimit(t)
  BY <1>2 DEF CheckRateLimit
<1> HIDE DEF times
<1>10. ASSUME NEW from \in Int, from + Window >= ticks
       PROVE  /\ now \in Seq(Nat) /\ Cardinality(KeptSince(times, from)) \in Nat
              /\ Cardinality(KeptSince(times, from)) <= Len(InWindow(t))
              /\ Cardinality(KeptSince(now, from))
                   = Cardinality(KeptSince(times, from)) + (IF ticks >= from THEN 1 ELSE 0)
  <2>1. ASSUME NEW k \in 1..d PROVE times[k] < from
    <3>1. times[k] \in Nat /\ times[k] + Window < ticks
      BY <1>2, <1>3, <1>7, <1>8, SMTT(40)
    <3>2. PICK x \in Nat : x = times[k]
      BY <3>1
    <3>3. x < from
      BY <1>2, <1>10, <3>1, <3>2
    <3> QED BY <3>2, <3>3
  <2>2. CountedSince(times, SubSeq(times, d + 1, Len(times)), ticks, from)
    <3>1. times \in Seq(Nat) /\ ticks \in Nat /\ d \in 0..Len(times) /\ AllBefore(times, d, from)
      BY <1>2, <1>8, <2>1 DEF AllBefore
    <3> QED BY <3>1, KeptMore
  <2>3. now \in Seq(Nat)
    BY <1>2, <1>8, <2>2 DEF CountedSince
  <2> QED BY <1>8, <2>2, <2>3 DEF CountedSince
<1>11. now \in Seq(Nat)
  <2>1. ticks \in Int /\ ticks + Window >= ticks
    BY <1>2
  <2> QED BY <1>10, <2>1
<1> HIDE DEF now
<1>12. RateTyped'
  <2>1. ticks' \in 0..MaxClock
    BY <1>1 DEF RateTyped
  <2>2. \A u \in DOMAIN Tokens : token'[u].times \in Seq(Nat)
    BY <1>1, <1>4, <1>11 DEF RateTyped
  <2>3. IsFiniteSet(admitted') /\ \A a \in admitted' : a.at \in Nat
    BY <1>1, <1>2, OneMoreAdmitted DEF RateTyped
  <2> QED BY <1>5, <2>1, <2>2, <2>3 DEF RateTyped
<1>13. ASSUME NEW u \in DOMAIN Tokens, NEW from
       PROVE  Since(u, from)' = Since(u, from) \cup (IF u = t /\ ticks >= from THEN {e} ELSE {})
  BY DEF Since
<1>14. \A u, from : IsFiniteSet(Since(u, from))
  BY <1>2, FS_Subset DEF Since
<1>15. LimiterKnows'
  <2>1. SUFFICES ASSUME NEW u \in DOMAIN Tokens, NEW from \in Int, EffectiveLimit(u) > 0, from + Window >= ticks
                 PROVE  Cardinality(Since(u, from)') <= Cardinality(KeptSince(token'[u].times, from))
    BY <1>2, <1>6 DEF LimiterKnows, Since
  <2>2. Cardinality(Since(u, from)) <= Cardinality(KeptSince(token[u].times, from))
    BY <1>1, <2>1 DEF LimiterKnows
  <2>3. CASE u # t
    <3>1. Since(u, from)' = Since(u, from)
      <4>1. PICK more : more = IF u = t /\ ticks >= from THEN {e} ELSE {}
        OBVIOUS
      <4>2. Since(u, from)' = Since(u, from) \cup more
        BY <1>13, <4>1
      <4> QED BY <2>3, <4>1, <4>2
    <3> QED BY <1>4, <2>2, <2>3, <3>1
  <2>4. CASE u = t
    <3>1. CASE ticks >= from
      <4>1. Since(u, from)' = Since(u, from) \cup {e}
        BY <1>13, <2>4, <3>1
      <4>2. /\ Cardinality(Since(u, from)) \in Nat
            /\ Cardinality(Since(u, from) \cup {e}) <= Cardinality(Since(u, from)) + 1
            /\ IsFiniteSet(Since(u, from) \cup {e})
        BY <1>14, OneMoreAdmitted
      <4>3. Cardinality(KeptSince(now, from)) = Cardinality(KeptSince(times, from)) + 1 /\ Cardinality(KeptSince(times, from)) \in Nat
        BY <1>10, <2>1, <3>1
      <4>4. Cardinality(Since(u, from) \cup {e}) \in Nat
        BY <4>2, FS_CardinalityType
      <4>5. Cardinality(Since(u, from)) <= Cardinality(KeptSince(times, from))
        BY <2>2, <2>4 DEF times
      <4>6. Cardinality(Since(u, from) \cup {e}) <= Cardinality(KeptSince(now, from))
        BY <4>2, <4>3, <4>4, <4>5
      <4> QED BY <1>4, <2>4, <4>1, <4>6
    <3>2. CASE ~(ticks >= from)
      <4>1. Since(u, from)' = Since(u, from)
        BY <1>13, <3>2, ZenonT(60)
      <4>2. Cardinality(KeptSince(now, from)) = Cardinality(KeptSince(times, from)) + 0 /\ Cardinality(KeptSince(times, from)) \in Nat
        BY <1>10, <2>1, <3>2
      <4>3. Cardinality(KeptSince(now, from)) = Cardinality(KeptSince(times, from))
        BY <4>2
      <4> QED BY <1>4, <2>2, <2>4, <4>1, <4>3 DEF times
    <3> QED BY <3>1, <3>2
  <2> QED BY <2>3, <2>4
<1>16. RateKept'
  <2> DEFINE within(u, from, S) == {a \in S : a.token = u /\ a.at \in from .. (from + Window)}
  <2>1. SUFFICES ASSUME NEW u \in DOMAIN Tokens, NEW from \in 0..MaxClock, EffectiveLimit(u) > 0
                 PROVE  Cardinality(within(u, from, admitted')) <= EffectiveLimit(u)
    BY <1>6 DEF RateKept
  <2>2. Cardinality(within(u, from, admitted)) <= EffectiveLimit(u)
    BY <1>1, <2>1 DEF RateKept
  <2>3. CASE u # t \/ ticks \notin from .. (from + Window)
    <3>1. within(u, from, admitted') = within(u, from, admitted)
      BY <2>3
    <3> QED BY <2>2, <3>1
  <2>4. CASE u = t /\ ticks \in from .. (from + Window)
    <3>1. from \in Int /\ from + Window >= ticks /\ ticks >= from
      BY <1>2, <2>4
    <3>2. within(u, from, admitted) \subseteq Since(t, from)
      <4>1. \A a \in admitted : a.at \in Nat
        BY <1>1 DEF RateTyped
      <4> QED BY <2>4, <3>1, <4>1 DEF Since
    <3>3. Cardinality(within(u, from, admitted)) <= Cardinality(Since(t, from)) /\ IsFiniteSet(within(u, from, admitted))
      BY <1>14, <3>2, FS_Subset
    <3>4. Cardinality(Since(t, from)) <= Cardinality(KeptSince(times, from))
      BY <1>1, <2>1, <2>4, <3>1 DEF LimiterKnows, times
    <3>5. Cardinality(KeptSince(times, from)) <= Len(InWindow(t)) /\ Cardinality(KeptSince(times, from)) \in Nat
      BY <1>10, <3>1
    <3>6. within(u, from, admitted') = within(u, from, admitted) \cup {e}
      BY <2>4
    <3>7. /\ Cardinality(within(u, from, admitted) \cup {e}) <= Cardinality(within(u, from, admitted)) + 1
          /\ Cardinality(within(u, from, admitted)) \in Nat
          /\ IsFiniteSet(within(u, from, admitted) \cup {e})
      BY <3>3, OneMoreAdmitted
    <3>8. Cardinality(Since(t, from)) \in Nat /\ Cardinality(within(u, from, admitted) \cup {e}) \in Nat
      BY <1>14, <3>7, FS_CardinalityType
    <3>9. Len(InWindow(t)) \in Nat
      BY <1>2, <1>8, SMTT(40)
    <3> HIDE DEF within
    <3>10. Cardinality(within(u, from, admitted) \cup {e}) <= EffectiveLimit(t)
      BY <1>2, <1>9, <3>3, <3>4, <3>5, <3>7, <3>8, <3>9
    <3> QED BY <2>4, <3>6, <3>10
  <2> QED BY <2>3, <2>4
<1> QED BY <1>12, <1>15, <1>16 DEF RateIInv

\* All else leaves admissions alone, and the clock only goes on.
LEMMA OthersKeepRate ==
  ASSUME RateIInv, UNCHANGED admitted, ticks' \in {ticks, ticks + 1}, ticks' <= MaxClock,
         DOMAIN token' = DOMAIN token, \A t \in DOMAIN Tokens : token'[t].times = token[t].times
  PROVE  RateIInv'
<1>1. RateTyped /\ LimiterKnows /\ RateKept
  BY DEF RateIInv
<1>2. ticks \in Nat /\ ticks' \in Nat /\ Window \in Nat /\ ticks <= ticks' /\ MaxClock \in Nat
  BY <1>1, SearchConstants DEF RateTyped
<1>3. \A t \in DOMAIN Tokens : EffectiveLimit(t)' = EffectiveLimit(t)
  BY DEF EffectiveLimit
<1>4. RateTyped'
  BY <1>1, <1>2 DEF RateTyped
<1>5. LimiterKnows'
  <2>1. SUFFICES ASSUME NEW t \in DOMAIN Tokens, NEW from \in Int, EffectiveLimit(t) > 0, from + Window >= ticks'
                 PROVE  Cardinality(Since(t, from)') <= Cardinality(KeptSince(token'[t].times, from))
    BY <1>3 DEF LimiterKnows, Since
  <2>2. Since(t, from)' = Since(t, from)
    BY DEF Since
  <2>3. from + Window >= ticks
    BY <1>2, <2>1
  <2> QED BY <1>1, <2>1, <2>2, <2>3 DEF LimiterKnows
<1>6. RateKept'
  BY <1>1, <1>3 DEF RateKept
<1> QED BY <1>4, <1>5, <1>6 DEF RateIInv

\* No step breaks the invariant of the rates.
LEMMA RateStep == RateIInv /\ [SearchNext]_searchVars => RateIInv'
<1> SUFFICES ASSUME RateIInv, [SearchNext]_searchVars PROVE RateIInv'
  OBVIOUS
<1>1. RateTyped /\ ticks \in Nat /\ MaxClock \in Nat /\ ticks <= MaxClock
  BY SearchConstants DEF RateIInv, RateTyped
<1>2. ASSUME NEW t \in DOMAIN Tokens, NEW req \in Requests, SearchEndpoint(t, req) PROVE RateIInv'
  <2>1. UNCHANGED ticks
    BY <1>2 DEF SearchEndpoint
  <2>2. CASE UNCHANGED <<token, admitted>>
    BY <1>1, <2>1, <2>2, OthersKeepRate
  <2>3. CASE /\ CheckRateLimit(t) /\ ~(EffectiveLimit(t) <= 0)
             /\ token' = [token EXCEPT ![t].times = Append(InWindow(t), ticks)]
             /\ admitted' = admitted \cup {[token |-> t, at |-> ticks, n |-> Cardinality(admitted)]}
    <3>1. EffectiveLimit(t) > 0
      BY <2>3, SearchConstants
    <3>2. PICK e : e = [token |-> t, at |-> ticks, n |-> Cardinality(admitted)]
      OBVIOUS
    <3>3. e.token = t /\ e.at = ticks
      BY <3>2
    <3> QED BY <2>1, <2>3, <3>1, <3>2, <3>3, AdmissionKeepsRate
  <2> QED BY <1>2, <2>2, <2>3 DEF SearchEndpoint
<1>3. ASSUME NEW t \in DOMAIN Tokens, TokenEnds(t) PROVE RateIInv'
  <2>1. token' = [token EXCEPT ![t].state = "ended"] /\ UNCHANGED <<ticks, admitted>>
    BY <1>3 DEF TokenEnds
  <2>2. DOMAIN token' = DOMAIN token /\ \A u \in DOMAIN Tokens : token'[u].times = token[u].times
    BY <1>1, <2>1 DEF RateTyped
  <2> QED BY <1>1, <2>1, <2>2, OthersKeepRate
<1>4. CASE Tick
  <2>1. ticks' = ticks + 1 /\ ticks' <= MaxClock /\ UNCHANGED <<token, admitted>>
    BY <1>1, <1>4 DEF Tick
  <2> QED BY <2>1, OthersKeepRate
<1>5. CASE UNCHANGED <<ticks, token, admitted>>
  BY <1>1, <1>5, OthersKeepRate
<1> QED BY <1>2, <1>3, <1>4, <1>5
     DEF SearchNext, searchVars, RotateSecret, Respond, TotalTimeout, EmbedQuery, SearchIndex, TaskFails

\* However requests, the clock and refusals interleave: no window of the rate
\* has more admissions of a token than its limit (check_rate_limit).
THEOREM SearchRateKept == SearchSpec => []RateKept
<1>1. SearchInit => RateIInv
  BY RateStart
<1>2. RateIInv /\ [SearchNext]_searchVars => RateIInv'
  BY RateStep
<1>3. RateIInv => RateKept
  BY DEF RateIInv
<1> QED BY <1>1, <1>2, <1>3, PTL DEF SearchSpec

\* Where the elements of sequences are when these are put together: block by
\* block, and in a block in their order.
InPlaces(ss, flat, blk, off) ==
    /\ blk \in [1..Len(flat) -> 1..Len(ss)] /\ off \in [1..Len(flat) -> Nat]
    /\ \A p \in 1..Len(flat) : off[p] \in 1..Len(ss[blk[p]]) /\ flat[p] = ss[blk[p]][off[p]]
    /\ \A k \in 1..Len(ss) : \A o \in 1..Len(ss[k]) : \E p \in 1..Len(flat) : blk[p] = k /\ off[p] = o
    /\ \A p, q \in 1..Len(flat) : p < q => blk[p] < blk[q] \/ (blk[p] = blk[q] /\ off[p] < off[q])

HasPlaces(ss, flat) ==
    \E blk \in [1..Len(flat) -> 1..Len(ss)], off \in [1..Len(flat) -> Nat] : InPlaces(ss, flat, blk, off)

\* One block more.
LEMMA PlacesAppend ==
  ASSUME NEW T, NEW ss \in Seq(Seq(T)), NEW flat \in Seq(T), NEW s \in Seq(T), HasPlaces(ss, flat)
  PROVE  HasPlaces(Append(ss, s), flat \o s)
<1>1. PICK blk \in [1..Len(flat) -> 1..Len(ss)], off \in [1..Len(flat) -> Nat] : InPlaces(ss, flat, blk, off)
  BY DEF HasPlaces
<1>2. PICK m \in Nat, n \in Nat, l \in Nat : m = Len(flat) /\ n = Len(ss) /\ l = Len(s)
  OBVIOUS
<1>3. PICK more : more = Append(ss, s)
  OBVIOUS
<1>4. PICK all : all = flat \o s
  OBVIOUS
<1>5. Len(more) = n + 1 /\ more[n + 1] = s /\ \A k \in 1..n : more[k] = ss[k]
  <2>1. PICK E : E = Seq(T)
    OBVIOUS
  <2>2. \A x \in Seq(E), y \in E : Len(Append(x, y)) = Len(x) + 1 /\ Append(x, y)[Len(x) + 1] = y
                                 /\ \A k \in 1..Len(x) : Append(x, y)[k] = x[k]
    OBVIOUS
  <2> QED BY <1>2, <1>3, <2>1, <2>2
<1>6. /\ Len(all) = m + l /\ \A p \in 1..m : all[p] = flat[p]
      /\ \A p \in (m + 1)..(m + l) : all[p] = s[p - m]
  <2>1. \A x, y \in Seq(T) : /\ Len(x \o y) = Len(x) + Len(y) /\ \A p \in 1..Len(x) : (x \o y)[p] = x[p]
                             /\ \A p \in (Len(x) + 1)..(Len(x) + Len(y)) : (x \o y)[p] = y[p - Len(x)]
    OBVIOUS
  <2> QED BY <1>2, <1>4, <2>1
<1> DEFINE blk2 == [p \in 1..(m + l) |-> IF p <= m THEN blk[p] ELSE n + 1]
           off2 == [p \in 1..(m + l) |-> IF p <= m THEN off[p] ELSE p - m]
<1>7. /\ \A p \in 1..m : blk[p] \in 1..n /\ off[p] \in 1..Len(ss[blk[p]]) /\ flat[p] = ss[blk[p]][off[p]]
      /\ \A k \in 1..n : \A o \in 1..Len(ss[k]) : \E p \in 1..m : blk[p] = k /\ off[p] = o
      /\ \A p, q \in 1..m : p < q => blk[p] < blk[q] \/ (blk[p] = blk[q] /\ off[p] < off[q])
      /\ \A p \in 1..m : off[p] \in Nat
  <2>1. /\ \A p \in 1..m : off[p] \in 1..Len(ss[blk[p]]) /\ flat[p] = ss[blk[p]][off[p]]
        /\ \A k \in 1..n : \A o \in 1..Len(ss[k]) : \E p \in 1..m : blk[p] = k /\ off[p] = o
        /\ \A p, q \in 1..m : p < q => blk[p] < blk[q] \/ (blk[p] = blk[q] /\ off[p] < off[q])
    <3>1. InPlaces(ss, flat, blk, off) /\ Len(flat) = m /\ Len(ss) = n
      BY <1>1, <1>2
    <3>2. \A p \in 1..m : off[p] \in 1..Len(ss[blk[p]]) /\ flat[p] = ss[blk[p]][off[p]]
      BY <3>1, Zenon DEF InPlaces
    <3>3. \A k \in 1..n : \A o \in 1..Len(ss[k]) : \E p \in 1..m : blk[p] = k /\ off[p] = o
      <4>1. \A k \in 1..Len(ss) : \A o \in 1..Len(ss[k]) : \E p \in 1..Len(flat) : blk[p] = k /\ off[p] = o
        BY <3>1, Zenon DEF InPlaces
      <4> QED BY <3>1, <4>1
    <3>4. \A p, q \in 1..m : p < q => blk[p] < blk[q] \/ (blk[p] = blk[q] /\ off[p] < off[q])
      BY <3>1, Zenon DEF InPlaces
    <3> QED BY <3>2, <3>3, <3>4, Zenon
  <2>2. \A p \in 1..m : blk[p] \in 1..n /\ off[p] \in Nat
    BY <1>1, <1>2
  <2> QED BY <2>1, <2>2
<1>8. \A p \in 1..m : blk2[p] = blk[p] /\ off2[p] = off[p]
  BY <1>2
<1>9. \A p \in (m + 1)..(m + l) : blk2[p] = n + 1 /\ off2[p] = p - m
  BY <1>2
<1>10. \A p \in 1..(m + l) : p \in 1..m \/ (p \in (m + 1)..(m + l) /\ p - m \in 1..l)
  BY <1>2
<1>11. blk2 \in [1..(m + l) -> 1..(n + 1)] /\ off2 \in [1..(m + l) -> Nat]
  <2>1. \A p \in 1..(m + l) : (IF p <= m THEN blk[p] ELSE n + 1) \in 1..(n + 1) /\ (IF p <= m THEN off[p] ELSE p - m) \in Nat
    BY <1>2, <1>7
  <2> QED BY <2>1
<1> HIDE DEF blk2, off2
<1>12. ASSUME NEW p \in 1..(m + l) PROVE off2[p] \in 1..Len(more[blk2[p]]) /\ all[p] = more[blk2[p]][off2[p]]
  <2>1. CASE p \in 1..m
    <3>1. PICK k, o : k \in 1..n /\ k = blk[p] /\ o = off[p]
      BY <1>7, <2>1
    <3>2. o \in 1..Len(ss[k]) /\ flat[p] = ss[k][o]
      BY <1>7, <2>1, <3>1
    <3>3. more[k] = ss[k] /\ all[p] = flat[p] /\ blk2[p] = k /\ off2[p] = o
      BY <1>5, <1>6, <1>8, <2>1, <3>1
    <3> QED BY <3>2, <3>3, Zenon
  <2>2. CASE p \in (m + 1)..(m + l) /\ p - m \in 1..l
    BY <1>2, <1>5, <1>6, <1>9, <2>2
  <2> QED BY <1>10, <2>1, <2>2
<1>13. ASSUME NEW k \in 1..(n + 1), NEW o \in 1..Len(more[k]) PROVE \E p \in 1..(m + l) : blk2[p] = k /\ off2[p] = o
  <2>1. CASE k \in 1..n
    <3>1. PICK p \in 1..m : blk[p] = k /\ off[p] = o
      <4>1. more[k] = ss[k]
        BY <1>5, <2>1
      <4>2. o \in 1..Len(ss[k])
        BY <4>1
      <4>3. \A o2 \in 1..Len(ss[k]) : \E p \in 1..m : blk[p] = k /\ off[p] = o2
        BY <1>7, <2>1, Zenon
      <4> QED BY <4>2, <4>3, Zenon
    <3>2. p \in 1..(m + l)
      BY <1>2
    <3> QED BY <1>8, <3>1, <3>2
  <2>2. CASE k = n + 1
    <3>1. o \in 1..l
      BY <1>2, <1>5, <2>2
    <3>2. m + o \in (m + 1)..(m + l) /\ m + o \in 1..(m + l) /\ (m + o) - m = o
      BY <1>2, <3>1
    <3> QED BY <1>9, <2>2, <3>2
  <2> QED BY <1>2, <2>1, <2>2
<1>14. ASSUME NEW p \in 1..(m + l), NEW q \in 1..(m + l), p < q
       PROVE  blk2[p] < blk2[q] \/ (blk2[p] = blk2[q] /\ off2[p] < off2[q])
  <2>1. CASE q \in 1..m
    <3>1. p \in 1..m
      BY <1>2, <1>14, <2>1
    <3> QED BY <1>7, <1>8, <1>14, <2>1, <3>1
  <2>2. CASE q \in (m + 1)..(m + l) /\ p \in 1..m
    <3>1. blk2[p] \in 1..n /\ blk2[q] = n + 1
      BY <1>7, <1>8, <1>9, <2>2
    <3> QED BY <1>2, <3>1
  <2>3. CASE q \in (m + 1)..(m + l) /\ p \in (m + 1)..(m + l)
    BY <1>2, <1>9, <1>14, <2>3
  <2> QED BY <1>10, <2>1, <2>2, <2>3
<1>15. InPlaces(more, all, blk2, off2)
  BY <1>5, <1>6, <1>11, <1>12, <1>13, <1>14 DEF InPlaces
<1>16. HasPlaces(more, all)
  BY <1>5, <1>6, <1>11, <1>15 DEF HasPlaces
<1> QED BY <1>3, <1>4, <1>16

\* Every element of the flat sequence has its place in a block, in order.
LEMMA FlattenedPlaces ==
  ASSUME NEW T, NEW ss \in Seq(Seq(T))
  PROVE  HasPlaces(ss, FlattenSeq(ss))
<1> DEFINE part(i) == SubSeq(ss, 1, i)
           S == {i \in 0..Len(ss) : HasPlaces(part(i), FlattenSeq(part(i)))}
<1>1. Len(ss) \in Nat /\ part(0) = <<>> /\ part(Len(ss)) = ss
  OBVIOUS
<1>2. 0 \in S
  <2>1. Len(<<>>) = 0 /\ 1..0 = {}
    OBVIOUS
  <2> DEFINE none == [p \in 1..0 |-> 0]
  <2>2. none \in [1..0 -> 1..0] /\ none \in [1..0 -> Nat]
    BY <2>1
  <2>3. \A p : p \notin 1..0
    BY <2>1
  <2> HIDE DEF none
  <2>4. InPlaces(<<>>, <<>>, none, none)
    BY <2>1, <2>2, <2>3 DEF InPlaces
  <2>5. HasPlaces(<<>>, <<>>)
    BY <2>1, <2>2, <2>4 DEF HasPlaces
  <2> HIDE DEF part
  <2> QED BY <1>1, <2>5, FlattenedNothing
<1>3. ASSUME NEW i \in 1..Len(ss), i - 1 \in S PROVE i \in S
  <2>1. part(i - 1) \in Seq(Seq(T)) /\ part(i) = Append(part(i - 1), ss[i]) /\ ss[i] \in Seq(T)
    BY PrefixGrowsBy, Zenon
  <2>2. HasPlaces(part(i - 1), FlattenSeq(part(i - 1)))
    BY <1>3
  <2> HIDE DEF part
  <2>3. FlattenSeq(part(i - 1)) \in Seq(T)
    BY <2>1, FlattenedTyped
  <2>4. FlattenSeq(part(i)) = FlattenSeq(part(i - 1)) \o ss[i]
    BY <2>1, FlattenedAppend
  <2>5. HasPlaces(part(i), FlattenSeq(part(i)))
    BY <2>1, <2>2, <2>3, <2>4, PlacesAppend
  <2> QED BY <2>5
<1>4. Len(ss) \in 0..Len(ss)
  BY <1>1
<1> HIDE DEF S
<1>5. Len(ss) \in S
  BY <1>1, <1>2, <1>3, <1>4, CountingUp
<1> QED BY <1>1, <1>5 DEF S

-----------------------------------------------------------------------------
(* Sorting.                                                                 *)

\* what comes before an element
Ahead(s, i) == {j \in DOMAIN s : Before(s, j, i)}
SortedBy(s, order) ==
    /\ order \in [1..Len(s) -> 1..Len(s)]
    /\ \A p \in 1..Len(s) : Sorted(s)[p] = s[order[p]]
    /\ \A p, q \in 1..Len(s) : p < q => Before(s, order[p], order[q])
    /\ \A i \in 1..Len(s) : \E p \in 1..Len(s) : order[p] = i

\* Before is a strict total order of the places of a sequence.
LEMMA BeforeIsAnOrder ==
  ASSUME NEW T, NEW s \in Seq(T), \A i \in 1..Len(s) : s[i].score \in Int
  PROVE  /\ \A i \in 1..Len(s) : ~Before(s, i, i)
         /\ \A i, j \in 1..Len(s) : i # j => Before(s, i, j) \/ Before(s, j, i)
         /\ \A i, j, k \in 1..Len(s) : Before(s, i, j) /\ Before(s, j, k) => Before(s, i, k)
         /\ \A i, j \in 1..Len(s) : Before(s, i, j) => s[i].score >= s[j].score
<1>1. PICK f \in [1..Len(s) -> Int] : \A i \in 1..Len(s) : f[i] = s[i].score
  <2>1. [i \in 1..Len(s) |-> s[i].score] \in [1..Len(s) -> Int]
    OBVIOUS
  <2> QED BY <2>1
<1>2. PICK n \in Nat : n = Len(s)
  OBVIOUS
<1>3. \A i, j \in 1..n : Before(s, i, j) <=> (f[i] > f[j] \/ (f[i] = f[j] /\ i < j))
  BY <1>1, <1>2 DEF Before
<1>4. \A i \in 1..n : f[i] \in Int /\ i \in Int
  BY <1>1, <1>2
<1>5. \A i \in 1..n : ~Before(s, i, i)
  BY <1>3, <1>4
<1>6. \A i, j \in 1..n : i # j => Before(s, i, j) \/ Before(s, j, i)
  BY <1>3, <1>4
<1>7. \A i, j, k \in 1..n : Before(s, i, j) /\ Before(s, j, k) => Before(s, i, k)
  BY <1>3, <1>4
<1>8. \A i, j \in 1..n : Before(s, i, j) => f[i] >= f[j]
  BY <1>3, <1>4
<1> QED BY <1>1, <1>2, <1>5, <1>6, <1>7, <1>8

\* Sorting permutes the places, the best first.
LEMMA SortedPlaces ==
  ASSUME NEW T, NEW s \in Seq(T), \A i \in 1..Len(s) : s[i].score \in Int
  PROVE  /\ \E order \in [1..Len(s) -> 1..Len(s)] : SortedBy(s, order)
         /\ Sorted(s) \in Seq(T) /\ Len(Sorted(s)) = Len(s)
<1> DEFINE D == 1..Len(s)
           rank == [i \in D |-> Cardinality(Ahead(s, i)) + 1]
<1>1. Len(s) \in Nat /\ DOMAIN s = D /\ IsFiniteSet(D) /\ Cardinality(D) = Len(s)
  <2>1. Len(s) \in Nat /\ DOMAIN s = D
    OBVIOUS
  <2>2. \A m \in Nat : IsFiniteSet(1..m) /\ Cardinality(1..m) = IF 1 > m THEN 0 ELSE m - 1 + 1
    BY FS_Interval
  <2>3. \A m \in Nat : (IF 1 > m THEN 0 ELSE m - 1 + 1) = m
    OBVIOUS
  <2> QED BY <2>1, <2>2, <2>3
<1>2. /\ \A i \in D : ~Before(s, i, i)
      /\ \A i, j \in D : i # j => Before(s, i, j) \/ Before(s, j, i)
      /\ \A i, j, k \in D : Before(s, i, j) /\ Before(s, j, k) => Before(s, i, k)
  BY BeforeIsAnOrder
<1> HIDE DEF D
<1>3. \A i \in D : Ahead(s, i) \in SUBSET D /\ i \notin Ahead(s, i)
  BY <1>1, <1>2 DEF Ahead
<1>4. \A i \in D : IsFiniteSet(Ahead(s, i)) /\ Cardinality(Ahead(s, i)) \in Nat /\ Cardinality(Ahead(s, i)) < Len(s)
  <2> TAKE i \in D
  <2>1. IsFiniteSet(Ahead(s, i)) /\ Cardinality(Ahead(s, i)) <= Cardinality(D) /\ Cardinality(Ahead(s, i)) # Cardinality(D)
    BY <1>1, <1>3, FS_Subset
  <2>2. Cardinality(Ahead(s, i)) \in Nat
    BY <2>1, FS_CardinalityType
  <2> QED BY <1>1, <2>1, <2>2
<1>5. ASSUME NEW i \in D, NEW j \in D, Before(s, i, j) PROVE rank[i] < rank[j]
  <2>1. Ahead(s, i) \in SUBSET Ahead(s, j) /\ i \in Ahead(s, j) /\ i \notin Ahead(s, i)
    BY <1>1, <1>2, <1>3, <1>5 DEF Ahead
  <2>2. Cardinality(Ahead(s, i)) <= Cardinality(Ahead(s, j)) /\ Cardinality(Ahead(s, i)) # Cardinality(Ahead(s, j))
    BY <1>4, <2>1, FS_Subset
  <2> QED BY <1>4, <2>2
<1>6. rank \in [D -> D]
  <2>1. \A i \in D : Cardinality(Ahead(s, i)) + 1 \in 1..Len(s)
    BY <1>1, <1>4
  <2> QED BY <2>1 DEF D
<1>7. \A i, j \in D : rank[i] = rank[j] => i = j
  <2>1. \A i \in D : rank[i] \in Nat
    BY <1>6 DEF D
  <2> HIDE DEF rank
  <2> QED BY <1>2, <1>5, <2>1
<1>8. \A i \in D : rank[i] = Cardinality(Ahead(s, i)) + 1
  OBVIOUS
<1> HIDE DEF rank
<1>9. \A p \in D : \E i \in D : rank[i] = p
  <2>1. rank \in Injection(D, D)
    BY <1>6, <1>7 DEF Injection, IsInjective
  <2>2. rank \in Surjection(D, D)
    BY <1>1, <2>1, FS_Injection
  <2> QED BY <2>2 DEF Surjection
<1> DEFINE order == [p \in D |-> CHOOSE i \in D : rank[i] = p]
<1>10. \A p \in D : order[p] \in D /\ rank[order[p]] = p
  BY <1>9
<1>11. \A p \in D : Sorted(s)[p] = s[order[p]]
  <2> TAKE p \in D
  <2>1. \A i \in DOMAIN s : Cardinality({j \in DOMAIN s : Before(s, j, i)}) = p - 1 <=> rank[i] = p
    <3>1. p \in Int
      BY DEF D
    <3>2. \A i \in D : Cardinality(Ahead(s, i)) = p - 1 <=> rank[i] = p
      BY <1>4, <1>8, <3>1
    <3> QED BY <1>1, <3>2 DEF Ahead
  <2>2. (CHOOSE i \in DOMAIN s : Cardinality({j \in DOMAIN s : Before(s, j, i)}) = p - 1) = CHOOSE i \in D : rank[i] = p
    BY <1>1, <2>1
  <2>3. Sorted(s)[p] = s[CHOOSE i \in DOMAIN s : Cardinality({j \in DOMAIN s : Before(s, j, i)}) = p - 1]
    BY <1>1 DEF Sorted
  <2> QED BY <2>2, <2>3
<1> HIDE DEF order
<1>12. \A p, q \in D : p < q => Before(s, order[p], order[q])
  <2>1. \A p, q \in D : p < q => p # q /\ ~(q < p)
    BY DEF D
  <2> QED BY <1>2, <1>5, <1>10, <2>1
<1>13. \A i \in D : \E p \in D : order[p] = i
  BY <1>6, <1>7, <1>10
<1>14. order \in [D -> D]
  <2>1. order = [p \in D |-> order[p]]
    BY DEF order
  <2> QED BY <1>10, <2>1
<1>15. SortedBy(s, order)
  BY <1>11, <1>12, <1>13, <1>14 DEF SortedBy, D
<1>16. Sorted(s) \in Seq(T) /\ Len(Sorted(s)) = Len(s)
  <2>1. DOMAIN Sorted(s) = D /\ Sorted(s) = [p \in D |-> Sorted(s)[p]]
    BY <1>1 DEF Sorted
  <2>2. \A p \in D : Sorted(s)[p] \in T
    BY <1>1, <1>10, <1>11 DEF D
  <2>3. Sorted(s) \in [1..Len(s) -> T]
    BY <2>1, <2>2 DEF D
  <2> QED BY <1>1, <2>3
<1> QED BY <1>14, <1>15, <1>16 DEF D

-----------------------------------------------------------------------------
(* The hits of an index among the results.                                  *)

\* What the first k of a sequence are.
LEMMA TopProperties ==
  ASSUME NEW T, NEW s \in Seq(T), NEW k \in Nat
  PROVE  /\ Top(s, k) \in Seq(T) /\ Len(Top(s, k)) \in Nat /\ Len(Top(s, k)) <= k /\ Len(Top(s, k)) <= Len(s)
         /\ Len(Top(s, k)) = k \/ Len(Top(s, k)) = Len(s)
         /\ \A p \in 1..Len(Top(s, k)) : Top(s, k)[p] = s[p]
<1>1. {k, Len(s)} \in SUBSET Nat /\ {k, Len(s)} # {}
  OBVIOUS
<1>2. PICK m : m = Min({k, Len(s)})
  OBVIOUS
<1>3. m \in {k, Len(s)} /\ m <= k /\ m <= Len(s)
  BY <1>1, <1>2, LeastIn
<1>4. m \in 0..Len(s) /\ Len(s) \in Nat
  BY <1>3
<1>5. SubSeq(s, 1, m) \in Seq(T) /\ Len(SubSeq(s, 1, m)) = m /\ \A p \in 1..m : SubSeq(s, 1, m)[p] = s[p]
  BY <1>4
<1> QED BY <1>2, <1>3, <1>4, <1>5 DEF Top

\* Results are lined up if they name, of each index, the first so many hits in
\* their order.
Lined(R, ids, who, rank) ==
    /\ who \in [1..Len(R) -> DOMAIN ids] /\ rank \in [1..Len(R) -> Nat]
    /\ \A p \in 1..Len(R) : R[p].index = ids[who[p]] /\ rank[p] # 0
    /\ \A p, q \in 1..Len(R) : p < q /\ who[p] = who[q] => rank[p] < rank[q]
    /\ \A p \in 1..Len(R) : \A n \in 1..(rank[p] - 1) : \E q \in 1..(p - 1) : who[q] = who[p] /\ rank[q] = n

OfIndex(R, id, p) == {q \in 1..p : R[q].index = id}
CountedUp(R, ids, who, rank, i, p) ==
    LET c == Cardinality(OfIndex(R, ids[i], p)) IN
    /\ c \in Nat
    /\ \A q \in 1..p : who[q] = i => rank[q] \in 1..c
    /\ \A n \in 1..c : \E q \in 1..p : who[q] = i /\ rank[q] = n

\* Counted from the front, an index has as many results as their last rank says.
LEMMA LinedCount ==
  ASSUME NEW R, Len(R) \in Nat, NEW ids, \A i, j \in DOMAIN ids : ids[i] = ids[j] => i = j,
         NEW who, NEW rank, Lined(R, ids, who, rank), NEW i \in DOMAIN ids
  PROVE  \A p \in 0..Len(R) : CountedUp(R, ids, who, rank, i, p)
<1> DEFINE S == {p \in 0..Len(R) : CountedUp(R, ids, who, rank, i, p)}
<1>1. 0 \in S
  <2>1. OfIndex(R, ids[i], 0) = {} /\ Cardinality({}) = 0 /\ 1..0 = {}
    BY FS_EmptySet DEF OfIndex
  <2>2. CountedUp(R, ids, who, rank, i, 0)
    BY <2>1 DEF CountedUp
  <2> QED BY <2>2
<1>2. ASSUME NEW p \in 1..Len(R), p - 1 \in S PROVE p \in S
  <2>1. PICK c : c = Cardinality(OfIndex(R, ids[i], p - 1))
    OBVIOUS
  <2>2. /\ c \in Nat
        /\ \A q \in 1..(p - 1) : who[q] = i => rank[q] \in 1..c
        /\ \A n \in 1..c : \E q \in 1..(p - 1) : who[q] = i /\ rank[q] = n
    BY <1>2, <2>1 DEF CountedUp
  <2>3. 1..p = 1..(p - 1) \cup {p} /\ p \notin 1..(p - 1) /\ p - 1 \in Nat /\ p \in 0..Len(R)
    BY <1>2
  <2>4. /\ \A q \in 1..p : q \in 1..Len(R) /\ who[q] \in DOMAIN ids
        /\ \A q \in 1..p : R[q].index = ids[i] <=> who[q] = i
        /\ rank[p] \in Nat /\ rank[p] # 0
    <3>1. \A q \in 1..p : q \in 1..Len(R)
      BY <1>2
    <3> QED BY <1>2, <3>1, SMTT(40) DEF Lined
  <2>5. IsFiniteSet(OfIndex(R, ids[i], p - 1))
    <3>1. IsFiniteSet(1..(p - 1))
      BY <2>3, FS_Interval
    <3> QED BY <3>1, FS_Subset DEF OfIndex
  <2>6. CASE who[p] # i
    <3>1. OfIndex(R, ids[i], p) = OfIndex(R, ids[i], p - 1)
      BY <2>3, <2>4, <2>6 DEF OfIndex
    <3>2. CountedUp(R, ids, who, rank, i, p)
      BY <2>1, <2>2, <2>3, <2>6, <3>1 DEF CountedUp
    <3> QED BY <2>3, <3>2
  <2>7. CASE who[p] = i
    <3>1. OfIndex(R, ids[i], p) = OfIndex(R, ids[i], p - 1) \cup {p} /\ p \notin OfIndex(R, ids[i], p - 1)
      BY <2>3, <2>4, <2>7 DEF OfIndex
    <3>2. Cardinality(OfIndex(R, ids[i], p)) = c + 1
      BY <2>1, <2>5, <3>1, FS_AddElement
    <3>3. \A n \in 1..(rank[p] - 1) : \E q \in 1..(p - 1) : who[q] = i /\ rank[q] = n
      BY <1>2, <2>7 DEF Lined
    <3>4. \A q \in 1..(p - 1) : who[q] = i => rank[q] < rank[p]
      <4>1. \A q \in 1..(p - 1) : q \in 1..Len(R) /\ q < p
        BY <1>2
      <4> QED BY <1>2, <2>7, <4>1 DEF Lined
    <3>5. rank[p] - 1 <= c
      <4>1. CASE rank[p] = 1
        BY <2>2, <4>1
      <4>2. CASE rank[p] # 1
        <5>1. rank[p] - 1 \in 1..(rank[p] - 1)
          BY <2>4, <4>2
        <5>2. rank[p] - 1 \in 1..c
          BY <2>2, <3>3, <5>1, SMTT(40)
        <5> QED BY <5>2
      <4> QED BY <4>1, <4>2
    <3>6. c < rank[p]
      <4>1. CASE c = 0
        BY <2>4, <4>1
      <4>2. CASE c # 0
        <5>1. c \in 1..c
          BY <2>2, <4>2
        <5>2. PICK q \in 1..(p - 1) : who[q] = i /\ rank[q] = c
          BY <2>2, <5>1
        <5> QED BY <3>4, <5>2
      <4> QED BY <4>1, <4>2
    <3>7. rank[p] = c + 1
      BY <2>2, <2>4, <3>5, <3>6
    <3>8. ASSUME NEW q \in 1..p, who[q] = i PROVE rank[q] \in 1..(c + 1)
      <4>1. CASE q = p
        BY <2>2, <3>7, <4>1
      <4>2. CASE q \in 1..(p - 1)
        BY <2>2, <3>8, <4>2
      <4> QED BY <2>3, <4>1, <4>2
    <3>9. ASSUME NEW n \in 1..(c + 1) PROVE \E q \in 1..p : who[q] = i /\ rank[q] = n
      <4>1. n \in 1..c \/ n = c + 1
        BY <2>2
      <4> QED BY <2>2, <2>3, <2>7, <3>7, <4>1
    <3>10. CountedUp(R, ids, who, rank, i, p)
      BY <2>2, <3>2, <3>8, <3>9 DEF CountedUp
    <3> QED BY <2>3, <3>10
  <2> QED BY <2>6, <2>7
<1> HIDE DEF S
<1>3. \A p \in 0..Len(R) : p \in S
  BY <1>1, <1>2, CountingUp
<1> QED BY <1>3 DEF S

\* The count of an index at a result of its own is that result's rank.
LEMMA LinedRank ==
  ASSUME NEW R, Len(R) \in Nat, NEW ids, \A i, j \in DOMAIN ids : ids[i] = ids[j] => i = j,
         NEW who, NEW rank, Lined(R, ids, who, rank), NEW p \in 1..Len(R)
  PROVE  Cardinality(OfIndex(R, ids[who[p]], p)) = rank[p]
<1>1. who[p] \in DOMAIN ids /\ p \in 0..Len(R)
  BY DEF Lined
<1>2. CountedUp(R, ids, who, rank, who[p], p)
  BY <1>1, LinedCount
<1>3. PICK c \in Nat : c = Cardinality(OfIndex(R, ids[who[p]], p))
  BY <1>2 DEF CountedUp
<1>4. rank[p] \in 1..c
  BY <1>2, <1>3 DEF CountedUp
<1>5. c \in 1..c
  BY <1>3, <1>4
<1>6. PICK q \in 1..p : who[q] = who[p] /\ rank[q] = c
  BY <1>2, <1>3, <1>5 DEF CountedUp
<1>7. q < p => rank[q] < rank[p]
  <2>1. q \in 1..Len(R)
    OBVIOUS
  <2> QED BY <1>6, <2>1 DEF Lined
<1>8. q = p
  BY <1>4, <1>6, <1>7
<1> QED BY <1>3, <1>6, <1>8

-----------------------------------------------------------------------------
(* What the strategies make of what the indexes have found.                 *)

HitSet(D) == [id : D, score : Int]
FindingSet(Labels, D) == [id : Labels, group : Labels, hits : Seq(HitSet(D))]
EntrySet(Labels, D) == [index : Labels, id : D, score : Int]

\* an entry that stands for a hit
Stands(e, f, n) == n \in 1..Len(f.hits) /\ e = [index |-> f.id, id |-> f.hits[n].id, score |-> f.hits[n].score]

IdsOfFound(found) == [i \in DOMAIN found |-> found[i].id]
Answered(R, found, who, rank) ==
    /\ Lined(R, IdsOfFound(found), who, rank)
    /\ \A p \in 1..Len(R) : Stands(R[p], found[who[p]], rank[p])
Has(R, who, rank, i, n) == \E p \in 1..Len(R) : who[p] = i /\ rank[p] = n

\* Entries are in the pool by index, and of an index in its order.
Pooled(P, found, blk, off) ==
    /\ blk \in [1..Len(P) -> DOMAIN found] /\ off \in [1..Len(P) -> Nat]
    /\ \A p \in 1..Len(P) : Stands(P[p], found[blk[p]], off[p])
    /\ \A i \in DOMAIN found : \A n \in 1..Len(found[i].hits) : Has(P, blk, off, i, n)
    /\ \A p, q \in 1..Len(P) : p < q => blk[p] < blk[q] \/ (blk[p] = blk[q] /\ off[p] < off[q])

\* The entries of one index are its hits under its label.
LEMMA TagProperties ==
  ASSUME NEW Labels, NEW D, NEW f \in FindingSet(Labels, D)
  PROVE  /\ Tag(f.id, f.hits) \in Seq(EntrySet(Labels, D)) /\ Len(Tag(f.id, f.hits)) = Len(f.hits)
         /\ \A n \in 1..Len(f.hits) : Stands(Tag(f.id, f.hits)[n], f, n)
<1>1. f.id \in Labels /\ f.hits \in Seq(HitSet(D))
  BY DEF FindingSet
<1>2. PICK h \in Seq(HitSet(D)) : h = f.hits
  BY <1>1
<1>3. \A n \in 1..Len(h) : h[n] \in HitSet(D)
  OBVIOUS
<1>4. \A n \in 1..Len(h) : [index |-> f.id, id |-> h[n].id, score |-> h[n].score] \in EntrySet(Labels, D)
  BY <1>1, <1>3 DEF HitSet, EntrySet
<1>5. Tag(f.id, h) = [n \in 1..Len(h) |-> [index |-> f.id, id |-> h[n].id, score |-> h[n].score]] /\ Len(h) \in Nat
  BY DEF Tag
<1>6. Tag(f.id, h) \in Seq(EntrySet(Labels, D)) /\ Len(Tag(f.id, h)) = Len(h)
  BY <1>4, <1>5
<1> QED BY <1>2, <1>5, <1>6 DEF Stands

\* The pool has every hit of every index once, in order.
LEMMA PoolPlaces ==
  ASSUME NEW Labels, NEW D, NEW found \in Seq(FindingSet(Labels, D))
  PROVE  /\ Pool(found) \in Seq(EntrySet(Labels, D))
         /\ \E blk \in [1..Len(Pool(found)) -> DOMAIN found], off \in [1..Len(Pool(found)) -> Nat] :
                Pooled(Pool(found), found, blk, off)
<1> DEFINE tags == [i \in DOMAIN found |-> Tag(found[i].id, found[i].hits)]
<1>1. DOMAIN found = 1..Len(found) /\ Len(found) \in Nat /\ \A i \in DOMAIN found : found[i] \in FindingSet(Labels, D)
  OBVIOUS
<1>2. ASSUME NEW i \in DOMAIN found
      PROVE  /\ Tag(found[i].id, found[i].hits) \in Seq(EntrySet(Labels, D))
             /\ Len(Tag(found[i].id, found[i].hits)) = Len(found[i].hits)
             /\ \A n \in 1..Len(found[i].hits) : Stands(Tag(found[i].id, found[i].hits)[n], found[i], n)
  BY <1>1, TagProperties
<1>3. PICK E : E = Seq(EntrySet(Labels, D))
  OBVIOUS
<1>4. tags \in Seq(E) /\ Len(tags) = Len(found)
  BY <1>1, <1>2, <1>3
<1>5. \A i \in DOMAIN found : tags[i] = Tag(found[i].id, found[i].hits)
  OBVIOUS
<1>6. Pool(found) = FlattenSeq(tags)
  BY DEF Pool
<1> HIDE DEF tags
<1>7. FlattenSeq(tags) \in Seq(EntrySet(Labels, D)) /\ HasPlaces(tags, FlattenSeq(tags))
  BY <1>3, <1>4, FlattenedTyped, FlattenedPlaces
<1>8. PICK P \in Seq(EntrySet(Labels, D)) : P = Pool(found)
  BY <1>6, <1>7
<1>9. PICK blk \in [1..Len(P) -> 1..Len(tags)], off \in [1..Len(P) -> Nat] : InPlaces(tags, P, blk, off)
  BY <1>6, <1>7, <1>8 DEF HasPlaces
<1>10. /\ \A p \in 1..Len(P) : off[p] \in 1..Len(tags[blk[p]]) /\ P[p] = tags[blk[p]][off[p]]
       /\ \A k \in 1..Len(tags) : \A o \in 1..Len(tags[k]) : \E p \in 1..Len(P) : blk[p] = k /\ off[p] = o
       /\ \A p, q \in 1..Len(P) : p < q => blk[p] < blk[q] \/ (blk[p] = blk[q] /\ off[p] < off[q])
  BY <1>9, Zenon DEF InPlaces
<1>11. blk \in [1..Len(P) -> DOMAIN found]
  BY <1>1, <1>4, <1>9
<1>12. ASSUME NEW p \in 1..Len(P) PROVE Stands(P[p], found[blk[p]], off[p])
  <2>1. PICK i \in DOMAIN found : i = blk[p]
    BY <1>11
  <2>2. off[p] \in 1..Len(tags[i]) /\ P[p] = tags[i][off[p]]
    BY <1>10, <2>1
  <2>3. off[p] \in 1..Len(found[i].hits) /\ P[p] = Tag(found[i].id, found[i].hits)[off[p]]
    BY <1>2, <1>5, <2>2
  <2> QED BY <1>2, <2>1, <2>3
<1>13. ASSUME NEW i \in DOMAIN found, NEW n \in 1..Len(found[i].hits) PROVE Has(P, blk, off, i, n)
  <2>1. n \in 1..Len(tags[i]) /\ i \in 1..Len(tags)
    BY <1>1, <1>2, <1>4, <1>5
  <2> QED BY <1>10, <2>1 DEF Has
<1>14. Pooled(P, found, blk, off)
  BY <1>9, <1>10, <1>11, <1>12, <1>13 DEF Pooled
<1> QED BY <1>8, <1>9, <1>11, <1>14

\* What the pool says of ranks: a hit before another of its index is before it in
\* the pool.
LEMMA PooledOrder ==
  ASSUME NEW P, Len(P) \in Nat, NEW found, NEW blk, NEW off, Pooled(P, found, blk, off), DOMAIN found \in SUBSET Nat,
         NEW p \in 1..Len(P), NEW q \in 1..Len(P), blk[p] = blk[q]
  PROVE  /\ off[p] < off[q] => p < q
         /\ off[p] = off[q] => p = q
<1>1. blk[p] \in Nat /\ blk[q] \in Nat /\ off[p] \in Nat /\ off[q] \in Nat
  BY DEF Pooled
<1>2. p < q => off[p] < off[q]
  BY <1>1 DEF Pooled
<1>3. q < p => off[q] < off[p]
  BY <1>1 DEF Pooled
<1> QED BY <1>1, <1>2, <1>3

\* By index: the pool itself.
LEMMA PerIndexAnswers ==
  ASSUME NEW P, Len(P) \in Nat, NEW found, NEW blk, NEW off, Pooled(P, found, blk, off), DOMAIN found \in SUBSET Nat,
         \A i \in DOMAIN found : Len(found[i].hits) \in Nat
  PROVE  Answered(P, found, blk, off)
<1>1. DOMAIN IdsOfFound(found) = DOMAIN found /\ \A i \in DOMAIN found : IdsOfFound(found)[i] = found[i].id
  BY DEF IdsOfFound
<1>2. blk \in [1..Len(P) -> DOMAIN found] /\ off \in [1..Len(P) -> Nat]
  BY DEF Pooled
<1>3. \A p \in 1..Len(P) : Stands(P[p], found[blk[p]], off[p])
  BY DEF Pooled
<1>4. ASSUME NEW p \in 1..Len(P) PROVE P[p].index = found[blk[p]].id /\ off[p] # 0
  <2>1. Stands(P[p], found[blk[p]], off[p])
    BY <1>3
  <2>2. off[p] # 0
    BY <1>2, <2>1 DEF Stands
  <2>3. PICK e, f : e = P[p] /\ f = found[blk[p]]
    OBVIOUS
  <2>4. e.index = f.id
    BY <2>1, <2>3 DEF Stands
  <2> QED BY <2>2, <2>3, <2>4
<1>5. \A p, q \in 1..Len(P) : p < q /\ blk[p] = blk[q] => off[p] < off[q]
  <2>1. \A p \in 1..Len(P) : blk[p] \in Nat
    BY <1>2
  <2> QED BY <2>1 DEF Pooled
<1>6. ASSUME NEW p \in 1..Len(P), NEW n \in 1..(off[p] - 1) PROVE \E q \in 1..(p - 1) : blk[q] = blk[p] /\ off[q] = n
  <2>0. blk[p] \in DOMAIN found /\ off[p] \in 1..Len(found[blk[p]].hits)
    BY <1>2, <1>3 DEF Stands
  <2>1. n \in 1..Len(found[blk[p]].hits) /\ blk[p] \in DOMAIN found
    BY <2>0
  <2>2. PICK q \in 1..Len(P) : blk[q] = blk[p] /\ off[q] = n
    BY <2>1 DEF Pooled, Has
  <2>3. off[q] < off[p]
    BY <1>2, <2>2
  <2>4. q < p
    BY <2>2, <2>3, PooledOrder
  <2> QED BY <2>2, <2>4
<1>7. Lined(P, IdsOfFound(found), blk, off)
  <2>1. blk \in [1..Len(P) -> DOMAIN IdsOfFound(found)]
    BY <1>1, <1>2
  <2>2. \A p \in 1..Len(P) : P[p].index = IdsOfFound(found)[blk[p]] /\ off[p] # 0
    BY <1>1, <1>2, <1>4
  <2> QED BY <1>2, <1>5, <1>6, <2>1, <2>2 DEF Lined
<1> QED BY <1>3, <1>7 DEF Answered

\* What a strategy does with those hits that it leaves out.
LeavesOut(R, found, who, rank, k) ==
    \A i \in DOMAIN found : \A n \in 1..Len(found[i].hits) : ~Has(R, who, rank, i, n) => Len(R) = k
BetterThanLeftOut(R, found, who, rank) ==
    \A i \in DOMAIN found : \A n \in 1..Len(found[i].hits) : ~Has(R, who, rank, i, n) =>
        \A p \in 1..Len(R) : R[p].score >= found[i].hits[n].score
DescendingScores(R) == \A p, q \in 1..Len(R) : p < q => R[p].score >= R[q].score
BestOf(R, found, who, rank, k) ==
    Answered(R, found, who, rank) /\ LeavesOut(R, found, who, rank, k) /\ BetterThanLeftOut(R, found, who, rank)

\* Hits of an index are sorted in their order.
LEMMA SortedInOrder ==
  ASSUME NEW P, Len(P) \in Nat, NEW found, NEW blk, NEW off, Pooled(P, found, blk, off), DOMAIN found \in SUBSET Nat,
         \A i \in DOMAIN found : DescendingScores(found[i].hits),
         NEW a \in 1..Len(P), NEW b \in 1..Len(P), Before(P, a, b), blk[a] = blk[b],
         P[a].score \in Int, P[b].score \in Int
  PROVE  off[a] < off[b]
<1>1. off[a] \in Nat /\ off[b] \in Nat /\ blk[a] \in DOMAIN found
  BY DEF Pooled
<1>2. P[a].score > P[b].score \/ (P[a].score = P[b].score /\ a < b)
  BY DEF Before
<1>3. off[a] # off[b]
  <2>1. a # b
    BY <1>2
  <2> QED BY <2>1, PooledOrder
<1>4. off[b] < off[a] => FALSE
  <2>1. SUFFICES ASSUME off[b] < off[a] PROVE FALSE
    OBVIOUS
  <2>2. b < a
    BY <2>1, PooledOrder
  <2>3. PICK f : f = found[blk[a]]
    OBVIOUS
  <2>4. Stands(P[a], f, off[a]) /\ Stands(P[b], f, off[b])
    BY <2>3 DEF Pooled
  <2>5. PICK h : h = f.hits
    OBVIOUS
  <2>6. off[a] \in 1..Len(h) /\ off[b] \in 1..Len(h) /\ P[a].score = h[off[a]].score /\ P[b].score = h[off[b]].score
    BY <2>4, <2>5 DEF Stands
  <2>7. h[off[b]].score >= h[off[a]].score
    BY <1>1, <2>1, <2>3, <2>5, <2>6 DEF DescendingScores
  <2> QED BY <1>2, <2>2, <2>6, <2>7
<1> QED BY <1>1, <1>3, <1>4

\* By score: the best k of the pool, and of each index the nearest ones.
LEMMA ScoreAnswers ==
  ASSUME NEW Labels, NEW D, NEW found \in Seq(FindingSet(Labels, D)), NEW k \in Nat,
         \A i \in DOMAIN found : DescendingScores(found[i].hits)
  PROVE  LET R == MergeScore(found, k) IN
         /\ R \in Seq(EntrySet(Labels, D)) /\ Len(R) <= k /\ DescendingScores(R)
         /\ \E who, rank : BestOf(R, found, who, rank, k)
<1>1. PICK P \in Seq(EntrySet(Labels, D)) : P = Pool(found)
  BY PoolPlaces
<1>2. PICK blk \in [1..Len(P) -> DOMAIN found], off \in [1..Len(P) -> Nat] : Pooled(P, found, blk, off)
  BY <1>1, PoolPlaces
<1>3. /\ Len(P) \in Nat /\ DOMAIN found \in SUBSET Nat
      /\ \A a \in 1..Len(P) : P[a].score \in Int
  <2>1. \A a \in 1..Len(P) : P[a] \in EntrySet(Labels, D)
    OBVIOUS
  <2> QED BY <2>1 DEF EntrySet
<1>4. PICK order \in [1..Len(P) -> 1..Len(P)] : SortedBy(P, order)
  BY <1>3, SortedPlaces
<1>5. PICK s \in Seq(EntrySet(Labels, D)) : s = Sorted(P) /\ Len(s) = Len(P)
  BY <1>3, SortedPlaces
<1>6. PICK R \in Seq(EntrySet(Labels, D)) : R = MergeScore(found, k)
  BY <1>1, <1>5, TopProperties DEF MergeScore
<1>7. /\ Len(R) \in Nat /\ Len(R) <= k /\ Len(R) <= Len(P) /\ (Len(R) = k \/ Len(R) = Len(P))
      /\ \A p \in 1..Len(R) : R[p] = s[p]
  BY <1>1, <1>5, <1>6, TopProperties DEF MergeScore
<1>8. \A p \in 1..Len(R) : p \in 1..Len(P)
  BY <1>3, <1>7
<1>9. \A p \in 1..Len(P) : order[p] \in 1..Len(P) /\ s[p] = P[order[p]]
  BY <1>4, <1>5 DEF SortedBy
<1>10. \A p, q \in 1..Len(P) : p < q => P[order[p]].score >= P[order[q]].score
  <2>1. \A p, q \in 1..Len(P) : p < q => Before(P, order[p], order[q])
    BY <1>4 DEF SortedBy
  <2>2. \A a, b \in 1..Len(P) : Before(P, a, b) => P[a].score >= P[b].score
    BY <1>3, BeforeIsAnOrder
  <2> QED BY <1>9, <2>1, <2>2
<1>11. \A p, q \in 1..Len(P) : p < q /\ blk[order[p]] = blk[order[q]] => off[order[p]] < off[order[q]]
  <2>1. \A p, q \in 1..Len(P) : p < q => Before(P, order[p], order[q])
    BY <1>4 DEF SortedBy
  <2> QED BY <1>2, <1>3, <1>9, <2>1, SortedInOrder, ZenonT(60)
<1> DEFINE who == [p \in 1..Len(R) |-> blk[order[p]]]
           rank == [p \in 1..Len(R) |-> off[order[p]]]
<1>12. \A p \in 1..Len(R) : who[p] = blk[order[p]] /\ rank[p] = off[order[p]] /\ who[p] \in DOMAIN found /\ rank[p] \in Nat
  BY <1>2, <1>8, <1>9
<1>13. who \in [1..Len(R) -> DOMAIN found] /\ rank \in [1..Len(R) -> Nat]
  BY <1>2, <1>8, <1>9
<1> HIDE DEF who, rank
<1>14. ASSUME NEW p \in 1..Len(R) PROVE Stands(R[p], found[who[p]], rank[p])
  <2>1. PICK a \in 1..Len(P) : a = order[p]
    BY <1>8, <1>9
  <2>2. Stands(P[a], found[blk[a]], off[a])
    BY <1>2 DEF Pooled
  <2>3. R[p] = P[a] /\ who[p] = blk[a] /\ rank[p] = off[a]
    BY <1>7, <1>8, <1>9, <1>12, <2>1
  <2> QED BY <2>2, <2>3
<1>15. ASSUME NEW i \in DOMAIN found, NEW n \in 1..Len(found[i].hits)
       PROVE  \E q \in 1..Len(P) : blk[order[q]] = i /\ off[order[q]] = n
  <2>1. PICK a \in 1..Len(P) : blk[a] = i /\ off[a] = n
    BY <1>2 DEF Pooled, Has
  <2>2. PICK q \in 1..Len(P) : order[q] = a
    BY <1>4 DEF SortedBy
  <2> QED BY <2>1, <2>2
<1>16. \A p \in 1..Len(R) : R[p].index = found[who[p]].id /\ rank[p] # 0 /\ rank[p] \in 1..Len(found[who[p]].hits)
  <2> TAKE p \in 1..Len(R)
  <2>1. PICK e, f : e = R[p] /\ f = found[who[p]]
    OBVIOUS
  <2>2. Stands(e, f, rank[p])
    BY <1>14, <2>1
  <2>3. rank[p] \in 1..Len(f.hits)
    BY <2>2 DEF Stands
  <2>4. e.index = f.id
    BY <2>2 DEF Stands
  <2>5. rank[p] # 0
    BY <2>3
  <2> QED BY <2>1, <2>3, <2>4, <2>5
<1>17. \A i \in DOMAIN found : Len(found[i].hits) \in Nat
  BY DEF FindingSet
<1>18. ASSUME NEW p \in 1..Len(R), NEW n \in 1..(rank[p] - 1)
       PROVE  \E q \in 1..(p - 1) : who[q] = who[p] /\ rank[q] = n
  <2>1. who[p] \in DOMAIN found /\ n \in 1..Len(found[who[p]].hits) /\ n < rank[p]
    BY <1>12, <1>16, <1>17
  <2>2. PICK q \in 1..Len(P) : blk[order[q]] = who[p] /\ off[order[q]] = n
    BY <1>15, <2>1
  <2>3. ~(p < q) /\ q # p
    <3>1. p \in 1..Len(P) /\ blk[order[p]] = blk[order[q]] /\ off[order[p]] = rank[p] /\ rank[p] \in Nat
      BY <1>8, <1>12, <2>2
    <3>2. p < q => off[order[p]] < off[order[q]]
      BY <1>11, <3>1
    <3> QED BY <2>1, <2>2, <3>1, <3>2
  <2>4. q \in 1..(p - 1) /\ q \in 1..Len(R)
    BY <1>7, <1>8, <2>3
  <2> QED BY <1>12, <2>2, <2>4
<1>19. Lined(R, IdsOfFound(found), who, rank)
  <2>1. DOMAIN IdsOfFound(found) = DOMAIN found /\ \A i \in DOMAIN found : IdsOfFound(found)[i] = found[i].id
    BY DEF IdsOfFound
  <2>2. who \in [1..Len(R) -> DOMAIN IdsOfFound(found)]
    BY <1>13, <2>1
  <2>3. \A p \in 1..Len(R) : R[p].index = IdsOfFound(found)[who[p]] /\ rank[p] # 0
    BY <1>12, <1>16, <2>1
  <2>4. \A p, q \in 1..Len(R) : p < q /\ who[p] = who[q] => rank[p] < rank[q]
    <3> TAKE p, q \in 1..Len(R)
    <3>1. p \in 1..Len(P) /\ q \in 1..Len(P) /\ who[p] = blk[order[p]] /\ who[q] = blk[order[q]]
          /\ rank[p] = off[order[p]] /\ rank[q] = off[order[q]]
      BY <1>8, <1>12
    <3> QED BY <1>11, <3>1
  <2> QED BY <1>13, <1>18, <2>2, <2>3, <2>4 DEF Lined
<1>20. ASSUME NEW i \in DOMAIN found, NEW n \in 1..Len(found[i].hits), ~Has(R, who, rank, i, n)
       PROVE  Len(R) = k /\ \A p \in 1..Len(R) : R[p].score >= found[i].hits[n].score
  <2>1. PICK q \in 1..Len(P) : blk[order[q]] = i /\ off[order[q]] = n
    BY <1>15
  <2>2. q \notin 1..Len(R)
    BY <1>12, <1>20, <2>1 DEF Has
  <2>3. Len(R) < q
    BY <1>7, <2>2
  <2>4. Len(R) = k
    BY <1>3, <1>7, <2>3
  <2>5. Stands(P[order[q]], found[i], n)
    BY <1>2, <1>9, <2>1 DEF Pooled
  <2>6. PICK h : h = found[i].hits
    OBVIOUS
  <2>7. P[order[q]].score = h[n].score
    BY <2>5, <2>6 DEF Stands
  <2>8. \A p \in 1..Len(R) : p < q
    BY <1>7, <2>3
  <2>9. \A p \in 1..Len(R) : R[p] = P[order[p]]
    BY <1>7, <1>8, <1>9
  <2>10. \A p \in 1..Len(R) : R[p].score >= P[order[q]].score
    BY <1>8, <1>10, <2>8, <2>9
  <2> QED BY <2>4, <2>6, <2>7, <2>10
<1>21. DescendingScores(R)
  <2>1. SUFFICES ASSUME NEW p \in 1..Len(R), NEW q \in 1..Len(R), p < q PROVE R[p].score >= R[q].score
    BY DEF DescendingScores
  <2>2. p \in 1..Len(P) /\ q \in 1..Len(P) /\ R[p] = P[order[p]] /\ R[q] = P[order[q]]
    BY <1>7, <1>8, <1>9
  <2> QED BY <1>10, <2>1, <2>2
<1>22. BestOf(R, found, who, rank, k)
  BY <1>14, <1>19, <1>20 DEF BestOf, Answered, LeavesOut, BetterThanLeftOut
<1> QED BY <1>6, <1>7, <1>21, <1>22

\* The laps reach every hit.
LEMMA DeepestReaches ==
  ASSUME NEW Labels, NEW D, NEW found \in Seq(FindingSet(Labels, D))
  PROVE  Deepest(found) \in Nat /\ \A i \in DOMAIN found : Len(found[i].hits) <= Deepest(found)
<1> DEFINE length(i) == Len(found[i].hits)
           all == {length(i) : i \in DOMAIN found} \cup {0}
           S == {j \in 0..Len(found) : \E b \in Nat : \A i \in 1..j : length(i) <= b}
<1>1. DOMAIN found = 1..Len(found) /\ Len(found) \in Nat /\ \A i \in DOMAIN found : length(i) \in Nat
  BY DEF FindingSet
<1> HIDE DEF length
<1>2. 0 \in S
  BY <1>1
<1>3. ASSUME NEW j \in 1..Len(found), j - 1 \in S PROVE j \in S
  <2>1. PICK b \in Nat : \A i \in 1..(j - 1) : length(i) <= b
    BY <1>3
  <2>2. length(j) \in Nat /\ 1..j = 1..(j - 1) \cup {j}
    BY <1>1
  <2>3. b + length(j) \in Nat /\ \A i \in 1..j : length(i) <= b + length(j)
    <3>1. \A i \in 1..(j - 1) : length(i) \in Nat
      BY <1>1
    <3> QED BY <2>1, <2>2, <3>1
  <2>4. j \in 0..Len(found)
    OBVIOUS
  <2> QED BY <2>3, <2>4
<1>4. Len(found) \in S
  <2> HIDE DEF S
  <2>1. \A j \in 0..Len(found) : j \in S
    BY <1>1, <1>2, <1>3, CountingUp
  <2> QED BY <1>1, <2>1
<1>5. PICK b \in Nat : \A i \in 1..Len(found) : length(i) <= b
  BY <1>4
<1>6. all \in SUBSET (0..b) /\ all # {}
  <2>1. 0 \in 0..b /\ \A i \in DOMAIN found : length(i) \in 0..b
    BY <1>1, <1>5
  <2> QED BY <2>1
<1>7. PICK m \in Nat : m = Max(all)
  <2> HIDE DEF all
  <2>1. Max(all) \in all
    BY <1>5, <1>6, GreatestUpTo
  <2>2. Max(all) \in 0..b
    BY <1>6, <2>1
  <2> QED BY <1>5, <2>2
<1>8. \A x \in all : x <= m
  <2> HIDE DEF all
  <2> QED BY <1>5, <1>6, <1>7, GreatestUpTo
<1>9. Deepest(found) = m
  BY <1>7 DEF Deepest, length
<1>10. \A i \in DOMAIN found : length(i) <= m
  BY <1>8
<1> QED BY <1>9, <1>10 DEF length

\* In a lap there is one hit of each index that has so many, by index.
LapPlaced(found, r, idx) ==
    /\ idx \in [1..Len(Lap(found, r)) -> DOMAIN found]
    /\ \A p \in 1..Len(Lap(found, r)) : Stands(Lap(found, r)[p], found[idx[p]], r)
    /\ \A p, q \in 1..Len(Lap(found, r)) : p < q => idx[p] < idx[q]
    /\ \A i \in DOMAIN found : r <= Len(found[i].hits) => \E p \in 1..Len(Lap(found, r)) : idx[p] = i

\* A lap has one hit of each index that has that many.
LEMMA LapPlaces ==
  ASSUME NEW Labels, NEW D, NEW found \in Seq(FindingSet(Labels, D)), NEW r \in Nat, r # 0
  PROVE  Lap(found, r) \in Seq(EntrySet(Labels, D)) /\ \E idx : LapPlaced(found, r, idx)
<1> DEFINE pieces == [i \in DOMAIN found |-> IF r <= Len(found[i].hits) THEN <<Tag(found[i].id, found[i].hits)[r]>> ELSE <<>>]
<1>1. DOMAIN found = 1..Len(found) /\ Len(found) \in Nat /\ \A i \in DOMAIN found : found[i] \in FindingSet(Labels, D)
  OBVIOUS
<1>2. PICK E : E = Seq(EntrySet(Labels, D))
  OBVIOUS
<1>3. ASSUME NEW i \in DOMAIN found
      PROVE  /\ r <= Len(found[i].hits) =>
                    Len(pieces[i]) = 1 /\ Stands(pieces[i][1], found[i], r) /\ pieces[i] \in E
             /\ ~(r <= Len(found[i].hits)) => Len(pieces[i]) = 0 /\ pieces[i] \in E
  <2>1. /\ Tag(found[i].id, found[i].hits) \in Seq(EntrySet(Labels, D))
        /\ Len(Tag(found[i].id, found[i].hits)) = Len(found[i].hits)
        /\ \A n \in 1..Len(found[i].hits) : Stands(Tag(found[i].id, found[i].hits)[n], found[i], n)
    BY <1>1, TagProperties
  <2>2. CASE r <= Len(found[i].hits)
    <3>1. PICK t \in Seq(EntrySet(Labels, D)) : t = Tag(found[i].id, found[i].hits)
      BY <2>1
    <3>2. r \in 1..Len(t) /\ r \in 1..Len(found[i].hits)
      BY <2>1, <2>2, <3>1
    <3>3. t[r] \in EntrySet(Labels, D)
      BY <3>2
    <3>4. pieces[i] = <<t[r]>>
      BY <2>2, <3>1
    <3>5. Len(<<t[r]>>) = 1 /\ <<t[r]>>[1] = t[r] /\ <<t[r]>> \in Seq(EntrySet(Labels, D))
      BY <3>3
    <3>6. Stands(t[r], found[i], r)
      BY <2>1, <3>1, <3>2
    <3> HIDE DEF pieces
    <3> QED BY <1>2, <2>2, <3>4, <3>5, <3>6
  <2>3. CASE ~(r <= Len(found[i].hits))
    <3>1. pieces[i] = <<>> /\ <<>> \in Seq(EntrySet(Labels, D)) /\ Len(<<>>) = 0
      BY <2>3
    <3> HIDE DEF pieces
    <3> QED BY <1>2, <2>3, <3>1
  <2> QED BY <2>2, <2>3
<1>4. pieces \in Seq(E) /\ Len(pieces) = Len(found)
  <2>1. \A i \in 1..Len(found) : pieces[i] \in E
    BY <1>1, <1>3
  <2>2. pieces = [i \in 1..Len(found) |-> pieces[i]]
    BY <1>1
  <2> HIDE DEF pieces
  <2> QED BY <1>1, <2>1, <2>2
<1>5. Lap(found, r) = FlattenSeq(pieces)
  BY DEF Lap
<1> HIDE DEF pieces
<1>6. FlattenSeq(pieces) \in Seq(EntrySet(Labels, D)) /\ HasPlaces(pieces, FlattenSeq(pieces))
  BY <1>2, <1>4, FlattenedTyped, FlattenedPlaces
<1>7. PICK lap \in Seq(EntrySet(Labels, D)) : lap = Lap(found, r)
  BY <1>5, <1>6
<1>8. PICK blk \in [1..Len(lap) -> 1..Len(pieces)], off \in [1..Len(lap) -> Nat] : InPlaces(pieces, lap, blk, off)
  BY <1>5, <1>6, <1>7 DEF HasPlaces
<1>9. /\ \A p \in 1..Len(lap) : off[p] \in 1..Len(pieces[blk[p]]) /\ lap[p] = pieces[blk[p]][off[p]]
      /\ \A k \in 1..Len(pieces) : \A o \in 1..Len(pieces[k]) : \E p \in 1..Len(lap) : blk[p] = k /\ off[p] = o
      /\ \A p, q \in 1..Len(lap) : p < q => blk[p] < blk[q] \/ (blk[p] = blk[q] /\ off[p] < off[q])
  BY <1>8, Zenon DEF InPlaces
<1>10. blk \in [1..Len(lap) -> DOMAIN found]
  BY <1>1, <1>4, <1>8
<1>11. ASSUME NEW p \in 1..Len(lap) PROVE off[p] = 1 /\ Stands(lap[p], found[blk[p]], r)
  <2>1. PICK i \in DOMAIN found : i = blk[p]
    BY <1>10
  <2>2. off[p] \in 1..Len(pieces[i]) /\ lap[p] = pieces[i][off[p]]
    BY <1>9, <2>1
  <2>3. r <= Len(found[i].hits)
    BY <1>3, <2>2
  <2>4. Len(pieces[i]) = 1 /\ Stands(pieces[i][1], found[i], r)
    BY <1>3, <2>3
  <2>5. off[p] = 1
    BY <2>2, <2>4
  <2> QED BY <2>1, <2>2, <2>4, <2>5
<1>12. \A p, q \in 1..Len(lap) : p < q => blk[p] < blk[q]
  BY <1>9, <1>11
<1>13. ASSUME NEW i \in DOMAIN found, r <= Len(found[i].hits) PROVE \E p \in 1..Len(lap) : blk[p] = i
  <2>1. i \in 1..Len(pieces) /\ 1 \in 1..Len(pieces[i])
    BY <1>1, <1>3, <1>4, <1>13
  <2> QED BY <1>9, <2>1
<1>14. LapPlaced(found, r, blk)
  BY <1>7, <1>10, <1>11, <1>12, <1>13 DEF LapPlaced
<1> QED BY <1>7, <1>14

LapOrder(found, r) == CHOOSE idx : LapPlaced(found, r, idx)

\* What is taken of an index comes after as much of any other that has so much.
EvenlyTaken(R, found, who, rank) ==
    \A p \in 1..Len(R), i \in DOMAIN found : \A n \in 1..Len(found[i].hits) :
        n < rank[p] => \E q \in 1..(p - 1) : who[q] = i /\ rank[q] = n

\* In turn: lap after lap, until k are taken.
LEMMA RoundRobinAnswers ==
  ASSUME NEW Labels, NEW D, NEW found \in Seq(FindingSet(Labels, D)), NEW k \in Nat
  PROVE  LET R == MergeRoundRobin(found, k) IN
         /\ R \in Seq(EntrySet(Labels, D)) /\ Len(R) <= k
         /\ \E who, rank : Answered(R, found, who, rank) /\ LeavesOut(R, found, who, rank, k) /\ EvenlyTaken(R, found, who, rank)
<1> DEFINE laps == [r \in 1 .. Deepest(found) |-> Lap(found, r)]
<1>1. /\ Deepest(found) \in Nat /\ \A i \in DOMAIN found : Len(found[i].hits) <= Deepest(found)
      /\ \A i \in DOMAIN found : Len(found[i].hits) \in Nat
  <2>1. \A i \in DOMAIN found : Len(found[i].hits) \in Nat
    BY DEF FindingSet
  <2> QED BY <2>1, DeepestReaches
<1>2. PICK E : E = Seq(EntrySet(Labels, D))
  OBVIOUS
<1>3. \A r \in 1..Deepest(found) : Lap(found, r) \in E /\ LapPlaced(found, r, LapOrder(found, r))
  <2> TAKE r \in 1..Deepest(found)
  <2>1. r \in Nat /\ r # 0
    BY <1>1
  <2> QED BY <1>2, <2>1, LapPlaces DEF LapOrder
<1>4. laps \in Seq(E) /\ Len(laps) = Deepest(found)
  BY <1>1, <1>3
<1>5. \A r \in 1..Deepest(found) : laps[r] = Lap(found, r)
  OBVIOUS
<1>6. MergeRoundRobin(found, k) = Top(FlattenSeq(laps), k)
  BY DEF MergeRoundRobin
<1> HIDE DEF laps
<1>7. PICK F \in Seq(EntrySet(Labels, D)) : F = FlattenSeq(laps) /\ HasPlaces(laps, F)
  BY <1>2, <1>4, FlattenedTyped, FlattenedPlaces
<1>8. PICK blk \in [1..Len(F) -> 1..Len(laps)], off \in [1..Len(F) -> Nat] : InPlaces(laps, F, blk, off)
  BY <1>7 DEF HasPlaces
<1>9. /\ \A p \in 1..Len(F) : off[p] \in 1..Len(laps[blk[p]]) /\ F[p] = laps[blk[p]][off[p]]
      /\ \A n \in 1..Len(laps) : \A o \in 1..Len(laps[n]) : \E p \in 1..Len(F) : blk[p] = n /\ off[p] = o
      /\ \A p, q \in 1..Len(F) : p < q => blk[p] < blk[q] \/ (blk[p] = blk[q] /\ off[p] < off[q])
  BY <1>8, Zenon DEF InPlaces
<1>10. PICK R \in Seq(EntrySet(Labels, D)) : R = MergeRoundRobin(found, k)
  BY <1>6, <1>7, TopProperties
<1>11. /\ Len(R) \in Nat /\ Len(R) <= k /\ Len(R) <= Len(F) /\ (Len(R) = k \/ Len(R) = Len(F)) /\ Len(F) \in Nat
       /\ \A p \in 1..Len(R) : R[p] = F[p]
  BY <1>6, <1>7, <1>10, TopProperties
<1> DEFINE at(p) == LapOrder(found, blk[p])[off[p]]
<1>12. ASSUME NEW p \in 1..Len(F)
       PROVE  /\ blk[p] \in 1..Deepest(found) /\ at(p) \in DOMAIN found /\ Stands(F[p], found[at(p)], blk[p])
  <2>0. blk[p] \in 1..Deepest(found)
    BY <1>4, <1>8
  <2>1. PICK r, o : r \in 1..Deepest(found) /\ r = blk[p] /\ o = off[p]
    BY <2>0
  <2>2. o \in 1..Len(Lap(found, r)) /\ F[p] = Lap(found, r)[o]
    BY <1>5, <1>9, <2>1
  <2>3. LapPlaced(found, r, LapOrder(found, r))
    BY <1>3, <2>1
  <2>4. LapOrder(found, r)[o] \in DOMAIN found /\ Stands(Lap(found, r)[o], found[LapOrder(found, r)[o]], r)
    BY <2>2, <2>3 DEF LapPlaced
  <2> QED BY <2>1, <2>2, <2>4
<1>13. ASSUME NEW i \in DOMAIN found, NEW n \in 1..Len(found[i].hits)
       PROVE  \E p \in 1..Len(F) : at(p) = i /\ blk[p] = n
  <2>1. n \in 1..Deepest(found) /\ n <= Len(found[i].hits)
    BY <1>1
  <2>2. PICK o \in 1..Len(Lap(found, n)) : LapOrder(found, n)[o] = i
    BY <1>3, <2>1 DEF LapPlaced
  <2>3. n \in 1..Len(laps) /\ o \in 1..Len(laps[n])
    BY <1>4, <1>5, <2>1
  <2>4. PICK p \in 1..Len(F) : blk[p] = n /\ off[p] = o
    BY <1>9, <2>3
  <2> QED BY <2>2, <2>4
<1>14. ASSUME NEW p \in 1..Len(F), NEW q \in 1..Len(F), p < q
       PROVE  blk[p] < blk[q] \/ (blk[p] = blk[q] /\ at(p) < at(q))
  <2>1. CASE blk[p] = blk[q] /\ off[p] < off[q]
    <3>1. PICK r \in 1..Deepest(found) : r = blk[p]
      BY <1>12
    <3>2. off[p] \in 1..Len(Lap(found, r)) /\ off[q] \in 1..Len(Lap(found, r))
      <4>1. off[p] \in 1..Len(laps[r]) /\ off[q] \in 1..Len(laps[r])
        BY <1>9, <2>1, <3>1
      <4> QED BY <1>5, <4>1
    <3>3. LapOrder(found, r)[off[p]] < LapOrder(found, r)[off[q]]
      BY <1>3, <2>1, <3>2 DEF LapPlaced
    <3> QED BY <2>1, <3>1, <3>3
  <2> QED BY <1>9, <1>14, <2>1
<1>15. \A p \in 1..Len(F) : at(p) \in Nat /\ blk[p] \in Nat /\ blk[p] # 0
  BY <1>12
<1> DEFINE who == [p \in 1..Len(R) |-> at(p)]
           rank == [p \in 1..Len(R) |-> blk[p]]
<1> HIDE DEF at
<1>16. \A p \in 1..Len(R) : p \in 1..Len(F) /\ who[p] = at(p) /\ rank[p] = blk[p]
  BY <1>11
<1>17. who \in [1..Len(R) -> DOMAIN found] /\ rank \in [1..Len(R) -> Nat]
  BY <1>12, <1>15, <1>16
<1> HIDE DEF who, rank
<1>18. ASSUME NEW p \in 1..Len(R) PROVE Stands(R[p], found[who[p]], rank[p])
  BY <1>11, <1>12, <1>16
<1>19. ASSUME NEW p \in 1..Len(R), NEW i \in DOMAIN found, NEW n \in 1..Len(found[i].hits), n < rank[p]
       PROVE  \E q \in 1..(p - 1) : who[q] = i /\ rank[q] = n
  <2>1. PICK q \in 1..Len(F) : at(q) = i /\ blk[q] = n
    BY <1>13
  <2>2. p \in 1..Len(F) /\ rank[p] = blk[p] /\ blk[q] < blk[p] /\ blk[p] \in Nat
    BY <1>15, <1>16, <1>19, <2>1
  <2>3. ~(p < q) /\ p # q
    <3>1. p < q => blk[p] < blk[q] \/ blk[p] = blk[q]
      BY <1>14, <2>2
    <3> QED BY <2>1, <2>2, <3>1
  <2>4. q \in 1..(p - 1) /\ q \in 1..Len(R)
    BY <1>11, <2>2, <2>3
  <2> QED BY <1>16, <2>1, <2>4
<1>20. \A p \in 1..Len(R) : R[p].index = found[who[p]].id /\ rank[p] # 0 /\ rank[p] \in 1..Len(found[who[p]].hits)
  <2> TAKE p \in 1..Len(R)
  <2>1. PICK e, f : e = R[p] /\ f = found[who[p]]
    OBVIOUS
  <2>2. Stands(e, f, rank[p])
    BY <1>18, <2>1
  <2>3. rank[p] \in 1..Len(f.hits)
    BY <2>2 DEF Stands
  <2>4. e.index = f.id
    BY <2>2 DEF Stands
  <2>5. rank[p] # 0
    BY <2>3
  <2> QED BY <2>1, <2>3, <2>4, <2>5
<1>21. Lined(R, IdsOfFound(found), who, rank)
  <2>1. DOMAIN IdsOfFound(found) = DOMAIN found /\ \A i \in DOMAIN found : IdsOfFound(found)[i] = found[i].id
    BY DEF IdsOfFound
  <2>2. who \in [1..Len(R) -> DOMAIN IdsOfFound(found)]
    BY <1>17, <2>1
  <2>3. \A p \in 1..Len(R) : R[p].index = IdsOfFound(found)[who[p]] /\ rank[p] # 0
    BY <1>17, <1>20, <2>1
  <2>4. ASSUME NEW p \in 1..Len(R), NEW q \in 1..Len(R), p < q, who[p] = who[q] PROVE rank[p] < rank[q]
    <3>1. p \in 1..Len(F) /\ q \in 1..Len(F) /\ at(p) = at(q) /\ at(p) \in Nat /\ rank[p] = blk[p] /\ rank[q] = blk[q]
      BY <1>15, <1>16, <2>4
    <3> QED BY <1>14, <2>4, <3>1
  <2>5. ASSUME NEW p \in 1..Len(R), NEW n \in 1..(rank[p] - 1) PROVE \E q \in 1..(p - 1) : who[q] = who[p] /\ rank[q] = n
    <3>1. who[p] \in DOMAIN found /\ rank[p] \in Nat /\ rank[p] \in 1..Len(found[who[p]].hits)
      BY <1>17, <1>20
    <3>2. n \in 1..Len(found[who[p]].hits) /\ n < rank[p]
      BY <1>1, <3>1
    <3> QED BY <1>19, <3>1, <3>2, ZenonT(60)
  <2> QED BY <1>17, <2>2, <2>3, <2>4, <2>5 DEF Lined
<1>22. ASSUME NEW i \in DOMAIN found, NEW n \in 1..Len(found[i].hits), ~Has(R, who, rank, i, n) PROVE Len(R) = k
  <2>1. PICK q \in 1..Len(F) : at(q) = i /\ blk[q] = n
    BY <1>13
  <2>2. q \notin 1..Len(R)
    BY <1>16, <1>22, <2>1 DEF Has
  <2> QED BY <1>11, <2>2
<1>23. Answered(R, found, who, rank) /\ LeavesOut(R, found, who, rank, k) /\ EvenlyTaken(R, found, who, rank)
  BY <1>18, <1>19, <1>21, <1>22 DEF Answered, LeavesOut, EvenlyTaken
<1> QED BY <1>10, <1>11, <1>23

-----------------------------------------------------------------------------
(* Sums of sums.                                                            *)

\* A sequence of numbers that are all 0.
LEMMA SummedZeros ==
  ASSUME NEW ns \in Seq(Nat), \A i \in 1..Len(ns) : ns[i] = 0
  PROVE  Summed(ns) = 0
<1>1. PICK g \in [0..Len(ns) -> Nat] : g[0] = 0 /\ (\A i \in 1..Len(ns) : g[i] = g[i - 1] + ns[i]) /\ Summed(ns) = g[Len(ns)]
  BY SummedInTurn
<1> DEFINE S == {i \in 0..Len(ns) : g[i] = 0}
<1>2. 0 \in S /\ Len(ns) \in Nat
  BY <1>1
<1>3. ASSUME NEW i \in 1..Len(ns), i - 1 \in S PROVE i \in S
  BY <1>1, <1>3
<1>4. Len(ns) \in S
  <2> HIDE DEF S
  <2>1. \A i \in 0..Len(ns) : i \in S
    BY <1>2, <1>3, CountingUp
  <2> QED BY <1>2, <2>1
<1> QED BY <1>1, <1>4

\* What sequences put together count for is the sum of what each does.
SumsOf(f, ss) == [i \in DOMAIN ss |-> Summed(Measured(f, ss[i]))]

\* Sums of two sequences put together add up.
LEMMA MeasuredConcat ==
  ASSUME NEW T, NEW f \in [T -> Nat], NEW s \in Seq(T), NEW t \in Seq(T)
  PROVE  Summed(Measured(f, s \o t)) = Summed(Measured(f, s)) + Summed(Measured(f, t))
<1>0. \A u \in Seq(T), x \in T : s \o Append(u, x) = Append(s \o u, x)
  <2> TAKE u \in Seq(T), x \in T
  <2>1. /\ s \o Append(u, x) \in Seq(T) /\ Append(s \o u, x) \in Seq(T)
        /\ Len(s \o Append(u, x)) = Len(s) + Len(u) + 1 /\ Len(Append(s \o u, x)) = Len(s) + Len(u) + 1
    OBVIOUS
  <2>2. \A i \in 1..(Len(s) + Len(u) + 1) : (s \o Append(u, x))[i] = Append(s \o u, x)[i]
    OBVIOUS
  <2> QED BY <2>1, <2>2, SeqEqual
<1> DEFINE part(i) == SubSeq(t, 1, i)
           S == {i \in 0..Len(t) : Summed(Measured(f, s \o part(i))) = Summed(Measured(f, s)) + Summed(Measured(f, part(i)))}
<1>1. Len(t) \in Nat /\ part(0) = <<>> /\ part(Len(t)) = t
  OBVIOUS
<1>2. \A u \in Seq(T) : Summed(Measured(f, u)) \in Nat
  <2> TAKE u \in Seq(T)
  <2>1. Measured(f, u) \in Seq(Nat)
    BY DEF Measured
  <2> QED BY <2>1, SummedNumbers
<1>3. 0 \in S
  <2>1. s \o <<>> = s /\ Measured(f, <<>>) = <<>>
    BY DEF Measured
  <2>2. Summed(Measured(f, s \o <<>>)) = Summed(Measured(f, s)) + Summed(Measured(f, <<>>))
    BY <1>2, <2>1, SummedNothing
  <2> HIDE DEF part
  <2>3. Summed(Measured(f, s \o part(0))) = Summed(Measured(f, s)) + Summed(Measured(f, part(0)))
    BY <1>1, <2>1, <2>2
  <2> QED BY <1>1, <2>3
<1>4. ASSUME NEW i \in 1..Len(t), i - 1 \in S PROVE i \in S
  <2>1. part(i - 1) \in Seq(T) /\ part(i) = Append(part(i - 1), t[i]) /\ t[i] \in T
    BY PrefixGrowsBy
  <2>2. Summed(Measured(f, s \o part(i - 1))) = Summed(Measured(f, s)) + Summed(Measured(f, part(i - 1)))
    BY <1>4
  <2> HIDE DEF part
  <2>3. s \o part(i) = Append(s \o part(i - 1), t[i]) /\ s \o part(i - 1) \in Seq(T)
    <3>1. PICK u \in Seq(T), x \in T : u = part(i - 1) /\ x = t[i]
      BY <2>1
    <3>2. s \o Append(u, x) = Append(s \o u, x) /\ s \o u \in Seq(T)
      <4>1. s \o Append(u, x) = Append(s \o u, x)
        BY ONLY <1>0
      <4>2. s \o u \in Seq(T)
        OBVIOUS
      <4> QED BY <4>1, <4>2
    <3> QED BY <2>1, <3>1, <3>2
  <2>4. Summed(Measured(f, s \o part(i))) = Summed(Measured(f, s \o part(i - 1))) + f[t[i]]
    BY <2>1, <2>3, SummedMeasured
  <2>5. Summed(Measured(f, part(i))) = Summed(Measured(f, part(i - 1))) + f[t[i]]
    BY <2>1, SummedMeasured
  <2>6. f[t[i]] \in Nat
    BY <2>1
  <2>7. Summed(Measured(f, s \o part(i))) = Summed(Measured(f, s)) + Summed(Measured(f, part(i)))
    BY <1>2, <2>1, <2>2, <2>4, <2>5, <2>6
  <2> QED BY <2>7
<1>5. Len(t) \in S
  <2> HIDE DEF S
  <2>1. \A i \in 0..Len(t) : i \in S
    BY <1>1, <1>3, <1>4, CountingUp
  <2> QED BY <1>1, <2>1
<1> QED BY <1>1, <1>5

\* The sum over a flat sequence is the sum of the sums of its blocks.
LEMMA SummedFlattened ==
  ASSUME NEW T, NEW f \in [T -> Nat], NEW ss \in Seq(Seq(T))
  PROVE  SumsOf(f, ss) \in Seq(Nat) /\ Summed(Measured(f, FlattenSeq(ss))) = Summed(SumsOf(f, ss))
<1> DEFINE part(i) == SubSeq(ss, 1, i)
           S == {i \in 0..Len(ss) : Summed(Measured(f, FlattenSeq(part(i)))) = Summed(SumsOf(f, part(i)))}
<1>1. Len(ss) \in Nat /\ part(0) = <<>> /\ part(Len(ss)) = ss
  OBVIOUS
<1>2. \A u \in Seq(T) : Summed(Measured(f, u)) \in Nat
  <2> TAKE u \in Seq(T)
  <2>1. Measured(f, u) \in Seq(Nat)
    BY DEF Measured
  <2> QED BY <2>1, SummedNumbers
<1>3. \A tt \in Seq(Seq(T)) : SumsOf(f, tt) \in Seq(Nat)
  BY <1>2 DEF SumsOf
<1>4. 0 \in S
  <2>1. Measured(f, <<>>) = <<>> /\ SumsOf(f, <<>>) = <<>>
    BY DEF Measured, SumsOf
  <2> HIDE DEF part
  <2>2. Summed(Measured(f, FlattenSeq(part(0)))) = Summed(SumsOf(f, part(0)))
    BY <1>1, <2>1, FlattenedNothing
  <2> QED BY <2>2
<1>5. ASSUME NEW i \in 1..Len(ss), i - 1 \in S PROVE i \in S
  <2>1. part(i - 1) \in Seq(Seq(T)) /\ part(i) = Append(part(i - 1), ss[i]) /\ ss[i] \in Seq(T)
    BY PrefixGrowsBy, Zenon
  <2>2. Summed(Measured(f, FlattenSeq(part(i - 1)))) = Summed(SumsOf(f, part(i - 1)))
    BY <1>5
  <2> HIDE DEF part
  <2>3. FlattenSeq(part(i)) = FlattenSeq(part(i - 1)) \o ss[i] /\ FlattenSeq(part(i - 1)) \in Seq(T)
    BY <2>1, FlattenedAppend, FlattenedTyped
  <2>4. Summed(Measured(f, FlattenSeq(part(i)))) = Summed(Measured(f, FlattenSeq(part(i - 1)))) + Summed(Measured(f, ss[i]))
    BY <2>1, <2>3, MeasuredConcat
  <2>5. SumsOf(f, part(i)) = Append(SumsOf(f, part(i - 1)), Summed(Measured(f, ss[i])))
    <3>1. PICK E, t, x : E = Seq(T) /\ t = part(i - 1) /\ x = ss[i]
      OBVIOUS
    <3>2. t \in Seq(E) /\ x \in E
      BY <2>1, <3>1
    <3>3. /\ Append(t, x) \in Seq(E) /\ Len(Append(t, x)) = Len(t) + 1 /\ Append(t, x)[Len(t) + 1] = x
          /\ (\A k \in 1..Len(t) : Append(t, x)[k] = t[k]) /\ Len(t) \in Nat
          /\ DOMAIN Append(t, x) = 1..(Len(t) + 1) /\ DOMAIN t = 1..Len(t)
      BY <3>2
    <3>4. SumsOf(f, t) \in Seq(Nat) /\ Len(SumsOf(f, t)) = Len(t) /\ \A k \in 1..Len(t) : SumsOf(f, t)[k] = Summed(Measured(f, t[k]))
      BY <1>3, <3>1, <3>2, <3>3 DEF SumsOf
    <3>5. PICK w \in Nat : w = Summed(Measured(f, x))
      BY <1>2, <3>1, <3>2
    <3> DEFINE a == SumsOf(f, Append(t, x))
               b == Append(SumsOf(f, t), w)
    <3>6. a \in Seq(Nat) /\ Len(a) = Len(t) + 1 /\ \A k \in 1..(Len(t) + 1) : a[k] = Summed(Measured(f, Append(t, x)[k]))
      <4>1. Append(t, x) \in Seq(Seq(T))
        BY <3>1, <3>3
      <4>2. a \in Seq(Nat)
        BY <1>3, <4>1
      <4>3. DOMAIN a = 1..(Len(t) + 1) /\ \A k \in 1..(Len(t) + 1) : a[k] = Summed(Measured(f, Append(t, x)[k]))
        BY <3>3 DEF SumsOf
      <4> HIDE DEF a
      <4> QED BY <3>3, <4>2, <4>3
    <3>7. b \in Seq(Nat) /\ Len(b) = Len(t) + 1 /\ b[Len(t) + 1] = w /\ \A k \in 1..Len(t) : b[k] = SumsOf(f, t)[k]
      BY <3>4
    <3> HIDE DEF a, b
    <3>8. ASSUME NEW k \in 1..(Len(t) + 1) PROVE a[k] = b[k]
      <4>1. k \in 1..Len(t) \/ k = Len(t) + 1
        BY <3>3
      <4> QED BY <3>3, <3>4, <3>5, <3>6, <3>7, <4>1
    <3>9. a = b
      BY <3>6, <3>7, <3>8, SeqEqual
    <3> QED BY <2>1, <3>1, <3>5, <3>9 DEF a, b
  <2>6. Summed(SumsOf(f, part(i))) = Summed(SumsOf(f, part(i - 1))) + Summed(Measured(f, ss[i]))
    BY <1>2, <1>3, <2>1, <2>5, SummedAppend
  <2>7. Summed(Measured(f, FlattenSeq(part(i)))) = Summed(SumsOf(f, part(i)))
    BY <2>2, <2>4, <2>6
  <2> QED BY <2>7
<1>6. Len(ss) \in S
  <2> HIDE DEF S
  <2>1. \A i \in 0..Len(ss) : i \in S
    BY <1>1, <1>4, <1>5, CountingUp
  <2> QED BY <1>1, <2>1
<1> QED BY <1>1, <1>3, <1>6

-----------------------------------------------------------------------------
(* Fusion.                                                                  *)

FusedSet(Labels, D) == [index : Labels, id : D, score : Nat]
SameKey(e, f) == e.index = f.index /\ e.id = f.id

\* No share is negative.
LEMMA ContributionIsNatural == \A n \in Nat \ {0} : Contribution(n) \in Nat
<1>1. RrfK \in Nat /\ RrfScale \in Nat
  BY SearchConstants
<1>2. \A a \in Nat, b \in Nat \ {0} : a \div b \in Nat
  OBVIOUS
<1>3. \A n \in Nat \ {0} : RrfK + n \in Nat \ {0}
  BY <1>1
<1> QED BY <1>1, <1>2, <1>3 DEF Contribution

\* The entry of a key, if there is one, is the one that gains.
OnlyGains(es, fs, m, gain) ==
    /\ Len(fs) = Len(es) /\ fs[m] = [es[m] EXCEPT !.score = es[m].score + gain]
    /\ \A a \in 1..Len(es) \ {m} : fs[a] = es[a]

\* Fusing adds an entry of a new key, or adds to the one that is there.
LEMMA FuseProperties ==
  ASSUME NEW Labels, NEW D, NEW es \in Seq(FusedSet(Labels, D)), NEW e \in FusedSet(Labels, D),
         \A a, b \in 1..Len(es) : SameKey(es[a], es[b]) => a = b
  PROVE  /\ Fuse(es, e) \in Seq(FusedSet(Labels, D))
         /\ (\A a \in 1..Len(es) : ~SameKey(es[a], e)) => Fuse(es, e) = Append(es, e)
         /\ \A m \in 1..Len(es) : SameKey(es[m], e) => OnlyGains(es, Fuse(es, e), m, e.score)
<1> DEFINE same == {i \in DOMAIN es : es[i].index = e.index /\ es[i].id = e.id}
<1>1. DOMAIN es = 1..Len(es) /\ Len(es) \in Nat /\ same = {i \in 1..Len(es) : SameKey(es[i], e)}
  BY DEF SameKey
<1>2. CASE \A a \in 1..Len(es) : ~SameKey(es[a], e)
  <2>1. same = {}
    BY <1>1, <1>2
  <2>2. Fuse(es, e) = Append(es, e)
    BY <2>1 DEF Fuse
  <2> QED BY <1>2, <2>2
<1>3. ASSUME NEW m \in 1..Len(es), SameKey(es[m], e)
      PROVE  /\ Fuse(es, e) \in Seq(FusedSet(Labels, D))
             /\ OnlyGains(es, Fuse(es, e), m, e.score)
  <2>1. same = {m}
    <3>1. \A a \in same : SameKey(es[a], es[m])
      BY <1>1, <1>3 DEF SameKey
    <3> QED BY <1>1, <1>3, <3>1
  <2>2. {m} \in SUBSET Nat /\ {m} # {}
    OBVIOUS
  <2>3. Min({m}) = m
    BY <2>2, LeastIn
  <2>4. Fuse(es, e) = [es EXCEPT ![m].score = @ + e.score]
    BY <2>1, <2>3 DEF Fuse
  <2>5. es[m] \in FusedSet(Labels, D) /\ es[m].score + e.score \in Nat
    <3>1. PICK y \in FusedSet(Labels, D) : y = es[m]
      OBVIOUS
    <3>2. y.score \in Nat /\ e.score \in Nat
      BY DEF FusedSet
    <3> QED BY <3>1, <3>2
  <2>6. PICK x \in FusedSet(Labels, D) : x = [es[m] EXCEPT !.score = es[m].score + e.score]
    BY <2>5 DEF FusedSet
  <2>7. Fuse(es, e) = [es EXCEPT ![m] = x]
    BY <2>4, <2>6
  <2>8. Fuse(es, e) \in Seq(FusedSet(Labels, D)) /\ Len(Fuse(es, e)) = Len(es)
    BY <2>6, <2>7
  <2>9. Fuse(es, e)[m] = x /\ \A a \in 1..Len(es) \ {m} : Fuse(es, e)[a] = es[a]
    BY <2>7
  <2> QED BY <2>6, <2>8, <2>9 DEF OnlyGains
<1> QED BY <1>2, <1>3

\* Fused entries stay entries.
LEMMA FuseTyped ==
  ASSUME NEW Labels, NEW D, NEW es \in Seq(FusedSet(Labels, D)), NEW e \in FusedSet(Labels, D)
  PROVE  Fuse(es, e) \in Seq(FusedSet(Labels, D))
<1> DEFINE same == {i \in DOMAIN es : es[i].index = e.index /\ es[i].id = e.id}
<1>1. DOMAIN es = 1..Len(es) /\ Len(es) \in Nat
  OBVIOUS
<1>2. CASE same = {}
  <2>1. Fuse(es, e) = Append(es, e)
    BY <1>2 DEF Fuse
  <2> QED BY <2>1
<1>3. CASE same # {}
  <2>1. same \in SUBSET Nat
    BY <1>1
  <2>2. PICK m : m = Min(same)
    OBVIOUS
  <2>3. m \in same
    <3> HIDE DEF same
    <3> QED BY <1>3, <2>1, <2>2, LeastIn
  <2>4. m \in 1..Len(es)
    BY <1>1, <2>3
  <2>5. Fuse(es, e) = [es EXCEPT ![m].score = @ + e.score]
    BY <1>3, <2>2 DEF Fuse
  <2>6. es[m] \in FusedSet(Labels, D) /\ es[m].score + e.score \in Nat
    <3>1. PICK y \in FusedSet(Labels, D) : y = es[m]
      BY <2>4
    <3>2. y.score \in Nat /\ e.score \in Nat
      BY DEF FusedSet
    <3> QED BY <3>1, <3>2
  <2>7. PICK x \in FusedSet(Labels, D) : x = [es[m] EXCEPT !.score = es[m].score + e.score]
    BY <2>6 DEF FusedSet
  <2>8. Fuse(es, e) = [es EXCEPT ![m] = x]
    BY <2>5, <2>7
  <2> QED BY <2>4, <2>8
<1> QED BY <1>2, <1>3

\* The fold, entry by entry.
LEMMA FusedInTurn ==
  ASSUME NEW Labels, NEW D, NEW pool \in Seq(FusedSet(Labels, D))
  PROVE  \E g \in [0..Len(pool) -> Seq(FusedSet(Labels, D))] :
            /\ g[0] = <<>> /\ \A i \in 1..Len(pool) : g[i] = Fuse(g[i - 1], pool[i])
            /\ FoldLeft(Fuse, <<>>, pool) = g[Len(pool)]
<1> DEFINE N == Len(pool)
           D0 == DOMAIN pool
           step == [p \in (1..N) \X Seq(FusedSet(Labels, D)) |-> Fuse(p[2], pool[p[1]])]
           fold[s \in SUBSET D0] == IF s = {} THEN <<>> ELSE Fuse(fold[s \ {Max(s)}], pool[Max(s)])
<1>1. N \in Nat /\ D0 = 1..N
  OBVIOUS
<1>2. PICK V : V = Seq(FusedSet(Labels, D))
  OBVIOUS
<1>3. \A i \in 1..N : pool[i] \in FusedSet(Labels, D)
  OBVIOUS
<1>4. step = [p \in (1..N) \X V |-> Fuse(p[2], pool[p[1]])]
  BY <1>2
<1>5. step \in [(1..N) \X V -> V]
  <2>1. ASSUME NEW p \in (1..N) \X V PROVE Fuse(p[2], pool[p[1]]) \in V
    <3>1. p[1] \in 1..N /\ p[2] \in Seq(FusedSet(Labels, D))
      BY <1>2
    <3> QED BY <1>2, <1>3, <3>1, FuseTyped
  <2> HIDE DEF step, N
  <2> QED BY <1>4, <2>1
<1>6. <<>> \in V
  BY <1>2
<1>7. PICK it \in [SUBSET (1..N) -> V] : Folds(it, N, <<>>, step)
  <2> HIDE DEF step, N
  <2>1. HasFold(N, V, <<>>, step)
    BY <1>1, <1>5, <1>6, FoldExists
  <2> QED BY <2>1 DEF HasFold
<1>8. \A s \in SUBSET D0 : it[s] = IF s = {} THEN <<>> ELSE Fuse(it[s \ {Max(s)}], pool[Max(s)])
  <2>1. ASSUME NEW s \in SUBSET D0, s # {}
        PROVE  step[<<Max(s), it[s \ {Max(s)}]>>] = Fuse(it[s \ {Max(s)}], pool[Max(s)])
    <3>1. PICK m : m = Max(s)
      OBVIOUS
    <3>2. m \in 1..N
      BY <1>1, <2>1, <3>1, GreatestIn
    <3>3. PICK v \in V : v = it[s \ {m}]
      BY <1>1, <1>7
    <3>4. <<m, v>> \in (1..N) \X V
      BY <3>2
    <3>5. step[<<m, v>>] = Fuse(v, pool[m])
      <4> HIDE DEF step, N
      <4> QED BY <1>4, <3>4
    <3> HIDE DEF step
    <3> QED BY <3>1, <3>3, <3>5
  <2>2. \A s \in SUBSET D0 : it[s] = IF s = {} THEN <<>> ELSE step[<<Max(s), it[s \ {Max(s)}]>>]
    BY <1>1, <1>7 DEF Folds
  <2> HIDE DEF step, D0
  <2> QED BY <2>1, <2>2
<1>9. it = [s \in SUBSET D0 |-> IF s = {} THEN <<>> ELSE Fuse(it[s \ {Max(s)}], pool[Max(s)])]
  <2> HIDE DEF D0, N
  <2> QED BY <1>1, <1>7, <1>8
<1>10. FoldLeft(Fuse, <<>>, pool) = fold[D0]
  BY DEF FoldLeft, MapThenFoldSet
<1>11. fold = [s \in SUBSET D0 |-> IF s = {} THEN <<>> ELSE Fuse(fold[s \ {Max(s)}], pool[Max(s)])]
  <2> HIDE DEF D0
  <2> QED BY <1>9
<1> HIDE DEF fold
<1> DEFINE g == [i \in 0..N |-> fold[1..i]]
<1>12. g[0] = <<>>
  <2>1. 1..0 = {} /\ {} \in SUBSET D0 /\ 0 \in 0..N
    BY <1>1
  <2> HIDE DEF D0, N
  <2> QED BY <1>11, <2>1
<1>13. ASSUME NEW i \in 1..N PROVE g[i] = Fuse(g[i - 1], pool[i])
  <2>1. 1..i \in SUBSET (1..N) /\ 1..i # {} /\ i \in 1..i /\ (1..i) \ {i} = 1..(i - 1)
    BY <1>1, UpTo
  <2>2. Max(1..i) = i
    BY <2>1, Greatest
  <2>3. fold[1..i] = Fuse(fold[(1..i) \ {Max(1..i)}], pool[Max(1..i)])
    BY <1>1, <1>11, <2>1
  <2>4. i \in 0..N /\ i - 1 \in 0..N
    BY <1>1
  <2> HIDE DEF N
  <2> QED BY <2>1, <2>2, <2>3, <2>4
<1> DEFINE S == {i \in 0..N : g[i] \in V}
<1>14. \A i \in 0..N : i \in S
  <2>1. 0 \in S
    BY <1>1, <1>6, <1>12
  <2>2. ASSUME NEW i \in 1..N, i - 1 \in S PROVE i \in S
    <3>1. g[i - 1] \in V /\ pool[i] \in FusedSet(Labels, D) /\ i \in 0..N
      BY <2>2
    <3> HIDE DEF g
    <3>2. Fuse(g[i - 1], pool[i]) \in V
      BY <1>2, <3>1, FuseTyped
    <3> QED BY <1>13, <3>1, <3>2
  <2> HIDE DEF S
  <2> QED BY <1>1, <2>1, <2>2, CountingUp
<1>15. g \in [0..N -> V]
  BY <1>14
<1>16. FoldLeft(Fuse, <<>>, pool) = g[N]
  BY <1>1, <1>10
<1> HIDE DEF g
<1> QED BY <1>2, <1>12, <1>13, <1>15, <1>16

\* What the entries of a key are worth together.
OfKey(Labels, D, g, d) == [e \in FusedSet(Labels, D) |-> IF e.index = g /\ e.id = d THEN e.score ELSE 0]
Worth(Labels, D, g, d, s) == Summed(Measured(OfKey(Labels, D, g, d), s))

\* What an entry is worth to a key.
LEMMA OfKeyTyped == \A Labels, D, g, d : OfKey(Labels, D, g, d) \in [FusedSet(Labels, D) -> Nat]
  BY DEF OfKey, FusedSet

\* One entry more is worth its score to its own key, nothing to others.
LEMMA WorthAppend ==
  ASSUME NEW Labels, NEW D, NEW s \in Seq(FusedSet(Labels, D)), NEW e \in FusedSet(Labels, D), NEW g, NEW d
  PROVE  /\ Worth(Labels, D, g, d, s) \in Nat
         /\ e.index = g /\ e.id = d => Worth(Labels, D, g, d, Append(s, e)) = Worth(Labels, D, g, d, s) + e.score
         /\ ~(e.index = g /\ e.id = d) => Worth(Labels, D, g, d, Append(s, e)) = Worth(Labels, D, g, d, s)
<1>1. PICK f \in [FusedSet(Labels, D) -> Nat] : f = OfKey(Labels, D, g, d)
  BY OfKeyTyped
<1>2. Summed(Measured(f, s)) \in Nat /\ Summed(Measured(f, Append(s, e))) = Summed(Measured(f, s)) + f[e]
  BY SummedMeasured
<1>3. f[e] = IF e.index = g /\ e.id = d THEN e.score ELSE 0
  BY <1>1 DEF OfKey
<1> QED BY <1>1, <1>2, <1>3 DEF Worth

\* A key that no entry has is worth nothing.
LEMMA WorthNone ==
  ASSUME NEW Labels, NEW D, NEW s \in Seq(FusedSet(Labels, D)), NEW g, NEW d,
         \A p \in 1..Len(s) : ~(s[p].index = g /\ s[p].id = d)
  PROVE  Worth(Labels, D, g, d, s) = 0
<1>1. PICK ns : ns = Measured(OfKey(Labels, D, g, d), s)
  OBVIOUS
<1>2. ns \in Seq(Nat) /\ Len(ns) = Len(s)
  BY <1>1, OfKeyTyped DEF Measured
<1>3. \A p \in 1..Len(s) : ns[p] = 0
  <2> TAKE p \in 1..Len(s)
  <2>1. s[p] \in FusedSet(Labels, D) /\ ns[p] = OfKey(Labels, D, g, d)[s[p]]
    BY <1>1 DEF Measured
  <2> QED BY <2>1 DEF OfKey
<1>4. Summed(ns) = 0
  BY <1>2, <1>3, SummedZeros
<1> QED BY <1>1, <1>4 DEF Worth

\* The entries of s fused: one per key, worth all that s has of it.
FusedUp(Labels, D, s, es) ==
    /\ \A a, b \in 1..Len(es) : SameKey(es[a], es[b]) => a = b
    /\ \A a \in 1..Len(es) : es[a].score = Worth(Labels, D, es[a].index, es[a].id, s)
    /\ \A a \in 1..Len(es) : \E p \in 1..Len(s) : SameKey(es[a], s[p])
    /\ \A p \in 1..Len(s) : \E a \in 1..Len(es) : SameKey(es[a], s[p])

\* Fusing one entry more keeps the entries fused up.
LEMMA FusedUpAppend ==
  ASSUME NEW Labels, NEW D, NEW s \in Seq(FusedSet(Labels, D)), NEW es \in Seq(FusedSet(Labels, D)), NEW e \in FusedSet(Labels, D),
         FusedUp(Labels, D, s, es)
  PROVE  FusedUp(Labels, D, Append(s, e), Fuse(es, e))
<1> DEFINE more == Append(s, e)
           fs == Fuse(es, e)
<1>1. \A a, b \in 1..Len(es) : SameKey(es[a], es[b]) => a = b
  BY DEF FusedUp
<1>2. /\ fs \in Seq(FusedSet(Labels, D))
      /\ (\A a \in 1..Len(es) : ~SameKey(es[a], e)) => fs = Append(es, e)
      /\ \A m \in 1..Len(es) : SameKey(es[m], e) => OnlyGains(es, fs, m, e.score)
  BY <1>1, FuseProperties
<1>3. /\ Len(more) = Len(s) + 1 /\ more[Len(s) + 1] = e /\ \A p \in 1..Len(s) : more[p] = s[p]
      /\ Len(s) \in Nat /\ Len(es) \in Nat
  OBVIOUS
<1>4. \A a \in 1..Len(es) : es[a] \in FusedSet(Labels, D)
  OBVIOUS
<1> HIDE DEF more, fs
<1>5. \A g, d : /\ Worth(Labels, D, g, d, s) \in Nat
                /\ e.index = g /\ e.id = d => Worth(Labels, D, g, d, more) = Worth(Labels, D, g, d, s) + e.score
                /\ ~(e.index = g /\ e.id = d) => Worth(Labels, D, g, d, more) = Worth(Labels, D, g, d, s)
  BY WorthAppend DEF more
<1>6. CASE \A a \in 1..Len(es) : ~SameKey(es[a], e)
  <2>1. fs = Append(es, e)
    BY <1>2, <1>6
  <2>2. Len(fs) = Len(es) + 1 /\ fs[Len(es) + 1] = e /\ \A a \in 1..Len(es) : fs[a] = es[a]
    BY <2>1
  <2>3. \A p \in 1..Len(s) : ~SameKey(s[p], e)
    BY <1>6 DEF FusedUp, SameKey
  <2>4. Worth(Labels, D, e.index, e.id, s) = 0
    BY <2>3, WorthNone DEF SameKey
  <2>5. e.score \in Nat
    BY DEF FusedSet
  <2>6. \A a \in 1..Len(fs) : a \in 1..Len(es) \/ a = Len(es) + 1
    BY <1>3, <2>2
  <2>7. ASSUME NEW a \in 1..Len(fs), NEW b \in 1..Len(fs), SameKey(fs[a], fs[b]) PROVE a = b
    <3>1. \A c \in 1..Len(es) : ~SameKey(fs[c], e) /\ ~SameKey(e, fs[c])
      BY <1>6, <2>2 DEF SameKey
    <3>2. CASE a \in 1..Len(es) /\ b \in 1..Len(es)
      BY <1>1, <2>2, <2>7, <3>2
    <3>3. CASE a = Len(es) + 1 /\ b = Len(es) + 1
      BY <3>3
    <3> QED BY <2>2, <2>6, <2>7, <3>1, <3>2, <3>3
  <2>8. ASSUME NEW a \in 1..Len(fs) PROVE fs[a].score = Worth(Labels, D, fs[a].index, fs[a].id, more)
    <3>1. CASE a \in 1..Len(es)
      <4>1. fs[a] = es[a] /\ ~(e.index = es[a].index /\ e.id = es[a].id)
        BY <1>6, <2>2, <3>1 DEF SameKey
      <4>2. es[a].score = Worth(Labels, D, es[a].index, es[a].id, s)
        BY <3>1 DEF FusedUp
      <4> QED BY <1>5, <4>1, <4>2
    <3>2. CASE a = Len(es) + 1
      <4>1. Worth(Labels, D, e.index, e.id, more) = e.score
        BY <1>5, <2>4, <2>5
      <4> QED BY <2>2, <3>2, <4>1
    <3> QED BY <2>6, <3>1, <3>2
  <2>9. ASSUME NEW a \in 1..Len(fs) PROVE \E p \in 1..Len(more) : SameKey(fs[a], more[p])
    <3>1. CASE a \in 1..Len(es)
      <4>1. PICK p \in 1..Len(s) : SameKey(es[a], s[p])
        BY <3>1 DEF FusedUp
      <4>2. p \in 1..Len(more) /\ more[p] = s[p] /\ fs[a] = es[a]
        BY <1>3, <2>2, <3>1
      <4> QED BY <4>1, <4>2
    <3>2. CASE a = Len(es) + 1
      <4>1. Len(s) + 1 \in 1..Len(more) /\ SameKey(e, e)
        BY <1>3 DEF SameKey
      <4> QED BY <1>3, <2>2, <3>2, <4>1
    <3> QED BY <2>6, <3>1, <3>2
  <2>10. ASSUME NEW p \in 1..Len(more) PROVE \E a \in 1..Len(fs) : SameKey(fs[a], more[p])
    <3>1. CASE p \in 1..Len(s)
      <4>1. PICK a \in 1..Len(es) : SameKey(es[a], s[p])
        BY <3>1 DEF FusedUp
      <4>2. a \in 1..Len(fs) /\ more[p] = s[p] /\ fs[a] = es[a]
        BY <1>3, <2>2, <3>1
      <4> QED BY <4>1, <4>2
    <3>2. CASE p = Len(s) + 1
      <4>1. Len(es) + 1 \in 1..Len(fs) /\ SameKey(e, e)
        BY <1>3, <2>2 DEF SameKey
      <4> QED BY <1>3, <2>2, <3>2, <4>1
    <3>3. p \in 1..Len(s) \/ p = Len(s) + 1
      BY <1>3
    <3> QED BY <3>1, <3>2, <3>3
  <2> QED BY <2>7, <2>8, <2>9, <2>10 DEF FusedUp, more, fs
<1>7. ASSUME NEW m \in 1..Len(es), SameKey(es[m], e) PROVE FusedUp(Labels, D, Append(s, e), Fuse(es, e))
  <2>1. /\ Len(fs) = Len(es) /\ fs[m] = [es[m] EXCEPT !.score = es[m].score + e.score]
        /\ \A a \in 1..Len(es) \ {m} : fs[a] = es[a]
    BY <1>2, <1>7 DEF OnlyGains
  <2>2. /\ fs[m].index = es[m].index /\ fs[m].id = es[m].id /\ fs[m].score = es[m].score + e.score
    <3>1. PICK x \in FusedSet(Labels, D) : x = es[m]
      BY <1>4
    <3>2. fs[m] = [x EXCEPT !.score = x.score + e.score]
      BY <2>1, <3>1
    <3> QED BY <3>1, <3>2 DEF FusedSet
  <2>3. \A a \in 1..Len(es) : fs[a].index = es[a].index /\ fs[a].id = es[a].id
    BY <2>1, <2>2
  <2>4. ASSUME NEW a \in 1..Len(fs), NEW b \in 1..Len(fs), SameKey(fs[a], fs[b]) PROVE a = b
    BY <1>1, <2>1, <2>3, <2>4 DEF SameKey
  <2>5. ASSUME NEW a \in 1..Len(fs) PROVE fs[a].score = Worth(Labels, D, fs[a].index, fs[a].id, more)
    <3>0. a \in 1..Len(es) /\ es[a].score = Worth(Labels, D, es[a].index, es[a].id, s)
      BY <2>1 DEF FusedUp
    <3>1. CASE a = m
      <4>1. Worth(Labels, D, es[m].index, es[m].id, more) = Worth(Labels, D, es[m].index, es[m].id, s) + e.score
        BY <1>5, <1>7 DEF SameKey
      <4> QED BY <2>2, <3>0, <3>1, <4>1
    <3>2. CASE a # m
      <4>1. ~(e.index = es[a].index /\ e.id = es[a].id)
        BY <1>1, <1>7, <3>0, <3>2 DEF SameKey
      <4>2. fs[a] = es[a]
        BY <2>1, <3>0, <3>2
      <4> QED BY <1>5, <3>0, <4>1, <4>2
    <3> QED BY <3>1, <3>2
  <2>6. ASSUME NEW a \in 1..Len(fs) PROVE \E p \in 1..Len(more) : SameKey(fs[a], more[p])
    <3>1. a \in 1..Len(es)
      BY <2>1
    <3>2. PICK p \in 1..Len(s) : SameKey(es[a], s[p])
      BY <3>1 DEF FusedUp
    <3>3. p \in 1..Len(more) /\ more[p] = s[p]
      BY <1>3
    <3> QED BY <2>3, <3>1, <3>2, <3>3 DEF SameKey
  <2>7. ASSUME NEW p \in 1..Len(more) PROVE \E a \in 1..Len(fs) : SameKey(fs[a], more[p])
    <3>1. CASE p \in 1..Len(s)
      <4>1. PICK a \in 1..Len(es) : SameKey(es[a], s[p])
        BY <3>1 DEF FusedUp
      <4> QED BY <1>3, <2>1, <2>3, <3>1, <4>1 DEF SameKey
    <3>2. CASE p = Len(s) + 1
      BY <1>3, <1>7, <2>1, <2>3, <3>2 DEF SameKey
    <3>3. p \in 1..Len(s) \/ p = Len(s) + 1
      BY <1>3
    <3> QED BY <3>1, <3>2, <3>3
  <2> QED BY <2>4, <2>5, <2>6, <2>7 DEF FusedUp, more, fs
<1> QED BY <1>6, <1>7 DEF more, fs

\* What is left when all entries are fused.
LEMMA FusedWhole ==
  ASSUME NEW Labels, NEW D, NEW pool \in Seq(FusedSet(Labels, D))
  PROVE  /\ FoldLeft(Fuse, <<>>, pool) \in Seq(FusedSet(Labels, D))
         /\ FusedUp(Labels, D, pool, FoldLeft(Fuse, <<>>, pool))
<1>1. PICK g \in [0..Len(pool) -> Seq(FusedSet(Labels, D))] :
            /\ g[0] = <<>> /\ \A i \in 1..Len(pool) : g[i] = Fuse(g[i - 1], pool[i])
            /\ FoldLeft(Fuse, <<>>, pool) = g[Len(pool)]
  BY FusedInTurn
<1> DEFINE part(i) == SubSeq(pool, 1, i)
           S == {i \in 0..Len(pool) : FusedUp(Labels, D, part(i), g[i])}
<1>2. Len(pool) \in Nat /\ part(0) = <<>> /\ part(Len(pool)) = pool
  OBVIOUS
<1>3. 0 \in S
  <2>1. FusedUp(Labels, D, <<>>, <<>>)
    BY DEF FusedUp
  <2> HIDE DEF part
  <2>2. FusedUp(Labels, D, part(0), g[0])
    BY <1>1, <1>2, <2>1
  <2> QED BY <1>2, <2>2
<1>4. ASSUME NEW i \in 1..Len(pool), i - 1 \in S PROVE i \in S
  <2>1. part(i - 1) \in Seq(FusedSet(Labels, D)) /\ part(i) = Append(part(i - 1), pool[i]) /\ pool[i] \in FusedSet(Labels, D)
    BY PrefixGrowsBy
  <2>2. FusedUp(Labels, D, part(i - 1), g[i - 1]) /\ i - 1 \in 0..Len(pool)
    BY <1>4
  <2> HIDE DEF part
  <2>3. g[i - 1] \in Seq(FusedSet(Labels, D)) /\ g[i] = Fuse(g[i - 1], pool[i])
    BY <1>1, <2>2
  <2>4. FusedUp(Labels, D, part(i), g[i])
    BY <2>1, <2>2, <2>3, FusedUpAppend
  <2> QED BY <2>4
<1>5. Len(pool) \in S
  <2> HIDE DEF S
  <2>1. \A i \in 0..Len(pool) : i \in S
    BY <1>2, <1>3, <1>4, CountingUp
  <2> QED BY <1>2, <2>1
<1>6. FusedUp(Labels, D, part(Len(pool)), g[Len(pool)]) /\ Len(pool) \in 0..Len(pool)
  BY <1>5
<1> HIDE DEF part
<1> QED BY <1>1, <1>2, <1>6

SharesIn(f, d) == [n \in DOMAIN f.hits |-> IF f.hits[n].id = d THEN Contribution(n) ELSE 0]
ShareOf(f, g, d) == IF f.group = g THEN Summed(SharesIn(f, d)) ELSE 0
Weight(found, g, d) == Summed([i \in DOMAIN found |-> ShareOf(found[i], g, d)])
KnownTo(found, g, d) ==
    \E i \in DOMAIN found : \E n \in 1..Len(found[i].hits) : found[i].group = g /\ found[i].hits[n].id = d
AllRanked(found) == [i \in DOMAIN found |-> Ranked(found[i])]

\* The ranked entries of an index are its hits with their shares.
LEMMA RankedProperties ==
  ASSUME NEW Labels, NEW D, NEW f \in FindingSet(Labels, D)
  PROVE  /\ Ranked(f) \in Seq(FusedSet(Labels, D)) /\ Len(Ranked(f)) = Len(f.hits) /\ Len(f.hits) \in Nat
         /\ DOMAIN f.hits = 1..Len(f.hits)
         /\ \A n \in 1..Len(f.hits) :
                Ranked(f)[n].index = f.group /\ Ranked(f)[n].id = f.hits[n].id /\ Ranked(f)[n].score = Contribution(n)
<1>1. f.group \in Labels /\ f.hits \in Seq(HitSet(D))
  BY DEF FindingSet
<1>2. PICK h \in Seq(HitSet(D)) : h = f.hits
  BY <1>1
<1>3. \A n \in 1..Len(h) : h[n].id \in D /\ Contribution(n) \in Nat
  <2>1. \A n \in 1..Len(h) : h[n] \in HitSet(D) /\ n \in Nat \ {0}
    OBVIOUS
  <2> QED BY <2>1, ContributionIsNatural DEF HitSet
<1>4. \A n \in 1..Len(h) : [index |-> f.group, id |-> h[n].id, score |-> Contribution(n)] \in FusedSet(Labels, D)
  BY <1>1, <1>3 DEF FusedSet
<1>5. Ranked(f) = [n \in 1..Len(h) |-> [index |-> f.group, id |-> h[n].id, score |-> Contribution(n)]] /\ Len(h) \in Nat
  BY <1>2 DEF Ranked
<1>6. Ranked(f) \in Seq(FusedSet(Labels, D)) /\ Len(Ranked(f)) = Len(h)
  BY <1>4, <1>5
<1>7. DOMAIN h = 1..Len(h)
  OBVIOUS
<1> QED BY <1>2, <1>5, <1>6, <1>7

\* What one index gives to a key.
LEMMA RankedWorth ==
  ASSUME NEW Labels, NEW D, NEW f \in FindingSet(Labels, D), NEW g, NEW d
  PROVE  Worth(Labels, D, g, d, Ranked(f)) = ShareOf(f, g, d)
<1>1. /\ Ranked(f) \in Seq(FusedSet(Labels, D)) /\ Len(Ranked(f)) = Len(f.hits) /\ Len(f.hits) \in Nat
      /\ DOMAIN f.hits = 1..Len(f.hits)
      /\ \A n \in 1..Len(f.hits) :
             Ranked(f)[n].index = f.group /\ Ranked(f)[n].id = f.hits[n].id /\ Ranked(f)[n].score = Contribution(n)
  BY RankedProperties
<1>2. PICK s \in Seq(FusedSet(Labels, D)) : s = Ranked(f)
  BY <1>1
<1>3. CASE f.group # g
  <2>1. \A n \in 1..Len(s) : ~(s[n].index = g /\ s[n].id = d)
    BY <1>1, <1>2, <1>3
  <2> QED BY <1>2, <1>3, <2>1, WorthNone DEF ShareOf
<1>4. CASE f.group = g
  <2>1. PICK ns : ns = Measured(OfKey(Labels, D, g, d), s)
    OBVIOUS
  <2>2. ns \in Seq(Nat) /\ Len(ns) = Len(s)
    BY <2>1, OfKeyTyped DEF Measured
  <2>3. PICK ms : ms = SharesIn(f, d)
    OBVIOUS
  <2>4. ms \in Seq(Nat) /\ Len(ms) = Len(s)
    <3>1. \A n \in 1..Len(s) : Contribution(n) \in Nat
      BY ContributionIsNatural
    <3>2. ms = [n \in 1..Len(s) |-> IF f.hits[n].id = d THEN Contribution(n) ELSE 0] /\ Len(s) \in Nat
      BY <1>1, <1>2, <2>3 DEF SharesIn
    <3> QED BY <3>1, <3>2
  <2>5. ASSUME NEW n \in 1..Len(s) PROVE ns[n] = ms[n]
    <3>1. s[n] \in FusedSet(Labels, D) /\ ns[n] = OfKey(Labels, D, g, d)[s[n]]
      BY <2>1 DEF Measured
    <3>2. ns[n] = IF s[n].index = g /\ s[n].id = d THEN s[n].score ELSE 0
      BY <3>1 DEF OfKey
    <3>3. ms[n] = IF f.hits[n].id = d THEN Contribution(n) ELSE 0
      BY <1>1, <1>2, <2>3 DEF SharesIn
    <3> QED BY <1>1, <1>2, <1>4, <3>2, <3>3
  <2>6. ns = ms
    BY <2>2, <2>4, <2>5, SeqEqual
  <2> QED BY <1>2, <1>4, <2>1, <2>3, <2>6 DEF Worth, ShareOf
<1> QED BY <1>3, <1>4

\* The ranked entries of all indexes.
LEMMA AllRankedTyped ==
  ASSUME NEW Labels, NEW D, NEW found \in Seq(FindingSet(Labels, D))
  PROVE  /\ AllRanked(found) \in Seq(Seq(FusedSet(Labels, D))) /\ Len(AllRanked(found)) = Len(found)
         /\ FlattenSeq(AllRanked(found)) \in Seq(FusedSet(Labels, D))
<1>1. PICK E : E = Seq(FusedSet(Labels, D))
  OBVIOUS
<1>2. \A i \in 1..Len(found) : Ranked(found[i]) \in E
  BY <1>1, RankedProperties
<1>3. AllRanked(found) = [i \in 1..Len(found) |-> Ranked(found[i])] /\ Len(found) \in Nat
  BY DEF AllRanked
<1>4. AllRanked(found) \in Seq(E) /\ Len(AllRanked(found)) = Len(found)
  BY <1>2, <1>3
<1> QED BY <1>1, <1>4, FlattenedTyped

\* All entries of a key together are worth its weight.
LEMMA FlatWorth ==
  ASSUME NEW Labels, NEW D, NEW found \in Seq(FindingSet(Labels, D)), NEW g, NEW d
  PROVE  Worth(Labels, D, g, d, FlattenSeq(AllRanked(found))) = Weight(found, g, d)
<1>1. PICK f \in [FusedSet(Labels, D) -> Nat] : f = OfKey(Labels, D, g, d)
  BY OfKeyTyped
<1>2. SumsOf(f, AllRanked(found)) \in Seq(Nat)
      /\ Summed(Measured(f, FlattenSeq(AllRanked(found)))) = Summed(SumsOf(f, AllRanked(found)))
  <2>0. PICK F : F = FusedSet(Labels, D)
    OBVIOUS
  <2>1. PICK ss \in Seq(Seq(F)) : F = FusedSet(Labels, D) /\ ss = AllRanked(found)
    BY <2>0, AllRankedTyped
  <2>2. f \in [F -> Nat]
    BY <2>1
  <2>3. SumsOf(f, ss) \in Seq(Nat) /\ Summed(Measured(f, FlattenSeq(ss))) = Summed(SumsOf(f, ss))
    BY <2>2, SummedFlattened
  <2> QED BY <2>1, <2>3
<1>3. SumsOf(f, AllRanked(found)) = [i \in DOMAIN found |-> ShareOf(found[i], g, d)]
  <2>1. ASSUME NEW i \in DOMAIN found PROVE Summed(Measured(f, Ranked(found[i]))) = ShareOf(found[i], g, d)
    <3>1. found[i] \in FindingSet(Labels, D)
      OBVIOUS
    <3> QED BY <1>1, <3>1, RankedWorth DEF Worth
  <2>2. DOMAIN AllRanked(found) = DOMAIN found /\ \A i \in DOMAIN found : AllRanked(found)[i] = Ranked(found[i])
    BY DEF AllRanked
  <2> QED BY <2>1, <2>2 DEF SumsOf
<1> QED BY <1>1, <1>2, <1>3 DEF Worth, Weight

HasKey(s, g, d) == \E p \in 1..Len(s) : s[p].index = g /\ s[p].id = d

\* The keys of the entries are those of the hits.
LEMMA FlatKeys ==
  ASSUME NEW Labels, NEW D, NEW found \in Seq(FindingSet(Labels, D)), NEW g, NEW d
  PROVE  KnownTo(found, g, d) <=> HasKey(FlattenSeq(AllRanked(found)), g, d)
<1>1. PICK flat \in Seq(FusedSet(Labels, D)), ss \in Seq(Seq(FusedSet(Labels, D))) :
        ss = AllRanked(found) /\ flat = FlattenSeq(ss) /\ Len(ss) = Len(found)
  BY AllRankedTyped
<1>2. HasPlaces(ss, flat)
  BY <1>1, FlattenedPlaces
<1>3. PICK blk \in [1..Len(flat) -> 1..Len(ss)], off \in [1..Len(flat) -> Nat] : InPlaces(ss, flat, blk, off)
  BY <1>2 DEF HasPlaces
<1>4. /\ \A p \in 1..Len(flat) : off[p] \in 1..Len(ss[blk[p]]) /\ flat[p] = ss[blk[p]][off[p]]
      /\ \A k \in 1..Len(ss) : \A o \in 1..Len(ss[k]) : \E p \in 1..Len(flat) : blk[p] = k /\ off[p] = o
  BY <1>3, Zenon DEF InPlaces
<1>5. DOMAIN found = 1..Len(found) /\ \A i \in 1..Len(found) : ss[i] = Ranked(found[i])
  BY <1>1 DEF AllRanked
<1>6. \A i \in 1..Len(found) : /\ Len(ss[i]) = Len(found[i].hits)
                               /\ \A n \in 1..Len(ss[i]) : ss[i][n].index = found[i].group /\ ss[i][n].id = found[i].hits[n].id
  <2> TAKE i \in 1..Len(found)
  <2>1. PICK f \in FindingSet(Labels, D) : f = found[i]
    OBVIOUS
  <2>2. Len(Ranked(f)) = Len(f.hits) /\ \A n \in 1..Len(f.hits) : Ranked(f)[n].index = f.group /\ Ranked(f)[n].id = f.hits[n].id
    BY RankedProperties
  <2> QED BY <1>5, <2>1, <2>2
<1>7. ASSUME KnownTo(found, g, d) PROVE \E p \in 1..Len(flat) : flat[p].index = g /\ flat[p].id = d
  <2>0. PICK i \in 1..Len(found) : \E n \in 1..Len(found[i].hits) : found[i].group = g /\ found[i].hits[n].id = d
    BY <1>5, <1>7 DEF KnownTo
  <2>1. PICK n \in 1..Len(found[i].hits) : found[i].group = g /\ found[i].hits[n].id = d
    BY <2>0
  <2>2. n \in 1..Len(ss[i]) /\ i \in 1..Len(ss) /\ ss[i][n].index = g /\ ss[i][n].id = d
    BY <1>1, <1>6, <2>1
  <2>3. PICK p \in 1..Len(flat) : blk[p] = i /\ off[p] = n
    BY <1>4, <2>2
  <2>4. flat[p] = ss[i][n]
    BY <1>4, <2>3
  <2> QED BY <2>2, <2>4
<1>8. ASSUME NEW p \in 1..Len(flat), flat[p].index = g, flat[p].id = d PROVE KnownTo(found, g, d)
  <2>0. blk[p] \in 1..Len(ss)
    BY <1>3
  <2>1. PICK i, n : i \in 1..Len(ss) /\ i = blk[p] /\ n = off[p]
    BY <2>0
  <2>2. n \in 1..Len(ss[i]) /\ flat[p] = ss[i][n]
    BY <1>4, <2>1
  <2>3. i \in DOMAIN found /\ n \in 1..Len(found[i].hits) /\ found[i].group = g /\ found[i].hits[n].id = d
    BY <1>1, <1>5, <1>6, <1>8, <2>1, <2>2
  <2> QED BY <2>3 DEF KnownTo
<1> QED BY <1>1, <1>7, <1>8 DEF HasKey

\* Fusion, in terms of what the indexes found.
FusionOf(R, found, k) ==
    /\ \A p, q \in 1..Len(R) : SameKey(R[p], R[q]) => p = q
    /\ \A p \in 1..Len(R) : KnownTo(found, R[p].index, R[p].id)
    /\ \A p \in 1..Len(R) : R[p].score = Weight(found, R[p].index, R[p].id)
    /\ \A g, d : KnownTo(found, g, d) /\ ~(\E p \in 1..Len(R) : R[p].index = g /\ R[p].id = d) =>
            Len(R) = k /\ \A p \in 1..Len(R) : R[p].score >= Weight(found, g, d)

\* By fusion: every key once with its weight, the best k.
LEMMA RrfAnswers ==
  ASSUME NEW Labels, NEW D, NEW found \in Seq(FindingSet(Labels, D)), NEW k \in Nat
  PROVE  LET R == MergeRrf(found, k)
         IN  R \in Seq(FusedSet(Labels, D)) /\ Len(R) <= k /\ DescendingScores(R) /\ FusionOf(R, found, k)
<1>1. PICK flat \in Seq(FusedSet(Labels, D)) : flat = FlattenSeq(AllRanked(found))
  BY AllRankedTyped
<1>2. PICK es \in Seq(FusedSet(Labels, D)) : es = FoldLeft(Fuse, <<>>, flat) /\ FusedUp(Labels, D, flat, es)
  BY FusedWhole
<1>3. MergeRrf(found, k) = Top(Sorted(es), k)
  BY <1>1, <1>2 DEF MergeRrf, AllRanked
<1>4. Len(es) \in Nat /\ \A a \in 1..Len(es) : es[a].score \in Int
  <2>1. \A a \in 1..Len(es) : es[a] \in FusedSet(Labels, D)
    OBVIOUS
  <2> QED BY <2>1 DEF FusedSet
<1>5. PICK order \in [1..Len(es) -> 1..Len(es)] : SortedBy(es, order)
  BY <1>4, SortedPlaces
<1>6. PICK s \in Seq(FusedSet(Labels, D)) : s = Sorted(es) /\ Len(s) = Len(es)
  BY <1>4, SortedPlaces
<1>7. PICK R \in Seq(FusedSet(Labels, D)) : R = MergeRrf(found, k)
  BY <1>3, <1>6, TopProperties
<1>8. /\ Len(R) \in Nat /\ Len(R) <= k /\ Len(R) <= Len(es) /\ (Len(R) = k \/ Len(R) = Len(es))
      /\ \A p \in 1..Len(R) : R[p] = s[p]
  BY <1>3, <1>6, <1>7, TopProperties
<1>9. \A p \in 1..Len(es) : order[p] \in 1..Len(es) /\ s[p] = es[order[p]]
  BY <1>5, <1>6 DEF SortedBy
<1>10. \A p \in 1..Len(R) : p \in 1..Len(es) /\ order[p] \in 1..Len(es) /\ R[p] = es[order[p]]
  <2> TAKE p \in 1..Len(R)
  <2>1. p \in 1..Len(es)
    <3>1. PICK a \in Nat, b \in Nat : a = Len(R) /\ b = Len(es) /\ a <= b
      BY <1>4, <1>8
    <3> QED BY <3>1
  <2> QED BY <1>8, <1>9, <2>1
<1>11. \A p, q \in 1..Len(es) : p < q => order[p] # order[q] /\ es[order[p]].score >= es[order[q]].score
  <2>1. \A p, q \in 1..Len(es) : p < q => Before(es, order[p], order[q])
    BY <1>5 DEF SortedBy
  <2>2. \A a, b \in 1..Len(es) : Before(es, a, b) => a # b /\ es[a].score >= es[b].score
    BY <1>4, BeforeIsAnOrder
  <2> QED BY <1>9, <2>1, <2>2
<1>12. DescendingScores(R)
  BY <1>10, <1>11 DEF DescendingScores
<1>13. ASSUME NEW p \in 1..Len(R), NEW q \in 1..Len(R), SameKey(R[p], R[q]) PROVE p = q
  <2>1. order[p] = order[q]
    BY <1>2, <1>10, <1>13 DEF FusedUp
  <2>2. ~(p < q) /\ ~(q < p)
    BY <1>10, <1>11, <2>1
  <2> QED BY <1>8, <2>2
<1>14. ASSUME NEW p \in 1..Len(R)
       PROVE  KnownTo(found, R[p].index, R[p].id) /\ R[p].score = Weight(found, R[p].index, R[p].id)
  <2>1. PICK a \in 1..Len(es) : R[p] = es[a]
    BY <1>10
  <2>2. PICK n \in 1..Len(flat) : SameKey(es[a], flat[n])
    BY <1>2 DEF FusedUp
  <2>3. KnownTo(found, es[a].index, es[a].id)
    <3>1. HasKey(flat, es[a].index, es[a].id)
      BY <2>2 DEF SameKey, HasKey
    <3> QED BY <1>1, <3>1, FlatKeys
  <2>4. es[a].score = Worth(Labels, D, es[a].index, es[a].id, flat)
    BY <1>2 DEF FusedUp
  <2>5. Worth(Labels, D, es[a].index, es[a].id, flat) = Weight(found, es[a].index, es[a].id)
    BY <1>1, FlatWorth
  <2> QED BY <2>1, <2>3, <2>4, <2>5
<1>15. ASSUME NEW g, NEW d, KnownTo(found, g, d), \A p \in 1..Len(R) : ~(R[p].index = g /\ R[p].id = d)
       PROVE  Len(R) = k /\ \A p \in 1..Len(R) : R[p].score >= Weight(found, g, d)
  <2>1. PICK n \in 1..Len(flat) : flat[n].index = g /\ flat[n].id = d
    <3>1. \E n \in 1..Len(flat) : flat[n].index = g /\ flat[n].id = d
      <4>1. KnownTo(found, g, d) <=> HasKey(flat, g, d)
        BY <1>1, FlatKeys
      <4> QED BY <1>15, <4>1 DEF HasKey
    <3> QED BY <3>1
  <2>2. PICK a \in 1..Len(es) : SameKey(es[a], flat[n])
    BY <1>2 DEF FusedUp
  <2>3. es[a].index = g /\ es[a].id = d
    BY <2>1, <2>2 DEF SameKey
  <2>4. es[a].score = Weight(found, g, d)
    <3>1. es[a].score = Worth(Labels, D, es[a].index, es[a].id, flat)
      BY <1>2 DEF FusedUp
    <3>2. Worth(Labels, D, g, d, flat) = Weight(found, g, d)
      BY <1>1, FlatWorth
    <3> QED BY <2>3, <3>1, <3>2
  <2>5. PICK q \in 1..Len(es) : order[q] = a
    BY <1>5 DEF SortedBy
  <2>6. q \notin 1..Len(R)
    BY <1>10, <1>15, <2>3, <2>5
  <2>7. Len(R) = k /\ \A p \in 1..Len(R) : p < q
    BY <1>4, <1>8, <2>6
  <2>8. \A p \in 1..Len(R) : R[p].score >= es[a].score
    BY <1>10, <1>11, <2>5, <2>7
  <2> QED BY <2>4, <2>7, <2>8
<1>16. FusionOf(R, found, k)
  BY <1>13, <1>14, <1>15 DEF FusionOf
<1> QED BY <1>7, <1>8, <1>12, <1>16

-----------------------------------------------------------------------------
(* The hits of a store.                                                     *)

\* Division by more gives no more.
LEMMA LessOfMore ==
  \A n \in Nat, a, b \in Nat \ {0} : a <= b => n \div a \in Nat /\ n \div b \in Nat /\ n \div a >= n \div b
<1> SUFFICES ASSUME NEW n \in Nat, NEW a \in Nat \ {0}, NEW b \in Nat \ {0}, a <= b
             PROVE  n \div a \in Nat /\ n \div b \in Nat /\ n \div a >= n \div b
  OBVIOUS
<1>1. PICK p \in Nat : p = n \div a /\ a * p <= n /\ n < a * (p + 1)
  OBVIOUS
<1>2. PICK q \in Nat : q = n \div b /\ b * q <= n
  OBVIOUS
<1>3. q < p + 1
  <2>1. SUFFICES ASSUME p + 1 <= q PROVE FALSE
    OBVIOUS
  <2>2. a * (p + 1) <= a * q
    <3>1. PICK c \in Nat : q = (p + 1) + c
      <4>1. q - (p + 1) \in Nat /\ q = (p + 1) + (q - (p + 1))
        BY <2>1
      <4> QED BY <4>1
    <3>2. a * q = a * (p + 1) + a * c /\ a * c \in Nat
      BY <3>1
    <3> QED BY <3>2
  <2>3. a * q <= b * q
    <3>1. PICK c \in Nat : b = a + c
      <4>1. b - a \in Nat /\ b = a + (b - a)
        OBVIOUS
      <4> QED BY <4>1
    <3>2. b * q = a * q + c * q /\ c * q \in Nat
      BY <3>1
    <3> QED BY <3>2
  <2>4. a * (p + 1) \in Nat /\ a * q \in Nat /\ b * q \in Nat
    OBVIOUS
  <2> QED BY <1>1, <1>2, <2>2, <2>3, <2>4
<1> QED BY <1>1, <1>2, <1>3

DocIds == UNION {{row.id : row \in ToSet(Corpus[c])} : c \in DOMAIN Corpus}

\* The rows a store gives are of the corpus, nearest first.
LEMMA RowsProperties ==
  ASSUME NEW req \in Requests, NEW i \in DOMAIN req.indexes
  PROVE  LET ix == req.indexes[i]
             rows == Rows(req, ix)
         IN  /\ Len(rows) \in Nat /\ DOMAIN rows = 1..Len(rows)
             /\ \A r \in 1..Len(rows) : rows[r].value \in Int /\ rows[r].id \in DocIds
             /\ ix.store = "pgvector" /\ ix.metric = "l2" => \A r \in 1..Len(rows) : rows[r].value \in Nat
             /\ ix.policy # "fts" => \A r, q \in 1..Len(rows) : r < q =>
                    IF ix.store = "cosmosdb" \/ (ix.store = "garnet" /\ ix.metric = "dot")
                    THEN rows[r].value >= rows[q].value
                    ELSE rows[r].value <= rows[q].value
<1>1. PICK ix : ix = req.indexes[i]
  OBVIOUS
<1>2. ix \in ToSet(req.indexes) /\ req.per_index \in Nat
  BY <1>1, SearchAssumption DEF ToSet
<1>3. /\ ix.limit \in Nat /\ ix.id \in DOMAIN Corpus /\ (ix.policy # "fts" => NearestFirst(ix))
      /\ (ix.store = "pgvector" /\ ix.metric = "l2" => \A row \in ToSet(Corpus[ix.id]) : row.value \in Nat)
  BY <1>2, SearchAssumption
<1>4. PICK s \in Seq(ToSet(Corpus[ix.id])) : s = Corpus[ix.id] /\ \A row \in ToSet(s) : row.value \in Int
  BY <1>3, SearchAssumption
<1>5. PICK k \in Nat : k = Limit(req, ix)
  BY <1>2, <1>3 DEF Limit
<1>6. PICK rows \in Seq(ToSet(s)) : rows = Rows(req, ix)
  BY <1>4, <1>5, TopProperties DEF Rows, Top
<1>7. /\ Len(rows) \in Nat /\ Len(rows) <= Len(s) /\ Len(s) \in Nat /\ DOMAIN rows = 1..Len(rows) /\ DOMAIN s = 1..Len(s)
      /\ \A r \in 1..Len(rows) : rows[r] = s[r]
  <2>1. rows = Top(s, k)
    BY <1>4, <1>5, <1>6 DEF Rows, Top
  <2>2. /\ Len(Top(s, k)) \in Nat /\ Len(Top(s, k)) <= Len(s)
        /\ \A r \in 1..Len(Top(s, k)) : Top(s, k)[r] = s[r]
    BY <1>4, TopProperties
  <2> QED BY <1>4, <1>6, <2>1, <2>2
<1>8. \A r \in 1..Len(rows) : r \in 1..Len(s) /\ rows[r] = s[r] /\ rows[r] \in ToSet(s)
  BY <1>6, <1>7
<1>9. \A r \in 1..Len(rows) : rows[r].value \in Int /\ rows[r].id \in DocIds
  BY <1>3, <1>4, <1>8 DEF DocIds
<1>10. ix.policy # "fts" => \A r, q \in 1..Len(rows) : r < q =>
            IF ix.store = "cosmosdb" \/ (ix.store = "garnet" /\ ix.metric = "dot")
            THEN rows[r].value >= rows[q].value
            ELSE rows[r].value <= rows[q].value
  BY <1>3, <1>4, <1>7, <1>8 DEF NearestFirst
<1>11. ix.store = "pgvector" /\ ix.metric = "l2" => \A r \in 1..Len(rows) : rows[r].value \in Nat
  BY <1>3, <1>4, <1>8
<1> QED BY <1>1, <1>6, <1>7, <1>9, <1>10, <1>11

\* hits are rows with scores that do not rise
HitsMade(rows, hits) ==
    \E sc \in [1..Len(rows) -> Int] :
        /\ \A r, q \in 1..Len(rows) : r < q => sc[r] >= sc[q]
        /\ hits = [r \in 1..Len(rows) |-> [id |-> rows[r].id, score |-> sc[r]]]

\* Whatever the store and its measure are, scores do not rise along its rows.
LEMMA HitsAreMade ==
  ASSUME NEW req \in Requests, NEW i \in DOMAIN req.indexes
  PROVE  HitsMade(Rows(req, req.indexes[i]), StoreHits(req, req.indexes[i]))
<1>1. PICK ix, rows : ix = req.indexes[i] /\ rows = Rows(req, ix)
  OBVIOUS
<1>2. /\ Len(rows) \in Nat /\ DOMAIN rows = 1..Len(rows)
      /\ \A r \in 1..Len(rows) : rows[r].value \in Int /\ rows[r].id \in DocIds
      /\ ix.store = "pgvector" /\ ix.metric = "l2" => \A r \in 1..Len(rows) : rows[r].value \in Nat
      /\ ix.policy # "fts" => \A r, q \in 1..Len(rows) : r < q =>
             IF ix.store = "cosmosdb" \/ (ix.store = "garnet" /\ ix.metric = "dot")
             THEN rows[r].value >= rows[q].value
             ELSE rows[r].value <= rows[q].value
  BY <1>1, RowsProperties
<1>3. ix.store \in {"cosmosdb", "pgvector", "garnet"}
  <2>1. ix \in ToSet(req.indexes)
    BY <1>1, SearchAssumption DEF ToSet
  <2> QED BY <2>1, SearchAssumption
<1>4. PICK n \in Nat : n = Len(rows)
  BY <1>2
<1>5. PICK v \in [1..n -> Int] : n = Len(rows) /\ \A r \in 1..n : v[r] = rows[r].value
  <2>1. [r \in 1..Len(rows) |-> rows[r].value] \in [1..Len(rows) -> Int]
    BY <1>2
  <2> QED BY <1>4, <1>2, <2>1
<1>6. One \in Nat /\ One # 0
  BY SearchConstants
<1>7. PICK square \in Nat : square = One * One
  <2>1. One * One \in Nat
    BY <1>6
  <2> QED BY <2>1
<1>8. \A a \in Nat, b \in Nat \ {0} : a \div b \in Nat
  OBVIOUS
<1> DEFINE made(sc) == [r \in 1..n |-> [id |-> rows[r].id, score |-> sc[r]]]
<1>9. CASE ix.policy = "fts"
  <2> DEFINE sc == [r \in 1..n |-> 0]
  <2>1. sc \in [1..n -> Int] /\ \A r, q \in 1..n : r < q => sc[r] >= sc[q]
    OBVIOUS
  <2>2. StoreHits(req, ix) = made(sc)
    <3>1. StoreHits(req, ix) = [r \in 1..n |-> [id |-> rows[r].id, score |-> 0]]
      <4>1. StoreHits(req, ix) = FullTextHits(req, ix)
        BY <1>9 DEF StoreHits
      <4>2. DOMAIN Rows(req, ix) = 1..n /\ Rows(req, ix) = rows
        BY <1>1, <1>2, <1>5
      <4>3. FullTextHits(req, ix) = [r \in 1..n |-> [id |-> rows[r].id, score |-> 0]]
        BY <4>2 DEF FullTextHits
      <4> QED BY <4>1, <4>3
    <3>2. \A r \in 1..n : sc[r] = 0
      OBVIOUS
    <3> HIDE DEF sc
    <3> QED BY <3>1, <3>2
  <2> QED BY <1>1, <1>5, <2>1, <2>2, ZenonT(60) DEF HitsMade
<1>10. CASE ix.policy # "fts" /\ ix.store = "cosmosdb"
  <2>1. \A r, q \in 1..n : r < q => v[r] >= v[q]
    BY <1>2, <1>5, <1>10
  <2>2. StoreHits(req, ix) = made(v)
    BY <1>1, <1>2, <1>5, <1>10 DEF StoreHits, CosmosHits
  <2> QED BY <1>1, <1>5, <2>1, <2>2 DEF HitsMade
<1>11. CASE ix.policy # "fts" /\ ix.store = "pgvector"
  <2> DEFINE sc == [r \in 1..n |-> PgScore(ix.metric, v[r])]
  <2>1. \A r, q \in 1..n : r < q => v[r] <= v[q]
    BY <1>2, <1>5, <1>11
  <2>2. \A r \in 1..n : v[r] \in Int /\ (ix.metric = "l2" => v[r] \in Nat)
    BY <1>2, <1>5, <1>11
  <2>3. CASE ix.metric = "l2"
    <3>1. \A d : PgScore(ix.metric, d) = square \div (One + d)
      BY <1>7, <2>3 DEF PgScore
    <3>2. \A r \in 1..n : One + v[r] \in Nat \ {0}
      BY <1>6, <2>2, <2>3
    <3>3. \A r, q \in 1..n : r < q => One + v[r] <= One + v[q]
      BY <1>6, <2>1, <2>2
    <3>4. \A r \in 1..n : square \div (One + v[r]) \in Nat
      BY <1>8, <3>2
    <3>5. \A r, q \in 1..n : r < q => square \div (One + v[r]) >= square \div (One + v[q])
      BY <3>2, <3>3, LessOfMore
    <3>6. \A r \in 1..n : PgScore(ix.metric, v[r]) \in Int
      BY <3>1, <3>4
    <3>7. \A r, q \in 1..n : r < q => PgScore(ix.metric, v[r]) >= PgScore(ix.metric, v[q])
      BY <3>1, <3>5
    <3>8. sc \in [1..n -> Int] /\ \A r, q \in 1..n : r < q => sc[r] >= sc[q]
      BY <3>6, <3>7
    <3>9. StoreHits(req, ix) = made(sc)
      BY <1>1, <1>2, <1>5, <1>11 DEF StoreHits, PgHits
    <3> HIDE DEF sc
    <3> QED BY <1>1, <1>5, <3>8, <3>9 DEF HitsMade
  <2>4. CASE ix.metric # "l2"
    <3>1. \A d : PgScore(ix.metric, d) = IF ix.metric = "dot" THEN -d ELSE One - d
      BY <2>4 DEF PgScore
    <3>2. \A r \in 1..n : PgScore(ix.metric, v[r]) \in Int
      BY <1>6, <2>2, <3>1
    <3>3. \A r, q \in 1..n : r < q => PgScore(ix.metric, v[r]) >= PgScore(ix.metric, v[q])
      BY <1>6, <2>1, <2>2, <3>1
    <3>8. sc \in [1..n -> Int] /\ \A r, q \in 1..n : r < q => sc[r] >= sc[q]
      BY <3>2, <3>3
    <3>9. StoreHits(req, ix) = made(sc)
      BY <1>1, <1>2, <1>5, <1>11 DEF StoreHits, PgHits
    <3> HIDE DEF sc
    <3> QED BY <1>1, <1>5, <3>8, <3>9 DEF HitsMade
  <2> QED BY <2>3, <2>4
<1>12. CASE ix.policy # "fts" /\ ix.store = "garnet"
  <2> DEFINE sc == [r \in 1..n |-> GarnetScore(ix.metric, v[r])]
  <2>2. \A r \in 1..n : v[r] \in Int
    BY <1>5
  <2>9. StoreHits(req, ix) = made(sc)
    BY <1>1, <1>2, <1>5, <1>12 DEF StoreHits, GarnetHits
  <2>3. CASE ix.metric = "dot"
    <3>1. \A r \in 1..n : GarnetScore(ix.metric, v[r]) = v[r]
      BY <2>3 DEF GarnetScore
    <3>2. \A r, q \in 1..n : r < q => v[r] >= v[q]
      BY <1>2, <1>5, <1>12, <2>3
    <3>3. sc \in [1..n -> Int] /\ \A r, q \in 1..n : r < q => sc[r] >= sc[q]
      BY <2>2, <3>1, <3>2
    <3> HIDE DEF sc
    <3> QED BY <1>1, <1>5, <2>9, <3>3 DEF HitsMade
  <2>4. CASE ix.metric = "l2"
    <3>0. \A r, q \in 1..n : r < q => v[r] <= v[q]
      BY <1>2, <1>5, <1>12, <2>4
    <3>1. \A d : GarnetScore(ix.metric, d) = square \div (One + Max({0, d}))
      BY <1>7, <2>4 DEF GarnetScore
    <3>2. ASSUME NEW d \in Int PROVE Max({0, d}) = IF d > 0 THEN d ELSE 0
      <4>1. PICK m \in {0, d} : m >= 0 /\ m >= d /\ m = IF d > 0 THEN d ELSE 0
        OBVIOUS
      <4>2. \A y \in {0, d} : (\A z \in {0, d} : y >= z) => y = m
        BY <4>1
      <4>3. \A z \in {0, d} : m >= z
        BY <4>1
      <4> QED BY <4>1, <4>2, <4>3 DEF Max
    <3>3. PICK w \in [1..n -> Nat] : \A r \in 1..n : w[r] = IF v[r] > 0 THEN v[r] ELSE 0
      <4>1. [r \in 1..n |-> IF v[r] > 0 THEN v[r] ELSE 0] \in [1..n -> Nat]
        BY <2>2
      <4> QED BY <4>1
    <3>4. \A r \in 1..n : GarnetScore(ix.metric, v[r]) = square \div (One + w[r])
      <4> TAKE r \in 1..n
      <4>1. PICK d \in Int : d = v[r]
        BY <2>2
      <4>2. w[r] = Max({0, d})
        BY <3>2, <3>3, <4>1
      <4> QED BY <3>1, <4>1, <4>2
    <3>5. \A r \in 1..n : One + w[r] \in Nat \ {0} /\ w[r] \in Nat
      BY <1>6, <3>3
    <3>6. \A r, q \in 1..n : r < q => One + w[r] <= One + w[q]
      BY <1>6, <2>2, <3>0, <3>3, SMTT(40)
    <3>7. \A r \in 1..n : square \div (One + w[r]) \in Int
      <4>1. \A r \in 1..n : square \div (One + w[r]) \in Nat
        BY <1>8, <3>5
      <4> QED BY <4>1
    <3>8. \A r, q \in 1..n : r < q => square \div (One + w[r]) >= square \div (One + w[q])
      BY <3>5, <3>6, LessOfMore
    <3>9. \A r \in 1..n : sc[r] = square \div (One + w[r])
      BY <3>4
    <3>10. sc \in [1..n -> Int]
      BY <3>4, <3>7
    <3> HIDE DEF sc
    <3>11. \A r, q \in 1..n : r < q => sc[r] >= sc[q]
      BY <3>8, <3>9
    <3> QED BY <1>1, <1>5, <2>9, <3>10, <3>11, ZenonT(60) DEF HitsMade
  <2>5. CASE ix.metric \notin {"dot", "l2"}
    <3>0. \A r, q \in 1..n : r < q => v[r] <= v[q]
      BY <1>2, <1>5, <1>12, <2>5
    <3>1. \A r \in 1..n : GarnetScore(ix.metric, v[r]) = One - v[r]
      BY <2>5 DEF GarnetScore
    <3>2. \A r \in 1..n : sc[r] = One - v[r] /\ One - v[r] \in Int
      BY <1>6, <2>2, <3>1
    <3>3. sc \in [1..n -> Int]
      BY <3>1, <3>2
    <3> HIDE DEF sc
    <3>4. \A r, q \in 1..n : r < q => sc[r] >= sc[q]
      BY <1>6, <2>2, <3>0, <3>2
    <3> QED BY <1>1, <1>5, <2>9, <3>3, <3>4 DEF HitsMade
  <2> QED BY <2>3, <2>4, <2>5
<1> QED BY <1>3, <1>9, <1>10, <1>11, <1>12

\* What the merge needs to know of the hits of a store.
LEMMA StoreHitsProperties ==
  ASSUME NEW req \in Requests, NEW i \in DOMAIN req.indexes
  PROVE  /\ StoreHits(req, req.indexes[i]) \in Seq(HitSet(DocIds))
         /\ DescendingScores(StoreHits(req, req.indexes[i]))
<1>1. PICK rows, hits : rows = Rows(req, req.indexes[i]) /\ hits = StoreHits(req, req.indexes[i])
  OBVIOUS
<1>2. PICK n \in Nat : n = Len(rows) /\ \A r \in 1..n : rows[r].id \in DocIds
  BY <1>1, RowsProperties
<1>3. PICK sc \in [1..n -> Int] :
        /\ \A r, q \in 1..n : r < q => sc[r] >= sc[q]
        /\ hits = [r \in 1..n |-> [id |-> rows[r].id, score |-> sc[r]]]
  <2>1. HitsMade(rows, hits)
    BY <1>1, HitsAreMade
  <2> QED BY <1>2, <2>1 DEF HitsMade
<1>4. \A r \in 1..n : [id |-> rows[r].id, score |-> sc[r]] \in HitSet(DocIds)
  BY <1>2, <1>3 DEF HitSet
<1>5. hits \in Seq(HitSet(DocIds)) /\ Len(hits) = n
  BY <1>2, <1>3, <1>4
<1>6. \A r \in 1..n : hits[r].score = sc[r]
  BY <1>3
<1>7. DescendingScores(hits)
  BY <1>3, <1>5, <1>6 DEF DescendingScores
<1> QED BY <1>1, <1>5, <1>7

-----------------------------------------------------------------------------
(* The response.                                                            *)

\* what merging is given: of each index that did not fail the hits of its
\* store, of the others none
Mirrors(r, found) ==
    /\ DOMAIN found = DOMAIN r.req.indexes
    /\ \A i, j \in DOMAIN found : found[i].id = found[j].id => i = j
    /\ \A i \in DOMAIN found : found[i].id = r.req.indexes[i].id /\ found[i].group = r.req.indexes[i].group
    /\ \A i \in DOMAIN found : IF i \in Returned(r) THEN found[i].hits = HitsOf(r, i) ELSE found[i].hits = <<>>
    /\ \A i \in DOMAIN found : Len(found[i].hits) \in Nat /\ DOMAIN found[i].hits = 1..Len(found[i].hits)
    /\ Len(r.results) \in Nat /\ DOMAIN r.results = 1..Len(r.results)

OneIsLeftOut(r, found, who, rank) ==
    \E i \in DOMAIN found : \E n \in 1..Len(found[i].hits) : ~Has(r.results, who, rank, i, n)

\* how many are listed
ListedBy(r, who, rank, i, p) ==
    /\ Listed(r, i, p) \in Nat
    /\ \A q \in 1..p : who[q] = i => rank[q] \in 1..Listed(r, i, p)
    /\ \A n \in 1..Listed(r, i, p) : \E q \in 1..p : who[q] = i /\ rank[q] = n

\* The count of the response is the last rank.
LEMMA ListedCount ==
  ASSUME NEW r, NEW found, Mirrors(r, found), NEW who, NEW rank, Answered(r.results, found, who, rank),
         NEW i \in DOMAIN found, NEW p \in 0..Len(r.results)
  PROVE  ListedBy(r, who, rank, i, p)
<1>1. PICK R, ids : R = r.results /\ ids = IdsOfFound(found)
  OBVIOUS
<1>2. DOMAIN ids = DOMAIN found /\ \A j \in DOMAIN found : ids[j] = found[j].id /\ ids[j] = r.req.indexes[j].id
  BY <1>1 DEF IdsOfFound, Mirrors
<1>3. \A j, l \in DOMAIN ids : ids[j] = ids[l] => j = l
  BY <1>2 DEF Mirrors
<1>4. Len(R) \in Nat /\ Lined(R, ids, who, rank)
  BY <1>1 DEF Mirrors, Answered
<1>5. CountedUp(R, ids, who, rank, i, p)
  BY <1>1, <1>2, <1>3, <1>4, LinedCount
<1>6. Listed(r, i, p) = Cardinality(OfIndex(R, ids[i], p))
  BY <1>1, <1>2 DEF Listed, OfIndex
<1> QED BY <1>5, <1>6 DEF CountedUp, ListedBy

\* At a result, the count of its index is its rank.
LEMMA ListedRank ==
  ASSUME NEW r, NEW found, Mirrors(r, found), NEW who, NEW rank, Answered(r.results, found, who, rank),
         NEW p \in 1..Len(r.results)
  PROVE  who[p] \in DOMAIN found /\ Listed(r, who[p], p) = rank[p] /\ rank[p] \in 1..Len(found[who[p]].hits)
<1>1. PICK R, ids : R = r.results /\ ids = IdsOfFound(found)
  OBVIOUS
<1>2. DOMAIN ids = DOMAIN found /\ \A j \in DOMAIN found : ids[j] = found[j].id /\ ids[j] = r.req.indexes[j].id
  BY <1>1 DEF IdsOfFound, Mirrors
<1>3. \A j, l \in DOMAIN ids : ids[j] = ids[l] => j = l
  BY <1>2 DEF Mirrors
<1>4. Len(R) \in Nat /\ Lined(R, ids, who, rank)
  BY <1>1 DEF Mirrors, Answered
<1>5. Cardinality(OfIndex(R, ids[who[p]], p)) = rank[p]
  BY <1>1, <1>3, <1>4, LinedRank
<1>6. who[p] \in DOMAIN found
  BY <1>1, <1>2, <1>4 DEF Lined
<1>7. Listed(r, who[p], p) = Cardinality(OfIndex(R, ids[who[p]], p))
  BY <1>1, <1>2, <1>6 DEF Listed, OfIndex
<1>8. rank[p] \in 1..Len(found[who[p]].hits)
  BY DEF Answered, Stands
<1> QED BY <1>5, <1>6, <1>7, <1>8

\* what is listed of an index that failed: nothing
LEMMA HitsReturned ==
  ASSUME NEW r, NEW found, Mirrors(r, found), NEW i \in DOMAIN found, NEW n \in 1..Len(found[i].hits)
  PROVE  i \in Returned(r) /\ found[i].hits = HitsOf(r, i)
<1>1. i \notin Returned(r) => found[i].hits = <<>>
  BY DEF Mirrors
<1>2. found[i].hits # <<>>
  <2>1. SUFFICES ASSUME found[i].hits = <<>> PROVE FALSE
    OBVIOUS
  <2>2. Len(found[i].hits) = 0
    BY <2>1
  <2> QED BY <2>2
<1> QED BY <1>1, <1>2 DEF Mirrors

\* The hit after the last one listed is left out.
LEMMA NextNotListed ==
  ASSUME NEW r, NEW found, Mirrors(r, found), NEW who, NEW rank, Answered(r.results, found, who, rank),
         NEW i \in DOMAIN found, Listed(r, i, Len(r.results)) < Len(found[i].hits)
  PROVE  LET n == Listed(r, i, Len(r.results)) + 1
         IN  n \in 1..Len(found[i].hits) /\ ~Has(r.results, who, rank, i, n)
<1>1. PICK m : m = Len(r.results)
  OBVIOUS
<1>2. m \in 0..Len(r.results) /\ Len(found[i].hits) \in Nat
  BY <1>1 DEF Mirrors
<1>3. PICK c : c = Listed(r, i, m)
  OBVIOUS
<1>4. c \in Nat /\ \A q \in 1..m : who[q] = i => rank[q] \in 1..c
  <2>1. ListedBy(r, who, rank, i, m)
    BY <1>1, <1>2, ListedCount
  <2> QED BY <1>3, <2>1 DEF ListedBy
<1>5. c + 1 \in 1..Len(found[i].hits)
  BY <1>1, <1>2, <1>3, <1>4
<1>6. ~Has(r.results, who, rank, i, c + 1)
  <2>1. c + 1 \notin 1..c
    BY <1>4
  <2> QED BY <1>1, <1>4, <2>1 DEF Has
<1> QED BY <1>1, <1>3, <1>5, <1>6

\* Ranks in order make a response that lists the nearest hits.
LEMMA NearestOfAnswered ==
  ASSUME NEW r, NEW found, Mirrors(r, found), NEW who, NEW rank, Answered(r.results, found, who, rank),
         OneIsLeftOut(r, found, who, rank) => r.req.strategy # "per_index" /\ Len(r.results) = r.req.top_k
  PROVE  NearestListed(r)
<1>1. DOMAIN r.results = 1..Len(r.results) /\ DOMAIN found = DOMAIN r.req.indexes /\ Returned(r) \in SUBSET DOMAIN found
  BY DEF Mirrors, Returned
<1>2. ASSUME NEW p \in DOMAIN r.results
      PROVE  \E i \in Returned(r) :
                /\ r.results[p].index = r.req.indexes[i].id /\ Listed(r, i, p) \in DOMAIN HitsOf(r, i)
                /\ r.results[p].id = HitsOf(r, i)[Listed(r, i, p)].id
  <2>1. PICK i, n : i = who[p] /\ n = rank[p]
    OBVIOUS
  <2>2. i \in DOMAIN found /\ Listed(r, i, p) = n /\ n \in 1..Len(found[i].hits)
    BY <1>1, <2>1, ListedRank
  <2>3. i \in Returned(r) /\ found[i].hits = HitsOf(r, i)
    BY <2>2, HitsReturned
  <2>4. PICK e, f : e = r.results[p] /\ f = found[i]
    OBVIOUS
  <2>5. Stands(e, f, n)
    BY <1>1, <2>1, <2>4 DEF Answered
  <2>6. e.index = f.id /\ e.id = f.hits[n].id
    BY <2>5 DEF Stands
  <2>7. found[i].id = r.req.indexes[i].id /\ n \in DOMAIN found[i].hits
    BY <2>2 DEF Mirrors
  <2> QED BY <2>2, <2>3, <2>4, <2>6, <2>7
<1>3. ASSUME NEW i \in Returned(r), Listed(r, i, Len(r.results)) < Len(HitsOf(r, i))
      PROVE  r.req.strategy # "per_index" /\ Len(r.results) = r.req.top_k
  <2>1. i \in DOMAIN found /\ found[i].hits = HitsOf(r, i)
    BY <1>1 DEF Mirrors
  <2>2. OneIsLeftOut(r, found, who, rank)
    BY <1>3, <2>1, NextNotListed DEF OneIsLeftOut
  <2> QED BY <2>2
<1> QED BY <1>2, <1>3 DEF NearestListed

\* Ranks evenly taken make a response in turn.
LEMMA TurnsOfAnswered ==
  ASSUME NEW r, NEW found, Mirrors(r, found), NEW who, NEW rank, Answered(r.results, found, who, rank),
         EvenlyTaken(r.results, found, who, rank)
  PROVE  TakenInTurn(r)
<1>1. DOMAIN r.results = 1..Len(r.results) /\ DOMAIN found = DOMAIN r.req.indexes /\ Returned(r) \in SUBSET DOMAIN found
      /\ Len(r.results) \in Nat
  BY DEF Mirrors, Returned
<1>2. SUFFICES ASSUME NEW p \in DOMAIN r.results, NEW i \in Returned(r), NEW j \in Returned(r),
                      Listed(r, j, p) < Len(HitsOf(r, j)), ~(Listed(r, i, p) <= Listed(r, j, p) + 1)
               PROVE  FALSE
  BY DEF TakenInTurn
<1>3. i \in DOMAIN found /\ j \in DOMAIN found /\ found[j].hits = HitsOf(r, j) /\ p \in 0..Len(r.results)
      /\ Len(found[j].hits) \in Nat
  BY <1>1 DEF Mirrors
<1>4. PICK ci, cj : ci = Listed(r, i, p) /\ cj = Listed(r, j, p)
  OBVIOUS
<1>5. /\ ci \in Nat /\ cj \in Nat
      /\ \A n \in 1..ci : \E q \in 1..p : who[q] = i /\ rank[q] = n
      /\ \A q \in 1..p : who[q] = j => rank[q] \in 1..cj
  <2>1. ListedBy(r, who, rank, i, p) /\ ListedBy(r, who, rank, j, p)
    BY <1>3, ListedCount
  <2> QED BY <1>4, <2>1 DEF ListedBy
<1>6. ci \in 1..ci /\ cj + 1 \in 1..Len(found[j].hits) /\ cj + 1 < ci
  BY <1>2, <1>3, <1>4, <1>5
<1>7. PICK q \in 1..p : who[q] = i /\ rank[q] = ci
  BY <1>5, <1>6
<1>8. q \in 1..Len(r.results)
  BY <1>1
<1>9. PICK l \in 1..(q - 1) : who[l] = j /\ rank[l] = cj + 1
  BY <1>3, <1>6, <1>7, <1>8 DEF EvenlyTaken
<1>10. l \in 1..p
  BY <1>1
<1>11. cj + 1 \in 1..cj
  BY <1>5, <1>9, <1>10
<1> QED BY <1>5, <1>11

\* Results not worse than what is left out make a response of the best.
LEMMA BestOfAnswered ==
  ASSUME NEW r, NEW found, Mirrors(r, found), NEW who, NEW rank, Answered(r.results, found, who, rank),
         BetterThanLeftOut(r.results, found, who, rank), DescendingScores(r.results)
  PROVE  BestListed(r)
<1>1. DOMAIN r.results = 1..Len(r.results) /\ DOMAIN found = DOMAIN r.req.indexes /\ Returned(r) \in SUBSET DOMAIN found
  BY DEF Mirrors, Returned
<1>2. \A p, q \in DOMAIN r.results : p < q => r.results[p].score >= r.results[q].score
  BY <1>1 DEF DescendingScores
<1>3. ASSUME NEW i \in Returned(r), NEW p \in DOMAIN r.results, Listed(r, i, Len(r.results)) < Len(HitsOf(r, i))
      PROVE  r.results[p].score >= HitsOf(r, i)[Listed(r, i, Len(r.results)) + 1].score
  <2>1. i \in DOMAIN found /\ found[i].hits = HitsOf(r, i)
    BY <1>1 DEF Mirrors
  <2>2. PICK n : n = Listed(r, i, Len(r.results)) + 1
    OBVIOUS
  <2>3. n \in 1..Len(found[i].hits) /\ ~Has(r.results, who, rank, i, n)
    BY <1>3, <2>1, <2>2, NextNotListed
  <2>4. r.results[p].score >= found[i].hits[n].score
    BY <1>1, <2>1, <2>3 DEF BetterThanLeftOut
  <2> QED BY <2>1, <2>2, <2>4
<1> QED BY <1>2, <1>3 DEF BestListed

\* Two names of one fold.
LEMMA SumIsSummed == \A ns : SumOf(ns) = Summed(ns)
  BY DEF SumOf, Summed

\* The weight of a key is the fused score of the definition.
LEMMA WeightIsFused ==
  ASSUME NEW r, NEW found, Mirrors(r, found), NEW g, NEW d
  PROVE  Weight(found, g, d) = Fused(r, g, d)
<1>1. ASSUME NEW i \in DOMAIN found
      PROVE  ShareOf(found[i], g, d) = IF i \in Returned(r) /\ r.req.indexes[i].group = g THEN Share(r, i, d) ELSE 0
  <2>1. found[i].group = r.req.indexes[i].group
    BY DEF Mirrors
  <2>2. CASE i \in Returned(r)
    <3>1. found[i].hits = HitsOf(r, i)
      BY <2>2 DEF Mirrors
    <3>2. SharesIn(found[i], d) = [p \in DOMAIN HitsOf(r, i) |-> IF HitsOf(r, i)[p].id = d THEN Contribution(p) ELSE 0]
      BY <3>1 DEF SharesIn
    <3>3. Share(r, i, d) = Summed(SharesIn(found[i], d))
      BY <3>2, SumIsSummed DEF Share
    <3> QED BY <2>1, <2>2, <3>3 DEF ShareOf
  <2>3. CASE i \notin Returned(r)
    <3>1. found[i].hits = <<>>
      BY <2>3 DEF Mirrors
    <3>2. SharesIn(found[i], d) = <<>>
      BY <3>1 DEF SharesIn
    <3> QED BY <2>3, <3>2, SummedNothing DEF ShareOf
  <2> QED BY <2>2, <2>3
<1>2. DOMAIN found = DOMAIN r.req.indexes
  BY DEF Mirrors
<1>3. [i \in DOMAIN found |-> ShareOf(found[i], g, d)]
        = [i \in DOMAIN r.req.indexes |->
            IF i \in Returned(r) /\ r.req.indexes[i].group = g THEN Share(r, i, d) ELSE 0]
  BY <1>1, <1>2
<1> QED BY <1>3, SumIsSummed DEF Weight, Fused

\* The keys found are those of the indexes that returned.
LEMMA KnownIsKnown ==
  ASSUME NEW r, NEW found, Mirrors(r, found)
  PROVE  /\ \A g, d : KnownTo(found, g, d) => <<g, d>> \in Known(r)
         /\ \A x \in Known(r) : \E g, d : x = <<g, d>> /\ KnownTo(found, g, d)
<1>1. DOMAIN found = DOMAIN r.req.indexes /\ Returned(r) \in SUBSET DOMAIN found
  BY DEF Mirrors, Returned
<1>2. ASSUME NEW g, NEW d, KnownTo(found, g, d) PROVE <<g, d>> \in Known(r)
  <2>1. PICK i \in DOMAIN found : \E n \in 1..Len(found[i].hits) : found[i].group = g /\ found[i].hits[n].id = d
    BY <1>2 DEF KnownTo
  <2>2. PICK n \in 1..Len(found[i].hits) : found[i].group = g /\ found[i].hits[n].id = d
    BY <2>1
  <2>3. i \in Returned(r) /\ found[i].hits = HitsOf(r, i) /\ n \in DOMAIN found[i].hits /\ found[i].group = r.req.indexes[i].group
    BY HitsReturned DEF Mirrors
  <2>4. <<g, d>> \in {<<r.req.indexes[i].group, HitsOf(r, i)[p].id>> : p \in DOMAIN HitsOf(r, i)}
    BY <2>2, <2>3
  <2> QED BY <2>3, <2>4 DEF Known
<1>3. ASSUME NEW x \in Known(r) PROVE \E g, d : x = <<g, d>> /\ KnownTo(found, g, d)
  <2>1. PICK i \in Returned(r) : x \in {<<r.req.indexes[i].group, HitsOf(r, i)[p].id>> : p \in DOMAIN HitsOf(r, i)}
    BY DEF Known
  <2>2. PICK n \in DOMAIN HitsOf(r, i) : x = <<r.req.indexes[i].group, HitsOf(r, i)[n].id>>
    BY <2>1
  <2>3. i \in DOMAIN found /\ found[i].hits = HitsOf(r, i) /\ found[i].group = r.req.indexes[i].group
        /\ DOMAIN found[i].hits = 1..Len(found[i].hits)
    BY <1>1 DEF Mirrors
  <2>4. KnownTo(found, r.req.indexes[i].group, HitsOf(r, i)[n].id)
    BY <2>2, <2>3 DEF KnownTo
  <2> QED BY <2>2, <2>4
<1> QED BY <1>2, <1>3

\* Fused entries, cut to the length asked for, make an exact response.
LEMMA FusionIsExact ==
  ASSUME NEW r, NEW found, Mirrors(r, found), FusionOf(r.results, found, r.req.top_k), DescendingScores(r.results)
  PROVE  FusionExact(r)
<1>0. PICK R : R = r.results
  OBVIOUS
<1>1. PICK n \in Nat : R = r.results /\ n = Len(R) /\ DOMAIN R = 1..n
  BY <1>0 DEF Mirrors
<1> DEFINE key(p) == <<R[p].index, R[p].id>>
           listed == {key(p) : p \in 1..n}
<1>2. \A p, q \in 1..n : key(p) = key(q) => p = q
  BY <1>1 DEF FusionOf, SameKey
<1>3. Cardinality(listed) = n
  <2> DEFINE f == [p \in 1..n |-> key(p)]
  <2>1. f \in Bijection(1..n, listed)
    BY <1>2 DEF Bijection, Injection, Surjection, IsInjective
  <2>2. ExistsBijection(1..n, listed)
    BY <2>1 DEF ExistsBijection
  <2> HIDE DEF listed
  <2> QED BY <2>2, FS_CountingElements
<1>4. listed \subseteq Known(r)
  BY <1>1, KnownIsKnown DEF FusionOf
<1>5. \A p \in 1..n : R[p].score = Fused(r, R[p].index, R[p].id)
  BY <1>1, WeightIsFused DEF FusionOf
<1>6. \A p, q \in 1..n : p < q => R[p].score >= R[q].score
  BY <1>1 DEF DescendingScores
<1>7. ASSUME NEW x \in Known(r) \ listed
      PROVE  n = r.req.top_k /\ \A p \in 1..n : R[p].score >= Fused(r, x[1], x[2])
  <2>1. PICK g, d : x = <<g, d>> /\ KnownTo(found, g, d)
    BY KnownIsKnown
  <2>2. ~(\E p \in 1..n : R[p].index = g /\ R[p].id = d)
    BY <1>7, <2>1
  <2>3. n = r.req.top_k /\ \A p \in 1..n : R[p].score >= Weight(found, g, d)
    BY <1>1, <2>1, <2>2 DEF FusionOf
  <2>4. Weight(found, g, d) = Fused(r, x[1], x[2])
    BY <2>1, WeightIsFused
  <2> QED BY <2>3, <2>4
<1>8. {<<r.results[p].index, r.results[p].id>> : p \in DOMAIN r.results} = listed
  BY <1>1
<1> HIDE DEF listed
<1> QED BY <1>1, <1>3, <1>4, <1>5, <1>6, <1>7, <1>8 DEF FusionExact

\* What is asked of a response.
Faithful(r) ==
    /\ r.req.strict => r.failed = {}
    /\ r.req.strategy # "per_index" => Len(r.results) <= r.req.top_k
    /\ IF r.req.strategy = "rrf" THEN FusionExact(r) ELSE NearestListed(r)
    /\ r.req.strategy = "round_robin" => TakenInTurn(r)
    /\ r.req.strategy = "score" => BestListed(r)

\* Merged is what was found of the indexes that did not fail.
LEMMA MergedIsFaithful ==
  ASSUME NEW Labels, NEW D, NEW found \in Seq(FindingSet(Labels, D)), NEW req \in Requests, NEW failed,
         req.strict => failed = {}, \A i \in DOMAIN found : DescendingScores(found[i].hits),
         DOMAIN found = DOMAIN req.indexes,
         \A i, j \in DOMAIN found : found[i].id = found[j].id => i = j,
         \A i \in DOMAIN found : found[i].id = req.indexes[i].id /\ found[i].group = req.indexes[i].group,
         \A i \in DOMAIN found : IF req.indexes[i].id \notin failed THEN found[i].hits = StoreHits(req, req.indexes[i])
                                 ELSE found[i].hits = <<>>
  PROVE  Faithful([code |-> 200, req |-> req, failed |-> failed, results |-> MergeHits(req.strategy, found, req.top_k)])
<1>1. PICK R : R = MergeHits(req.strategy, found, req.top_k)
  OBVIOUS
<1>2. PICK r : r = [code |-> 200, req |-> req, failed |-> failed, results |-> R]
  OBVIOUS
<1>3. r.req = req /\ r.failed = failed /\ r.results = R
  BY <1>2
<1>4. req.top_k \in Nat
  BY SearchAssumption
<1>5. \A i \in DOMAIN found : Len(found[i].hits) \in Nat /\ DOMAIN found[i].hits = 1..Len(found[i].hits)
  <2> TAKE i \in DOMAIN found
  <2>1. PICK f : f = found[i] /\ f \in FindingSet(Labels, D)
    OBVIOUS
  <2>2. f.hits \in Seq(HitSet(D))
    BY <2>1 DEF FindingSet
  <2> QED BY <2>1, <2>2
<1>6. Len(R) \in Nat /\ DOMAIN R = 1..Len(R) => Mirrors(r, found)
  BY <1>3, <1>5 DEF Mirrors, Returned, HitsOf
<1>7. \A T : R \in Seq(T) => Len(R) \in Nat /\ DOMAIN R = 1..Len(R)
  OBVIOUS
<1>8. DOMAIN found \in SUBSET Nat
  OBVIOUS
<1>9. CASE req.strategy = "per_index"
  <2>1. R = Pool(found) /\ R \in Seq(EntrySet(Labels, D))
    BY <1>1, <1>9, PoolPlaces DEF MergeHits
  <2>2. Mirrors(r, found) /\ Len(R) \in Nat
    BY <1>6, <1>7, <2>1
  <2>3. PICK blk \in [1..Len(R) -> DOMAIN found], off \in [1..Len(R) -> Nat] : Pooled(R, found, blk, off)
    BY <2>1, PoolPlaces
  <2>4. Answered(R, found, blk, off)
    BY <1>5, <1>8, <2>2, <2>3, PerIndexAnswers
  <2>5. ~OneIsLeftOut(r, found, blk, off)
    BY <1>3, <2>3 DEF OneIsLeftOut, Pooled
  <2>6. NearestListed(r)
    BY <1>3, <2>2, <2>4, <2>5, NearestOfAnswered
  <2> QED BY <1>1, <1>2, <1>3, <1>9, <2>6 DEF Faithful
<1>10. CASE req.strategy = "rrf"
  <2>1. R = MergeRrf(found, req.top_k)
    BY <1>1, <1>10 DEF MergeHits
  <2>2. R \in Seq(FusedSet(Labels, D)) /\ Len(R) <= req.top_k /\ DescendingScores(R) /\ FusionOf(R, found, req.top_k)
    BY <1>4, <2>1, RrfAnswers
  <2>3. Mirrors(r, found)
    BY <1>6, <1>7, <2>2
  <2>4. FusionExact(r)
    BY <1>3, <2>2, <2>3, FusionIsExact
  <2> QED BY <1>1, <1>2, <1>3, <1>10, <2>2, <2>4 DEF Faithful
<1>11. CASE req.strategy = "round_robin"
  <2>1. R = MergeRoundRobin(found, req.top_k)
    BY <1>1, <1>11 DEF MergeHits
  <2>2. R \in Seq(EntrySet(Labels, D)) /\ Len(R) <= req.top_k
    BY <1>4, <2>1, RoundRobinAnswers
  <2>3. PICK who, rank : Answered(R, found, who, rank) /\ LeavesOut(R, found, who, rank, req.top_k) /\ EvenlyTaken(R, found, who, rank)
    BY <1>4, <2>1, RoundRobinAnswers
  <2>4. Mirrors(r, found)
    BY <1>6, <1>7, <2>2
  <2>5. OneIsLeftOut(r, found, who, rank) => Len(R) = req.top_k
    BY <1>3, <2>3 DEF OneIsLeftOut, LeavesOut
  <2>6. NearestListed(r)
    BY <1>3, <1>11, <2>3, <2>4, <2>5, NearestOfAnswered
  <2>7. TakenInTurn(r)
    BY <1>3, <2>3, <2>4, TurnsOfAnswered
  <2> QED BY <1>1, <1>2, <1>3, <1>11, <2>2, <2>6, <2>7 DEF Faithful
<1>12. CASE req.strategy \notin {"per_index", "rrf", "round_robin"}
  <2>1. R = MergeScore(found, req.top_k)
    BY <1>1, <1>12 DEF MergeHits
  <2>2. R \in Seq(EntrySet(Labels, D)) /\ Len(R) <= req.top_k /\ DescendingScores(R)
    BY <1>4, <2>1, ScoreAnswers
  <2>3. PICK who, rank : BestOf(R, found, who, rank, req.top_k)
    BY <1>4, <2>1, ScoreAnswers
  <2>4. Answered(R, found, who, rank) /\ LeavesOut(R, found, who, rank, req.top_k) /\ BetterThanLeftOut(R, found, who, rank)
    BY <2>3 DEF BestOf
  <2>5. Mirrors(r, found)
    BY <1>6, <1>7, <2>2
  <2>6. OneIsLeftOut(r, found, who, rank) => Len(R) = req.top_k
    BY <1>3, <2>4 DEF OneIsLeftOut, LeavesOut
  <2>7. NearestListed(r)
    BY <1>3, <1>12, <2>4, <2>5, <2>6, NearestOfAnswered
  <2>8. BestListed(r)
    BY <1>3, <2>2, <2>4, <2>5, BestOfAnswered
  <2> QED BY <1>1, <1>2, <1>3, <1>12, <2>2, <2>7, <2>8 DEF Faithful
<1> QED BY <1>9, <1>10, <1>11, <1>12

-----------------------------------------------------------------------------
(* What the tasks of a request hold, and what is answered.                  *)

\* A task is on its way, has failed, or has what its store answers with.
Sound(req, ix, task) ==
    \/ \E p \in {"embed", "search"} : task = [phase |-> p, hits |-> <<>>, error |-> FALSE]
    \/ task = Ended(<<>>, TRUE)
    \/ task = Ended(StoreHits(req, ix), FALSE)

UnderWay(s) ==
    \E req, tasks :
        /\ req \in Requests /\ s = [on |-> TRUE, req |-> req, tasks |-> tasks] /\ tasks = [i \in DOMAIN req.indexes |-> tasks[i]]
        /\ \A i \in DOMAIN req.indexes : Sound(req, req.indexes[i], tasks[i])

SearchIInv == (search = NoSearch \/ UnderWay(search)) /\ SearchFaithful

\* The invariant, as one about the response.
LEMMA FaithfulIsSearchFaithful == SearchFaithful <=> (response.code = 200 => Faithful(response))
  BY DEF SearchFaithful, Faithful

\* Whatever is not an answer of hits, or the old one, is faithful.
LEMMA NothingAnswered ==
  /\ response' = NoResponse => SearchFaithful'
  /\ \A c : c # 200 /\ response' = [code |-> c] => SearchFaithful'
  /\ response' = response /\ SearchFaithful => SearchFaithful'
<1>1. SearchFaithful' <=> (response'.code = 200 => Faithful(response'))
  BY DEF SearchFaithful, Faithful
<1>2. response' = NoResponse => response'.code # 200
  BY DEF NoResponse
<1>3. \A c : c # 200 /\ response' = [code |-> c] => response'.code # 200
  OBVIOUS
<1>4. response' = response => (Faithful(response) <=> Faithful(response')) /\ response'.code = response.code
  OBVIOUS
<1> QED BY <1>1, <1>2, <1>3, <1>4, FaithfulIsSearchFaithful

\* The answer of Respond, as a function of the request and its tasks.
FoundOf(req, tasks) == [i \in DOMAIN tasks |-> [id |-> req.indexes[i].id, group |-> req.indexes[i].group, hits |-> tasks[i].hits]]
FailedOf(req, tasks) == {req.indexes[i].id : i \in {j \in DOMAIN tasks : tasks[j].error}}

\* The answer of Respond is faithful when every task ended sound.
LEMMA AnswerIsFaithful ==
  ASSUME NEW req \in Requests, NEW tasks, tasks = [i \in DOMAIN req.indexes |-> tasks[i]],
         \A i \in DOMAIN req.indexes : Sound(req, req.indexes[i], tasks[i]) /\ tasks[i].phase = "done",
         req.strict => {i \in DOMAIN tasks : tasks[i].error} = {}
  PROVE  Faithful([code |-> 200, req |-> req, failed |-> FailedOf(req, tasks),
                   results |-> MergeHits(req.strategy, FoundOf(req, tasks), req.top_k)])
<1>1. PICK n \in Nat : n = Len(req.indexes) /\ DOMAIN req.indexes = 1..n
  <2>1. PICK s, S : s = req.indexes /\ S = ToSet(s)
    OBVIOUS
  <2>2. s \in Seq(S)
    BY <2>1, SearchAssumption
  <2> QED BY <2>1, <2>2
<1>2. DOMAIN tasks = 1..n
  BY <1>1
<1>3. PICK found : found = FoundOf(req, tasks)
  OBVIOUS
<1>4. PICK failed : failed = FailedOf(req, tasks)
  OBVIOUS
<1> DEFINE Labels == {req.indexes[i].id : i \in 1..n} \cup {req.indexes[i].group : i \in 1..n}
<1>5. ASSUME NEW i \in 1..n
      PROVE  /\ tasks[i].error \in BOOLEAN
             /\ tasks[i].error => tasks[i].hits = <<>>
             /\ ~tasks[i].error => tasks[i].hits = StoreHits(req, req.indexes[i])
  <2>1. Sound(req, req.indexes[i], tasks[i]) /\ tasks[i].phase = "done"
    BY <1>1
  <2>2. PICK task : task = tasks[i]
    OBVIOUS
  <2>3. \A p \in {"embed", "search"} : task # [phase |-> p, hits |-> <<>>, error |-> FALSE]
    BY <2>1, <2>2
  <2>4. task = Ended(<<>>, TRUE) \/ task = Ended(StoreHits(req, req.indexes[i]), FALSE)
    BY <2>1, <2>2, <2>3 DEF Sound
  <2>5. \A hits : /\ Ended(hits, TRUE).hits = hits /\ Ended(hits, TRUE).error = TRUE
                  /\ Ended(hits, FALSE).hits = hits /\ Ended(hits, FALSE).error = FALSE
    BY DEF Ended
  <2>6. CASE task = Ended(<<>>, TRUE)
    <3>1. task.error = TRUE /\ task.hits = <<>>
      BY <2>5, <2>6
    <3> QED BY <2>2, <3>1
  <2>7. CASE task = Ended(StoreHits(req, req.indexes[i]), FALSE)
    <3>1. task.error = FALSE /\ task.hits = StoreHits(req, req.indexes[i])
      BY <2>5, <2>7
    <3> QED BY <2>2, <3>1
  <2> QED BY <2>4, <2>6, <2>7
<1>6. \A i \in 1..n : found[i] = [id |-> req.indexes[i].id, group |-> req.indexes[i].group, hits |-> tasks[i].hits]
  BY <1>2, <1>3 DEF FoundOf
<1>7. \A i \in 1..n : tasks[i].hits \in Seq(HitSet(DocIds)) /\ DescendingScores(tasks[i].hits)
  <2> TAKE i \in 1..n
  <2>1. <<>> \in Seq(HitSet(DocIds)) /\ DescendingScores(<<>>)
    BY DEF DescendingScores
  <2>2. StoreHits(req, req.indexes[i]) \in Seq(HitSet(DocIds)) /\ DescendingScores(StoreHits(req, req.indexes[i]))
    BY <1>1, StoreHitsProperties
  <2> QED BY <1>5, <2>1, <2>2
<1>8. found \in Seq(FindingSet(Labels, DocIds))
  <2>1. \A i \in 1..n : req.indexes[i].id \in Labels /\ req.indexes[i].group \in Labels
    OBVIOUS
  <2> HIDE DEF Labels
  <2>2. ASSUME NEW i \in 1..n PROVE found[i] \in FindingSet(Labels, DocIds)
    <3>1. PICK a \in Labels, b \in Labels, hits \in Seq(HitSet(DocIds)) : found[i] = [id |-> a, group |-> b, hits |-> hits]
      BY <1>6, <1>7, <2>1
    <3> QED BY <3>1 DEF FindingSet
  <2>3. found = [i \in 1..n |-> found[i]]
    BY <1>2, <1>3 DEF FoundOf
  <2> QED BY <2>2, <2>3
<1>9. \A i, j \in 1..n : req.indexes[i].id = req.indexes[j].id => i = j
  BY <1>1, SearchAssumption DEF IsInjective
<1>10. \A i \in 1..n : req.indexes[i].id \in failed <=> tasks[i].error
  BY <1>2, <1>4, <1>9 DEF FailedOf
<1>11. req.strict => failed = {}
  BY <1>4 DEF FailedOf
<1>12. DOMAIN found = 1..n
  BY <1>2, <1>3 DEF FoundOf
<1>13. \A i \in 1..n : /\ found[i].id = req.indexes[i].id /\ found[i].group = req.indexes[i].group
                       /\ found[i].hits = tasks[i].hits
  <2> TAKE i \in 1..n
  <2>1. PICK a, b, hits : a = req.indexes[i].id /\ b = req.indexes[i].group /\ hits = tasks[i].hits
    OBVIOUS
  <2>2. found[i] = [id |-> a, group |-> b, hits |-> hits]
    BY <1>6, <2>1
  <2> QED BY <2>1, <2>2
<1>14. \A i \in 1..n : IF req.indexes[i].id \notin failed THEN found[i].hits = StoreHits(req, req.indexes[i])
                       ELSE found[i].hits = <<>>
  BY <1>5, <1>10, <1>13
<1>15. \A i, j \in DOMAIN found : found[i].id = found[j].id => i = j
  BY <1>9, <1>12, <1>13
<1>16. \A i \in DOMAIN found : DescendingScores(found[i].hits)
  BY <1>7, <1>12, <1>13
<1>17. DOMAIN found = DOMAIN req.indexes
  BY <1>1, <1>12
<1> HIDE DEF Labels
<1>18. Faithful([code |-> 200, req |-> req, failed |-> failed, results |-> MergeHits(req.strategy, found, req.top_k)])
  BY <1>1, <1>8, <1>11, <1>12, <1>13, <1>14, <1>15, <1>16, <1>17, MergedIsFaithful, ZenonT(60)
<1> QED BY <1>3, <1>4, <1>18

\* Nothing is asked or answered yet.
LEMMA SearchStarts == SearchInit => SearchIInv
  BY DEF SearchInit, SearchIInv, SearchFaithful, NoResponse

\* A task changes into a sound one, and nothing is answered.
LEMMA TaskStaysSound ==
  ASSUME NEW req \in Requests, NEW tasks, tasks = [i \in DOMAIN req.indexes |-> tasks[i]],
         search = [on |-> TRUE, req |-> req, tasks |-> tasks],
         \A i \in DOMAIN req.indexes : Sound(req, req.indexes[i], tasks[i]),
         NEW i \in DOMAIN req.indexes, NEW task, Sound(req, req.indexes[i], task), SetTask(i, task)
  PROVE  UnderWay(search')
<1>1. PICK changed : changed = [tasks EXCEPT ![i] = task]
  OBVIOUS
<1>2. search' = [on |-> TRUE, req |-> req, tasks |-> changed]
  BY <1>1 DEF SetTask
<1>3. changed = [j \in DOMAIN req.indexes |-> changed[j]]
  BY <1>1
<1>4. \A j \in DOMAIN req.indexes : changed[j] = IF j = i THEN task ELSE tasks[j]
  BY <1>1
<1>5. \A j \in DOMAIN req.indexes : Sound(req, req.indexes[j], changed[j])
  BY <1>4
<1> QED BY <1>2, <1>3, <1>5 DEF UnderWay

\* No step breaks the invariant of the response.
LEMMA SearchKeeps == SearchIInv /\ [SearchNext]_searchVars => SearchIInv'
<1> SUFFICES ASSUME SearchIInv, [SearchNext]_searchVars PROVE SearchIInv'
  OBVIOUS
<1>1. search = NoSearch \/ UnderWay(search)
  BY DEF SearchIInv
<1>2. UNCHANGED response => SearchFaithful'
  BY NothingAnswered DEF SearchIInv
<1>3. response' = NoResponse => SearchFaithful'
  BY NothingAnswered
<1>4. UNCHANGED search => search' = NoSearch \/ UnderWay(search')
  BY <1>1
<1>5. ASSUME NEW t \in DOMAIN Tokens, NEW req \in Requests, SearchEndpoint(t, req) PROVE SearchIInv'
  <2>1. CASE ValidateToken(t) /\ Tokens[t].scope = "search" /\ CheckRateLimit(t)
    <3>1. PICK tasks : tasks = [i \in DOMAIN req.indexes |-> Task(req, req.indexes[i])]
      OBVIOUS
    <3>2. search' = [on |-> TRUE, req |-> req, tasks |-> tasks] /\ response' = NoResponse
      BY <1>5, <2>1, <3>1 DEF SearchEndpoint
    <3>3. \A i \in DOMAIN req.indexes : Sound(req, req.indexes[i], tasks[i])
      BY <3>1 DEF Sound, Task
    <3>4. UnderWay(search')
      BY <3>1, <3>2, <3>3 DEF UnderWay
    <3> QED BY <1>3, <3>2, <3>4 DEF SearchIInv
  <2>2. CASE ~(ValidateToken(t) /\ Tokens[t].scope = "search" /\ CheckRateLimit(t))
    <3>1. response' = [code |-> Denied(t)] /\ UNCHANGED search
      BY <1>5, <2>2 DEF SearchEndpoint
    <3>2. Denied(t) # 200
      BY DEF Denied
    <3>3. SearchFaithful'
      BY <3>1, <3>2, NothingAnswered
    <3> QED BY <1>4, <3>1, <3>3 DEF SearchIInv
  <2> QED BY <2>1, <2>2
<1>6. ASSUME NEW t \in DOMAIN Tokens, TokenEnds(t) PROVE SearchIInv'
  BY <1>3, <1>4, <1>6 DEF TokenEnds, SearchIInv
<1>7. CASE Tick
  BY <1>3, <1>4, <1>7 DEF Tick, SearchIInv
<1>8. CASE RotateSecret
  BY <1>3, <1>4, <1>8 DEF RotateSecret, SearchIInv
<1>9. CASE Respond
  <2>1. search.on /\ search # NoSearch
    BY <1>9 DEF Respond, Gathered, NoSearch
  <2>2. PICK req, tasks :
            /\ req \in Requests /\ search = [on |-> TRUE, req |-> req, tasks |-> tasks] /\ tasks = [i \in DOMAIN req.indexes |-> tasks[i]]
            /\ \A i \in DOMAIN req.indexes : Sound(req, req.indexes[i], tasks[i])
    BY <1>1, <2>1 DEF UnderWay
  <2>3. search.tasks = tasks /\ search.req = req /\ DOMAIN tasks = DOMAIN req.indexes
    BY <2>2
  <2>4. \A i \in DOMAIN req.indexes : tasks[i].phase = "done"
    BY <1>9, <2>3 DEF Respond, Gathered
  <2>5. search' = NoSearch
    BY <1>9 DEF Respond
  <2>6. CASE req.strict /\ Errors # {}
    <3>1. response' = [code |-> 422]
      BY <1>9, <2>3, <2>6 DEF Respond
    <3>2. SearchFaithful'
      BY <3>1, NothingAnswered
    <3> QED BY <2>5, <3>2 DEF SearchIInv
  <2>7. CASE ~(req.strict /\ Errors # {})
    <3>1. Errors = {i \in DOMAIN tasks : tasks[i].error}
      BY <2>3 DEF Errors
    <3>2. Found = FoundOf(req, tasks)
      BY <2>3 DEF Found, FoundOf
    <3>3. {search.req.indexes[i].id : i \in Errors} = FailedOf(req, tasks)
      BY <2>3, <3>1 DEF FailedOf
    <3>4. response' = [code |-> 200, req |-> req, failed |-> FailedOf(req, tasks),
                       results |-> MergeHits(req.strategy, FoundOf(req, tasks), req.top_k)]
      BY <1>9, <2>3, <2>7, <3>2, <3>3, ZenonT(60) DEF Respond
    <3>5. req.strict => {i \in DOMAIN tasks : tasks[i].error} = {}
      BY <2>7, <3>1
    <3>6. Faithful(response')
      BY <2>2, <2>4, <3>4, <3>5, AnswerIsFaithful
    <3>7. SearchFaithful'
      BY <3>6 DEF SearchFaithful, Faithful
    <3> QED BY <2>5, <3>7 DEF SearchIInv
  <2> QED BY <2>6, <2>7
<1>10. CASE TotalTimeout
  <2>1. response' = [code |-> 504] /\ search' = NoSearch
    BY <1>10 DEF TotalTimeout
  <2>2. SearchFaithful'
    BY <2>1, NothingAnswered
  <2> QED BY <2>1, <2>2 DEF SearchIInv
<1>11. ASSUME search.on, NEW i \in DOMAIN search.tasks, EmbedQuery(i) \/ SearchIndex(i) \/ TaskFails(i)
       PROVE  SearchIInv'
  <2>1. search # NoSearch /\ response' = response
    <3>1. search # NoSearch
      BY <1>11 DEF NoSearch
    <3>2. response' = response
      BY <1>11 DEF EmbedQuery, SearchIndex, TaskFails
    <3> QED BY <3>1, <3>2
  <2>2. PICK req, tasks :
            /\ req \in Requests /\ search = [on |-> TRUE, req |-> req, tasks |-> tasks] /\ tasks = [j \in DOMAIN req.indexes |-> tasks[j]]
            /\ \A j \in DOMAIN req.indexes : Sound(req, req.indexes[j], tasks[j])
    BY <1>1, <2>1 DEF UnderWay
  <2>3. search.tasks = tasks /\ search.req = req /\ DOMAIN tasks = DOMAIN req.indexes
    BY <2>2
  <2>4. PICK ix : ix = req.indexes[i]
    OBVIOUS
  <2>5. i \in DOMAIN req.indexes /\ Sound(req, ix, tasks[i]) /\ search.req.indexes[i] = ix
    BY <2>2, <2>3, <2>4, <1>11
  <2>6. Sound(req, ix, Ended(<<>>, TRUE)) /\ Sound(req, ix, Ended(StoreHits(req, ix), FALSE))
    BY DEF Sound
  <2>7. \E task : Sound(req, ix, task) /\ SetTask(i, task)
    <3>1. CASE EmbedQuery(i)
      <4>1. tasks[i].phase = "embed"
        BY <2>3, <3>1 DEF EmbedQuery, Ready
      <4>2. PICK task : task = tasks[i]
        OBVIOUS
      <4>3. \A hits, e : Ended(hits, e).phase # "embed"
        BY DEF Ended
      <4>4. task = [phase |-> "embed", hits |-> <<>>, error |-> FALSE]
        <5>1. PICK p \in {"embed", "search"} : task = [phase |-> p, hits |-> <<>>, error |-> FALSE]
          BY <2>5, <4>1, <4>2, <4>3 DEF Sound
        <5>2. p = "embed"
          BY <4>1, <4>2, <5>1
        <5> QED BY <5>1, <5>2
      <4>5. [task EXCEPT !.phase = "search"] = [phase |-> "search", hits |-> <<>>, error |-> FALSE]
        <5>1. PICK changed : changed = [task EXCEPT !.phase = "search"]
          OBVIOUS
        <5>2. changed = [f \in DOMAIN task |-> IF f = "phase" THEN "search" ELSE task[f]]
          BY <5>1
        <5>3. DOMAIN task = {"phase", "hits", "error"} /\ task["hits"] = <<>> /\ task["error"] = FALSE
          BY <4>4
        <5>4. changed = [f \in {"phase", "hits", "error"} |-> IF f = "phase" THEN "search" ELSE task[f]]
          BY <5>2, <5>3
        <5>5. changed["phase"] = "search" /\ changed["hits"] = <<>> /\ changed["error"] = FALSE
          BY <5>3, <5>4
        <5> QED BY <5>1, <5>4, <5>5
      <4>6. Sound(req, ix, [tasks[i] EXCEPT !.phase = "search"])
        BY <4>2, <4>5 DEF Sound
      <4> QED BY <2>3, <2>5, <2>6, <3>1, <4>6 DEF EmbedQuery
    <3>2. CASE SearchIndex(i)
      BY <2>3, <2>5, <2>6, <3>2 DEF SearchIndex
    <3>3. CASE TaskFails(i)
      BY <2>6, <3>3 DEF TaskFails
    <3> QED BY <1>11, <3>1, <3>2, <3>3
  <2>8. UnderWay(search')
    BY <2>2, <2>4, <2>5, <2>7, TaskStaysSound
  <2> QED BY <1>2, <2>1, <2>8 DEF SearchIInv
<1>12. CASE UNCHANGED searchVars
  BY <1>2, <1>4, <1>12 DEF searchVars, SearchIInv
<1> QED BY <1>5, <1>6, <1>7, <1>8, <1>9, <1>10, <1>11, <1>12 DEF SearchNext

\* Whatever tasks fail or end last, the response is what the strategy promises
\* for the indexes that did not fail, for any requests and stores (run_search,
\* _merge).
THEOREM SearchAnswersFaithful == SearchSpec => []SearchFaithful
<1>1. SearchIInv => SearchFaithful
  BY DEF SearchIInv
<1> QED BY <1>1, SearchStarts, SearchKeeps, PTL DEF SearchSpec
=============================================================================
