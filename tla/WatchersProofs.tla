--------------------------- MODULE WatchersProofs ---------------------------
(***************************************************************************)
(* Proofs about the watchers of the ingestion service: PollingLease, for    *)
(* any number of pods and any term, and SourceWatchers, for any keys, size  *)
(* of pages, commits and troubles.                                          *)
(***************************************************************************)
EXTENDS PollingLease, SourceWatchers, FiniteSetTheorems, WellFoundedInduction, TLAPS

-----------------------------------------------------------------------------
(* PollingLease.                                                            *)

\* The initial states satisfy the inductive invariant.
LEMMA PollingInit == Init => PollingInv
  BY PollingAssumption DEF Init, PollingInv, LeaseInv, TypeOK, MayWrite, NoDocument, TermHeld, Relies,
     Over, Calling

\* Time passes: nobody relies on a term longer than Patience.
LEMMA TickKeeps ==
  ASSUME PollingInv, Tick
  PROVE  PollingInv'
<1> USE PollingAssumption DEF PollingInv, LeaseInv
<1>1. TypeOK'
  BY DEF TypeOK, Tick, Over, InCall, Calling, Relies
<1>2. MayWrite'
  BY DEF TypeOK, MayWrite, Tick, Over, InCall, Calling, Expired
<1>3. NoDocument' /\ (~releases' => TermHeld')
  BY DEF TypeOK, NoDocument, TermHeld, Tick, Over, Relies
<1> QED BY <1>1, <1>2, <1>3

\* Steps that neither write the document nor make a pod rely on it.
LEMMA QuietKeeps ==
  ASSUME PollingInv, NEW p \in Pod,
         \/ Acquire(p) \/ ReadItem(p) \/ ReadNotFound(p) \/ StartWatcher(p) \/ StartFails(p)
         \/ Dispose(p) \/ ReadForRelease(p) \/ ReleaseFails(p) \/ AccessDenied(p) \/ Crash(p)
  PROVE  PollingInv'
<1> USE PollingAssumption DEF PollingInv, LeaseInv
<1>0. releases' = releases
  BY DEF Acquire, ReadItem, ReadNotFound, StartWatcher, StartFails, Dispose, ReadForRelease, ReleaseFails,
     AccessDenied, Crash
<1>1. TypeOK'
  <2>1. owner' \in Pod \union {NoPod} /\ left' \in Over .. TTL
    BY DEF TypeOK, Acquire, ReadItem, ReadNotFound, StartWatcher, StartFails, Dispose,
       ReadForRelease, ReleaseFails, AccessDenied, Crash, Refused, Disposed, doc
  <2>2. pc' \in [Pod -> {"idle", "read", "create", "reread", "write", "got", "dispose", "release", "gone"}]
    BY DEF TypeOK, Acquire, ReadItem, ReadNotFound, StartWatcher, StartFails, Dispose,
       ReadForRelease, ReleaseFails, AccessDenied, Crash, Refused, Disposed, doc
  <2>3. age' \in [Pod -> 0 .. MaxCall]
    BY DEF TypeOK, Acquire, ReadItem, ReadNotFound, StartWatcher, StartFails, Dispose,
       ReadForRelease, ReleaseFails, AccessDenied, Crash, Refused, Disposed, doc
  <2>4. fresh' \in [Pod -> BOOLEAN] /\ watching' \in [Pod -> BOOLEAN]
    BY DEF TypeOK, Acquire, ReadItem, ReadNotFound, StartWatcher, StartFails, Dispose,
       ReadForRelease, ReleaseFails, AccessDenied, Crash, Refused, Disposed, doc
  <2>5. since' \in [Pod -> 0 .. TTL]
    BY DEF TypeOK, Acquire, ReadItem, ReadNotFound, StartWatcher, StartFails, Dispose,
       ReadForRelease, ReleaseFails, AccessDenied, Crash, Refused, Disposed, doc
  <2>6. then' \in [Pod -> {"idle", "got", "acquire"}] /\ faults' \in 0 .. MaxFaults
    BY DEF TypeOK, Acquire, ReadItem, ReadNotFound, StartWatcher, StartFails, Dispose,
       ReadForRelease, ReleaseFails, AccessDenied, Crash, Refused, Disposed, doc
  <2> QED BY <1>0, <2>1, <2>2, <2>3, <2>4, <2>5, <2>6 DEF TypeOK
<1>2. MayWrite'
  BY DEF TypeOK, MayWrite, MayTake, Expired, Acquire, ReadItem, ReadNotFound, StartWatcher, StartFails, Dispose,
     ReadForRelease, ReleaseFails, AccessDenied, Crash, Refused, Disposed, doc
<1>3. NoDocument' /\ UNCHANGED doc
  BY DEF NoDocument, Acquire, ReadItem, ReadNotFound, StartWatcher, StartFails, Dispose,
     ReadForRelease, ReleaseFails, AccessDenied, Crash, doc
<1>4. ASSUME NEW q \in Pod PROVE Relies(q)' => Relies(q) /\ since'[q] = since[q]
  BY DEF TypeOK, Relies, Acquire, ReadItem, ReadNotFound, StartWatcher, StartFails, Dispose,
     ReadForRelease, ReleaseFails, AccessDenied, Crash, Refused, Disposed, Calling
<1>5. ~releases' => TermHeld'
  BY <1>0, <1>3, <1>4 DEF TermHeld, doc
<1> QED BY <1>1, <1>2, <1>3, <1>5

\* Whoever writes the document may: nobody else relies on its term.
LEMMA NobodyRelies ==
  ASSUME PollingInv, ~releases, NEW p \in Pod, NEW q \in Pod, Relies(q),
         owner = NoPod \/ (pc[p] = "write" /\ fresh[p])
  PROVE  p = q
<1> USE PollingAssumption DEF PollingInv, LeaseInv
<1>1. owner = q /\ left >= 0
  BY DEF TermHeld, TypeOK
<1>2. owner = p \/ left + age[p] < 0
  BY <1>1 DEF MayWrite, Expired
<1> QED BY <1>1, <1>2 DEF TypeOK

\* Writing the document keeps the inductive invariant.
LEMMA WriteKeeps ==
  ASSUME PollingInv, NEW p \in Pod, CreateItem(p) \/ ReplaceItem(p) \/ CallFails(p)
  PROVE  PollingInv'
<1> USE PollingAssumption DEF PollingInv, LeaseInv
<1>0. releases' = releases
  BY DEF CreateItem, ReplaceItem, CallFails
<1>1. Term(p) \in 0 .. TTL /\ p # NoPod
  BY DEF TypeOK, Term
<1>2. TypeOK'
  <2>1. owner' \in Pod \union {NoPod} /\ left' \in Over .. TTL
    BY <1>1 DEF TypeOK, CreateItem, ReplaceItem, CallFails, Written, Acquired, Refused, doc, Over
  <2>2. pc' \in [Pod -> {"idle", "read", "create", "reread", "write", "got", "dispose", "release", "gone"}]
    BY <1>1 DEF TypeOK, CreateItem, ReplaceItem, CallFails, Written, Acquired, Refused, doc, Over
  <2>3. age' \in [Pod -> 0 .. MaxCall]
    BY <1>1 DEF TypeOK, CreateItem, ReplaceItem, CallFails, Written, Acquired, Refused, doc, Over
  <2>4. fresh' \in [Pod -> BOOLEAN] /\ watching' \in [Pod -> BOOLEAN]
    BY <1>1, ZenonT(60) DEF TypeOK, CreateItem, ReplaceItem, CallFails, Written, Acquired, Refused, doc, Over
  <2>5. since' \in [Pod -> 0 .. TTL]
    BY <1>1 DEF TypeOK, CreateItem, ReplaceItem, CallFails, Written, Acquired, Refused, doc, Over
  <2>6. then' \in [Pod -> {"idle", "got", "acquire"}] /\ faults' \in 0 .. MaxFaults
    BY <1>1 DEF TypeOK, CreateItem, ReplaceItem, CallFails, Written, Acquired, Refused, doc, Over
  <2> QED BY <1>0, <2>1, <2>2, <2>3, <2>4, <2>5, <2>6 DEF TypeOK
<1>3. MayWrite'
  BY DEF TypeOK, MayWrite, Expired, CreateItem, ReplaceItem, CallFails, Written, Acquired, Refused,
     InCall, Calling, doc
<1>4. NoDocument'
  BY <1>1 DEF NoDocument, CreateItem, ReplaceItem, CallFails, Written, doc
<1>5. ASSUME ~releases' PROVE TermHeld'
  <2>1. \A q \in Pod \ {p} : Relies(q)' => Relies(q) /\ since'[q] = since[q]
    BY DEF TypeOK, Relies, CreateItem, ReplaceItem, CallFails, Acquired, Refused
  <2>2. ASSUME UNCHANGED doc, Relies(p)' => Relies(p) /\ since'[p] = since[p] PROVE TermHeld'
    BY <1>0, <1>5, <2>1, <2>2 DEF TermHeld, doc
  <2>3. ASSUME Written(p, Term(p)), Relies(p)' => since'[p] = age[p],
               owner = NoPod \/ (pc[p] = "write" /\ fresh[p])
        PROVE  TermHeld'
    <3>1. \A q \in Pod \ {p} : ~Relies(q)
      BY <1>0, <1>5, <2>3, NobodyRelies
    <3>2. owner' = p /\ left' = TTL - age[p] /\ age[p] \in Nat
      BY <2>3 DEF Written, Term, TypeOK
    <3> QED BY <2>1, <2>3, <3>1, <3>2 DEF TermHeld, TypeOK
  <2>4. CASE CreateItem(p) /\ owner = NoPod
    BY <2>3, <2>4 DEF CreateItem, Acquired, TypeOK
  <2>5. CASE CreateItem(p) /\ owner # NoPod
    BY <2>2, <2>5 DEF CreateItem, Relies, TypeOK
  <2>6. CASE ReplaceItem(p) /\ fresh[p]
    BY <2>3, <2>6 DEF ReplaceItem, IfMatch, Acquired, TypeOK
  <2>7. CASE ReplaceItem(p) /\ ~fresh[p]
    <3>1. ~Relies(p)'
      BY <2>7 DEF ReplaceItem, IfMatch, Refused, Relies, TypeOK
    <3> QED BY <2>2, <2>7, <3>1 DEF ReplaceItem, IfMatch
  <2>8. CASE CallFails(p)
    <3>1. ~Relies(p)'
      BY <2>8 DEF CallFails, Refused, Relies, TypeOK
    <3> QED BY <2>2, <2>3, <2>8, <3>1 DEF CallFails, IfMatch, doc
  <2> QED BY <2>4, <2>5, <2>6, <2>7, <2>8 DEF TypeOK
<1> QED BY <1>2, <1>3, <1>4, <1>5

\* Giving the lease back keeps the inductive invariant; only watchers that do so
\* ever get here.
LEMMA ExpireKeeps ==
  ASSUME PollingInv, NEW p \in Pod, ExpireItem(p)
  PROVE  PollingInv'
<1> USE PollingAssumption DEF PollingInv, LeaseInv
<1>1. TypeOK'
  <2>1. owner' \in Pod \union {NoPod} /\ left' \in Over .. TTL
    BY DEF TypeOK, ExpireItem, Written, doc, Over
  <2>2. /\ pc' \in [Pod -> {"idle", "read", "create", "reread", "write", "got", "dispose", "release", "gone"}]
        /\ age' \in [Pod -> 0 .. MaxCall]
    BY DEF TypeOK, ExpireItem, Disposed
  <2>3. fresh' \in [Pod -> BOOLEAN]
    BY DEF TypeOK, ExpireItem, Written
  <2> QED BY <2>1, <2>2, <2>3 DEF TypeOK, ExpireItem
<1>2. MayWrite'
  BY DEF TypeOK, MayWrite, Expired, ExpireItem, Written, Disposed, doc
<1>3. NoDocument' /\ (~releases' => TermHeld')
  BY DEF TypeOK, NoDocument, MayWrite, ExpireItem, Written, doc
<1> QED BY <1>1, <1>2, <1>3

\* Every step keeps the inductive invariant.
LEMMA PollingStep == PollingInv /\ [Next]_vars => PollingInv'
<1> SUFFICES ASSUME PollingInv, [Next]_vars PROVE PollingInv'
  OBVIOUS
<1>1. CASE UNCHANGED vars
  BY <1>1 DEF vars, PollingInv, LeaseInv, TypeOK, MayWrite, NoDocument, TermHeld, Expired, Relies
<1>2. CASE Next
  BY <1>2, TickKeeps, QuietKeeps, WriteKeeps, ExpireKeeps DEF Next, Reconciling
<1> QED BY <1>1, <1>2

-----------------------------------------------------------------------------
\* What TryAcquireAsync and the reconcile rely on holds throughout.
THEOREM PollingInvariant == Spec => []PollingInv
<1> QED BY PollingInit, PollingStep, PTL DEF Spec

\* Unless watchers give the lease back when disposed of, no two pods poll a source
\* at a time - SourceWatcherManager's "Every polling source needs one owner".
THEOREM PollingOneWatcher == Spec => []OneKeepingWatcher
<1>1. PollingInv => OneKeepingWatcher
  BY DEF PollingInv, TermHeld, OneKeepingWatcher, OneWatcher, Relies
<1> QED BY <1>1, PollingInvariant, PTL

\* TryAcquireAsync and ReleaseAsync implement the abstract lease, whatever the
\* reconcile loop does with it.
THEOREM PollingImplementsLease == Spec => ImplementsLease
<1> DEFINE rest == IF left < 0 THEN -1 ELSE left
<1>1. Init => L!LeaseInit
  BY PollingAssumption DEF Init, L!LeaseInit, Over
<1>2. PollingInv /\ [Next]_vars => [L!LeaseNext]_<<owner, rest>>
  <2> SUFFICES ASSUME PollingInv, [Next]_vars PROVE [L!LeaseNext]_<<owner, rest>>
    OBVIOUS
  <2> USE PollingAssumption DEF PollingInv, LeaseInv
  <2>1. CASE Tick
    <3>1. CASE left < 0
      <4>1. left' < 0
        BY <2>1, <3>1 DEF Tick, TypeOK, Over
      <4> QED BY <2>1, <3>1, <4>1 DEF Tick
    <3>2. CASE left >= 0
      <4>1. left' = left - 1
        BY <2>1, <3>2 DEF Tick, TypeOK, Over
      <4> QED BY <2>1, <3>2, <4>1 DEF Tick, TypeOK, Over, L!LeaseNext, L!Elapse
    <3>3. left \in Int
      BY DEF TypeOK, Over
    <3>4. left < 0 \/ left >= 0
      BY <3>3
    <3> QED BY <3>1, <3>2, <3>4
  <2>2. ASSUME NEW p \in Pod, Written(p, Term(p)), owner = NoPod \/ (pc[p] = "write" /\ fresh[p])
        PROVE  L!LeaseNext
    <3>1. owner = p \/ left < 0
      BY <2>2 DEF NoDocument, MayWrite, Expired, TypeOK, Over
    <3>2. left' \in 0 .. TTL /\ owner' = p
      BY <2>2 DEF Written, Term, TypeOK
    <3>3. L!Grant(p)
      BY <3>1, <3>2 DEF L!Grant
    <3> QED BY <3>3 DEF L!LeaseNext
  <2>3. ASSUME NEW p \in Pod, CreateItem(p) \/ ReplaceItem(p) \/ CallFails(p)
        PROVE  [L!LeaseNext]_<<owner, rest>>
    BY <2>2, <2>3 DEF CreateItem, ReplaceItem, CallFails, IfMatch, doc
  <2>4. ASSUME NEW p \in Pod, ExpireItem(p)
        PROVE  [L!LeaseNext]_<<owner, rest>>
    <3>1. CASE fresh[p]
      <4>1. owner = p /\ owner' = p /\ left' = -1
        BY <2>4, <3>1 DEF ExpireItem, Written, MayWrite
      <4>2. L!GiveBack(p)
        BY <4>1 DEF L!GiveBack
      <4> QED BY <4>2 DEF L!LeaseNext
    <3>2. CASE ~fresh[p]
      BY <2>4, <3>2 DEF ExpireItem, doc
    <3> QED BY <3>1, <3>2
  <2>5. ASSUME NEW p \in Pod,
               \/ Acquire(p) \/ ReadItem(p) \/ ReadNotFound(p) \/ StartWatcher(p) \/ StartFails(p)
               \/ Dispose(p) \/ ReadForRelease(p) \/ ReleaseFails(p) \/ AccessDenied(p) \/ Crash(p)
        PROVE  UNCHANGED <<owner, rest>>
    BY <2>5 DEF Acquire, ReadItem, ReadNotFound, StartWatcher, StartFails, Dispose, ReadForRelease,
       ReleaseFails, AccessDenied, Crash, doc
  <2>6. CASE UNCHANGED vars
    BY <2>6 DEF vars
  <2> QED BY <2>1, <2>3, <2>4, <2>5, <2>6 DEF Next, Reconciling
<1> QED BY <1>1, <1>2, PollingInvariant, PTL DEF Spec, ImplementsLease, L!LeaseSpec

-----------------------------------------------------------------------------
(* SourceWatchers: pages of a scan are prefixes of its order.               *)

\* A nonempty set of natural numbers has a least element.
LEMMA LeastNatural ==
  ASSUME NEW T \in SUBSET Nat, T # {}
  PROVE  \E n \in T : \A k \in T : n <= k
<1> DEFINE R == {ss \in Nat \X Nat : ss[1] < ss[2]}
<1>1. IsWellFoundedOn(R, Nat)
  BY NatLessThanWellFounded DEF OpToRel
<1>2. PICK n \in T : \A k \in T : <<k, n>> \notin R
  BY <1>1, WFMin, Zenon
<1>3. ASSUME NEW k \in T PROVE n <= k
  <2>1. <<k, n>> \in Nat \X Nat
    OBVIOUS
  <2>2. ~(<<k, n>>[1] < <<k, n>>[2])
    BY <1>2, <2>1, Zenon
  <2> QED BY <2>2
<1> QED BY <1>3

StrictOrder(R, T) ==
    /\ \A x \in T : <<x, x>> \notin R
    /\ \A x, y \in T : x # y => <<x, y>> \in R \/ <<y, x>> \in R
    /\ \A x, y, z \in T : <<x, y>> \in R /\ <<y, z>> \in R => <<x, z>> \in R

Before(R, T, x) == {k \in T : <<k, x>> \in R}

\* Of two elements the earlier one has fewer elements before it.
LEMMA FewerBefore ==
  ASSUME NEW T, IsFiniteSet(T), NEW R, StrictOrder(R, T), NEW x \in T
  PROVE  /\ Cardinality(Before(R, T, x)) \in Nat
         /\ \A y \in T : <<y, x>> \in R => Cardinality(Before(R, T, y)) < Cardinality(Before(R, T, x))
<1>1. \A y \in T : IsFiniteSet(Before(R, T, y)) /\ Cardinality(Before(R, T, y)) \in Nat
  <2> TAKE y \in T
  <2>1. Before(R, T, y) \in SUBSET T
    BY DEF Before
  <2>2. IsFiniteSet(Before(R, T, y))
    BY <2>1, FS_Subset, Zenon
  <2> QED BY <2>2, FS_CardinalityType, Zenon
<1>2. ASSUME NEW y \in T, <<y, x>> \in R PROVE Cardinality(Before(R, T, y)) < Cardinality(Before(R, T, x))
  <2>1. Before(R, T, y) \in SUBSET Before(R, T, x)
    BY <1>2 DEF Before, StrictOrder
  <2>2. y \in Before(R, T, x) /\ y \notin Before(R, T, y)
    BY <1>2 DEF Before, StrictOrder
  <2>3. Cardinality(Before(R, T, y)) <= Cardinality(Before(R, T, x))
    BY <1>1, <2>1, FS_Subset, Zenon
  <2>4. Cardinality(Before(R, T, x)) # Cardinality(Before(R, T, y))
    BY <1>1, <2>1, <2>2, FS_Subset, Zenon
  <2> QED BY <1>1, <2>3, <2>4
<1> QED BY <1>1, <1>2

\* A nonempty part of an ordered finite set has a first element.
LEMMA FirstElement ==
  ASSUME NEW T, IsFiniteSet(T), NEW R, StrictOrder(R, T), NEW U \in SUBSET T, U # {}
  PROVE  \E m \in U : \A x \in U : x # m => <<m, x>> \in R
<1> DEFINE ranks == {Cardinality(Before(R, T, x)) : x \in U}
<1>1. ranks \in SUBSET Nat /\ ranks # {}
  BY FewerBefore
<1>2. PICK n \in ranks : \A k \in ranks : n <= k
  <2> HIDE DEF ranks
  <2> QED BY <1>1, LeastNatural
<1>3. PICK m \in U : n = Cardinality(Before(R, T, m))
  OBVIOUS
<1>4. ASSUME NEW x \in U, x # m PROVE <<m, x>> \in R
  <2>1. n <= Cardinality(Before(R, T, x))
    BY <1>2
  <2>2. <<x, m>> \notin R
    BY <1>3, <2>1, FewerBefore
  <2> QED BY <1>4, <2>2 DEF StrictOrder
<1> QED BY <1>4

\* ... and a last one.
LEMMA LastElement ==
  ASSUME NEW T, IsFiniteSet(T), NEW R, StrictOrder(R, T), NEW U \in SUBSET T, U # {}
  PROVE  \E m \in U : \A x \in U : x # m => <<x, m>> \in R
<1> DEFINE back == {<<p[2], p[1]>> : p \in R \cap (T \X T)}
<1>1. \A x, y \in T : <<x, y>> \in back <=> <<y, x>> \in R
  <2> TAKE x, y \in T
  <2>1. ASSUME <<y, x>> \in R PROVE <<x, y>> \in back
    <3>1. <<y, x>> \in R \cap (T \X T)
      BY <2>1
    <3>2. <<x, y>> = << <<y, x>>[2], <<y, x>>[1] >>
      OBVIOUS
    <3> QED BY <3>1, <3>2, Zenon
  <2>2. ASSUME <<x, y>> \in back PROVE <<y, x>> \in R
    <3>1. PICK p \in R \cap (T \X T) : <<x, y>> = <<p[2], p[1]>>
      BY <2>2
    <3>2. p = <<y, x>>
      BY <3>1
    <3> QED BY <3>2
  <2> QED BY <2>1, <2>2
<1> HIDE DEF back
<1>2. StrictOrder(back, T)
  BY <1>1 DEF StrictOrder
<1>3. PICK m \in U : \A x \in U : x # m => <<m, x>> \in back
  BY <1>2, FirstElement
<1> QED BY <1>1, <1>3

\* The last element of all.
LEMMA LastOfAll ==
  ASSUME NEW T, IsFiniteSet(T), NEW R, StrictOrder(R, T), T # {}
  PROVE  \E m \in T : \A x \in T : x # m => <<x, m>> \in R
<1>1. T \in SUBSET T
  OBVIOUS
<1> QED BY <1>1, LastElement

\* The first page of up to n elements of an ordered finite set: it is empty only
\* if there is nothing, and what is left out comes after a full page.
FirstOf(R, T, n) == {x \in T : Cardinality(Before(R, T, x)) < n}

LEMMA FirstPage ==
  ASSUME NEW T, IsFiniteSet(T), NEW R, StrictOrder(R, T), NEW n \in Nat \ {0}
  PROVE  /\ T # {} => FirstOf(R, T, n) # {}
         /\ \A r \in T \ FirstOf(R, T, n) :
               Cardinality(FirstOf(R, T, n)) = n /\ \A s \in FirstOf(R, T, n) : <<s, r>> \in R
<1>0. PICK S : S = FirstOf(R, T, n) /\ S = {x \in T : Cardinality(Before(R, T, x)) < n}
  BY DEF FirstOf
<1>1. T # {} => S # {}
  <2> SUFFICES ASSUME T # {} PROVE S # {}
    OBVIOUS
  <2>1. PICK m \in T : \A x \in T : x # m => <<m, x>> \in R
    BY FirstElement
  <2>2. Before(R, T, m) = {}
    BY <2>1 DEF Before, StrictOrder
  <2>3. Cardinality(Before(R, T, m)) = 0
    BY <2>2, FS_EmptySet, Zenon
  <2> QED BY <1>0, <2>3
<1>2. ASSUME NEW r \in T \ S PROVE Cardinality(S) = n /\ \A s \in S : <<s, r>> \in R
  <2>1. PICK U \in SUBSET T : U = T \ S
    OBVIOUS
  <2>2. PICK m \in T \ S : \A x \in T \ S : x # m => <<m, x>> \in R
    <3>1. U # {}
      BY <2>1
    <3>2. \E m \in U : \A x \in U : x # m => <<m, x>> \in R
      BY <3>1, FirstElement
    <3> QED BY <2>1, <3>2
  <2>3. \A s \in S : s \in T /\ s # m /\ <<s, m>> \in R
    <3> TAKE s \in S
    <3>1. s \in T /\ s # m /\ Cardinality(Before(R, T, s)) < n /\ ~(Cardinality(Before(R, T, m)) < n)
      BY <1>0
    <3>2. <<m, s>> \notin R
      BY <3>1, FewerBefore
    <3> QED BY <3>1, <3>2 DEF StrictOrder
  <2>4. Before(R, T, m) = S
    BY <1>0, <2>2, <2>3 DEF Before, StrictOrder
  <2>5. ~(Cardinality(S) < n)
    BY <1>0, <2>4
  <2>6. S \in SUBSET T /\ IsFiniteSet(S) /\ Cardinality(S) \in Nat /\ S # {}
    <3>1. S \in SUBSET T
      BY <1>0
    <3>2. IsFiniteSet(S)
      BY <3>1, FS_Subset, Zenon
    <3>3. Cardinality(S) \in Nat /\ Cardinality({}) = 0
      BY <3>2, FS_CardinalityType, FS_EmptySet, Zenon
    <3>4. S # {}
      BY <2>5, <3>3
    <3> QED BY <3>1, <3>2, <3>3, <3>4
  <2>7. PICK z \in S : \A x \in S : x # z => <<x, z>> \in R
    BY <2>6, LastElement
  <2>8. Before(R, T, z) = S \ {z}
    <3>1. ASSUME NEW k \in T, <<k, z>> \in R PROVE k \in S
      <4>1. Cardinality(Before(R, T, z)) < n
        BY <1>0
      <4>2. Cardinality(Before(R, T, k)) < Cardinality(Before(R, T, z))
        BY <2>6, <3>1, FewerBefore
      <4>3. Cardinality(Before(R, T, k)) \in Nat /\ Cardinality(Before(R, T, z)) \in Nat
        BY <2>6, FewerBefore
      <4> QED BY <1>0, <3>1, <4>1, <4>2, <4>3
    <3> QED BY <2>6, <2>7, <3>1 DEF Before, StrictOrder
  <2>9. Cardinality(S \ {z}) = Cardinality(S) - 1
    BY <2>6, FS_RemoveElement
  <2>10. Cardinality(S) = n
    BY <1>0, <2>5, <2>6, <2>8, <2>9
  <2>11. \A s \in S : <<s, r>> \in R
    BY <2>2, <2>3 DEF StrictOrder
  <2> QED BY <2>10, <2>11
<1> QED BY <1>0, <1>1, <1>2

-----------------------------------------------------------------------------
(* SourceWatchers: the inductive invariant.  A cursor is sound if it is a   *)
(* cursor of its kind that is not ahead of the source, and every row is     *)
(* passed on or due behind the cursor in memory, the one on record, and -   *)
(* unless it is still in the page - behind the one the page leads to.       *)

CursorFields == {"done", "key", "pos", "snap", "processed"}
PageFields == {"phase", "items", "left", "next"}
Logs == {"mssql", "databricks"}

CursorSound(c, k, now) ==
    /\ DOMAIN c = CursorFields
    /\ c.done \in BOOLEAN /\ c.key \in Nat
    /\ c.pos \in Nat /\ c.pos <= now
    /\ c.snap = NoVersion \/ (c.snap \in Nat /\ c.snap <= now)
    /\ \A b \in c.processed : b.version \in Nat /\ b.version <= now
    /\ k = "mssql" /\ ~c.done => c.pos = 0

\* A watcher of kind k that goes on from cursor c will come to row r, which is w.
\* It implies Ahead, but is said of the row alone, without the log, and of a row
\* that is due no step of the source takes it back.
Due(k, r, w, c, l) ==
    \/ k = "untracked"
    \/ k \in {"cosmosdb", "postgresql"} /\ (c.pos < w.at \/ (k = "postgresql" /\ w.at = c.pos /\ c.key < r))
    \/ k = "mssql" /\ ((~c.done /\ c.key < r) \/ (c.pos < w.at /\ (c.pos = 0 => l <= w.at)))
    \/ k = "databricks" /\ (~c.done \/ c.pos < w.at)
    \/ k = "azure-blob" /\ \/ ~c.done /\ c.key < r
                           \/ /\ Watermark(c.pos) <= Second(w.at)
                              /\ [key |-> r, version |-> w.version] \notin c.processed

\* Readable, of a row that is w.
Shown(k, w) == w.version > 0 /\ (w.gone => k = "cosmosdb")

Met(r, c) == Shown(kind, row[r]) => told[r] = row[r].version \/ Due(kind, r, row[r], c, low)
AllMet(c) == \A r \in Keys : Met(r, c)

RowsSound ==
    /\ kind \in Kinds /\ inline \in BOOLEAN /\ stamped \in BOOLEAN
    /\ kind \notin InlineKinds => ~inline
    /\ ~stamped => kind = "postgresql"
    /\ clock \in Nat /\ low \in Nat /\ low <= clock
    /\ kind # "mssql" => low = 0
    /\ told \in [Keys -> Nat]
    /\ row \in [Keys -> [version : Nat, at : Nat, gone : BOOLEAN]]
    /\ \A r \in Keys : row[r].version <= row[r].at /\ row[r].at <= clock
    /\ kind = "cosmosdb" => \A r, s \in Keys : row[r].at = row[s].at => r = s \/ row[r].at = 0

\* The log has the last write of every row that it still holds, and nothing later.
EntryOf(w, e) ==
    /\ w.version > 0 /\ e.at <= w.at
    /\ e.at = w.at => e.version = IF w.gone THEN 0 ELSE w.version

LogSound ==
    kind \in Logs =>
        /\ \A e \in log : /\ DOMAIN e = {"key", "at", "version"} /\ e.key \in Keys /\ e.at \in Nat
                          /\ e.version \in Nat /\ EntryOf(row[e.key], e)
        /\ \A r \in Keys : row[r].version > 0 /\ low <= row[r].at => \E e \in log : e.key = r /\ e.at = row[r].at

CursorsSound == CursorSound(cursor, kind, clock) /\ AllMet(cursor)

OnRecord ==
    /\ saved # NoCursor => kind \in {"cosmosdb", "azure-blob"} /\ CursorSound(saved, kind, clock) /\ AllMet(saved)
    /\ kind = "cosmosdb" /\ saved # NoCursor => saved = cursor

\* A row that changed since it was read is due again, wherever the watcher goes
\* on from: passing on the old version hides nothing.
ItemSound(i, c) == row[i.key].version = i.version \/ Due(kind, i.key, row[i.key], c, low)

Listing == page.phase = "begun" /\ kind = "azure-blob"

PageSound ==
    /\ page.phase \in {"none", "begun", "read"}
    /\ DOMAIN page = PageFields
    /\ page.phase = "none" => page = NoPage
    /\ page.phase # "none" => CursorSound(page.next, kind, clock)
    /\ page.left \subseteq Keys /\ (page.left # {} => Listing)
    /\ \A i \in page.items :
         /\ i.key \in Keys \ page.left /\ i.version \in Nat /\ row[i.key].version > 0
         /\ DOMAIN i = {"key", "version"}
         /\ ItemSound(i, cursor) /\ ItemSound(i, page.next) /\ (saved # NoCursor => ItemSound(i, saved))
    /\ page.phase = "begun" /\ kind # "azure-blob" => page.items = {}
    /\ page.phase = "begun" => kind \in {"mssql", "databricks", "azure-blob"}
    /\ page.phase = "read" \/ Listing =>
          \A r \in Keys \ page.left : Met(r, page.next) \/ [key |-> r, version |-> row[r].version] \in page.items

\* What is known of a range between choosing its end and reading it.
Course ==
    /\ Listing => cursor.done
    /\ page.phase # "none" /\ kind = "mssql" => (page.next.pos = 0 => cursor.pos = 0)
    /\ page.phase = "begun" /\ kind = "mssql" => cursor.done /\ page.next.done /\ page.next.pos > 0
    /\ page.phase = "begun" /\ kind = "databricks" =>
          /\ page.next.done
          /\ cursor.done => /\ cursor.pos < page.next.pos
                            /\ \A e \in log : e.version > 0 => ~(cursor.pos < e.at /\ e.at < page.next.pos)

SourcesIInv == RowsSound /\ LogSound /\ CursorsSound /\ OnRecord /\ PageSound /\ Course

\* Whole seconds follow the ticks of the clock.
LEMMA Halves == \A a, b \in Nat : a <= b => Second(a) <= Second(b)
  BY DEF Second

\* The invariant implies the property: the log holds the last write of a row.
LEMMA DueIsAhead ==
  ASSUME RowsSound, LogSound, NEW r \in Keys, NEW c, CursorSound(c, kind, clock), row[r].version > 0,
         Due(kind, r, row[r], c, low)
  PROVE  Ahead(r, c)
<1>1. CASE kind \in {"cosmosdb", "postgresql"}
  BY <1>1 DEF Due, Ahead, Tracked, RowsSound, CursorSound
<1>2. CASE kind = "untracked"
  BY <1>2 DEF Ahead
<1>3. CASE kind = "mssql"
  <2>1. CASE c.pos < row[r].at /\ (c.pos = 0 => low <= row[r].at)
    <3>1. CASE low <= row[r].at
      <4>1. PICK e \in log : e.key = r /\ e.at = row[r].at
        BY <1>3, <3>1 DEF LogSound, Logs
      <4>2. FromLsn(c) <= row[r].at
        BY <2>1, <3>1 DEF FromLsn, RowsSound, CursorSound
      <4>3. e.at >= FromLsn(c)
        BY <4>1, <4>2 DEF FromLsn, RowsSound, CursorSound
      <4> QED BY <1>3, <4>1, <4>3 DEF Ahead
    <3>2. CASE ~(low <= row[r].at)
      <4>1. RetentionPassed(c)
        BY <2>1, <3>2 DEF RetentionPassed, RowsSound, CursorSound
      <4> QED BY <1>3, <4>1 DEF Ahead
    <3> QED BY <3>1, <3>2
  <2>2. CASE ~c.done /\ c.key < r
    <3>1. r > c.key
      BY <2>2
    <3> QED BY <1>3, <2>2, <3>1 DEF Ahead
  <2> QED BY <1>3, <2>1, <2>2 DEF Due
<1>4. CASE kind = "databricks"
  <2>1. CASE ~c.done
    BY <1>4, <2>1 DEF Ahead
  <2>2. CASE c.pos < row[r].at
    <3>1. low <= row[r].at
      BY <1>4 DEF RowsSound
    <3>2. PICK e \in log : e.key = r /\ e.at = row[r].at
      BY <1>4, <3>1 DEF LogSound, Logs
    <3>3. e.at > c.pos
      BY <2>2, <3>2
    <3> QED BY <1>4, <3>2, <3>3 DEF Ahead
  <2> QED BY <1>4, <2>1, <2>2 DEF Due
<1>5. CASE kind = "azure-blob"
  <2>1. CASE ~c.done /\ c.key < r
    <3>1. r > c.key
      BY <2>1
    <3> QED BY <1>5, <2>1, <3>1 DEF Ahead
  <2>2. CASE Watermark(c.pos) <= Second(row[r].at) /\ [key |-> r, version |-> row[r].version] \notin c.processed
    <3>1. LastModified(r) >= Watermark(c.pos)
      BY <2>2 DEF LastModified
    <3> QED BY <1>5, <2>2, <3>1 DEF Ahead
  <2> QED BY <1>5, <2>1, <2>2 DEF Due
<1> QED BY <1>1, <1>2, <1>3, <1>4, <1>5 DEF RowsSound, Kinds

\* The inductive invariant implies the property.
LEMMA SourcesSkipNothing == SourcesIInv => NothingSkipped
<1> SUFFICES ASSUME SourcesIInv, NEW r \in Keys, Readable(r), told[r] # row[r].version,
                    NEW c \in {cursor} \cup ({saved} \ {NoCursor})
             PROVE  Ahead(r, c)
  BY DEF NothingSkipped
<1>1. CursorSound(c, kind, clock) /\ AllMet(c)
  BY DEF SourcesIInv, CursorsSound, OnRecord
<1>2. row[r].version > 0 /\ Shown(kind, row[r])
  BY DEF Readable, Shown
<1>3. Due(kind, r, row[r], c, low)
  BY <1>1, <1>2 DEF AllMet, Met
<1> QED BY <1>1, <1>2, <1>3, DueIsAhead DEF SourcesIInv

\* Every watcher will come to a row that is written now.
LEMMA Touched ==
  ASSUME NEW k \in Kinds, NEW r, NEW w, NEW c, NEW l \in Nat, NEW now \in Nat, l <= now,
         CursorSound(c, k, now), w.at = now + 1, k = "azure-blob" => w.version = now + 1
  PROVE  Due(k, r, w, c, l)
<1>1. c.pos \in Nat /\ c.pos < w.at /\ l <= w.at
  BY DEF CursorSound
<1>2. CASE k = "azure-blob"
  <2>1. Watermark(c.pos) <= Second(w.at)
    BY <1>1, Halves DEF Watermark, Second
  <2>2. [key |-> r, version |-> w.version] \notin c.processed
    <3>1. SUFFICES ASSUME [key |-> r, version |-> w.version] \in c.processed PROVE FALSE
      OBVIOUS
    <3>2. [key |-> r, version |-> w.version].version = now + 1
      BY <1>2
    <3> QED BY <3>1, <3>2 DEF CursorSound
  <2> QED BY <1>2, <2>1, <2>2 DEF Due
<1>3. CASE k # "azure-blob"
  BY <1>1, <1>3 DEF Due, Kinds
<1> QED BY <1>2, <1>3

\* A sound cursor stays sound as time goes on.
LEMMA CursorStays ==
  ASSUME NEW c, NEW k, NEW now \in Nat, CursorSound(c, k, now)
  PROVE  CursorSound(c, k, now + 1)
BY DEF CursorSound

RowSet == [version : Nat, at : Nat, gone : BOOLEAN]

\* A write to the source: rows are changed at one time, and the log says so.
RowsWritten(changed, entries) ==
    /\ UNCHANGED config /\ low' = low /\ clock' = clock + 1
    /\ row' \in [Keys -> RowSet]
    /\ \A r \in Keys \ changed : row'[r] = row[r]
    /\ \A r \in changed : /\ row'[r].at = clock + 1 /\ row'[r].version <= clock + 1
                          /\ \/ row'[r].version = clock + 1
                             \/ row'[r].version = row[r].version /\ kind # "azure-blob"
    /\ kind = "cosmosdb" => \A r, s \in changed : r = s
    /\ kind \in Logs => log' = log \cup entries
    /\ \A e \in entries : /\ DOMAIN e = {"key", "at", "version"} /\ e.key \in changed /\ e.version \in Nat
                          /\ e.at = clock + 1
                          /\ row'[e.key].version > 0
                          /\ e.version = IF row'[e.key].gone THEN 0 ELSE row'[e.key].version
    /\ \A r \in changed : \E e \in entries : e.key = r

\* What is due stays due, and what is written becomes due for every sound cursor.
LEMMA SourceWritten ==
  ASSUME RowsSound, LogSound, told' \in [Keys -> Nat], NEW changed \in SUBSET Keys, NEW entries,
         RowsWritten(changed, entries)
  PROVE  /\ RowsSound' /\ LogSound'
         /\ \A c : CursorSound(c, kind, clock) =>
                /\ CursorSound(c, kind', clock')
                /\ \A r \in Keys : Due(kind, r, row[r], c, low) => Due(kind', r, row'[r], c, low')
                /\ \A r \in changed : Due(kind', r, row'[r], c, low')
<1> USE DEF RowsWritten
<1>0. kind' = kind /\ inline' = inline /\ stamped' = stamped /\ clock \in Nat /\ low \in Nat /\ low <= clock
  BY DEF config, RowsSound
<1>1. \A r \in Keys : row'[r].version \in Nat /\ row'[r].at \in Nat /\ row[r].version \in Nat /\ row[r].at \in Nat
  BY DEF RowsSound, RowSet
<1>2. RowsSound'
  <2>1. \A r \in Keys : row'[r].version <= row'[r].at /\ row'[r].at <= clock'
    <3> TAKE r \in Keys
    <3>1. CASE r \in changed
      BY <1>0, <1>1, <3>1
    <3>2. CASE r \notin changed
      <4>1. row'[r] = row[r] /\ row[r].version <= row[r].at /\ row[r].at <= clock
        BY <3>2 DEF RowsSound
      <4> QED BY <1>0, <1>1, <4>1
    <3> QED BY <3>1, <3>2
  <2>2. ASSUME kind = "cosmosdb", NEW r \in Keys, NEW s \in Keys, row'[r].at = row'[s].at
        PROVE  r = s \/ row'[r].at = 0
    <3>1. CASE r \in changed /\ s \in changed
      BY <2>2, <3>1
    <3>2. CASE r \in changed /\ s \notin changed
      <4>1. row'[r].at = clock + 1 /\ row'[s].at <= clock
        BY <3>2 DEF RowsSound
      <4> QED BY <1>0, <1>1, <2>2, <4>1
    <3>3. CASE r \notin changed /\ s \in changed
      <4>1. row'[s].at = clock + 1 /\ row'[r].at <= clock
        BY <3>3 DEF RowsSound
      <4> QED BY <1>0, <1>1, <2>2, <4>1
    <3>4. CASE r \notin changed /\ s \notin changed
      BY <2>2, <3>4 DEF RowsSound
    <3> QED BY <3>1, <3>2, <3>3, <3>4
  <2>3. clock' \in Nat /\ low' \in Nat /\ low' <= clock' /\ (kind' # "mssql" => low' = 0)
    BY <1>0 DEF RowsSound
  <2> QED BY <1>0, <2>1, <2>2, <2>3 DEF RowsSound, RowSet
<1>3. LogSound'
  <2>1. SUFFICES ASSUME kind \in Logs
                 PROVE  /\ \A e \in log' : DOMAIN e = {"key", "at", "version"} /\ e.key \in Keys /\ e.at \in Nat /\ e.version \in Nat /\ EntryOf(row'[e.key], e)
                        /\ \A r \in Keys : row'[r].version > 0 /\ low' <= row'[r].at => \E e \in log' : e.key = r /\ e.at = row'[r].at
    BY <1>0 DEF LogSound
  <2>2. ASSUME NEW e \in log
        PROVE  DOMAIN e = {"key", "at", "version"} /\ e.key \in Keys /\ e.at \in Nat /\ e.version \in Nat /\ EntryOf(row'[e.key], e)
    <3>1. DOMAIN e = {"key", "at", "version"} /\ e.key \in Keys /\ e.at \in Nat /\ e.version \in Nat /\ EntryOf(row[e.key], e)
      BY <2>1 DEF LogSound
    <3>2. CASE e.key \in changed
      <4>1. e.at <= row[e.key].at /\ row[e.key].at <= clock /\ row[e.key].version > 0
        BY <3>1 DEF EntryOf, RowsSound
      <4>2. row'[e.key].at = clock + 1 /\ row'[e.key].version > 0
        BY <1>0, <1>1, <3>1, <3>2, <4>1
      <4> QED BY <1>0, <1>1, <3>1, <4>1, <4>2 DEF EntryOf
    <3>3. CASE e.key \notin changed
      BY <3>1, <3>3
    <3> QED BY <3>2, <3>3
  <2>3. ASSUME NEW e \in entries
        PROVE  DOMAIN e = {"key", "at", "version"} /\ e.key \in Keys /\ e.at \in Nat /\ e.version \in Nat /\ EntryOf(row'[e.key], e)
    <3>1. row'[e.key].at = clock + 1 /\ e.at = clock + 1 /\ row'[e.key].version > 0
      BY <2>3
    <3>2. e.version = IF row'[e.key].gone THEN 0 ELSE row'[e.key].version
      BY <2>3
    <3> QED BY <1>0, <2>3, <3>1, <3>2 DEF EntryOf
  <2>4. ASSUME NEW r \in Keys, row'[r].version > 0 /\ low' <= row'[r].at
        PROVE  \E e \in log' : e.key = r /\ e.at = row'[r].at
    <3>1. CASE r \in changed
      BY <2>1, <3>1
    <3>2. CASE r \notin changed
      BY <2>1, <2>4, <3>2 DEF LogSound
    <3> QED BY <3>1, <3>2
  <2> QED BY <2>1, <2>2, <2>3, <2>4
<1>4. ASSUME NEW c, CursorSound(c, kind, clock)
      PROVE  /\ CursorSound(c, kind', clock')
             /\ \A r \in Keys : Due(kind, r, row[r], c, low) => Due(kind', r, row'[r], c, low')
             /\ \A r \in changed : Due(kind', r, row'[r], c, low')
  <2>1. CursorSound(c, kind', clock')
    BY <1>0, <1>4, CursorStays
  <2>2. ASSUME NEW r \in changed PROVE Due(kind', r, row'[r], c, low')
    <3>1. row'[r].at = clock + 1 /\ (kind = "azure-blob" => row'[r].version = clock + 1)
      OBVIOUS
    <3>2. kind \in Kinds
      BY DEF RowsSound
    <3> QED BY <1>0, <1>4, <3>1, <3>2, Touched
  <2> QED BY <1>0, <2>1, <2>2
<1> QED BY <1>2, <1>3, <1>4

\* What a write of the source leaves of cursors and page, when nothing is passed on.
LEMMA ChangeKeeps == SourcesIInv /\ Change => SourcesIInv'
<1> SUFFICES ASSUME SourcesIInv, Change PROVE SourcesIInv'
  OBVIOUS
<1>0. UNCHANGED <<config, low, told, cursor, saved, page>>
  BY DEF Change
<1>a. kind' = kind /\ inline' = inline /\ stamped' = stamped /\ low' = low /\ told' = told /\ cursor' = cursor
      /\ saved' = saved /\ page' = page
  BY <1>0 DEF config
<1>b. clock \in Nat /\ row \in [Keys -> RowSet]
  BY DEF SourcesIInv, RowsSound, RowSet
<1>1. /\ RowsSound' /\ LogSound'
      /\ \A c : CursorSound(c, kind, clock) =>
             /\ CursorSound(c, kind', clock')
             /\ \A r \in Keys : Due(kind, r, row[r], c, low) => Due(kind', r, row'[r], c, low')
             /\ \A r \in Keys : row'[r] # row[r] => Due(kind', r, row'[r], c, low')
  <2>1. ASSUME NEW S \in (SUBSET Keys) \ {{}}, kind \in {"cosmosdb", "azure-blob"} => Cardinality(S) = 1, Write(S)
        PROVE  /\ RowsSound' /\ LogSound'
               /\ \A c : CursorSound(c, kind, clock) =>
                      /\ CursorSound(c, kind', clock')
                      /\ \A r \in Keys : Due(kind, r, row[r], c, low) => Due(kind', r, row'[r], c, low')
                      /\ \A r \in Keys : row'[r] # row[r] => Due(kind', r, row'[r], c, low')
    <3>1. clock' = clock + 1 /\ row' = [r \in Keys |-> IF r \in S THEN [version |-> clock + 1, at |-> clock + 1, gone |-> FALSE] ELSE row[r]]
      BY <2>1 DEF Write
    <3>2. kind \in Logs => log' = log \cup Entries(S)
      BY <2>1 DEF Write, Logged, Logs
    <3>3. row' \in [Keys -> RowSet] /\ told' \in [Keys -> Nat]
      BY <1>a, <1>b, <3>1 DEF RowSet, SourcesIInv, RowsSound
    <3>4. \A r \in Keys \ S : row'[r] = row[r]
      BY <3>1
    <3>5. \A r \in S : row'[r].at = clock + 1 /\ row'[r].version = clock + 1 /\ row'[r].gone = FALSE
      BY <3>1
    <3>6. kind = "cosmosdb" => \A r, s \in S : r = s
      <4>1. IsFiniteSet(S)
        BY SourcesAssumption, FS_Subset
      <4> QED BY <2>1, <4>1, FS_Singleton
    <3>7. \A e \in Entries(S) : /\ DOMAIN e = {"key", "at", "version"} /\ e.key \in S /\ e.version = clock + 1
                                /\ e.at = clock + 1
      BY DEF Entries
    <3>8. \A r \in S : \E e \in Entries(S) : e.key = r
      <4> TAKE r \in S
      <4>1. [key |-> r, at |-> clock + 1, version |-> clock + 1] \in Entries(S)
        BY DEF Entries
      <4> QED BY <4>1
    <3>9. \A e \in Entries(S) : /\ DOMAIN e = {"key", "at", "version"} /\ e.key \in S /\ e.version \in Nat
                                /\ e.at = clock + 1
                                /\ row'[e.key].version > 0
                                /\ e.version = IF row'[e.key].gone THEN 0 ELSE row'[e.key].version
      BY <1>b, <3>5, <3>7
    <3>10. \A r \in S : /\ row'[r].at = clock + 1 /\ row'[r].version <= clock + 1
                        /\ \/ row'[r].version = clock + 1
                           \/ row'[r].version = row[r].version /\ kind # "azure-blob"
      BY <1>b, <3>5
    <3>11. RowsSound /\ LogSound
      BY DEF SourcesIInv
    <3>12. /\ RowsSound' /\ LogSound'
           /\ \A c : CursorSound(c, kind, clock) =>
                /\ CursorSound(c, kind', clock')
                /\ \A r \in Keys : Due(kind, r, row[r], c, low) => Due(kind', r, row'[r], c, low')
                /\ \A r \in S : Due(kind', r, row'[r], c, low')
      <4>1. S \in SUBSET Keys
        OBVIOUS
      <4>2. RowsWritten(S, Entries(S))
        BY <1>a, <3>1, <3>2, <3>3, <3>4, <3>6, <3>8, <3>9, <3>10 DEF RowsWritten, config
      <4> QED BY <3>3, <3>11, <4>1, <4>2, SourceWritten
    <3> QED BY <3>4, <3>12
  <2>2. ASSUME NEW d \in Keys, Delete(d)
        PROVE  /\ RowsSound' /\ LogSound'
               /\ \A c : CursorSound(c, kind, clock) =>
                      /\ CursorSound(c, kind', clock')
                      /\ \A r \in Keys : Due(kind, r, row[r], c, low) => Due(kind', r, row'[r], c, low')
                      /\ \A r \in Keys : row'[r] # row[r] => Due(kind', r, row'[r], c, low')
    <3> DEFINE entries == {[key |-> d, at |-> clock + 1, version |-> 0]}
    <3>1. clock' = clock + 1 /\ row' = [row EXCEPT ![d] = [version |-> clock + 1, at |-> clock + 1, gone |-> TRUE]]
      BY <2>2 DEF Delete
    <3>2. kind \in Logs => log' = log \cup entries
      BY <2>2 DEF Delete, Logged, Logs
    <3>3. row' \in [Keys -> RowSet] /\ told' \in [Keys -> Nat]
      BY <1>a, <1>b, <3>1 DEF RowSet, SourcesIInv, RowsSound
    <3>4. \A r \in Keys \ {d} : row'[r] = row[r]
      BY <1>b, <3>1
    <3>5. row'[d].at = clock + 1 /\ row'[d].version = clock + 1 /\ row'[d].gone = TRUE
      BY <1>b, <3>1
    <3>9. \A e \in entries : /\ DOMAIN e = {"key", "at", "version"} /\ e.key \in {d} /\ e.version \in Nat
                             /\ e.at = clock + 1
                             /\ row'[e.key].version > 0
                             /\ e.version = IF row'[e.key].gone THEN 0 ELSE row'[e.key].version
      BY <1>b, <3>5
    <3>10. \A r \in {d} : /\ row'[r].at = clock + 1 /\ row'[r].version <= clock + 1
                          /\ \/ row'[r].version = clock + 1
                             \/ row'[r].version = row[r].version /\ kind # "azure-blob"
      BY <1>b, <3>5
    <3>11. RowsSound /\ LogSound
      BY DEF SourcesIInv
    <3>12. /\ RowsSound' /\ LogSound'
           /\ \A c : CursorSound(c, kind, clock) =>
                /\ CursorSound(c, kind', clock')
                /\ \A r \in Keys : Due(kind, r, row[r], c, low) => Due(kind', r, row'[r], c, low')
                /\ \A r \in {d} : Due(kind', r, row'[r], c, low')
      <4>1. {d} \in SUBSET Keys /\ (\A r, s \in {d} : r = s) /\ (\A r \in {d} : \E e \in entries : e.key = r)
        OBVIOUS
      <4> HIDE DEF entries
      <4>2. RowsWritten({d}, entries)
        BY <1>a, <3>1, <3>2, <3>3, <3>4, <3>9, <3>10, <4>1 DEF RowsWritten, config
      <4> QED BY <3>3, <3>11, <4>1, <4>2, SourceWritten
    <3> QED BY <3>4, <3>12
  <2> QED BY <2>1, <2>2 DEF Change
<1>2. \A c : CursorSound(c, kind, clock) /\ AllMet(c) => \A r \in Keys : Shown(kind', row'[r]) => told'[r] = row'[r].version \/ Due(kind', r, row'[r], c, low')
  BY <1>1, <1>a DEF AllMet, Met
<1>3. CursorsSound'
  BY <1>1, <1>2, <1>a DEF SourcesIInv, CursorsSound, AllMet, Met
<1>4. OnRecord'
  BY <1>1, <1>2, <1>a DEF SourcesIInv, OnRecord, AllMet, Met
<1>5. Course'
  <2>1. Listing' = Listing
    BY <1>a DEF Listing
  <2>2. page.phase = "begun" /\ kind = "databricks" => \A e \in log' \ log : e.at = clock + 1
    <3>1. \A S \in SUBSET Keys : \A e \in Logged(Entries(S)) : e \in log \/ e.at = clock + 1
      BY DEF Logged, Entries
    <3>2. \A d \in Keys : \A e \in Logged({[key |-> d, at |-> clock + 1, version |-> 0]}) : e \in log \/ e.at = clock + 1
      BY DEF Logged
    <3> QED BY <3>1, <3>2 DEF Change, Write, Delete
  <2>3. page.phase = "begun" => page.next.pos \in Nat /\ page.next.pos <= clock
    BY DEF SourcesIInv, PageSound, CursorSound
  <2>4. page.phase = "begun" /\ kind = "databricks" /\ cursor.done => \A e \in log' : e.version > 0 => ~(cursor.pos < e.at /\ e.at < page.next.pos)
    <3>1. page.phase = "begun" /\ kind = "databricks" /\ cursor.done => \A e \in log : e.version > 0 => ~(cursor.pos < e.at /\ e.at < page.next.pos)
      BY DEF SourcesIInv, Course
    <3>2. page.phase = "begun" => ~(clock + 1 < page.next.pos)
      BY <1>b, <2>3
    <3> QED BY <2>2, <3>1, <3>2
  <2> QED BY <1>a, <2>1, <2>4 DEF SourcesIInv, Course
<1>6. PageSound'
  <2>1. Listing' = Listing
    BY <1>a DEF Listing
  <2>2. page.phase # "none" => CursorSound(page.next, kind, clock)
    BY DEF SourcesIInv, PageSound
  <2>3. \A i \in page.items : page.phase # "none"
    BY DEF SourcesIInv, PageSound, NoPage
  <2>4. ASSUME NEW i \in page.items, NEW c, CursorSound(c, kind, clock), ItemSound(i, c)
        PROVE  row'[i.key].version = i.version \/ Due(kind', i.key, row'[i.key], c, low')
    <3>1. i.key \in Keys
      BY DEF SourcesIInv, PageSound
    <3> QED BY <1>1, <2>4, <3>1 DEF ItemSound
  <2>5. ASSUME NEW i \in page.items
        PROVE  /\ ItemSound(i, cursor)' /\ ItemSound(i, page.next)' /\ (saved # NoCursor => ItemSound(i, saved))'
    BY <1>a, <2>2, <2>3, <2>4 DEF SourcesIInv, PageSound, CursorsSound, OnRecord, ItemSound
  <2>6. \A i \in page.items : row'[i.key].version > 0
    <3> TAKE i \in page.items
    <3>1. i.key \in Keys /\ row[i.key].version > 0
      BY DEF SourcesIInv, PageSound
    <3>2. row'[i.key].version = row[i.key].version \/ row'[i.key].version = clock + 1
      <4>1. CASE \E S \in SUBSET Keys : Write(S)
        BY <3>1, <4>1 DEF Write
      <4>2. CASE \E d \in Keys : Delete(d)
        BY <1>b, <3>1, <4>2 DEF Delete
      <4> QED BY <4>1, <4>2 DEF Change
    <3> QED BY <1>b, <3>1, <3>2
  <2>7. ASSUME page.phase = "read" \/ Listing, NEW r \in Keys \ page.left
        PROVE  (Shown(kind', row'[r]) => told'[r] = row'[r].version \/ Due(kind', r, row'[r], page.next, low'))
               \/ [key |-> r, version |-> row'[r].version] \in page.items
    <3>1. Met(r, page.next) \/ [key |-> r, version |-> row[r].version] \in page.items
      BY <2>7 DEF SourcesIInv, PageSound
    <3>2. CursorSound(page.next, kind, clock)
      BY <2>2, <2>7 DEF Listing
    <3> QED BY <1>1, <1>a, <3>1, <3>2 DEF Met
  <2> HIDE DEF Listing
  <2>8. page.phase # "none" => CursorSound(page.next, kind', clock')
    BY <1>1, <2>2
  <2> QED BY <1>a, <2>1, <2>5, <2>6, <2>7, <2>8 DEF SourcesIInv, PageSound, Met
<1> QED BY <1>1, <1>3, <1>4, <1>5, <1>6 DEF SourcesIInv

\* Sets of keys are finite sets of positive numbers.
LEMMA KeysFinite == \A U \in SUBSET Keys : IsFiniteSet(U) /\ U \subseteq Nat /\ 0 \notin U
  BY SourcesAssumption, FS_Subset

\* A finite nonempty set of numbers has a largest element.
LEMMA LargestElement ==
  ASSUME NEW T \in SUBSET Nat, IsFiniteSet(T), T # {}
  PROVE  Largest(T) \in T /\ \A k \in T : k <= Largest(T)
<1>1. PICK R : \A x, y \in T : <<x, y>> \in R <=> x < y
  <2>1. \A x, y \in T : <<x, y>> \in {p \in Nat \X Nat : p[1] < p[2]} <=> x < y
    OBVIOUS
  <2> QED BY <2>1
<1>2. StrictOrder(R, T)
  <2>1. \A x \in T : x \in Nat
    OBVIOUS
  <2> QED BY <1>1, <2>1 DEF StrictOrder
<1>3. PICK m \in T : \A x \in T : x # m => <<x, m>> \in R
  BY <1>2, LastOfAll, Zenon
<1>4. ASSUME NEW k \in T PROVE k <= m
  <2>1. k = m \/ k < m
    BY <1>1, <1>3, Zenon
  <2>2. k \in Nat /\ m \in Nat
    OBVIOUS
  <2> QED BY <2>1, <2>2
<1> QED BY <1>4 DEF Largest

\* The pages of a scan and of the change feed.
LEMMA ByKeyPage ==
  ASSUME NEW U \in SUBSET Keys
  PROVE  /\ ByKey(U) \subseteq U
         /\ \A r \in U \ ByKey(U) : Cardinality(ByKey(U)) = PageLimit /\ \A s \in ByKey(U) : s < r
<1>1. PICK R : \A x, y \in Keys : <<x, y>> \in R <=> x < y
  <2>1. \A x, y \in Keys : <<x, y>> \in {p \in Keys \X Keys : p[1] < p[2]} <=> x < y
    OBVIOUS
  <2> QED BY <2>1
<1>2. StrictOrder(R, U)
  <2>1. \A x \in U : x \in Nat /\ x \in Keys
    BY KeysFinite
  <2> QED BY <1>1, <2>1 DEF StrictOrder
<1>3. \A x \in U : Before(R, U, x) = {k \in U : k < x}
  BY <1>1 DEF Before
<1>4. ByKey(U) = FirstOf(R, U, PageLimit)
  BY <1>3 DEF ByKey, FirstOf
<1>5. PICK S : S = ByKey(U)
  OBVIOUS
<1>6. \A r \in U \ S : Cardinality(S) = PageLimit /\ \A s \in S : <<s, r>> \in R
  <2>1. IsFiniteSet(U) /\ PageLimit \in Nat \ {0}
    BY KeysFinite, SourcesAssumption
  <2>2. S = FirstOf(R, U, PageLimit)
    BY <1>4, <1>5
  <2> QED BY <1>2, <2>1, <2>2, FirstPage
<1>7. S \subseteq U
  BY <1>5 DEF ByKey
<1> QED BY <1>1, <1>5, <1>6, <1>7

\* A page of the change feed: a prefix in the order of writes, which its last row ends.
LEMMA ByTimePage ==
  ASSUME RowsSound, NEW U \in SUBSET Keys, U # {}
  PROVE  /\ ByTime(U) \subseteq U /\ Last(ByTime(U)) \in ByTime(U)
         /\ \A r \in U \ ByTime(U) : Earlier(Last(ByTime(U)), r)
<1> DEFINE R == {p \in Keys \X Keys : Earlier(p[1], p[2])}
<1>1. \A x, y \in Keys : <<x, y>> \in R <=> Earlier(x, y)
  OBVIOUS
<1> HIDE DEF R
<1>2. StrictOrder(R, U)
  <2>1. \A x \in U : x \in Nat /\ x \in Keys /\ row[x].at \in Nat
    BY KeysFinite DEF RowsSound
  <2> QED BY <1>1, <2>1 DEF StrictOrder, Earlier
<1>3. \A x \in U : Before(R, U, x) = {k \in U : Earlier(k, x)}
  BY <1>1 DEF Before
<1>4. ByTime(U) = FirstOf(R, U, PageLimit)
  BY <1>3 DEF ByTime, FirstOf
<1>5. PICK S : S = ByTime(U)
  OBVIOUS
<1>6. S # {} /\ \A r \in U \ S : \A s \in S : <<s, r>> \in R
  <2>1. IsFiniteSet(U) /\ PageLimit \in Nat \ {0}
    BY KeysFinite, SourcesAssumption
  <2>2. S = FirstOf(R, U, PageLimit)
    BY <1>4, <1>5
  <2> QED BY <1>2, <2>1, <2>2, FirstPage
<1>7. S \in SUBSET U
  BY <1>5 DEF ByTime
<1>8. PICK m \in S : \A x \in S : x # m => <<x, m>> \in R
  BY <1>2, <1>6, <1>7, KeysFinite, LastElement
<1>9. \A x \in S : ~Earlier(m, x)
  <2> TAKE x \in S
  <2>1. x \in Keys /\ m \in Keys /\ row[x].at \in Nat /\ row[m].at \in Nat /\ x \in Nat /\ m \in Nat
    BY <1>7, KeysFinite DEF RowsSound
  <2>2. x = m \/ Earlier(x, m)
    BY <1>1, <1>8, <2>1
  <2> QED BY <2>1, <2>2 DEF Earlier
<1>10. Last(S) \in S
  BY <1>9 DEF Last
<1> QED BY <1>1, <1>5, <1>6, <1>7, <1>10

\* The rows of a page that are passed on carry what the source has now.
LEMMA EligibleRows ==
  ASSUME NEW S \in SUBSET Keys
  PROVE  /\ \A i \in Eligible(S) : DOMAIN i = {"key", "version"} /\ i.key \in S /\ i.version = row[i.key].version
         /\ \A r \in S : told[r] # row[r].version => [key |-> r, version |-> row[r].version] \in Eligible(S)
BY DEF Eligible, HasCurrentEmbedding

\* While the source rests, only cursor and page matter.
LEMMA SourceRests ==
  ASSUME SourcesIInv, UNCHANGED <<config, source, told>>
  PROVE  /\ RowsSound' /\ LogSound'
         /\ kind' = kind /\ row' = row /\ low' = low /\ clock' = clock /\ told' = told /\ log' = log
BY DEF SourcesIInv, RowsSound, LogSound, config, source

\* While source and cursors rest, the cursors stay sound.
LEMMA CursorRests ==
  ASSUME SourcesIInv, UNCHANGED <<config, source, told, cursor, saved>>
  PROVE  CursorsSound' /\ OnRecord'
BY SourceRests DEF SourcesIInv, CursorsSound, OnRecord, AllMet, Met

\* A page of rows as they are now: what is left out is due behind it.
LEMMA PageRead ==
  ASSUME SourcesIInv, UNCHANGED <<config, source, told, cursor, saved>>, NEW S \in SUBSET Keys,
         \A r \in S : Readable(r),
         DOMAIN page' = PageFields, page'.phase = "read", page'.items = Eligible(S), page'.left = {},
         CursorSound(page'.next, kind, clock),
         \A r \in Keys \ S : Readable(r) /\ told[r] # row[r].version => Due(kind, r, row[r], page'.next, low),
         kind = "mssql" => (page'.next.pos = 0 => cursor.pos = 0)
  PROVE  SourcesIInv'
<1>1. RowsSound' /\ LogSound' /\ CursorsSound' /\ OnRecord'
  BY SourceRests, CursorRests
<1>2. \A r \in Keys : Readable(r) <=> Shown(kind, row[r])
  BY DEF Readable, Shown
<1>3. \A i \in Eligible(S) : /\ i.key \in Keys /\ i.version = row[i.key].version /\ DOMAIN i = {"key", "version"}
                             /\ i.version \in Nat /\ row[i.key].version > 0
  BY EligibleRows DEF SourcesIInv, RowsSound, Readable
<1>4. \A i \in page'.items : ItemSound(i, cursor)' /\ ItemSound(i, page.next)' /\ ItemSound(i, saved)'
  BY <1>3, SourceRests DEF ItemSound
<1>5. \A r \in Keys : Met(r, page.next)' \/ [key |-> r, version |-> row'[r].version] \in page'.items
  BY <1>2, EligibleRows, SourceRests DEF Met
<1>6. PageSound'
  BY <1>3, <1>4, <1>5, SourceRests DEF PageSound, Listing, PageFields
<1>7. Course'
  BY SourceRests DEF Course, Listing
<1> QED BY <1>1, <1>6, <1>7 DEF SourcesIInv

\* One page of a scan in the order of keys.
LEMMA ScanKeeps == SourcesIInv /\ ReadScan => SourcesIInv'
<1> SUFFICES ASSUME SourcesIInv, ReadScan PROVE SourcesIInv'
  OBVIOUS
<1>0. UNCHANGED <<config, source, told, cursor, saved>> /\ Scans /\ page.phase = "none"
  BY DEF ReadScan
<1>1. PICK U \in SUBSET Keys : U = Unscanned(cursor) /\ U = {r \in Keys : Readable(r) /\ r > cursor.key}
  BY DEF Unscanned
<1>2. PICK S \in SUBSET U : S = ByKey(U)
  BY DEF ByKey
<1>3. PICK next : next = ScanNext(S)
  OBVIOUS
<1>4. /\ DOMAIN page' = PageFields /\ page'.phase = "read" /\ page'.items = Eligible(S) /\ page'.left = {}
      /\ page'.next = next
  BY <1>1, <1>2, <1>3 DEF ReadScan, NoPage, PageFields
<1>5. CursorSound(cursor, kind, clock) /\ clock \in Nat
  BY DEF SourcesIInv, CursorsSound, RowsSound
<1>6. PICK last : last = Largest({cursor.key} \cup S)
  OBVIOUS
<1>7. last \in Nat /\ cursor.key <= last /\ (\A s \in S : s <= last) /\ (last = cursor.key \/ last \in S)
  <2>1. IsFiniteSet(S) /\ S \in SUBSET Nat
    BY KeysFinite
  <2>2. IsFiniteSet({cursor.key} \cup S)
    BY <2>1, FS_AddElement
  <2>3. PICK T \in SUBSET Nat : T = {cursor.key} \cup S
    BY <1>5, <2>1 DEF CursorSound
  <2>4. last \in T /\ \A k \in T : k <= last
    BY <1>6, <2>2, <2>3, LargestElement
  <2> QED BY <2>3, <2>4
<1>8. \A r \in U \ S : Cardinality(S) = PageLimit /\ \A s \in S : s < r
  BY <1>2, ByKeyPage
<1>9. \A r \in U \ S : last < r
  <2> TAKE r \in U \ S
  <2>1. r \in Nat /\ cursor.key < r /\ \A s \in S : s < r
    BY <1>1, <1>5, <1>8, KeysFinite DEF CursorSound
  <2> QED BY <1>7, <2>1
<1>10. \A r \in Keys : Readable(r) /\ told[r] # row[r].version => Due(kind, r, row[r], cursor, low)
  BY DEF SourcesIInv, CursorsSound, AllMet, Met, Readable, Shown
<1>11. CASE kind = "untracked"
  <2>1. next = [cursor EXCEPT !.key = IF Cardinality(S) = PageLimit THEN last ELSE 0]
    BY <1>3, <1>6, <1>11 DEF ScanNext
  <2>2. PICK k \in Nat : k = IF Cardinality(S) = PageLimit THEN last ELSE 0
    BY <1>7
  <2>3. CursorSound(next, kind, clock)
    BY <1>5, <1>11, <2>1, <2>2 DEF CursorSound, CursorFields
  <2>4. \A r \in Keys : Due(kind, r, row[r], next, low)
    BY <1>11 DEF Due
  <2> QED BY <1>0, <1>1, <1>2, <1>4, <1>11, <2>3, <2>4, PageRead
<1>12. CASE kind = "mssql"
  <2>1. ~cursor.done /\ cursor.pos = 0
    BY <1>0, <1>5, <1>12 DEF Scans, CursorSound
  <2>2. PICK more \in BOOLEAN : more = (Cardinality(S) = PageLimit)
    OBVIOUS
  <2>3. next = [cursor EXCEPT !.key = last, !.done = ~more]
    BY <1>3, <1>6, <1>12, <2>2 DEF ScanNext
  <2>4. DOMAIN next = CursorFields /\ next.key = last /\ next.done = ~more /\ next.pos = 0 /\ next.snap = cursor.snap /\ next.processed = cursor.processed
    BY <1>5, <2>1, <2>3 DEF CursorSound, CursorFields
  <2>5. CursorSound(next, kind, clock)
    BY <1>5, <1>7, <2>1, <2>4 DEF CursorSound
  <2>6. ASSUME NEW r \in Keys \ S, Readable(r), told[r] # row[r].version PROVE Due(kind, r, row[r], next, low)
    <3>1. CASE r \in U
      <4>1. more /\ last < r
        BY <1>8, <1>9, <2>2, <2>6, <3>1
      <4> QED BY <1>12, <2>4, <4>1 DEF Due
    <3>2. CASE r \notin U
      <4>1. ~(cursor.key < r)
        BY <1>1, <1>5, <2>6, <3>2, KeysFinite DEF CursorSound
      <4>2. cursor.pos < row[r].at /\ (cursor.pos = 0 => low <= row[r].at)
        BY <1>10, <1>12, <2>6, <4>1 DEF Due
      <4> QED BY <1>12, <2>1, <2>4, <4>2 DEF Due
    <3> QED BY <3>1, <3>2
  <2> QED BY <1>0, <1>1, <1>2, <1>4, <2>1, <2>4, <2>5, <2>6, PageRead
<1>13. CASE kind = "azure-blob"
  <2>1. ~cursor.done
    BY <1>0, <1>13 DEF Scans
  <2>2. PICK all \in BOOLEAN : all = (S = U)
    OBVIOUS
  <2>3. PICK passed : passed = cursor.processed \cup Eligible(S)
    OBVIOUS
  <2>4. next = [cursor EXCEPT !.key = last, !.done = all, !.processed = passed]
    BY <1>1, <1>3, <1>6, <1>13, <2>2, <2>3 DEF ScanNext
  <2>5. DOMAIN next = CursorFields /\ next.key = last /\ next.done = all /\ next.pos = cursor.pos /\ next.snap = cursor.snap /\ next.processed = passed
    BY <1>5, <2>4 DEF CursorSound, CursorFields
  <2>6. \A b \in passed : b.version \in Nat /\ b.version <= clock
    <3>1. \A b \in cursor.processed : b.version \in Nat /\ b.version <= clock
      BY <1>5 DEF CursorSound
    <3>2. \A b \in Eligible(S) : b.key \in Keys /\ b.version = row[b.key].version
      BY <1>1, <1>2, EligibleRows
    <3>3. \A r \in Keys : row[r].version \in Nat /\ row[r].version <= clock
      BY DEF SourcesIInv, RowsSound
    <3> QED BY <2>3, <3>1, <3>2, <3>3
  <2>7. CursorSound(next, kind, clock)
    BY <1>5, <1>7, <1>13, <2>5, <2>6 DEF CursorSound
  <2>8. ASSUME NEW r \in Keys \ S, Readable(r), told[r] # row[r].version PROVE Due(kind, r, row[r], next, low)
    <3>1. CASE r \in U
      <4>1. ~all /\ last < r
        BY <1>9, <2>2, <2>8, <3>1
      <4> QED BY <1>13, <2>5, <4>1 DEF Due
    <3>2. CASE r \notin U
      <4>1. ~(cursor.key < r)
        BY <1>1, <1>5, <2>8, <3>2, KeysFinite DEF CursorSound
      <4>2. Watermark(cursor.pos) <= Second(row[r].at) /\ [key |-> r, version |-> row[r].version] \notin cursor.processed
        BY <1>10, <1>13, <2>8, <4>1 DEF Due
      <4>3. [key |-> r, version |-> row[r].version] \notin Eligible(S)
        BY <1>1, <1>2, <2>8, EligibleRows
      <4> QED BY <1>13, <2>3, <2>5, <4>2, <4>3 DEF Due
    <3> QED BY <3>1, <3>2
  <2> QED BY <1>0, <1>1, <1>2, <1>4, <1>13, <2>7, <2>8, PageRead
<1> QED BY <1>0, <1>11, <1>12, <1>13 DEF Scans

\* One page of the change feed or of a tracking column.
LEMMA TrackedKeeps == SourcesIInv /\ ReadTracked => SourcesIInv'
<1> SUFFICES ASSUME SourcesIInv, ReadTracked PROVE SourcesIInv'
  OBVIOUS
<1>0. UNCHANGED <<config, source, told, cursor, saved>> /\ kind \in {"cosmosdb", "postgresql"}
  BY DEF ReadTracked
<1>1. PICK U \in SUBSET Keys : U = Untold(cursor) /\ U = {r \in Keys : Readable(r) /\ Tracked(r, cursor)}
  BY DEF Untold
<1>2. U # {}
  BY <1>1 DEF ReadTracked
<1>3. PICK S \in SUBSET U : S = ByTime(U)
  BY DEF ByTime
<1>4. PICK m \in S : m = Last(S) /\ \A r \in U \ S : Earlier(m, r)
  BY <1>2, <1>3, ByTimePage DEF SourcesIInv
<1>5. PICK next : next = [cursor EXCEPT !.pos = row[m].at, !.key = m]
  OBVIOUS
<1>6. /\ DOMAIN page' = PageFields /\ page'.phase = "read" /\ page'.items = Eligible(S) /\ page'.left = {}
      /\ page'.next = next
  BY <1>1, <1>3, <1>4, <1>5 DEF ReadTracked, NoPage, PageFields
<1>7. CursorSound(cursor, kind, clock) /\ clock \in Nat /\ m \in Nat /\ m \in Keys /\ row[m].at \in Nat /\ row[m].at <= clock
  BY KeysFinite DEF SourcesIInv, CursorsSound, RowsSound
<1>8. next.pos = row[m].at /\ next.key = m
  BY <1>5, <1>7 DEF CursorSound, CursorFields
<1>9. CursorSound(next, kind, clock)
  BY <1>0, <1>5, <1>7 DEF CursorSound, CursorFields
<1>10. ASSUME NEW r \in Keys \ S, Readable(r), told[r] # row[r].version PROVE Due(kind, r, row[r], next, low)
  <2>1. Due(kind, r, row[r], cursor, low)
    BY <1>10 DEF SourcesIInv, CursorsSound, AllMet, Met, Readable, Shown
  <2>2. Tracked(r, cursor)
    BY <1>0, <2>1 DEF Due, Tracked
  <2>3. Earlier(m, r)
    BY <1>1, <1>4, <1>10, <2>2
  <2>4. CASE row[m].at < row[r].at
    BY <1>0, <1>8, <2>4 DEF Due
  <2>5. CASE row[m].at = row[r].at /\ m < r
    <3>1. CASE kind = "postgresql"
      BY <1>8, <2>5, <3>1 DEF Due
    <3>2. CASE kind = "cosmosdb"
      <4>1. m = r \/ row[m].at = 0
        BY <1>7, <2>5, <3>2 DEF SourcesIInv, RowsSound
      <4>2. row[m].version > 0 /\ row[m].version <= row[m].at /\ row[m].version \in Nat
        BY <1>1, <1>7 DEF SourcesIInv, RowsSound, Readable
      <4> QED BY <1>7, <1>10, <4>1, <4>2
    <3> QED BY <1>0, <3>1, <3>2
  <2> QED BY <2>3, <2>4, <2>5 DEF Earlier
<1> QED BY <1>0, <1>1, <1>3, <1>6, <1>9, <1>10, PageRead

\* A cursor that has passed nothing.
LEMMA FreshCursor ==
  ASSUME RowsSound
  PROVE  /\ CursorSound(Fresh, kind, clock)
         /\ \A r \in Keys : row[r].version > 0 => Due(kind, r, row[r], Fresh, low)
         /\ AllMet(Fresh)
<1>1. clock \in Nat /\ clock <= clock
  BY DEF RowsSound
<1>2. PICK c : c = Fresh
  OBVIOUS
<1>3. PICK n \in Nat : n <= clock /\ n = IF kind = "azure-blob" THEN clock ELSE 0
  BY <1>1
<1>4. c = [done |-> FALSE, key |-> 0, pos |-> n, snap |-> NoVersion, processed |-> {}]
  BY <1>2, <1>3 DEF Fresh
<1>5. CursorSound(c, kind, clock)
  BY <1>1, <1>3, <1>4 DEF CursorSound, CursorFields
<1>6. ASSUME NEW r \in Keys, row[r].version > 0 PROVE Due(kind, r, row[r], c, low)
  <2>1. 0 < r /\ row[r].at \in Nat /\ row[r].version \in Nat /\ row[r].version <= row[r].at
    BY SourcesAssumption DEF RowsSound
  <2>2. 0 < row[r].at
    BY <1>6, <2>1
  <2>3. ~c.done /\ c.key < r
    BY <1>4, <2>1
  <2>4. kind \in {"cosmosdb", "postgresql"} => c.pos < row[r].at
    BY <1>3, <1>4, <2>2
  <2> QED BY <2>3, <2>4 DEF Due, RowsSound, Kinds
<1> QED BY <1>2, <1>5, <1>6 DEF AllMet, Met, Shown

\* No page in hand, and a cursor that nothing was lost behind.
LEMMA NoPageKeeps ==
  ASSUME SourcesIInv, UNCHANGED <<config, source, told>>, page' = NoPage, CursorsSound', OnRecord'
  PROVE  SourcesIInv'
<1>1. PageSound'
  BY DEF PageSound, NoPage, Listing, PageFields
<1>2. Course'
  BY DEF Course, NoPage, Listing
<1> QED BY <1>1, <1>2, SourceRests DEF SourcesIInv

\* SQL Server: the range to read, and the rows of the range.
LEMMA MaxLsnKeeps == SourcesIInv /\ (ReadMaxLsn \/ ReadRefused) => SourcesIInv'
<1>1. ASSUME SourcesIInv, ReadRefused PROVE SourcesIInv'
  BY <1>1, CursorRests, NoPageKeeps DEF ReadRefused
<1>2. ASSUME SourcesIInv, ReadMaxLsn, RetentionPassed(cursor) PROVE SourcesIInv'
  <2>1. UNCHANGED <<config, source, told, saved>> /\ cursor' = Fresh /\ kind = "mssql" /\ page' = NoPage
    BY <1>2 DEF ReadMaxLsn, SourcesIInv, PageSound
  <2>2. CursorsSound'
    BY <1>2, <2>1, FreshCursor, SourceRests DEF SourcesIInv, CursorsSound, AllMet, Met
  <2>3. OnRecord'
    BY <1>2, <2>1, SourceRests DEF SourcesIInv, OnRecord
  <2> QED BY <1>2, <2>1, <2>2, <2>3, NoPageKeeps
<1>3. ASSUME SourcesIInv, ReadMaxLsn, ~RetentionPassed(cursor) PROVE SourcesIInv'
  <2>1. UNCHANGED <<config, source, told, cursor, saved>> /\ kind = "mssql" /\ cursor.done /\ clock > 0
    BY <1>3 DEF ReadMaxLsn
  <2>2. PICK next : next = [cursor EXCEPT !.pos = clock]
    OBVIOUS
  <2>3. page' = [NoPage EXCEPT !.phase = "begun", !.next = next]
    BY <1>3, <2>2 DEF ReadMaxLsn
  <2>4. CursorSound(cursor, kind, clock) /\ clock \in Nat
    BY <1>3 DEF SourcesIInv, CursorsSound, RowsSound
  <2>5. CursorSound(next, kind, clock) /\ next.done /\ next.pos = clock
    <3>1. /\ DOMAIN next = CursorFields /\ next.done = cursor.done /\ next.key = cursor.key /\ next.pos = clock
          /\ next.snap = cursor.snap /\ next.processed = cursor.processed
      BY <2>2, <2>4 DEF CursorSound, CursorFields
    <3> QED BY <2>1, <2>4, <3>1 DEF CursorSound
  <2>6. DOMAIN page' = PageFields /\ page'.phase = "begun" /\ page'.items = {} /\ page'.left = {} /\ page'.next = next
    BY <2>3 DEF NoPage, PageFields
  <2>7. kind' = kind /\ clock' = clock /\ cursor' = cursor /\ ~Listing'
    BY <1>3, <2>1, SourceRests DEF Listing
  <2>8. PageSound'
    BY <2>1, <2>5, <2>6, <2>7 DEF PageSound
  <2>9. Course'
    BY <2>1, <2>4, <2>5, <2>6, <2>7 DEF Course
  <2> QED BY <1>3, <2>1, <2>8, <2>9, SourceRests, CursorRests DEF SourcesIInv
<1> QED BY <1>1, <1>2, <1>3

\* SQL Server: the rows of a range are those that may be due behind its end.
LEMMA ChangesKeep == SourcesIInv /\ ReadChanges => SourcesIInv'
<1> SUFFICES ASSUME SourcesIInv, ReadChanges PROVE SourcesIInv'
  OBVIOUS
<1>0. /\ UNCHANGED <<config, source, told, cursor, saved>>
      /\ kind = "mssql" /\ page.phase = "begun" /\ low <= FromLsn(cursor)
  BY DEF ReadChanges
<1>1. PICK S \in SUBSET Keys :
          S = {r \in Keys : Readable(r) /\ \E e \in log : e.key = r /\ e.at \in FromLsn(cursor) .. page.next.pos /\ e.version > 0}
  OBVIOUS
<1>2. page' = [page EXCEPT !.phase = "read", !.items = Eligible(S)]
  BY <1>1 DEF ReadChanges
<1>3. /\ DOMAIN page = PageFields /\ page.left = {} /\ CursorSound(page.next, kind, clock) /\ page.next.pos > 0
      /\ cursor.done /\ CursorSound(cursor, kind, clock) /\ page.next.done
  BY <1>0 DEF SourcesIInv, PageSound, Course, CursorsSound, Listing
<1>4. /\ DOMAIN page' = PageFields /\ page'.phase = "read" /\ page'.items = Eligible(S) /\ page'.left = {}
      /\ page'.next = page.next
  BY <1>2, <1>3 DEF PageFields
<1>5. ASSUME NEW r \in Keys \ S, Readable(r), told[r] # row[r].version PROVE Due(kind, r, row[r], page.next, low)
  <2>1. Due(kind, r, row[r], cursor, low)
    BY <1>5 DEF SourcesIInv, CursorsSound, AllMet, Met, Readable, Shown
  <2>2. cursor.pos < row[r].at /\ (cursor.pos = 0 => low <= row[r].at)
    BY <1>0, <1>3, <2>1 DEF Due
  <2>3. row[r].at \in Nat /\ row[r].version \in Nat /\ row[r].version > 0 /\ ~row[r].gone /\ low \in Nat
    BY <1>0, <1>5 DEF SourcesIInv, RowsSound, Readable
  <2>4. cursor.pos \in Nat /\ page.next.pos \in Nat
    BY <1>3 DEF CursorSound
  <2>5. FromLsn(cursor) <= row[r].at /\ low <= row[r].at /\ FromLsn(cursor) \in Nat
    BY <1>0, <2>2, <2>3, <2>4 DEF FromLsn
  <2>6. CASE row[r].at <= page.next.pos
    <3>1. PICK e \in log : e.key = r /\ e.at = row[r].at
      BY <1>0, <2>3, <2>5 DEF SourcesIInv, LogSound, Logs
    <3>2. e.version = row[r].version
      BY <1>0, <2>3, <3>1 DEF SourcesIInv, LogSound, Logs, EntryOf
    <3>3. e.at \in FromLsn(cursor) .. page.next.pos /\ e.version > 0
      BY <2>3, <2>4, <2>5, <2>6, <3>1, <3>2
    <3> QED BY <1>1, <1>5, <3>1, <3>3
  <2>7. CASE ~(row[r].at <= page.next.pos)
    <3>1. page.next.pos < row[r].at /\ page.next.pos # 0
      BY <1>3, <2>3, <2>4, <2>7
    <3> QED BY <1>0, <3>1 DEF Due
  <2> QED BY <2>6, <2>7
<1>6. page.next.pos # 0
  BY <1>3 DEF CursorSound
<1> QED BY <1>0, <1>1, <1>3, <1>4, <1>5, <1>6, PageRead

\* Databricks: the version of a snapshot or of a commit, and its rows.
LEMMA VersionKeeps == SourcesIInv /\ ReadVersion => SourcesIInv'
<1> SUFFICES ASSUME SourcesIInv, ReadVersion PROVE SourcesIInv'
  OBVIOUS
<1>0. UNCHANGED <<config, source, told, saved>> /\ kind = "databricks" /\ page.phase = "none"
  BY DEF ReadVersion
<1>1. CursorSound(cursor, kind, clock) /\ clock \in Nat /\ saved = NoCursor
  BY <1>0 DEF SourcesIInv, CursorsSound, RowsSound, OnRecord
<1>2. kind' = kind /\ clock' = clock /\ saved' = saved /\ row' = row /\ low' = low /\ told' = told /\ log' = log
      /\ RowsSound' /\ LogSound'
  BY <1>0, SourceRests
<1>3. OnRecord'
  BY <1>0, <1>1, <1>2 DEF OnRecord
<1>4. CASE ~cursor.done
  <2>1. PICK n \in Nat : n <= clock /\ n = IF cursor.snap = NoVersion THEN clock ELSE cursor.snap
    BY <1>1 DEF CursorSound
  <2>2. cursor' = [cursor EXCEPT !.snap = n]
    BY <1>4, <2>1 DEF ReadVersion
  <2>3. cursor'.snap = n /\ cursor'.done = cursor.done /\ cursor'.pos = cursor.pos /\ cursor'.key = cursor.key
        /\ cursor'.processed = cursor.processed /\ DOMAIN cursor' = CursorFields
    BY <1>1, <2>2 DEF CursorSound, CursorFields
  <2>4. PICK next : next = [cursor EXCEPT !.pos = n, !.done = TRUE, !.snap = NoVersion]
    OBVIOUS
  <2>5. page' = [NoPage EXCEPT !.phase = "begun", !.next = next]
    BY <1>4, <2>3, <2>4 DEF ReadVersion
  <2>6. CursorSound(next, kind, clock) /\ next.done /\ next.pos = n
    BY <1>0, <1>1, <2>1, <2>4 DEF CursorSound, CursorFields
  <2>7. DOMAIN page' = PageFields /\ page'.phase = "begun" /\ page'.items = {} /\ page'.left = {} /\ page'.next = next
    BY <2>5 DEF NoPage, PageFields
  <2>8. CursorsSound'
    <3>1. CursorSound(cursor', kind, clock)
      BY <1>1, <2>1, <2>3 DEF CursorSound
    <3>2. \A r \in Keys : Due(kind, r, row[r], cursor', low)
      BY <1>0, <1>4, <2>3 DEF Due
    <3> QED BY <1>2, <3>1, <3>2 DEF CursorsSound, AllMet, Met
  <2>9. PageSound'
    BY <1>0, <1>2, <2>6, <2>7 DEF PageSound, Listing
  <2>10. Course'
    BY <1>0, <1>2, <1>4, <2>3, <2>6, <2>7 DEF Course, Listing
  <2> QED BY <1>2, <1>3, <2>8, <2>9, <2>10 DEF SourcesIInv
<1>5. CASE cursor.done
  <2>1. cursor' = cursor /\ Commits # {}
    BY <1>5 DEF ReadVersion
  <2>2. Commits \subseteq Nat /\ \A v \in Commits : cursor.pos < v /\ v <= clock
    <3>1. \A e \in log : e.at \in Nat /\ e.key \in Keys /\ e.at <= row[e.key].at
      BY <1>0 DEF SourcesIInv, LogSound, Logs, EntryOf
    <3>2. \A e \in log : e.at <= clock
      <4> TAKE e \in log
      <4>1. e.at \in Nat /\ e.key \in Keys /\ e.at <= row[e.key].at
        BY <3>1
      <4>2. row[e.key].at <= clock /\ row[e.key].at \in Nat
        BY <4>1 DEF SourcesIInv, RowsSound
      <4> QED BY <1>1, <4>1, <4>2
    <3>3. cursor.pos \in Nat
      BY <1>1 DEF CursorSound
    <3> QED BY <3>1, <3>2, <3>3 DEF Commits
  <2>3. PICK n \in Commits : n = (CHOOSE v \in Commits : \A w \in Commits : v <= w) /\ \A w \in Commits : n <= w
    <3>1. \E n \in Commits : \A w \in Commits : n <= w
      BY <2>1, <2>2, LeastNatural
    <3> QED BY <3>1
  <2>4. PICK next : next = [cursor EXCEPT !.pos = n]
    OBVIOUS
  <2>5. page' = [NoPage EXCEPT !.phase = "begun", !.next = next]
    BY <1>5, <2>3, <2>4 DEF ReadVersion
  <2>6. CursorSound(next, kind, clock) /\ next.done /\ next.pos = n
    BY <1>0, <1>1, <1>5, <2>2, <2>4 DEF CursorSound, CursorFields
  <2>7. DOMAIN page' = PageFields /\ page'.phase = "begun" /\ page'.items = {} /\ page'.left = {} /\ page'.next = next
    BY <2>5 DEF NoPage, PageFields
  <2>8. CursorsSound'
    BY <1>0, <2>1, CursorRests
  <2>9. PageSound'
    BY <1>0, <1>2, <2>6, <2>7 DEF PageSound, Listing
  <2>10. \A e \in log : e.version > 0 => ~(cursor.pos < e.at /\ e.at < n)
    <3> TAKE e \in log
    <3>1. SUFFICES ASSUME e.version > 0, cursor.pos < e.at, e.at < n PROVE FALSE
      OBVIOUS
    <3>2. e.at \in Commits
      BY <3>1 DEF Commits
    <3>3. n <= e.at /\ n \in Nat /\ e.at \in Nat
      BY <2>2, <2>3, <3>2
    <3> QED BY <3>1, <3>3
  <2>11. Course'
    BY <1>0, <1>2, <2>1, <2>2, <2>6, <2>7, <2>10 DEF Course, Listing
  <2> QED BY <1>2, <1>3, <2>8, <2>9, <2>11 DEF SourcesIInv
<1> QED BY <1>4, <1>5

\* Databricks: the rows of a snapshot or commit, and rows written since are due again.
LEMMA RowsKeep == SourcesIInv /\ ReadRows => SourcesIInv'
<1> SUFFICES ASSUME SourcesIInv, ReadRows PROVE SourcesIInv'
  OBVIOUS
<1>0. UNCHANGED <<config, source, told, cursor, saved>> /\ kind = "databricks" /\ page.phase = "begun"
  BY DEF ReadRows
<1>1. PICK entries \in SUBSET log : entries = IF cursor.done THEN OfCommit(page.next.pos) ELSE AsOf(page.next.pos)
  BY DEF OfCommit, AsOf
<1>2. PICK items : items = {[key |-> e.key, version |-> e.version] : e \in entries}
  OBVIOUS
<1>3. page' = [page EXCEPT !.phase = "read", !.items = items]
  BY <1>1, <1>2 DEF ReadRows
<1>4. /\ DOMAIN page = PageFields /\ page.left = {} /\ CursorSound(page.next, kind, clock) /\ page.next.done
      /\ CursorSound(cursor, kind, clock) /\ saved = NoCursor
  BY <1>0 DEF SourcesIInv, PageSound, Course, CursorsSound, Listing, OnRecord
<1>5. DOMAIN page' = PageFields /\ page'.phase = "read" /\ page'.items = items /\ page'.left = {} /\ page'.next = page.next
  BY <1>3, <1>4 DEF PageFields
<1>6. PICK n \in Nat : n = page.next.pos
  BY <1>4 DEF CursorSound
<1>7. kind' = kind /\ clock' = clock /\ saved' = saved /\ row' = row /\ low' = low /\ told' = told /\ log' = log
      /\ cursor' = cursor /\ RowsSound' /\ LogSound' /\ CursorsSound' /\ OnRecord'
  BY <1>0, SourceRests, CursorRests
<1>8. \A e \in log : e.at \in Nat /\ e.version \in Nat /\ e.key \in Keys /\ EntryOf(row[e.key], e)
  BY <1>0 DEF SourcesIInv, LogSound, Logs
<1>9. \A r \in Keys : row[r].at \in Nat /\ row[r].version \in Nat /\ low = 0
  BY <1>0 DEF SourcesIInv, RowsSound
<1>10. \A r \in Keys : row[r].version > 0 => \E e \in log : e.key = r /\ e.at = row[r].at
  BY <1>0, <1>9 DEF SourcesIInv, LogSound, Logs
<1>11. ASSUME NEW e \in entries
       PROVE  /\ e.version > 0 /\ e.key \in Keys /\ e.version \in Nat /\ row[e.key].version > 0
              /\ \/ row[e.key].version = e.version
                 \/ Due(kind, e.key, row[e.key], cursor, low) /\ Due(kind, e.key, row[e.key], page.next, low)
  <2>1. e.version > 0 /\ e.at <= n
    BY <1>1, <1>6, <1>8 DEF OfCommit, AsOf
  <2>2. e.at \in Nat /\ e.key \in Keys /\ e.version \in Nat /\ row[e.key].version > 0 /\ e.at <= row[e.key].at
    BY <1>8 DEF EntryOf
  <2>3. CASE e.at = row[e.key].at
    <3>1. e.version = IF row[e.key].gone THEN 0 ELSE row[e.key].version
      BY <1>8, <2>3 DEF EntryOf
    <3>2. e.version = row[e.key].version
      BY <2>1, <2>2, <3>1
    <3> QED BY <2>1, <2>2, <3>2
  <2>4. CASE e.at # row[e.key].at
    <3>1. e.at < row[e.key].at
      BY <1>9, <2>2, <2>4
    <3>2. n < row[e.key].at
      <4>1. CASE cursor.done
        <5>1. e.at = n
          BY <1>1, <1>6, <4>1 DEF OfCommit
        <5> QED BY <3>1, <5>1
      <4>2. CASE ~cursor.done
        <5>1. PICK x \in log : x.key = e.key /\ x.at = row[e.key].at
          BY <1>10, <2>2
        <5>2. ~(x.at <= n)
          BY <1>1, <1>6, <2>2, <3>1, <4>2, <5>1, <1>8, <1>9 DEF AsOf
        <5> QED BY <1>9, <2>2, <5>1, <5>2
      <4> QED BY <4>1, <4>2
    <3>3. Due(kind, e.key, row[e.key], page.next, low)
      BY <1>0, <1>6, <3>2 DEF Due
    <3>4. Due(kind, e.key, row[e.key], cursor, low)
      <4>1. CASE cursor.done
        <5>1. cursor.pos < n /\ cursor.pos \in Nat
          BY <1>0, <1>4, <1>6, <4>1 DEF SourcesIInv, Course, CursorSound
        <5>2. cursor.pos < row[e.key].at
          BY <1>9, <2>2, <3>2, <5>1
        <5> QED BY <1>0, <5>2 DEF Due
      <4>2. CASE ~cursor.done
        BY <1>0, <4>2 DEF Due
      <4> QED BY <4>1, <4>2
    <3> QED BY <2>1, <2>2, <3>3, <3>4
  <2> QED BY <2>3, <2>4
<1>12. \A i \in items : \E e \in entries : i.key = e.key /\ i.version = e.version /\ DOMAIN i = {"key", "version"}
  BY <1>2
<1>13. ASSUME NEW r \in Keys, Shown(kind, row[r]), told[r] # row[r].version
       PROVE  Due(kind, r, row[r], page.next, low) \/ [key |-> r, version |-> row[r].version] \in items
  <2>1. row[r].version > 0 /\ ~row[r].gone
    BY <1>0, <1>13 DEF Shown
  <2>2. PICK e \in log : e.key = r /\ e.at = row[r].at
    BY <1>10, <2>1
  <2>3. e.version = row[r].version
    BY <1>8, <2>1, <2>2 DEF EntryOf
  <2>4. CASE n < row[r].at
    BY <1>0, <1>6, <2>4 DEF Due
  <2>5. CASE row[r].at <= n
    <3>1. e \in entries
      <4>1. CASE cursor.done
        <5>1. Due(kind, r, row[r], cursor, low)
          BY <1>13 DEF SourcesIInv, CursorsSound, AllMet, Met
        <5>2. cursor.pos < row[r].at
          BY <1>0, <4>1, <5>1 DEF Due
        <5>3. ~(cursor.pos < e.at /\ e.at < n)
          BY <1>0, <1>6, <2>1, <2>3, <4>1 DEF SourcesIInv, Course
        <5>4. e.at = n
          BY <1>9, <2>2, <2>5, <5>2, <5>3
        <5> QED BY <1>1, <1>6, <2>1, <2>3, <4>1, <5>4 DEF OfCommit
      <4>2. CASE ~cursor.done
        <5>1. \A x \in log : x.key = e.key => x.at <= e.at
          BY <1>8, <2>2 DEF EntryOf
        <5> QED BY <1>1, <1>6, <2>1, <2>2, <2>3, <2>5, <4>2, <5>1 DEF AsOf
      <4> QED BY <4>1, <4>2
    <3>2. [key |-> e.key, version |-> e.version] \in items
      BY <1>2, <3>1
    <3> QED BY <2>2, <2>3, <3>2
  <2> QED BY <1>9, <2>4, <2>5
<1>14. \A i \in items : ItemSound(i, cursor)' /\ ItemSound(i, page.next)'
  BY <1>5, <1>7, <1>11, <1>12 DEF ItemSound
<1>15. \A i \in items : i.key \in Keys /\ i.version \in Nat /\ row[i.key].version > 0 /\ DOMAIN i = {"key", "version"}
  BY <1>11, <1>12
<1>16. \A r \in Keys : Met(r, page.next)' \/ [key |-> r, version |-> row'[r].version] \in items
  BY <1>5, <1>7, <1>13 DEF Met
<1>17. PageSound'
  BY <1>0, <1>4, <1>5, <1>7, <1>14, <1>15, <1>16 DEF PageSound, Listing
<1>18. Course'
  BY <1>0, <1>5, <1>7 DEF Course, Listing
<1> QED BY <1>7, <1>17, <1>18 DEF SourcesIInv

\* Blob: a poll lists the container, blob by blob.
LEMMA StartPollKeeps == SourcesIInv /\ StartPoll => SourcesIInv'
<1> SUFFICES ASSUME SourcesIInv, StartPoll PROVE SourcesIInv'
  OBVIOUS
<1>0. UNCHANGED <<config, source, told, cursor, saved>> /\ kind = "azure-blob" /\ cursor.done
  BY DEF StartPoll
<1>1. CursorSound(cursor, kind, clock) /\ clock \in Nat
  BY DEF SourcesIInv, CursorsSound, RowsSound
<1>2. PICK next : next = [cursor EXCEPT !.pos = clock, !.processed = {}]
  OBVIOUS
<1>3. page' = [NoPage EXCEPT !.phase = "begun", !.left = Keys, !.next = next]
  BY <1>2 DEF StartPoll
<1>4. DOMAIN page' = PageFields /\ page'.phase = "begun" /\ page'.items = {} /\ page'.left = Keys /\ page'.next = next
  BY <1>3 DEF NoPage, PageFields
<1>5. CursorSound(next, kind, clock)
  <2>1. /\ DOMAIN next = CursorFields /\ next.done = cursor.done /\ next.key = cursor.key /\ next.pos = clock
        /\ next.snap = cursor.snap /\ next.processed = {}
    BY <1>1, <1>2 DEF CursorSound, CursorFields
  <2> QED BY <1>0, <1>1, <2>1 DEF CursorSound
<1>6. kind' = kind /\ clock' = clock /\ cursor' = cursor /\ RowsSound' /\ LogSound' /\ CursorsSound' /\ OnRecord'
  BY <1>0, SourceRests, CursorRests
<1>7. PageSound'
  BY <1>0, <1>4, <1>5, <1>6 DEF PageSound, Listing
<1>8. Course'
  BY <1>0, <1>4, <1>6 DEF Course, Listing
<1> QED BY <1>6, <1>7, <1>8 DEF SourcesIInv

\* One blob of the listing is passed on, or was, or is met by the next poll.
LEMMA ListBlobKeeps == SourcesIInv /\ ListBlob => SourcesIInv'
<1> SUFFICES ASSUME SourcesIInv, ListBlob PROVE SourcesIInv'
  OBVIOUS
<1>0. UNCHANGED <<config, source, told, cursor, saved>> /\ kind = "azure-blob" /\ page.phase = "begun" /\ page.left # {} /\ Listing
  BY DEF ListBlob, Listing
<1>1. /\ DOMAIN page = PageFields /\ page.left \subseteq Keys /\ CursorSound(page.next, kind, clock) /\ cursor.done
      /\ CursorSound(cursor, kind, clock)
  BY <1>0 DEF SourcesIInv, PageSound, Course, CursorsSound, Listing
<1>2. PICK r \in page.left : r = CHOOSE k \in page.left : \A j \in page.left : k <= j
  <2>1. page.left \in SUBSET Nat
    BY <1>1, SourcesAssumption
  <2>2. \E k \in page.left : \A j \in page.left : k <= j
    BY <1>0, <2>1, LeastNatural
  <2> QED BY <2>2
<1>3. PICK blob : blob = [key |-> r, version |-> row[r].version]
  OBVIOUS
<1>4. PICK seen \in BOOLEAN : seen = (Readable(r) /\ LastModified(r) >= Watermark(cursor.pos))
  OBVIOUS
<1>5. PICK items : items = IF seen /\ blob \notin cursor.processed THEN page.items \cup {blob} ELSE page.items
  OBVIOUS
<1>6. PICK processed : processed = IF seen /\ LastModified(r) >= Watermark(page.next.pos) THEN page.next.processed \cup {blob} ELSE page.next.processed
  OBVIOUS
<1>7. PICK phase : phase = IF page.left = {r} THEN "read" ELSE page.phase
  OBVIOUS
<1>8. page' = [page EXCEPT !.left = @ \ {r}, !.phase = phase, !.items = items, !.next.processed = processed]
  BY <1>2, <1>3, <1>4, <1>5, <1>6, <1>7 DEF ListBlob
<1>9. PICK next : next = [page.next EXCEPT !.processed = processed]
  OBVIOUS
<1>10. DOMAIN page' = PageFields /\ page'.phase = phase /\ page'.items = items /\ page'.left = page.left \ {r} /\ page'.next = next
  BY <1>1, <1>8, <1>9 DEF PageFields
<1>11. DOMAIN next = CursorFields /\ next.done = page.next.done /\ next.key = page.next.key /\ next.pos = page.next.pos
       /\ next.snap = page.next.snap /\ next.processed = processed
  BY <1>1, <1>9 DEF CursorSound, CursorFields
<1>12. r \in Keys /\ row[r].version \in Nat /\ row[r].version <= clock /\ clock \in Nat
  BY <1>1, <1>2 DEF SourcesIInv, RowsSound
<1>13. CursorSound(next, kind, clock)
  <2>1. \A b \in processed : b.version \in Nat /\ b.version <= clock
    <3>1. \A b \in page.next.processed : b.version \in Nat /\ b.version <= clock
      BY <1>1 DEF CursorSound
    <3> QED BY <1>3, <1>6, <1>12, <3>1
  <2> QED BY <1>0, <1>1, <1>11, <2>1 DEF CursorSound
<1>14. ASSUME NEW k \in Keys, k # r, Due(kind, k, row[k], page.next, low) PROVE Due(kind, k, row[k], next, low)
  <2>1. [key |-> k, version |-> row[k].version] # blob
    BY <1>3, <1>14
  <2>2. [key |-> k, version |-> row[k].version] \in processed => [key |-> k, version |-> row[k].version] \in page.next.processed
    BY <1>6, <2>1
  <2> QED BY <1>0, <1>11, <1>14, <2>2 DEF Due
<1>15. kind' = kind /\ clock' = clock /\ saved' = saved /\ row' = row /\ low' = low /\ told' = told /\ log' = log
       /\ cursor' = cursor /\ RowsSound' /\ LogSound' /\ CursorsSound' /\ OnRecord'
  BY <1>0, SourceRests, CursorRests
<1>16. ASSUME NEW i \in items
       PROVE  /\ i.key \in Keys /\ i.key \notin page.left \ {r} /\ i.version \in Nat /\ row[i.key].version > 0
              /\ DOMAIN i = {"key", "version"}
              /\ ItemSound(i, cursor) /\ ItemSound(i, next) /\ (saved # NoCursor => ItemSound(i, saved))
  <2>1. CASE i \in page.items
    <3>1. /\ i.key \in Keys \ page.left /\ i.version \in Nat /\ row[i.key].version > 0 /\ DOMAIN i = {"key", "version"}
          /\ ItemSound(i, cursor) /\ ItemSound(i, page.next) /\ (saved # NoCursor => ItemSound(i, saved))
      BY <2>1 DEF SourcesIInv, PageSound
    <3>2. i.key # r
      BY <1>2, <3>1
    <3> QED BY <1>14, <3>1, <3>2 DEF ItemSound
  <2>2. CASE i \notin page.items
    <3>1. i = blob /\ seen
      BY <1>5, <2>2
    <3>2. i.key = r /\ i.version = row[r].version /\ row[r].version > 0 /\ DOMAIN i = {"key", "version"}
      BY <1>3, <1>4, <3>1 DEF Readable
    <3> QED BY <1>12, <3>2 DEF ItemSound
  <2> QED BY <2>1, <2>2
<1>17. ASSUME NEW k \in Keys \ (page.left \ {r})
       PROVE  Met(k, page.next)' \/ [key |-> k, version |-> row[k].version] \in items
  <2>1. CASE k # r
    <3>1. Met(k, page.next) \/ [key |-> k, version |-> row[k].version] \in page.items
      BY <1>0, <1>17, <2>1 DEF SourcesIInv, PageSound
    <3>2. page.items \subseteq items
      BY <1>5
    <3> QED BY <1>10, <1>14, <1>15, <2>1, <3>1, <3>2 DEF Met
  <2>2. CASE k = r
    <3>1. SUFFICES ASSUME Shown(kind, row[r]), told[r] # row[r].version PROVE blob \in items
      BY <1>3, <1>10, <1>15, <2>2 DEF Met
    <3>2. Due(kind, r, row[r], cursor, low)
      BY <1>12, <3>1 DEF SourcesIInv, CursorsSound, AllMet, Met
    <3>3. LastModified(r) >= Watermark(cursor.pos) /\ blob \notin cursor.processed
      BY <1>0, <1>1, <1>3, <3>2 DEF Due, LastModified, Watermark, Second, CursorSound
    <3>4. seen
      BY <1>4, <3>1, <3>3 DEF Readable, Shown
    <3> QED BY <1>5, <3>3, <3>4
  <2> QED BY <2>1, <2>2
<1>18. PageSound'
  <2>1. phase \in {"begun", "read"} /\ (phase = "read" => page.left \ {r} = {})
    BY <1>0, <1>7
  <2>2. \A i \in items : ItemSound(i, cursor)' /\ ItemSound(i, page.next)' /\ (saved # NoCursor => ItemSound(i, saved))'
    BY <1>10, <1>15, <1>16 DEF ItemSound
  <2>3. page.left \ {r} # {} => Listing'
    BY <1>0, <1>10, <1>15, <2>1 DEF Listing
  <2>4. \A i \in items : /\ i.key \in Keys \ (page.left \ {r}) /\ i.version \in Nat /\ row[i.key].version > 0
                         /\ DOMAIN i = {"key", "version"}
    BY <1>16
  <2>5. page.left \ {r} \subseteq Keys
    BY <1>1
  <2> HIDE DEF Listing
  <2> QED BY <1>0, <1>10, <1>13, <1>15, <1>17, <2>1, <2>2, <2>3, <2>4, <2>5 DEF PageSound
<1>19. Course'
  BY <1>0, <1>1, <1>10, <1>15 DEF Course, Listing
<1> QED BY <1>15, <1>18, <1>19 DEF SourcesIInv

\* What is passed on of a page: told moves for one row, which may be written.
LEMMA PassOnKeeps == SourcesIInv /\ PassOn => SourcesIInv'
<1> SUFFICES ASSUME SourcesIInv, PassOn PROVE SourcesIInv'
  OBVIOUS
<1>0. UNCHANGED <<config, cursor, saved>> /\ page.phase = "read" /\ ~Listing
  BY DEF PassOn, Listing
<1>1. PICK i \in page.items : (Send(i) \/ UpdateRow(i)) /\ page' = [page EXCEPT !.items = @ \ {i}]
  BY DEF PassOn
<1>2. /\ i.key \in Keys /\ i.version \in Nat /\ row[i.key].version > 0 /\ DOMAIN i = {"key", "version"}
      /\ ItemSound(i, cursor) /\ ItemSound(i, page.next) /\ (saved # NoCursor => ItemSound(i, saved))
      /\ DOMAIN page = PageFields /\ page.left = {} /\ CursorSound(page.next, kind, clock)
  BY <1>0 DEF SourcesIInv, PageSound
<1>3. /\ DOMAIN page' = PageFields /\ page'.phase = "read" /\ page'.items = page.items \ {i} /\ page'.left = {}
      /\ page'.next = page.next
  BY <1>0, <1>1, <1>2 DEF PageFields
<1>4. kind' = kind /\ inline' = inline /\ stamped' = stamped /\ cursor' = cursor /\ saved' = saved
  BY <1>0 DEF config
<1>5. row \in [Keys -> RowSet] /\ told \in [Keys -> Nat] /\ clock \in Nat
  BY DEF SourcesIInv, RowsSound, RowSet
<1>6. \/ told' = told /\ UNCHANGED source /\ row[i.key].gone /\ kind # "cosmosdb"
      \/ told' = [told EXCEPT ![i.key] = i.version] /\ UNCHANGED source
      \/ /\ told' = [told EXCEPT ![i.key] = i.version] /\ inline /\ stamped /\ ~row[i.key].gone
         /\ clock' = clock + 1 /\ row' = [row EXCEPT ![i.key].at = clock + 1] /\ low' = low
         /\ log' = Logged({[key |-> i.key, at |-> clock + 1, version |-> row[i.key].version]})
  BY <1>1 DEF Send, UpdateRow
<1>7. told' \in [Keys -> Nat]
  BY <1>2, <1>5, <1>6
<1>8. \A r \in Keys : row'[r].version = row[r].version /\ row'[r].gone = row[r].gone /\ (r # i.key => row'[r] = row[r] /\ told'[r] = told[r])
  BY <1>2, <1>5, <1>6 DEF RowSet, source
<1>9. \/ told' = told /\ row' = row /\ row[i.key].gone /\ kind # "cosmosdb"
      \/ told'[i.key] = i.version
  BY <1>2, <1>5, <1>6 DEF source
<1>10. /\ RowsSound' /\ LogSound'
       /\ \A c : CursorSound(c, kind, clock) =>
              /\ CursorSound(c, kind', clock')
              /\ \A r \in Keys : Due(kind, r, row[r], c, low) => Due(kind', r, row'[r], c, low')
  <2>1. CASE UNCHANGED source
    <3>1. row' = row /\ clock' = clock /\ low' = low /\ log' = log
      BY <2>1 DEF source
    <3>2. RowsSound'
      BY <1>4, <1>7, <3>1 DEF SourcesIInv, RowsSound
    <3>3. LogSound'
      BY <1>4, <3>1 DEF SourcesIInv, LogSound
    <3> QED BY <1>4, <3>1, <3>2, <3>3
  <2>2. CASE ~UNCHANGED source
    <3> DEFINE entries == {[key |-> i.key, at |-> clock + 1, version |-> row[i.key].version]}
    <3>0. /\ inline /\ stamped /\ ~row[i.key].gone /\ clock' = clock + 1 /\ low' = low
          /\ row' = [row EXCEPT ![i.key].at = clock + 1] /\ log' = Logged(entries)
      BY <1>6, <2>2
    <3>1. PICK w \in RowSet : w = [row[i.key] EXCEPT !.at = clock + 1] /\ w.at = clock + 1 /\ w.version = row[i.key].version /\ w.gone = row[i.key].gone
      <4>1. PICK n \in Nat : n = clock + 1
        BY <1>5
      <4>2. PICK v \in RowSet : v = row[i.key]
        BY <1>2, <1>5
      <4>3. PICK w \in RowSet : w = [v EXCEPT !.at = n]
        BY DEF RowSet
      <4>4. w.at = n /\ w.version = v.version /\ w.gone = v.gone
        BY <4>3 DEF RowSet
      <4> QED BY <4>1, <4>2, <4>3, <4>4
    <3>2. row' = [row EXCEPT ![i.key] = w]
      BY <1>2, <1>5, <3>0, <3>1
    <3>3. row' \in [Keys -> RowSet] /\ row'[i.key] = w /\ \A r \in Keys \ {i.key} : row'[r] = row[r]
      BY <1>2, <1>5, <3>2
    <3>4. kind \in Logs => log' = log \cup entries
      BY <3>0 DEF Logged, Logs
    <3>5. kind # "azure-blob"
      BY <3>0 DEF SourcesIInv, RowsSound, InlineKinds
    <3>6. row[i.key].version \in Nat /\ row[i.key].version <= clock
      <4>1. row[i.key].version <= row[i.key].at /\ row[i.key].at <= clock
        BY <1>2 DEF SourcesIInv, RowsSound
      <4>2. row[i.key].version \in Nat /\ row[i.key].at \in Nat
        BY <1>2, <1>5 DEF RowSet
      <4> QED BY <1>5, <4>1, <4>2
    <3>7. \A e \in entries : /\ DOMAIN e = {"key", "at", "version"} /\ e.key \in {i.key} /\ e.version \in Nat
                             /\ e.at = clock + 1
                             /\ row'[e.key].version > 0
                             /\ e.version = IF row'[e.key].gone THEN 0 ELSE row'[e.key].version
      BY <1>2, <3>0, <3>1, <3>3, <3>6
    <3>8. \A r \in {i.key} : /\ row'[r].at = clock + 1 /\ row'[r].version <= clock + 1
                             /\ row'[r].version = row[r].version /\ kind # "azure-blob"
      <4>1. row'[i.key].at = clock + 1 /\ row'[i.key].version = row[i.key].version
        BY <3>1, <3>3
      <4>2. row[i.key].version <= clock + 1
        BY <1>5, <3>6
      <4> QED BY <3>5, <4>1, <4>2
    <3>9. {i.key} \in SUBSET Keys /\ (\A r, s \in {i.key} : r = s) /\ (\A r \in {i.key} : \E e \in entries : e.key = r)
      BY <1>2
    <3> HIDE DEF entries
    <3>10. RowsWritten({i.key}, entries)
      BY <1>4, <3>0, <3>3, <3>4, <3>7, <3>8, <3>9 DEF RowsWritten, config
    <3>11. RowsSound /\ LogSound
      BY DEF SourcesIInv
    <3> QED BY <1>7, <3>9, <3>10, <3>11, SourceWritten
  <2> QED BY <2>1, <2>2
<1>11. ASSUME NEW j \in page.items, NEW c, CursorSound(c, kind, clock), ItemSound(j, c)
       PROVE  row'[j.key].version = j.version \/ Due(kind', j.key, row'[j.key], c, low')
  <2>1. j.key \in Keys
    BY DEF SourcesIInv, PageSound
  <2> QED BY <1>8, <1>10, <1>11, <2>1 DEF ItemSound
<1>12. ASSUME NEW r \in Keys, NEW c, CursorSound(c, kind, clock), ItemSound(i, c), Met(r, c)
       PROVE  Shown(kind', row'[r]) => told'[r] = row'[r].version \/ Due(kind', r, row'[r], c, low')
  <2>1. CASE r # i.key
    BY <1>4, <1>8, <1>10, <1>12, <2>1 DEF Met, Shown
  <2>2. CASE r = i.key /\ told'[i.key] = i.version
    BY <1>8, <1>10, <1>12, <2>2 DEF ItemSound
  <2>3. CASE r = i.key /\ row' = row /\ row[i.key].gone /\ kind # "cosmosdb"
    BY <1>4, <2>3 DEF Shown
  <2> QED BY <1>9, <2>1, <2>2, <2>3
<1>13. CursorsSound'
  BY <1>2, <1>4, <1>10, <1>12 DEF SourcesIInv, CursorsSound, AllMet, Met
<1>14. OnRecord'
  BY <1>2, <1>4, <1>10, <1>12 DEF SourcesIInv, OnRecord, AllMet, Met
<1>15. ASSUME NEW r \in Keys
       PROVE  (Shown(kind', row'[r]) => told'[r] = row'[r].version \/ Due(kind', r, row'[r], page.next, low'))
              \/ [key |-> r, version |-> row'[r].version] \in page.items \ {i}
  <2>1. CASE Met(r, page.next)
    BY <1>2, <1>12, <2>1
  <2>2. CASE [key |-> r, version |-> row[r].version] \in page.items
    <3>1. CASE [key |-> r, version |-> row[r].version] # i
      BY <1>8, <2>2, <3>1
    <3>2. CASE [key |-> r, version |-> row[r].version] = i
      <4>1. i.key = r /\ i.version = row[r].version
        BY <3>2
      <4> QED BY <1>4, <1>8, <1>9, <4>1 DEF Shown
    <3> QED BY <3>1, <3>2
  <2> QED BY <1>0, <1>2, <2>1, <2>2 DEF SourcesIInv, PageSound
<1>16. PageSound'
  <2>1. \A j \in page.items \ {i} :
            /\ j.key \in Keys /\ j.version \in Nat /\ row'[j.key].version > 0 /\ DOMAIN j = {"key", "version"}
            /\ ItemSound(j, cursor)' /\ ItemSound(j, page.next)' /\ (saved # NoCursor => ItemSound(j, saved))'
    <3> TAKE j \in page.items \ {i}
    <3>1. /\ j.key \in Keys /\ j.version \in Nat /\ row[j.key].version > 0 /\ DOMAIN j = {"key", "version"}
          /\ ItemSound(j, cursor) /\ ItemSound(j, page.next) /\ (saved # NoCursor => ItemSound(j, saved))
      BY DEF SourcesIInv, PageSound
    <3>2. CursorSound(cursor, kind, clock) /\ (saved # NoCursor => CursorSound(saved, kind, clock))
      BY DEF SourcesIInv, CursorsSound, OnRecord
    <3> QED BY <1>2, <1>3, <1>4, <1>8, <1>11, <3>1, <3>2 DEF ItemSound
  <2>2. CursorSound(page.next, kind', clock')
    BY <1>2, <1>10
  <2> QED BY <1>0, <1>3, <1>4, <1>15, <2>1, <2>2 DEF PageSound, Listing, Met
<1>17. Course'
  BY <1>0, <1>3, <1>4 DEF SourcesIInv, Course, Listing
<1> QED BY <1>10, <1>13, <1>14, <1>16, <1>17 DEF SourcesIInv

\* The cursor moves behind a page that was passed on.
LEMMA NextCursor ==
  ASSUME SourcesIInv, page.phase = "read", page.items = {}
  PROVE  CursorSound(page.next, kind, clock) /\ AllMet(page.next)
BY DEF SourcesIInv, PageSound, AllMet, Listing

\* The cursor moves to where the page leads.
LEMMA AdvanceKeeps == SourcesIInv /\ Advance => SourcesIInv'
<1> SUFFICES ASSUME SourcesIInv, Advance PROVE SourcesIInv'
  OBVIOUS
<1>0. /\ UNCHANGED <<config, source, told>> /\ page.phase = "read" /\ page.items = {} /\ page' = NoPage
      /\ cursor' = page.next /\ saved' = IF kind \in {"cosmosdb", "azure-blob"} THEN page.next ELSE saved
  BY DEF Advance
<1>1. CursorsSound'
  BY <1>0, NextCursor, SourceRests DEF CursorsSound, AllMet, Met
<1>2. OnRecord'
  BY <1>0, NextCursor, SourceRests DEF SourcesIInv, OnRecord, AllMet, Met
<1> QED BY <1>0, <1>1, <1>2, NoPageKeeps

\* Failures, restarts and resets go on from a cursor that nothing was lost behind.
LEMMA TroubleKeeps == SourcesIInv /\ (PollFailed \/ RestartWatcher \/ ResetPipeline) => SourcesIInv'
<1>1. ASSUME SourcesIInv, PollFailed PROVE SourcesIInv'
  <2>1. UNCHANGED <<config, source, told, saved>> /\ page' = NoPage
    BY <1>1 DEF PollFailed
  <2>2. cursor' = cursor \/ (kind = "azure-blob" /\ page.phase = "read" /\ page.items = {} /\ cursor' = page.next)
    BY <1>1 DEF PollFailed
  <2>3. CursorsSound'
    BY <1>1, <2>1, <2>2, NextCursor, SourceRests DEF SourcesIInv, CursorsSound, AllMet, Met
  <2>4. OnRecord'
    BY <1>1, <2>1, <2>2, SourceRests DEF SourcesIInv, OnRecord, AllMet, Met
  <2> QED BY <1>1, <2>1, <2>3, <2>4, NoPageKeeps
<1>2. ASSUME SourcesIInv, RestartWatcher PROVE SourcesIInv'
  <2>1. UNCHANGED <<config, source, told, saved>> /\ page' = NoPage /\ cursor' = IF saved # NoCursor THEN saved ELSE Fresh
    BY <1>2 DEF RestartWatcher
  <2>2. CursorsSound'
    BY <1>2, <2>1, FreshCursor, SourceRests DEF SourcesIInv, CursorsSound, OnRecord, AllMet, Met
  <2>3. OnRecord'
    BY <1>2, <2>1, SourceRests DEF SourcesIInv, OnRecord, AllMet, Met
  <2> QED BY <1>2, <2>1, <2>2, <2>3, NoPageKeeps
<1>3. ASSUME SourcesIInv, ResetPipeline PROVE SourcesIInv'
  <2>1. UNCHANGED <<config, source>> /\ cursor' = Fresh /\ saved' = NoCursor /\ page' = NoPage /\ told' = [r \in Keys |-> 0]
    BY <1>3 DEF ResetPipeline
  <2>2. kind' = kind /\ row' = row /\ low' = low /\ clock' = clock /\ log' = log /\ inline' = inline /\ stamped' = stamped
    BY <2>1 DEF config, source
  <2>3. RowsSound' /\ LogSound'
    BY <1>3, <2>1, <2>2 DEF SourcesIInv, RowsSound, LogSound
  <2>4. CursorsSound'
    <3>1. CursorSound(Fresh, kind, clock) /\ \A r \in Keys : row[r].version > 0 => Due(kind, r, row[r], Fresh, low)
      BY <1>3, FreshCursor DEF SourcesIInv
    <3> QED BY <2>1, <2>2, <3>1 DEF CursorsSound, AllMet, Met, Shown
  <2>5. OnRecord'
    BY <2>1 DEF OnRecord
  <2>6. PageSound' /\ Course'
    BY <2>1 DEF PageSound, Course, NoPage, Listing, PageFields
  <2> QED BY <2>3, <2>4, <2>5, <2>6 DEF SourcesIInv
<1> QED BY <1>1, <1>2, <1>3

\* Retention: rows not written since stay due, since the cursor is past the scan.
LEMMA CleanupKeeps == SourcesIInv /\ Cleanup => SourcesIInv'
<1> SUFFICES ASSUME SourcesIInv, Cleanup PROVE SourcesIInv'
  OBVIOUS
<1>0. /\ UNCHANGED <<config, row, clock, told, cursor, saved, page>> /\ kind = "mssql" /\ cursor.pos > 0
      /\ low' = clock /\ log' = {e \in log : e.at >= clock}
  BY DEF Cleanup
<1>1. kind' = kind /\ row' = row /\ clock' = clock /\ told' = told /\ inline' = inline /\ stamped' = stamped
      /\ cursor' = cursor /\ saved' = saved /\ page' = page
  BY <1>0 DEF config
<1>2. RowsSound'
  BY <1>0, <1>1 DEF SourcesIInv, RowsSound
<1>3. LogSound'
  <2>1. \A e \in log' : e \in log
    BY <1>0
  <2>2. \A r \in Keys : row[r].at \in Nat /\ row[r].at <= clock /\ low <= clock /\ clock \in Nat /\ low \in Nat
    BY DEF SourcesIInv, RowsSound
  <2>3. ASSUME NEW r \in Keys, row[r].version > 0, clock <= row[r].at
        PROVE  \E e \in log' : e.key = r /\ e.at = row[r].at
    <3>1. PICK e \in log : e.key = r /\ e.at = row[r].at
      BY <1>0, <2>2, <2>3 DEF SourcesIInv, LogSound, Logs
    <3>2. e \in log'
      BY <1>0, <2>2, <2>3, <3>1
    <3> QED BY <3>1, <3>2
  <2> QED BY <1>0, <1>1, <2>1, <2>3 DEF SourcesIInv, LogSound
<1>4. saved = NoCursor /\ cursor.pos # 0 /\ (page.phase # "none" => page.next.pos # 0)
  <2>1. cursor.pos \in Nat
    BY DEF SourcesIInv, CursorsSound, CursorSound
  <2>2. cursor.pos # 0
    BY <1>0, <2>1
  <2> QED BY <1>0, <2>2 DEF SourcesIInv, OnRecord, Course
<1>5. \A c, r, w : c.pos # 0 /\ Due(kind, r, w, c, low) => Due(kind', r, w, c, low')
  BY <1>1 DEF Due
<1>6. CursorsSound'
  BY <1>1, <1>4, <1>5 DEF SourcesIInv, CursorsSound, AllMet, Met
<1>7. OnRecord'
  BY <1>1, <1>4 DEF OnRecord
<1>8. PageSound'
  <2>1. \A i \in page.items : page.phase # "none"
    BY DEF SourcesIInv, PageSound, NoPage
  <2>2. \A i \in page.items : ItemSound(i, cursor)' /\ ItemSound(i, page.next)'
    BY <1>1, <1>4, <1>5, <2>1 DEF SourcesIInv, PageSound, ItemSound
  <2>3. ~Listing /\ ~Listing'
    BY <1>0, <1>1 DEF Listing
  <2>4. page.phase = "read" => \A r \in Keys \ page.left : Met(r, page.next)' \/ [key |-> r, version |-> row[r].version] \in page.items
    BY <1>1, <1>4, <1>5 DEF SourcesIInv, PageSound, Met
  <2> QED BY <1>1, <1>4, <2>2, <2>3, <2>4 DEF SourcesIInv, PageSound
<1>9. Course'
  BY <1>0, <1>1 DEF SourcesIInv, Course, Listing
<1> QED BY <1>2, <1>3, <1>6, <1>7, <1>8, <1>9 DEF SourcesIInv

\* The initial states satisfy the inductive invariant.
LEMMA SourcesStart == SourcesInit => SourcesIInv
<1> SUFFICES ASSUME SourcesInit PROVE SourcesIInv
  OBVIOUS
<1>0. /\ row = [r \in Keys |-> [version |-> 0, at |-> 0, gone |-> FALSE]] /\ log = {} /\ low = 0 /\ clock = 0
      /\ told = [r \in Keys |-> 0] /\ cursor = Fresh /\ saved = NoCursor /\ page = NoPage /\ kind \in Kinds
  BY DEF SourcesInit
<1>1. RowsSound
  <2>1. inline \in BOOLEAN /\ stamped \in BOOLEAN /\ (kind \notin InlineKinds => ~inline) /\ (~stamped => kind = "postgresql")
    BY DEF SourcesInit
  <2> QED BY <1>0, <2>1 DEF RowsSound
<1>2. LogSound
  BY <1>0 DEF LogSound
<1>3. CursorsSound /\ OnRecord
  BY <1>0, <1>1, FreshCursor DEF CursorsSound, OnRecord
<1>4. PageSound /\ Course
  BY <1>0 DEF PageSound, Course, NoPage, Listing, PageFields
<1> QED BY <1>1, <1>2, <1>3, <1>4 DEF SourcesIInv

\* Every step keeps the inductive invariant.
LEMMA SourcesStep == SourcesIInv /\ [SourcesNext]_sourceVars => SourcesIInv'
<1> SUFFICES ASSUME SourcesIInv, [SourcesNext]_sourceVars PROVE SourcesIInv'
  OBVIOUS
<1>1. CASE UNCHANGED sourceVars
  <2>1. UNCHANGED <<config, source, told, cursor, saved>> /\ page' = page
    BY <1>1 DEF sourceVars, config, source
  <2>2. RowsSound' /\ LogSound' /\ CursorsSound' /\ OnRecord'
    BY <2>1, SourceRests, CursorRests
  <2>3. PageSound' /\ Course'
    BY <2>1, SourceRests DEF SourcesIInv, PageSound, Course, Listing, ItemSound, Met
  <2> QED BY <2>2, <2>3 DEF SourcesIInv
<1>2. CASE SourcesNext
  BY <1>2, ChangeKeeps, CleanupKeeps, ScanKeeps, TrackedKeeps, MaxLsnKeeps, ChangesKeep, VersionKeeps, RowsKeep,
     StartPollKeeps, ListBlobKeeps, PassOnKeeps, AdvanceKeeps, TroubleKeeps DEF SourcesNext, PollStep
<1> QED BY <1>1, <1>2

\* No row falls behind the cursor of a watcher of any kind before its content was
\* passed on, for any keys, size of pages, and number of commits and troubles
\* (ProcessPageAsync, PublishPageAsync, HandleChangesAsync).
THEOREM SourcesNothingSkipped == SourcesSpec => []NothingSkipped
<1>1. SourcesIInv => NothingSkipped
  BY SourcesSkipNothing
<1> QED BY <1>1, SourcesStart, SourcesStep, PTL DEF SourcesSpec
=============================================================================
