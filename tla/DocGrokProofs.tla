----------------------------- MODULE DocGrokProofs -----------------------------
(***************************************************************************)
(* Proofs about DocGrok and the registry of models, for every value of      *)
(* their constants: transform pipelines, stored keys, contracts of          *)
(* pipelines, keys and limits of models, embedding services, the pipeline   *)
(* worker and its chunking.                                                 *)
(***************************************************************************)
EXTENDS TransformPipelines, DocGrokService, PipelineContract, ModelRegistry, EmbeddingService,
        PipelineWorker, Chunking, FoldLemmas, SequenceTheorems, FiniteSetTheorems, WellFoundedInduction, TLAPS

-----------------------------------------------------------------------------
(* TransformPipelines: every step once, after what it needs.                *)

\* A finite set of numbers has a least element: the sets of the numbers below
\* each of them are finite, so that one of these sets contains no other.
LEMMA LeastElement ==
  ASSUME NEW S, S \subseteq Nat, IsFiniteSet(S), S # {}
  PROVE  \E i \in S : \A j \in S : i <= j
<1>. DEFINE Below(i) == {x \in S : x < i}
            F == {Below(i) : i \in S}
            R == StrictSubsetOrdering(S)
<1>1. IsWellFoundedOn(R, FiniteSubsetsOf(S))
  BY FS_StrictSubsetOrderingWellFounded
<1>2. F \subseteq FiniteSubsetsOf(S) /\ F # {}
  <2>1. \A i \in S : Below(i) \in SUBSET S /\ IsFiniteSet(Below(i))
    BY FS_Subset
  <2>2. F # {}
    OBVIOUS
  <2>. HIDE DEF Below
  <2>. QED BY <2>1, <2>2 DEF FiniteSubsetsOf
<1>3. \E T \in F : \A U \in F : <<U, T>> \notin R
  <2>. HIDE DEF R, F
  <2>. QED BY <1>1, <1>2, WFMin
<1>4. PICK i \in S : \A U \in F : <<U, Below(i)>> \notin R
  BY <1>3
<1>5. ASSUME NEW j \in S, j < i PROVE FALSE
  <2>. i \in Nat /\ j \in Nat
    OBVIOUS
  <2>1. \A x \in Nat : x < j => x < i
    BY <1>5
  <2>2. Below(j) \subseteq Below(i)
    BY <2>1
  <2>3. j \in Below(i) /\ j \notin Below(j)
    BY <1>5
  <2>4. Below(j) \in SUBSET S /\ Below(i) \in SUBSET S /\ Below(j) \in F
    OBVIOUS
  <2>. HIDE DEF Below, F
  <2>5. <<Below(j), Below(i)>> \in R
    BY <2>2, <2>3, <2>4 DEF StrictSubsetOrdering
  <2>. QED BY <1>4, <2>4, <2>5
<1>. QED
  <2>. \A k, n \in Nat : ~(k < n) => n <= k
    OBVIOUS
  <2>. QED BY <1>5

RunFields == {"steps", "pending", "batch", "executed", "ended"}

RunTyped(run) ==
    /\ DOMAIN run = RunFields
    /\ Len(run.steps) \in Nat /\ DOMAIN run.steps = 1 .. Len(run.steps)
    /\ run.executed \in Seq(DOMAIN run.steps)
    /\ run.pending \subseteq DOMAIN run.steps
    /\ run.batch \subseteq run.pending

\* what is not pending was executed, and once
Accounted(run) ==
    /\ \A i, j \in DOMAIN run.executed : run.executed[i] = run.executed[j] => i = j
    /\ \A s \in DOMAIN run.steps : s \in run.pending <=> \A i \in DOMAIN run.executed : run.executed[i] # s

\* what was executed or is about to be had what it needs
InOrder(run) ==
    /\ \A s \in run.batch : StepReady(run, s)
    /\ \A i \in DOMAIN run.executed :
           run.steps[run.executed[i]].needs \subseteq {run.steps[run.executed[k]].id : k \in 1 .. (i - 1)}

EndJustified(run) ==
    /\ run.ended = "done" => run.pending = {}
    /\ run.ended = "stuck" => run.pending # {} /\ \A s \in run.pending : ~StepReady(run, s)

RunSound(run) == RunTyped(run) /\ Accounted(run) /\ InOrder(run) /\ EndJustified(run)

TransformIInv == known \subseteq TransformSteps /\ (running = NoRun \/ RunSound(running))

LEMMA StartedSound ==
  ASSUME NEW t \in TransformSteps
  PROVE  RunSound([steps |-> t, pending |-> DOMAIN t, batch |-> {}, executed |-> <<>>, ended |-> "no"])
<1>. DEFINE r == [steps |-> t, pending |-> DOMAIN t, batch |-> {}, executed |-> <<>>, ended |-> "no"]
<1>1. RunTyped(r)
  BY TransformAssumption, EmptySeq DEF RunTyped, RunFields
<1>2. DOMAIN r.executed = {}
  BY EmptySeq
<1>. QED BY <1>1, <1>2 DEF RunSound, Accounted, InOrder, EndJustified

LEMMA EndedSound ==
  ASSUME NEW run, RunSound(run), NEW end \in {"done", "stuck", "failed"},
         end = "done" => run.pending = {},
         end = "stuck" => run.pending # {} /\ \A s \in run.pending : ~StepReady(run, s)
  PROVE  RunSound([run EXCEPT !.ended = end])
<1>. DEFINE r == [run EXCEPT !.ended = end]
<1>1. /\ r.steps = run.steps /\ r.pending = run.pending /\ r.batch = run.batch /\ r.executed = run.executed
      /\ r.ended = end /\ DOMAIN r = RunFields
  BY DEF RunSound, RunTyped, RunFields
<1>2. \A s : StepReady(r, s) = StepReady(run, s)
  BY <1>1 DEF StepReady, Executed
<1>. HIDE DEF r
<1>3. RunTyped(r) /\ Accounted(r)
  BY <1>1, ZenonT(60) DEF RunSound, RunTyped, Accounted
<1>4. InOrder(r)
  BY <1>1, <1>2 DEF RunSound, InOrder
<1>5. EndJustified(r)
  BY <1>1, <1>2 DEF EndJustified
<1>. QED BY <1>3, <1>4, <1>5 DEF RunSound, r

LEMMA RoundSound ==
  ASSUME NEW run, RunSound(run), run.ended = "no",
         NEW B, B \subseteq run.pending, \A s \in B : StepReady(run, s)
  PROVE  RunSound([run EXCEPT !.batch = B])
<1>. DEFINE r == [run EXCEPT !.batch = B]
<1>1. /\ r.steps = run.steps /\ r.pending = run.pending /\ r.batch = B /\ r.executed = run.executed
      /\ r.ended = "no" /\ DOMAIN r = RunFields
  BY DEF RunSound, RunTyped, RunFields
<1>2. \A s : StepReady(r, s) = StepReady(run, s)
  BY <1>1 DEF StepReady, Executed
<1>. HIDE DEF r
<1>3. RunTyped(r) /\ Accounted(r)
  BY <1>1 DEF RunSound, RunTyped, Accounted
<1>4. InOrder(r)
  BY <1>1, <1>2 DEF RunSound, InOrder
<1>5. EndJustified(r)
  BY <1>1 DEF EndJustified
<1>. QED BY <1>3, <1>4, <1>5 DEF RunSound, r

LEMMA ExecutedSound ==
  ASSUME NEW run, RunSound(run), run.ended = "no", NEW s \in run.batch
  PROVE  RunSound([run EXCEPT !.executed = Append(@, s), !.batch = @ \ {s}, !.pending = @ \ {s}])
<1>. DEFINE r == [run EXCEPT !.executed = Append(@, s), !.batch = @ \ {s}, !.pending = @ \ {s}]
            e == Append(run.executed, s)
<1>1. /\ r.steps = run.steps /\ r.pending = run.pending \ {s} /\ r.batch = run.batch \ {s} /\ r.executed = e
      /\ r.ended = "no" /\ DOMAIN r = RunFields
  BY DEF RunSound, RunTyped, RunFields
<1>. HIDE DEF r
<1>2. /\ run.executed \in Seq(DOMAIN run.steps) /\ s \in DOMAIN run.steps /\ s \in run.pending
      /\ Len(run.executed) \in Nat /\ DOMAIN run.executed = 1 .. Len(run.executed)
  BY LenProperties DEF RunSound, RunTyped
<1>3. /\ e \in Seq(DOMAIN run.steps) /\ DOMAIN e = 1 .. (Len(run.executed) + 1)
      /\ \A i \in 1 .. Len(run.executed) : e[i] = run.executed[i]
      /\ e[Len(run.executed) + 1] = s
  <2>. DEFINE q == run.executed
              S == DOMAIN run.steps
  <2>1. q \in Seq(S) /\ s \in S
    BY <1>2
  <2>2. /\ e \in Seq(S) /\ Len(e) = Len(q) + 1
        /\ \A i \in 1 .. Len(q) : e[i] = q[i]
        /\ e[Len(q) + 1] = s
    <3>. HIDE DEF S, q
    <3>. QED BY <2>1, AppendProperties DEF q
  <2>3. DOMAIN e = 1 .. Len(e)
    <3>. HIDE DEF S, e
    <3>. QED BY <2>2, LenProperties
  <2>. HIDE DEF e
  <2>. QED BY <1>2, <2>2, <2>3
<1>. HIDE DEF e
<1>4. RunTyped(r)
  BY <1>1, <1>3 DEF RunSound, RunTyped
<1>5. Accounted(r)
  <2>1. \A i \in DOMAIN e : i \in DOMAIN run.executed \/ i = Len(run.executed) + 1
    BY <1>2, <1>3
  <2>2. \A i \in DOMAIN run.executed : i \in DOMAIN e /\ e[i] = run.executed[i] /\ run.executed[i] # s
    BY <1>2, <1>3 DEF RunSound, Accounted
  <2>3. \A i, j \in DOMAIN e : e[i] = e[j] => i = j
    BY <1>3, <2>1, <2>2 DEF RunSound, Accounted
  <2>4. \A k \in DOMAIN run.steps : k \in run.pending \ {s} <=> \A i \in DOMAIN e : e[i] # k
    <3>1. Len(run.executed) + 1 \in DOMAIN e
      BY <1>2, <1>3
    <3>. QED BY <1>3, <2>1, <2>2, <3>1 DEF RunSound, Accounted
  <2>. QED BY <1>1, <2>3, <2>4 DEF Accounted
<1>6. Executed(run) \subseteq Executed(r)
  BY <1>1, <1>2, <1>3 DEF Executed
<1>7. InOrder(r)
  <2>1. \A k \in r.batch : StepReady(r, k)
    BY <1>1, <1>6 DEF StepReady, RunSound, InOrder
  <2>2. ASSUME NEW i \in DOMAIN e
        PROVE  run.steps[e[i]].needs \subseteq {run.steps[e[k]].id : k \in 1 .. (i - 1)}
    <3>1. CASE i \in DOMAIN run.executed
      <4>1. \A k \in 1 .. (i - 1) : k \in 1 .. Len(run.executed) /\ e[k] = run.executed[k]
        BY <1>2, <1>3, <3>1
      <4>2. run.steps[run.executed[i]].needs \subseteq {run.steps[run.executed[k]].id : k \in 1 .. (i - 1)}
        BY <3>1 DEF RunSound, InOrder
      <4>3. e[i] = run.executed[i]
        BY <1>2, <1>3, <3>1
      <4>. QED BY <4>1, <4>2, <4>3
    <3>2. CASE i = Len(run.executed) + 1
      <4>1. i - 1 = Len(run.executed) /\ e[i] = s
        BY <1>2, <1>3, <3>2
      <4>2. run.steps[s].needs \subseteq {run.steps[run.executed[k]].id : k \in DOMAIN run.executed}
        BY DEF RunSound, InOrder, StepReady, Executed
      <4>3. \A k \in DOMAIN run.executed : k \in 1 .. (i - 1) /\ e[k] = run.executed[k]
        BY <1>2, <1>3, <4>1
      <4>. QED BY <4>1, <4>2, <4>3
    <3>. QED BY <1>2, <1>3, <3>1, <3>2
  <2>. QED BY <1>1, <2>1, <2>2 DEF InOrder
<1>. QED BY <1>1, <1>4, <1>5, <1>7 DEF RunSound, EndJustified, r

LEMMA TransformStep ==
  ASSUME TransformIInv, [TransformNext]_transformVars
  PROVE  TransformIInv'
<1>. USE DEF TransformIInv
<1>1. ASSUME NEW t \in TransformSteps, DefinePipeline(t) \/ RemovePipeline(t) PROVE TransformIInv'
  BY <1>1 DEF DefinePipeline, RemovePipeline
<1>2. ASSUME NEW t \in TransformSteps, NEW u \in TransformSteps, UpdatePipeline(t, u) PROVE TransformIInv'
  BY <1>2 DEF UpdatePipeline
<1>3. ASSUME NEW t \in TransformSteps, Execute(t) PROVE TransformIInv'
  BY <1>3, StartedSound DEF Execute
<1>4. ASSUME running.ended = "no" PROVE RunSound(running)
  BY <1>4 DEF NoRun
<1>5. CASE Round
  <2>1. running.ended = "no" /\ running.pending # {} /\ RunSound(running)
    BY <1>4, <1>5 DEF Round
  <2>. DEFINE ready == {i \in running.pending : StepReady(running, i)}
  <2>2. CASE ready = {}
    <3>1. running' = [running EXCEPT !.ended = "stuck"] /\ UNCHANGED known
      BY <1>5, <2>2 DEF Round
    <3>2. RunSound([running EXCEPT !.ended = "stuck"])
      BY <2>1, <2>2, EndedSound
    <3>. QED BY <3>1, <3>2
  <2>3. CASE ready # {}
    <3>1. running' = [running EXCEPT !.batch = ready] /\ UNCHANGED known
      BY <1>5, <2>3 DEF Round
    <3>2. RunSound([running EXCEPT !.batch = ready])
      BY <2>1, RoundSound
    <3>. QED BY <3>1, <3>2
  <2>. QED BY <2>2, <2>3
<1>6. CASE RunStep
  <2>1. running.ended = "no" /\ running.batch # {} /\ RunSound(running) /\ UNCHANGED known
    BY <1>4, <1>6 DEF RunStep
  <2>. DEFINE i == CHOOSE j \in running.batch : \A k \in running.batch : j <= k
  <2>2. i \in running.batch
    <3>1. running.batch \subseteq 1 .. Len(running.steps) /\ Len(running.steps) \in Nat
      BY <2>1 DEF RunSound, RunTyped
    <3>2. running.batch \subseteq Nat /\ IsFiniteSet(running.batch)
      <4>1. \A n \in Nat : IsFiniteSet(1 .. n)
        BY FS_Interval
      <4>2. IsFiniteSet(1 .. Len(running.steps))
        BY <3>1, <4>1
      <4>. QED BY <3>1, <4>2, FS_Subset
    <3>. QED BY <2>1, <3>2, LeastElement
  <2>3. \/ running' = [running EXCEPT !.executed = Append(@, i), !.batch = @ \ {i}, !.pending = @ \ {i}]
        \/ running' = [running EXCEPT !.ended = "failed"]
    BY <1>6 DEF RunStep
  <2>. HIDE DEF i
  <2>4. /\ RunSound([running EXCEPT !.executed = Append(@, i), !.batch = @ \ {i}, !.pending = @ \ {i}])
        /\ RunSound([running EXCEPT !.ended = "failed"])
    BY <2>1, <2>2, ExecutedSound, EndedSound
  <2>. QED BY <2>1, <2>3, <2>4
<1>7. CASE ExecuteEnds
  <2>1. RunSound(running) /\ running.pending = {} /\ UNCHANGED known
        /\ running' = [running EXCEPT !.ended = "done"]
    BY <1>4, <1>7 DEF ExecuteEnds
  <2>2. RunSound([running EXCEPT !.ended = "done"])
    BY <2>1, EndedSound
  <2>. QED BY <2>1, <2>2
<1>8. CASE UNCHANGED transformVars
  BY <1>8 DEF transformVars
<1>. QED BY <1>1, <1>2, <1>3, <1>5, <1>6, <1>7, <1>8 DEF TransformNext

LEMMA SoundInOrder == TransformIInv => StepsInOrder
<1>. SUFFICES ASSUME TransformIInv, running # NoRun PROVE StepsInOrder
  BY DEF StepsInOrder
<1>1. RunSound(running)
  BY DEF TransformIInv
<1>2. \A i \in DOMAIN running.executed :
         running.steps[running.executed[i]].needs \subseteq {running.steps[running.executed[k]].id : k \in 1 .. (i - 1)}
  BY <1>1 DEF RunSound, InOrder
<1>3. ASSUME running.ended = "done"
      PROVE  /\ {running.executed[i] : i \in DOMAIN running.executed} = DOMAIN running.steps
             /\ Len(running.executed) = Len(running.steps)
  <2>. DEFINE e == running.executed
  <2>1. e \in Seq(DOMAIN running.steps) /\ Len(e) \in Nat /\ e \in [1 .. Len(e) -> DOMAIN running.steps]
    BY <1>1, LenProperties DEF RunSound, RunTyped
  <2>2. /\ \A i, j \in 1 .. Len(e) : e[i] = e[j] => i = j
        /\ \A s \in DOMAIN running.steps : \E i \in 1 .. Len(e) : e[i] = s
    BY <1>1, <1>3, <2>1 DEF RunSound, Accounted, EndJustified
  <2>3. ExistsBijection(1 .. Len(e), DOMAIN running.steps)
    <3>. HIDE DEF e
    <3>1. e \in Injection(1 .. Len(e), DOMAIN running.steps)
      BY <2>1, <2>2 DEF Injection, IsInjective
    <3>2. e \in Surjection(1 .. Len(e), DOMAIN running.steps)
      BY <2>1, <2>2 DEF Surjection
    <3>. QED BY <3>1, <3>2 DEF ExistsBijection, Bijection
  <2>4. Len(running.steps) \in Nat /\ DOMAIN running.steps = 1 .. Len(running.steps)
    BY <1>1 DEF RunSound, RunTyped
  <2>5. Cardinality(DOMAIN running.steps) = Len(e)
    <3>. HIDE DEF e
    <3>. QED BY <2>1, <2>3, FS_CountingElements
  <2>6. Cardinality(DOMAIN running.steps) = Len(running.steps)
    BY <2>4, FS_Interval
  <2>7. DOMAIN e = 1 .. Len(e)
    BY <2>1
  <2>8. \A i \in 1 .. Len(e) : e[i] \in DOMAIN running.steps
    BY <2>1
  <2>. HIDE DEF e
  <2>9. {e[i] : i \in DOMAIN e} = DOMAIN running.steps
    BY <2>2, <2>7, <2>8
  <2>. QED BY <2>5, <2>6, <2>9 DEF e
<1>4. ASSUME running.ended = "stuck"
      PROVE  \E W \in SUBSET running.pending : W # {} /\ \A i \in W :
                \E n \in running.steps[i].needs :
                    \A k \in DOMAIN running.steps : running.steps[k].id = n => k \in W
  <2>1. running.pending # {} /\ \A i \in running.pending : ~(running.steps[i].needs \subseteq Executed(running))
    BY <1>1, <1>4 DEF RunSound, EndJustified, StepReady
  <2>2. \A k \in DOMAIN running.steps : running.steps[k].id \notin Executed(running) => k \in running.pending
    BY <1>1 DEF RunSound, Accounted, Executed
  <2>3. \A i \in running.pending : \E n \in running.steps[i].needs :
            \A k \in DOMAIN running.steps : running.steps[k].id = n => k \in running.pending
    BY <2>1, <2>2
  <2>. QED BY <2>1, <2>3
<1>. QED BY <1>2, <1>3, <1>4 DEF StepsInOrder

\* A transform pipeline that ends ran each of its steps once and after all it
\* needs, and one that is reported as stuck is, whatever the admin API changes
\* meanwhile (PipelineExecutor).
THEOREM TransformStepsInOrder == TransformSpec => []StepsInOrder
<1>1. TransformInit => TransformIInv
  BY DEF TransformInit, TransformIInv
<1>2. TransformIInv /\ [TransformNext]_transformVars => TransformIInv'
  BY TransformStep
<1>. QED BY <1>1, <1>2, SoundInOrder, PTL DEF TransformSpec

-----------------------------------------------------------------------------
(* DocGrokService: what is stored can be decrypted.                         *)

\* the version that is recorded is the one that the data key was wrapped by
Sealed(e) == e.how \in {"plain", "empty"} \/ (e.how = "envelope" /\ e.recorded = e.wrapped)

DocGrokIInv ==
    /\ DOMAIN stored = ExternalModels /\ DOMAIN writing = Replicas
    /\ \A m \in ExternalModels : stored[m] # NoDoc => Sealed(stored[m].envelope)
    /\ \A r \in Replicas : writing[r] # NoWrite => Sealed(writing[r].envelope)

LEMMA EncryptSealed ==
  ASSUME NEW r, NEW key
  PROVE  Sealed(Encrypt(r, key))
BY DEF Sealed, Encrypt

LEMMA UpsertSealed ==
  ASSUME DocGrokIInv, NEW r \in Replicas, NEW m \in ExternalModels, NEW config, NEW key, NEW clear,
         Upsert(r, m, config, key, clear)
  PROVE  DocGrokIInv'
<1>. DEFINE kept == IF stored[m] = NoDoc THEN Empty ELSE stored[m].envelope
            envelope == IF key # "" THEN Encrypt(r, key) ELSE IF clear THEN Empty ELSE kept
<1>1. Sealed(envelope)
  <2>1. Sealed(Empty)
    BY DEF Sealed, Empty
  <2>2. Sealed(kept)
    BY <2>1 DEF DocGrokIInv
  <2>. QED BY <2>1, <2>2, EncryptSealed
<1>2. /\ writing' = [writing EXCEPT ![r] = [model |-> m, config |-> config, envelope |-> envelope]]
      /\ UNCHANGED stored
  BY DEF Upsert
<1>. HIDE DEF envelope
<1>. QED BY <1>1, <1>2 DEF DocGrokIInv

LEMMA DocGrokStep ==
  ASSUME DocGrokIInv, [DocGrokNext]_docgrokVars
  PROVE  DocGrokIInv'
<1>1. ASSUME NEW r \in Replicas, Written(r) PROVE DocGrokIInv'
  <2>1. /\ writing[r] # NoWrite /\ Sealed(writing[r].envelope)
        /\ stored' = [stored EXCEPT ![writing[r].model] = [config |-> writing[r].config, envelope |-> writing[r].envelope]]
        /\ writing' = [writing EXCEPT ![r] = NoWrite]
    BY <1>1 DEF Written, DocGrokIInv
  <2>. DEFINE doc == [config |-> writing[r].config, envelope |-> writing[r].envelope]
  <2>2. Sealed(doc.envelope)
    BY <2>1
  <2>. HIDE DEF doc
  <2>. QED BY <2>1, <2>2 DEF DocGrokIInv, doc
<1>2. ASSUME NEW r \in Replicas, NEW m \in ExternalModels, DeleteModelDoc(r, m) PROVE DocGrokIInv'
  BY <1>2 DEF DeleteModelDoc, DocGrokIInv
<1>3. ASSUME NEW r \in Replicas, Restart(r) PROVE DocGrokIInv'
  BY <1>3 DEF Restart, DocGrokIInv
<1>4. ASSUME NEW r \in Replicas, NEW m \in ExternalModels,
             \/ RevokeKey(r, m)
             \/ \E key \in ModelKeys : RotateKey(r, m, key)
             \/ \E key \in ModelKeys \cup {""} : RegisterModel(r, m, key)
      PROVE  DocGrokIInv'
  BY <1>4, UpsertSealed DEF RevokeKey, RotateKey, RegisterModel
<1>5. CASE UNCHANGED <<stored, writing>>
  BY <1>5 DEF DocGrokIInv
<1>6. ASSUME NEW r \in Replicas, MakeCipher(r) \/ ListModels(r) \/ \E m \in ExternalModels : UseModel(r, m)
      PROVE  UNCHANGED <<stored, writing>>
  BY <1>6 DEF MakeCipher, ListModels, UseModel
<1>7. RotateKek \/ UNCHANGED docgrokVars => UNCHANGED <<stored, writing>>
  BY DEF RotateKek, docgrokVars
<1>. QED BY <1>1, <1>2, <1>3, <1>4, <1>5, <1>6, <1>7 DEF DocGrokNext

\* A replica with access to the vault reads every stored key as it was written,
\* whatever versions of the vault's key it and the writer started with, and
\* whatever rotations, registrations and revocations overlap.
THEOREM DocGrokKeysReadable == DocGrokSpec => []KeysReadable
<1>1. DocGrokInit => DocGrokIInv
  BY DEF DocGrokInit, DocGrokIInv
<1>2. DocGrokIInv => KeysReadable
  BY DEF DocGrokIInv, KeysReadable, Decrypted, Decrypts, Sealed
<1>. QED BY <1>1, <1>2, DocGrokStep, PTL DEF DocGrokSpec

-----------------------------------------------------------------------------
(* PipelineContract: what one handler leaves out no other lets in.           *)

RequestFields == {"sources", "mode", "strategy", "field", "identity", "size", "overlap", "dim", "keep"}

\* Every request names a source.  The API takes an empty list as well, for which
\* every check of the sources holds: an update with one can change the mode of the
\* stored pipeline to anything, so that the contract is promised for these only.
SourcesNamed == \A r \in PipelineRequests : r.sources # {}

\* The inductive invariant: the stored request satisfies the contracts of its
\* sources and of its mode together, also those a handler does not look at.
Kept(r) ==
    /\ DOMAIN r = RequestFields
    /\ r.sources \subseteq SourceIds /\ r.sources # {}
    /\ GarnetContract(r) /\ OneLakeContract(r) /\ SharePointContract(r)
    /\ ChunkingContract(r) /\ ModeContract(r)

ContractIInv == pipeline = NoPipeline \/ \E r, s : pipeline = [status |-> s, request |-> r] /\ Kept(r)

\* One source has one type, of which the set of types is.
LEMMA OneSource ==
  ASSUME NEW r, r.sources \subseteq SourceIds, Cardinality(r.sources) = 1
  PROVE  \E s : r.sources = {s} /\ Types(r) = {source[s].type}
<1>1. IsFiniteSet(r.sources)
  BY ContractAssumption, FS_Subset
<1>2. PICK s : r.sources = {s}
  BY <1>1, FS_Singleton
<1> QED BY <1>2 DEF Types

\* The contracts are about the request, the sources and the destination only.
LEMMA KeptStays ==
  ASSUME NEW r, Kept(r), UNCHANGED <<source, destination>>
  PROVE  Kept(r)'
  BY DEF Kept, GarnetContract, MockContract, GarnetPair, OneLakeContract, SharePointContract,
     ChunkingContract, ModeContract, InlineCompatible, IsInlineCompatible, Types

LEMMA StoredKept ==
  ASSUME NEW r, NEW s, Kept(r), UNCHANGED <<source, destination>>, pipeline' = [status |-> s, request |-> r]
  PROVE  ContractIInv'
<1>1. Kept(r)'
  BY KeptStays
<1> QED BY <1>1 DEF ContractIInv

\* Only a pair of stores that one watcher serves runs inline.
LEMMA InlinePairs ==
  ASSUME NEW r, r.sources # {}, InlineCompatible(r)
  PROVE  /\ destination.type # "onelake-iceberg"
         /\ "sharepoint" \in Types(r) => destination.type = "garnet"
<1>1. CASE destination.type = "mock" /\ Types(r) = {"mock"}
  BY <1>1
<1>2. CASE GarnetPair(r)
  BY <1>2 DEF GarnetPair
<1>3. CASE IsInlineCompatible(r)
  BY <1>3 DEF IsInlineCompatible, Types
<1> QED BY <1>1, <1>2, <1>3 DEF InlineCompatible

LEMMA CreateKeeps ==
  ASSUME SourcesNamed, NEW r \in PipelineRequests, Create(r)
  PROVE  ContractIInv'
<1>1. Kept(r)
  BY ContractAssumption DEF Create, Kept, RequestFields, SourcesNamed
<1> QED BY <1>1, StoredKept DEF Create

\* An update keeps the field and the identity of the stored pipeline; where a
\* contract needs a field, the stored one already needed it.
LEMMA UpdateKeeps ==
  ASSUME SourcesNamed, ContractIInv, NEW r \in PipelineRequests, Update(r)
  PROVE  ContractIInv'
<1>1. PICK old, s : pipeline = [status |-> s, request |-> old] /\ Kept(old)
  BY DEF Update, ContractIInv
<1> DEFINE merged == [r EXCEPT !.sources = old.sources, !.field = old.field, !.identity = old.identity]
<1>2. DOMAIN r = RequestFields /\ r.sources = old.sources
  BY <1>1, ContractAssumption DEF Update, Immutable, SourcesNamed, RequestFields
<1>3. /\ DOMAIN merged = RequestFields /\ merged.sources = old.sources /\ merged.field = old.field
      /\ merged.identity = old.identity /\ merged.mode = r.mode /\ merged.strategy = r.strategy
      /\ merged.size = r.size /\ merged.overlap = r.overlap /\ merged.dim = r.dim
  BY <1>2 DEF RequestFields
<1>4. pipeline' = [status |-> s, request |-> merged] /\ UNCHANGED <<source, destination>>
  BY <1>1 DEF Update
<1>5. /\ GarnetContract(r) /\ ChunkingContract(r) /\ ModeContract(r) /\ OneLakeContract(r) /\ SharePointContract(r)
      /\ "cosmosdb" \in Types(r) => r.strategy = old.strategy
  BY <1>1 DEF Update, Immutable
<1> HIDE DEF merged
<1>6. Types(merged) = Types(r) /\ Types(merged) = Types(old)
  BY <1>2, <1>3 DEF Types
<1>7. GarnetContract(merged)
  BY <1>1, <1>2, <1>3, <1>5, <1>6 DEF Kept, GarnetContract, MockContract, GarnetPair
<1>8. OneLakeContract(merged) /\ SharePointContract(merged)
  BY <1>1, <1>2, <1>3, <1>5, <1>6 DEF Kept, OneLakeContract, SharePointContract
<1>9. ChunkingContract(merged)
  BY <1>1, <1>2, <1>3, <1>5, <1>6 DEF Kept, ChunkingContract
<1>10. ModeContract(merged)
  BY <1>2, <1>3, <1>5, <1>6 DEF ModeContract, InlineCompatible, IsInlineCompatible, GarnetPair
<1>11. Kept(merged)
  BY <1>1, <1>3, <1>7, <1>8, <1>9, <1>10 DEF Kept
<1> QED BY <1>4, <1>11, StoredKept

\* A change of mode looks at neither OneLake nor SharePoint: their pairs of stores
\* are none that runs inline.
LEMMA SetModeKeeps ==
  ASSUME ContractIInv, NEW mode \in {"queue", "inline"}, SetMode(mode)
  PROVE  ContractIInv'
<1>1. PICK old, s : pipeline = [status |-> s, request |-> old] /\ Kept(old)
  BY DEF SetMode, ContractIInv
<1> DEFINE r == [old EXCEPT !.mode = mode]
<1>2. /\ DOMAIN r = RequestFields /\ r.sources = old.sources /\ r.field = old.field
      /\ r.identity = old.identity /\ r.mode = mode /\ r.strategy = old.strategy
  BY <1>1 DEF Kept, RequestFields
<1>3. pipeline' = [status |-> s, request |-> r] /\ UNCHANGED <<source, destination>>
  BY <1>1 DEF SetMode
<1>4. GarnetContract(r) /\ ChunkingContract(r) /\ ModeContract(r)
  BY <1>1 DEF SetMode
<1> HIDE DEF r
<1>5. Types(r) = Types(old)
  BY <1>2 DEF Types
<1>6. mode = "inline" => InlineCompatible(r)
  BY <1>2, <1>4 DEF ModeContract
<1>7. OneLakeContract(r)
  BY <1>1, <1>2, <1>6, InlinePairs DEF Kept, OneLakeContract
<1>8. SharePointContract(r)
  BY <1>1, <1>2, <1>5, <1>6, InlinePairs DEF Kept, SharePointContract
<1>9. Kept(r)
  BY <1>1, <1>2, <1>4, <1>7, <1>8 DEF Kept
<1> QED BY <1>3, <1>9, StoredKept

LEMMA ContractStep == SourcesNamed /\ ContractIInv /\ [ContractNext]_contractVars => ContractIInv'
<1> SUFFICES ASSUME SourcesNamed, ContractIInv, [ContractNext]_contractVars PROVE ContractIInv'
  OBVIOUS
<1>1. CASE UNCHANGED contractVars \/ Activate \/ Pause
  <2>1. CASE pipeline = NoPipeline
    BY <1>1, <2>1 DEF contractVars, Activate, Pause, ContractIInv
  <2>2. CASE pipeline # NoPipeline
    <3>1. PICK r, s : pipeline = [status |-> s, request |-> r] /\ Kept(r)
      BY <2>2 DEF ContractIInv
    <3>2. UNCHANGED <<source, destination>> /\ \E status : pipeline' = [status |-> status, request |-> r]
      BY <1>1, <3>1 DEF contractVars, Activate, Pause
    <3> QED BY <3>1, <3>2, StoredKept
  <2> QED BY <2>1, <2>2
<1>2. ASSUME NEW r \in PipelineRequests, Create(r) \/ Update(r) PROVE ContractIInv'
  BY <1>2, CreateKeeps, UpdateKeeps
<1>3. ASSUME NEW mode \in {"queue", "inline"}, SetMode(mode) PROVE ContractIInv'
  BY <1>3, SetModeKeeps
<1> QED BY <1>1, <1>2, <1>3 DEF ContractNext

\* Together the contracts say that the data path can run the pipeline.
LEMMA KeptRuns ==
  ASSUME NEW r, Kept(r)
  PROVE  Runs(r)
<1>1. r.sources \subseteq SourceIds /\ r.sources # {} /\ Types(r) # {}
  BY DEF Kept, Types
<1>2. ASSUME r.mode = "inline"
      PROVE  \/ Cardinality(r.sources) = 1 /\ <<Types(r), destination.type>> \in {<<{"mock"}, "mock">>, <<{"garnet"}, "garnet">>}
             \/ /\ <<Types(r), destination.type>> \in {<<{"cosmosdb"}, "cosmosdb-vector">>, <<{"pgvector"}, "pgvector">>}
                /\ \A s \in r.sources : source[s].place = destination.place
  <2>1. CASE destination.type = "mock" /\ Cardinality(r.sources) = 1 /\ Types(r) = {"mock"}
    BY <2>1
  <2>2. CASE "garnet" \in Types(r) /\ GarnetPair(r)
    <3>1. Cardinality(r.sources) = 1 /\ destination.type = "garnet"
      BY <2>2 DEF GarnetPair
    <3>2. Types(r) = {"garnet"}
      BY <1>1, <2>2, <3>1, OneSource
    <3> QED BY <3>1, <3>2
  <2>3. CASE IsInlineCompatible(r)
    <3>1. CASE destination.type = "cosmosdb-vector"
      <4>1. Types(r) = {"cosmosdb"} /\ \A s \in r.sources : source[s].place = destination.place
        BY <1>1, <2>3, <3>1 DEF IsInlineCompatible, Types
      <4> QED BY <3>1, <4>1
    <3>2. CASE destination.type = "pgvector"
      <4>1. Types(r) = {"pgvector"} /\ \A s \in r.sources : source[s].place = destination.place
        BY <1>1, <2>3, <3>2 DEF IsInlineCompatible, Types
      <4> QED BY <3>2, <4>1
    <3> QED BY <1>1, <2>3, <3>1, <3>2 DEF IsInlineCompatible
  <2> QED BY <1>2, <2>1, <2>2, <2>3 DEF Kept, ModeContract, InlineCompatible
<1>3. {"mock", "garnet"} \cap Types(r) # {} => r.mode = "inline" /\ r.strategy = "truncate"
  BY DEF Kept, GarnetContract, MockContract
<1>4. "sharepoint" \in Types(r) => r.mode = "queue" /\ destination.pk = "dedicated"
  BY DEF Kept, SharePointContract
<1>5. destination.type = "onelake-iceberg" => Types(r) = {"onelake-iceberg"} /\ r.strategy = "truncate"
  BY <1>1 DEF Kept, OneLakeContract, Types
<1>6. "cosmosdb" \in Types(r) /\ r.strategy = "chunk" => r.mode = "queue" /\ r.overlap < r.size
  BY DEF Kept, ChunkingContract
<1> QED BY <1>2, <1>3, <1>4, <1>5, <1>6 DEF Runs

\* For any stores and any requests that name a source: no order of create, update,
\* set-mode, resume and pause stores a pipeline that cannot run.
THEOREM PipelineContractKept == SourcesNamed => (ContractSpec => []ContractKept)
<1>1. ContractInit => ContractIInv
  BY DEF ContractInit, ContractIInv
<1>2. ContractIInv => ContractKept
  <2> SUFFICES ASSUME ContractIInv, pipeline # NoPipeline
               PROVE  /\ Runs(pipeline.request)
                      /\ ChunkingContract(pipeline.request) /\ GarnetContract(pipeline.request)
    BY DEF ContractKept
  <2>1. PICK r, s : pipeline = [status |-> s, request |-> r] /\ Kept(r)
    BY DEF ContractIInv
  <2>2. pipeline.request = r
    BY <2>1
  <2> QED BY <2>1, <2>2, KeptRuns DEF Kept
<1>3. (SourcesNamed /\ ContractIInv) /\ [ContractNext]_contractVars => (SourcesNamed /\ ContractIInv)'
  BY ContractStep DEF SourcesNamed
<1> QED BY <1>1, <1>2, <1>3, PTL DEF ContractSpec

-----------------------------------------------------------------------------
(* ModelRegistry: what overlapping writes undo, and what they do not.        *)

ModelFields == {"category", "key", "limits", "rev"}
RegisterFields == {"op", "at", "model", "key", "own", "limits", "stated", "began"}
ChatFields == {"op", "at", "model", "key", "doc", "read", "limits", "stated"}
BaseFields == {"op", "at", "model", "own", "tries", "todo"}

\* What a request has read or remembers, about the documents M of models and S of
\* pipelines and the number v of revisions.
DocSound(d, v) == DOMAIN d = ModelFields /\ d.rev \in 1 .. v

\* a document that was read is the stored one, or its revision is past
ReadSound(read, m, M, v) ==
    read # Absent => DocSound(read, v) /\ (M[m] # Absent /\ M[m].rev = read.rev => M[m] = read)

\* a revision is that of the model, or an older one, also after the model was
\* deleted and created again
RevisionSound(n, m, M, v) == n \in 0 .. v /\ (M[m] # Absent => n <= M[m].rev)

\* limits that are not stated are those of revision began of the model, which it
\* still has or which is past
RepeatSound(stated, limits, began, m, M, v) ==
    /\ began \in 0 .. v
    /\ ~stated /\ M[m] # Absent => began < M[m].rev \/ M[m].limits = limits

PipelineRead(p, rev, S) ==
    /\ p \in Pipelines
    /\ rev \in Nat \ {0}
    /\ S[p] # NoPipelineDoc
    /\ S[p].rev > 0 => rev <= S[p].rev

RegisterSound(r, M, v) ==
    /\ DOMAIN r = RegisterFields \cup (IF r.at = "lookup" THEN {} ELSE {"read"})
    /\ r.model \in Models
    /\ RevisionSound(r.own, r.model, M, v)
    /\ RepeatSound(r.stated, r.limits, r.began, r.model, M, v)
    /\ r.at # "lookup" => ReadSound(r.read, r.model, M, v)
    /\ r.at = "patch" => r.read # Absent

ChatSound(r, M, v) ==
    /\ DOMAIN r = ChatFields
    /\ r.model \in Models
    /\ r.at = "secret" => r.key # NoKey
    /\ ReadSound(r.read, r.model, M, v)
    /\ r.read # Absent => /\ r.doc = r.read.key \/ (r.key # NoKey /\ r.doc \in {r.key, NoKey})
                          /\ ~r.stated => r.limits = r.read.limits

RefreshSound(r, M, S, v) ==
    /\ DOMAIN r = BaseFields \cup (CASE r.at = "pipeline" -> {}
                                     [] r.at = "model" -> {"pipeline", "rev"}
                                     [] OTHER -> {"pipeline", "rev", "of", "gone"})
    /\ r.model \in Models
    /\ RevisionSound(r.own, r.model, M, v)
    /\ r.todo \subseteq {p \in Pipelines : ModelOf[p] = r.model}
    /\ r.at # "pipeline" => r.pipeline \in r.todo /\ PipelineRead(r.pipeline, r.rev, S)
    /\ r.at = "write" =>
           /\ RevisionSound(r.of, r.model, M, v)
           /\ ~r.gone /\ S[r.pipeline].rev = r.rev => S[r.pipeline].of <= r.of

RequestSound(r, M, S, v) ==
    \/ r = Waiting
    \/ r.op \in {"create", "update", "sync"} /\ r.at \in {"lookup", "write", "reread", "patch", "list"} /\ RegisterSound(r, M, v)
    \/ r.op = "chat" /\ ChatSound(r, M, v)
    \/ r.op \in {"refresh", "read"} /\ r.at \in {"pipeline", "model", "write"} /\ RefreshSound(r, M, S, v)
    \/ r.op = "delete" /\ DOMAIN r = {"op", "at", "model"} /\ r.model \in Models
    \/ r.op = "startup" /\ DOMAIN r = {"op", "at", "stored"} /\ \A m \in Models : ReadSound(r.stored[m], m, M, v)

ModelsSound(M, v) == v \in Nat \ {0} /\ DOMAIN M = Models /\ \A m \in Models : M[m] = Absent \/ DocSound(M[m], v)

SnapshotSound(s, m, M, v) ==
    \/ s \in {NoPipelineDoc, DeletedPipeline}
    \/ DOMAIN s = {"rev", "of"} /\ s.rev \in Nat \ {0} /\ RevisionSound(s.of, m, M, v)

SnapshotsSound(S, M, v) == DOMAIN S = Pipelines /\ \A p \in Pipelines : SnapshotSound(S[p], ModelOf[p], M, v)

RegistryIInv ==
    /\ ModelsSound(model, version)
    /\ SnapshotsSound(snapshot, model, version)
    /\ DOMAIN request = Callers
    /\ \A c \in Callers : RequestSound(request[c], model, snapshot, version)

\* How the documents may move: revisions are new ones, and so is a model that was
\* deleted; a pipeline is created once, and every write gives it a greater number.
ModelsMove(M, v, N, w) ==
    /\ w \in Nat /\ v <= w
    /\ \A m \in Models : N[m] = M[m] \/ N[m] = Absent \/ (DocSound(N[m], w) /\ v < N[m].rev)

SnapshotsMove(S, T) ==
    \A p \in Pipelines : T[p] = S[p] \/ S[p] = NoPipelineDoc \/ T[p] = DeletedPipeline
                         \/ (T[p].rev \in Nat /\ 0 < S[p].rev /\ S[p].rev < T[p].rev)

LEMMA RevisionKept ==
  ASSUME NEW M, NEW N, NEW v \in Nat, NEW w, ModelsMove(M, v, N, w), NEW m \in Models, NEW n, RevisionSound(n, m, M, v)
  PROVE  RevisionSound(n, m, N, w)
<1>1. n \in 0 .. w
  BY DEF ModelsMove, RevisionSound
<1>2. N[m] # Absent => n <= N[m].rev
  BY DEF ModelsMove, RevisionSound, DocSound
<1> QED BY <1>1, <1>2 DEF RevisionSound

LEMMA ReadKept ==
  ASSUME NEW M, NEW N, NEW v \in Nat, NEW w, ModelsMove(M, v, N, w), NEW m \in Models, NEW read, ReadSound(read, m, M, v)
  PROVE  ReadSound(read, m, N, w)
<1> SUFFICES ASSUME read # Absent
             PROVE  DocSound(read, w) /\ (N[m] # Absent /\ N[m].rev = read.rev => N[m] = read)
  BY DEF ReadSound
<1>1. DocSound(read, v) /\ (M[m] # Absent /\ M[m].rev = read.rev => M[m] = read)
  BY DEF ReadSound
<1>2. DocSound(read, w)
  BY <1>1 DEF DocSound, ModelsMove
<1>3. N[m] # Absent /\ N[m].rev = read.rev => N[m] = read
  BY <1>1 DEF DocSound, ModelsMove
<1> QED BY <1>2, <1>3

LEMMA RepeatKept ==
  ASSUME NEW M, NEW N, NEW v \in Nat, NEW w, ModelsMove(M, v, N, w), NEW m \in Models,
         NEW stated, NEW limits, NEW began, RepeatSound(stated, limits, began, m, M, v)
  PROVE  RepeatSound(stated, limits, began, m, N, w)
<1>1. began \in 0 .. w
  BY DEF ModelsMove, RepeatSound
<1>2. ASSUME ~stated, N[m] # Absent PROVE began < N[m].rev \/ N[m].limits = limits
  BY <1>2 DEF ModelsMove, RepeatSound, DocSound
<1> QED BY <1>1, <1>2 DEF RepeatSound

\* What a request knows stays true however the documents move.
LEMMA RequestKept ==
  ASSUME NEW M, NEW N, NEW S, NEW T, NEW v \in Nat, NEW w, NEW r,
         SnapshotsSound(S, M, v), ModelsMove(M, v, N, w), SnapshotsMove(S, T), RequestSound(r, M, S, v)
  PROVE  RequestSound(r, N, T, w)
<1>1. ASSUME RegisterSound(r, M, v) PROVE RegisterSound(r, N, w)
  <2>1. r.model \in Models
    BY <1>1 DEF RegisterSound
  <2>2. RevisionSound(r.own, r.model, N, w)
    BY <1>1, <2>1, RevisionKept DEF RegisterSound
  <2>3. r.at # "lookup" => ReadSound(r.read, r.model, N, w)
    BY <1>1, <2>1, ReadKept DEF RegisterSound
  <2>4. RepeatSound(r.stated, r.limits, r.began, r.model, N, w)
    BY <1>1, <2>1, RepeatKept DEF RegisterSound
  <2> QED BY <1>1, <2>1, <2>2, <2>3, <2>4 DEF RegisterSound
<1>2. ASSUME ChatSound(r, M, v) PROVE ChatSound(r, N, w)
  BY <1>2, ReadKept DEF ChatSound
<1>3. ASSUME NEW p, NEW rev, PipelineRead(p, rev, S)
      PROVE  /\ PipelineRead(p, rev, T)
             /\ T[p].rev = rev => S[p] = T[p]
  <2>1. p \in Pipelines /\ rev \in Nat \ {0} /\ S[p] # NoPipelineDoc /\ (S[p].rev > 0 => rev <= S[p].rev)
    BY <1>3 DEF PipelineRead
  <2>2. DeletedPipeline.rev = 0 /\ DeletedPipeline # NoPipelineDoc /\ NoPipelineDoc.rev = 0
    BY DEF DeletedPipeline, NoPipelineDoc
  <2>3. S[p].rev \in Nat
    BY <2>1, <2>2 DEF SnapshotsSound, SnapshotSound
  <2>4. CASE T[p] = S[p]
    BY <2>1, <2>4 DEF PipelineRead
  <2>5. CASE T[p] = DeletedPipeline
    BY <2>1, <2>2, <2>5 DEF PipelineRead
  <2>6. CASE T[p].rev \in Nat /\ 0 < S[p].rev /\ S[p].rev < T[p].rev
    <3>1. T[p] # NoPipelineDoc
      BY <2>2, <2>3, <2>6
    <3>2. rev < T[p].rev
      BY <2>1, <2>3, <2>6
    <3> QED BY <2>1, <2>6, <3>1, <3>2 DEF PipelineRead
  <2> QED BY <2>1, <2>4, <2>5, <2>6 DEF SnapshotsMove
<1>4. ASSUME RefreshSound(r, M, S, v) PROVE RefreshSound(r, N, T, w)
  <2>1. r.model \in Models
    BY <1>4 DEF RefreshSound
  <2>2. RevisionSound(r.own, r.model, N, w)
    BY <1>4, <2>1, RevisionKept DEF RefreshSound
  <2>3. r.at # "pipeline" => r.pipeline \in r.todo /\ PipelineRead(r.pipeline, r.rev, T)
    BY <1>4, <1>3 DEF RefreshSound
  <2>4. ASSUME r.at = "write"
        PROVE  /\ RevisionSound(r.of, r.model, N, w)
               /\ ~r.gone /\ T[r.pipeline].rev = r.rev => T[r.pipeline].of <= r.of
    <3>1. RevisionSound(r.of, r.model, N, w)
      BY <1>4, <2>1, <2>4, RevisionKept DEF RefreshSound
    <3>2. T[r.pipeline].rev = r.rev => S[r.pipeline] = T[r.pipeline]
      BY <1>4, <2>4, <1>3 DEF RefreshSound
    <3> QED BY <1>4, <2>4, <3>1, <3>2 DEF RefreshSound
  <2> QED BY <1>4, <2>1, <2>2, <2>3, <2>4 DEF RefreshSound
<1>5. ASSUME \A m \in Models : ReadSound(r.stored[m], m, M, v) PROVE \A m \in Models : ReadSound(r.stored[m], m, N, w)
  BY <1>5, ReadKept
<1> QED BY <1>1, <1>2, <1>4, <1>5 DEF RequestSound

\* A step that moves the documents and gives one request what it may know then.
LEMMA RegistryMoves ==
  ASSUME RegistryIInv, ModelsSound(model', version'), SnapshotsSound(snapshot', model', version'),
         ModelsMove(model, version, model', version'), SnapshotsMove(snapshot, snapshot'),
         NEW c, NEW r, RequestSound(r, model', snapshot', version'),
         request' = request \/ Following(c, r)
  PROVE  RegistryIInv'
<1>1. version \in Nat /\ SnapshotsSound(snapshot, model, version)
  BY DEF RegistryIInv, ModelsSound
<1>2. DOMAIN request' = Callers
  BY DEF RegistryIInv, Following
<1>3. ASSUME NEW d \in Callers PROVE RequestSound(request'[d], model', snapshot', version')
  <2>1. request'[d] = r \/ request'[d] = request[d]
    BY DEF RegistryIInv, Following
  <2>2. RequestSound(request[d], model, snapshot, version)
    BY DEF RegistryIInv
  <2>3. RequestSound(request[d], model', snapshot', version')
    BY <1>1, <2>2, RequestKept
  <2> QED BY <2>1, <2>3
<1> QED BY <1>2, <1>3 DEF RegistryIInv

\* The snapshots stay sound when the models move.
LEMMA SnapshotsKept ==
  ASSUME RegistryIInv, NEW N, NEW w, ModelsMove(model, version, N, w)
  PROVE  SnapshotsSound(snapshot, N, w)
<1>1. version \in Nat
  BY DEF RegistryIInv, ModelsSound
<1>2. ASSUME NEW p \in Pipelines PROVE SnapshotSound(snapshot[p], ModelOf[p], N, w)
  <2>1. ModelOf[p] \in Models
    BY RegistryAssumption
  <2>2. SnapshotSound(snapshot[p], ModelOf[p], model, version)
    BY DEF RegistryIInv, SnapshotsSound
  <2> QED BY <1>1, <2>1, <2>2, RevisionKept DEF SnapshotSound
<1> QED BY <1>2 DEF RegistryIInv, SnapshotsSound

\* A step that moves no document.
LEMMA RegistryQuiet ==
  ASSUME RegistryIInv, UNCHANGED <<model, snapshot, version>>,
         NEW c, NEW r, RequestSound(r, model, snapshot, version), Following(c, r)
  PROVE  RegistryIInv'
<1>1. ModelsSound(model', version') /\ SnapshotsSound(snapshot', model', version')
  BY DEF RegistryIInv
<1>2. ModelsMove(model, version, model', version') /\ SnapshotsMove(snapshot, snapshot')
  BY DEF RegistryIInv, ModelsSound, ModelsMove, SnapshotsMove
<1> QED BY <1>1, <1>2, RegistryMoves

LEMMA WaitingSound == \A M, S, v : RequestSound(Waiting, M, S, v)
  BY DEF RequestSound

\* What a request reads now is sound, and so are the limits of a model now.
LEMMA ReadNow ==
  ASSUME RegistryIInv, NEW m \in Models
  PROVE  /\ ReadSound(model[m], m, model, version)
         /\ RevisionSound(0, m, model, version)
         /\ ModelExists(m) => RevisionSound(model[m].rev, m, model, version)
  BY DEF RegistryIInv, ModelsSound, DocSound, ReadSound, RevisionSound, ModelExists

\* What With makes of a record.
LEMMA WithFields ==
  ASSUME NEW r, NEW more
  PROVE  /\ DOMAIN With(r, more) = DOMAIN r \cup DOMAIN more
         /\ \A x \in DOMAIN more : With(r, more)[x] = more[x]
         /\ \A x \in DOMAIN r \ DOMAIN more : With(r, more)[x] = r[x]
  BY DEF With

\* The request after its lookup, its second read, the list of pipelines.
LEMMA RegisterReads ==
  ASSUME RegistryIInv, NEW c \in Callers, Lookup(c) \/ Reread(c) \/ ListPipelines(c)
  PROVE  RegistryIInv'
<1> DEFINE r == request[c]
<1>1. RegisterSound(r, model, version) /\ r.op \in {"create", "update", "sync"}
      /\ r.at \in {"lookup", "write", "reread", "patch", "list"}
  BY DEF RegistryIInv, RequestSound, Lookup, Reread, ListPipelines, Routing, Waiting
<1>2. r.model \in Models /\ ReadSound(model[r.model], r.model, model, version)
  BY <1>1, ReadNow DEF RegisterSound
<1>3. UNCHANGED <<model, snapshot, version>>
  BY DEF Lookup, Reread, ListPipelines
<1>4. CASE Lookup(c)
  <2> DEFINE more == [at |-> "write", read |-> model[r.model]]
             seen == With(r, more)
  <2>1. r.at = "lookup" /\ Following(c, seen)
    BY <1>4 DEF Lookup, Routing
  <2>2. /\ DOMAIN seen = RegisterFields \cup {"read"}
        /\ seen.op = r.op /\ seen.at = "write" /\ seen.model = r.model /\ seen.own = r.own
        /\ seen.stated = r.stated /\ seen.limits = r.limits /\ seen.began = r.began
        /\ seen.read = model[r.model]
    <3>1. DOMAIN more = {"at", "read"} /\ more.at = "write" /\ more.read = model[r.model]
      OBVIOUS
    <3>2. DOMAIN r = RegisterFields
      BY <1>1, <2>1 DEF RegisterSound
    <3> HIDE DEF more, r
    <3>3. DOMAIN r \ DOMAIN more = RegisterFields \ {"at"}
      BY <3>1, <3>2 DEF RegisterFields
    <3>4. /\ DOMAIN seen = DOMAIN r \cup DOMAIN more
          /\ \A x \in DOMAIN more : seen[x] = more[x]
          /\ \A x \in DOMAIN r \ DOMAIN more : seen[x] = r[x]
      BY WithFields
    <3> HIDE DEF seen
    <3>5. seen.at = "write" /\ seen.read = model[r.model]
      BY <3>1, <3>4
    <3>6. seen.op = r.op /\ seen.model = r.model /\ seen.own = r.own
          /\ seen.stated = r.stated /\ seen.limits = r.limits /\ seen.began = r.began
      BY <3>3, <3>4 DEF RegisterFields
    <3>7. DOMAIN r \cup DOMAIN more = RegisterFields \cup {"read"}
      BY <3>1, <3>2 DEF RegisterFields
    <3> QED BY <3>4, <3>5, <3>6, <3>7
  <2> HIDE DEF seen
  <2>3. RegisterSound(seen, model, version)
    BY <1>1, <1>2, <2>2 DEF RegisterSound
  <2>4. RequestSound(seen, model, snapshot, version)
    BY <1>1, <2>2, <2>3 DEF RequestSound
  <2> QED BY <1>3, <2>1, <2>4, RegistryQuiet
<1>5. CASE Reread(c)
  <2>1. CASE ~ModelExists(r.model)
    BY <1>3, <1>5, <2>1, WaitingSound, RegistryQuiet DEF Reread, Respond
  <2>2. CASE ModelExists(r.model)
    <3>1. PICK place \in {"list", "patch"} : Following(c, [r EXCEPT !.at = place, !.read = model[r.model]])
      BY <1>5, <2>2 DEF Reread
    <3> DEFINE seen == [r EXCEPT !.at = place, !.read = model[r.model]]
    <3>2. r.at = "reread"
      BY <1>5 DEF Reread, Routing
    <3>3. /\ DOMAIN seen = RegisterFields \cup {"read"}
          /\ seen.op = r.op /\ seen.at = place /\ seen.model = r.model /\ seen.own = r.own
          /\ seen.stated = r.stated /\ seen.limits = r.limits /\ seen.began = r.began
          /\ seen.read = model[r.model]
      BY <1>1, <3>2 DEF RegisterSound, RegisterFields
    <3>4. Following(c, seen)
      BY <3>1
    <3> HIDE DEF seen
    <3>5. RegisterSound(seen, model, version)
      BY <1>1, <1>2, <2>2, <3>3 DEF RegisterSound, ModelExists
    <3>6. RequestSound(seen, model, snapshot, version)
      BY <1>1, <3>3, <3>5 DEF RequestSound
    <3> QED BY <1>3, <3>4, <3>6, RegistryQuiet
  <2> QED BY <2>1, <2>2
<1>6. CASE ListPipelines(c)
  <2>1. CASE r.op = "sync"
    BY <1>3, <1>6, <2>1, WaitingSound, RegistryQuiet DEF ListPipelines, Respond
  <2>2. CASE r.op # "sync"
    <3> DEFINE todo == {p \in Pipelines : PipelineExists(p) /\ ModelOf[p] = r.model}
               seen == Refresh("refresh", r.model, r.own, 0, todo)
    <3>1. Following(c, seen)
      BY <1>6, <2>2 DEF ListPipelines
    <3>2. todo \subseteq {p \in Pipelines : ModelOf[p] = r.model}
      OBVIOUS
    <3>3. RevisionSound(r.own, r.model, model, version)
      BY <1>1 DEF RegisterSound
    <3> HIDE DEF todo
    <3>4. RefreshSound(seen, model, snapshot, version)
      BY <1>2, <3>2, <3>3 DEF RefreshSound, Refresh, BaseFields
    <3>5. RequestSound(seen, model, snapshot, version)
      BY <3>4 DEF RequestSound, Refresh
    <3> HIDE DEF seen
    <3> QED BY <1>3, <3>1, <3>5, RegistryQuiet
  <2> QED BY <2>1, <2>2
<1> QED BY <1>4, <1>5, <1>6

\* What the API sends to DocGrok repeats limits that are the model's, or old ones.
LEMMA PayloadSound ==
  ASSUME RegistryIInv, NEW n \in Models, NEW op \in {"create", "update", "sync"}, NEW key, NEW limits, NEW read,
         ReadSound(read, n, model, version), read = model[n] \/ ~ModelExists(n)
  PROVE  RequestSound(Payload(op, n, key, limits, read), model, snapshot, version)
<1> DEFINE seen == Payload(op, n, key, limits, read)
<1>1. /\ DOMAIN seen = RegisterFields /\ seen.op = op /\ seen.at = "lookup" /\ seen.model = n /\ seen.own = 0
      /\ seen.limits = LimitsOf(limits, read) /\ seen.stated = (limits # NoLimits)
      /\ seen.began = IF read = Absent THEN 0 ELSE read.rev
  BY DEF Payload, RegisterFields
<1> HIDE DEF seen
<1>2. version \in Nat \ {0} /\ (model[n] # Absent => DocSound(model[n], version))
  BY DEF RegistryIInv, ModelsSound
<1>3. RepeatSound(seen.stated, seen.limits, seen.began, n, model, version)
  <2>1. seen.began \in 0 .. version
    BY <1>1, <1>2 DEF ReadSound, DocSound
  <2>2. ASSUME ~seen.stated, model[n] # Absent PROVE seen.began < model[n].rev \/ model[n].limits = seen.limits
    <3>1. read = model[n] /\ limits = NoLimits
      BY <1>1, <2>2 DEF ModelExists
    <3> QED BY <1>1, <2>2, <3>1 DEF LimitsOf
  <2> QED BY <2>1, <2>2 DEF RepeatSound
<1>4. RevisionSound(0, n, model, version)
  BY ReadNow
<1>5. RegisterSound(seen, model, version)
  BY <1>1, <1>3, <1>4 DEF RegisterSound
<1> QED BY <1>1, <1>5 DEF RequestSound, seen

\* Requests that are accepted, answered or fail, and those of the controller.
LEMMA OtherReads ==
  ASSUME RegistryIInv, NEW c \in Callers,
         \/ \E m \in Models :
                \/ DeleteModel(c, m)
                \/ \E key \in Keys \cup {NoKey}, limits \in Limits \cup {NoLimits} :
                       WriteChatModel(c, m, key, limits) \/ CreateModel(c, m, key, limits) \/ UpdateModel(c, m, key, limits)
         \/ \E p \in Pipelines : ReadPipeline(c, p)
         \/ SyncModels(c) \/ SyncRegistry(c) \/ LimitsEqual(c) \/ RefreshEnds(c) \/ RequestFails(c) \/ SecretDeleted(c)
  PROVE  RegistryIInv'
<1>1. UNCHANGED <<model, snapshot, version>>
  BY DEF CreateModel, UpdateModel, WriteChatModel, DeleteModel, SyncModels, SyncRegistry, ReadPipeline,
     LimitsEqual, RefreshEnds, RequestFails, SecretDeleted
<1>2. ASSUME NEW n \in Models, NEW op \in {"create", "update", "sync"}, NEW key, NEW limits, NEW read,
             ReadSound(read, n, model, version), read = model[n] \/ ~ModelExists(n),
             Following(c, Payload(op, n, key, limits, read))
      PROVE  RegistryIInv'
  BY <1>1, <1>2, PayloadSound, RegistryQuiet
<1>3. \A at : \A n \in Models : RequestSound([op |-> "delete", at |-> at, model |-> n], model, snapshot, version)
  BY DEF RequestSound
<1>4. ASSUME NEW m \in Models, NEW key, NEW limits, CreateModel(c, m, key, limits) \/ UpdateModel(c, m, key, limits)
      PROVE  RegistryIInv'
  <2>1. ReadSound(model[m], m, model, version)
    BY ReadNow
  <2>2. PICK op \in {"create", "update"} : Following(c, Payload(op, m, key, limits, model[m]))
    BY <1>4 DEF CreateModel, UpdateModel
  <2> QED BY <1>2, <2>1, <2>2
<1>5. ASSUME NEW m \in Models, NEW key, NEW limits, WriteChatModel(c, m, key, limits) PROVE RegistryIInv'
  <2>1. PICK at : at = IF key # NoKey THEN "secret" ELSE "write"
    OBVIOUS
  <2>2. PICK doc : doc = IF ModelExists(m) THEN model[m].key ELSE NoKey
    OBVIOUS
  <2> DEFINE seen == [op |-> "chat", at |-> at, model |-> m, key |-> key, doc |-> doc, read |-> model[m],
                      limits |-> LimitsOf(limits, model[m]), stated |-> limits # NoLimits]
  <2>3. Following(c, seen)
    BY <1>5, <2>1, <2>2 DEF WriteChatModel
  <2>4. /\ DOMAIN seen = ChatFields /\ seen.op = "chat" /\ seen.at = at /\ seen.model = m /\ seen.key = key /\ seen.doc = doc
        /\ seen.read = model[m] /\ seen.limits = LimitsOf(limits, model[m]) /\ seen.stated = (limits # NoLimits)
    BY DEF ChatFields
  <2> HIDE DEF seen
  <2>5. ReadSound(seen.read, m, model, version)
    BY <2>4, ReadNow
  <2>6. ChatSound(seen, model, version)
    BY <2>1, <2>2, <2>4, <2>5 DEF ChatSound, LimitsOf, ModelExists
  <2>7. RequestSound(seen, model, snapshot, version)
    BY <2>4, <2>6 DEF RequestSound
  <2> QED BY <1>1, <2>3, <2>7, RegistryQuiet
<1>6. ASSUME NEW m \in Models, DeleteModel(c, m) PROVE RegistryIInv'
  BY <1>1, <1>3, <1>6, RegistryQuiet DEF DeleteModel
<1>7. CASE SyncModels(c)
  <2>1. RequestSound([op |-> "startup", at |-> "registry", stored |-> model], model, snapshot, version)
    BY ReadNow DEF RequestSound
  <2> QED BY <1>1, <1>7, <2>1, RegistryQuiet DEF SyncModels
<1>8. CASE SyncRegistry(c)
  <2>1. /\ request[c].op = "startup"
        /\ \/ \E n \in Models : Following(c, [op |-> "delete", at |-> "once", model |-> n])
           \/ \E n \in Models : /\ ~ModelExists(n)
                                /\ Following(c, Payload("sync", n, request[c].stored[n].key, NoLimits, request[c].stored[n]))
           \/ Respond(c)
    BY <1>8 DEF SyncRegistry
  <2>2. ASSUME NEW n \in Models, Following(c, [op |-> "delete", at |-> "once", model |-> n]) PROVE RegistryIInv'
    BY <1>1, <1>3, <2>2, RegistryQuiet
  <2>3. ASSUME NEW n \in Models, ~ModelExists(n),
               Following(c, Payload("sync", n, request[c].stored[n].key, NoLimits, request[c].stored[n]))
        PROVE  RegistryIInv'
    <3>1. ReadSound(request[c].stored[n], n, model, version)
      BY <2>1 DEF RegistryIInv, RequestSound, Waiting
    <3> QED BY <1>2, <2>3, <3>1
  <2>4. CASE Respond(c)
    BY <1>1, <2>4, WaitingSound, RegistryQuiet DEF Respond
  <2> QED BY <2>1, <2>2, <2>3, <2>4
<1>9. ASSUME NEW p \in Pipelines, ReadPipeline(c, p) PROVE RegistryIInv'
  <2> DEFINE seen == Refresh("read", ModelOf[p], 0, 1, {p})
  <2>1. ModelOf[p] \in Models
    BY RegistryAssumption
  <2>2. RefreshSound(seen, model, snapshot, version)
    BY <2>1, ReadNow DEF RefreshSound, Refresh, BaseFields
  <2>3. RequestSound(seen, model, snapshot, version)
    BY <2>2 DEF RequestSound, Refresh
  <2>4. Following(c, seen)
    BY <1>9 DEF ReadPipeline
  <2> HIDE DEF seen
  <2> QED BY <1>1, <2>3, <2>4, RegistryQuiet
<1>10. CASE LimitsEqual(c) \/ RefreshEnds(c) \/ RequestFails(c) \/ SecretDeleted(c)
  BY <1>1, <1>10, WaitingSound, RegistryQuiet DEF LimitsEqual, RefreshEnds, RequestFails, SecretDeleted, Respond
<1> QED BY <1>4, <1>5, <1>6, <1>7, <1>8, <1>9, <1>10

\* A chat model's key is stored before its document is written.
LEMMA SecretStored ==
  ASSUME RegistryIInv, NEW c \in Callers, SetSecret(c)
  PROVE  RegistryIInv'
<1> DEFINE r == request[c]
<1>1. r.op = "chat" /\ r.at = "secret" /\ ChatSound(r, model, version)
  BY DEF SetSecret, RegistryIInv, RequestSound, Waiting
<1>2. r.key # NoKey
  BY <1>1 DEF ChatSound
<1>3. UNCHANGED <<model, snapshot, version>>
  BY DEF SetSecret
<1>4. PICK doc \in {r.key, NoKey} : Following(c, [r EXCEPT !.at = "write", !.doc = doc])
  BY DEF SetSecret
<1> DEFINE seen == [r EXCEPT !.at = "write", !.doc = doc]
<1>5. DOMAIN r = ChatFields
  BY <1>1 DEF ChatSound
<1>6. /\ DOMAIN seen = ChatFields /\ seen.op = "chat" /\ seen.at = "write" /\ seen.model = r.model
      /\ seen.key = r.key /\ seen.doc = doc
      /\ seen.read = r.read /\ seen.limits = r.limits /\ seen.stated = r.stated
  BY <1>1, <1>5 DEF ChatFields
<1>7. Following(c, seen)
  BY <1>4
<1> HIDE DEF seen
<1>8. ChatSound(seen, model, version)
  BY <1>1, <1>2, <1>4, <1>6 DEF ChatSound
<1>9. RequestSound(seen, model, snapshot, version)
  BY <1>6, <1>8 DEF RequestSound
<1> QED BY <1>3, <1>7, <1>9, RegistryQuiet

\* A request that refreshes, and the snapshot it has read.
LEMMA Refreshes ==
  ASSUME RegistryIInv, NEW c \in Callers, request[c].op \in {"refresh", "read"}
  PROVE  /\ RefreshSound(request[c], model, snapshot, version)
         /\ request[c].at \in {"pipeline", "model", "write"}
  BY DEF RegistryIInv, RequestSound, Waiting

LEMMA StoredSnapshot ==
  ASSUME RegistryIInv, NEW p \in Pipelines, snapshot[p].rev > 0
  PROVE  /\ DOMAIN snapshot[p] = {"rev", "of"}
         /\ snapshot[p].rev \in Nat \ {0}
         /\ RevisionSound(snapshot[p].of, ModelOf[p], model, version)
         /\ PipelineRead(p, snapshot[p].rev, snapshot)
<1>1. SnapshotSound(snapshot[p], ModelOf[p], model, version)
  BY DEF RegistryIInv, SnapshotsSound
<1>2. snapshot[p] # NoPipelineDoc /\ snapshot[p] # DeletedPipeline
  BY DEF NoPipelineDoc, DeletedPipeline
<1> QED BY <1>1, <1>2 DEF SnapshotSound, PipelineRead

\* The reads of a refresh: the pipeline, then its model.
LEMMA RefreshReads ==
  ASSUME RegistryIInv, NEW c \in Callers, RefreshRead(c)
  PROVE  RegistryIInv'
<1> DEFINE r == request[c]
<1>1. RefreshSound(r, model, snapshot, version) /\ r.op \in {"refresh", "read"} /\ r.at \in {"pipeline", "model"}
  BY Refreshes DEF RefreshRead, Refreshing
<1>2. UNCHANGED <<model, snapshot, version>>
  BY DEF RefreshRead
<1>3. /\ r.model \in Models /\ RevisionSound(r.own, r.model, model, version)
      /\ r.todo \subseteq {p \in Pipelines : ModelOf[p] = r.model}
  BY <1>1 DEF RefreshSound
<1>4. ASSUME NEW p \in r.todo, r.at = "pipeline", PipelineExists(p),
             Following(c, With(r, [at |-> "model", pipeline |-> p, rev |-> snapshot[p].rev]))
      PROVE  RegistryIInv'
  <2> DEFINE more == [at |-> "model", pipeline |-> p, rev |-> snapshot[p].rev]
             seen == With(r, more)
  <2>1. /\ DOMAIN more = {"at", "pipeline", "rev"}
        /\ more.at = "model" /\ more.pipeline = p /\ more.rev = snapshot[p].rev
    OBVIOUS
  <2>2. Following(c, seen)
    BY <1>4
  <2>3. DOMAIN r = BaseFields
    BY <1>1, <1>4 DEF RefreshSound
  <2> HIDE DEF more, r
  <2>4. DOMAIN r \ DOMAIN more = {"op", "model", "own", "tries", "todo"} /\ DOMAIN r \cup DOMAIN more = BaseFields \cup {"pipeline", "rev"}
    BY <2>1, <2>3 DEF BaseFields
  <2>5. /\ DOMAIN seen = DOMAIN r \cup DOMAIN more
        /\ \A x \in DOMAIN more : seen[x] = more[x]
        /\ \A x \in DOMAIN r \ DOMAIN more : seen[x] = r[x]
    BY WithFields
  <2> HIDE DEF seen
  <2>6. seen.at = "model" /\ seen.pipeline = p /\ seen.rev = snapshot[p].rev
    BY <2>1, <2>5
  <2>7. seen.op = r.op /\ seen.model = r.model /\ seen.own = r.own /\ seen.todo = r.todo
    BY <2>4, <2>5
  <2>8. PipelineRead(p, snapshot[p].rev, snapshot)
    BY <1>3, <1>4, StoredSnapshot DEF PipelineExists
  <2>9. RefreshSound(seen, model, snapshot, version)
    BY <1>3, <1>4, <2>4, <2>5, <2>6, <2>7, <2>8 DEF RefreshSound
  <2>10. RequestSound(seen, model, snapshot, version)
    BY <1>1, <2>6, <2>7, <2>9 DEF RequestSound
  <2> QED BY <1>2, <2>2, <2>10, RegistryQuiet
<1>5. ASSUME NEW p \in r.todo, r.at = "pipeline", Following(c, [r EXCEPT !.todo = @ \ {p}])
      PROVE  RegistryIInv'
  <2> DEFINE seen == [r EXCEPT !.todo = @ \ {p}]
  <2>1. DOMAIN r = BaseFields
    BY <1>1, <1>5 DEF RefreshSound
  <2>2. /\ DOMAIN seen = BaseFields /\ seen.todo = r.todo \ {p}
        /\ seen.op = r.op /\ seen.at = r.at /\ seen.model = r.model /\ seen.own = r.own
    BY <2>1 DEF BaseFields
  <2>3. Following(c, seen)
    BY <1>5
  <2> HIDE DEF seen
  <2>4. RefreshSound(seen, model, snapshot, version)
    BY <1>3, <1>5, <2>2 DEF RefreshSound
  <2>5. RequestSound(seen, model, snapshot, version)
    BY <1>1, <1>5, <2>2, <2>4 DEF RequestSound
  <2> QED BY <1>2, <2>3, <2>5, RegistryQuiet
<1>6. ASSUME NEW n, NEW g, r.at = "model", RevisionSound(n, r.model, model, version),
             ~g => ModelExists(r.model) /\ n = model[r.model].rev,
             Following(c, With(r, [at |-> "write", of |-> n, gone |-> g]))
      PROVE  RegistryIInv'
  <2> DEFINE more == [at |-> "write", of |-> n, gone |-> g]
             seen == With(r, more)
  <2>1. DOMAIN more = {"at", "of", "gone"} /\ more.at = "write" /\ more.of = n /\ more.gone = g
    OBVIOUS
  <2>2. Following(c, seen)
    BY <1>6
  <2>3. DOMAIN r = BaseFields \cup {"pipeline", "rev"}
    BY <1>1, <1>6 DEF RefreshSound
  <2> HIDE DEF more, r
  <2>4. /\ DOMAIN r \ DOMAIN more = {"op", "model", "own", "tries", "todo", "pipeline", "rev"}
        /\ DOMAIN r \cup DOMAIN more = BaseFields \cup {"pipeline", "rev", "of", "gone"}
    BY <2>1, <2>3 DEF BaseFields
  <2>5. /\ DOMAIN seen = DOMAIN r \cup DOMAIN more
        /\ \A x \in DOMAIN more : seen[x] = more[x]
        /\ \A x \in DOMAIN r \ DOMAIN more : seen[x] = r[x]
    BY WithFields
  <2> HIDE DEF seen
  <2>6. seen.at = "write" /\ seen.of = n /\ seen.gone = g
    BY <2>1, <2>5
  <2>7. /\ seen.op = r.op /\ seen.model = r.model /\ seen.own = r.own /\ seen.todo = r.todo
        /\ seen.pipeline = r.pipeline /\ seen.rev = r.rev
    BY <2>4, <2>5
  <2>8. r.pipeline \in r.todo /\ PipelineRead(r.pipeline, r.rev, snapshot)
    BY <1>1, <1>6 DEF RefreshSound
  <2>9. ~g /\ snapshot[r.pipeline].rev = r.rev => snapshot[r.pipeline].of <= n
    <3>1. r.pipeline \in Pipelines /\ ModelOf[r.pipeline] = r.model /\ r.rev \in Nat \ {0}
      BY <1>3, <2>8 DEF PipelineRead
    <3>2. snapshot[r.pipeline].rev = r.rev => RevisionSound(snapshot[r.pipeline].of, r.model, model, version)
      BY <3>1, StoredSnapshot
    <3> QED BY <1>6, <3>2 DEF RevisionSound, ModelExists
  <2>10. RefreshSound(seen, model, snapshot, version)
    BY <1>3, <1>6, <2>4, <2>5, <2>6, <2>7, <2>8, <2>9 DEF RefreshSound
  <2>11. RequestSound(seen, model, snapshot, version)
    BY <1>1, <2>6, <2>7, <2>10 DEF RequestSound
  <2> QED BY <1>2, <2>2, <2>11, RegistryQuiet
<1>7. CASE Refreshing(c, "pipeline")
  <2>1. PICK p \in r.todo :
          IF PipelineExists(p)
          THEN Following(c, With(r, [at |-> "model", pipeline |-> p, rev |-> snapshot[p].rev]))
          ELSE Following(c, [r EXCEPT !.todo = @ \ {p}])
    BY <1>7 DEF RefreshRead, Refreshing
  <2> QED BY <1>4, <1>5, <1>7, <2>1 DEF Refreshing
<1>8. CASE Refreshing(c, "model")
  <2>1. r.at = "model"
    BY <1>8 DEF Refreshing
  <2>2. CASE ModelExists(r.model) /\ Following(c, With(r, [at |-> "write", of |-> model[r.model].rev, gone |-> FALSE]))
    <3>1. RevisionSound(model[r.model].rev, r.model, model, version)
      BY <1>3, <2>2, ReadNow
    <3> QED BY <1>6, <2>1, <2>2, <3>1
  <2>3. CASE Following(c, With(r, [at |-> "write", of |-> r.own, gone |-> TRUE]))
    BY <1>3, <1>6, <2>1, <2>3
  <2>4. CASE Respond(c)
    BY <1>2, <2>4, WaitingSound, RegistryQuiet DEF Respond
  <2> QED BY <1>8, <2>1, <2>2, <2>3, <2>4 DEF RefreshRead, Refreshing
<1> QED BY <1>7, <1>8 DEF RefreshRead

\* A write gives the model a revision nobody has seen.
LEMMA WriteMoves ==
  ASSUME RegistryIInv, NEW m \in Models, NEW category, NEW key, NEW limits,
         WriteModel(m, ModelDoc(category, key, limits)), UNCHANGED snapshot
  PROVE  /\ version' = version + 1 /\ model'[m].rev = version + 1
         /\ ModelsMove(model, version, model', version') /\ ModelsSound(model', version')
         /\ SnapshotsMove(snapshot, snapshot') /\ SnapshotsSound(snapshot', model', version')
<1> DEFINE doc == ModelDoc(category, key, limits)
<1>1. DocSound(doc, version + 1) /\ doc.rev = version + 1
  BY DEF RegistryIInv, ModelsSound, DocSound, ModelDoc, ModelFields
<1> HIDE DEF doc
<1>2. /\ version \in Nat \ {0} /\ version' = version + 1
      /\ model' = [model EXCEPT ![m] = doc] /\ DOMAIN model = Models
  BY DEF WriteModel, RegistryIInv, ModelsSound, doc
<1>3. model'[m].rev = version + 1 /\ ModelsMove(model, version, model', version')
  BY <1>1, <1>2 DEF ModelsMove
<1>4. ModelsSound(model', version')
  BY <1>1, <1>2 DEF RegistryIInv, ModelsSound, DocSound
<1>5. SnapshotsMove(snapshot, snapshot')
  BY DEF SnapshotsMove
<1> QED BY <1>2, <1>3, <1>4, <1>5, SnapshotsKept

\* The writes of requests to models.
LEMMA ModelWrites ==
  ASSUME RegistryIInv, NEW c \in Callers, ChatWritten(c) \/ Register(c) \/ PatchCategory(c)
  PROVE  RegistryIInv'
<1> DEFINE r == request[c]
<1>1. UNCHANGED snapshot
  BY DEF ChatWritten, Register, PatchCategory
<1>2. CASE Respond(c) /\ UNCHANGED <<model, version>>
  BY <1>1, <1>2, WaitingSound, RegistryQuiet DEF Respond
<1>3. CASE ChatWritten(c)
  <2>1. r.model \in Models
    BY <1>3 DEF ChatWritten, RegistryIInv, RequestSound, ChatSound, Waiting
  <2>2. CASE WriteModel(r.model, ModelDoc("chat", r.doc, r.limits))
    BY <1>1, <1>3, <2>1, <2>2, WriteMoves, WaitingSound, RegistryMoves DEF ChatWritten, Respond
  <2> QED BY <1>2, <1>3, <2>2 DEF ChatWritten
<1>4. ASSUME NEW seen, NEW category, NEW key, NEW limits, Following(c, seen),
             r.op \in {"create", "update", "sync"}, r.at \in {"write", "patch"},
             WriteModel(r.model, ModelDoc(category, key, limits)), seen.stated = r.stated,
             seen.limits = r.limits, seen.began = r.began, DOMAIN seen = DOMAIN r, seen.op = r.op, seen.at \in {"reread", "list"}, seen.model = r.model,
             seen.read = r.read, seen.own = r.own \/ seen.own = version + 1
      PROVE  RegistryIInv'
  <2>1. RegisterSound(r, model, version)
    BY <1>4 DEF RegistryIInv, RequestSound, Waiting
  <2>2. r.model \in Models /\ DOMAIN r = RegisterFields \cup {"read"}
        /\ RevisionSound(r.own, r.model, model, version) /\ ReadSound(r.read, r.model, model, version)
        /\ RepeatSound(r.stated, r.limits, r.began, r.model, model, version)
    BY <1>4, <2>1 DEF RegisterSound
  <2>3. version \in Nat
    BY DEF RegistryIInv, ModelsSound
  <2>4. /\ version' = version + 1 /\ model'[r.model].rev = version + 1
        /\ ModelsMove(model, version, model', version') /\ ModelsSound(model', version')
        /\ SnapshotsMove(snapshot, snapshot') /\ SnapshotsSound(snapshot', model', version')
    BY <1>1, <1>4, <2>2, WriteMoves
  <2>5. ReadSound(r.read, r.model, model', version')
    BY <2>2, <2>3, <2>4, ReadKept
  <2>6. RevisionSound(seen.own, r.model, model', version')
    <3>1. RevisionSound(r.own, r.model, model', version')
      BY <2>2, <2>3, <2>4, RevisionKept
    <3>2. RevisionSound(version + 1, r.model, model', version')
      BY <2>3, <2>4 DEF RevisionSound
    <3> QED BY <1>4, <3>1, <3>2
  <2>7. RepeatSound(r.stated, r.limits, r.began, r.model, model', version')
    BY <2>2, <2>3, <2>4, RepeatKept
  <2> HIDE DEF r
  <2>8. RegisterSound(seen, model', version')
    BY <1>4, <2>2, <2>5, <2>6, <2>7 DEF RegisterSound
  <2>9. RequestSound(seen, model', snapshot', version')
    BY <1>4, <2>8 DEF RequestSound
  <2> QED BY <1>4, <2>4, <2>9, RegistryMoves
<1>5. CASE Register(c)
  <2>1. CASE Current(r)
    <3>1. PICK place \in {"reread", "list"} : Following(c, [r EXCEPT !.at = place, !.own = version + 1])
      BY <1>5, <2>1 DEF Register
    <3>2. PICK category : WriteModel(r.model, ModelDoc(category, KeyOf(r), r.limits))
      BY <1>5, <2>1 DEF Register
    <3>3. r.op \in {"create", "update", "sync"} /\ r.at = "write"
      BY <1>5 DEF Register, Routing
    <3>4. DOMAIN r = RegisterFields \cup {"read"}
      BY <3>3 DEF RegistryIInv, RequestSound, RegisterSound, Waiting
    <3> DEFINE seen == [r EXCEPT !.at = place, !.own = version + 1]
    <3>5. /\ DOMAIN seen = DOMAIN r /\ seen.op = r.op /\ seen.at = place /\ seen.model = r.model
          /\ seen.read = r.read /\ seen.own = version + 1
          /\ seen.stated = r.stated /\ seen.limits = r.limits /\ seen.began = r.began
      BY <3>4 DEF RegisterFields
    <3>6. Following(c, seen)
      BY <3>1
    <3> HIDE DEF r, seen
    <3> QED BY <1>4, <3>2, <3>3, <3>5, <3>6
  <2> QED BY <1>2, <1>5, <2>1 DEF Register
<1>6. CASE PatchCategory(c)
  <2>1. CASE Replaceable(r.model, r.read)
    <3> DEFINE seen == [r EXCEPT !.at = "list"]
    <3>1. WriteModel(r.model, ModelDoc("embedding", r.read.key, r.read.limits)) /\ Following(c, seen)
      BY <1>6, <2>1 DEF PatchCategory
    <3>2. r.op \in {"create", "update", "sync"} /\ r.at = "patch"
      BY <1>6 DEF PatchCategory, Routing
    <3>3. DOMAIN r = RegisterFields \cup {"read"}
      BY <3>2 DEF RegistryIInv, RequestSound, RegisterSound, Waiting
    <3>4. /\ DOMAIN seen = DOMAIN r /\ seen.op = r.op /\ seen.at = "list" /\ seen.model = r.model
          /\ seen.read = r.read /\ seen.own = r.own
          /\ seen.stated = r.stated /\ seen.limits = r.limits /\ seen.began = r.began
      BY <3>3 DEF RegisterFields
    <3> HIDE DEF r, seen
    <3> QED BY <1>4, <3>1, <3>2, <3>4
  <2> QED BY <1>2, <1>6, <2>1 DEF PatchCategory
<1> QED BY <1>3, <1>5, <1>6

\* A deletion of a model.
LEMMA ModelDeleted ==
  ASSUME RegistryIInv, NEW c \in Callers, Deleted(c)
  PROVE  RegistryIInv'
<1> DEFINE r == request[c]
<1>1. r.model \in Models /\ r.op = "delete" /\ DOMAIN r = {"op", "at", "model"}
  BY DEF Deleted, RegistryIInv, RequestSound, Waiting
<1>2. model' = [model EXCEPT ![r.model] = Absent] /\ UNCHANGED <<snapshot, version>>
  BY DEF Deleted
<1>3. ModelsMove(model, version, model', version') /\ ModelsSound(model', version')
  BY <1>1, <1>2 DEF RegistryIInv, ModelsSound, ModelsMove
<1>4. SnapshotsMove(snapshot, snapshot') /\ SnapshotsSound(snapshot', model', version')
  BY <1>2, <1>3, SnapshotsKept DEF SnapshotsMove
<1>5. \A at : RequestSound([r EXCEPT !.at = at], model', snapshot', version')
  <2> TAKE at
  <2> DEFINE seen == [r EXCEPT !.at = at]
  <2>1. DOMAIN seen = {"op", "at", "model"} /\ seen.op = "delete" /\ seen.model = r.model
    BY <1>1
  <2> HIDE DEF seen
  <2> QED BY <1>1, <2>1 DEF RequestSound, seen
<1>6. (\E at \in {"again", "secret"} : Following(c, [r EXCEPT !.at = at])) \/ Respond(c)
  BY DEF Deleted
<1> QED BY <1>3, <1>4, <1>5, <1>6, WaitingSound, RegistryMoves DEF Respond

\* Writes of pipelines: the snapshot of a refresh, lifecycle actions.
LEMMA SnapshotWrites ==
  ASSUME RegistryIInv, UNCHANGED <<model, version>>, NEW p \in Pipelines, NEW s,
         snapshot' = [snapshot EXCEPT ![p] = s], SnapshotSound(s, ModelOf[p], model, version),
         \/ snapshot[p] = NoPipelineDoc
         \/ s = DeletedPipeline
         \/ 0 < snapshot[p].rev /\ snapshot[p].rev < s.rev /\ s.rev \in Nat
  PROVE  /\ ModelsMove(model, version, model', version') /\ ModelsSound(model', version')
         /\ SnapshotsMove(snapshot, snapshot') /\ SnapshotsSound(snapshot', model', version')
  BY DEF RegistryIInv, ModelsSound, ModelsMove, SnapshotsSound, SnapshotsMove

LEMMA RefreshWrites ==
  ASSUME RegistryIInv, NEW c \in Callers, RefreshWrite(c)
  PROVE  RegistryIInv'
<1> DEFINE r == request[c]
           p == r.pipeline
<1>1. RefreshSound(r, model, snapshot, version) /\ r.op \in {"refresh", "read"} /\ r.at = "write"
  BY Refreshes DEF RefreshWrite, Refreshing
<1>2. /\ r.model \in Models /\ RevisionSound(r.own, r.model, model, version)
      /\ r.todo \subseteq {q \in Pipelines : ModelOf[q] = r.model}
      /\ p \in r.todo /\ RevisionSound(r.of, r.model, model, version)
  BY <1>1 DEF RefreshSound
<1>3. UNCHANGED <<model, version>>
  BY DEF RefreshWrite
<1>4. \A tries, todo : todo \subseteq r.todo => RequestSound(Refresh(r.op, r.model, r.own, tries, todo), model, snapshot', version)
  <2> TAKE tries, todo
  <2> HAVE todo \subseteq r.todo
  <2> DEFINE seen == Refresh(r.op, r.model, r.own, tries, todo)
  <2>1. /\ DOMAIN seen = BaseFields /\ seen.op = r.op /\ seen.at = "pipeline" /\ seen.model = r.model
        /\ seen.own = r.own /\ seen.todo = todo
    BY DEF Refresh, BaseFields
  <2> HIDE DEF seen
  <2>2. RefreshSound(seen, model, snapshot', version)
    BY <1>2, <2>1 DEF RefreshSound
  <2>3. RequestSound(seen, model, snapshot', version)
    BY <1>1, <2>1, <2>2 DEF RequestSound
  <2> QED BY <2>3 DEF seen
<1>5. CASE SamePipeline(p, r.rev)
  <2>1. /\ snapshot' = [snapshot EXCEPT ![p] = [rev |-> snapshot[p].rev + 1, of |-> r.of]]
        /\ Following(c, Refresh(r.op, r.model, r.own, 0, r.todo \ {p}))
    BY <1>5 DEF RefreshWrite
  <2>2. p \in Pipelines /\ ModelOf[p] = r.model /\ snapshot[p].rev \in Nat \ {0}
    BY <1>2, <1>5, StoredSnapshot DEF SamePipeline, PipelineExists
  <2> DEFINE s == [rev |-> snapshot[p].rev + 1, of |-> r.of]
  <2>3. SnapshotSound(s, ModelOf[p], model, version) /\ s.rev = snapshot[p].rev + 1
    BY <1>2, <2>2 DEF SnapshotSound
  <2>4. snapshot' = [snapshot EXCEPT ![p] = s]
    BY <2>1
  <2>5. 0 < snapshot[p].rev /\ snapshot[p].rev < s.rev /\ s.rev \in Nat
    BY <2>2, <2>3
  <2> HIDE DEF s
  <2>6. /\ ModelsMove(model, version, model', version') /\ ModelsSound(model', version')
        /\ SnapshotsMove(snapshot, snapshot') /\ SnapshotsSound(snapshot', model', version')
    BY <1>3, <2>2, <2>3, <2>4, <2>5, SnapshotWrites
  <2>7. RequestSound(Refresh(r.op, r.model, r.own, 0, r.todo \ {p}), model', snapshot', version')
    BY <1>3, <1>4
  <2> QED BY <2>1, <2>6, <2>7, RegistryMoves
<1>6. CASE ~SamePipeline(p, r.rev)
  <2>1. UNCHANGED <<model, snapshot, version>>
    BY <1>3, <1>6 DEF RefreshWrite
  <2>2. \/ Following(c, Refresh(r.op, r.model, r.own, 1, r.todo))
        \/ Following(c, Refresh(r.op, r.model, r.own, 0, r.todo \ {p}))
    BY <1>6 DEF RefreshWrite
  <2>3. /\ RequestSound(Refresh(r.op, r.model, r.own, 1, r.todo), model, snapshot, version)
        /\ RequestSound(Refresh(r.op, r.model, r.own, 0, r.todo \ {p}), model, snapshot, version)
    BY <1>4, <2>1
  <2> QED BY <2>1, <2>2, <2>3, RegistryQuiet
<1> QED BY <1>5, <1>6

LEMMA PipelineWrites ==
  ASSUME RegistryIInv, NEW p \in Pipelines,
         PipelineEdited(p) \/ PipelineDeleted(p) \/ \E rev \in 1 .. version : PipelineCreated(p, rev)
  PROVE  RegistryIInv'
<1>1. UNCHANGED <<model, version, request>>
  BY DEF PipelineEdited, PipelineDeleted, PipelineCreated
<1>2. ASSUME NEW s, snapshot' = [snapshot EXCEPT ![p] = s], SnapshotSound(s, ModelOf[p], model, version),
             \/ snapshot[p] = NoPipelineDoc
             \/ s = DeletedPipeline
             \/ 0 < snapshot[p].rev /\ snapshot[p].rev < s.rev /\ s.rev \in Nat
      PROVE  RegistryIInv'
  BY <1>1, <1>2, SnapshotWrites, WaitingSound, RegistryMoves
<1>3. CASE PipelineEdited(p)
  <2>1. /\ DOMAIN snapshot[p] = {"rev", "of"} /\ snapshot[p].rev \in Nat \ {0}
        /\ RevisionSound(snapshot[p].of, ModelOf[p], model, version)
    BY <1>3, StoredSnapshot DEF PipelineEdited, PipelineExists
  <2>2. PICK n \in Nat : n = snapshot[p].rev + 1
    BY <2>1
  <2> DEFINE s == [snapshot[p] EXCEPT !.rev = n]
  <2>3. DOMAIN s = {"rev", "of"} /\ s.rev = n /\ s.of = snapshot[p].of
    BY <2>1
  <2>4. snapshot' = [snapshot EXCEPT ![p] = s]
    BY <1>3, <2>2 DEF PipelineEdited
  <2> HIDE DEF s
  <2>5. SnapshotSound(s, ModelOf[p], model, version)
    BY <2>1, <2>2, <2>3 DEF SnapshotSound
  <2>6. 0 < snapshot[p].rev /\ snapshot[p].rev < s.rev /\ s.rev \in Nat
    BY <2>1, <2>2, <2>3
  <2> QED BY <1>2, <2>4, <2>5, <2>6
<1>4. CASE PipelineDeleted(p)
  BY <1>2, <1>4 DEF PipelineDeleted, SnapshotSound
<1>5. ASSUME NEW rev \in 1 .. version, PipelineCreated(p, rev) PROVE RegistryIInv'
  <2> DEFINE s == [rev |-> 1, of |-> rev]
  <2>1. RevisionSound(rev, ModelOf[p], model, version) /\ snapshot[p] = NoPipelineDoc /\ snapshot' = [snapshot EXCEPT ![p] = s]
    BY <1>5 DEF PipelineCreated, RevisionSound, RegistryIInv, ModelsSound
  <2>2. SnapshotSound(s, ModelOf[p], model, version)
    BY <2>1 DEF SnapshotSound
  <2> QED BY <1>2, <2>1, <2>2
<1> QED BY <1>3, <1>4, <1>5

\* Every step keeps the registry sound.
LEMMA RegistryStep == RegistryIInv /\ [ModelNext]_modelVars => RegistryIInv'
<1> SUFFICES ASSUME RegistryIInv, [ModelNext]_modelVars PROVE RegistryIInv'
  OBVIOUS
<1>1. CASE UNCHANGED modelVars
  BY <1>1 DEF modelVars, RegistryIInv
<1>2. ASSUME NEW c \in Callers, ModelStep(c) \/ RequestFails(c) \/ SyncModels(c) PROVE RegistryIInv'
  BY <1>2, RegisterReads, OtherReads, RefreshReads, SecretStored, ModelWrites, ModelDeleted, RefreshWrites
  DEF ModelStep
<1>3. ASSUME NEW c \in Callers, NEW p \in Pipelines, ReadPipeline(c, p) PROVE RegistryIInv'
  BY <1>3, OtherReads
<1>4. ASSUME NEW c \in Callers, NEW m \in Models,
             \/ DeleteModel(c, m)
             \/ \E key \in Keys \cup {NoKey}, limits \in Limits \cup {NoLimits} :
                    WriteChatModel(c, m, key, limits) \/ CreateModel(c, m, key, limits) \/ UpdateModel(c, m, key, limits)
      PROVE  RegistryIInv'
  BY <1>4, OtherReads
<1>5. ASSUME NEW p \in Pipelines,
             PipelineEdited(p) \/ PipelineDeleted(p) \/ \E rev \in 1 .. version : PipelineCreated(p, rev)
      PROVE  RegistryIInv'
  BY <1>5, PipelineWrites
<1> QED BY <1>1, <1>2, <1>3, <1>4, <1>5 DEF ModelNext

LEMMA RegistryInit == ModelInit => RegistryIInv
<1> SUFFICES ASSUME ModelInit PROVE RegistryIInv
  OBVIOUS
<1>1. ASSUME NEW m \in Models PROVE DocSound(model[m], version) /\ model[m].rev = 1
  <2>1. PICK chat \in SUBSET Models :
            model = [n \in Models |-> [category |-> IF n \in chat THEN "chat" ELSE "embedding",
                                      key |-> IF n \in chat THEN NoKey ELSE FirstKey, limits |-> DefaultLimits, rev |-> 1]]
    BY DEF ModelInit
  <2>2. version = 1
    BY DEF ModelInit
  <2> QED BY <2>1, <2>2 DEF DocSound, ModelFields
<1>2. version = 1 /\ DOMAIN model = Models
  BY DEF ModelInit
<1>3. ModelsSound(model, version)
  BY <1>1, <1>2 DEF ModelsSound
<1>4. ASSUME NEW p \in Pipelines PROVE SnapshotSound(snapshot[p], ModelOf[p], model, version)
  <2>1. snapshot[p] \in {NoPipelineDoc, [rev |-> 1, of |-> 1]} /\ ModelOf[p] \in Models
    BY RegistryAssumption DEF ModelInit
  <2>2. RevisionSound(1, ModelOf[p], model, version)
    BY <1>1, <1>2, <2>1 DEF RevisionSound
  <2> QED BY <2>1, <2>2 DEF SnapshotSound
<1>5. SnapshotsSound(snapshot, model, version)
  BY <1>4 DEF SnapshotsSound, ModelInit
<1>6. DOMAIN request = Callers /\ \A c \in Callers : RequestSound(request[c], model, snapshot, version)
  BY WaitingSound DEF ModelInit
<1> QED BY <1>3, <1>5, <1>6 DEF RegistryIInv

\* What a write that a stale read does not refuse has changed came with it.
KeyCarried(c, m) ==
    /\ Writing(c, m) /\ request[c].key # NoKey
    /\ model'[m].key = request[c].key \/ (request[c].op = "chat" /\ model'[m].key = NoKey)

LimitsCarried(c, m) ==
    /\ Writing(c, m) /\ request[c].limits = model'[m].limits
    /\ request[c].stated \/ (request[c].op # "chat" /\ request[c].began < model[m].rev)

LEMMA WriteCarries ==
  ASSUME RegistryIInv, NEW c \in Callers, NEW m \in Models, ModelExists(m),
         ChatWritten(c) \/ Register(c) \/ PatchCategory(c)
  PROVE  /\ model'[m].key # model[m].key => KeyCarried(c, m)
         /\ model'[m].limits # model[m].limits => LimitsCarried(c, m)
<1> DEFINE r == request[c]
<1>1. DOMAIN model = Models
  BY DEF RegistryIInv, ModelsSound
<1>2. ASSUME NEW n, NEW doc, WriteModel(n, doc)
      PROVE  model'[m] = IF m = n THEN doc ELSE model[m]
  BY <1>1, <1>2 DEF WriteModel
<1>3. CASE ChatWritten(c)
  <2>1. r.op = "chat" /\ ChatSound(r, model, version)
    BY <1>3 DEF ChatWritten, RegistryIInv, RequestSound, Waiting
  <2>2. CASE ~Current(r)
    BY <1>3, <2>2 DEF ChatWritten
  <2>3. CASE Current(r)
    <3>1. WriteModel(r.model, ModelDoc("chat", r.doc, r.limits))
      BY <1>3, <2>3 DEF ChatWritten
    <3>2. CASE m # r.model
      BY <1>2, <3>1, <3>2
    <3>3. CASE m = r.model
      <4>1. model'[m].key = r.doc /\ model'[m].limits = r.limits
        BY <1>2, <3>1, <3>3 DEF ModelDoc
      <4>2. r.read # Absent /\ model[m] = r.read
        BY <2>1, <2>3, <3>3 DEF ChatSound, Current, SameModel, ModelExists, ReadSound
      <4>3. r.doc = r.read.key \/ (r.key # NoKey /\ r.doc \in {r.key, NoKey})
        BY <2>1, <4>2 DEF ChatSound
      <4>4. ~r.stated => r.limits = r.read.limits
        BY <2>1, <4>2 DEF ChatSound
      <4> QED BY <2>1, <3>3, <4>1, <4>2, <4>3, <4>4 DEF KeyCarried, LimitsCarried, Writing
    <3> QED BY <3>2, <3>3
  <2> QED BY <2>2, <2>3
<1>4. CASE Register(c)
  <2>1. r.op \in {"create", "update", "sync"} /\ r.at = "write"
    BY <1>4 DEF Register, Routing
  <2>2. RegisterSound(r, model, version)
    BY <2>1 DEF RegistryIInv, RequestSound, Waiting
  <2>3. CASE ~Current(r)
    BY <1>4, <2>3 DEF Register
  <2>4. CASE Current(r)
    <3>1. PICK category : WriteModel(r.model, ModelDoc(category, KeyOf(r), r.limits))
      BY <1>4, <2>4 DEF Register
    <3>2. CASE m # r.model
      BY <1>2, <3>1, <3>2
    <3>3. CASE m = r.model
      <4>1. model'[m].key = KeyOf(r) /\ model'[m].limits = r.limits
        BY <1>2, <3>1, <3>3 DEF ModelDoc
      <4>2. r.read # Absent /\ model[m] = r.read
        BY <2>1, <2>2, <2>4, <3>3 DEF RegisterSound, Current, SameModel, ModelExists, ReadSound
      <4>3. r.stated \/ r.began < model[m].rev \/ model[m].limits = r.limits
        BY <2>2, <3>3 DEF RegisterSound, RepeatSound, ModelExists
      <4> QED BY <2>1, <3>3, <4>1, <4>2, <4>3 DEF KeyCarried, LimitsCarried, Writing, KeyOf
    <3> QED BY <3>2, <3>3
  <2> QED BY <2>3, <2>4
<1>5. CASE PatchCategory(c)
  <2>1. r.op \in {"create", "update", "sync"} /\ r.at = "patch"
    BY <1>5 DEF PatchCategory, Routing
  <2>2. RegisterSound(r, model, version)
    BY <2>1 DEF RegistryIInv, RequestSound, Waiting
  <2>3. CASE ~Replaceable(r.model, r.read)
    BY <1>5, <2>3 DEF PatchCategory
  <2>4. CASE Replaceable(r.model, r.read)
    <3>1. WriteModel(r.model, ModelDoc("embedding", r.read.key, r.read.limits))
      BY <1>5, <2>4 DEF PatchCategory
    <3>2. CASE m # r.model
      BY <1>2, <3>1, <3>2
    <3>3. CASE m = r.model
      <4>1. model'[m].key = r.read.key /\ model'[m].limits = r.read.limits
        BY <1>2, <3>1, <3>3 DEF ModelDoc
      <4>2. model[m] = r.read
        BY <2>1, <2>2, <2>4, <3>3 DEF RegisterSound, Replaceable, SameModel, ModelExists, ReadSound
      <4> QED BY <4>1, <4>2
    <3> QED BY <3>2, <3>3
  <2> QED BY <2>3, <2>4
<1> QED BY <1>3, <1>4, <1>5

\* Nothing else changes a model that is there.
LEMMA Writers ==
  ASSUME RegistryIInv, ModelNext, NEW m \in Models, model'[m] # Absent
  PROVE  model'[m] = model[m] \/ \E c \in Callers : ChatWritten(c) \/ Register(c) \/ PatchCategory(c)
<1>1. CASE UNCHANGED model
  BY <1>1
<1>2. ASSUME NEW c \in Callers, ModelStep(c)
      PROVE  model'[m] = model[m] \/ ChatWritten(c) \/ Register(c) \/ PatchCategory(c)
  <2>1. CASE Lookup(c) \/ Reread(c) \/ ListPipelines(c) \/ RefreshRead(c) \/ RefreshWrite(c) \/ LimitsEqual(c)
             \/ RefreshEnds(c) \/ SetSecret(c) \/ SecretDeleted(c) \/ SyncRegistry(c)
    BY <2>1 DEF Lookup, Reread, ListPipelines, RefreshRead, RefreshWrite, LimitsEqual, RefreshEnds, SetSecret,
       SecretDeleted, SyncRegistry
  <2>2. CASE Deleted(c)
    <3>1. model' = [model EXCEPT ![request[c].model] = Absent] /\ DOMAIN model = Models
      BY <2>2 DEF Deleted, RegistryIInv, ModelsSound
    <3> QED BY <3>1
  <2> QED BY <1>2, <2>1, <2>2 DEF ModelStep
<1>3. ASSUME NEW c \in Callers,
             \/ RequestFails(c) \/ SyncModels(c)
             \/ \E p \in Pipelines : ReadPipeline(c, p)
             \/ \E n \in Models :
                    \/ DeleteModel(c, n)
                    \/ \E key \in Keys \cup {NoKey}, limits \in Limits \cup {NoLimits} :
                           WriteChatModel(c, n, key, limits) \/ CreateModel(c, n, key, limits) \/ UpdateModel(c, n, key, limits)
      PROVE  UNCHANGED model
  BY <1>3 DEF RequestFails, SyncModels, ReadPipeline, DeleteModel, WriteChatModel, CreateModel, UpdateModel
<1>4. ASSUME NEW p \in Pipelines,
             PipelineEdited(p) \/ PipelineDeleted(p) \/ \E rev \in 1 .. version : PipelineCreated(p, rev)
      PROVE  UNCHANGED model
  BY <1>4 DEF PipelineEdited, PipelineDeleted, PipelineCreated
<1> QED BY <1>1, <1>2, <1>3, <1>4 DEF ModelNext

LEMMA ModelsStep ==
  ASSUME RegistryIInv, ModelNext, NEW m \in Models, ModelExists(m), model'[m] # Absent
  PROVE  /\ model'[m].key # model[m].key => \E c \in Callers : KeyCarried(c, m)
         /\ model'[m].limits # model[m].limits => \E c \in Callers : LimitsCarried(c, m)
<1>1. CASE model'[m] = model[m]
  BY <1>1
<1>2. CASE model'[m] # model[m]
  <2>1. PICK c \in Callers : ChatWritten(c) \/ Register(c) \/ PatchCategory(c)
    BY <1>2, Writers
  <2> QED BY <2>1, WriteCarries
<1> QED BY <1>1, <1>2

LEMMA SnapshotStep ==
  ASSUME RegistryIInv, ModelNext, NEW p \in Pipelines, PipelineExists(p), snapshot'[p].rev > 0,
         snapshot'[p].of < snapshot[p].of
  PROVE  \E c \in Callers : Refreshing(c, "write") /\ request[c].pipeline = p /\ request[c].gone
<1>1. /\ DOMAIN snapshot = Pipelines /\ DOMAIN snapshot[p] = {"rev", "of"}
      /\ snapshot[p].of \in Nat /\ snapshot[p].rev \in Nat \ {0}
  BY StoredSnapshot DEF RegistryIInv, SnapshotsSound, PipelineExists, RevisionSound
<1>2. CASE UNCHANGED snapshot
  BY <1>1, <1>2
<1>3. ASSUME NEW c \in Callers, RefreshWrite(c)
      PROVE  Refreshing(c, "write") /\ request[c].pipeline = p /\ request[c].gone
  <2> DEFINE r == request[c]
  <2>1. Refreshing(c, "write") /\ r.at = "write" /\ r.op \in {"refresh", "read"}
    BY <1>3 DEF RefreshWrite, Refreshing
  <2>2. CASE ~SamePipeline(r.pipeline, r.rev)
    BY <1>1, <1>3, <2>2 DEF RefreshWrite
  <2>3. CASE SamePipeline(r.pipeline, r.rev)
    <3>1. snapshot' = [snapshot EXCEPT ![r.pipeline] = [rev |-> snapshot[r.pipeline].rev + 1, of |-> r.of]]
      BY <1>3, <2>3 DEF RefreshWrite
    <3>2. r.pipeline = p /\ snapshot'[p].of = r.of
      BY <1>1, <3>1
    <3>3. RefreshSound(r, model, snapshot, version)
      BY <2>1, Refreshes
    <3>4. ~r.gone => snapshot[p].of <= r.of
      BY <2>1, <2>3, <3>2, <3>3 DEF RefreshSound, SamePipeline
    <3>5. r.of \in Nat
      BY <2>1, <3>3 DEF RefreshSound, RevisionSound
    <3>6. ~(snapshot[p].of <= r.of)
      BY <1>1, <3>2, <3>5
    <3> QED BY <2>1, <3>2, <3>4, <3>6
  <2> QED BY <2>2, <2>3
<1>4. ASSUME NEW c \in Callers,
             \/ Lookup(c) \/ Register(c) \/ Reread(c) \/ PatchCategory(c) \/ ListPipelines(c) \/ RefreshRead(c)
             \/ LimitsEqual(c) \/ RefreshEnds(c) \/ SetSecret(c) \/ ChatWritten(c) \/ Deleted(c) \/ SecretDeleted(c)
             \/ SyncRegistry(c)
             \/ RequestFails(c) \/ SyncModels(c)
             \/ \E q \in Pipelines : ReadPipeline(c, q)
             \/ \E n \in Models :
                    \/ DeleteModel(c, n)
                    \/ \E key \in Keys \cup {NoKey}, limits \in Limits \cup {NoLimits} :
                           WriteChatModel(c, n, key, limits) \/ CreateModel(c, n, key, limits) \/ UpdateModel(c, n, key, limits)
      PROVE  UNCHANGED snapshot
  BY <1>4 DEF Lookup, Register, Reread, PatchCategory, ListPipelines, RefreshRead, LimitsEqual, RefreshEnds, SetSecret,
     ChatWritten, Deleted, SecretDeleted, SyncRegistry, RequestFails, SyncModels, ReadPipeline, DeleteModel, WriteChatModel, CreateModel, UpdateModel
<1>5. ASSUME NEW q \in Pipelines,
             PipelineEdited(q) \/ PipelineDeleted(q) \/ \E rev \in 1 .. version : PipelineCreated(q, rev)
      PROVE  FALSE
  <2>1. CASE PipelineEdited(q)
    <3>1. PICK n : snapshot' = [snapshot EXCEPT ![q] = [snapshot[q] EXCEPT !.rev = n]]
      BY <2>1 DEF PipelineEdited
    <3>2. snapshot'[p].of = snapshot[p].of
      BY <1>1, <3>1
    <3> QED BY <1>1, <3>2
  <2>2. CASE PipelineDeleted(q)
    BY <1>1, <2>2 DEF PipelineDeleted, DeletedPipeline
  <2>3. ASSUME NEW rev \in 1 .. version, PipelineCreated(q, rev) PROVE FALSE
    <3>1. snapshot[q] = NoPipelineDoc /\ q # p
      BY <1>1, <2>3 DEF PipelineCreated, NoPipelineDoc
    <3>2. snapshot'[p] = snapshot[p]
      BY <1>1, <2>3, <3>1 DEF PipelineCreated
    <3> QED BY <1>1, <3>2
  <2> QED BY <1>5, <2>1, <2>2, <2>3
<1> QED BY <1>2, <1>3, <1>4, <1>5 DEF ModelNext, ModelStep

\* Of any models and pipelines: overlapping creates, edits, refreshes, deletions
\* and synchronisations never replace a key in a document but by one that was
\* sent, nor a snapshot by older limits; and limits that a request repeats from
\* its own read overwrite newer ones exactly where that read is out of date and
\* the router merges them under its own.
THEOREM RegistryNothingUndone == ModelSpec => NothingUndone
<1>1. RegistryIInv /\ [ModelNext]_modelVars
      => [\A m \in Models :
             ModelExists(m) /\ model'[m] # Absent /\ model'[m].key # model[m].key
             => \E c \in Callers : KeyCarried(c, m)]_modelVars
  BY ModelsStep
<1>2. RegistryIInv /\ [ModelNext]_modelVars
      => [\A m \in Models :
             ModelExists(m) /\ model'[m] # Absent /\ model'[m].limits # model[m].limits
             => \E c \in Callers : LimitsCarried(c, m)]_modelVars
  BY ModelsStep
<1>3. RegistryIInv /\ [ModelNext]_modelVars
      => [\A p \in Pipelines :
             PipelineExists(p) /\ snapshot'[p].rev > 0 /\ snapshot'[p].of < snapshot[p].of
             => \E c \in Callers : Refreshing(c, "write") /\ request[c].pipeline = p /\ request[c].gone]_modelVars
  BY SnapshotStep
<1>4. ModelSpec => KeyKept
  BY <1>1, RegistryInit, RegistryStep, PTL DEF ModelSpec, KeyKept, KeyCarried
<1>5. ModelSpec => LimitsKept
  BY <1>2, RegistryInit, RegistryStep, PTL DEF ModelSpec, LimitsKept, LimitsCarried
<1>6. ModelSpec => SnapshotNeverOlder
  BY <1>3, RegistryInit, RegistryStep, PTL DEF ModelSpec, SnapshotNeverOlder
<1> QED BY <1>4, <1>5, <1>6 DEF NothingUndone

-----------------------------------------------------------------------------
(* EmbeddingService: everybody gets the vectors of their own inputs.         *)

\* The images of a request, input by input.
LEMMA UrlsInTurn ==
  ASSUME NEW T, NEW s \in Seq(T)
  PROVE  \E g \in [0..Len(s) -> Seq(T)] :
            /\ g[0] = <<>>
            /\ \A i \in 1..Len(s) : g[i] = IF IsUrl(s[i]) THEN Append(g[i - 1], s[i]) ELSE g[i - 1]
            /\ Urls(s) = g[Len(s)]
<1> DEFINE N == Len(s)
           D == DOMAIN s
           step == [p \in (1..N) \X Seq(T) |-> IF IsUrl(s[p[1]]) THEN Append(p[2], s[p[1]]) ELSE p[2]]
           fold[d \in SUBSET D] ==
               IF d = {} THEN <<>>
               ELSE IF IsUrl(s[Max(d)]) THEN Append(fold[d \ {Max(d)}], s[Max(d)]) ELSE fold[d \ {Max(d)}]
<1>1. N \in Nat /\ D = 1..N
  OBVIOUS
<1>2. step \in [(1..N) \X Seq(T) -> Seq(T)]
  OBVIOUS
<1>3. PICK it \in [SUBSET (1..N) -> Seq(T)] : Folds(it, N, <<>>, step)
  <2>1. <<>> \in Seq(T)
    OBVIOUS
  <2> HIDE DEF step, N
  <2>2. HasFold(N, Seq(T), <<>>, step)
    BY <1>1, <1>2, <2>1, FoldExists
  <2> QED BY <2>2 DEF HasFold
<1>4. ASSUME NEW d \in SUBSET D, d # {}
      PROVE  it[d] = IF IsUrl(s[Max(d)]) THEN Append(it[d \ {Max(d)}], s[Max(d)]) ELSE it[d \ {Max(d)}]
  <2>1. Max(d) \in 1..N /\ d \ {Max(d)} \in SUBSET (1..N)
    BY <1>1, <1>4, GreatestIn
  <2>2. it[d \ {Max(d)}] \in Seq(T)
    BY <1>3, <2>1
  <2>3. it[d] = step[<<Max(d), it[d \ {Max(d)}]>>]
    <3> HIDE DEF step, N, D
    <3> QED BY <1>1, <1>3, <1>4 DEF Folds
  <2> QED BY <2>1, <2>2, <2>3
<1>5. it[{}] = <<>>
  <2> HIDE DEF step
  <2> QED BY <1>3 DEF Folds
<1>6. it = [d \in SUBSET D |->
               IF d = {} THEN <<>>
               ELSE IF IsUrl(s[Max(d)]) THEN Append(it[d \ {Max(d)}], s[Max(d)]) ELSE it[d \ {Max(d)}]]
  <2> HIDE DEF D, N
  <2> QED BY <1>1, <1>3, <1>4, <1>5
<1>7. Urls(s) = fold[D]
  BY DEF Urls, FoldLeft, MapThenFoldSet
<1>8. fold = [d \in SUBSET D |->
                 IF d = {} THEN <<>>
                 ELSE IF IsUrl(s[Max(d)]) THEN Append(fold[d \ {Max(d)}], s[Max(d)]) ELSE fold[d \ {Max(d)}]]
  <2> HIDE DEF D
  <2> QED BY <1>6
<1> HIDE DEF fold
<1> DEFINE g == [i \in 0..N |-> fold[1..i]]
<1>9. g[0] = <<>>
  BY <1>1, <1>8
<1>10. ASSUME NEW i \in 1..N PROVE g[i] = IF IsUrl(s[i]) THEN Append(g[i - 1], s[i]) ELSE g[i - 1]
  <2>1. 1..i \in SUBSET (1..N) /\ 1..i # {} /\ i \in 1..i /\ (1..i) \ {i} = 1..(i - 1)
    BY <1>1, UpTo
  <2>2. Max(1..i) = i
    BY <2>1, Greatest
  <2>3. fold[1..i] = IF IsUrl(s[Max(1..i)]) THEN Append(fold[(1..i) \ {Max(1..i)}], s[Max(1..i)])
                     ELSE fold[(1..i) \ {Max(1..i)}]
    BY <1>1, <1>8, <2>1
  <2>4. i \in 0..N /\ i - 1 \in 0..N
    BY <1>1
  <2> HIDE DEF N
  <2> QED BY <2>1, <2>2, <2>3, <2>4
<1> DEFINE S == {i \in 0..N : g[i] \in Seq(T)}
<1>11. \A i \in 0..N : i \in S
  <2>1. 0 \in S
    <3>1. 0 \in 0..N /\ <<>> \in Seq(T)
      BY <1>1
    <3> HIDE DEF g, N
    <3> QED BY <1>9, <3>1
  <2>2. ASSUME NEW i \in 1..N, i - 1 \in S PROVE i \in S
    <3>1. g[i - 1] \in Seq(T) /\ s[i] \in T /\ i \in 0..N
      BY <2>2
    <3> HIDE DEF g
    <3>2. CASE IsUrl(s[i])
      <4>1. g[i] = Append(g[i - 1], s[i])
        BY <1>10, <3>2
      <4>2. Append(g[i - 1], s[i]) \in Seq(T)
        BY <3>1, AppendProperties
      <4>3. g[i] \in Seq(T)
        BY <4>1, <4>2
      <4> QED BY <3>1, <4>3
    <3>3. CASE ~IsUrl(s[i])
      <4>1. g[i] = g[i - 1]
        BY <1>10, <3>3
      <4> QED BY <3>1, <4>1
    <3> QED BY <3>2, <3>3
  <2> HIDE DEF S
  <2> QED BY <1>1, <2>1, <2>2, CountingUp
<1>12. g \in [0..N -> Seq(T)]
  BY <1>11
<1>13. Urls(s) = g[N]
  BY <1>1, <1>7
<1> HIDE DEF g
<1> QED BY <1>9, <1>10, <1>12, <1>13

\* An image is found at its rank among the images.
LEMMA UrlsRanked ==
  ASSUME NEW T, NEW s \in Seq(T), NEW j \in 1..Len(s), IsUrl(s[j])
  PROVE  /\ Urls(s) \in Seq(T) /\ Urls(s) # <<>>
         /\ Urls(s)[Cardinality({k \in 1..j : IsUrl(s[k])})] = s[j]
<1> DEFINE N == Len(s)
           U(i) == {k \in 1..i : IsUrl(s[k])}
           R(i) == Cardinality(U(i))
<1>1. PICK g \in [0..N -> Seq(T)] :
          /\ g[0] = <<>>
          /\ \A i \in 1..N : g[i] = IF IsUrl(s[i]) THEN Append(g[i - 1], s[i]) ELSE g[i - 1]
          /\ Urls(s) = g[N]
  BY UrlsInTurn
<1>2. R(0) = 0 /\ \A i \in 0..N : IsFiniteSet(U(i))
  <2>1. U(0) = {}
    OBVIOUS
  <2>2. ASSUME NEW i \in 0..N PROVE IsFiniteSet(U(i))
    <3>1. IsFiniteSet(1..i) /\ U(i) \subseteq 1..i
      BY FS_Interval
    <3> QED BY <3>1, FS_Subset
  <2> QED BY <2>1, <2>2, FS_EmptySet
<1>3. ASSUME NEW i \in 1..N PROVE R(i) = IF IsUrl(s[i]) THEN R(i - 1) + 1 ELSE R(i - 1)
  <2>1. CASE IsUrl(s[i])
    <3>1. U(i) = U(i - 1) \cup {i} /\ i \notin U(i - 1) /\ i - 1 \in 0..N
      BY <2>1
    <3> HIDE DEF U
    <3> QED BY <1>2, <2>1, <3>1, FS_AddElement
  <2>2. CASE ~IsUrl(s[i])
    <3>1. U(i) = U(i - 1)
      BY <2>2
    <3> QED BY <2>2, <3>1
  <2> QED BY <2>1, <2>2
<1> HIDE DEF R
<1> DEFINE Right(i, k) == R(k) \in 1..Len(g[i]) /\ g[i][R(k)] = s[k]
           S == {i \in 0..N : Len(g[i]) = R(i) /\ \A k \in 1..i : IsUrl(s[k]) => Right(i, k)}
<1>4. 0 \in S
  BY <1>1, <1>2
<1>5. ASSUME NEW i \in 1..N, i - 1 \in S PROVE i \in S
  <2>1. g[i - 1] \in Seq(T) /\ s[i] \in T /\ i \in 0..N /\ i - 1 \in 0..N
    BY <1>1
  <2>2. Len(g[i - 1]) = R(i - 1) /\ \A k \in 1..(i - 1) : IsUrl(s[k]) => Right(i - 1, k)
    BY <1>5
  <2>3. CASE IsUrl(s[i])
    <3>1. g[i] = Append(g[i - 1], s[i]) /\ R(i) = R(i - 1) + 1
      BY <1>1, <1>3, <2>3
    <3>2. Len(g[i]) = R(i) /\ Right(i, i)
      <4>1. Len(g[i]) = Len(g[i - 1]) + 1 /\ g[i][Len(g[i - 1]) + 1] = s[i]
        BY <2>1, <3>1
      <4>2. Len(g[i - 1]) \in Nat
        BY <2>1
      <4> QED BY <2>2, <3>1, <4>1, <4>2
    <3>3. ASSUME NEW k \in 1..(i - 1), IsUrl(s[k]) PROVE Right(i, k)
      <4>1. R(k) \in 1..Len(g[i - 1]) /\ g[i - 1][R(k)] = s[k]
        BY <2>2, <3>3
      <4> QED BY <2>1, <3>1, <4>1
    <3>4. \A k \in 1..i : k = i \/ k \in 1..(i - 1)
      OBVIOUS
    <3> HIDE DEF Right
    <3> QED BY <2>1, <3>2, <3>3, <3>4
  <2>4. CASE ~IsUrl(s[i])
    <3>1. g[i] = g[i - 1] /\ R(i) = R(i - 1)
      BY <1>1, <1>3, <2>4
    <3>2. \A k \in 1..i : k = i \/ k \in 1..(i - 1)
      OBVIOUS
    <3> QED BY <2>1, <2>2, <2>4, <3>1, <3>2
  <2> QED BY <2>3, <2>4
<1>6. N \in 0..N /\ N \in Nat
  OBVIOUS
<1> HIDE DEF S, N
<1>7. N \in S
  BY <1>4, <1>5, <1>6, CountingUp
<1>8. Right(N, j) /\ Urls(s) \in Seq(T)
  BY <1>1, <1>6, <1>7 DEF S, N
<1>9. Urls(s) # <<>>
  <2>1. R(j) \in 1..Len(Urls(s))
    BY <1>1, <1>8
  <2>2. Urls(s) = <<>> => 1..Len(Urls(s)) = {}
    OBVIOUS
  <2> QED BY <2>1, <2>2
<1> QED BY <1>1, <1>8, <1>9 DEF R

-----------------------------------------------------------------------------
CallStatus == {"received", "queued", "result", "error", "done"}

Calls == [status : CallStatus, n : Nat, kind : {"texts", "images", "openai"}, level : {"list", "single"},
          inputs : Seq(Inputs), out : Seq(Inputs), vectors : Seq(Inputs)]

\* What a call has is right so far.
CallPartial(call) ==
    /\ call.inputs # <<>>
    /\ call.level = "list" => call.out = <<>>
    /\ call.level = "single" => Len(call.out) < Len(call.inputs) /\ call.out = SubSeq(call.inputs, 1, Len(call.out))
    /\ call.status = "result" => call.vectors = Batched(call)

CallSound(call) ==
    \/ call \in [status : {"idle", "failed"}, n : Nat]
    \/ /\ call \in Calls
       /\ IF call.status = "done" THEN call.out = call.inputs ELSE CallPartial(call)

\* What is asked for next, and the images of it.
LEMMA SentTyped ==
  ASSUME NEW call \in Calls, CallPartial(call)
  PROVE  /\ Sent(call) \in Seq(Inputs) /\ Sent(call) # <<>>
         /\ Batched(call) \in Seq(Inputs)
<1>1. Sent(call) \in Seq(Inputs) /\ Sent(call) # <<>>
  <2>1. CASE call.level = "list"
    BY <2>1 DEF Sent, CallPartial, Calls
  <2>2. CASE call.level # "list"
    <3>1. Len(call.out) + 1 \in 1..Len(call.inputs) /\ call.inputs \in Seq(Inputs)
      BY <2>2 DEF CallPartial, Calls
    <3>2. call.inputs[Len(call.out) + 1] \in Inputs
      BY <3>1
    <3> QED BY <2>2, <3>2 DEF Sent
  <2> QED BY <2>1, <2>2
<1>2. Urls(Sent(call)) \in Seq(Inputs)
  <2>1. PICK s \in Seq(Inputs) : s = Sent(call)
    BY <1>1
  <2>2. Len(s) \in 0..Len(s)
    OBVIOUS
  <2>3. Urls(s) \in Seq(Inputs)
    BY <2>2, UrlsInTurn
  <2> QED BY <2>1, <2>3
<1> QED BY <1>1, <1>2 DEF Batched

\* The vectors of a batch go to the places of their inputs.
LEMMA PlacedSent ==
  ASSUME NEW call \in Calls, CallPartial(call), NEW vectors, vectors = Batched(call) \/ Batched(call) = <<>>
  PROVE  Placed(call, vectors) = Sent(call)
<1>1. CASE service = "bge"
  BY <1>1, SentTyped DEF Placed, Batched
<1>2. CASE service # "bge"
  <2>1. PICK s \in Seq(Inputs) : s = Sent(call)
    BY SentTyped
  <2> DEFINE Rank(i) == Cardinality({k \in 1..i : IsUrl(s[k])})
  <2>2. Placed(call, vectors) = [i \in DOMAIN s |-> IF IsUrl(s[i]) THEN vectors[Rank(i)] ELSE s[i]]
    BY <1>2, <2>1 DEF Placed
  <2>3. ASSUME NEW i \in DOMAIN s, IsUrl(s[i]) PROVE vectors[Rank(i)] = s[i]
    <3>1. Urls(s)[Rank(i)] = s[i] /\ Urls(s) # <<>>
      BY <2>3, UrlsRanked
    <3> HIDE DEF Rank
    <3> QED BY <1>2, <2>1, <3>1 DEF Batched
  <2>4. s = [i \in DOMAIN s |-> s[i]]
    OBVIOUS
  <2> HIDE DEF Rank
  <2> QED BY <2>1, <2>2, <2>3, <2>4
<1> QED BY <1>1, <1>2

\* An answer with the vectors of what was sent, or an error, keeps a call right.
LEMMA AnsweredSound ==
  ASSUME NEW call \in Calls, CallPartial(call), NEW ok \in BOOLEAN, NEW vectors, ok => vectors = Sent(call)
  PROVE  /\ CallSound(Answered(call, ok, vectors))
         /\ Answered(call, ok, vectors).n = call.n
         /\ Answered(call, ok, vectors).status \in {"done", "received", "failed"}
<1> DEFINE out == IF call.level = "list" THEN vectors ELSE call.out \o vectors
<1>1. CASE ok /\ Len(out) = Len(call.inputs)
  <2> DEFINE r == [call EXCEPT !.status = "done", !.out = out, !.vectors = <<>>]
  <2>1. Answered(call, ok, vectors) = r
    BY <1>1 DEF Answered
  <2>2. out = call.inputs
    <3>1. CASE call.level = "list"
      BY <1>1, <3>1 DEF Sent
    <3>2. CASE call.level # "list"
      <4>1. PICK s \in Seq(Inputs), k \in Nat : s = call.inputs /\ k = Len(call.out) /\ k < Len(s) /\ call.out = SubSeq(s, 1, k)
        BY <3>2 DEF CallPartial, Calls
      <4>2. out = SubSeq(s, 1, k) \o <<s[k + 1]>>
        BY <1>1, <3>2, <4>1 DEF Sent
      <4>3. k + 1 \in 1..Len(s) /\ k = (k + 1) - 1
        BY <4>1
      <4>4. SubSeq(s, 1, k + 1) = Append(SubSeq(s, 1, k), s[k + 1]) /\ SubSeq(s, 1, k) \in Seq(Inputs) /\ s[k + 1] \in Inputs
        BY <4>1, <4>3, PrefixGrowsBy
      <4>5. SubSeq(s, 1, k) \o <<s[k + 1]>> = Append(SubSeq(s, 1, k), s[k + 1])
        BY <4>4, AppendIsConcat
      <4>6. Len(out) = k + 1
        BY <4>1, <4>2, <4>3, <4>4
      <4>7. SubSeq(s, 1, Len(s)) = s
        OBVIOUS
      <4> HIDE DEF out
      <4> QED BY <1>1, <4>1, <4>2, <4>4, <4>5, <4>6, <4>7
    <3> QED BY <3>1, <3>2
  <2> HIDE DEF out
  <2>3. r \in Calls /\ r.status = "done" /\ r.out = r.inputs /\ r.n = call.n
    <3>1. call.inputs \in Seq(Inputs) /\ <<>> \in Seq(Inputs)
      BY DEF Calls
    <3> QED BY <2>2, <3>1 DEF Calls, CallStatus
  <2> HIDE DEF r
  <2> QED BY <2>1, <2>3 DEF CallSound
<1>2. CASE ok /\ Len(out) # Len(call.inputs) /\ Len(out) < Len(call.inputs)
  <2> DEFINE r == [call EXCEPT !.status = "received", !.out = out, !.vectors = <<>>]
  <2>1. Answered(call, ok, vectors) = r
    BY <1>2 DEF Answered
  <2>2. call.level = "single"
    <3>1. call.level = "list" => Len(out) = Len(call.inputs)
      BY <1>2 DEF Sent
    <3> QED BY <1>2, <3>1 DEF Calls
  <2>3. out = SubSeq(call.inputs, 1, Len(out)) /\ out \in Seq(Inputs)
    <3>1. PICK s \in Seq(Inputs), k \in Nat : s = call.inputs /\ k = Len(call.out) /\ k < Len(s) /\ call.out = SubSeq(s, 1, k)
      BY <2>2 DEF CallPartial, Calls
    <3>2. out = SubSeq(s, 1, k) \o <<s[k + 1]>>
      BY <1>2, <2>2, <3>1 DEF Sent
    <3>3. k + 1 \in 1..Len(s) /\ k = (k + 1) - 1
      BY <3>1
    <3>4. SubSeq(s, 1, k + 1) = Append(SubSeq(s, 1, k), s[k + 1]) /\ SubSeq(s, 1, k) \in Seq(Inputs) /\ s[k + 1] \in Inputs
          /\ SubSeq(s, 1, k + 1) \in Seq(Inputs)
      BY <3>1, <3>3, PrefixGrowsBy
    <3>5. SubSeq(s, 1, k) \o <<s[k + 1]>> = Append(SubSeq(s, 1, k), s[k + 1])
      BY <3>4, AppendIsConcat
    <3>6. Len(SubSeq(s, 1, k + 1)) = k + 1
      BY <3>1, <3>3
    <3> HIDE DEF out
    <3> QED BY <3>1, <3>2, <3>4, <3>5, <3>6
  <2> HIDE DEF out
  <2>4. r \in Calls /\ r.status = "received" /\ r.n = call.n
    <3>1. <<>> \in Seq(Inputs)
      OBVIOUS
    <3> QED BY <2>3, <3>1 DEF Calls, CallStatus
  <2>5. CallPartial(r)
    BY <1>2, <2>2, <2>3 DEF CallPartial, Calls
  <2> HIDE DEF r
  <2> QED BY <2>1, <2>4, <2>5 DEF CallSound
<1>3. CASE ~ok /\ call.level = "list" /\ call.kind = "texts"
  <2> DEFINE r == [call EXCEPT !.status = "received", !.level = "single", !.out = <<>>]
  <2>1. Answered(call, ok, vectors) = r
    BY <1>3 DEF Answered
  <2>2. <<>> \in Seq(Inputs) /\ Len(<<>>) = 0 /\ SubSeq(call.inputs, 1, 0) = <<>> /\ Len(call.inputs) > 0
    BY DEF CallPartial, Calls
  <2>3. r \in Calls /\ r.status = "received" /\ r.n = call.n
    BY <2>2 DEF Calls, CallStatus
  <2>4. CallPartial(r)
    BY <2>2 DEF CallPartial, Calls
  <2> HIDE DEF r
  <2> QED BY <2>1, <2>3, <2>4 DEF CallSound
<1>4. CASE /\ ~(ok /\ Len(out) = Len(call.inputs)) /\ ~(ok /\ Len(out) < Len(call.inputs))
           /\ ~(~ok /\ call.level = "list" /\ call.kind = "texts")
  <2>1. Answered(call, ok, vectors) = Failed(call)
    BY <1>4 DEF Answered
  <2>2. Failed(call) \in [status : {"idle", "failed"}, n : Nat] /\ Failed(call).n = call.n /\ Failed(call).status = "failed"
    BY DEF Failed, Calls
  <2> QED BY <2>1, <2>2 DEF CallSound
<1> QED BY <1>1, <1>2, <1>3, <1>4

-----------------------------------------------------------------------------
\* What waits for a forward pass, in the order of its submission.
WaitingItems == gathered \o requestQueue
Items == [caller : EmbedCallers, n : Nat, items : Seq(Inputs)]

\* An item is of a former call of its caller, or of the present one.
OfPresentCall(item) == item.n = embedCalls[item.caller].n
ItemSound(item) ==
    /\ item.n <= embedCalls[item.caller].n
    /\ OfPresentCall(item) => embedCalls[item.caller].status \in {"queued", "failed"}
    /\ OfPresentCall(item) /\ embedCalls[item.caller].status = "queued" => item.items = Batched(embedCalls[item.caller])

\* A call has one item at most.
OneItem == \A i, j \in DOMAIN WaitingItems : WaitingItems[i].caller = WaitingItems[j].caller /\ WaitingItems[i].n = WaitingItems[j].n => i = j

EmbeddingIInv ==
    /\ service \in {"bge", "clip"} /\ callCount \in Nat
    /\ embedCalls = [c \in EmbedCallers |-> embedCalls[c]]
    /\ \A c \in EmbedCallers : CallSound(embedCalls[c]) /\ embedCalls[c].n <= callCount
    /\ requestQueue \in Seq(Items) /\ gathered \in Seq(Items)
    /\ \A i \in DOMAIN WaitingItems : ItemSound(WaitingItems[i])
    /\ OneItem

LEMMA EmbeddingInitially == EmbeddingInit => EmbeddingIInv
<1> SUFFICES ASSUME EmbeddingInit PROVE EmbeddingIInv
  OBVIOUS
<1>1. <<>> \in Seq(Items) /\ WaitingItems = <<>>
  BY DEF EmbeddingInit, WaitingItems
<1>2. \A c \in EmbedCallers : CallSound(embedCalls[c]) /\ embedCalls[c].n = 0
  BY DEF EmbeddingInit, NoCall, CallSound
<1> QED BY <1>1, <1>2 DEF EmbeddingInit, EmbeddingIInv, OneItem

\* The queues and what is in them.
LEMMA WaitingFacts ==
  ASSUME EmbeddingIInv
  PROVE  /\ WaitingItems \in Seq(Items) /\ Len(WaitingItems) = Len(gathered) + Len(requestQueue)
         /\ \A i \in 1..Len(gathered) : i \in DOMAIN WaitingItems /\ WaitingItems[i] = gathered[i] /\ gathered[i] \in Items
         /\ \A i \in 1..Len(requestQueue) :
                Len(gathered) + i \in DOMAIN WaitingItems /\ WaitingItems[Len(gathered) + i] = requestQueue[i]
  BY DEF EmbeddingIInv, WaitingItems

\* A call that has no item waiting may change, to one of the same number.
LEMMA CallChanges ==
  ASSUME EmbeddingIInv, NEW c \in EmbedCallers, NEW call, embedCalls' = [embedCalls EXCEPT ![c] = call],
         UNCHANGED <<service, requestQueue, gathered>>, callCount' \in Nat, callCount' >= callCount,
         CallSound(call), call.n >= embedCalls[c].n, call.n \in Nat, call.n <= callCount',
         \/ call.n > callCount
         \/ call.n = embedCalls[c].n /\ (embedCalls[c].status \notin {"queued", "failed"} \/ call.status = "failed")
  PROVE  EmbeddingIInv'
<1>1. \A d \in EmbedCallers : embedCalls'[d] = IF d = c THEN call ELSE embedCalls[d]
  BY DEF EmbeddingIInv
<1>2. WaitingItems' = WaitingItems /\ UNCHANGED WaitingItems
  BY DEF WaitingItems
<1>4. ASSUME NEW d \in EmbedCallers PROVE CallSound(embedCalls[d])' /\ embedCalls'[d].n <= callCount'
  <2>1. embedCalls[d].n \in Nat /\ embedCalls[d].n <= callCount /\ CallSound(embedCalls[d]) /\ callCount \in Nat
    BY DEF EmbeddingIInv, CallSound, Calls
  <2>2. CASE d = c
    <3>1. embedCalls[d]' = call
      BY <1>1, <2>2
    <3> QED BY <3>1, <1>1, <2>2 DEF CallSound, CallPartial, Batched, Sent, Calls
  <2>3. CASE d # c
    <3>1. embedCalls[d]' = embedCalls[d]
      BY <1>1, <2>3
    <3> QED BY <3>1, <1>1, <2>1, <2>3 DEF CallSound, CallPartial, Batched, Sent, Calls
  <2> QED BY <2>2, <2>3
<1>5. ASSUME NEW i \in DOMAIN WaitingItems PROVE ItemSound(WaitingItems[i])'
  <2>1. PICK item \in Items : item = WaitingItems[i]
    BY WaitingFacts
  <2>2. ItemSound(item) /\ item.caller \in EmbedCallers /\ item.n \in Nat
    BY <2>1 DEF EmbeddingIInv, Items
  <2>3. CASE item.caller # c
    BY <1>1, <1>2, <2>1, <2>2, <2>3 DEF ItemSound, OfPresentCall, Batched, Sent
  <2>4. CASE item.caller = c
    <3>1. embedCalls[c].n \in Nat /\ embedCalls[c].n <= callCount /\ callCount \in Nat
      BY DEF EmbeddingIInv, CallSound, Calls
    <3>2. item.n <= call.n
      BY <2>2, <2>4, <3>1 DEF ItemSound
    <3>3. item.n = call.n => call.status = "failed"
      BY <2>2, <2>4, <3>1 DEF ItemSound, OfPresentCall
    <3> QED BY <1>1, <1>2, <2>1, <2>4, <3>2, <3>3 DEF ItemSound, OfPresentCall
  <2> QED BY <2>3, <2>4
<1>6. OneItem'
  BY <1>2 DEF EmbeddingIInv, OneItem
<1>7. (embedCalls = [d \in EmbedCallers |-> embedCalls[d]])'
  BY DEF EmbeddingIInv
<1>8. (service \in {"bge", "clip"} /\ callCount \in Nat /\ requestQueue \in Seq(Items) /\ gathered \in Seq(Items))'
  BY DEF EmbeddingIInv, Items
<1>9. (\A d \in EmbedCallers : CallSound(embedCalls[d]) /\ embedCalls[d].n <= callCount)'
  BY <1>4
<1>10. (\A i \in DOMAIN WaitingItems : ItemSound(WaitingItems[i]))'
  BY <1>2, <1>5
<1> QED BY <1>6, <1>7, <1>8, <1>9, <1>10 DEF EmbeddingIInv

\* Call: a new number.
LEMMA CallKeeps ==
  ASSUME EmbeddingIInv, NEW c \in EmbedCallers, Call(c)
  PROVE  EmbeddingIInv'
<1>1. PICK kind \in {"texts", "images", "openai"} : \E inputs \in InputsOf(kind) :
         embedCalls' = [embedCalls EXCEPT ![c] = [status |-> "received", n |-> callCount + 1, kind |-> kind,
                              level |-> "list", inputs |-> inputs, out |-> <<>>, vectors |-> <<>>]]
  BY DEF Call
<1>2. PICK inputs \in InputsOf(kind) :
         embedCalls' = [embedCalls EXCEPT ![c] = [status |-> "received", n |-> callCount + 1, kind |-> kind,
                              level |-> "list", inputs |-> inputs, out |-> <<>>, vectors |-> <<>>]]
  BY <1>1
<1>0. PICK call : call = [status |-> "received", n |-> callCount + 1, kind |-> kind,
                     level |-> "list", inputs |-> inputs, out |-> <<>>, vectors |-> <<>>]
  OBVIOUS
<1>3. inputs \in Seq(Inputs) /\ inputs # <<>>
  <2>1. inputs \in TextCalls \cup ImageCalls \cup MixedCalls
    BY DEF InputsOf
  <2> QED BY <2>1, EmbeddingAssumption
<1>4. callCount' = callCount + 1 /\ callCount \in Nat /\ embedCalls[c].n <= callCount /\ embedCalls[c].n \in Nat
  BY DEF Call, EmbeddingIInv, CallSound, Calls
<1>5. call \in Calls /\ CallPartial(call)
  BY <1>0, <1>3, <1>4 DEF Calls, CallStatus, CallPartial
<1>6. UNCHANGED <<service, requestQueue, gathered>>
  BY DEF Call
<1>7. call.n = callCount + 1 /\ call.status = "received"
  BY <1>0
<1>8. embedCalls' = [embedCalls EXCEPT ![c] = call]
  BY <1>0, <1>2
<1>9. CallSound(call)
  BY <1>5, <1>7 DEF CallSound
<1>10. /\ callCount' \in Nat /\ callCount' >= callCount /\ call.n >= embedCalls[c].n /\ call.n \in Nat
       /\ call.n <= callCount' /\ call.n > callCount
  BY <1>4, <1>7
<1> QED BY <1>6, <1>8, <1>9, <1>10, CallChanges

\* A call under way is not waiting for anything that was not answered.
LEMMA CallUnderWay ==
  ASSUME EmbeddingIInv, NEW c \in EmbedCallers, embedCalls[c].status \in {"received", "queued", "result", "error"}
  PROVE  embedCalls[c] \in Calls /\ CallPartial(embedCalls[c]) /\ embedCalls[c].n \in Nat /\ embedCalls[c].n <= callCount
  BY DEF EmbeddingIInv, CallSound, Calls

LEMMA ReplyKeeps ==
  ASSUME EmbeddingIInv, NEW c \in EmbedCallers, Reply(c) \/ ReplyError(c) \/ DownloadFails(c)
  PROVE  EmbeddingIInv'
<1> DEFINE call == embedCalls[c]
<1>1. call.status \in {"received", "result", "error"}
  BY DEF Reply, ReplyError, DownloadFails
<1>2. call \in Calls /\ CallPartial(call) /\ call.n \in Nat /\ call.n <= callCount
  BY <1>1, CallUnderWay
<1>3. \E okay \in BOOLEAN : \E answer :
          (okay => answer = Sent(call)) /\ embedCalls' = [embedCalls EXCEPT ![c] = Answered(@, okay, answer)]
  <2>1. CASE Reply(c)
    <3>1. PICK ok \in BOOLEAN :
             embedCalls' = [embedCalls EXCEPT ![c] = Answered(call, ok, IF ok THEN Placed(call, call.vectors) ELSE <<>>)]
      BY <2>1 DEF Reply
    <3>2. call.vectors = Batched(call) \/ Batched(call) = <<>>
      BY <1>2, <2>1 DEF Reply, CallPartial
    <3>3. Placed(call, call.vectors) = Sent(call)
      BY <1>2, <3>2, PlacedSent
    <3> QED BY <3>1, <3>3
  <2>2. CASE ReplyError(c) \/ DownloadFails(c)
    BY <2>2 DEF ReplyError, DownloadFails
  <2> QED BY <2>1, <2>2
<1>4. PICK ok \in BOOLEAN : \E answer :
          (ok => answer = Sent(call)) /\ embedCalls' = [embedCalls EXCEPT ![c] = Answered(@, ok, answer)]
  BY <1>3
<1>5. PICK vectors : (ok => vectors = Sent(call)) /\ embedCalls' = [embedCalls EXCEPT ![c] = Answered(@, ok, vectors)]
  BY <1>4
<1>6. PICK next : next = Answered(call, ok, vectors)
  OBVIOUS
<1>7. CallSound(next) /\ next.n = call.n /\ next.status \in {"done", "received", "failed"}
  BY <1>2, <1>5, <1>6, AnsweredSound
<1>8. embedCalls' = [embedCalls EXCEPT ![c] = next]
  BY <1>5, <1>6
<1>9. UNCHANGED <<service, requestQueue, gathered, callCount>> /\ callCount \in Nat
  BY DEF Reply, ReplyError, DownloadFails, EmbeddingIInv
<1>10. /\ callCount' \in Nat /\ callCount' >= callCount /\ next.n >= embedCalls[c].n /\ next.n \in Nat
      /\ next.n <= callCount' /\ next.n = embedCalls[c].n /\ embedCalls[c].status \notin {"queued", "failed"}
  BY <1>1, <1>2, <1>7, <1>9
<1> QED BY <1>7, <1>8, <1>9, <1>10, CallChanges

LEMMA TimeoutKeeps ==
  ASSUME EmbeddingIInv, NEW c \in EmbedCallers, CallTimeout(c)
  PROVE  EmbeddingIInv'
<1>0. PICK next : next = Failed(embedCalls[c])
  OBVIOUS
<1>1. embedCalls[c].n \in Nat /\ embedCalls[c].n <= callCount
  BY CallUnderWay DEF CallTimeout
<1>2. embedCalls' = [embedCalls EXCEPT ![c] = next]
  BY <1>0 DEF CallTimeout
<1>3. CallSound(next) /\ next.n = embedCalls[c].n /\ next.status = "failed"
  BY <1>0, <1>1 DEF CallSound, Failed
<1>4. UNCHANGED <<service, requestQueue, gathered, callCount>> /\ callCount \in Nat
  BY DEF CallTimeout, EmbeddingIInv
<1>5. /\ callCount' \in Nat /\ callCount' >= callCount /\ next.n >= embedCalls[c].n /\ next.n \in Nat
      /\ next.n <= callCount' /\ next.n = embedCalls[c].n
  BY <1>1, <1>3, <1>4
<1> QED BY <1>2, <1>3, <1>4, <1>5, CallChanges


LEMMA SubmitKeeps ==
  ASSUME EmbeddingIInv, NEW c \in EmbedCallers, Submit(c)
  PROVE  EmbeddingIInv'
<1>0. PICK call : call = embedCalls[c]
  OBVIOUS
<1>1. call.status = "received" /\ call \in Calls /\ CallPartial(call) /\ call.n \in Nat /\ call.n <= callCount
  BY <1>0, CallUnderWay DEF Submit
<1>2. PICK item : item = [caller |-> c, n |-> call.n, items |-> Batched(call)]
  OBVIOUS
<1>3. item \in Items /\ item.caller = c /\ item.n = call.n /\ item.items = Batched(call)
  BY <1>1, <1>2, SentTyped DEF Items
<1>4. PICK next : next = [call EXCEPT !.status = "queued"]
  OBVIOUS
<1>5. next \in Calls /\ CallPartial(next) /\ next.n = call.n /\ next.status = "queued" /\ Batched(next) = Batched(call)
  BY <1>1, <1>4 DEF Calls, CallStatus, CallPartial, Batched, Sent
<1>6. /\ requestQueue' = Append(requestQueue, item) /\ embedCalls' = [embedCalls EXCEPT ![c].status = "queued"]
      /\ UNCHANGED <<service, gathered, callCount>>
  BY <1>0, <1>2 DEF Submit
<1>7. \A d \in EmbedCallers : embedCalls[d]' = IF d = c THEN next ELSE embedCalls[d]
  BY <1>0, <1>4, <1>6 DEF EmbeddingIInv
<1>8. /\ WaitingItems' = Append(WaitingItems, item) /\ WaitingItems \in Seq(Items) /\ Len(WaitingItems') = Len(WaitingItems) + 1
      /\ \A i \in 1..Len(WaitingItems) : WaitingItems'[i] = WaitingItems[i]
      /\ WaitingItems'[Len(WaitingItems) + 1] = item
  <2>1. gathered \in Seq(Items) /\ requestQueue \in Seq(Items)
    BY DEF EmbeddingIInv
  <2>2. WaitingItems' = Append(WaitingItems, item)
    BY <1>3, <1>6, <2>1, AppendOfConcat DEF WaitingItems
  <2>3. WaitingItems \in Seq(Items)
    BY WaitingFacts
  <2> QED BY <1>3, <2>2, <2>3, AppendProperties
<1>9. ASSUME NEW i \in 1..Len(WaitingItems), WaitingItems[i].caller = c PROVE WaitingItems[i].n < call.n
  <2>1. WaitingItems[i].n <= call.n /\ WaitingItems[i].n # call.n
    BY <1>0, <1>1, <1>8, <1>9 DEF EmbeddingIInv, ItemSound, OfPresentCall
  <2>2. WaitingItems[i].n \in Nat
    <3>1. WaitingItems[i] \in Items
      BY <1>8
    <3> QED BY <3>1 DEF Items
  <2> QED BY <1>1, <2>1, <2>2
<1>10. ASSUME NEW d \in EmbedCallers PROVE CallSound(embedCalls[d])' /\ embedCalls'[d].n <= callCount'
  <2>1. embedCalls[d].n <= callCount /\ CallSound(embedCalls[d])
    BY DEF EmbeddingIInv
  <2>2. CASE d = c
    <3>1. embedCalls[d]' = next
      BY <1>7, <2>2
    <3>2. CallPartial(embedCalls[d])'
      BY <1>5, <1>6, <3>1 DEF CallPartial, Batched, Sent
    <3> QED BY <1>1, <1>5, <1>6, <3>1, <3>2 DEF CallSound, Calls
  <2>3. CASE d # c
    BY <1>6, <1>7, <2>1, <2>3 DEF CallSound, CallPartial, Batched, Sent, Calls
  <2> QED BY <2>2, <2>3
<1>11. ASSUME NEW i \in 1..Len(WaitingItems) PROVE ItemSound(WaitingItems[i])'
  <2>1. PICK old \in Items : old = WaitingItems[i] /\ WaitingItems'[i] = old
    BY <1>8
  <2>2. ItemSound(old) /\ old.caller \in EmbedCallers /\ old.n \in Nat
    BY <1>8, <2>1 DEF EmbeddingIInv, Items
  <2>3. CASE old.caller # c
    BY <1>6, <1>7, <2>1, <2>2, <2>3 DEF ItemSound, OfPresentCall, Batched, Sent
  <2>4. CASE old.caller = c
    <3>1. old.n < call.n
      BY <1>9, <2>1, <2>4
    <3>2. embedCalls[old.caller]' = next /\ old.n # next.n /\ old.n <= next.n
      BY <1>1, <1>5, <1>7, <2>2, <2>4, <3>1
    <3> QED BY <2>1, <3>2 DEF ItemSound, OfPresentCall
  <2> QED BY <2>3, <2>4
<1>13. (\A i \in DOMAIN WaitingItems : ItemSound(WaitingItems[i]))'
  <2> SUFFICES ASSUME NEW i \in (DOMAIN WaitingItems)' PROVE ItemSound(WaitingItems[i])'
    OBVIOUS
  <2>1. i \in 1..Len(WaitingItems) \/ i = Len(WaitingItems) + 1
    BY <1>8
  <2>2. CASE i = Len(WaitingItems) + 1
    <3>1. WaitingItems'[i] = item /\ embedCalls[item.caller]' = next
      BY <1>3, <1>7, <1>8, <2>2
    <3>2. Batched(next)' = item.items
      <4>1. Batched(next)' = Batched(next)
        BY <1>6 DEF Batched, Sent
      <4> QED BY <1>3, <1>5, <4>1
    <3>3. Batched(embedCalls[item.caller])' = item.items
      BY <3>1, <3>2 DEF Batched, Sent
    <3> QED BY <1>1, <1>3, <1>5, <3>1, <3>3 DEF ItemSound, OfPresentCall
  <2> QED BY <1>11, <2>1, <2>2
<1>14. OneItem'
  <2> SUFFICES ASSUME NEW i \in (DOMAIN WaitingItems)', NEW j \in (DOMAIN WaitingItems)',
                      WaitingItems'[i].caller = WaitingItems'[j].caller /\ WaitingItems'[i].n = WaitingItems'[j].n
               PROVE  i = j
    BY DEF OneItem
  <2>1. (i \in 1..Len(WaitingItems) \/ i = Len(WaitingItems) + 1) /\ (j \in 1..Len(WaitingItems) \/ j = Len(WaitingItems) + 1)
    BY <1>8
  <2>2. CASE i \in 1..Len(WaitingItems) /\ j \in 1..Len(WaitingItems)
    BY <1>8, <2>2 DEF EmbeddingIInv, OneItem
  <2>3. \A k \in 1..Len(WaitingItems) : ~(WaitingItems[k].caller = c /\ WaitingItems[k].n = call.n)
    <3>1. \A k \in 1..Len(WaitingItems) : WaitingItems[k] \in Items
      BY <1>8
    <3>2. \A k \in 1..Len(WaitingItems) : WaitingItems[k].n \in Nat
      BY <3>1 DEF Items
    <3> QED BY <1>1, <1>9, <3>2
  <2>4. CASE i \in 1..Len(WaitingItems) /\ j = Len(WaitingItems) + 1
    BY <1>3, <1>8, <2>3, <2>4
  <2>5. CASE j \in 1..Len(WaitingItems) /\ i = Len(WaitingItems) + 1
    BY <1>3, <1>8, <2>3, <2>5
  <2> QED BY <2>1, <2>2, <2>4, <2>5
<1>15. (embedCalls = [d \in EmbedCallers |-> embedCalls[d]])'
  BY <1>6 DEF EmbeddingIInv
<1>16. (service \in {"bge", "clip"} /\ callCount \in Nat /\ requestQueue \in Seq(Items) /\ gathered \in Seq(Items))'
  BY <1>3, <1>6 DEF EmbeddingIInv, Items
<1>17. (\A d \in EmbedCallers : CallSound(embedCalls[d]) /\ embedCalls[d].n <= callCount)'
  BY <1>10
<1> QED BY <1>13, <1>14, <1>15, <1>16, <1>17 DEF EmbeddingIInv

\* Gathering moves an item on and leaves the order of the waiting ones.
LEMMA TakeKeeps ==
  ASSUME EmbeddingIInv, TakeItem
  PROVE  EmbeddingIInv'
<1>1. gathered \in Seq(Items) /\ requestQueue \in Seq(Items) /\ requestQueue # <<>>
  BY DEF EmbeddingIInv, TakeItem
<1>2. gathered' = Append(gathered, Head(requestQueue)) /\ requestQueue' = Tail(requestQueue)
  BY DEF TakeItem
<1>3. gathered' \in Seq(Items) /\ requestQueue' \in Seq(Items)
  BY <1>1, <1>2
<1>4. WaitingItems' = WaitingItems
  <2>1. Len(WaitingItems') = Len(WaitingItems) /\ WaitingItems' \in Seq(Items) /\ WaitingItems \in Seq(Items)
    BY <1>1, <1>2, <1>3 DEF WaitingItems
  <2>2. \A i \in 1..Len(WaitingItems) : WaitingItems'[i] = WaitingItems[i]
    BY <1>1, <1>2, <1>3 DEF WaitingItems
  <2> QED BY <2>1, <2>2, SeqEqual
<1>5. UNCHANGED <<service, embedCalls, callCount>>
  BY DEF TakeItem
<1>6. OneItem'
  BY <1>4 DEF EmbeddingIInv, OneItem
<1>7. (\A i \in DOMAIN WaitingItems : ItemSound(WaitingItems[i]))'
  BY <1>4, <1>5 DEF EmbeddingIInv, ItemSound, OfPresentCall, Batched, Sent
<1>8. (\A c \in EmbedCallers : CallSound(embedCalls[c]) /\ embedCalls[c].n <= callCount)'
  BY <1>5 DEF EmbeddingIInv, CallSound, CallPartial, Batched, Sent, Calls
<1>9. (embedCalls = [c \in EmbedCallers |-> embedCalls[c]] /\ service \in {"bge", "clip"} /\ callCount \in Nat)'
  BY <1>5 DEF EmbeddingIInv
<1>10. (requestQueue \in Seq(Items) /\ gathered \in Seq(Items))'
  BY <1>3 DEF Items
<1> QED BY <1>6, <1>7, <1>8, <1>9, <1>10 DEF EmbeddingIInv

LEMMA NothingKeeps ==
  ASSUME EmbeddingIInv, CloseWindow \/ UNCHANGED embeddingVars
  PROVE  EmbeddingIInv'
<1>1. UNCHANGED <<service, embedCalls, requestQueue, gathered, callCount>>
  BY DEF CloseWindow, embeddingVars
<1>2. WaitingItems' = WaitingItems
  BY <1>1 DEF WaitingItems
<1>3. OneItem'
  BY <1>2 DEF EmbeddingIInv, OneItem
<1>4. (\A i \in DOMAIN WaitingItems : ItemSound(WaitingItems[i]))'
  BY <1>1, <1>2 DEF EmbeddingIInv, ItemSound, OfPresentCall, Batched, Sent
<1>5. (\A c \in EmbedCallers : CallSound(embedCalls[c]) /\ embedCalls[c].n <= callCount)'
  BY <1>1 DEF EmbeddingIInv, CallSound, CallPartial, Batched, Sent, Calls
<1>6. (embedCalls = [c \in EmbedCallers |-> embedCalls[c]] /\ service \in {"bge", "clip"} /\ callCount \in Nat)'
  BY <1>1 DEF EmbeddingIInv
<1>7. (requestQueue \in Seq(Items) /\ gathered \in Seq(Items))'
  BY <1>1 DEF EmbeddingIInv, Items
<1> QED BY <1>3, <1>4, <1>5, <1>6, <1>7 DEF EmbeddingIInv

\* The slice of a request is what was computed for it.
LEMMA OwnSlice ==
  ASSUME EmbeddingIInv, NEW k \in DOMAIN gathered
  PROVE  Slice(k) = gathered[k].items
<1> DEFINE parts == [i \in DOMAIN gathered |-> gathered[i].items]
           before == SubSeq(gathered, 1, k - 1)
<1>1. gathered \in Seq(Items) /\ k \in 1..Len(gathered)
  BY DEF EmbeddingIInv
<1>2. parts \in Seq(Seq(Inputs)) /\ Len(parts) = Len(gathered) /\ parts[k] = gathered[k].items
  <2>1. PICK E : E = Seq(Inputs)
    OBVIOUS
  <2>2. \A i \in DOMAIN gathered : gathered[i].items \in E
    <3>1. \A i \in DOMAIN gathered : gathered[i] \in Items
      BY <1>1
    <3> QED BY <2>1, <3>1 DEF Items
  <2>3. parts \in Seq(E)
    BY <1>1, <2>2
  <2> QED BY <1>1, <2>1, <2>3
<1>3. Lengths(SubSeq(parts, 1, k - 1)) = [i \in DOMAIN before |-> Len(before[i].items)]
  <2>1. DOMAIN before = 1..(k - 1) /\ \A i \in 1..(k - 1) : before[i] = gathered[i]
    BY <1>1
  <2>2. DOMAIN SubSeq(parts, 1, k - 1) = 1..(k - 1) /\ \A i \in 1..(k - 1) : SubSeq(parts, 1, k - 1)[i] = gathered[i].items
    <3>1. PICK E : E = Seq(Inputs)
      OBVIOUS
    <3>2. parts \in Seq(E) /\ Len(parts) = Len(gathered) /\ \A i \in 1..(k - 1) : parts[i] = gathered[i].items
      BY <1>1, <1>2, <3>1
    <3> HIDE DEF parts
    <3> QED BY <1>1, <3>2
  <2> HIDE DEF parts, before
  <2> QED BY <2>1, <2>2 DEF Lengths
<1>4. Total(before) = Summed(Lengths(SubSeq(parts, 1, k - 1)))
  <2> HIDE DEF parts, before
  <2> QED BY <1>3 DEF Total, Summed
<1>5. Slice(k) = SubSeq(FlattenSeq(parts), Total(before) + 1, Total(before) + Len(parts[k]))
  BY <1>2 DEF Slice
<1> HIDE DEF parts, before
<1> QED BY <1>1, <1>2, <1>4, <1>5, FlattenedPart

\* The forward pass answers everybody who still waits for it.
LEMMA ForwardKeeps ==
  ASSUME EmbeddingIInv, Forward
  PROVE  EmbeddingIInv'
<1>1. PICK ok \in BOOLEAN : embedCalls' = FanOut(ok)
  BY DEF Forward
<1>2. gathered' = <<>> /\ UNCHANGED <<service, requestQueue, callCount>>
  BY DEF Forward
<1>3. /\ gathered \in Seq(Items) /\ requestQueue \in Seq(Items) /\ WaitingItems' = requestQueue
      /\ \A i \in 1..Len(gathered) : i \in DOMAIN WaitingItems /\ WaitingItems[i] = gathered[i] /\ gathered[i] \in Items
      /\ \A i \in 1..Len(requestQueue) :
             Len(gathered) + i \in DOMAIN WaitingItems /\ WaitingItems[Len(gathered) + i] = requestQueue[i]
  <2>1. gathered \in Seq(Items) /\ requestQueue \in Seq(Items)
    BY DEF EmbeddingIInv
  <2> QED BY <1>2, <2>1, WaitingFacts DEF WaitingItems
<1>4. ASSUME NEW c \in EmbedCallers, ~\E k \in DOMAIN gathered : Awaits(c, k)
      PROVE  embedCalls[c]' = embedCalls[c]
  BY <1>1, <1>4 DEF FanOut
<1>5. ASSUME NEW c \in EmbedCallers, \E k \in DOMAIN gathered : Awaits(c, k)
      PROVE  /\ embedCalls[c]' \in Calls /\ CallPartial(embedCalls[c])' /\ embedCalls[c].n' = embedCalls[c].n
             /\ embedCalls[c].status = "queued" /\ embedCalls[c]'.status \in {"result", "error"}
  <2>1. PICK k \in DOMAIN gathered : k = CHOOSE i \in DOMAIN gathered : Awaits(c, i)
    BY <1>5
  <2>2. Awaits(c, k)
    BY <1>5, <2>1
  <2>3. PICK call : call = embedCalls[c]
    OBVIOUS
  <2>4. call.status = "queued" /\ call \in Calls /\ CallPartial(call) /\ call.n \in Nat
    BY <2>2, <2>3, CallUnderWay DEF Awaits
  <2>5. Slice(k) = Batched(call)
    <3>1. k \in 1..Len(gathered)
      BY <1>3
    <3>2. ItemSound(gathered[k]) /\ gathered[k].caller = c /\ OfPresentCall(gathered[k])
      BY <1>3, <2>2, <3>1 DEF EmbeddingIInv, Awaits, OfPresentCall
    <3> QED BY <2>3, <2>4, <3>2, OwnSlice DEF ItemSound
  <2>6. PICK vectors : vectors = IF ok THEN Batched(call) ELSE <<>>
    OBVIOUS
  <2>7. vectors \in Seq(Inputs)
    BY <2>4, <2>6, SentTyped
  <2>8. PICK status \in {"result", "error"} : status = IF ok THEN "result" ELSE "error"
    OBVIOUS
  <2>9. embedCalls[c]' = [call EXCEPT !.status = status, !.vectors = vectors]
    BY <1>1, <1>5, <2>1, <2>3, <2>5, <2>6, <2>8 DEF FanOut
  <2>10. embedCalls[c]' \in Calls /\ embedCalls[c]'.n = call.n /\ embedCalls[c]'.status = status
    BY <2>4, <2>7, <2>8, <2>9 DEF Calls, CallStatus
  <2>11. PICK next \in Calls : next = [call EXCEPT !.status = status, !.vectors = vectors]
    BY <2>9, <2>10
  <2>12. CallPartial(next)
    BY <2>4, <2>6, <2>8, <2>11 DEF CallPartial, Calls, Batched, Sent
  <2>13. CallPartial(embedCalls[c])'
    BY <1>2, <2>9, <2>11, <2>12 DEF CallPartial, Batched, Sent
  <2> QED BY <2>3, <2>4, <2>8, <2>10, <2>13
<1>6. ASSUME NEW c \in EmbedCallers PROVE CallSound(embedCalls[c])' /\ embedCalls'[c].n <= callCount'
  <2>1. CallSound(embedCalls[c]) /\ embedCalls[c].n <= callCount
    BY DEF EmbeddingIInv
  <2>2. CASE \E k \in DOMAIN gathered : Awaits(c, k)
    BY <1>2, <1>5, <2>1, <2>2 DEF CallSound, Calls
  <2>3. CASE ~\E k \in DOMAIN gathered : Awaits(c, k)
    <3>1. embedCalls[c]' = embedCalls[c]
      BY <1>4, <2>3
    <3> QED BY <1>2, <2>1, <3>1 DEF CallSound, CallPartial, Batched, Sent, Calls
  <2> QED BY <2>2, <2>3
<1>7. ASSUME NEW i \in DOMAIN requestQueue PROVE ItemSound(requestQueue[i])'
  <2>1. PICK item \in Items : item = requestQueue[i] /\ item = WaitingItems[Len(gathered) + i]
    BY <1>3
  <2>2. ItemSound(item) /\ item.caller \in EmbedCallers
    <3>1. Len(gathered) + i \in DOMAIN WaitingItems
      BY <1>3
    <3>2. ItemSound(item)
      BY <2>1, <3>1 DEF EmbeddingIInv
    <3> QED BY <2>1, <3>2 DEF Items
  <2>3. PICK c \in EmbedCallers : c = item.caller
    BY <2>2
  <2>4. CASE \E k \in DOMAIN gathered : Awaits(c, k)
    <3>1. PICK k \in DOMAIN gathered : Awaits(c, k)
      BY <2>4
    <3>2. k \in 1..Len(gathered) /\ k # Len(gathered) + i
      BY <1>3
    <3>3. item.n # embedCalls[c].n
      <4>1. WaitingItems[k].caller = c /\ WaitingItems[k].n = embedCalls[c].n
        BY <1>3, <3>1, <3>2 DEF Awaits
      <4>2. k \in DOMAIN WaitingItems /\ Len(gathered) + i \in DOMAIN WaitingItems
        BY <1>3, <3>2
      <4>3. WaitingItems[Len(gathered) + i].caller = c /\ WaitingItems[Len(gathered) + i].n = item.n
        BY <2>1, <2>3
      <4> QED BY <3>2, <4>1, <4>2, <4>3 DEF EmbeddingIInv, OneItem
    <3>4. embedCalls[c]'.n = embedCalls[c].n
      BY <1>5, <2>4
    <3> QED BY <1>2, <2>1, <2>2, <2>3, <3>3, <3>4 DEF ItemSound, OfPresentCall
  <2>5. CASE ~\E k \in DOMAIN gathered : Awaits(c, k)
    <3>1. embedCalls[c]' = embedCalls[c]
      BY <1>4, <2>5
    <3> QED BY <1>2, <2>1, <2>2, <2>3, <3>1 DEF ItemSound, OfPresentCall, Batched, Sent
  <2> QED BY <2>4, <2>5
<1>8. OneItem'
  <2> SUFFICES ASSUME NEW i \in DOMAIN requestQueue, NEW j \in DOMAIN requestQueue,
                      requestQueue[i].caller = requestQueue[j].caller /\ requestQueue[i].n = requestQueue[j].n
               PROVE  i = j
    BY <1>3 DEF OneItem
  <2>1. Len(gathered) + i = Len(gathered) + j
    <3>1. /\ Len(gathered) + i \in DOMAIN WaitingItems /\ WaitingItems[Len(gathered) + i] = requestQueue[i]
          /\ Len(gathered) + j \in DOMAIN WaitingItems /\ WaitingItems[Len(gathered) + j] = requestQueue[j]
      <4>1. i \in 1..Len(requestQueue) /\ j \in 1..Len(requestQueue)
        BY <1>3
      <4> QED BY <1>3, <4>1
    <3> QED BY <3>1 DEF EmbeddingIInv, OneItem
  <2>2. Len(gathered) \in Nat /\ i \in Nat /\ j \in Nat
    BY <1>3
  <2> QED BY <2>1, <2>2
<1>9. (\A i \in DOMAIN WaitingItems : ItemSound(WaitingItems[i]))'
  <2>1. \A i \in DOMAIN requestQueue : ItemSound(requestQueue[i])'
    BY <1>7
  <2> QED BY <1>2, <1>3, <2>1 DEF ItemSound, OfPresentCall
<1>10. (embedCalls = [c \in EmbedCallers |-> embedCalls[c]])'
  BY <1>1 DEF FanOut
<1>11. (service \in {"bge", "clip"} /\ callCount \in Nat /\ requestQueue \in Seq(Items) /\ gathered \in Seq(Items))'
  BY <1>2 DEF EmbeddingIInv, Items
<1>12. (\A c \in EmbedCallers : CallSound(embedCalls[c]) /\ embedCalls[c].n <= callCount)'
  BY <1>6
<1> QED BY <1>8, <1>9, <1>10, <1>11, <1>12 DEF EmbeddingIInv

LEMMA EmbeddingNextKeeps == EmbeddingIInv /\ [EmbeddingNext]_embeddingVars => EmbeddingIInv'
<1> SUFFICES ASSUME EmbeddingIInv, [EmbeddingNext]_embeddingVars PROVE EmbeddingIInv'
  OBVIOUS
<1>1. CASE TakeItem
  BY <1>1, TakeKeeps
<1>2. CASE CloseWindow \/ UNCHANGED embeddingVars
  BY <1>2, NothingKeeps
<1>3. CASE Forward
  BY <1>3, ForwardKeeps
<1>4. ASSUME NEW c \in EmbedCallers, Submit(c) PROVE EmbeddingIInv'
  BY <1>4, SubmitKeeps
<1>5. ASSUME NEW c \in EmbedCallers, Reply(c) \/ ReplyError(c) \/ DownloadFails(c) PROVE EmbeddingIInv'
  BY <1>5, ReplyKeeps
<1>6. ASSUME NEW c \in EmbedCallers, Call(c) PROVE EmbeddingIInv'
  BY <1>6, CallKeeps
<1>7. ASSUME NEW c \in EmbedCallers, CallTimeout(c) PROVE EmbeddingIInv'
  BY <1>7, TimeoutKeeps
<1> QED BY <1>1, <1>2, <1>3, <1>4, <1>5, <1>6, <1>7 DEF EmbeddingNext, EmbeddingStep

\* Whoever shares a forward pass and whatever part of a call is repeated, a
\* call that succeeds has the vectors of its inputs, in their order
\* (_scheduler_loop of bge/api.py and clip/api.py, call_model).
THEOREM EmbeddingOwnVectors == EmbeddingSpec => []OwnVectors
<1>1. EmbeddingIInv => OwnVectors
  BY DEF EmbeddingIInv, OwnVectors, CallSound
<1> QED BY <1>1, EmbeddingInitially, EmbeddingNextKeeps, PTL DEF EmbeddingSpec

-----------------------------------------------------------------------------
(* PipelineWorker: every chunk with its own vector.                         *)

Embeddings == [chunk : Nat, dim : {Dim, Dim + 1}, finite : BOOLEAN]

\* An answer that lists the vectors in order, or backwards, is put in order.
OneWay(data, n) ==
    /\ DOMAIN data = 1..n
    /\ (\A k \in 1..n : data[k].index = k) \/ (\A k \in 1..n : data[k].index = n - k + 1)

SortedAs(data, n) == \A i \in 1..n : \E k \in 1..n : Vectors(data)[i] = data[k].vector /\ data[k].index = i

LEMMA SortedByIndex ==
  ASSUME NEW n \in Nat, NEW data, OneWay(data, n)
  PROVE  SortedAs(data, n)
<1> USE DEF OneWay
<1> DEFINE below(k) == {j \in 1..n : data[j].index < data[k].index}
<1>1. ASSUME NEW k \in 1..n PROVE Place(data, k) = data[k].index
  <2>1. CASE \A j \in 1..n : data[j].index = j
    <3>1. below(k) = 1..(k - 1)
      BY <2>1
    <3>2. Cardinality(1..(k - 1)) = k - 1
      BY FS_Interval
    <3> HIDE DEF below
    <3>3. Place(data, k) = 1 + Cardinality(below(k))
      BY DEF Place, below
    <3> QED BY <2>1, <3>1, <3>2, <3>3
  <2>2. CASE \A j \in 1..n : data[j].index = n - j + 1
    <3>1. below(k) = (k + 1)..n
      BY <2>2
    <3>2. Cardinality((k + 1)..n) = n - k
      BY FS_Interval
    <3>4. data[k].index = n - k + 1
      BY <2>2
    <3> HIDE DEF below
    <3>3. Place(data, k) = 1 + Cardinality(below(k))
      BY DEF Place, below
    <3> QED BY <3>1, <3>2, <3>3, <3>4
  <2> QED BY <2>1, <2>2
<1>2. SUFFICES ASSUME NEW i \in 1..n PROVE \E k \in 1..n : Vectors(data)[i] = data[k].vector /\ data[k].index = i
  BY DEF SortedAs
<1>3. \E k \in 1..n : Place(data, k) = i
  <2>1. CASE \A j \in 1..n : data[j].index = j
    BY <1>1, <2>1
  <2>2. CASE \A j \in 1..n : data[j].index = n - j + 1
    <3>1. n - i + 1 \in 1..n /\ n - (n - i + 1) + 1 = i
      OBVIOUS
    <3> QED BY <1>1, <2>2, <3>1
  <2> QED BY <2>1, <2>2
<1>4. PICK k \in 1..n : k = CHOOSE j \in DOMAIN data : Place(data, j) = i
  BY <1>3
<1>5. Place(data, k) = i
  BY <1>3, <1>4
<1>6. Vectors(data)[i] = data[k].vector
  BY <1>4 DEF Vectors
<1> QED BY <1>1, <1>5, <1>6

\* What an accepted answer holds: the vector of each chunk of the batch, in its order.
LEMMA AcceptedPlaced ==
  ASSUME NEW batch \in Seq(Nat), batch # <<>>, NEW data \in Answers(batch), Len(data) = Len(batch)
  PROVE  /\ Vectors(data) \in Seq(Embeddings) /\ Len(Vectors(data)) = Len(batch)
         /\ \A i \in 1..Len(batch) : Vectors(data)[i].chunk = batch[i]
<1> DEFINE n == Len(batch)
           Listed(dim, finite) == [i \in DOMAIN batch |-> Item(i, Vector(batch[i], dim, finite))]
<1>1. n \in Nat /\ n > 0 /\ DOMAIN batch = 1..n /\ \A i \in 1..n : batch[i] \in Nat
  OBVIOUS
<1>2. PICK dim \in {Dim, Dim + 1}, finite \in BOOLEAN :
          data = Listed(dim, finite) \/ data = Reverse(Listed(dim, finite)) \/ data = Tail(Listed(dim, finite))
  <2>1. Answers(batch) \subseteq {Listed(Dim, TRUE), Listed(Dim + 1, TRUE), Listed(Dim, FALSE), Tail(Listed(Dim, TRUE))}
                                 \cup {Reverse(Listed(Dim, TRUE))}
    BY DEF Answers
  <2> HIDE DEF Listed
  <2> QED BY <2>1
<1>3. DOMAIN Listed(dim, finite) = 1..n /\ Listed(dim, finite) \in Seq([index : Nat, vector : Embeddings])
      /\ Len(Listed(dim, finite)) = n
      /\ \A i \in 1..n : Listed(dim, finite)[i].index = i /\ Listed(dim, finite)[i].vector.chunk = batch[i]
                         /\ Listed(dim, finite)[i].vector \in Embeddings
  BY <1>1 DEF Item, Vector, Embeddings
<1> DEFINE list == Listed(dim, finite)
<1> HIDE DEF Listed, n
<1>4. CASE data = list
  <2>1. DOMAIN data = 1..n /\ \A k \in 1..n : data[k].index = k
    BY <1>3, <1>4
  <2>2. \A i \in 1..n : \E k \in 1..n : Vectors(data)[i] = data[k].vector /\ data[k].index = i
    <3>1. OneWay(data, n)
      BY <2>1 DEF OneWay
    <3>2. SortedAs(data, n)
      BY <1>1, <3>1, SortedByIndex
    <3> QED BY <3>2 DEF SortedAs
  <2>3. ASSUME NEW i \in 1..n PROVE Vectors(data)[i] \in Embeddings /\ Vectors(data)[i].chunk = batch[i]
    <3>1. PICK k \in 1..n : Vectors(data)[i] = data[k].vector /\ data[k].index = i
      BY <2>2
    <3>2. k = i /\ data[i].vector \in Embeddings /\ data[i].vector.chunk = batch[i]
      BY <1>3, <1>4, <2>1, <3>1
    <3> QED BY <3>1, <3>2
  <2>4. Vectors(data) = [i \in 1..n |-> Vectors(data)[i]]
    BY <2>1 DEF Vectors
  <2>5. Vectors(data) \in Seq(Embeddings) /\ Len(Vectors(data)) = n
    BY <1>1, <2>3, <2>4
  <2> QED BY <2>3, <2>5 DEF n
<1>5. CASE data = Reverse(list)
  <2>1. DOMAIN data = 1..n /\ \A k \in 1..n : data[k] = list[n - k + 1]
    BY <1>3, <1>5 DEF Reverse
  <2>2. \A k \in 1..n : n - k + 1 \in 1..n /\ data[k].index = n - k + 1
    BY <1>1, <1>3, <2>1
  <2>3. \A i \in 1..n : \E k \in 1..n : Vectors(data)[i] = data[k].vector /\ data[k].index = i
    <3>1. OneWay(data, n)
      BY <2>1, <2>2 DEF OneWay
    <3>2. SortedAs(data, n)
      BY <1>1, <3>1, SortedByIndex
    <3> QED BY <3>2 DEF SortedAs
  <2>4. ASSUME NEW i \in 1..n PROVE Vectors(data)[i] \in Embeddings /\ Vectors(data)[i].chunk = batch[i]
    <3>1. PICK k \in 1..n : Vectors(data)[i] = data[k].vector /\ data[k].index = i
      BY <2>3
    <3>2. data[k] = list[i] /\ i \in 1..n
      BY <1>1, <2>1, <2>2, <3>1
    <3> QED BY <1>3, <3>1, <3>2
  <2>5. Vectors(data) = [i \in 1..n |-> Vectors(data)[i]]
    BY <2>1 DEF Vectors
  <2>6. Vectors(data) \in Seq(Embeddings) /\ Len(Vectors(data)) = n
    BY <1>1, <2>4, <2>5
  <2> QED BY <2>4, <2>6 DEF n
<1>6. CASE data = Tail(list)
  <2>1. Len(data) = n - 1
    BY <1>1, <1>3, <1>6
  <2> QED BY <1>1, <2>1 DEF n
<1> QED BY <1>2, <1>4, <1>5, <1>6

-----------------------------------------------------------------------------
\* Products: those below a bound are those of the factors below one.
LEMMA Products ==
  ASSUME NEW size \in Nat \ {0}, NEW k \in Nat, NEW b \in Nat, k <= b
  PROVE  k * size \in Nat /\ b * size \in Nat /\ k * size <= b * size /\ k <= k * size
         /\ (k + 1) * size = k * size + size
  OBVIOUS

\* The batches of n chunks are numbered from 1.
LEMMA BatchNumbers ==
  ASSUME NEW n \in Nat, NEW size \in Nat \ {0}
  PROVE  \E m \in Nat : /\ Batches(n, size) = 1..m
                        /\ m = 0 => n = 0
                        /\ m > 0 => (m - 1) * size < n /\ n <= m * size
<1> DEFINE S == {b \in 0..n : \A k \in 1..b : (k - 1) * size < n}
<1>1. CASE n = 0
  <2>1. Batches(n, size) = 1..0
    BY <1>1 DEF Batches
  <2>2. 0 \in Nat /\ ~(0 > 0)
    OBVIOUS
  <2> QED BY <1>1, <2>1, <2>2
<1>2. CASE n > 0
  <2> DEFINE T == {b \in Nat : b > 0 /\ n <= b * size}
  <2>1. n \in T
    BY <1>2, Products
  <2>2. PICK m \in T : \A b \in T : m <= b
    BY <2>1, LeastNatural
  <2>3. m \in Nat /\ m > 0 /\ n <= m * size /\ m <= n
    BY <2>1, <2>2
  <2>4. (m - 1) * size < n
    <3>1. CASE m = 1
      <4>1. (m - 1) * size = 0
        BY <3>1
      <4> QED BY <1>2, <4>1
    <3>2. CASE m # 1
      <4>1. m - 1 \in Nat /\ m - 1 > 0 /\ ~(m <= m - 1)
        BY <2>3, <3>2
      <4>2. m - 1 \notin T
        BY <2>2, <4>1
      <4>3. (m - 1) * size \in Nat
        BY <4>1, Products
      <4> QED BY <4>1, <4>2, <4>3
    <3> QED BY <3>1, <3>2
  <2>5. ASSUME NEW b \in 1..n PROVE (b - 1) * size < n <=> b <= m
    <3>1. CASE b <= m
      <4>1. b - 1 \in Nat /\ m - 1 \in Nat /\ b - 1 <= m - 1
        BY <2>3, <3>1
      <4>2. (b - 1) * size <= (m - 1) * size /\ (b - 1) * size \in Nat /\ (m - 1) * size \in Nat
        BY <4>1, Products
      <4> QED BY <2>4, <3>1, <4>2
    <3>2. CASE b > m
      <4>1. b - 1 \in Nat /\ m <= b - 1
        BY <2>3, <3>2
      <4>2. m * size <= (b - 1) * size /\ (b - 1) * size \in Nat /\ m * size \in Nat
        BY <2>3, <4>1, Products
      <4> QED BY <2>3, <3>2, <4>2
    <3> QED BY <2>3, <3>1, <3>2
  <2>6. Batches(n, size) = 1..m
    <3>1. Batches(n, size) = {b \in 1..n : b <= m}
      BY <2>5 DEF Batches
    <3> QED BY <2>3, <3>1
  <2> QED BY <2>3, <2>4, <2>6
<1> QED BY <1>1, <1>2

\* A batch, and what it should be answered with.
BatchLength(b, n, size) == IF b * size <= n THEN size ELSE n - (b - 1) * size
BatchPlaced(vectors, b, n, size) ==
    /\ vectors \in Seq(Embeddings) /\ Len(vectors) = BatchLength(b, n, size)
    /\ \A i \in 1..Len(vectors) : vectors[i].chunk = (b - 1) * size + i

LEMMA BatchTyped ==
  ASSUME NEW n \in Nat, NEW size \in Nat \ {0}, NEW b \in Batches(n, size)
  PROVE  /\ b \in Nat /\ b >= 1 /\ (b - 1) * size \in Nat /\ (b - 1) * size < n
         /\ BatchLength(b, n, size) \in Nat /\ BatchLength(b, n, size) >= 1
         /\ BatchOf(b, n, size) \in Seq(Nat) /\ Len(BatchOf(b, n, size)) = BatchLength(b, n, size)
         /\ \A i \in 1..BatchLength(b, n, size) : BatchOf(b, n, size)[i] = (b - 1) * size + i
<1>1. b \in Nat /\ b >= 1 /\ (b - 1) * size < n /\ b - 1 \in Nat
  BY DEF Batches
<1>2. PICK p \in Nat : p = (b - 1) * size /\ b * size = p + size
  BY <1>1, Products
<1>3. BatchLength(b, n, size) = IF p + size <= n THEN size ELSE n - p
  BY <1>2 DEF BatchLength
<1>4. BatchOf(b, n, size) = [i \in 1..(IF p + size <= n THEN size ELSE n - p) |-> p + i]
  <2>1. p + 1 + size - 1 = p + size /\ n - (p + 1) + 1 = n - p /\ \A i \in Nat : p + 1 + i - 1 = p + i
    OBVIOUS
  <2>2. BatchOf(b, n, size) = [i \in 1..(IF p + 1 + size - 1 <= n THEN size ELSE n - (p + 1) + 1) |-> p + 1 + i - 1]
    BY <1>2 DEF BatchOf
  <2> QED BY <2>1, <2>2
<1>5. BatchLength(b, n, size) \in Nat /\ BatchLength(b, n, size) >= 1
  BY <1>1, <1>2, <1>3
<1> QED BY <1>1, <1>2, <1>3, <1>4, <1>5

AllPlaced(ordered, n, size) ==
    DOMAIN ordered = Batches(n, size) /\ \A b \in Batches(n, size) : BatchPlaced(ordered[b], b, n, size)
InPlace(vectors) == vectors \in Seq(Embeddings) /\ \A i \in DOMAIN vectors : vectors[i].chunk = i

\* Put together in the order of the batches, the answers pair each chunk with its own vector.
LEMMA PutTogether ==
  ASSUME NEW n \in Nat, NEW size \in Nat \ {0}, NEW ordered, AllPlaced(ordered, n, size)
  PROVE  InPlace(FlattenSeq([b \in 1..Cardinality(DOMAIN ordered) |-> ordered[b]]))
<1> USE DEF AllPlaced
<1>1. PICK m \in Nat : /\ Batches(n, size) = 1..m
                       /\ m = 0 => n = 0
                       /\ m > 0 => (m - 1) * size < n /\ n <= m * size
  BY BatchNumbers
<1>2. Cardinality(DOMAIN ordered) = m
  BY <1>1, FS_Interval
<1> DEFINE parts == [b \in 1..m |-> ordered[b]]
<1>3. parts \in Seq(Seq(Embeddings)) /\ Len(parts) = m
  <2>1. PICK E : E = Seq(Embeddings)
    OBVIOUS
  <2>2. \A b \in 1..m : ordered[b] \in E
    BY <1>1, <2>1 DEF BatchPlaced
  <2> QED BY <2>1, <2>2
<1>4. PICK g \in [0..m -> Seq(Embeddings)] :
         g[0] = <<>> /\ (\A b \in 1..m : g[b] = g[b - 1] \o parts[b]) /\ FlattenSeq(parts) = g[m]
  <2> HIDE DEF parts
  <2> QED BY <1>3, FlattenedInTurn
<1> DEFINE S == {b \in 0..m : /\ Len(g[b]) = IF b * size <= n THEN b * size ELSE n
                              /\ \A i \in 1..Len(g[b]) : g[b][i].chunk = i}
<1>5. 0 \in S
  BY <1>4
<1>6. ASSUME NEW b \in 1..m, b - 1 \in S PROVE b \in S
  <2>1. b \in Batches(n, size) /\ BatchPlaced(parts[b], b, n, size)
    BY <1>1
  <2>2. b - 1 \in Nat /\ (b - 1) * size \in Nat /\ (b - 1) * size < n /\ b * size = (b - 1) * size + size
    <3>1. b - 1 \in Nat /\ b = (b - 1) + 1
      OBVIOUS
    <3>2. ((b - 1) + 1) * size = (b - 1) * size + size
      BY <3>1, Products
    <3> QED BY <2>1, <3>1, <3>2, BatchTyped
  <2>3. PICK p \in Nat : p = (b - 1) * size
    BY <2>2
  <2>4. PICK before \in Seq(Embeddings) : before = g[b - 1] /\ Len(before) = p /\ \A i \in 1..p : before[i].chunk = i
    <3>1. b - 1 \in 0..m
      OBVIOUS
    <3>2. Len(g[b - 1]) = p
      BY <1>6, <2>2, <2>3
    <3> QED BY <1>4, <1>6, <2>3, <3>1, <3>2
  <2>5. PICK part \in Seq(Embeddings) :
           /\ part = parts[b] /\ Len(part) = IF p + size <= n THEN size ELSE n - p
           /\ \A i \in 1..Len(part) : part[i].chunk = p + i
    BY <2>1, <2>2, <2>3 DEF BatchPlaced, BatchLength
  <2>6. g[b] = before \o part
    BY <1>4, <2>4, <2>5
  <2>7. Len(g[b]) = p + Len(part) /\ \A i \in 1..(p + Len(part)) : g[b][i].chunk = i
    <3>0. Len(part) \in Nat /\ Len(before) \in Nat /\ Len(before \o part) = Len(before) + Len(part)
          /\ \A i \in 1..(Len(before) + Len(part)) :
                (before \o part)[i] = IF i <= Len(before) THEN before[i] ELSE part[i - Len(before)]
      OBVIOUS
    <3>1. Len(g[b]) = p + Len(part)
      BY <2>4, <2>6, <3>0
    <3>2. ASSUME NEW i \in 1..(p + Len(part)) PROVE g[b][i].chunk = i
      <4>1. CASE i <= p
        BY <2>4, <2>6, <4>1
      <4>2. CASE i > p
        <5>1. i - p \in 1..Len(part) /\ p + (i - p) = i
          BY <4>2
        <5>2. g[b][i] = part[i - p]
          <6>1. i \in 1..(Len(before) + Len(part)) /\ ~(i <= Len(before))
            BY <2>4, <4>2
          <6>2. (before \o part)[i] = part[i - Len(before)]
            BY <3>0, <6>1
          <6> QED BY <2>4, <2>6, <6>2
        <5> QED BY <2>5, <5>1, <5>2
      <4> QED BY <4>1, <4>2
    <3> QED BY <3>1, <3>2
  <2>8. Len(g[b]) = IF b * size <= n THEN b * size ELSE n
    BY <2>2, <2>3, <2>5, <2>7
  <2>9. b \in 0..m
    OBVIOUS
  <2> HIDE DEF parts
  <2> QED BY <2>7, <2>8, <2>9
<1>7. m \in 0..m
  OBVIOUS
<1> HIDE DEF S
<1>8. m \in S
  BY <1>5, <1>6, <1>7, CountingUp
<1>9. Len(g[m]) = n /\ \A i \in 1..Len(g[m]) : g[m][i].chunk = i
  <2>1. Len(g[m]) = (IF m * size <= n THEN m * size ELSE n) /\ \A i \in 1..Len(g[m]) : g[m][i].chunk = i
    BY <1>8 DEF S
  <2>2. m = 0 => m * size = 0
    OBVIOUS
  <2>3. m * size \in Nat
    BY Products
  <2> QED BY <1>1, <2>1, <2>2, <2>3
<1>10. FlattenSeq([b \in 1..Cardinality(DOMAIN ordered) |-> ordered[b]]) = g[m] /\ g[m] \in Seq(Embeddings)
  BY <1>2, <1>4, <1>7
<1>11. PICK flat : flat = g[m]
  OBVIOUS
<1>12. flat \in Seq(Embeddings) /\ DOMAIN flat = 1..Len(flat) /\ \A i \in 1..Len(flat) : flat[i].chunk = i
  BY <1>9, <1>10, <1>11
<1>13. InPlace(flat)
  BY <1>12 DEF InPlace
<1> QED BY <1>10, <1>11, <1>13

-----------------------------------------------------------------------------
WorkFields == {"status", "request", "stages", "dim", "at", "skip", "pages", "chunks", "frames", "vectors",
               "scratch", "ocred", "answer"}

\* The stages of a request are of its size.
Sized(w) ==
    w.request.transform # "inline" =>
        \A i \in DOMAIN w.stages : w.stages[i].type = "chunk" =>
            /\ w.stages[i].max = IF w.request.transform = "none" /\ ChunkSize(w.request) # DefaultSize
                                 THEN ChunkSize(w.request) ELSE OwnSize(w.request)
            /\ w.stages[i].overlap < w.stages[i].max

Paired(w) ==
    w.status = "done" /\ ~w.skip =>
        /\ Len(w.answer) = (IF w.request.source = "inline_text" THEN 1 ELSE w.chunks) /\ w.chunks > 0
        /\ \A i \in DOMAIN w.answer : /\ w.answer[i].chunk = i /\ w.answer[i].finite
                                      /\ w.dim # 0 => w.answer[i].dim = w.dim

WorkAccounted(w) ==
    /\ DOMAIN w = WorkFields
    /\ Sized(w) /\ w.pages \in Seq(Nat) /\ w.chunks \in Nat /\ w.frames \in Nat
    /\ InPlace(w.vectors) /\ Paired(w)

EmbeddingFields == {"how", "count", "size", "sent", "under", "ordered", "tries"}

\* What was answered so far is in its place.
BatchesPlaced(e) ==
    /\ DOMAIN e = EmbeddingFields
    /\ e.count \in Nat /\ e.size \in Nat \ {0}
    /\ e.under \subseteq Batches(e.count, e.size) /\ DOMAIN e.ordered = Batches(e.count, e.size)
    /\ \A b \in Batches(e.count, e.size) : e.ordered[b] = Missing \/ BatchPlaced(e.ordered[b], b, e.count, e.size)

WorkerIInv ==
    /\ transforms = BUILTIN_TRANSFORMS
    /\ work.status \in {"running", "failed", "done"} => WorkAccounted(work)
    /\ embedding # NoEmbedding => work.status = "running" /\ BatchesPlaced(embedding)

LEMMA WorkerInitially == WorkerInit => WorkerIInv
  BY DEF WorkerInit, WorkerIInv, NoWork

\* The built-in transforms have chunks of their own sizes.
LEMMA BuiltInSizes ==
  ASSUME NEW t \in DOMAIN BUILTIN_TRANSFORMS, NEW i \in DOMAIN BUILTIN_TRANSFORMS[t].stages,
         BUILTIN_TRANSFORMS[t].stages[i].type = "chunk"
  PROVE  /\ BUILTIN_TRANSFORMS[t].stages[i].max = IF t = "pdf" THEN DefaultSize ELSE ParagraphSize
         /\ BUILTIN_TRANSFORMS[t].stages[i].overlap = IF t = "pdf" THEN DefaultOverlap ELSE ParagraphOverlap
<1>1. t \in {"pdf", "video", "image", "word", "text"}
  BY DEF BUILTIN_TRANSFORMS
<1>2. ASSUME NEW doctype, NEW max, NEW overlap,
             BUILTIN_TRANSFORMS[t].stages = <<ExtractStage(doctype, "paddleocr"), ChunkStage(max, overlap), Stage("embed")>>
      PROVE  BUILTIN_TRANSFORMS[t].stages[i].max = max /\ BUILTIN_TRANSFORMS[t].stages[i].overlap = overlap
  <2>1. i \in 1..3
    BY <1>2
  <2> QED BY <1>2, <2>1 DEF ExtractStage, ChunkStage, Stage
<1>3. CASE t = "pdf"
  <2>1. BUILTIN_TRANSFORMS[t].stages = <<ExtractStage("pdf", "paddleocr"), ChunkStage(DefaultSize, DefaultOverlap), Stage("embed")>>
    BY <1>3 DEF BUILTIN_TRANSFORMS
  <2> QED BY <1>2, <1>3, <2>1
<1>4. CASE t = "word"
  <2>1. BUILTIN_TRANSFORMS[t].stages = <<ExtractStage("auto", "paddleocr"), ChunkStage(ParagraphSize, ParagraphOverlap), Stage("embed")>>
    BY <1>4 DEF BUILTIN_TRANSFORMS
  <2> QED BY <1>2, <1>4, <2>1
<1>5. CASE t = "text"
  <2>1. BUILTIN_TRANSFORMS[t].stages = <<ExtractStage("text", "paddleocr"), ChunkStage(ParagraphSize, ParagraphOverlap), Stage("embed")>>
    BY <1>5 DEF BUILTIN_TRANSFORMS
  <2> QED BY <1>2, <1>5, <2>1
<1>6. CASE t = "video"
  <2>1. BUILTIN_TRANSFORMS[t].stages = <<Stage("extract_frames"), Stage("image_embed")>>
    BY <1>6 DEF BUILTIN_TRANSFORMS
  <2>2. i \in 1..2
    BY <2>1
  <2> QED BY <2>1, <2>2 DEF Stage
<1>7. CASE t = "image"
  <2>1. BUILTIN_TRANSFORMS[t].stages = <<Stage("image_embed")>>
    BY <1>7 DEF BUILTIN_TRANSFORMS
  <2>2. i = 1
    BY <2>1
  <2> QED BY <2>1, <2>2 DEF Stage
<1> QED BY <1>1, <1>3, <1>4, <1>5, <1>6, <1>7

\* Every name is accepted by one of them, or by none.
LEMMA DefaultFits ==
  ASSUME transforms = BUILTIN_TRANSFORMS, NEW q
  PROVE  LET t == DefaultTransform(q)
             kinds == {"video", "image", "docx", "doc", "text"}
         IN  /\ t \in DOMAIN BUILTIN_TRANSFORMS
             /\ t \notin {"video", "image"} =>
                    (t = "pdf") = (q.name = "pdf" \/ (q.name \notin kinds /\ q.source # "inline_text"))
             /\ q.name \in {"video", "image"} => t \in {"video", "image"}
<1>1. PICK T : T = BUILTIN_TRANSFORMS
  OBVIOUS
<1>2. DOMAIN T = {"pdf", "video", "image", "word", "text"}
  BY <1>1 DEF BUILTIN_TRANSFORMS
<1>3. /\ T["pdf"].accepts = {"pdf"} /\ T["video"].accepts = {"video"} /\ T["image"].accepts = {"image"}
      /\ T["word"].accepts = {"docx", "doc"} /\ T["text"].accepts = {"text"}
  BY <1>1 DEF BUILTIN_TRANSFORMS
<1>4. /\ T["pdf"].priority = 10 /\ T["video"].priority = 15 /\ T["image"].priority = 20
      /\ T["word"].priority = 25 /\ T["text"].priority = 30
  BY <1>1 DEF BUILTIN_TRANSFORMS
<1>5. PICK fit : fit = {t \in DOMAIN T : q.name \in T[t].accepts}
  OBVIOUS
<1>6. PICK picked : picked = PickTransform(q.name)
  OBVIOUS
<1>7. picked = {t \in fit : \A u \in fit : T[t].priority <= T[u].priority}
  BY <1>1, <1>5, <1>6 DEF PickTransform
<1>8. fit \subseteq {"pdf", "video", "image", "word", "text"} /\ \A t \in DOMAIN T : t \in fit <=> q.name \in T[t].accepts
  BY <1>2, <1>5
<1>9. DefaultTransform(q) = IF picked # {} THEN CHOOSE t \in picked : TRUE
                            ELSE IF q.source = "inline_text" THEN "text" ELSE "pdf"
  BY <1>6 DEF DefaultTransform
<1>10. /\ "pdf" \in fit <=> q.name = "pdf"
       /\ "video" \in fit <=> q.name = "video"
       /\ "image" \in fit <=> q.name = "image"
       /\ "word" \in fit <=> q.name \in {"docx", "doc"}
       /\ "text" \in fit <=> q.name = "text"
  BY <1>2, <1>3, <1>8
<1>11. CASE fit = {}
  <2>1. picked = {} /\ q.name \notin {"pdf", "video", "image", "docx", "doc", "text"}
    BY <1>7, <1>10, <1>11
  <2> QED BY <1>1, <1>2, <1>9, <2>1
<1>12. CASE fit # {}
  <2>1. PICK t : fit = {t}
    <3>1. PICK t \in fit : TRUE
      BY <1>12
    <3>2. ASSUME NEW u \in fit PROVE u = t
      <4>1. t \in {"pdf", "video", "image", "word", "text"} /\ u \in {"pdf", "video", "image", "word", "text"}
        BY <1>8
      <4> QED BY <1>10, <4>1
    <3> QED BY <3>1, <3>2
  <2>2. T[t].priority \in Nat
    BY <1>4, <1>8, <2>1
  <2>3. picked = {t}
    BY <1>7, <2>1, <2>2
  <2>4. DefaultTransform(q) = t
    BY <1>9, <2>3
  <2> QED BY <1>1, <1>2, <1>8, <1>10, <2>1, <2>4
<1> QED BY <1>11, <1>12

LEMMA StagesSized ==
  ASSUME transforms = BUILTIN_TRANSFORMS, NEW q \in Requests, Acceptable(q), q.transform # "inline",
         NEW i \in DOMAIN StagesOf(q), StagesOf(q)[i].type = "chunk"
  PROVE  /\ StagesOf(q)[i].max = IF q.transform = "none" /\ ChunkSize(q) # DefaultSize THEN ChunkSize(q) ELSE OwnSize(q)
         /\ StagesOf(q)[i].overlap < StagesOf(q)[i].max
<1>1. /\ DefaultOverlap \in Nat /\ DefaultSize \in Nat /\ DefaultOverlap < DefaultSize
      /\ ParagraphOverlap \in Nat /\ ParagraphSize \in Nat /\ ParagraphOverlap < ParagraphSize
  BY WorkerAssumption
<1>2. PICK t : t = IF q.transform = "none" THEN DefaultTransform(q) ELSE q.transform
  OBVIOUS
<1>3. PICK stages : stages = BUILTIN_TRANSFORMS[t].stages
  OBVIOUS
<1>4. t \in DOMAIN BUILTIN_TRANSFORMS
  BY <1>2, DefaultFits DEF Acceptable
<1>5. \A k \in DOMAIN stages : stages[k].type = "chunk" =>
          /\ stages[k].max = IF t = "pdf" THEN DefaultSize ELSE ParagraphSize
          /\ stages[k].overlap = IF t = "pdf" THEN DefaultOverlap ELSE ParagraphOverlap
  BY <1>3, <1>4, BuiltInSizes
<1>6. \A k \in DOMAIN stages : stages[k].type = "chunk" => t \notin {"video", "image"}
  <2>1. ASSUME NEW k \in DOMAIN stages, t \in {"video", "image"} PROVE stages[k].type # "chunk"
    <3>1. stages = <<Stage("extract_frames"), Stage("image_embed")>> \/ stages = <<Stage("image_embed")>>
      BY <1>3, <2>1 DEF BUILTIN_TRANSFORMS
    <3>2. k \in 1..2
      BY <2>1, <3>1
    <3>3. stages[k] = Stage("extract_frames") \/ stages[k] = Stage("image_embed")
      BY <2>1, <3>1, <3>2
    <3> QED BY <3>3 DEF Stage
  <2> QED BY <2>1
<1>7. t \notin {"video", "image"} => OwnSize(q) = IF t = "pdf" THEN DefaultSize ELSE ParagraphSize
  <2>1. CASE q.transform = "none"
    BY <1>2, <2>1, DefaultFits DEF OwnSize
  <2>2. CASE q.transform # "none"
    BY <1>2, <2>2 DEF OwnSize
  <2> QED BY <2>1, <2>2
<1>8. ChunkSize(q) \in Nat \ {0}
  BY WorkerAssumption DEF ChunkSize
<1>9. CASE ~(q.transform = "none" /\ ChunkSize(q) # DefaultSize)
  <2>1. StagesOf(q) = stages
    BY <1>2, <1>3, <1>9 DEF StagesOf
  <2> QED BY <1>1, <1>5, <1>6, <1>7, <1>9, <2>1
<1>10. CASE q.transform = "none" /\ ChunkSize(q) # DefaultSize
  <2>1. StagesOf(q) = Resized(stages, ChunkSize(q))
    BY <1>2, <1>3, <1>10 DEF StagesOf
  <2>2. i \in DOMAIN stages /\ stages[i].type = "chunk"
    BY <2>1 DEF Resized
  <2>3. StagesOf(q)[i] = ChunkStage(ChunkSize(q), IF stages[i].overlap < ChunkSize(q) THEN stages[i].overlap ELSE ChunkSize(q) - 1)
    BY <2>1, <2>2 DEF Resized
  <2>4. stages[i].overlap \in Nat
    BY <1>1, <1>5, <2>2
  <2> QED BY <1>8, <1>10, <2>3, <2>4 DEF ChunkStage
<1> QED BY <1>9, <1>10

LEMMA ProcessKeeps ==
  ASSUME WorkerIInv, NEW q \in Requests, Process(q) \/ ProcessBlob(q)
  PROVE  WorkerIInv'
<1>1. work.status # "running" /\ UNCHANGED <<transforms, embedding>> /\ embedding = NoEmbedding
  BY DEF Process, ProcessBlob, WorkerIInv
<1>2. CASE Process(q) /\ Acceptable(q)
  <2>1. PICK w : w = Started(q)
    OBVIOUS
  <2>2. work' = w
    BY <1>2, <2>1 DEF Process
  <2>3. Sized(w)
    <3>1. w.request = q /\ w.stages = StagesOf(q)
      BY <2>1 DEF Started
    <3> QED BY <1>2, <3>1, StagesSized DEF Sized, WorkerIInv
  <2>4. WorkAccounted(w)
    <3>1. DOMAIN w = WorkFields /\ w.pages = <<>> /\ w.chunks = 0 /\ w.frames = 0 /\ w.vectors = <<>> /\ w.status = "running"
      BY <2>1 DEF Started, WorkFields
    <3> QED BY <2>3, <3>1 DEF WorkAccounted, InPlace, Paired
  <2>5. WorkAccounted(work)'
    BY <2>2, <2>4 DEF WorkAccounted, Sized, InPlace, Paired
  <2> QED BY <1>1, <2>5 DEF WorkerIInv
<1>3. CASE ~(Process(q) /\ Acceptable(q))
  <2>1. work'.status \in {"refused", "error"}
    BY <1>3 DEF Process, ProcessBlob
  <2> QED BY <1>1, <2>1 DEF WorkerIInv
<1> QED BY <1>2, <1>3

\* A stage ends, or the request fails.
LEMMA AdvanceKeeps ==
  ASSUME WorkerIInv, embedding = NoEmbedding, NEW w, WorkAccounted(w), w.status = "running", Advance(w)
  PROVE  WorkerIInv'
<1>1. PICK next : next = [w EXCEPT !.at = @ + 1]
  OBVIOUS
<1>2. WorkAccounted(next)
  BY <1>1 DEF WorkAccounted, WorkFields, Sized, InPlace, Paired
<1>3. work' = next /\ UNCHANGED <<transforms, embedding>>
  BY <1>1 DEF Advance
<1>4. WorkAccounted(work)'
  BY <1>2, <1>3 DEF WorkAccounted, Sized, InPlace, Paired
<1> QED BY <1>3, <1>4 DEF WorkerIInv

LEMMA FailKeeps ==
  ASSUME WorkerIInv, NEW w, WorkAccounted(w), Fail(w)
  PROVE  WorkerIInv'
<1>1. PICK next : next = [w EXCEPT !.status = "failed", !.scratch = Cleaned(w)]
  OBVIOUS
<1>2. WorkAccounted(next)
  BY <1>1 DEF WorkAccounted, WorkFields, Sized, InPlace, Paired
<1>3. work' = next /\ transforms' = transforms /\ embedding' = NoEmbedding
  BY <1>1 DEF Fail
<1>4. WorkAccounted(work)'
  BY <1>2, <1>3 DEF WorkAccounted, Sized, InPlace, Paired
<1>5. (embedding = NoEmbedding)'
  BY <1>3 DEF NoEmbedding
<1> QED BY <1>3, <1>4, <1>5 DEF WorkerIInv

LEMMA StagesKeep ==
  ASSUME WorkerIInv,
         \/ SkipStage \/ ExtractText \/ ExtractWord \/ ExtractPdf \/ ExtractFails \/ CaptionImage \/ ExtractFrames
         \/ SplitChunks \/ ChunkRefused \/ EmbedRefused \/ EmbedImagesFails
  PROVE  WorkerIInv'
<1>1. /\ work.status = "running" /\ embedding = NoEmbedding /\ WorkAccounted(work)
      /\ work.pages \in Seq(Nat) /\ work.chunks \in Nat /\ work.frames \in Nat /\ DOMAIN work = WorkFields
  BY DEF WorkerIInv, WorkAccounted, SkipStage, ExtractText, ExtractWord, ExtractPdf, ExtractFails, CaptionImage,
         ExtractFrames, SplitChunks, ChunkRefused, EmbedRefused, EmbedImagesFails, AtStage
<1> DEFINE Context(w) == WorkAccounted(w) /\ w.status = "running"
<1>2. ASSUME NEW w, Context(w), Advance(w) \/ Fail(w) PROVE WorkerIInv'
  BY <1>1, <1>2, AdvanceKeeps, FailKeeps
<1>3. Context(work)
  BY <1>1
<1>4. ASSUME NEW length \in Nat, NEW scratch, NEW ocred
      PROVE  /\ Context([work EXCEPT !.pages = <<length>>])
             /\ Context([work EXCEPT !.pages = <<length>>, !.chunks = 1])
             /\ Context([work EXCEPT !.scratch = scratch])
             /\ Context([work EXCEPT !.pages = <<length>>, !.scratch = scratch])
             /\ Context([[work EXCEPT !.scratch = scratch] EXCEPT !.pages = <<length>>, !.ocred = ocred])
             /\ Context([work EXCEPT !.frames = length])
  BY <1>1 DEF WorkAccounted, WorkFields, Sized, InPlace, Paired
<1>5. ASSUME NEW n \in Nat, NEW skip PROVE Context([work EXCEPT !.chunks = n, !.skip = skip])
  BY <1>1 DEF WorkAccounted, WorkFields, Sized, InPlace, Paired
<1>6. MaxLength \in Nat /\ MaxFrames \in Nat /\ 1 \in Nat
  BY WorkerAssumption
<1> HIDE DEF Context
<1>7. CASE SkipStage
  BY <1>2, <1>3, <1>7 DEF SkipStage
<1>8. CASE ExtractFails \/ ChunkRefused \/ EmbedRefused \/ EmbedImagesFails
  BY <1>2, <1>3, <1>8 DEF ExtractFails, ChunkRefused, EmbedRefused, EmbedImagesFails
<1>9. CASE ExtractText
  <2>1. PICK length \in 0..MaxLength : Advance([work EXCEPT !.pages = <<length>>])
    BY <1>9 DEF ExtractText
  <2>2. PICK w : w = [work EXCEPT !.pages = <<length>>]
    OBVIOUS
  <2>3. length \in Nat
    BY <1>6
  <2> QED BY <1>2, <1>4, <2>1, <2>2, <2>3
<1>10. CASE ExtractWord
  <2>1. PICK scratch : \/ \E length \in 0..MaxLength : Advance([work EXCEPT !.pages = <<length>>, !.scratch = scratch])
                       \/ Fail([work EXCEPT !.scratch = scratch])
    BY <1>10 DEF ExtractWord
  <2>2. CASE Fail([work EXCEPT !.scratch = scratch])
    <3>1. PICK w : w = [work EXCEPT !.scratch = scratch]
      OBVIOUS
    <3> QED BY <1>2, <1>4, <1>6, <2>2, <3>1
  <2>3. CASE \E length \in 0..MaxLength : Advance([work EXCEPT !.pages = <<length>>, !.scratch = scratch])
    <3>1. PICK length \in 0..MaxLength : Advance([work EXCEPT !.pages = <<length>>, !.scratch = scratch])
      BY <2>3
    <3>2. PICK w : w = [work EXCEPT !.pages = <<length>>, !.scratch = scratch]
      OBVIOUS
    <3>3. length \in Nat
      BY <1>6
    <3> QED BY <1>2, <1>4, <3>1, <3>2, <3>3
  <2> QED BY <2>1, <2>2, <2>3
<1>11. CASE ExtractPdf
  <2>1. PICK scratch : \/ \E page \in Pages : \E ocred :
                              Advance([[work EXCEPT !.scratch = scratch] EXCEPT !.pages = <<PageLength(page)>>, !.ocred = ocred])
                       \/ Fail([work EXCEPT !.scratch = scratch])
    BY <1>11 DEF ExtractPdf
  <2>2. CASE Fail([work EXCEPT !.scratch = scratch])
    <3>1. PICK w : w = [work EXCEPT !.scratch = scratch]
      OBVIOUS
    <3> QED BY <1>2, <1>4, <1>6, <2>2, <3>1
  <2>3. ASSUME NEW page \in Pages, NEW ocred,
               Advance([[work EXCEPT !.scratch = scratch] EXCEPT !.pages = <<PageLength(page)>>, !.ocred = ocred])
        PROVE  WorkerIInv'
    <3>1. PICK length \in Nat : length = PageLength(page)
      BY <1>6 DEF PageLength, Pages
    <3>2. PICK w : w = [[work EXCEPT !.scratch = scratch] EXCEPT !.pages = <<length>>, !.ocred = ocred]
      OBVIOUS
    <3> QED BY <1>2, <1>4, <2>3, <3>1, <3>2
  <2> QED BY <2>1, <2>2, <2>3
<1>12. CASE CaptionImage
  <2>1. PICK w : w = [work EXCEPT !.pages = <<1>>, !.chunks = 1]
    OBVIOUS
  <2> QED BY <1>2, <1>4, <1>6, <1>12, <2>1 DEF CaptionImage
<1>13. CASE ExtractFrames
  <2>1. CASE Fail(work)
    BY <1>2, <1>3, <2>1
  <2>2. CASE \E n \in 1..MaxFrames : Advance([work EXCEPT !.frames = n])
    <3>1. PICK n \in 1..MaxFrames : Advance([work EXCEPT !.frames = n])
      BY <2>2
    <3>2. PICK w : w = [work EXCEPT !.frames = n]
      OBVIOUS
    <3>3. n \in Nat
      BY <1>6
    <3> QED BY <1>2, <1>4, <3>1, <3>2, <3>3
  <2> QED BY <1>13, <2>1, <2>2 DEF ExtractFrames
<1>14. CASE SplitChunks
  <2>1. PICK n \in ChunkCounts(FullLength, UnderWay.max) : Advance([work EXCEPT !.chunks = n, !.skip = (n = 0)])
    BY <1>14 DEF SplitChunks
  <2>2. PICK total \in Nat : total = FullLength
    <3>1. Summed(work.pages) \in Nat
      BY <1>1, SummedNumbers
    <3> QED BY <3>1 DEF FullLength, Summed
  <2>3. n \in Nat
    BY <2>1, <2>2 DEF ChunkCounts
  <2>4. PICK skip : skip = (n = 0)
    OBVIOUS
  <2>5. PICK w : w = [work EXCEPT !.chunks = n, !.skip = skip]
    OBVIOUS
  <2> QED BY <1>2, <1>5, <2>1, <2>3, <2>4, <2>5
<1> QED BY <1>7, <1>8, <1>9, <1>10, <1>11, <1>12, <1>13, <1>14

\* Nothing of a stage that begins was answered yet.
LEMMA StartKeeps ==
  ASSUME WorkerIInv, work.status = "running", NEW how, NEW n \in Nat, NEW size \in Nat \ {0}, StartEmbedding(how, n, size)
  PROVE  WorkerIInv'
<1>1. PICK e : e = [how |-> how, count |-> n, size |-> size, sent |-> 0, under |-> {},
                    ordered |-> [b \in Batches(n, size) |-> Missing], tries |-> [b \in Batches(n, size) |-> 0]]
  OBVIOUS
<1>2. BatchesPlaced(e)
  BY <1>1 DEF BatchesPlaced, EmbeddingFields
<1>3. embedding' = e /\ UNCHANGED <<transforms, work>>
  BY <1>1 DEF StartEmbedding
<1>4. BatchesPlaced(embedding)'
  BY <1>2, <1>3 DEF BatchesPlaced, BatchPlaced, Embeddings
<1> QED BY <1>3, <1>4 DEF WorkerIInv, WorkAccounted, Sized, InPlace, Paired

LEMMA EmbedKeeps ==
  ASSUME WorkerIInv, EmbedChunks \/ EmbedImages
  PROVE  WorkerIInv'
<1>1. work.status = "running" /\ work.chunks \in Nat /\ work.frames \in Nat
  BY DEF EmbedChunks, EmbedImages, AtStage, WorkerIInv, WorkAccounted
<1>2. BatchSize \in Nat \ {0} /\ 1 \in Nat \ {0}
  BY WorkerAssumption
<1>3. CASE EmbedChunks
  <2>1. PICK n \in Nat, size \in Nat \ {0} : n = work.chunks /\ size = BatchSize
    BY <1>1, <1>2
  <2>2. StartEmbedding("direct", n, size) \/ StartEmbedding("router", n, size)
    BY <1>3, <2>1 DEF EmbedChunks
  <2> QED BY <1>1, <2>2, StartKeeps
<1>4. CASE EmbedImages
  <2>1. PICK n \in Nat : n = IF work.frames > 0 THEN work.frames ELSE 1
    BY <1>1
  <2>2. StartEmbedding("clip", n, 1)
    BY <1>4, <2>1 DEF EmbedImages
  <2> QED BY <1>1, <1>2, <2>2, StartKeeps
<1> QED BY <1>3, <1>4

LEMMA EmbeddingMoves ==
  ASSUME WorkerIInv, embedding # NoEmbedding, NEW e, BatchesPlaced(e), embedding' = e, UNCHANGED <<transforms, work>>
  PROVE  WorkerIInv'
<1>1. BatchesPlaced(embedding)'
  BY DEF BatchesPlaced, BatchPlaced, Embeddings
<1> QED BY <1>1 DEF WorkerIInv, WorkAccounted, Sized, InPlace, Paired

LEMMA FailedBatchKeeps ==
  ASSUME WorkerIInv, embedding # NoEmbedding, BatchFails
  PROVE  WorkerIInv'
<1>1. work.status = "running" /\ WorkAccounted(work) /\ embedding.count \in Nat /\ embedding.size \in Nat \ {0}
  BY DEF WorkerIInv, BatchesPlaced
<1>2. StartEmbedding("router", embedding.count, embedding.size) \/ Fail(work)
  BY DEF BatchFails
<1>3. PICK n \in Nat, size \in Nat \ {0} : n = embedding.count /\ size = embedding.size
  BY <1>1
<1>4. CASE StartEmbedding("router", n, size)
  BY <1>1, <1>4, StartKeeps
<1>5. PICK w : w = work
  OBVIOUS
<1>6. CASE Fail(work)
  BY <1>1, <1>5, <1>6, FailKeeps
<1> QED BY <1>2, <1>3, <1>4, <1>6

LEMMA ReceiveKeeps ==
  ASSUME WorkerIInv, NEW b, Send \/ Receive(b) \/ ReceiveError(b) \/ Retry(b)
  PROVE  WorkerIInv'
<1>1. embedding # NoEmbedding
  BY DEF Send, Receive, ReceiveError, Retry
<1>2. PICK e : e = embedding
  OBVIOUS
<1>3. BatchesPlaced(e) /\ DOMAIN e = EmbeddingFields
  BY <1>1, <1>2 DEF WorkerIInv, BatchesPlaced
<1>4. CASE Send
  <2>1. PICK next : next = [e EXCEPT !.sent = e.sent + 1, !.under = @ \cup {e.sent + 1}]
    OBVIOUS
  <2>2. e.sent + 1 \in Batches(e.count, e.size) /\ embedding' = next /\ UNCHANGED <<transforms, work>>
    BY <1>2, <1>3, <1>4, <2>1 DEF Send, BatchesPlaced
  <2>3. BatchesPlaced(next)
    BY <1>3, <2>1, <2>2 DEF BatchesPlaced, EmbeddingFields
  <2> QED BY <1>1, <2>2, <2>3, EmbeddingMoves
<1>5. CASE Retry(b)
  <2>1. PICK next : next = [e EXCEPT !.tries[b] = @ + 1]
    OBVIOUS
  <2>2. embedding' = next /\ UNCHANGED <<transforms, work>>
    BY <1>2, <1>5, <2>1 DEF Retry
  <2>3. BatchesPlaced(next)
    BY <1>3, <2>1 DEF BatchesPlaced, EmbeddingFields
  <2> QED BY <1>1, <2>2, <2>3, EmbeddingMoves
<1>6. CASE ReceiveError(b)
  BY <1>1, <1>6, FailedBatchKeeps DEF ReceiveError
<1>7. CASE Receive(b) /\ BatchFails
  BY <1>1, <1>7, FailedBatchKeeps
<1>8. CASE Receive(b) /\ ~BatchFails
  <2>1. PICK batch : batch = BatchOf(b, e.count, e.size)
    OBVIOUS
  <2>2. b \in e.under
    BY <1>2, <1>8 DEF Receive
  <2>3. PICK data \in Answers(batch) : Len(data) = Len(batch) /\ BatchAnswered(b, data)
    BY <1>2, <1>8, <2>1 DEF Receive, Accepted
  <2>4. PICK n \in Nat, size \in Nat \ {0} : n = e.count /\ size = e.size
    BY <1>3 DEF BatchesPlaced
  <2>5. b \in Batches(n, size)
    BY <1>3, <2>2, <2>4 DEF BatchesPlaced
  <2>6. batch \in Seq(Nat) /\ batch # <<>> /\ Len(batch) = BatchLength(b, n, size)
        /\ \A i \in 1..Len(batch) : batch[i] = (b - 1) * size + i
    <3>1. batch \in Seq(Nat) /\ Len(batch) = BatchLength(b, n, size) /\ BatchLength(b, n, size) >= 1
          /\ \A i \in 1..BatchLength(b, n, size) : batch[i] = (b - 1) * size + i
      BY <2>1, <2>4, <2>5, BatchTyped, SMTT(40)
    <3>2. Len(<<>>) = 0
      OBVIOUS
    <3> QED BY <3>1, <3>2
  <2>7. BatchPlaced(Vectors(data), b, n, size)
    <3>1. /\ Vectors(data) \in Seq(Embeddings) /\ Len(Vectors(data)) = Len(batch)
          /\ \A i \in 1..Len(batch) : Vectors(data)[i].chunk = batch[i]
      BY <2>3, <2>6, AcceptedPlaced
    <3> QED BY <2>6, <3>1 DEF BatchPlaced
  <2>8. PICK vectors : vectors = Vectors(data)
    OBVIOUS
  <2>9. PICK next : next = [e EXCEPT !.under = @ \ {b}, !.ordered[b] = vectors]
    OBVIOUS
  <2>10. embedding' = next /\ UNCHANGED <<transforms, work>>
    BY <1>2, <2>3, <2>8, <2>9 DEF BatchAnswered
  <2>11. BatchesPlaced(next)
    <3>1. next.count = n /\ next.size = size /\ next.under = e.under \ {b} /\ DOMAIN next = EmbeddingFields
          /\ next.ordered = [e.ordered EXCEPT ![b] = vectors]
      BY <1>3, <2>4, <2>9 DEF EmbeddingFields
    <3>2. DOMAIN e.ordered = Batches(n, size) /\ e.under \subseteq Batches(n, size)
          /\ \A x \in Batches(n, size) : e.ordered[x] = Missing \/ BatchPlaced(e.ordered[x], x, n, size)
      BY <1>3, <2>4 DEF BatchesPlaced
    <3>3. ASSUME NEW x \in Batches(n, size) PROVE next.ordered[x] = Missing \/ BatchPlaced(next.ordered[x], x, n, size)
      <4>1. next.ordered[x] = IF x = b THEN vectors ELSE e.ordered[x]
        BY <3>1, <3>2
      <4> QED BY <2>7, <2>8, <3>2, <4>1
    <3> QED BY <3>1, <3>2, <3>3 DEF BatchesPlaced
  <2> QED BY <1>1, <2>10, <2>11, EmbeddingMoves
<1> QED BY <1>4, <1>5, <1>6, <1>7, <1>8

LEMMA CollectKeeps ==
  ASSUME WorkerIInv, Collect
  PROVE  WorkerIInv'
<1>1. PICK e, w : e = embedding /\ w = work
  OBVIOUS
<1>2. /\ w.status = "running" /\ WorkAccounted(w) /\ DOMAIN e.ordered = Batches(e.count, e.size)
      /\ e.count \in Nat /\ e.size \in Nat \ {0}
      /\ \A b \in Batches(e.count, e.size) : BatchPlaced(e.ordered[b], b, e.count, e.size)
  BY <1>1 DEF Collect, WorkerIInv, BatchesPlaced
<1>3. PICK all : all = FlattenSeq([b \in 1..Cardinality(DOMAIN e.ordered) |-> e.ordered[b]])
  OBVIOUS
<1>4. PICK n, size, ordered : /\ n \in Nat /\ size \in Nat \ {0}
                               /\ n = e.count /\ size = e.size /\ ordered = e.ordered
  BY <1>2
<1>5. InPlace(all)
  <2>1. AllPlaced(ordered, n, size)
    BY <1>2, <1>4 DEF AllPlaced
  <2>2. InPlace(FlattenSeq([b \in 1..Cardinality(DOMAIN ordered) |-> ordered[b]]))
    BY <1>4, <2>1, PutTogether
  <2> QED BY <1>3, <1>4, <2>2
<1>6. PICK next : next = [w EXCEPT !.vectors = all, !.chunks = IF e.how = "clip" THEN n ELSE @, !.at = @ + 1]
  OBVIOUS
<1>7. WorkAccounted(next)
  <2>2. next.vectors = all /\ next.status = "running" /\ next.chunks \in Nat /\ DOMAIN next = WorkFields
    BY <1>2, <1>4, <1>6 DEF WorkAccounted, WorkFields
  <2>3. next.request = w.request /\ next.stages = w.stages /\ next.pages = w.pages /\ next.frames = w.frames
    BY <1>2, <1>6 DEF WorkAccounted, WorkFields
  <2>4. Sized(next)
    BY <1>2, <2>3 DEF WorkAccounted, Sized
  <2>5. Paired(next)
    BY <2>2 DEF Paired
  <2> QED BY <1>2, <1>5, <2>2, <2>3, <2>4, <2>5 DEF WorkAccounted
<1>8. work' = next /\ embedding' = NoEmbedding /\ transforms' = transforms
  BY <1>1, <1>3, <1>4, <1>6 DEF Collect, Concatenated
<1>9. WorkAccounted(work)' /\ (embedding = NoEmbedding)'
  BY <1>7, <1>8 DEF WorkAccounted, Sized, InPlace, Paired, NoEmbedding
<1> QED BY <1>8, <1>9 DEF WorkerIInv

LEMMA FinishKeeps ==
  ASSUME WorkerIInv, Finish
  PROVE  WorkerIInv'
<1>1. PICK w : w = work
  OBVIOUS
<1>2. w.status = "running" /\ WorkAccounted(w) /\ embedding = NoEmbedding
  BY <1>1 DEF Finish, WorkerIInv
<1>3. CASE Fail(w)
  BY <1>2, <1>3, FailKeeps
<1>4. CASE ~Fail(w)
  <2>1. PICK next : next = [w EXCEPT !.status = "done", !.scratch = Cleaned(w),
                                     !.answer = AnswerOf(w)]
    OBVIOUS
  <2>2. work' = next /\ UNCHANGED <<transforms, embedding>> /\ (w.skip \/ Complete)
    BY <1>1, <1>4, <2>1 DEF Finish
  <2>3. DOMAIN next = WorkFields /\ next.request = w.request /\ next.stages = w.stages /\ next.pages = w.pages
        /\ next.chunks = w.chunks /\ next.frames = w.frames /\ next.vectors = w.vectors /\ next.skip = w.skip
        /\ next.dim = w.dim /\ next.answer = AnswerOf(w)
    BY <1>2, <2>1 DEF WorkAccounted, WorkFields
  <2>4. Paired(next)
    <3>1. w.vectors \in Seq(Embeddings) /\ \A i \in 1..Len(w.vectors) : w.vectors[i].chunk = i
      BY <1>2 DEF WorkAccounted, InPlace
    <3>2. PICK n \in Nat : n = IF w.request.source = "inline_text" THEN 1 ELSE w.chunks
      BY <1>2 DEF WorkAccounted
    <3>3. PICK answer : answer = next.answer
      OBVIOUS
    <3>4. ASSUME ~w.skip
          PROVE  /\ Len(answer) = n /\ w.chunks > 0
                 /\ \A i \in DOMAIN answer : /\ answer[i].chunk = i /\ answer[i].finite
                                             /\ w.dim # 0 => answer[i].dim = w.dim
      <4>1. /\ w.chunks > 0 /\ Len(w.vectors) = w.chunks
            /\ \A i \in DOMAIN w.vectors : w.vectors[i].finite /\ (w.dim # 0 => w.vectors[i].dim = w.dim)
        BY <1>1, <2>2, <3>4 DEF Complete
      <4>2. CASE w.request.source # "inline_text"
        <5>1. answer = w.vectors /\ n = w.chunks
          BY <2>3, <3>2, <3>3, <3>4, <4>2 DEF AnswerOf
        <5>2. DOMAIN w.vectors = 1..Len(w.vectors)
          BY <3>1
        <5> QED BY <3>1, <4>1, <5>1, <5>2
      <4>3. CASE w.request.source = "inline_text"
        <5>1. answer = SubSeq(w.vectors, 1, 1) /\ n = 1
          BY <2>3, <3>2, <3>3, <3>4, <4>3 DEF AnswerOf
        <5>2. 1 \in 1..Len(w.vectors)
          BY <1>2, <3>1, <4>1 DEF WorkAccounted
        <5>3. Len(answer) = 1 /\ DOMAIN answer = 1..1 /\ answer[1] = w.vectors[1]
          BY <3>1, <5>1, <5>2
        <5>4. 1 \in DOMAIN w.vectors
          BY <3>1, <5>2
        <5>5. ASSUME NEW i \in DOMAIN answer
              PROVE  answer[i].chunk = i /\ answer[i].finite /\ (w.dim # 0 => answer[i].dim = w.dim)
          <6>1. i = 1
            BY <5>3
          <6> QED BY <3>1, <4>1, <5>2, <5>3, <5>4, <6>1
        <5> QED BY <4>1, <5>1, <5>3, <5>5
      <4> QED BY <4>2, <4>3
    <3>5. next.request.source = w.request.source /\ next.chunks = w.chunks /\ next.skip = w.skip /\ next.dim = w.dim
      BY <2>3
    <3>6. CASE next.skip
      BY <3>6 DEF Paired
    <3>7. CASE ~next.skip
      BY <3>2, <3>3, <3>4, <3>5, <3>7 DEF Paired
    <3> QED BY <3>6, <3>7
  <2>5. WorkAccounted(next)
    BY <1>2, <2>3, <2>4 DEF WorkAccounted, Sized
  <2>6. WorkAccounted(work)' /\ (embedding = NoEmbedding)'
    BY <1>2, <2>2, <2>5 DEF WorkAccounted, Sized, InPlace, Paired, NoEmbedding
  <2> QED BY <2>2, <2>6 DEF WorkerIInv
<1> QED BY <1>3, <1>4

LEMMA WorkerKeeps == WorkerIInv /\ [WorkerNext]_workerVars => WorkerIInv'
<1> SUFFICES ASSUME WorkerIInv, [WorkerNext]_workerVars PROVE WorkerIInv'
  OBVIOUS
<1>1. CASE UNCHANGED workerVars
  <2>1. UNCHANGED <<transforms, work, embedding>>
    BY <1>1 DEF workerVars
  <2>2. work.status \in {"running", "failed", "done"} => WorkAccounted(work)'
    BY <2>1 DEF WorkerIInv, WorkAccounted, Sized, InPlace, Paired
  <2>3. embedding # NoEmbedding => BatchesPlaced(embedding)'
    BY <2>1 DEF WorkerIInv, BatchesPlaced, BatchPlaced, Embeddings
  <2> QED BY <2>1, <2>2, <2>3 DEF WorkerIInv, NoEmbedding
<1>2. ASSUME NEW q \in Requests, Process(q) \/ ProcessBlob(q) PROVE WorkerIInv'
  BY <1>2, ProcessKeeps
<1>3. CASE \/ SkipStage \/ ExtractText \/ ExtractWord \/ ExtractPdf \/ ExtractFails \/ CaptionImage \/ ExtractFrames
           \/ SplitChunks \/ ChunkRefused \/ EmbedRefused \/ EmbedImagesFails
  BY <1>3, StagesKeep
<1>4. CASE EmbedChunks \/ EmbedImages
  BY <1>4, EmbedKeeps
<1>5. ASSUME NEW b, Send \/ Receive(b) \/ ReceiveError(b) \/ Retry(b) PROVE WorkerIInv'
  BY <1>5, ReceiveKeeps
<1>6. CASE Collect
  BY <1>6, CollectKeeps
<1>7. CASE Finish
  BY <1>7, FinishKeeps
<1> QED BY <1>1, <1>2, <1>3, <1>4, <1>5, <1>6, <1>7 DEF WorkerNext, WorkerStep

\* Whatever is requested, in whatever order its batches are answered and however
\* often they are repeated: the vector answered for a chunk was computed for it,
\* and the chunks have the size that the request gives them, or that of the
\* transform of its document where the request asks for its own default
\* (worker.py: _resolve_transform, embed_direct, _run_embed_stage,
\* _execute_pipeline).
THEOREM WorkerChunksFaithful == WorkerSpec => []ChunksFaithful
<1>1. WorkerIInv => ChunksFaithful
  BY DEF WorkerIInv, WorkAccounted, ChunksFaithful, PairsKept, SizeHonoured, Paired, Sized
<1> QED BY <1>1, WorkerInitially, WorkerKeeps, PTL DEF WorkerSpec

-----------------------------------------------------------------------------
(* Chunking: the chunks are the text.                                        *)

\* the positions of the characters that are not blank
Letters(t) == {i \in 1..Len(t) : t[i] \notin {"space", "feed"}}

Ordered(c) == \A i, j \in DOMAIN c : i < j /\ c[i] # Joint /\ c[j] # Joint => c[i] < c[j]

Before(c, d) == \A i \in DOMAIN c, j \in DOMAIN d : c[i] # Joint /\ d[j] # Joint => c[i] < d[j]

ChunkSound(c, size, f) == c \in Seq(Nat) /\ Len(c) <= size /\ Ordered(c) /\ \A i \in DOMAIN c : c[i] <= f

\* Up to f, the chunks are the text.
Sound(letters, size, cs, f) ==
    /\ cs \in Seq(Seq(Nat))
    /\ \A k \in DOMAIN cs : ChunkSound(cs[k], size, f)
    /\ \A k, l \in DOMAIN cs : k < l => Before(cs[k], cs[l])
    /\ \A i \in letters : i <= f => \E k \in DOMAIN cs : i \in ToSet(cs[k])

\* What is taken between f and g.
Part(letters, p, f, g) ==
    /\ p \in Seq(Nat) /\ Ordered(p)
    /\ \A i \in DOMAIN p : f < p[i] /\ p[i] <= g
    /\ \A i \in letters : f < i /\ i <= g => i \in ToSet(p)

LEMMA AddChunk ==
  ASSUME NEW letters \in SUBSET Nat, NEW size \in Nat, NEW cs, NEW f \in Nat, NEW g \in Nat, NEW p,
         Sound(letters, size, cs, f), Part(letters, p, f, g), f <= g, Len(p) <= size
  PROVE  Sound(letters, size, Append(cs, p), g)
<1> DEFINE N == Len(cs)
           more == Append(cs, p)
<1>1. PICK E : E = Seq(Nat)
  OBVIOUS
<1>2. cs \in Seq(E) /\ p \in E
  BY <1>1 DEF Sound, Part
<1>3. N \in Nat /\ DOMAIN cs = 1..N
  BY <1>2
<1>4. more \in Seq(E) /\ DOMAIN more = 1..(N + 1) /\ more[N + 1] = p /\ \A k \in 1..N : more[k] = cs[k]
  BY <1>2
<1> HIDE DEF more, N
<1>5. ASSUME NEW k \in 1..(N + 1) PROVE ChunkSound(more[k], size, g)
  <2>1. CASE k = N + 1
    <3>1. more[k] = p
      BY <1>4, <2>1
    <3> QED BY <3>1 DEF ChunkSound, Part
  <2>2. CASE k # N + 1
    <3>1. k \in 1..N
      BY <1>3, <2>2
    <3>2. ChunkSound(cs[k], size, f)
      BY <1>3, <3>1 DEF Sound
    <3>3. cs[k] \in Seq(Nat) /\ \A i \in DOMAIN cs[k] : cs[k][i] \in Nat
      BY <3>2 DEF ChunkSound
    <3>4. \A i \in DOMAIN cs[k] : cs[k][i] <= g
      BY <3>2, <3>3 DEF ChunkSound
    <3> QED BY <1>4, <3>1, <3>2, <3>4 DEF ChunkSound
  <2> QED BY <2>1, <2>2
<1>6. ASSUME NEW k \in 1..(N + 1), NEW l \in 1..(N + 1), k < l PROVE Before(more[k], more[l])
  <2>1. k \in 1..N
    BY <1>3, <1>6
  <2>2. CASE l = N + 1
    <3>1. ChunkSound(cs[k], size, f)
      BY <1>3, <2>1 DEF Sound
    <3>2. \A i \in DOMAIN cs[k] : cs[k][i] \in Nat /\ cs[k][i] <= f
      BY <3>1 DEF ChunkSound
    <3>3. \A j \in DOMAIN p : p[j] \in Nat /\ f < p[j]
      BY DEF Part
    <3>4. Before(cs[k], p)
      BY <3>2, <3>3 DEF Before
    <3> QED BY <1>4, <2>1, <2>2, <3>4
  <2>3. CASE l # N + 1
    <3>1. l \in 1..N
      BY <1>3, <2>3
    <3>2. Before(cs[k], cs[l])
      BY <1>3, <1>6, <2>1, <3>1 DEF Sound
    <3> QED BY <1>4, <2>1, <3>1, <3>2
  <2> QED BY <2>2, <2>3
<1>7. ASSUME NEW i \in letters, i <= g PROVE \E k \in 1..(N + 1) : i \in ToSet(more[k])
  <2>1. CASE i <= f
    <3>1. PICK k \in 1..N : i \in ToSet(cs[k])
      BY <1>3, <2>1 DEF Sound
    <3>2. k \in 1..(N + 1) /\ more[k] = cs[k]
      BY <1>3, <1>4
    <3> QED BY <3>1, <3>2
  <2>2. CASE f < i
    <3>1. i \in ToSet(p)
      BY <1>7, <2>2 DEF Part
    <3>2. N + 1 \in 1..(N + 1) /\ more[N + 1] = p
      BY <1>3, <1>4
    <3> QED BY <3>1, <3>2
  <2> QED BY <2>1, <2>2
<1>8. more \in Seq(Seq(Nat))
  BY <1>1, <1>4
<1>9. Sound(letters, size, more, g)
  BY <1>4, <1>5, <1>6, <1>7, <1>8 DEF Sound
<1> QED BY <1>9 DEF more

LEMMA Skip ==
  ASSUME NEW letters \in SUBSET Nat, NEW size \in Nat, NEW cs, NEW f \in Nat, NEW g \in Nat,
         Sound(letters, size, cs, f), f <= g, \A i \in letters : ~(f < i /\ i <= g)
  PROVE  Sound(letters, size, cs, g)
<1>1. ASSUME NEW k \in DOMAIN cs PROVE ChunkSound(cs[k], size, g)
  <2>1. ChunkSound(cs[k], size, f)
    BY DEF Sound
  <2>2. cs[k] \in Seq(Nat) /\ \A i \in DOMAIN cs[k] : cs[k][i] \in Nat
    BY <2>1 DEF ChunkSound
  <2>3. \A i \in DOMAIN cs[k] : cs[k][i] <= g
    BY <2>1, <2>2 DEF ChunkSound
  <2> QED BY <2>1, <2>3 DEF ChunkSound
<1>2. ASSUME NEW i \in letters, i <= g PROVE \E k \in DOMAIN cs : i \in ToSet(cs[k])
  <2>1. i <= f
    BY <1>2
  <2> QED BY <2>1 DEF Sound
<1> QED BY <1>1, <1>2 DEF Sound

\* The last chunk goes on, after something that joins.
LEMMA GrowPart ==
  ASSUME NEW letters \in SUBSET Nat, NEW f \in Nat, NEW g \in Nat, f <= g,
         NEW c, NEW joint, NEW p, Part(letters, p, f, g), joint \in Seq({Joint}),
         c \in Seq(Nat), Ordered(c), \A i \in DOMAIN c : c[i] <= f
  PROVE  LET d == c \o joint \o p
         IN  /\ d \in Seq(Nat) /\ Ordered(d) /\ \A i \in DOMAIN d : d[i] <= g
             /\ ToSet(c) \subseteq ToSet(d) /\ ToSet(p) \subseteq ToSet(d)
             /\ \A i \in DOMAIN d : d[i] = Joint \/ d[i] \in ToSet(c) \/ d[i] \in ToSet(p)
<1> DEFINE a == Len(c)
           b == Len(c) + Len(joint)
           n == Len(c) + Len(joint) + Len(p)
           d == c \o joint \o p
<1>1. p \in Seq(Nat) /\ joint \in Seq(Nat) /\ \A i \in DOMAIN joint : joint[i] = 0
  BY DEF Part, Joint
<1>2. d \in Seq(Nat) /\ DOMAIN d = 1..n /\ a \in Nat /\ b \in Nat /\ n \in Nat /\ a <= b /\ b <= n
  BY <1>1
<1>3. DOMAIN c = 1..a /\ DOMAIN p = 1..(n - b) /\ DOMAIN joint = 1..(b - a)
  BY <1>1
<1>4. \A i \in 1..a : d[i] = c[i]
  BY <1>1
<1>5. \A i \in 1..n : a < i /\ i <= b => d[i] = 0
  <2>1. \A i \in 1..n : a < i /\ i <= b => d[i] = joint[i - a] /\ i - a \in 1..(b - a)
    BY <1>1
  <2> QED BY <1>1, <1>3, <2>1
<1>6. \A i \in 1..n : b < i => d[i] = p[i - b] /\ i - b \in 1..(n - b)
  BY <1>1
<1>7. \A i \in 1..(n - b) : i + b \in 1..n /\ b < i + b /\ (i + b) - b = i
  BY <1>2
<1> HIDE DEF d, a, b, n
<1>8. \A i \in 1..a : c[i] \in Nat /\ c[i] <= f
  <2>1. \A i \in DOMAIN c : c[i] \in Nat
    OBVIOUS
  <2> QED BY <1>3, <2>1
<1>9. \A i \in 1..(n - b) : p[i] \in Nat /\ f < p[i] /\ p[i] <= g
  <2>1. p \in Seq(Nat)
    BY DEF Part
  <2>2. \A i \in DOMAIN p : p[i] \in Nat /\ f < p[i] /\ p[i] <= g
    BY <2>1 DEF Part
  <2> QED BY <1>3, <2>2
<1>10. \A i \in 1..n : d[i] <= g
  <2> TAKE i \in 1..n
  <2>1. CASE i <= a
    <3>1. i \in 1..a
      BY <1>2, <2>1
    <3> QED BY <1>4, <1>8, <3>1
  <2>2. CASE a < i /\ i <= b
    BY <1>5, <2>2
  <2>3. CASE b < i
    BY <1>6, <1>9, <2>3
  <2> QED BY <1>2, <2>1, <2>2, <2>3
<1>11. ASSUME NEW i \in 1..n, NEW j \in 1..n, i < j, d[i] # Joint, d[j] # Joint PROVE d[i] < d[j]
  <2>1. (i <= a \/ b < i) /\ (j <= a \/ b < j)
    BY <1>2, <1>5, <1>11 DEF Joint
  <2>2. CASE j <= a
    <3>1. i \in 1..a /\ j \in 1..a
      BY <1>2, <1>11, <2>2
    <3> QED BY <1>3, <1>4, <1>11, <3>1 DEF Ordered
  <2>3. CASE i <= a /\ b < j
    <3>1. i \in 1..a /\ d[i] = c[i] /\ d[j] = p[j - b] /\ j - b \in 1..(n - b)
      BY <1>2, <1>4, <1>6, <2>3
    <3> QED BY <1>8, <1>9, <3>1
  <2>4. CASE b < i
    <3>1. b < j
      BY <1>2, <1>11, <2>4
    <3>2. d[i] = p[i - b] /\ d[j] = p[j - b] /\ i - b \in 1..(n - b) /\ j - b \in 1..(n - b)
      BY <1>6, <2>4, <3>1
    <3>3. i - b < j - b
      BY <1>2, <1>11
    <3>4. Ordered(p)
      BY DEF Part
    <3> QED BY <1>3, <1>11, <3>2, <3>3, <3>4 DEF Ordered
  <2> QED BY <1>2, <1>11, <2>1, <2>2, <2>3, <2>4
<1>12. ToSet(c) \subseteq ToSet(d)
  <2>1. \A i \in 1..a : i \in 1..n
    BY <1>2
  <2> QED BY <1>2, <1>3, <1>4, <2>1 DEF ToSet
<1>13. ToSet(p) \subseteq ToSet(d)
  <2> SUFFICES ASSUME NEW i \in 1..(n - b) PROVE p[i] \in ToSet(d)
    BY <1>3 DEF ToSet
  <2>1. i + b \in 1..n /\ b < i + b /\ (i + b) - b = i
    BY <1>7
  <2>2. d[i + b] = p[i]
    <3>1. d[i + b] = p[(i + b) - b]
      BY <1>6, <2>1
    <3> QED BY <2>1, <3>1
  <2> QED BY <1>2, <2>1, <2>2 DEF ToSet
<1>14. \A i \in 1..n : d[i] = Joint \/ d[i] \in ToSet(c) \/ d[i] \in ToSet(p)
  <2> TAKE i \in 1..n
  <2>1. CASE i <= a
    <3>1. i \in 1..a
      BY <1>2, <2>1
    <3> QED BY <1>3, <1>4, <3>1 DEF ToSet
  <2>2. CASE a < i /\ i <= b
    BY <1>5, <2>2 DEF Joint
  <2>3. CASE b < i
    BY <1>3, <1>6, <2>3 DEF ToSet
  <2> QED BY <1>2, <2>1, <2>2, <2>3
<1>15. Ordered(d)
  BY <1>2, <1>11 DEF Ordered
<1>16. d = c \o joint \o p
  BY DEF d
<1> QED BY <1>2, <1>10, <1>12, <1>13, <1>14, <1>15, <1>16

LEMMA Grow ==
  ASSUME NEW letters \in SUBSET Nat, NEW size \in Nat, NEW cs \in Seq(Seq(Nat)), NEW c \in Seq(Nat), NEW f \in Nat, NEW g \in Nat, f <= g,
         Sound(letters, size, Append(cs, c), f), NEW p, Part(letters, p, f, g), NEW joint \in Seq({Joint}),
         Len(c \o joint \o p) <= size
  PROVE  Sound(letters, size, Append(cs, c \o joint \o p), g)
<1> DEFINE N == Len(cs)
           less == Append(cs, c)
           d == c \o joint \o p
           more == Append(cs, d)
<1>1. PICK E : E = Seq(Nat)
  OBVIOUS
<1>2. cs \in Seq(E) /\ c \in E
  BY <1>1
<1>3. N \in Nat /\ DOMAIN less = 1..(N + 1) /\ less[N + 1] = c /\ \A k \in 1..N : less[k] = cs[k]
  BY <1>2
<1>4. ChunkSound(c, size, f)
  <2>1. N + 1 \in DOMAIN less
    BY <1>3
  <2> HIDE DEF less
  <2>2. Sound(letters, size, less, f)
    BY DEF less
  <2> QED BY <1>3, <2>1, <2>2 DEF Sound
<1>5. /\ d \in Seq(Nat) /\ Ordered(d) /\ \A i \in DOMAIN d : d[i] <= g
      /\ ToSet(c) \subseteq ToSet(d) /\ ToSet(p) \subseteq ToSet(d)
      /\ \A i \in DOMAIN d : d[i] = Joint \/ d[i] \in ToSet(c) \/ d[i] \in ToSet(p)
  <2>1. c \in Seq(Nat) /\ Ordered(c) /\ \A i \in DOMAIN c : c[i] <= f
    BY <1>4 DEF ChunkSound
  <2> QED BY <2>1, GrowPart
<1>6. Len(d) <= size
  OBVIOUS
<1> HIDE DEF d
<1>7. more \in Seq(E) /\ DOMAIN more = 1..(N + 1) /\ more[N + 1] = d /\ \A k \in 1..N : more[k] = cs[k]
  BY <1>1, <1>2, <1>5
<1>8. Sound(letters, size, less, f)
  OBVIOUS
<1> HIDE DEF more, less, N
<1>9. ASSUME NEW k \in 1..N PROVE ChunkSound(cs[k], size, f) /\ k \in 1..(N + 1) /\ N + 1 \in 1..(N + 1) /\ k < N + 1
  <2>1. k \in 1..(N + 1)  /\ N + 1 \in 1..(N + 1) /\ k < N + 1
    BY <1>3
  <2> QED BY <1>3, <1>8, <2>1 DEF Sound
<1>10. ASSUME NEW k \in 1..(N + 1) PROVE ChunkSound(more[k], size, g)
  <2>1. CASE k = N + 1
    BY <1>5, <1>6, <1>7, <2>1 DEF ChunkSound
  <2>2. CASE k # N + 1
    <3>1. k \in 1..N
      BY <1>3, <2>2
    <3>2. ChunkSound(cs[k], size, f)
      BY <1>9, <3>1
    <3>3. cs[k] \in Seq(Nat) /\ \A i \in DOMAIN cs[k] : cs[k][i] \in Nat
      BY <3>2, SMTT(40) DEF ChunkSound
    <3>4. \A i \in DOMAIN cs[k] : cs[k][i] <= g
      BY <3>2, <3>3 DEF ChunkSound
    <3> QED BY <1>7, <3>1, <3>2, <3>4 DEF ChunkSound
  <2> QED BY <2>1, <2>2
<1>11. ASSUME NEW k \in 1..(N + 1), NEW l \in 1..(N + 1), k < l PROVE Before(more[k], more[l])
  <2>1. k \in 1..N
    BY <1>3, <1>11
  <2>2. CASE l = N + 1
    <3>1. Before(cs[k], c)
      BY <1>3, <1>8, <1>9, <2>1 DEF Sound
    <3>2. \A i \in DOMAIN cs[k] : cs[k][i] \in Nat /\ cs[k][i] <= f
      <4>1. cs[k] \in Seq(Nat) /\ \A i \in DOMAIN cs[k] : cs[k][i] <= f
        BY <1>9, <2>1 DEF ChunkSound
      <4>2. \A u \in Seq(Nat) : \A i \in DOMAIN u : u[i] \in Nat
        OBVIOUS
      <4> QED BY <4>1, <4>2
    <3>3. \A x \in ToSet(p) : x \in Nat /\ f < x
      BY DEF Part, ToSet
    <3>4. ASSUME NEW i \in DOMAIN cs[k], NEW j \in DOMAIN d, cs[k][i] # Joint, d[j] # Joint PROVE cs[k][i] < d[j]
      <4>1. CASE d[j] \in ToSet(c)
        <5>1. PICK x \in DOMAIN c : c[x] = d[j]
          BY <4>1 DEF ToSet
        <5> QED BY <3>1, <3>4, <5>1 DEF Before
      <4>2. CASE d[j] \in ToSet(p)
        BY <3>2, <3>3, <4>2
      <4> QED BY <1>5, <3>4, <4>1, <4>2
    <3>5. Before(cs[k], d)
      BY <3>4 DEF Before
    <3> QED BY <1>7, <2>1, <2>2, <3>5
  <2>3. CASE l # N + 1
    <3>1. l \in 1..N
      BY <1>3, <2>3
    <3>2. Before(less[k], less[l])
      BY <1>3, <1>8, <1>9, <1>11, <2>1, <3>1 DEF Sound
    <3> QED BY <1>3, <1>7, <2>1, <3>1, <3>2
  <2> QED BY <2>2, <2>3
<1>12. ASSUME NEW i \in letters, i <= g PROVE \E k \in 1..(N + 1) : i \in ToSet(more[k])
  <2>1. N + 1 \in 1..(N + 1) /\ more[N + 1] = d
    BY <1>3, <1>7
  <2>2. CASE i <= f
    <3>1. PICK k \in 1..(N + 1) : i \in ToSet(less[k])
      BY <1>3, <1>8, <2>2 DEF Sound
    <3>2. CASE k = N + 1
      BY <1>3, <1>5, <2>1, <3>1, <3>2
    <3>3. CASE k # N + 1
      <4>1. k \in 1..N
        BY <1>3, <3>3
      <4>2. less[k] = more[k]
        BY <1>3, <1>7, <4>1
      <4> QED BY <3>1, <4>2
    <3> QED BY <3>2, <3>3
  <2>3. CASE f < i
    <3>1. i \in ToSet(p)
      BY <1>12, <2>3 DEF Part
    <3> QED BY <1>5, <2>1, <3>1
  <2> QED BY <2>2, <2>3
<1>13. more \in Seq(Seq(Nat))
  BY <1>1, <1>7
<1>14. Sound(letters, size, more, g)
  BY <1>7, <1>10, <1>11, <1>12, <1>13 DEF Sound
<1> QED BY <1>14 DEF more, d

\* A stretch of the text that leaves nothing behind it.
LEMMA PositionsPart ==
  ASSUME NEW letters \in SUBSET Nat, NEW f \in Nat, NEW from \in Nat, NEW to \in Nat, f <= from, from <= to,
         \A i \in letters : ~(f < i /\ i <= from)
  PROVE  Part(letters, Positions(from, to), f, to) /\ Len(Positions(from, to)) = to - from
<1> DEFINE p == Positions(from, to)
<1>1. p \in Seq(Nat) /\ DOMAIN p = 1..(to - from) /\ Len(p) = to - from /\ \A i \in 1..(to - from) : p[i] = from + i
  BY DEF Positions
<1> HIDE DEF p
<1>2. \A i \in DOMAIN p : f < p[i] /\ p[i] <= to
  BY <1>1
<1>3. Ordered(p)
  BY <1>1 DEF Ordered
<1>4. ASSUME NEW i \in letters, f < i, i <= to PROVE i \in ToSet(p)
  <2>1. i - from \in 1..(to - from) /\ from + (i - from) = i
    BY <1>4
  <2> QED BY <1>1, <2>1 DEF ToSet
<1>5. Part(letters, p, f, to)
  BY <1>1, <1>2, <1>3, <1>4 DEF Part
<1> QED BY <1>1, <1>5 DEF p

\* HardSplit has enough chunks, and no more.
LEMMA Rounds ==
  ASSUME NEW s \in Nat \ {0}, NEW len \in Nat, len > 0
  PROVE  LET q == (len + s - 1) \div s
         IN  q \in Nat \ {0} /\ q * s >= len /\ \A n \in 1..q : n * s \in Nat /\ (n - 1) * s \in Nat /\ (n - 1) * s < len
                                                             /\ (n - 1) * s + s = n * s
<1> DEFINE q == (len + s - 1) \div s
<1>1. q \in Nat /\ q * s <= len + s - 1 /\ len + s - 1 < q * s + s
  OBVIOUS
<1> HIDE DEF q
<1>2. q # 0
  BY <1>1
<1>3. ASSUME NEW n \in 1..q PROVE n * s \in Nat /\ (n - 1) * s \in Nat /\ (n - 1) * s + s = n * s
  BY <1>1
<1>4. ASSUME NEW n \in 1..q PROVE n * s <= q * s
  BY <1>1
<1> QED BY <1>1, <1>2, <1>3, <1>4 DEF q

LEMMA AddPieces ==
  ASSUME NEW letters \in SUBSET Nat, NEW s \in Nat \ {0}, NEW cs, NEW f \in Nat, NEW from \in Nat, NEW to \in Nat, f <= from, from < to,
         \A i \in letters : ~(f < i /\ i <= from), Sound(letters, s, cs, f), setting.size = s
  PROVE  Sound(letters, s, cs \o HardSplit(Positions(from, to)), to)
<1> DEFINE len == to - from
           q == (len + s - 1) \div s
           p == Positions(from, to)
           parts == HardSplit(p)
           end(n) == from + Lesser(n * s, len)
           S == {n \in 0..q : Sound(letters, s, cs \o SubSeq(parts, 1, n), IF n = 0 THEN f ELSE end(n))}
<1>1. PICK E : E = Seq(Nat)
  OBVIOUS
<1>2. len \in Nat /\ len > 0
  OBVIOUS
<1>3. q \in Nat \ {0} /\ q * s >= len /\ \A n \in 1..q : n * s \in Nat /\ (n - 1) * s \in Nat /\ (n - 1) * s < len
                                                             /\ (n - 1) * s + s = n * s
  BY <1>2, Rounds
<1>4. p \in Seq(Nat) /\ Len(p) = len /\ \A i \in 1..len : p[i] = from + i
  BY DEF Positions
<1>5. parts = [n \in 1..q |-> SubSeq(p, (n - 1) * s + 1, Lesser(n * s, len))]
  BY <1>4 DEF HardSplit
<1> HIDE DEF q, p, parts, len
<1>6. ASSUME NEW n \in 1..q
      PROVE  /\ parts[n] = Positions(from + (n - 1) * s, end(n)) /\ parts[n] \in Seq(Nat)
             /\ end(n) \in Nat /\ from + (n - 1) * s \in Nat /\ from + (n - 1) * s < end(n) /\ end(n) <= to
             /\ end(n) - (from + (n - 1) * s) <= s /\ (n # 1 => end(n - 1) = from + (n - 1) * s)
  <2>1. PICK a \in Nat : a = (n - 1) * s
    BY <1>3
  <2>2. PICK b \in Nat : b = Lesser(n * s, len)
    BY <1>2, <1>3 DEF Lesser
  <2>3. a < b /\ b <= len /\ b - a <= s
    BY <1>2, <1>3, <2>1, <2>2 DEF Lesser
  <2>4. parts[n] = SubSeq(p, a + 1, b)
    BY <1>5, <2>1, <2>2
  <2>5. SubSeq(p, a + 1, b) = [i \in 1..(b - a) |-> p[a + i]]
    BY <1>4, <2>3
  <2>6. \A i \in 1..(b - a) : p[a + i] = from + (a + i)
    BY <1>2, <1>4, <2>3
  <2>7. Positions(from + a, from + b) = [i \in 1..(b - a) |-> (from + a) + i]
    BY DEF Positions
  <2>8. parts[n] = Positions(from + a, from + b)
    <3>1. \A i \in 1..(b - a) : p[a + i] = (from + a) + i
      BY <2>6
    <3>2. SubSeq(p, a + 1, b) = [i \in 1..(b - a) |-> (from + a) + i]
      BY <2>5, <3>1
    <3> QED BY <2>4, <2>7, <3>2
  <2>9. SubSeq(p, a + 1, b) \in Seq(Nat)
    BY <1>4, <2>3
  <2>10. n # 1 => Lesser((n - 1) * s, len) = a
    BY <1>2, <1>3, <2>1 DEF Lesser
  <2>11. from + b <= to
    BY <2>3 DEF len
  <2>12. end(n) = from + b /\ (n # 1 => end(n - 1) = from + a)
    BY <2>2, <2>10
  <2> HIDE DEF end
  <2>13. from + b \in Nat /\ from + a \in Nat /\ from + a < from + b /\ (from + b) - (from + a) <= s
    BY <2>3
  <2> QED BY <2>1, <2>4, <2>8, <2>9, <2>11, <2>12, <2>13
<1>7. parts \in Seq(E) /\ Len(parts) = q /\ cs \in Seq(E)
  <2>1. \A n \in 1..q : parts[n] \in E
    BY <1>1, <1>6
  <2>2. DOMAIN parts = 1..q /\ parts = [n \in 1..q |-> parts[n]]
    BY <1>5
  <2>3. parts \in Seq(E) /\ Len(parts) = q
    BY <1>3, <2>1, <2>2
  <2>4. cs \in Seq(Seq(Nat))
    BY DEF Sound
  <2> QED BY <1>1, <2>3, <2>4
<1>8. 0 \in S
  <2>1. SubSeq(parts, 1, 0) = <<>> /\ cs \o <<>> = cs
    BY <1>7
  <2>2. 0 \in 0..q
    BY <1>3
  <2> QED BY <2>1, <2>2
<1>9. ASSUME NEW n \in 1..q, n - 1 \in S PROVE n \in S
  <2>1. SubSeq(parts, 1, n) = Append(SubSeq(parts, 1, n - 1), parts[n]) /\ SubSeq(parts, 1, n - 1) \in Seq(E) /\ parts[n] \in E
    BY <1>7, PrefixGrowsBy
  <2>2. cs \o SubSeq(parts, 1, n) = Append(cs \o SubSeq(parts, 1, n - 1), parts[n])
    BY <1>7, <2>1, AppendOfConcat
  <2>3. PICK cc : cc = cs \o SubSeq(parts, 1, n - 1)
    OBVIOUS
  <2>4. PICK g \in Nat : g = from + (n - 1) * s
    BY <1>6
  <2>5. PICK h \in Nat : h = end(n)
    BY <1>6
  <2>6. g < h /\ h - g <= s /\ parts[n] = Positions(g, h)
    BY <1>6, <2>4, <2>5
  <2>7. PICK e \in Nat : Sound(letters, s, cc, e) /\ e <= g /\ \A i \in letters : ~(e < i /\ i <= g)
    <3>1. CASE n = 1
      <4>1. (n - 1) * s = 0 /\ n - 1 = 0
        BY <3>1
      <4>2. Sound(letters, s, cc, f) /\ g = from
        BY <1>9, <2>3, <2>4, <4>1
      <4> QED BY <4>2
    <3>2. CASE n # 1
      <4>1. n - 1 # 0 /\ end(n - 1) = g
        BY <1>6, <2>4, <3>2
      <4>2. Sound(letters, s, cc, g)
        BY <1>9, <2>3, <4>1
      <4> QED BY <4>2
    <3> QED BY <3>1, <3>2
  <2>8. Part(letters, parts[n], e, h) /\ Len(parts[n]) <= s
    <3>1. g <= h
      BY <2>6
    <3>2. Part(letters, Positions(g, h), e, h) /\ Len(Positions(g, h)) = h - g
      BY <2>7, <3>1, PositionsPart
    <3> QED BY <2>6, <3>2
  <2>9. Sound(letters, s, Append(cc, parts[n]), h)
    BY <2>6, <2>7, <2>8, AddChunk
  <2>10. Sound(letters, s, cs \o SubSeq(parts, 1, n), end(n))
    BY <2>2, <2>3, <2>5, <2>9
  <2>11. n # 0 /\ n \in 0..q
    BY <1>3
  <2> QED BY <2>10, <2>11
<1>10. q \in S
  <2> HIDE DEF S
  <2>1. \A n \in 0..q : n \in S
    BY <1>3, <1>8, <1>9, CountingUp
  <2> QED BY <1>3, <2>1
<1>11. SubSeq(parts, 1, q) = parts
  BY <1>7
<1>12. end(q) = to
  BY <1>2, <1>3 DEF Lesser, len
<1>13. Sound(letters, s, cs \o parts, to)
  BY <1>3, <1>10, <1>11, <1>12
<1> QED BY <1>13 DEF parts, p

\* Every character that is not blank is in a chunk, in its order.
ChunkKept(c) == c \in Seq(Nat) /\ Ordered(c) /\ Len(c) <= setting.size + setting.overlap
Covered(cs) == \A i \in Letters(text) : \E k \in DOMAIN cs : i \in ToSet(cs[k])

LEMMA TailOf ==
  ASSUME setting.overlap \in Nat, NEW c \in Seq(Nat)
  PROVE  \E n \in 0..Len(c) : /\ Tailed(c) \in Seq(Nat) /\ Len(Tailed(c)) = Len(c) - n /\ Len(c) - n <= setting.overlap
                              /\ \A i \in 1..(Len(c) - n) : Tailed(c)[i] = c[n + i]
<1> DEFINE n == Len(c) - Lesser(setting.overlap, Len(c))
<1>1. n \in 0..Len(c) /\ Len(c) - n <= setting.overlap /\ Len(c) \in Nat
  BY DEF Lesser
<1>2. Tailed(c) = SubSeq(c, n + 1, Len(c))
  BY DEF Tailed
<1> HIDE DEF n
<1>3. /\ SubSeq(c, n + 1, Len(c)) \in Seq(Nat) /\ Len(SubSeq(c, n + 1, Len(c))) = Len(c) - n
      /\ \A i \in 1..(Len(c) - n) : SubSeq(c, n + 1, Len(c))[i] = c[n + i]
  BY <1>1
<1> QED BY <1>1, <1>2, <1>3

LEMMA OverlapDefined ==
  ASSUME chunks \in Seq(Seq(Nat)), setting.overlap \in Nat
  PROVE  /\ DOMAIN AddOverlap = DOMAIN chunks
         /\ \A k \in DOMAIN chunks :
               AddOverlap[k] = IF k = 1 THEN chunks[1] ELSE Tailed(AddOverlap[k - 1]) \o chunks[k]
<1> DEFINE N == Len(chunks)
           V == Seq(Nat)
           step == [ip \in (1..N) \X V |-> IF ip[1] = 1 THEN chunks[1] ELSE Tailed(ip[2]) \o chunks[ip[1]]]
           Is(out) == out = [k \in DOMAIN chunks |-> IF k = 1 THEN chunks[1] ELSE Tailed(out[k - 1]) \o chunks[k]]
<1>1. PICK E : E = V
  OBVIOUS
<1>2. N \in Nat /\ DOMAIN chunks = 1..N /\ \A k \in 1..N : chunks[k] \in V
  BY <1>1
<1>3. step \in [(1..N) \X V -> V]
  <2>1. ASSUME NEW i \in 1..N, NEW v \in V PROVE (IF i = 1 THEN chunks[1] ELSE Tailed(v) \o chunks[i]) \in V
    <3>1. Tailed(v) \in V
      BY TailOf
    <3> HIDE DEF N
    <3> QED BY <1>2, <3>1
  <2> QED BY <2>1
<1>4. <<>> \in V
  OBVIOUS
<1>5. PICK g \in [0..N -> V] : Turns(g, N, <<>>, step)
  <2> HIDE DEF step, V, N
  <2> QED BY <1>2, <1>3, <1>4, TurnsExist
<1>6. \A k \in 1..N : g[k] = IF k = 1 THEN chunks[1] ELSE Tailed(g[k - 1]) \o chunks[k]
  <2> TAKE k \in 1..N
  <2>1. g[k] = step[<<k, g[k - 1]>>]
    BY <1>5 DEF Turns
  <2>2. k - 1 \in 0..N
    BY <1>2
  <2>3. g[k - 1] \in V
    BY <1>5, <2>2
  <2> HIDE DEF V, N
  <2>4. <<k, g[k - 1]>> \in (1..N) \X V
    BY <2>3
  <2> QED BY <2>1, <2>4
<1>7. Is([k \in 1..N |-> g[k]])
  <2> DEFINE h == [k \in 1..N |-> g[k]]
  <2>1. ASSUME NEW k \in 1..N PROVE h[k] = IF k = 1 THEN chunks[1] ELSE Tailed(h[k - 1]) \o chunks[k]
    <3>1. k # 1 => k - 1 \in 1..N
      BY <1>2
    <3> QED BY <1>6, <3>1
  <2>2. h = [k \in 1..N |-> IF k = 1 THEN chunks[1] ELSE Tailed(h[k - 1]) \o chunks[k]]
    BY <2>1, SMTT(40)
  <2> QED BY <1>2, <2>2
<1>8. Is(CHOOSE out : Is(out))
  <2> HIDE DEF Is
  <2> QED BY <1>7
<1>9. Is(AddOverlap)
  BY <1>8 DEF AddOverlap
<1> HIDE DEF N
<1> QED BY <1>9

LEMMA TailBefore ==
  ASSUME setting.overlap \in Nat, NEW c \in Seq(Nat), NEW d \in Seq(Nat), Ordered(c), Ordered(d), Before(c, d)
  PROVE  LET e == Tailed(c) \o d
         IN  /\ e \in Seq(Nat) /\ Ordered(e) /\ Len(e) <= setting.overlap + Len(d)
             /\ ToSet(d) \subseteq ToSet(e) /\ ToSet(e) \subseteq ToSet(c) \cup ToSet(d)
<1> DEFINE e == Tailed(c) \o d
<1>1. PICK n \in 0..Len(c) : /\ Tailed(c) \in Seq(Nat) /\ Len(Tailed(c)) = Len(c) - n /\ Len(c) - n <= setting.overlap
                             /\ \A i \in 1..(Len(c) - n) : Tailed(c)[i] = c[n + i]
  BY TailOf
<1>2. PICK a \in Nat : a = Len(c) - n
  BY SMTT(40)
<1>3. PICK t : t = Tailed(c)
  OBVIOUS
<1>4. t \in Seq(Nat) /\ Len(t) = a /\ a <= setting.overlap /\ \A i \in 1..a : t[i] = c[n + i] /\ n + i \in DOMAIN c
  BY <1>1, <1>2, <1>3, SMTT(40)
<1>5. PICK b \in Nat : b = Len(d) /\ DOMAIN d = 1..b
  OBVIOUS
<1>6. e \in Seq(Nat) /\ Len(e) = a + b /\ DOMAIN e = 1..(a + b) /\ e = t \o d
  <2>1. e = t \o d
    BY <1>3
  <2>2. t \o d \in Seq(Nat) /\ Len(t \o d) = a + b /\ DOMAIN (t \o d) = 1..(a + b)
    <3>1. \A u, v \in Seq(Nat) : u \o v \in Seq(Nat) /\ Len(u \o v) = Len(u) + Len(v)
                                 /\ DOMAIN (u \o v) = 1..(Len(u) + Len(v))
      OBVIOUS
    <3> QED BY <1>4, <1>5, <3>1
  <2> HIDE DEF e
  <2> QED BY <2>1, <2>2
<1> HIDE DEF e
<1>7. \A i \in 1..a : e[i] = c[n + i] /\ n + i \in DOMAIN c
  <2>1. \A i \in 1..a : e[i] = t[i]
    BY <1>4, <1>6
  <2> QED BY <1>4, <2>1
<1>8. \A i \in 1..(a + b) : a < i => e[i] = d[i - a] /\ i - a \in 1..b
  <2>1. \A i \in 1..(a + b) : a < i => (t \o d)[i] = d[i - a] /\ i - a \in 1..b
    BY <1>4, <1>5
  <2> QED BY <1>6, <2>1
<1>9. \A i \in 1..(a + b) : i <= a => i \in 1..a
  OBVIOUS
<1>10. ASSUME NEW i \in 1..(a + b), NEW j \in 1..(a + b), i < j, e[i] # Joint, e[j] # Joint PROVE e[i] < e[j]
  <2>1. CASE j <= a
    <3>1. i <= a /\ i \in 1..a /\ j \in 1..a
      BY <1>10, <2>1
    <3>2. e[i] = c[n + i] /\ n + i \in DOMAIN c /\ e[j] = c[n + j] /\ n + j \in DOMAIN c
      BY <1>7, <3>1
    <3>3. n + i < n + j
      BY <1>10
    <3> QED BY <1>10, <3>2, <3>3 DEF Ordered
  <2>2. CASE i <= a /\ a < j
    BY <1>5, <1>7, <1>8, <1>9, <1>10, <2>2 DEF Before
  <2>3. CASE a < i
    <3>1. a < j /\ i - a < j - a
      BY <1>10, <2>3
    <3>2. e[i] = d[i - a] /\ i - a \in 1..b /\ e[j] = d[j - a] /\ j - a \in 1..b
      BY <1>8, <2>3, <3>1
    <3> QED BY <1>5, <1>10, <3>1, <3>2 DEF Ordered
  <2> QED BY <2>1, <2>2, <2>3
<1>11. Ordered(e)
  BY <1>6, <1>10 DEF Ordered
<1>12. ToSet(d) \subseteq ToSet(e)
  <2> SUFFICES ASSUME NEW i \in 1..b PROVE d[i] \in ToSet(e)
    BY <1>5 DEF ToSet
  <2>1. a + i \in 1..(a + b) /\ a < a + i /\ (a + i) - a = i
    OBVIOUS
  <2>2. e[a + i] = d[(a + i) - a]
    BY <1>8, <2>1
  <2> QED BY <1>6, <2>1, <2>2 DEF ToSet
<1>13. ToSet(e) \subseteq ToSet(c) \cup ToSet(d)
  <2> SUFFICES ASSUME NEW i \in 1..(a + b) PROVE e[i] \in ToSet(c) \cup ToSet(d)
    BY <1>6 DEF ToSet
  <2>1. CASE i <= a
    BY <1>7, <1>9, <2>1 DEF ToSet
  <2>2. CASE a < i
    BY <1>5, <1>8, <2>2 DEF ToSet
  <2> QED BY <2>1, <2>2
<1>14. Len(e) <= setting.overlap + Len(d)
  BY <1>4, <1>5, <1>6
<1> QED BY <1>6, <1>11, <1>12, <1>13, <1>14 DEF e

OverlapKept(k) ==
    /\ ChunkKept(AddOverlap[k]) /\ ToSet(chunks[k]) \subseteq ToSet(AddOverlap[k])
    /\ \A l \in DOMAIN chunks : k < l => Before(AddOverlap[k], chunks[l])

LEMMA OverlapSound ==
  ASSUME setting.overlap \in Nat, setting.size \in Nat, NEW letters, NEW f, Sound(letters, setting.size, chunks, f)
  PROVE  \A k \in DOMAIN chunks : OverlapKept(k)
<1> DEFINE N == Len(chunks)
           S == {k \in 0..N : k # 0 => OverlapKept(k)}
<1>1. PICK E : E = Seq(Nat)
  OBVIOUS
<1>2. chunks \in Seq(E)
  BY <1>1 DEF Sound
<1>3. N \in Nat /\ DOMAIN chunks = 1..N
  BY <1>2
<1>4. /\ DOMAIN AddOverlap = DOMAIN chunks
      /\ \A k \in 1..N : AddOverlap[k] = IF k = 1 THEN chunks[1] ELSE Tailed(AddOverlap[k - 1]) \o chunks[k]
  BY <1>1, <1>2, <1>3, OverlapDefined
<1>5. \A k \in 1..N : chunks[k] \in Seq(Nat) /\ Len(chunks[k]) <= setting.size /\ Ordered(chunks[k])
  BY <1>3 DEF Sound, ChunkSound
<1>6. \A k, l \in 1..N : k < l => Before(chunks[k], chunks[l])
  BY <1>3 DEF Sound
<1> HIDE DEF N
<1>7. 0 \in S
  BY <1>3
<1>8. ASSUME NEW k \in 1..N, k - 1 \in S PROVE k \in S
  <2>1. CASE k = 1
    <3>1. AddOverlap[1] = chunks[1]
      BY <1>4, <2>1
    <3>2. ChunkKept(chunks[1])
      <4>1. Len(chunks[1]) \in Nat
        BY <1>5, <2>1
      <4> QED BY <1>5, <2>1, <4>1 DEF ChunkKept
    <3> QED BY <1>3, <1>6, <2>1, <3>1, <3>2 DEF OverlapKept
  <2>2. CASE k # 1
    <3>1. k - 1 \in 1..N /\ k - 1 # 0 /\ k - 1 < k
      BY <1>3, <2>2
    <3>2. PICK c : c = AddOverlap[k - 1]
      OBVIOUS
    <3>3. PICK d : d = chunks[k]
      OBVIOUS
    <3>4. c \in Seq(Nat) /\ Ordered(c) /\ Before(c, d) /\ \A l \in 1..N : k < l => Before(c, chunks[l])
      <4>1. OverlapKept(k - 1)
        BY <1>8, <3>1
      <4>2. \A l \in 1..N : k < l => k - 1 < l
        BY <1>3
      <4> QED BY <1>3, <3>1, <3>2, <3>3, <4>1, <4>2 DEF OverlapKept, ChunkKept
    <3>5. d \in Seq(Nat) /\ Ordered(d) /\ Len(d) <= setting.size /\ Len(d) \in Nat
      BY <1>5, <3>3
    <3>6. PICK e : e = Tailed(c) \o d
      OBVIOUS
    <3>7. /\ e \in Seq(Nat) /\ Ordered(e) /\ Len(e) <= setting.overlap + Len(d)
          /\ ToSet(d) \subseteq ToSet(e) /\ ToSet(e) \subseteq ToSet(c) \cup ToSet(d)
      BY <3>4, <3>5, <3>6, TailBefore
    <3>8. AddOverlap[k] = e
      BY <1>4, <2>2, <3>2, <3>3, <3>6
    <3>9. ChunkKept(e)
      <4>1. Len(e) \in Nat
        BY <3>7
      <4> QED BY <3>5, <3>7, <4>1 DEF ChunkKept
    <3>10. ASSUME NEW l \in 1..N, k < l PROVE Before(e, chunks[l])
      <4>1. Before(c, chunks[l]) /\ Before(d, chunks[l])
        BY <1>6, <3>3, <3>4, <3>10
      <4>2. ASSUME NEW i \in DOMAIN e, NEW j \in DOMAIN chunks[l], e[i] # Joint, chunks[l][j] # Joint PROVE e[i] < chunks[l][j]
        <5>1. e[i] \in ToSet(c) \/ e[i] \in ToSet(d)
          BY <3>7 DEF ToSet
        <5> QED BY <4>1, <4>2, <5>1 DEF Before, ToSet
      <4> QED BY <4>2 DEF Before
    <3> QED BY <1>3, <3>3, <3>7, <3>8, <3>9, <3>10 DEF OverlapKept
  <2> QED BY <2>1, <2>2
<1>9. \A k \in 0..N : k \in S
  <2> HIDE DEF S
  <2> QED BY <1>3, <1>7, <1>8, CountingUp
<1> QED BY <1>3, <1>9

LEMMA FilterDefined ==
  ASSUME NEW N \in Nat, N = Len(chunks), \A k \in 1..N : AddOverlap[k] \in Seq(Nat)
  PROVE  /\ LongEnough[0] = <<>>
         /\ \A k \in 1..N : /\ LongEnough[k - 1] \in Seq(Seq(Nat))
                            /\ LongEnough[k] = IF setting.min = 0 \/ Stripped(AddOverlap[k]) >= setting.min
                                               THEN Append(LongEnough[k - 1], AddOverlap[k]) ELSE LongEnough[k - 1]
         /\ LongEnough[N] \in Seq(Seq(Nat))
<1> DEFINE kept(k) == setting.min = 0 \/ Stripped(AddOverlap[k]) >= setting.min
<1>1. PICK E : E = Seq(Nat)
  OBVIOUS
<1>2. PICK V : V = Seq(E)
  OBVIOUS
<1> DEFINE step == [ip \in (1..N) \X V |-> IF kept(ip[1]) THEN Append(ip[2], AddOverlap[ip[1]]) ELSE ip[2]]
           Is(out) == out = [k \in 0..Len(chunks) |->
                                IF k = 0 THEN <<>>
                                ELSE IF kept(k) THEN Append(out[k - 1], AddOverlap[k])
                                ELSE out[k - 1]]
<1>3. step \in [(1..N) \X V -> V]
  <2> HIDE DEF kept
  <2>1. ASSUME NEW i \in 1..N, NEW v \in V PROVE (IF kept(i) THEN Append(v, AddOverlap[i]) ELSE v) \in V
    BY <1>1, <1>2
  <2> QED BY <2>1
<1>4. <<>> \in V
  BY <1>2
<1>5. PICK g \in [0..N -> V] : Turns(g, N, <<>>, step)
  <2> HIDE DEF step
  <2> QED BY <1>3, <1>4, TurnsExist
<1>6. g[0] = <<>> /\ \A k \in 1..N : g[k] = IF kept(k) THEN Append(g[k - 1], AddOverlap[k]) ELSE g[k - 1]
  <2>1. g[0] = <<>>
    BY <1>5 DEF Turns
  <2>2. ASSUME NEW k \in 1..N PROVE g[k] = IF kept(k) THEN Append(g[k - 1], AddOverlap[k]) ELSE g[k - 1]
    <3>1. g[k] = step[<<k, g[k - 1]>>]
      BY <1>5 DEF Turns
    <3>2. k - 1 \in 0..N
      OBVIOUS
    <3>3. g[k - 1] \in V
      BY <1>5, <3>2
    <3>4. <<k, g[k - 1]>> \in (1..N) \X V
      BY <3>3
    <3> HIDE DEF kept
    <3> QED BY <3>1, <3>4
  <2> QED BY <2>1, <2>2
<1>7. Is(g)
  <2> HIDE DEF kept
  <2>1. \A k \in 0..N : k # 0 => k \in 1..N
    OBVIOUS
  <2>2. \A k \in 0..N : g[k] = IF k = 0 THEN <<>> ELSE IF kept(k) THEN Append(g[k - 1], AddOverlap[k]) ELSE g[k - 1]
    BY <1>6, <2>1
  <2>3. g = [k \in 0..N |-> g[k]]
    OBVIOUS
  <2> QED BY <2>2, <2>3
<1>8. Is(CHOOSE out : Is(out))
  <2> HIDE DEF Is
  <2> QED BY <1>7
<1>9. Is(LongEnough)
  BY <1>8 DEF LongEnough
<1>10. \A k \in 1..N : k \in 0..N /\ k # 0 /\ k - 1 \in 0..N
  OBVIOUS
<1>11. 0 \in 0..N /\ N \in 0..N
  OBVIOUS
<1> HIDE DEF kept
<1>12. LongEnough[0] = <<>> /\ \A k \in 1..N : LongEnough[k] = IF kept(k) THEN Append(LongEnough[k - 1], AddOverlap[k]) ELSE LongEnough[k - 1]
  <2>1. \A k \in 0..N : LongEnough[k] = IF k = 0 THEN <<>> ELSE IF kept(k) THEN Append(LongEnough[k - 1], AddOverlap[k]) ELSE LongEnough[k - 1]
    BY <1>9
  <2> QED BY <1>10, <1>11, <2>1
<1>13. \A k \in 0..N : LongEnough[k] \in V
  <2> DEFINE S == {k \in 0..N : LongEnough[k] \in V}
  <2>1. 0 \in S
    BY <1>4, <1>11, <1>12
  <2>2. ASSUME NEW k \in 1..N, k - 1 \in S PROVE k \in S
    <3>1. PICK old : old = LongEnough[k - 1]
      OBVIOUS
    <3>2. PICK c : c = AddOverlap[k]
      OBVIOUS
    <3>3. old \in Seq(E) /\ c \in E
      BY <1>1, <1>2, <1>10, <2>2, <3>1, <3>2
    <3>4. Append(old, c) \in Seq(E)
      BY <3>3
    <3>5. LongEnough[k] = Append(old, c) \/ LongEnough[k] = old
      BY <1>12, <3>1, <3>2
    <3> QED BY <1>2, <1>10, <3>3, <3>4, <3>5
  <2>3. \A k \in 0..N : k \in S
    <3> HIDE DEF S
    <3> QED BY <2>1, <2>2, CountingUp
  <2> QED BY <2>3
<1> QED BY <1>1, <1>2, <1>10, <1>11, <1>12, <1>13 DEF kept

FilterKept(k) ==
    /\ LongEnough[k] \in Seq(Seq(Nat))
    /\ \A c \in DOMAIN LongEnough[k] : \E j \in 1..k : LongEnough[k][c] = AddOverlap[j]
    /\ setting.min = 0 => \A j \in 1..k : \E c \in DOMAIN LongEnough[k] : LongEnough[k][c] = AddOverlap[j]

LEMMA FilterSound ==
  ASSUME NEW N \in Nat, N = Len(chunks), \A k \in 1..N : AddOverlap[k] \in Seq(Nat)
  PROVE  FilterKept(N)
<1> DEFINE S == {k \in 0..N : FilterKept(k)}
<1>1. PICK E : E = Seq(Nat)
  OBVIOUS
<1>2. /\ LongEnough[0] = <<>>
      /\ \A k \in 1..N : /\ LongEnough[k - 1] \in Seq(E)
                         /\ LongEnough[k] = IF setting.min = 0 \/ Stripped(AddOverlap[k]) >= setting.min
                                            THEN Append(LongEnough[k - 1], AddOverlap[k]) ELSE LongEnough[k - 1]
  BY <1>1, FilterDefined
<1>3. 0 \in S
  <2>1. <<>> \in Seq(E) /\ DOMAIN <<>> = {} /\ 1..0 = {} /\ 0 \in 0..N
    OBVIOUS
  <2> QED BY <1>1, <1>2, <2>1 DEF FilterKept
<1>4. ASSUME NEW k \in 1..N, k - 1 \in S PROVE k \in S
  <2>1. PICK old : old = LongEnough[k - 1]
    OBVIOUS
  <2>2. PICK new : new = LongEnough[k]
    OBVIOUS
  <2>3. PICK c : c = AddOverlap[k]
    OBVIOUS
  <2>4. /\ old \in Seq(E) /\ c \in E
        /\ \A i \in DOMAIN old : \E j \in 1..(k - 1) : old[i] = AddOverlap[j]
        /\ setting.min = 0 => \A j \in 1..(k - 1) : \E i \in DOMAIN old : old[i] = AddOverlap[j]
    BY <1>1, <1>2, <1>4, <2>1, <2>3 DEF FilterKept
  <2>5. k \in 1..k /\ \A j \in 1..(k - 1) : j \in 1..k
    OBVIOUS
  <2>6. \A j \in 1..k : j = k \/ j \in 1..(k - 1)
    OBVIOUS
  <2>7. k \in 0..N
    OBVIOUS
  <2>8. CASE new = Append(old, c)
    <3>1. new \in Seq(E) /\ DOMAIN new = 1..(Len(old) + 1) /\ new[Len(old) + 1] = c /\ DOMAIN old = 1..Len(old) /\ Len(old) \in Nat
          /\ \A i \in 1..Len(old) : new[i] = old[i]
      BY <2>4, <2>8
    <3>2. \A i \in 1..(Len(old) + 1) : i = Len(old) + 1 \/ i \in 1..Len(old)
      BY <3>1
    <3>3. Len(old) + 1 \in 1..(Len(old) + 1) /\ \A i \in 1..Len(old) : i \in 1..(Len(old) + 1)
      BY <3>1
    <3>4. \A i \in DOMAIN new : \E j \in 1..k : new[i] = AddOverlap[j]
      BY <2>3, <2>4, <2>5, <3>1, <3>2
    <3>5. ASSUME setting.min = 0, NEW j \in 1..k PROVE \E i \in DOMAIN new : new[i] = AddOverlap[j]
      <4>1. CASE j = k
        BY <2>3, <3>1, <3>3, <4>1
      <4>2. CASE j # k
        <5>1. PICK i \in 1..Len(old) : old[i] = AddOverlap[j]
          BY <2>4, <2>6, <3>1, <3>5, <4>2
        <5> QED BY <3>1, <3>3, <5>1
      <4> QED BY <4>1, <4>2
    <3> QED BY <1>1, <2>2, <2>7, <3>1, <3>4, <3>5 DEF FilterKept
  <2>9. CASE new = old /\ setting.min # 0
    <3>1. new \in Seq(Seq(Nat)) /\ \A c2 \in DOMAIN new : \E j \in 1..k : new[c2] = AddOverlap[j]
      BY <1>1, <2>4, <2>5, <2>9
    <3> QED BY <2>2, <2>9, <2>7, <3>1 DEF FilterKept
  <2> QED BY <1>2, <2>1, <2>2, <2>3, <2>8, <2>9
<1>5. \A k \in 0..N : k \in S
  <2> HIDE DEF S
  <2> QED BY <1>3, <1>4, CountingUp
<1> QED BY <1>5

LEMMA LettersAre ==
  ASSUME NEW t, NEW i \in Letters(t)
  PROVE  i \in 1..Len(t) /\ t[i] # "space" /\ t[i] # "feed"
  BY DEF Letters

Characters == {"letter", "stop", "space", "feed"}

ChunkingIInv ==
    /\ cut \in {"cutting", "cut", "done"} =>
           /\ text \in Seq(Characters) /\ setting \in ChunkSettings
    /\ cut = "cutting" =>
           /\ start \in 0..Len(text) /\ current \in Seq(Nat) /\ chunks \in Seq(Seq(Nat))
           /\ Windowed => current = <<>>
           /\ Sound(Letters(text), setting.size, Flushed, start)
    /\ cut = "cut" => Sound(Letters(text), setting.size, chunks, Len(text))
    /\ cut = "done" =>
           /\ \A c \in DOMAIN chunks : ChunkKept(chunks[c])
           /\ setting.min = 0 => Covered(chunks)

LEMMA ChunkingInitially == ChunkingInit => ChunkingIInv
<1> SUFFICES ASSUME ChunkingInit PROVE ChunkingIInv
  OBVIOUS
<1>1. text \in Seq(Characters)
  BY ChunkingAssumption DEF ChunkingInit, Characters
<1>2. \A i \in Letters(text) : ~(i <= 0)
  <2>1. Letters(text) \subseteq 1..Len(text) /\ Len(text) \in Nat
    BY <1>1, LettersAre
  <2>2. \A i \in 1..Len(text) : ~(i <= 0)
    BY <2>1
  <2> QED BY <2>1, <2>2
<1>3. <<>> \in Seq(Seq(Nat)) /\ <<>> \in Seq(Nat) /\ DOMAIN <<>> = {} /\ 0 \in 0..Len(text)
  BY <1>1
<1>4. Sound(Letters(text), setting.size, <<>>, 0)
  BY <1>2, <1>3 DEF Sound
<1> QED BY <1>1, <1>3, <1>4 DEF ChunkingInit, ChunkingIInv, Flushed

\* A window goes on, by at most the size.
LEMMA WindowsEnd ==
  ASSUME text \in Seq(Characters), setting \in ChunkSettings, start \in 0..Len(text), start < Len(text),
         NEW end, end = FixedEnd \/ end = RecursiveEnd
  PROVE  end \in Nat /\ start < end /\ end <= Len(text) /\ end - start <= setting.size
<1>1. PICK s \in Nat \ {0} : s = setting.size
  BY ChunkingAssumption
<1>2. PICK len \in Nat : len = Len(text)
  OBVIOUS
<1>3. PICK b \in 0..len : b = start
  BY <1>2
<1>4. b < len
  BY <1>2, <1>3
<1>5. ASSUME NEW x, NEW y
      PROVE  Boundary(x, y, b + s) \in Nat /\ (Boundary(x, y, b + s) > 0 => b < Boundary(x, y, b + s) /\ Boundary(x, y, b + s) <= b + s)
  <2> DEFINE found == {i \in (b + 1)..(b + s - 2) : text[i + 1] = x /\ text[i + 2] = y}
  <2>1. Boundary(x, y, b + s) = IF found = {} THEN 0 ELSE Max(found) + 2
    BY <1>3 DEF Boundary
  <2>2. CASE found # {}
    <3>1. found \in SUBSET (1..(b + s))
      OBVIOUS
    <3>2. \A i \in found : i \in Nat /\ b < i /\ i + 2 <= b + s
      OBVIOUS
    <3> HIDE DEF found
    <3>3. Max(found) \in found
      <4>1. b + s \in Nat
        OBVIOUS
      <4> QED BY <2>2, <3>1, <4>1, GreatestIn
    <3> QED BY <2>1, <2>2, <3>2, <3>3
  <2> QED BY <2>1, <2>2
<1>6. CASE end = FixedEnd
  BY <1>1, <1>2, <1>3, <1>4, <1>6 DEF FixedEnd, Lesser
<1>7. CASE end = RecursiveEnd
  <2>1. CASE b + s >= len
    <3>1. end = len
      BY <1>1, <1>2, <1>3, <1>7, <2>1 DEF RecursiveEnd
    <3> QED BY <1>1, <1>2, <1>3, <1>4, <2>1, <3>1
  <2>2. CASE ~(b + s >= len)
    <3>1. PICK x, y, z : x = Boundary("feed", "feed", b + s) /\ y = Boundary("stop", "space", b + s) /\ z = Boundary("stop", "feed", b + s)
      OBVIOUS
    <3>2. end = IF x > 0 THEN x ELSE IF y > 0 THEN y ELSE IF z > 0 THEN z ELSE b + s
      BY <1>1, <1>2, <1>3, <1>7, <2>2, <3>1 DEF RecursiveEnd
    <3>3. /\ x \in Nat /\ (x > 0 => b < x /\ x <= b + s)
          /\ y \in Nat /\ (y > 0 => b < y /\ y <= b + s)
          /\ z \in Nat /\ (z > 0 => b < z /\ z <= b + s)
      BY <1>5, <3>1
    <3> QED BY <1>1, <1>2, <1>3, <2>2, <3>2, <3>3
  <2> QED BY <2>1, <2>2
<1> QED BY <1>6, <1>7

LEMMA WindowKeeps ==
  ASSUME ChunkingIInv, CutWindow
  PROVE  ChunkingIInv'
<1>1. PICK end : /\ end = FixedEnd \/ end = RecursiveEnd
                 /\ chunks' = (IF setting.strategy = "recursive" /\ BlankRange(Positions(start, end)) THEN chunks
                               ELSE Append(chunks, Positions(start, end)))
                 /\ start' = end
  BY DEF CutWindow
<1>2. /\ cut = "cutting" /\ Windowed /\ start < Len(text)
      /\ text' = text /\ setting' = setting /\ current' = current /\ cut' = cut
  BY DEF CutWindow
<1>3. /\ text \in Seq(Characters) /\ setting \in ChunkSettings
      /\ start \in 0..Len(text) /\ chunks \in Seq(Seq(Nat)) /\ current = <<>>
      /\ Sound(Letters(text), setting.size, chunks, start)
  BY <1>2 DEF ChunkingIInv, Flushed
<1>4. end \in Nat /\ start < end /\ end <= Len(text) /\ end - start <= setting.size
  BY <1>1, <1>2, <1>3, WindowsEnd
<1>5. PICK cs : cs = chunks'
  OBVIOUS
<1>6. PICK b \in Nat : b = start
  BY <1>3
<1>7. PICK letters \in SUBSET Nat : letters = Letters(text)
  <2>1. Letters(text) \subseteq Nat
    BY <1>3, LettersAre
  <2> QED BY <2>1
<1>8. PICK s \in Nat : s = setting.size
  BY <1>3, ChunkingAssumption
<1>9. PICK p : p = Positions(start, end)
  OBVIOUS
<1>10. Part(letters, p, b, end) /\ Len(p) = end - b /\ p \in Seq(Nat)
  <2>1. b <= b /\ b <= end /\ \A i \in letters : ~(b < i /\ i <= b)
    BY <1>4, <1>6
  <2>2. Part(letters, Positions(b, end), b, end) /\ Len(Positions(b, end)) = end - b
    BY <1>4, <2>1, PositionsPart
  <2> QED BY <1>6, <1>9, <2>2 DEF Part
<1>11. Sound(letters, s, cs, end) /\ cs \in Seq(Seq(Nat))
  <2>1. CASE BlankRange(p) /\ cs = chunks
    <3>1. ASSUME NEW i \in letters, b < i, i <= end PROVE FALSE
      <4>1. PICK x \in DOMAIN p : p[x] = i
        BY <1>10, <3>1 DEF Part, ToSet
      <4>2. Blank(i) /\ i # 0
        BY <2>1, <3>1, <4>1 DEF BlankRange
      <4> QED BY <1>7, <4>2, LettersAre DEF Blank, Joint
    <3>2. Sound(letters, s, chunks, b) /\ b <= end
      BY <1>3, <1>4, <1>6, <1>7, <1>8
    <3> QED BY <1>3, <1>4, <2>1, <3>1, <3>2, Skip
  <2>2. CASE cs = Append(chunks, p)
    <3>1. Sound(letters, s, chunks, b) /\ b <= end /\ Len(p) <= s
      BY <1>3, <1>4, <1>6, <1>7, <1>8, <1>10
    <3>2. Sound(letters, s, Append(chunks, p), end)
      BY <1>4, <1>10, <3>1, AddChunk
    <3> QED BY <2>2, <3>2 DEF Sound
  <2> QED BY <1>1, <1>5, <1>9, <2>1, <2>2
<1>12. start' \in 0..Len(text)
  BY <1>1, <1>3, <1>4
<1>13. Sound(letters, s, Flushed', start')
  BY <1>1, <1>2, <1>3, <1>5, <1>11 DEF Flushed
<1> QED BY <1>2, <1>3, <1>5, <1>7, <1>8, <1>11, <1>12, <1>13 DEF ChunkingIInv

\* The next piece: nothing is left before it, and it is not empty.
LEMMA PieceFound ==
  ASSUME text \in Seq(Characters), start \in Nat, Rest # {}
  PROVE  \E from, to \in Nat : /\ Piece = Positions(from, to) /\ start <= from /\ from < to /\ to <= Len(text)
                               /\ \A i \in Letters(text) : ~(start < i /\ i <= from)
<1>1. PICK len \in Nat : len = Len(text)
  OBVIOUS
<1>2. Rest \in SUBSET Nat /\ \A i \in Rest : start < i /\ i <= len /\ i \in 1..len /\ ~Blank(i)
  BY <1>1 DEF Rest
<1>3. PICK first : first = Min(Rest)
  OBVIOUS
<1>4. first \in Rest /\ \A i \in Rest : first <= i
  BY <1>2, <1>3, LeastIn
<1> DEFINE last == {j \in first..len : ~Blank(j) /\ \A k \in first..j : ~Separator(k)}
<1>5. first \in last
  <2>1. first \in first..len /\ \A k \in first..first : k = first
    BY <1>2, <1>4
  <2>2. ~Blank(first)
    BY <1>2, <1>4
  <2>3. Separator(first) => Blank(first)
    BY DEF Separator, Blank
  <2> QED BY <2>1, <2>2, <2>3
<1>6. last \in SUBSET (1..len)
  BY <1>2, <1>4
<1>7. PICK to : to = Max(last)
  OBVIOUS
<1>8. to \in last
  <2> HIDE DEF last
  <2> QED BY <1>5, <1>6, <1>7, GreatestIn
<1>9. Piece = Positions(first - 1, to)
  BY <1>1, <1>3, <1>7 DEF Piece
<1>10. first - 1 \in Nat /\ to \in Nat /\ start <= first - 1 /\ first - 1 < to /\ to <= len
  BY <1>2, <1>4, <1>8
<1>11. ASSUME NEW i \in Letters(text), start < i, i <= first - 1 PROVE FALSE
  <2>1. i \in 1..len /\ ~Blank(i)
    <3>1. i \in 1..len /\ text[i] # "space" /\ text[i] # "feed"
      BY <1>1, <1>11, LettersAre
    <3> QED BY <3>1 DEF Blank, Joint
  <2>2. i \in (start + 1)..len
    BY <1>11, <2>1
  <2>3. i \in Rest
    BY <1>1, <2>1, <2>2 DEF Rest
  <2>4. first <= i
    BY <1>4, <2>3
  <2> QED BY <1>2, <1>4, <1>11, <2>1, <2>4
<1> QED BY <1>1, <1>9, <1>10, <1>11

LEMMA PieceKeeps ==
  ASSUME ChunkingIInv, PackPiece
  PROVE  ChunkingIInv'
<1>1. /\ cut = "cutting" /\ ~Windowed /\ Rest # {}
      /\ text' = text /\ setting' = setting /\ cut' = cut
  BY DEF PackPiece
<1>2. /\ text \in Seq(Characters) /\ setting \in ChunkSettings
      /\ start \in 0..Len(text) /\ chunks \in Seq(Seq(Nat)) /\ current \in Seq(Nat)
      /\ Sound(Letters(text), setting.size, Flushed, start)
  BY <1>1 DEF ChunkingIInv
<1>3. PICK b \in Nat : b = start
  BY <1>2
<1>4. PICK from, to \in Nat : /\ Piece = Positions(from, to) /\ start <= from /\ from < to /\ to <= Len(text)
                              /\ \A i \in Letters(text) : ~(start < i /\ i <= from)
  BY <1>1, <1>2, <1>3, PieceFound
<1>5. PICK letters \in SUBSET Nat : letters = Letters(text)
  <2>1. Letters(text) \subseteq Nat
    BY <1>2, LettersAre
  <2> QED BY <2>1
<1>6. PICK s \in Nat \ {0} : s = setting.size
  BY <1>2, ChunkingAssumption
<1>7. PICK p : p = Piece
  OBVIOUS
<1>8. Part(letters, p, b, to) /\ Len(p) = to - from /\ p[Len(p)] = to /\ p \in Seq(Nat) /\ b <= from /\ b <= to
  <2>1. b <= from /\ from <= to /\ \A i \in letters : ~(b < i /\ i <= from)
    BY <1>3, <1>4, <1>5
  <2>2. Part(letters, Positions(from, to), b, to) /\ Len(Positions(from, to)) = to - from
    <3>1. Part(letters, Positions(from, to), b, to)
      BY ONLY <2>1, PositionsPart
    <3>2. Len(Positions(from, to)) = to - from
      BY ONLY <2>1 DEF Positions
    <3> QED BY <3>1, <3>2
  <2>3. Positions(from, to)[to - from] = to
    BY <1>4 DEF Positions
  <2> QED BY <1>4, <1>7, <2>1, <2>2, <2>3 DEF Part
<1>9. start' = to
  BY <1>7, <1>8 DEF PackPiece
<1>10. PICK cs : cs = chunks
  OBVIOUS
<1>11. PICK c : c = current
  OBVIOUS
<1>12. PICK flushed : flushed = Flushed
  OBVIOUS
<1>13. cs \in Seq(Seq(Nat)) /\ c \in Seq(Nat) /\ flushed = (IF c = <<>> THEN cs ELSE Append(cs, c)) /\ Sound(letters, s, flushed, b)
  BY <1>2, <1>3, <1>5, <1>6, <1>10, <1>11, <1>12 DEF Flushed
<1>14. PICK next : next = chunks'
  OBVIOUS
<1>15. PICK more : more = current'
  OBVIOUS
<1>16. /\ more \in Seq(Nat) /\ next \in Seq(Seq(Nat))
       /\ Sound(letters, s, IF more = <<>> THEN next ELSE Append(next, more), to)
  <2>1. flushed \in Seq(Seq(Nat))
    BY <1>13 DEF Sound
  <2>2. p # <<>>
    BY <1>4, <1>8
  <2>3. CASE next = flushed \o HardSplit(p) /\ more = <<>>
    <3>1. \A i \in letters : ~(b < i /\ i <= from)
      BY <1>3, <1>4, <1>5
    <3>2. Sound(letters, s, flushed \o HardSplit(Positions(from, to)), to)
      BY <1>4, <1>6, <1>8, <1>13, <3>1, AddPieces
    <3>3. Sound(letters, s, next, to)
      BY <1>4, <1>7, <2>3, <3>2
    <3>4. next \in Seq(Seq(Nat))
      BY <3>3 DEF Sound
    <3>5. more \in Seq(Nat)
      BY <2>3
    <3> QED BY <2>3, <3>3, <3>4, <3>5
  <2>4. CASE Len(p) <= s /\ Len(Joined(p)) <= s /\ more = Joined(p) /\ next = cs
    <3>1. CASE c = <<>>
      <4>1. more = p
        BY <1>11, <2>4, <3>1 DEF Joined
      <4>2. Sound(letters, s, Append(flushed, p), to)
        BY <1>8, <1>13, <2>4, AddChunk
      <4> QED BY <1>8, <1>13, <2>2, <2>4, <3>1, <4>1, <4>2
    <3>2. CASE c # <<>>
      <4>1. PICK joint : joint \in Seq({Joint}) /\ Joined(p) = c \o joint \o p
        <5>1. <<Joint, Joint>> \in Seq({Joint}) /\ <<Joint>> \in Seq({Joint})
          OBVIOUS
        <5> QED BY <1>11, <3>2, <5>1 DEF Joined
      <4>2. Len(c \o joint \o p) <= s
        BY <2>4, <4>1
      <4>3. Sound(letters, s, Append(cs, c), b)
        BY <1>13, <3>2
      <4>4. Sound(letters, s, Append(cs, c \o joint \o p), to)
        BY <1>8, <1>13, <4>1, <4>2, <4>3, Grow
      <4>5. more = c \o joint \o p
        BY <2>4, <4>1
      <4>6. joint \in Seq(Nat)
        BY <4>1 DEF Joint
      <4>7. more \in Seq(Nat) /\ more # <<>>
        <5>1. c \o joint \in Seq(Nat) /\ Len(c \o joint) \in Nat
          BY <1>13, <4>6
        <5>2. \A u, v \in Seq(Nat) : u \o v \in Seq(Nat) /\ Len(u \o v) = Len(u) + Len(v)
          OBVIOUS
        <5>3. more \in Seq(Nat) /\ Len(more) = Len(c \o joint) + Len(p)
          BY <1>8, <4>5, <5>1, <5>2
        <5> QED BY <1>4, <1>8, <5>1, <5>3
      <4> QED BY <1>13, <2>4, <4>4, <4>5, <4>7
    <3> QED BY <3>1, <3>2
  <2>5. CASE Len(p) <= s /\ next = flushed /\ more = p
    <3>1. Sound(letters, s, Append(flushed, p), to)
      BY <1>8, <1>13, <2>5, AddChunk
    <3> QED BY <1>8, <2>1, <2>2, <2>5, <3>1
  <2>6. \/ next = flushed \o HardSplit(p) /\ more = <<>>
        \/ Len(p) <= s /\ Len(Joined(p)) <= s /\ more = Joined(p) /\ next = cs
        \/ Len(p) <= s /\ next = flushed /\ more = p
    BY <1>6, <1>7, <1>10, <1>12, <1>14, <1>15 DEF PackPiece
  <2> QED BY <2>3, <2>4, <2>5, <2>6
<1>17. Sound(letters, s, Flushed', start')
  BY <1>9, <1>14, <1>15, <1>16 DEF Flushed
<1>18. ~Windowed'
  BY <1>1 DEF Windowed
<1>19. start' \in 0..Len(text)
  BY <1>2, <1>4, <1>9
<1> QED BY <1>1, <1>2, <1>5, <1>6, <1>14, <1>15, <1>16, <1>17, <1>18, <1>19 DEF ChunkingIInv

LEMMA CutEndsKeeps ==
  ASSUME ChunkingIInv, CutEnds
  PROVE  ChunkingIInv'
<1>1. /\ cut = "cutting" /\ (Windowed => start = Len(text)) /\ (~Windowed => Rest = {})
      /\ text' = text /\ setting' = setting /\ cut' = "cut" /\ chunks' = Flushed
  BY DEF CutEnds
<1>2. /\ text \in Seq(Characters) /\ setting \in ChunkSettings /\ start \in 0..Len(text)
      /\ Sound(Letters(text), setting.size, Flushed, start)
  BY <1>1 DEF ChunkingIInv
<1>3. PICK cs : cs = Flushed
  OBVIOUS
<1>4. PICK letters \in SUBSET Nat : letters = Letters(text)
  <2>1. Letters(text) \subseteq Nat
    BY <1>2, LettersAre
  <2> QED BY <2>1
<1>5. PICK s \in Nat : s = setting.size
  BY <1>2, ChunkingAssumption
<1>6. PICK len \in Nat : len = Len(text)
  BY <1>2
<1>7. PICK b \in Nat : b = start /\ b <= len
  BY <1>2, <1>6
<1>8. ASSUME NEW i \in letters, b < i, i <= len PROVE FALSE
  <2>1. ~Windowed
    BY <1>1, <1>6, <1>7, <1>8
  <2>2. i \in 1..len /\ text[i] # "space" /\ text[i] # "feed"
    BY <1>4, <1>6, LettersAre
  <2>3. ~Blank(i) /\ i \in (start + 1)..Len(text)
    BY <1>6, <1>7, <1>8, <2>2 DEF Blank, Joint
  <2> QED BY <1>1, <2>1, <2>3 DEF Rest
<1>9. Sound(letters, s, cs, b)
  BY <1>2, <1>3, <1>4, <1>5, <1>7
<1>10. Sound(letters, s, cs, len)
  BY <1>7, <1>8, <1>9, Skip
<1> QED BY <1>1, <1>2, <1>3, <1>4, <1>5, <1>6, <1>10 DEF ChunkingIInv

LEMMA ChunksDoneKeeps ==
  ASSUME ChunkingIInv, ChunksDone
  PROVE  ChunkingIInv'
<1>1. /\ cut = "cut" /\ chunks' = LongEnough[Len(chunks)]
      /\ text' = text /\ setting' = setting /\ cut' = "done"
  BY DEF ChunksDone
<1>2. /\ text \in Seq(Characters) /\ setting \in ChunkSettings
      /\ Sound(Letters(text), setting.size, chunks, Len(text))
  BY <1>1 DEF ChunkingIInv
<1>3. setting.size \in Nat /\ setting.overlap \in Nat
  BY <1>2, ChunkingAssumption
<1>4. PICK N \in Nat : N = Len(chunks) /\ DOMAIN chunks = 1..N
  <2>1. chunks \in Seq(Seq(Nat))
    BY <1>2 DEF Sound
  <2> QED BY <2>1, Zenon, LenProperties
<1>5. \A k \in 1..N : OverlapKept(k)
  BY <1>2, <1>3, <1>4, OverlapSound
<1>6. \A k \in 1..N : AddOverlap[k] \in Seq(Nat)
  BY <1>5 DEF OverlapKept, ChunkKept
<1>7. FilterKept(N)
  BY <1>4, <1>6, FilterSound
<1>8. PICK out : out = LongEnough[N]
  OBVIOUS
<1>9. chunks' = out
  BY <1>1, <1>4, <1>8
<1>10. \A c \in DOMAIN out : ChunkKept(out[c])
  BY <1>5, <1>7, <1>8 DEF FilterKept, OverlapKept
<1>11. setting.min = 0 => Covered(out)
  <2> SUFFICES ASSUME setting.min = 0, NEW i \in Letters(text) PROVE \E c \in DOMAIN out : i \in ToSet(out[c])
    BY DEF Covered
  <2>1. i <= Len(text)
    <3>1. i \in 1..Len(text) /\ Len(text) \in Nat
      BY <1>2, LettersAre
    <3> QED BY <3>1
  <2>2. PICK k \in 1..N : i \in ToSet(chunks[k])
    BY <1>2, <1>4, <2>1 DEF Sound
  <2>3. i \in ToSet(AddOverlap[k])
    BY <1>5, <2>2 DEF OverlapKept
  <2>4. PICK c \in DOMAIN out : out[c] = AddOverlap[k]
    BY <1>7, <1>8 DEF FilterKept
  <2> QED BY <2>3, <2>4
<1> QED BY <1>1, <1>2, <1>9, <1>10, <1>11 DEF ChunkingIInv, ChunkKept, Covered

LEMMA ChunkingKeeps == ChunkingIInv /\ [ChunkingNext]_chunkingVars => ChunkingIInv'
<1> SUFFICES ASSUME ChunkingIInv, [ChunkingNext]_chunkingVars PROVE ChunkingIInv'
  OBVIOUS
<1>1. CASE UNCHANGED chunkingVars
  BY <1>1 DEF chunkingVars, ChunkingIInv, Windowed, Flushed, ChunkKept, Covered
<1> QED BY <1>1, WindowKeeps, PieceKeeps, CutEndsKeeps, ChunksDoneKeeps DEF ChunkingNext

\* Whatever the text and the settings: the chunks of a strategy are the text, in
\* its order, the overlap repeats only what came just before, and neither grows
\* beyond what the settings allow (worker.py: _pack_pieces, _chunk_fixed,
\* _chunk_text, _add_overlap).
THEOREM ChunkingNothingLost == ChunkingSpec => []NothingLost
<1>1. ChunkingIInv => NothingLost
  <2> SUFFICES ASSUME ChunkingIInv, cut = "done" PROVE NothingLost
    BY DEF NothingLost
  <2>1. ASSUME NEW i \in DOMAIN text, ~Blank(i) PROVE i \in Letters(text)
    BY <2>1 DEF ChunkingIInv, Blank, Letters
  <2> QED BY <2>1 DEF ChunkingIInv, NothingLost, ChunkKept, Ordered, Covered
<1> QED BY <1>1, ChunkingInitially, ChunkingKeeps, PTL DEF ChunkingSpec

================================================================================
