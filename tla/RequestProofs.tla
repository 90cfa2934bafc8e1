---------------------------- MODULE RequestProofs ----------------------------
(***************************************************************************)
(* Proofs about the parts whose requests overlap: the approvals of the      *)
(* agent, for any number of requests, call IDs and parked calls, and the    *)
(* handlers of the control plane, for any documents, requests and bounds.   *)
(***************************************************************************)
EXTENDS AgentApprovals, ControlPlane, SequenceTheorems, FiniteSetTheorems, TLAPS

-----------------------------------------------------------------------------
(* AgentApprovals: one approval, one execution.                             *)

\* The initial states satisfy the inductive invariant.
LEMMA ApprovalInit == Init => ApprovalInv
<1> SUFFICES ASSUME Init PROVE ApprovalInv
  OBVIOUS
<1> USE ApprovalsAssumption
<1>1. TypeOK
  BY DEF Init, TypeOK, Slot, State, Request, Free, Card, Chain, NoCard
<1>2. CardsFresh /\ OneThread /\ Budget /\ Answers
  BY DEF Init, CardsFresh, OneThread, Budget, Answers, InFlight, Active, PendingCard, Free, Card, Chain
<1>3. SingleUse /\ BudgetKept
  BY DEF Init, SingleUse, BudgetKept, Card, Chain
<1> QED BY <1>1, <1>2, <1>3 DEF ApprovalInv

\* A chat turn starts a chain of its own.
LEMMA ChatKeeps ==
  ASSUME ApprovalInv, NEW t \in Task, Chat(t)
  PROVE  ApprovalInv'
<1> USE ApprovalsAssumption DEF ApprovalInv
<1>1. TypeOK'
  BY DEF TypeOK, Chat, State
<1>2. CardsFresh'
  BY DEF TypeOK, Chat, CardsFresh, PendingCard
<1>6. Answers'
  BY DEF TypeOK, Chat, Answers, InFlight
<1>3. OneThread'
  <2>1. /\ state'[t].chain = chains + 1
        /\ \A u \in Task \ {t} : state'[u] = state[u] /\ pc'[u] = pc[u]
    BY DEF TypeOK, Chat
  <2>2. \A u \in Task \ {t} : Active(u)' => Active(u) /\ state[u].chain # chains + 1
    BY <2>1 DEF Active, Budget, TypeOK
  <2>3. \A k \in Card : (PendingCard(k)' <=> PendingCard(k)) /\ (PendingCard(k) => parked[k].chain # chains + 1)
    BY DEF Chat, PendingCard, Budget, TypeOK
  <2>4. parked' = parked
    BY DEF Chat
  <2> QED BY <2>1, <2>2, <2>3, <2>4 DEF OneThread
<1>4. Budget'
  BY DEF TypeOK, Chat, Budget, Active, PendingCard, State, Chain
<1>5. SingleUse' /\ BudgetKept'
  BY DEF Chat, SingleUse, BudgetKept
<1> QED BY <1>1, <1>2, <1>3, <1>4, <1>5, <1>6

\* Steps that end a request, or take it no further than finding its call.
LEMMA QuietKeeps ==
  ASSUME ApprovalInv, NEW t \in Task, Finish(t) \/ Get(t) \/ Decline(t)
  PROVE  ApprovalInv'
<1> USE ApprovalsAssumption DEF ApprovalInv
<1>1. TypeOK'
  BY DEF TypeOK, Finish, Get, Decline
<1>2. CardsFresh'
  BY DEF TypeOK, Finish, Get, Decline, CardsFresh, PendingCard
<1>3. OneThread' /\ Budget'
  BY DEF TypeOK, Finish, Get, Decline, OneThread, Budget, Active, PendingCard
<1>4. Answers'
  BY DEF TypeOK, Finish, Get, Decline, Answers, InFlight
<1>5. SingleUse' /\ BudgetKept'
  BY DEF Finish, Get, Decline, SingleUse, BudgetKept
<1> QED BY <1>1, <1>2, <1>3, <1>4, <1>5

\* An answer to a pending call: nobody decided it yet.
LEMMA AnswerKeeps ==
  ASSUME ApprovalInv, NEW t \in Task, NEW c \in CallId, Answer(t, c)
  PROVE  ApprovalInv'
<1> USE ApprovalsAssumption DEF ApprovalInv
<1>1. TypeOK'
  BY DEF TypeOK, Answer, Request, Slot
<1>2. CardsFresh'
  BY DEF TypeOK, Answer, CardsFresh, PendingCard
<1>3. OneThread' /\ Budget'
  BY DEF TypeOK, Answer, OneThread, Budget, Active, PendingCard
<1>4. Answers'
  <2>1. /\ slot[c].card \in 1 .. cards
        /\ slot[c].card \notin decided
        /\ \A d \in CallId : slot[d].status = "pending" /\ slot[d].card = slot[c].card => c = d
    BY DEF Answer, CardsFresh, PendingCard, TypeOK, Card
  <2>2. \A d \in CallId : slot[d].status = "used" => slot[d].card \in decided
    BY DEF CardsFresh
  <2> QED BY <2>1, <2>2 DEF TypeOK, Answer, Answers, InFlight, Slot
<1>5. SingleUse' /\ BudgetKept'
  BY DEF Answer, SingleUse, BudgetKept
<1> QED BY <1>1, <1>2, <1>3, <1>4, <1>5

\* A call is parked under an ID nobody uses: its thread is the loop that ends.
LEMMA ProposeKeeps ==
  ASSUME ApprovalInv, NEW t \in Task, NEW c \in CallId, Propose(t, c)
  PROVE  ApprovalInv'
<1> USE ApprovalsAssumption DEF ApprovalInv
<1>0. CASE ~Unknown(c)
  <2>1. TypeOK'
    BY <1>0 DEF TypeOK, Propose
  <2>2. CardsFresh'
    BY <1>0 DEF TypeOK, Propose, CardsFresh, PendingCard
  <2>3. OneThread' /\ Budget'
    BY <1>0 DEF TypeOK, Propose, OneThread, Budget, Active, PendingCard
  <2>4. Answers'
    BY <1>0 DEF TypeOK, Propose, Answers, InFlight
  <2>5. SingleUse' /\ BudgetKept'
    BY <1>0 DEF Propose, SingleUse, BudgetKept
  <2> QED BY <2>1, <2>2, <2>3, <2>4, <2>5
<1>1. CASE Unknown(c)
  <2>0. cards + 1 \in Card /\ cards' = cards + 1 /\ decided' = decided
    BY <1>1 DEF TypeOK, Propose, Card
  <2> PICK k \in Card : k = cards + 1
    BY <2>0
  <2>1. k \in Card /\ ~Active(t)' /\ Active(t) /\ pc[t] = "loop" /\ slot[c].status = "free"
    BY <1>1 DEF TypeOK, Propose, Card, Active, Unknown
  <2>2. /\ slot'[c] = [status |-> "pending", card |-> k, age |-> 0]
        /\ \A d \in CallId \ {c} : slot'[d] = slot[d]
        /\ parked'[k] = state[t]
        /\ \A j \in Card \ {k} : parked'[j] = parked[j]
    BY <1>1, <2>0 DEF TypeOK, Propose
  <2>3. TypeOK'
    <3>1. slot' \in [CallId -> Slot]
      BY <1>1 DEF TypeOK, Propose, Slot
    <3>2. parked' \in [Card -> State] /\ cards' \in 0 .. MaxCards
      BY <1>1, <2>0 DEF TypeOK, Propose
    <3>3. pc' \in [Task -> {"idle", "loop", "sent", "found", "resume"}]
      BY DEF TypeOK, Propose
    <3> QED BY <3>1, <3>2, <3>3 DEF TypeOK, Propose
  <2>4. ASSUME NEW j \in Card PROVE PendingCard(j)' <=> (PendingCard(j) \/ j = k)
    <3>1. PendingCard(j)' => PendingCard(j) \/ j = k
      BY <2>1, <2>2 DEF PendingCard
    <3>2. PendingCard(j) => PendingCard(j)'
      BY <2>1, <2>2 DEF PendingCard
    <3>3. PendingCard(k)'
      BY <2>1, <2>2 DEF PendingCard
    <3> QED BY <3>1, <3>2, <3>3
  <2>5. ASSUME NEW j \in Card, PendingCard(j) PROVE j # k
    BY <2>5 DEF CardsFresh, PendingCard, TypeOK
  <2>6. CardsFresh'
    <3>1. /\ \A d \in CallId : slot'[d].status # "free" => slot'[d].card \in 1 .. cards'
          /\ \A d \in CallId : slot'[d].status = "used" => slot'[d].card \in decided'
      BY <2>0, <2>2 DEF CardsFresh, TypeOK
    <3>2. \A d, e \in CallId : slot'[d].status = "pending" /\ slot'[e].status = "pending"
                               /\ slot'[d].card = slot'[e].card => d = e
      BY <2>1, <2>2 DEF CardsFresh, TypeOK
    <3>3. \A j \in Card : j > cards' \/ PendingCard(j)' => j \notin decided'
      BY <1>1, <2>4 DEF CardsFresh, Propose, TypeOK, Card
    <3>4. /\ \A j \in Card : j \notin decided' => runs'[j] = 0
          /\ \A u \in Task : pc'[u] = "resume" => req'[u].card \in decided' /\ runs'[req'[u].card] = 0
          /\ \A u, v \in Task : pc'[u] = "resume" /\ pc'[v] = "resume" /\ req'[u].card = req'[v].card => u = v
      BY DEF CardsFresh, Propose, TypeOK
    <3> QED BY <3>1, <3>2, <3>3, <3>4 DEF CardsFresh
  <2>7. ASSUME NEW u \in Task, Active(u)' PROVE Active(u) /\ u # t /\ state'[u] = state[u]
    BY <2>1, <2>7 DEF Propose, Active, TypeOK
  <2>8. OneThread'
    <3>1. \A u, v \in Task : Active(u)' /\ Active(v)' /\ state'[u].chain = state'[v].chain => u = v
      BY <2>7 DEF OneThread
    <3>2. \A u \in Task, j \in Card : Active(u)' /\ PendingCard(j)' => state'[u].chain # parked'[j].chain
      BY <2>1, <2>2, <2>4, <2>7 DEF OneThread
    <3>3. \A i, j \in Card : PendingCard(i)' /\ PendingCard(j)' /\ parked'[i].chain = parked'[j].chain => i = j
      BY <2>1, <2>2, <2>4, <2>5 DEF OneThread
    <3> QED BY <3>1, <3>2, <3>3 DEF OneThread
  <2>9. Budget'
    <3>1. UNCHANGED <<chains, actions>>
      BY DEF Propose
    <3>2. \A u \in Task : Active(u)' => state'[u].chain \in 1 .. chains' /\ actions'[state'[u].chain] = state'[u].attempts
      BY <2>7, <3>1 DEF Budget
    <3>3. \A j \in Card : PendingCard(j)' => parked'[j].chain \in 1 .. chains' /\ actions'[parked'[j].chain] = parked'[j].attempts
      BY <2>1, <2>2, <2>4, <3>1 DEF Budget
    <3> QED BY <3>1, <3>2, <3>3 DEF Budget
  <2>10. Answers'
    <3>1. \A u \in Task : InFlight(u)' => InFlight(u) /\ req'[u] = req[u]
      BY <2>1 DEF Propose, InFlight, TypeOK
    <3>2. cards' = cards + 1 /\ decided' = decided
      BY <1>1 DEF Propose
    <3> QED BY <2>1, <2>2, <3>1, <3>2 DEF Answers, TypeOK, Request
  <2>11. SingleUse' /\ BudgetKept'
    BY DEF Propose, SingleUse, BudgetKept
  <2> QED BY <2>3, <2>6, <2>8, <2>9, <2>10, <2>11
<1> QED BY <1>0, <1>1

\* Consuming a call: its thread goes on in the request.
LEMMA PopKeeps ==
  ASSUME ApprovalInv, NEW t \in Task, Pop(t)
  PROVE  ApprovalInv'
<1> USE ApprovalsAssumption DEF ApprovalInv
<1> DEFINE c == req[t].call
           k == slot[c].card
<1>0. c \in CallId /\ slot[c] \in Slot /\ pc[t] = "found"
  BY DEF TypeOK, Request, Pop
<1>1. CASE slot[c].status # "pending"
  <2>1. TypeOK'
    BY <1>0, <1>1 DEF TypeOK, Pop
  <2>2. CardsFresh'
    BY <1>0, <1>1 DEF TypeOK, Pop, CardsFresh, PendingCard
  <2>3. OneThread' /\ Budget'
    BY <1>0, <1>1 DEF TypeOK, Pop, OneThread, Budget, Active, PendingCard
  <2>4. Answers'
    BY <1>0, <1>1 DEF TypeOK, Pop, Answers, InFlight
  <2>5. SingleUse' /\ BudgetKept'
    BY <1>0, <1>1 DEF Pop, SingleUse, BudgetKept
  <2> QED BY <2>1, <2>2, <2>3, <2>4, <2>5
<1>2. CASE slot[c].status = "pending"
  <2>1. k \in Card /\ k \in 1 .. cards /\ PendingCard(k) /\ k \notin decided /\ runs[k] = 0
    BY <1>0, <1>2 DEF CardsFresh, PendingCard, TypeOK, Card
  <2>2. /\ slot'[c] = [status |-> "used", card |-> k, age |-> 0]
        /\ \A d \in CallId \ {c} : slot'[d] = slot[d]
    BY <1>0, <1>2 DEF Pop, Consumed, TypeOK, Slot
  <2>3. /\ req'[t].card = k /\ state'[t] = parked[k] /\ pc'[t] = "resume"
        /\ \A u \in Task \ {t} : req'[u] = req[u] /\ state'[u] = state[u] /\ pc'[u] = pc[u]
        /\ decided' = decided \union {k}
        /\ UNCHANGED <<parked, cards, chains, runs, actions>>
    BY <1>0, <1>2 DEF Pop, TypeOK, Request
  <2>4. TypeOK'
    <3>1. slot' \in [CallId -> Slot]
      BY <1>0, <1>2 DEF TypeOK, Pop, Consumed, Slot
    <3>2. req' \in [Task -> Request]
      BY <1>0, <1>2, <2>1 DEF TypeOK, Pop, Request
    <3>3. state' \in [Task -> State] /\ pc' \in [Task -> {"idle", "loop", "sent", "found", "resume"}]
      BY <1>0, <1>2, <2>1 DEF TypeOK, Pop
    <3> QED BY <2>1, <2>3, <3>1, <3>2, <3>3 DEF TypeOK
  <2>5. ASSUME NEW j \in Card PROVE PendingCard(j)' <=> (PendingCard(j) /\ j # k)
    <3>1. PendingCard(j)' => PendingCard(j) /\ j # k
      BY <1>0, <1>2, <2>2 DEF PendingCard, CardsFresh
    <3>2. PendingCard(j) /\ j # k => PendingCard(j)'
      BY <1>0, <1>2, <2>2 DEF PendingCard
    <3> QED BY <3>1, <3>2
  <2>6. CardsFresh'
    <3>1. /\ \A d \in CallId : slot'[d].status # "free" => slot'[d].card \in 1 .. cards'
          /\ \A d \in CallId : slot'[d].status = "used" => slot'[d].card \in decided'
      BY <2>1, <2>2, <2>3 DEF CardsFresh
    <3>2. \A d, e \in CallId : slot'[d].status = "pending" /\ slot'[e].status = "pending"
                               /\ slot'[d].card = slot'[e].card => d = e
      BY <2>2 DEF CardsFresh
    <3>3. \A j \in Card : j > cards' \/ PendingCard(j)' => j \notin decided'
      BY <2>1, <2>3, <2>5 DEF CardsFresh, TypeOK, Card
    <3>4. \A j \in Card : j \notin decided' => runs'[j] = 0
      BY <2>3 DEF CardsFresh
    <3>5. \A u \in Task : pc'[u] = "resume" => req'[u].card \in decided' /\ runs'[req'[u].card] = 0
      BY <2>1, <2>3 DEF CardsFresh
    <3>6. \A u, v \in Task : pc'[u] = "resume" /\ pc'[v] = "resume" /\ req'[u].card = req'[v].card => u = v
      BY <2>1, <2>3 DEF CardsFresh
    <3> QED BY <3>1, <3>2, <3>3, <3>4, <3>5, <3>6 DEF CardsFresh
  <2>7. \A u \in Task \ {t} : Active(u)' => Active(u) /\ state'[u] = state[u]
    BY <2>3 DEF Active
  <2>8. OneThread'
    <3>1. \A u, v \in Task : Active(u)' /\ Active(v)' /\ state'[u].chain = state'[v].chain => u = v
      BY <2>1, <2>3, <2>7 DEF OneThread
    <3>2. \A u \in Task, j \in Card : Active(u)' /\ PendingCard(j)' => state'[u].chain # parked'[j].chain
      BY <2>1, <2>3, <2>5, <2>7 DEF OneThread
    <3>3. \A i, j \in Card : PendingCard(i)' /\ PendingCard(j)' /\ parked'[i].chain = parked'[j].chain => i = j
      BY <2>3, <2>5 DEF OneThread
    <3> QED BY <3>1, <3>2, <3>3 DEF OneThread
  <2>9. Budget'
    BY <2>1, <2>3, <2>5, <2>7 DEF Budget
  <2>10. Answers'
    <3>1. \A u \in Task : InFlight(u)' => u # t /\ InFlight(u) /\ req'[u] = req[u]
      BY <2>3 DEF InFlight
    <3>2. ASSUME NEW u \in Task, InFlight(u), u # t, req[u].card = k
          PROVE  req[u].call = c
      BY <1>0, <1>2, <3>2 DEF Answers
    <3>3. ASSUME NEW u \in Task, InFlight(u), req[u].card \in decided
          PROVE  req[u].call # c
      BY <1>2, <3>3 DEF Answers
    <3> QED BY <1>0, <1>2, <2>1, <2>2, <2>3, <3>1, <3>2, <3>3 DEF Answers, TypeOK, Request
  <2>11. SingleUse' /\ BudgetKept'
    BY <2>3 DEF SingleUse, BudgetKept
  <2> QED BY <2>4, <2>6, <2>8, <2>9, <2>10, <2>11
<1> QED BY <1>1, <1>2

\* Executing a consumed call: it is the first time, and the only thread of the chain.
LEMMA ExecuteKeeps ==
  ASSUME ApprovalInv, NEW t \in Task, Execute(t)
  PROVE  ApprovalInv'
<1> USE ApprovalsAssumption DEF ApprovalInv
<1> DEFINE k == req[t].card
           n == state[t].chain
<1>1. /\ k \in Card /\ k \in decided /\ runs[k] = 0
      /\ n \in Chain /\ n \in 1 .. chains /\ actions[n] = state[t].attempts /\ Active(t)
      /\ state[t].attempts \in 0 .. MaxActions /\ state[t].attempts < MaxActions
  BY DEF Execute, CardsFresh, Budget, Active, TypeOK, State, Chain
<1>2. /\ pc'[t] = "loop" /\ state'[t].chain = n /\ state'[t].attempts = state[t].attempts + 1
      /\ \A u \in Task \ {t} : pc'[u] = pc[u] /\ state'[u] = state[u]
      /\ runs'[k] = 1 /\ \A j \in Card \ {k} : runs'[j] = runs[j]
      /\ actions'[n] = actions[n] + 1 /\ \A m \in Chain \ {n} : actions'[m] = actions[m]
      /\ UNCHANGED <<slot, parked, cards, chains, req, decided>>
  BY <1>1 DEF Execute, Counted, TypeOK, State
<1>3. TypeOK'
  <2>1. state' \in [Task -> State] /\ pc' \in [Task -> {"idle", "loop", "sent", "found", "resume"}]
    BY <1>1 DEF Execute, Counted, TypeOK, State
  <2>2. runs' \in [Card -> Nat] /\ actions' \in [Chain -> Nat]
    BY <1>1 DEF Execute, TypeOK
  <2> QED BY <1>2, <2>1, <2>2 DEF TypeOK
<1>4. \A j \in Card : PendingCard(j)' <=> PendingCard(j)
  BY <1>2 DEF PendingCard
<1>5. CardsFresh'
  BY <1>1, <1>2, <1>4 DEF CardsFresh, Execute
<1>6. \A u \in Task : Active(u)' => Active(u) /\ state'[u].chain = state[u].chain
  BY <1>1, <1>2 DEF Active
<1>7. OneThread'
  BY <1>2, <1>4, <1>6 DEF OneThread
<1>8. Budget'
  <2>1. ASSUME NEW u \in Task, Active(u)'
        PROVE  state'[u].chain \in 1 .. chains' /\ actions'[state'[u].chain] = state'[u].attempts
    <3>1. CASE u = t
      BY <1>1, <1>2, <3>1
    <3>2. CASE u # t
      <4>1. Active(u) /\ state'[u] = state[u] /\ state[u].chain # n
        BY <1>1, <1>2, <1>6, <2>1, <3>2 DEF OneThread
      <4>2. state[u].chain \in 1 .. chains /\ actions[state[u].chain] = state[u].attempts
        BY <4>1 DEF Budget
      <4>3. state[u].chain \in Chain
        BY <4>2 DEF TypeOK, Chain
      <4> QED BY <1>2, <4>1, <4>2, <4>3
    <3> QED BY <3>1, <3>2
  <2>2. \A j \in Card : PendingCard(j)' => parked'[j].chain \in 1 .. chains' /\ actions'[parked'[j].chain] = parked'[j].attempts
    BY <1>1, <1>2, <1>4 DEF Budget, OneThread, TypeOK, Chain
  <2>3. \A m \in Chain : m > chains' => actions'[m] = 0
    BY <1>1, <1>2 DEF Budget, TypeOK
  <2> QED BY <2>1, <2>2, <2>3 DEF Budget
<1>9. Answers'
  <2>1. \A u \in Task : InFlight(u)' => InFlight(u)
    BY <1>2 DEF InFlight
  <2> QED BY <1>2, <2>1 DEF Answers
<1>10. SingleUse' /\ BudgetKept'
  BY <1>1, <1>2 DEF SingleUse, BudgetKept, TypeOK
<1> QED BY <1>3, <1>5, <1>7, <1>8, <1>9, <1>10

\* A restart forgets every thread.
LEMMA RestartKeeps ==
  ASSUME ApprovalInv, Restart
  PROVE  ApprovalInv'
<1> USE ApprovalsAssumption DEF ApprovalInv
<1>1. TypeOK'
  BY DEF TypeOK, Restart, Slot, Free
<1>2. CardsFresh' /\ OneThread' /\ Budget' /\ Answers'
  BY DEF Restart, CardsFresh, OneThread, Budget, Answers, InFlight, Active, PendingCard, Free
<1>3. SingleUse' /\ BudgetKept'
  BY DEF Restart, SingleUse, BudgetKept
<1> QED BY <1>1, <1>2, <1>3

\* Time passes: what is pruned has no answer under way.
LEMMA TickKeeps ==
  ASSUME ApprovalInv, Tick
  PROVE  ApprovalInv'
<1> USE ApprovalsAssumption DEF ApprovalInv
<1>1. ASSUME NEW c \in CallId
      PROVE  /\ slot'[c] \in Slot
             /\ \/ slot'[c].status = "free"
                \/ /\ slot'[c].status = slot[c].status /\ slot'[c].card = slot[c].card
                   /\ slot'[c].age = slot[c].age + 1
             /\ slot'[c].status = "free" => slot[c].status = "free" \/ slot[c].age = TTL
  <2>1. slot[c] \in Slot /\ slot'[c] = Older(slot[c])
    BY DEF TypeOK, Tick
  <2>2. CASE slot[c].status = "free" \/ slot[c].age = TTL
    BY <2>1, <2>2 DEF Older, Free, Slot
  <2>3. CASE ~(slot[c].status = "free" \/ slot[c].age = TTL)
    BY <2>1, <2>3 DEF Older, Slot
  <2> QED BY <2>2, <2>3
<1>2. ASSUME NEW t \in Task
      PROVE  /\ req'[t] \in Request /\ req'[t].call = req[t].call /\ req'[t].card = req[t].card
             /\ InFlight(t) => req'[t].delay = req[t].delay + 1 /\ req[t].delay < MaxDelay
  BY DEF TypeOK, Tick, Request, InFlight
<1>3. UNCHANGED <<parked, cards, chains, pc, state, decided, runs, actions>>
  BY DEF Tick
<1>4. TypeOK'
  <2>1. slot' \in [CallId -> Slot] /\ req' \in [Task -> Request]
    BY <1>1, <1>2 DEF Tick
  <2> QED BY <1>3, <2>1 DEF TypeOK
<1>5. \A k \in Card : PendingCard(k)' => PendingCard(k)
  BY <1>1 DEF PendingCard
<1>6. CardsFresh'
  BY <1>1, <1>2, <1>3, <1>5 DEF CardsFresh
<1>7. OneThread' /\ Budget'
  BY <1>3, <1>5 DEF OneThread, Budget, Active
<1>8. Answers'
  <2> SUFFICES ASSUME NEW t \in Task, InFlight(t)'
               PROVE  /\ req'[t].card \in 1 .. cards'
                      /\ \A c \in CallId : slot'[c].status # "free" /\ slot'[c].card = req'[t].card => c = req'[t].call
                      /\ req'[t].card \in decided' =>
                            /\ slot'[req'[t].call].status = "used"
                            /\ slot'[req'[t].call].card = req'[t].card
                            /\ slot'[req'[t].call].age <= req'[t].delay
    BY DEF Answers
  <2>1. InFlight(t)
    BY <1>3 DEF InFlight
  <2>2. /\ req'[t].card \in 1 .. cards'
        /\ \A c \in CallId : slot'[c].status # "free" /\ slot'[c].card = req'[t].card => c = req'[t].call
    BY <1>1, <1>2, <1>3, <2>1 DEF Answers
  <2>3. ASSUME req'[t].card \in decided'
        PROVE  /\ slot'[req'[t].call].status = "used"
               /\ slot'[req'[t].call].card = req'[t].card
               /\ slot'[req'[t].call].age <= req'[t].delay
    <3> DEFINE c == req[t].call
    <3>1. /\ slot[c].status = "used" /\ slot[c].card = req[t].card
          /\ slot[c].age <= req[t].delay /\ req[t].delay < MaxDelay
          /\ req'[t].delay = req[t].delay + 1 /\ req'[t].call = c
      BY <1>2, <1>3, <2>1, <2>3 DEF Answers
    <3>2. c \in CallId /\ slot[c].age \in 0 .. TTL /\ req[t].delay \in 0 .. MaxDelay
      BY DEF TypeOK, Request, Slot
    <3>3. slot[c].age # TTL
      BY <3>1, <3>2
    <3>4. slot'[c].status = slot[c].status /\ slot'[c].card = slot[c].card /\ slot'[c].age = slot[c].age + 1
      BY <1>1, <3>1, <3>2, <3>3
    <3> QED BY <1>2, <3>1, <3>2, <3>4
  <2> QED BY <2>2, <2>3
<1>9. SingleUse' /\ BudgetKept'
  BY <1>3 DEF SingleUse, BudgetKept
<1> QED BY <1>4, <1>6, <1>7, <1>8, <1>9

\* Every step keeps the inductive invariant.
LEMMA ApprovalStep == ApprovalInv /\ [Next]_vars => ApprovalInv'
<1> SUFFICES ASSUME ApprovalInv, [Next]_vars PROVE ApprovalInv'
  OBVIOUS
<1>1. CASE UNCHANGED vars
  BY <1>1 DEF vars, ApprovalInv, TypeOK, CardsFresh, OneThread, Budget, Answers, SingleUse, BudgetKept,
     InFlight, Active, PendingCard
<1>2. CASE Next
  BY <1>2, ChatKeeps, QuietKeeps, AnswerKeeps, ProposeKeeps, PopKeeps, ExecuteKeeps, RestartKeeps, TickKeeps
     DEF Next
<1> QED BY <1>1, <1>2

-----------------------------------------------------------------------------
\* Every chain of approvals has one thread, which knows what was executed for it.
THEOREM ApprovalInvariant == Spec => []ApprovalInv
<1> QED BY ApprovalInit, ApprovalStep, PTL DEF Spec

\* A parked call is executed at most once (approvals.py pop, agent_loop.py:216).
THEOREM ApprovalSingleUse == Spec => []SingleUse
<1>1. ApprovalInv => SingleUse
  BY DEF ApprovalInv
<1> QED BY <1>1, ApprovalInvariant, PTL

\* No chain executes more than MAX_ACTIONS calls (recovery.py:9).
THEOREM ApprovalBudget == Spec => []BudgetKept
<1>1. ApprovalInv => BudgetKept
  BY DEF ApprovalInv
<1> QED BY <1>1, ApprovalInvariant, PTL

\* An answer to a decided call never decides another (approvals.py:68), as long as
\* answers are not under way for longer than an ID is remembered.
THEOREM ApprovalNoReplay == Spec => NoReplay
<1> DEFINE A == \A t \in Task : pc[t] = "found" /\ pc'[t] = "resume" => req[t].card \notin decided
<1>1. ApprovalInv /\ [Next]_vars => [A]_vars
  <2> SUFFICES ASSUME ApprovalInv, Next, NEW t \in Task, pc[t] = "found", pc'[t] = "resume",
                      req[t].card \in decided
               PROVE  FALSE
    BY DEF vars
  <2>1. slot[req[t].call].status = "used" /\ pc \in [Task -> {"idle", "loop", "sent", "found", "resume"}]
    BY DEF ApprovalInv, Answers, InFlight, TypeOK
  <2>2. ASSUME NEW u \in Task,
               \/ Chat(u) \/ Finish(u) \/ Get(u) \/ Pop(u) \/ Execute(u) \/ Decline(u)
               \/ \E c \in CallId : Propose(u, c) \/ Answer(u, c)
        PROVE  FALSE
    BY <2>1, <2>2 DEF Chat, Finish, Get, Pop, Execute, Decline, Propose, Answer
  <2>3. ASSUME Restart \/ Tick PROVE FALSE
    BY <2>1, <2>3 DEF Restart, Tick
  <2> QED BY <2>2, <2>3 DEF Next
<1> QED BY <1>1, ApprovalInvariant, PTL DEF Spec, NoReplay

-----------------------------------------------------------------------------
(* ControlPlane: what the calls under way hold.                             *)
(*                                                                         *)
(* A call holds the writes it has left and the documents nobody wrote since *)
(* it read them.  The invariant says what those writes may be, and what a   *)
(* document that is still unchanged has in common with the one that is      *)
(* about to replace it.                                                    *)

ControlDocs == (UNION {DocOf(id) : id \in Ids}) \cup {None}

WriteKinds == {"replace", "upsert", "recover", "look", "list", "jobs", "delete"}

ControlWrites == [how : WriteKinds, id : Ids, doc : ControlDocs]

\* A write has a document of the type of its ID; what a handler or the monitor
\* puts in the place of a job is never the result of a worker.
WriteOK(w, op) ==
    /\ w.how \in {"replace", "upsert", "recover", "look"} => w.doc \in DocOf(w.id)
    /\ w.how \in {"replace", "recover", "look"} /\ w.id \in Jobs => w.doc.status # "completed"
    /\ w.how \in {"recover", "look"} => w.id \in Jobs
    /\ w.how = "list" => op = "patch"
    /\ w.how = "jobs" => op = "reset"

OneField == {"pause", "resume", "update", "mode", "policy"}

\* Handlers that change a field of a pipeline have one write.
OneWrite(r) ==
    r.op \in OneField =>
        /\ Len(r.todo) = 1
        /\ r.todo[1].how \in {"replace", "upsert"}
        /\ r.id \in Pipelines => r.todo[1].how = "replace" /\ r.todo[1].id = r.id

Pausing(r) == Head(r.todo).how = "replace" /\ Len(r.todo) > 1

LastDoc(r) == r.todo[Len(r.todo)].doc

\* what the last write of a reset makes of a pipeline
ResetOf(now, doc) == doc = [now EXCEPT !.reset = @ + 1, !.status = doc.status]

\* A reset pauses, deletes jobs, and ends with the new generation.
ResetShape(r) ==
    r.op = "reset" =>
        /\ r.id \in Pipelines
        /\ r.todo # <<>>
        /\ r.todo[Len(r.todo)].how = "replace"
        /\ r.todo[Len(r.todo)].id = r.id
        /\ \A i \in DOMAIN r.todo :
               i < Len(r.todo) =>
                   \/ r.todo[i].how = "jobs"
                   \/ r.todo[i].how = "delete" /\ r.todo[i].id \in Jobs
                   \/ i = 1 /\ r.todo[i].how = "replace"
        /\ Pausing(r) => /\ Head(r.todo).id = r.id
                         /\ Head(r.todo).doc.status = "paused"
                         /\ ResetOf(Head(r.todo).doc, LastDoc(r))

CallOK(r) ==
    /\ r = [op |-> r.op, id |-> r.id, todo |-> r.todo, fresh |-> r.fresh]
    /\ r.todo \in Seq(ControlWrites)
    /\ r = Idle <=> r.todo = <<>>
    /\ r.fresh \subseteq Ids
    /\ \A i \in DOMAIN r.todo : WriteOK(r.todo[i], r.op)
    /\ OneWrite(r)
    /\ ResetShape(r)

\* A pipeline nobody wrote since differs from what replaces it in one field.
OwnField(now, r) ==
    /\ r.op \in {"pause", "resume"} => LastDoc(r) = [now EXCEPT !.status = LastDoc(r).status]
    /\ r.op \in {"update", "mode"} => LastDoc(r) = [now EXCEPT !.mode = LastDoc(r).mode]
    /\ r.op = "policy" => LastDoc(r) = now
    /\ r.op = "reset" => ResetOf(now, LastDoc(r)) /\ (~Pausing(r) => now.status = "paused")

\* An unchanged job was not finished by its worker; an unchanged pipeline is
\* as its handler read it or left it.
ViewOK(docs, r) ==
    /\ \A i \in DOMAIN r.todo :
           /\ r.todo[i].how \in {"replace", "recover", "look"}
           /\ r.todo[i].id \in Jobs \cap r.fresh
           /\ docs[r.todo[i].id] # None
           => docs[r.todo[i].id].status # "completed"
    /\ r.id \in Pipelines \cap r.fresh /\ docs[r.id] # None => OwnField(docs[r.id], r)

Holds(r, id) == \E i \in DOMAIN r.todo : r.todo[i].id = id
Creates(r, id) == \E i \in DOMAIN r.todo : r.todo[i].id = id /\ r.todo[i].how = "upsert"

\* The ID of a job that is being created is in no other call, and was never deleted.
NewJobsFresh(docs, calls, old) ==
    \A c \in Procs : \A j \in Jobs :
        Creates(calls[c], j) =>
            /\ Len(calls[c].todo) = 1
            /\ docs[j] = None
            /\ j \notin old
            /\ \A k \in Procs \ {c} : ~Holds(calls[k], j)

StoreOK(docs) ==
    /\ docs = [id \in Ids |-> docs[id]]
    /\ \A id \in Ids : docs[id] \in DocOf(id) \cup {None}

ControlState(docs, calls, old, n) ==
    /\ StoreOK(docs)
    /\ calls = [c \in Procs |-> calls[c]]
    /\ \A c \in Procs : CallOK(calls[c]) /\ ViewOK(docs, calls[c])
    /\ NewJobsFresh(docs, calls, old)
    /\ \A j \in Jobs \cap old : docs[j] = None
    /\ old \subseteq Ids
    /\ n \in 0..MaxRequests

ControlIInv == ControlState(store, call, gone, left)

\* Every ID has documents of one kind.
LEMMA ControlDocKinds ==
    /\ \A s \in Sources : s \in Ids /\ DocOf(s) = [kind : {"source"}, place : Places]
    /\ \A d \in Destinations :
           d \in Ids /\ DocOf(d) = [kind : {"destination"}, place : Places, enabled : BOOLEAN]
    /\ \A p \in Pipelines :
           /\ p \in Ids /\ p \notin Jobs
           /\ DocOf(p) = [kind : {"pipeline"}, sources : SUBSET Sources, destination : Destinations,
                          mode : Modes, status : {"active", "paused"}, reset : 0..MaxResets]
    /\ \A j \in Jobs :
           /\ j \in Ids /\ j \notin Pipelines
           /\ DocOf(j) = [kind : {"job"}, pipeline : Pipelines, ref : Refs, late : BOOLEAN,
                          status : {"pending", "processing", "completed", "failed", "cancelled"},
                          retries : 0..MAX_MANUAL_RETRIES \cup 0..MAX_RETRY_COUNT]
    /\ \A o \in Syncs :
           /\ o \in Ids /\ o \notin Jobs
           /\ DocOf(o) = [kind : {"sync"}, pipelines : SUBSET Pipelines,
                          status : {"running", "ready", "failed"}]
  BY ControlAssumption DEF DocOf, Ids

\* A document is the document of an ID.
LEMMA ControlDocsOf ==
  /\ None \in ControlDocs
  /\ \A id \in Ids : DocOf(id) \subseteq ControlDocs
  BY DEF ControlDocs

\* A write of a document of its ID is a write.
LEMMA ControlWriteIn ==
  ASSUME NEW how \in WriteKinds, NEW id \in Ids, NEW doc \in ControlDocs
  PROVE  /\ Write(how, id, doc) \in ControlWrites
         /\ Write(how, id, doc).how = how
         /\ Write(how, id, doc).id = id
         /\ Write(how, id, doc).doc = doc
  BY DEF Write, ControlWrites

\* SetToSeq lists the elements of a finite set.
LEMMA ControlSetToSeq ==
  ASSUME NEW S, IsFiniteSet(S)
  PROVE  /\ Cardinality(S) \in Nat
         /\ Cardinality(S) = 0 <=> S = {}
         /\ SetToSeq(S) \in [1..Cardinality(S) -> S]
         /\ SetToSeq(S) \in Seq(S)
         /\ Len(SetToSeq(S)) = Cardinality(S)
<1>1. Cardinality(S) \in Nat /\ (Cardinality(S) = 0 <=> S = {})
  BY FS_CardinalityType, FS_EmptySet
<1>2. PICK n \in Nat : ExistsBijection(1..n, S)
  BY FS_NatBijection
<1>3. IsFiniteSet(1..n) /\ Cardinality(1..n) = n
  BY FS_Interval
<1>4. Cardinality(S) = n
  BY <1>2, <1>3, FS_Bijection
<1>5. PICK f \in [1..n -> S] : IsInjective(f)
  BY <1>2 DEF ExistsBijection, Bijection, Injection
<1>6. SetToSeq(S) \in [1..Cardinality(S) -> S]
  BY <1>4, <1>5 DEF SetToSeq
<1> QED BY <1>1, <1>6

\* The sets the handlers list are finite.
LEMMA ControlFinite ==
  ASSUME NEW S \in SUBSET Ids
  PROVE  IsFiniteSet(S)
  BY ControlAssumption, FS_Subset

\* A call that takes up other work: it may hold the IDs it held before, those
\* of documents that exist and, alone, the ID of a job it creates.
Joins(docs, calls, old, c, r) ==
    /\ \A j \in Jobs :
           Creates(r, j) =>
               /\ Len(r.todo) = 1
               /\ docs[j] = None
               /\ j \notin old
               /\ \A k \in Procs \ {c} : ~Holds(calls[k], j)
    /\ \A j \in Jobs : Holds(r, j) /\ ~Creates(r, j) => docs[j] # None \/ Holds(calls[c], j)

LEMMA ControlCallKeeps ==
  ASSUME NEW docs, NEW calls, NEW old, NEW n, NEW m \in 0..MaxRequests, NEW c \in Procs, NEW r,
         ControlState(docs, calls, old, n),
         CallOK(r), ViewOK(docs, r), Joins(docs, calls, old, c, r)
  PROVE  ControlState(docs, [calls EXCEPT ![c] = r], old, m)
<1> DEFINE now == [calls EXCEPT ![c] = r]
<1>1. /\ calls = [k \in Procs |-> calls[k]]
      /\ NewJobsFresh(docs, calls, old)
      /\ \A k \in Procs : CallOK(calls[k]) /\ ViewOK(docs, calls[k])
  BY DEF ControlState
<1>2. now = [k \in Procs |-> now[k]] /\ now[c] = r /\ \A k \in Procs \ {c} : now[k] = calls[k]
  BY <1>1
<1> HIDE DEF now
<1>3. NewJobsFresh(docs, now, old)
  <2> SUFFICES ASSUME NEW c0 \in Procs, NEW j \in Jobs, Creates(now[c0], j)
               PROVE  /\ Len(now[c0].todo) = 1 /\ docs[j] = None /\ j \notin old
                      /\ \A k \in Procs \ {c0} : ~Holds(now[k], j)
    BY DEF NewJobsFresh
  <2>1. CASE c0 = c
    BY <2>1, <1>2 DEF Joins
  <2>2. CASE c0 # c
    <3>1. Creates(calls[c0], j)
      BY <2>2, <1>2
    <3>2. /\ Len(calls[c0].todo) = 1 /\ docs[j] = None /\ j \notin old
          /\ \A k \in Procs \ {c0} : ~Holds(calls[k], j)
      BY <3>1, <1>1 DEF NewJobsFresh
    <3>3. Holds(calls[c0], j)
      BY <3>1 DEF Creates, Holds
    <3>4. ~Holds(r, j)
      BY <2>2, <3>2, <3>3 DEF Joins
    <3> QED BY <2>2, <1>2, <3>2, <3>4
  <2> QED BY <2>1, <2>2
<1>4. \A k \in Procs : CallOK(now[k]) /\ ViewOK(docs, now[k])
  BY <1>1, <1>2
<1>5. ControlState(docs, now, old, m)
  BY <1>2, <1>3, <1>4 DEF ControlState
<1> QED BY <1>5 DEF now

\* Somebody else's write: the call no longer takes the document for unchanged.
Notices(q, id, s) == s = [q EXCEPT !.fresh = @ \ {id}]

LEMMA ControlShrunk ==
  ASSUME NEW q, CallOK(q), NEW id, NEW s, Notices(q, id, s)
  PROVE  /\ s.op = q.op /\ s.id = q.id /\ s.todo = q.todo /\ s.fresh = q.fresh \ {id}
         /\ CallOK(s)
<1>1. PICK o, i, t, f : q = [op |-> o, id |-> i, todo |-> t, fresh |-> f]
  BY DEF CallOK
<1>2. s = [op |-> o, id |-> i, todo |-> t, fresh |-> f \ {id}]
  BY <1>1 DEF Notices
<1>3. s.op = q.op /\ s.id = q.id /\ s.todo = q.todo /\ s.fresh = q.fresh \ {id}
  BY <1>1, <1>2
<1>4. s = [op |-> s.op, id |-> s.id, todo |-> s.todo, fresh |-> s.fresh]
  BY <1>2
<1>5. s = Idle <=> s.todo = <<>>
  <2>1. s = Idle => s.todo = <<>>
    <3>1. Idle.todo = <<>>
      BY DEF Idle
    <3> QED BY <3>1
  <2>2. ASSUME s.todo = <<>> PROVE s = Idle
    <3>1. q = Idle
      BY <2>2, <1>3 DEF CallOK
    <3>2. q.fresh = {} /\ q.op = "idle" /\ q.id = "" /\ q.todo = <<>>
      BY <3>1 DEF Idle
    <3>3. s.fresh = {}
      BY <3>2, <1>3
    <3> QED BY <3>2, <3>3, <1>3, <1>4 DEF Idle
  <2> QED BY <2>1, <2>2
<1>6. \A i1 \in DOMAIN s.todo : WriteOK(s.todo[i1], s.op)
  BY <1>3 DEF CallOK
<1>7. OneWrite(s)
  BY <1>3 DEF CallOK, OneWrite
<1>8. ResetShape(s)
  BY <1>3 DEF CallOK, ResetShape, Pausing, LastDoc
<1> QED BY <1>3, <1>4, <1>5, <1>6, <1>7, <1>8 DEF CallOK

LEMMA ControlShrunkView ==
  ASSUME NEW docs, NEW old, NEW q, CallOK(q), ViewOK(old, q),
         NEW id, NEW s, Notices(q, id, s),
         \A i \in Ids \ {id} : docs[i] = old[i]
  PROVE  ViewOK(docs, s)
<1>1. s.op = q.op /\ s.id = q.id /\ s.todo = q.todo /\ s.fresh = q.fresh \ {id}
  BY ControlShrunk
<1>2. q.fresh \subseteq Ids
  BY DEF CallOK
<1>3. \A i \in s.fresh : i \in q.fresh /\ docs[i] = old[i]
  BY <1>1, <1>2
<1>4. \A now : OwnField(now, s) = OwnField(now, q)
  BY <1>1 DEF OwnField, LastDoc, Pausing
<1>5. \A i \in DOMAIN s.todo :
           /\ s.todo[i].how \in {"replace", "recover", "look"}
           /\ s.todo[i].id \in Jobs \cap s.fresh
           /\ docs[s.todo[i].id] # None
           => docs[s.todo[i].id].status # "completed"
  BY <1>1, <1>3 DEF ViewOK
<1>6. s.id \in Pipelines \cap s.fresh /\ docs[s.id] # None => OwnField(docs[s.id], s)
  BY <1>1, <1>3, <1>4 DEF ViewOK
<1> QED BY <1>5, <1>6 DEF ViewOK

\* A write of doc by call c, which has the work r left.
WriteBy(docs, calls, old, c, r, id, doc, later, now, new) ==
    /\ id \in Ids /\ doc \in DocOf(id) \cup {None}
    /\ Holds(calls[c], id)
    /\ later = [docs EXCEPT ![id] = doc]
    /\ CallOK(r) /\ ViewOK(later, r)
    /\ \A j \in Jobs : ~Creates(r, j) /\ (Holds(r, j) => Holds(calls[c], j))
    /\ now = [k \in Procs |-> now[k]] /\ now[c] = r
    /\ \A k \in Procs \ {c} : Notices(calls[k], id, now[k])
    /\ new = old \/ new = old \cup {id}
    /\ id \in Jobs /\ doc # None => id \notin new

LEMMA ControlWriteKeeps ==
  ASSUME NEW docs, NEW calls, NEW old, NEW n, NEW c \in Procs,
         NEW r, NEW id, NEW doc, NEW later, NEW now, NEW new,
         ControlState(docs, calls, old, n),
         WriteBy(docs, calls, old, c, r, id, doc, later, now, new)
  PROVE  ControlState(later, now, new, n)
<1> USE DEF WriteBy
<1>1. /\ calls = [k \in Procs |-> calls[k]]
      /\ NewJobsFresh(docs, calls, old)
      /\ \A k \in Procs : CallOK(calls[k]) /\ ViewOK(docs, calls[k])
      /\ StoreOK(docs)
      /\ \A j \in Jobs \cap old : docs[j] = None
      /\ old \subseteq Ids /\ n \in 0..MaxRequests
  BY DEF ControlState
<1>2. /\ now = [k \in Procs |-> now[k]] /\ now[c] = r
      /\ \A k \in Procs \ {c} : Notices(calls[k], id, now[k])
  OBVIOUS
<1>3. /\ later = [i \in Ids |-> later[i]]
      /\ later[id] = doc
      /\ \A i \in Ids \ {id} : later[i] = docs[i]
  BY <1>1 DEF StoreOK
<1>4. StoreOK(later)
  <2>1. \A i \in Ids : later[i] \in DocOf(i) \cup {None}
    BY <1>1, <1>3 DEF StoreOK
  <2> QED BY <2>1, <1>3 DEF StoreOK
<1>5. ASSUME NEW k \in Procs \ {c} PROVE CallOK(now[k]) /\ now[k].todo = calls[k].todo
  <2>1. PICK q, s : q = calls[k] /\ s = now[k]
    OBVIOUS
  <2>2. CallOK(q) /\ Notices(q, id, s)
    BY <1>1, <1>2, <2>1
  <2>3. CallOK(s) /\ s.todo = q.todo
    BY <2>2, ControlShrunk
  <2> QED BY <2>1, <2>3
<1>6. ASSUME NEW k \in Procs \ {c} PROVE ViewOK(later, now[k])
  <2>1. PICK q, s : q = calls[k] /\ s = now[k]
    OBVIOUS
  <2>2. CallOK(q) /\ ViewOK(docs, q) /\ Notices(q, id, s)
    BY <1>1, <1>2, <2>1
  <2>3. ViewOK(later, s)
    BY <1>3, <2>2, ControlShrunkView
  <2> QED BY <2>1, <2>3
<1>7. \A k \in Procs \ {c} : \A j \in Jobs :
          (Holds(now[k], j) <=> Holds(calls[k], j)) /\ (Creates(now[k], j) <=> Creates(calls[k], j))
  BY <1>5 DEF Holds, Creates
<1>8. NewJobsFresh(later, now, new)
  <2> SUFFICES ASSUME NEW c0 \in Procs, NEW j \in Jobs, Creates(now[c0], j)
               PROVE  /\ Len(now[c0].todo) = 1 /\ later[j] = None /\ j \notin new
                      /\ \A k \in Procs \ {c0} : ~Holds(now[k], j)
    BY DEF NewJobsFresh
  <2>1. c0 # c
    BY <1>2
  <2>2. Creates(calls[c0], j)
    BY <2>1, <1>7
  <2>3. /\ Len(calls[c0].todo) = 1 /\ docs[j] = None /\ j \notin old
        /\ \A k \in Procs \ {c0} : ~Holds(calls[k], j)
    BY <2>2, <1>1 DEF NewJobsFresh
  <2>4. j # id /\ ~Holds(r, j)
    BY <2>1, <2>3
  <2>5. later[j] = None /\ j \notin new
    BY <2>3, <2>4, <1>3, ControlDocKinds
  <2> QED BY <2>1, <2>3, <2>4, <2>5, <1>2, <1>5, <1>7
<1>9. \A j \in Jobs \cap new : later[j] = None
  BY <1>1, <1>3, ControlDocKinds
<1>10. \A k \in Procs : CallOK(now[k]) /\ ViewOK(later, now[k])
  BY <1>2, <1>5, <1>6
<1>11. new \subseteq Ids
  BY <1>1
<1> QED BY <1>1, <1>2, <1>4, <1>8, <1>9, <1>10, <1>11 DEF ControlState

-----------------------------------------------------------------------------
(* ControlPlane: requests begin.                                            *)

LEMMA ControlTakesUp ==
  ASSUME ControlIInv, NEW c \in Procs, NEW r, CallOK(r), ViewOK(store, r),
         Joins(store, call, gone, c, r),
         call' = [call EXCEPT ![c] = r], UNCHANGED <<store, gone>>, left' \in 0..MaxRequests
  PROVE  ControlIInv'
<1>1. ControlState(store, [call EXCEPT ![c] = r], gone, left')
  BY ControlCallKeeps DEF ControlIInv
<1> QED BY <1>1 DEF ControlIInv

\* What a begun request is, and what of the state it leaves alone.
LEMMA ControlBegun ==
  ASSUME ControlIInv, NEW c \in Calls, NEW op, NEW id, NEW fresh, NEW todo,
         Begin(c, op, id, fresh, todo),
         NEW r, r = [op |-> op, id |-> id, todo |-> todo, fresh |-> fresh]
  PROVE  /\ c \in Procs
         /\ r.op = op /\ r.id = id /\ r.todo = todo /\ r.fresh = fresh
         /\ call' = [call EXCEPT ![c] = r]
         /\ UNCHANGED <<store, gone>>
         /\ left' \in 0..MaxRequests
<1>1. left \in 0..MaxRequests /\ MaxRequests \in Nat
  BY ControlAssumption DEF ControlIInv, ControlState
<1> QED BY <1>1 DEF Begin, Procs

\* The work of a request with one write.
Alone(op, id, fresh, how, doc) ==
    /\ id \in Ids /\ fresh \subseteq Ids
    /\ how \in {"upsert", "replace", "delete"} /\ doc \in ControlDocs
    /\ how # "delete" => doc \in DocOf(id)
    /\ op # "reset"
    /\ op \in OneField => how # "delete" /\ (id \in Pipelines => how = "replace")
    /\ id \in Jobs =>
           \/ how = "upsert" /\ FreshId(id)
           \/ how = "replace" /\ Exists(id) /\ doc.status # "completed" /\ store[id].status # "completed"
    /\ id \in Pipelines =>
           /\ op \in {"pause", "resume"} => doc = [store[id] EXCEPT !.status = doc.status]
           /\ op \in {"update", "mode"} => doc = [store[id] EXCEPT !.mode = doc.mode]
           /\ op = "policy" => doc = store[id]

LEMMA ControlOneWrite ==
  ASSUME ControlIInv, NEW c \in Calls, NEW op, NEW id, NEW fresh, NEW how, NEW doc,
         Begin(c, op, id, fresh, <<Write(how, id, doc)>>), Alone(op, id, fresh, how, doc)
  PROVE  ControlIInv'
<1> DEFINE w == Write(how, id, doc)
           todo == <<w>>
           r == [op |-> op, id |-> id, todo |-> todo, fresh |-> fresh]
<1>1. /\ c \in Procs
      /\ r.op = op /\ r.id = id /\ r.todo = todo /\ r.fresh = fresh
      /\ call' = [call EXCEPT ![c] = r]
      /\ UNCHANGED <<store, gone>>
      /\ left' \in 0..MaxRequests
  BY ControlBegun
<1>2. w \in ControlWrites /\ w.how = how /\ w.id = id /\ w.doc = doc
  BY ControlWriteIn DEF Alone, WriteKinds
<1> HIDE DEF w
<1>3. todo \in Seq(ControlWrites) /\ Len(todo) = 1 /\ todo[1] = w /\ DOMAIN todo = {1} /\ todo # <<>>
  BY <1>2
<1>4. r = [op |-> r.op, id |-> r.id, todo |-> r.todo, fresh |-> r.fresh] /\ r # Idle
  BY <1>1, <1>3 DEF Idle
<1> HIDE DEF r, todo
<1>5. CallOK(r)
  <2>1. WriteOK(w, op)
    BY <1>2 DEF Alone, WriteOK
  <2>2. OneWrite(r)
    BY <1>1, <1>2, <1>3 DEF Alone, OneWrite
  <2>3. ResetShape(r)
    BY <1>1 DEF Alone, ResetShape
  <2> QED BY <1>1, <1>3, <1>4, <2>1, <2>2, <2>3 DEF Alone, CallOK
<1>6. LastDoc(r) = doc
  BY <1>1, <1>2, <1>3 DEF LastDoc
<1>7. ViewOK(store, r)
  <2>1. id \in Pipelines => OwnField(store[id], r)
    BY <1>1, <1>6 DEF Alone, OwnField
  <2>2. id \in Jobs /\ how = "replace" => store[id].status # "completed"
    BY DEF Alone
  <2>3. how = "upsert" \/ how = "replace" \/ how = "delete"
    BY DEF Alone
  <2> QED BY <1>1, <1>2, <1>3, <2>1, <2>2, <2>3 DEF ViewOK
<1>8. Joins(store, call, gone, c, r)
  <2>1. \A j : Holds(r, j) <=> j = id
    BY <1>1, <1>2, <1>3 DEF Holds
  <2>2. \A j : Creates(r, j) <=> j = id /\ how = "upsert"
    BY <1>1, <1>2, <1>3 DEF Creates
  <2>3. FreshId(id) => /\ store[id] = None /\ id \notin gone
                       /\ \A k \in Procs : ~Holds(call[k], id)
    BY DEF FreshId, Exists, Holds
  <2>4. id \in Jobs /\ how = "upsert" => FreshId(id)
    BY DEF Alone
  <2>5. id \in Jobs /\ how # "upsert" => store[id] # None
    BY DEF Alone, Exists
  <2> QED BY <1>1, <1>3, <2>1, <2>2, <2>3, <2>4, <2>5 DEF Joins
<1> QED BY <1>1, <1>5, <1>7, <1>8, ControlTakesUp

\* The work of a request with several writes, of no job.
LEMMA ControlManyWrites ==
  ASSUME ControlIInv, NEW c \in Calls, NEW op, NEW id, NEW fresh \in SUBSET Ids,
         NEW todo \in Seq(ControlWrites),
         Begin(c, op, id, fresh, todo), todo # <<>>,
         op \notin OneField \cup {"reset"},
         \A i \in DOMAIN todo :
             /\ todo[i].id \notin Jobs
             /\ \/ todo[i].how \in {"upsert", "replace"} /\ todo[i].doc \in DocOf(todo[i].id)
                \/ todo[i].how = "list" /\ op = "patch"
  PROVE  ControlIInv'
<1> DEFINE r == [op |-> op, id |-> id, todo |-> todo, fresh |-> fresh]
<1>1. /\ c \in Procs
      /\ r.op = op /\ r.id = id /\ r.todo = todo /\ r.fresh = fresh
      /\ call' = [call EXCEPT ![c] = r]
      /\ UNCHANGED <<store, gone>>
      /\ left' \in 0..MaxRequests
  BY ControlBegun
<1>2. r = [op |-> r.op, id |-> r.id, todo |-> r.todo, fresh |-> r.fresh] /\ r # Idle
  BY <1>1 DEF Idle
<1> HIDE DEF r
<1>3. CallOK(r)
  <2>1. \A i \in DOMAIN todo : WriteOK(todo[i], op)
    BY DEF WriteOK
  <2>2. OneWrite(r) /\ ResetShape(r)
    BY <1>1 DEF OneWrite, ResetShape
  <2> QED BY <1>1, <1>2, <2>1, <2>2 DEF CallOK
<1>4. ViewOK(store, r)
  <2>1. \A now : OwnField(now, r)
    BY <1>1 DEF OwnField, OneField
  <2> QED BY <1>1, <2>1 DEF ViewOK
<1>5. Joins(store, call, gone, c, r)
  <2>1. \A j \in Jobs : ~Holds(r, j) /\ ~Creates(r, j)
    BY <1>1 DEF Holds, Creates
  <2> QED BY <2>1 DEF Joins
<1> QED BY <1>1, <1>3, <1>4, <1>5, ControlTakesUp

\* A document that exists is one of its ID.
LEMMA ControlStored ==
  ASSUME ControlIInv, NEW id \in Ids, Exists(id)
  PROVE  store[id] \in DocOf(id) /\ store[id] \in ControlDocs
  BY ControlDocsOf DEF ControlIInv, ControlState, StoreOK, Exists

\* Sources and destinations are created, changed and deleted by one write.
LEMMA ControlSourceRequest ==
  ASSUME ControlIInv, NEW c \in Calls, NEW s \in Sources, NEW place \in Places,
         CreateSource(c, s, place) \/ UpdateSource(c, s, place) \/ DeleteSource(c, s)
  PROVE  ControlIInv'
<1>1. /\ s \in Ids /\ s \notin Jobs /\ s \notin Pipelines /\ SourceDoc(place) \in DocOf(s)
      /\ SourceDoc(place) \in ControlDocs /\ None \in ControlDocs
  BY ControlDocKinds, ControlDocsOf, ControlAssumption DEF SourceDoc
<1>2. CASE CreateSource(c, s, place)
  <2>1. Alone("create", s, {}, "upsert", SourceDoc(place))
    BY <1>1 DEF Alone, OneField
  <2> QED BY <1>2, <2>1, ControlOneWrite DEF CreateSource
<1>3. CASE UpdateSource(c, s, place)
  <2>1. Alone("update", s, {s}, "upsert", SourceDoc(place))
    BY <1>1 DEF Alone, OneField
  <2> QED BY <1>3, <2>1, ControlOneWrite DEF UpdateSource
<1>4. CASE DeleteSource(c, s)
  <2>1. Alone("delete", s, {}, "delete", None)
    BY <1>1 DEF Alone, OneField
  <2> QED BY <1>4, <2>1, ControlOneWrite DEF DeleteSource
<1> QED BY <1>2, <1>3, <1>4

LEMMA ControlDestinationRequest ==
  ASSUME ControlIInv, NEW c \in Calls, NEW d \in Destinations, NEW place \in Places, NEW on \in BOOLEAN,
         \/ CreateDestination(c, d, place, on)
         \/ UpdateDestination(c, d, place, on)
         \/ DeleteDestination(c, d)
  PROVE  ControlIInv'
<1>1. /\ d \in Ids /\ d \notin Jobs /\ d \notin Pipelines /\ DestinationDoc(place, on) \in DocOf(d)
      /\ DestinationDoc(place, on) \in ControlDocs /\ None \in ControlDocs
  BY ControlDocKinds, ControlDocsOf, ControlAssumption DEF DestinationDoc
<1>2. CASE CreateDestination(c, d, place, on)
  <2>1. Alone("create", d, {}, "upsert", DestinationDoc(place, on))
    BY <1>1 DEF Alone, OneField
  <2> QED BY <1>2, <2>1, ControlOneWrite DEF CreateDestination
<1>3. CASE UpdateDestination(c, d, place, on)
  <2>1. Alone("update", d, {d}, "upsert", DestinationDoc(place, on))
    BY <1>1 DEF Alone, OneField
  <2> QED BY <1>3, <2>1, ControlOneWrite DEF UpdateDestination
<1>4. CASE DeleteDestination(c, d)
  <2>1. Alone("delete", d, {}, "delete", None)
    BY <1>1 DEF Alone, OneField
  <2> QED BY <1>4, <2>1, ControlOneWrite DEF DeleteDestination
<1> QED BY <1>2, <1>3, <1>4

\* A pipeline is created paused, and changed in one field.
LEMMA ControlPipelineRequest ==
  ASSUME ControlIInv, NEW c \in Calls, NEW p \in Pipelines, NEW mode \in Modes,
         NEW srcs \in SUBSET Sources, NEW d \in Destinations,
         \/ CreatePipeline(c, p, srcs, d, mode)
         \/ DeletePipeline(c, p)
         \/ UpdatePipeline(c, p, mode)
         \/ SetProcessingMode(c, p, mode)
         \/ UpdateResourcePolicy(c, p)
         \/ PausePipeline(c, p)
         \/ ResumePipeline(c, p)
  PROVE  ControlIInv'
<1>1. p \in Ids /\ p \notin Jobs /\ DocOf(p) \subseteq ControlDocs /\ None \in ControlDocs
  BY ControlDocKinds, ControlDocsOf
<1> DEFINE PipelineDocs == [kind : {"pipeline"}, sources : SUBSET Sources, destination : Destinations,
                            mode : Modes, status : {"active", "paused"}, reset : 0..MaxResets]
<1>2. DocOf(p) = PipelineDocs
  BY ControlDocKinds
<1>3. Exists(p) => store[p] \in PipelineDocs
  BY <1>1, <1>2, ControlStored
<1>4. CASE CreatePipeline(c, p, srcs, d, mode)
  <2>1. PipelineDoc(srcs, d, mode) \in PipelineDocs
    BY ControlAssumption DEF PipelineDoc
  <2>2. Alone("create", p, {}, "upsert", PipelineDoc(srcs, d, mode))
    BY <1>1, <1>2, <2>1 DEF Alone, OneField
  <2> QED BY <1>4, <2>2, ControlOneWrite DEF CreatePipeline
<1>5. CASE DeletePipeline(c, p)
  <2>1. Alone("delete", p, {}, "delete", None)
    BY <1>1 DEF Alone, OneField
  <2> QED BY <1>5, <2>1, ControlOneWrite DEF DeletePipeline
<1>6. ASSUME NEW op \in OneField, NEW doc \in PipelineDocs, Revise(c, op, p, doc),
             op \in {"pause", "resume"} => doc = [store[p] EXCEPT !.status = doc.status],
             op \in {"update", "mode"} => doc = [store[p] EXCEPT !.mode = doc.mode],
             op = "policy" => doc = store[p]
      PROVE  ControlIInv'
  <2>1. Alone(op, p, {p}, "replace", doc)
    BY <1>1, <1>2, <1>6 DEF Alone, OneField
  <2> QED BY <1>6, <2>1, ControlOneWrite DEF Revise
<1>7. CASE UpdatePipeline(c, p, mode) \/ SetProcessingMode(c, p, mode)
  <2> DEFINE doc == [store[p] EXCEPT !.mode = mode]
  <2>1. doc \in PipelineDocs /\ doc.mode = mode
    BY <1>3, <1>7 DEF UpdatePipeline, SetProcessingMode
  <2> HIDE DEF PipelineDocs
  <2>2. Revise(c, "update", p, doc) \/ Revise(c, "mode", p, doc)
    BY <1>7 DEF UpdatePipeline, SetProcessingMode
  <2>3. doc = [store[p] EXCEPT !.mode = doc.mode]
    BY <2>1
  <2> HIDE DEF doc
  <2> QED BY <1>6, <2>1, <2>2, <2>3 DEF OneField
<1>8. CASE PausePipeline(c, p) \/ ResumePipeline(c, p)
  <2>1. PICK status \in {"paused", "active"} :
            \/ Revise(c, "pause", p, [store[p] EXCEPT !.status = status])
            \/ Revise(c, "resume", p, [store[p] EXCEPT !.status = status])
    BY <1>8 DEF PausePipeline, ResumePipeline
  <2> DEFINE doc == [store[p] EXCEPT !.status = status]
  <2>2. doc \in PipelineDocs /\ doc.status = status
    BY <1>3, <1>8 DEF PausePipeline, ResumePipeline
  <2> HIDE DEF PipelineDocs
  <2>3. doc = [store[p] EXCEPT !.status = doc.status]
    BY <2>2
  <2>4. Revise(c, "pause", p, doc) \/ Revise(c, "resume", p, doc)
    BY <2>1
  <2> HIDE DEF doc
  <2> QED BY <1>6, <2>2, <2>3, <2>4 DEF OneField
<1>9. CASE UpdateResourcePolicy(c, p)
  <2>1. store[p] \in PipelineDocs /\ Revise(c, "policy", p, store[p])
    BY <1>3, <1>9 DEF UpdateResourcePolicy
  <2> HIDE DEF PipelineDocs
  <2> QED BY <1>6, <2>1 DEF OneField
<1> QED BY <1>4, <1>5, <1>7, <1>8, <1>9

\* A job is created under a new ID; only a failed or pending one is changed.
LEMMA ControlJobRequest ==
  ASSUME ControlIInv, NEW c \in Calls, NEW j \in Jobs, NEW p \in Pipelines, NEW ref \in Refs,
         CreateJobsBulk(c, j, p, ref) \/ CancelJob(c, j) \/ RetryJob(c, j)
  PROVE  ControlIInv'
<1> DEFINE JobDocs == [kind : {"job"}, pipeline : Pipelines, ref : Refs, late : BOOLEAN,
                       status : {"pending", "processing", "completed", "failed", "cancelled"},
                       retries : 0..MAX_MANUAL_RETRIES \cup 0..MAX_RETRY_COUNT]
<1>1. j \in Ids /\ j \notin Pipelines /\ DocOf(j) \subseteq ControlDocs /\ DocOf(j) = JobDocs
  BY ControlDocKinds, ControlDocsOf
<1>2. Exists(j) => store[j] \in JobDocs
  BY <1>1, ControlStored
<1>3. MAX_RETRY_COUNT \in Nat /\ MAX_MANUAL_RETRIES \in Nat
  BY ControlAssumption
<1>4. CASE CreateJobsBulk(c, j, p, ref)
  <2>1. JobDoc(p, ref) \in JobDocs
    BY <1>3 DEF JobDoc
  <2> HIDE DEF JobDocs
  <2>2. FreshId(j)
    BY <1>4 DEF CreateJobsBulk
  <2>3. Alone("create", j, {}, "upsert", JobDoc(p, ref))
    BY <1>1, <2>1, <2>2 DEF Alone, OneField
  <2> QED BY <1>4, <2>3, ControlOneWrite DEF CreateJobsBulk
<1>5. CASE CancelJob(c, j)
  <2> DEFINE doc == [store[j] EXCEPT !.status = "cancelled"]
  <2>1. Exists(j) /\ store[j].status = "pending" /\ Revise(c, "cancel", j, doc)
    BY <1>5 DEF CancelJob
  <2>2. doc \in JobDocs /\ doc.status = "cancelled"
    BY <1>2, <2>1
  <2> HIDE DEF JobDocs, doc
  <2>3. Alone("cancel", j, {j}, "replace", doc)
    BY <1>1, <2>1, <2>2 DEF Alone, OneField
  <2> QED BY <2>1, <2>3, ControlOneWrite DEF Revise
<1>6. CASE RetryJob(c, j)
  <2> DEFINE doc == Retried(store[j])
  <2>1. /\ Exists(j) /\ store[j].status = "failed" /\ Revise(c, "retry", j, doc)
        /\ store[j].retries < MAX_MANUAL_RETRIES
    BY <1>6 DEF RetryJob
  <2>2. PICK n : n = store[j].retries + 1
    OBVIOUS
  <2>3. store[j].retries \in Nat
    BY <1>2, <1>3, <2>1
  <2>4. n \in 0..MAX_MANUAL_RETRIES
    BY <2>1, <2>2, <2>3, <1>3
  <2>5. doc = [store[j] EXCEPT !.status = "pending", !.late = FALSE, !.retries = n]
    BY <2>2 DEF Retried
  <2>6. doc \in JobDocs /\ doc.status = "pending"
    BY <1>2, <2>1, <2>4, <2>5
  <2> HIDE DEF JobDocs, doc
  <2>7. Alone("retry", j, {j}, "replace", doc)
    BY <1>1, <2>1, <2>6 DEF Alone, OneField
  <2> QED BY <2>1, <2>7, ControlOneWrite DEF Revise
<1> QED BY <1>4, <1>5, <1>6

\* The progress of a synchronisation.
LEMMA ControlSyncRequest ==
  ASSUME ControlIInv, NEW c \in Calls, NEW o \in Syncs, NEW status \in {"running", "ready", "failed"},
         GetSourceSync(c, o, status)
  PROVE  ControlIInv'
<1> DEFINE doc == [store[o] EXCEPT !.status = status]
<1>1. o \in Ids /\ o \notin Jobs /\ o \notin Pipelines /\ DocOf(o) \subseteq ControlDocs
  BY ControlDocKinds, ControlDocsOf, ControlAssumption
<1>2. Exists(o) /\ Begin(c, "progress", o, {o}, <<Write("upsert", o, doc)>>)
  BY DEF GetSourceSync
<1>3. store[o] \in DocOf(o)
  BY <1>1, <1>2, ControlStored
<1>4. doc \in DocOf(o)
  <2>1. DocOf(o) = [kind : {"sync"}, pipelines : SUBSET Pipelines, status : {"running", "ready", "failed"}]
    BY ControlDocKinds
  <2> QED BY <1>3, <2>1
<1> HIDE DEF doc
<1>5. Alone("progress", o, {o}, "upsert", doc)
  BY <1>1, <1>4 DEF Alone, OneField
<1> QED BY <1>2, <1>5, ControlOneWrite

\* A pipeline that is activated, replayed or both.
LEMMA ControlReplayed ==
  ASSUME ControlIInv, NEW p \in Pipelines, Exists(p),
         NEW status \in {"active", "paused"}, NEW again \in BOOLEAN,
         again => store[p].reset < MaxResets
  PROVE  [store[p] EXCEPT !.status = status, !.reset = IF again THEN @ + 1 ELSE @] \in DocOf(p)
<1>1. DocOf(p) = [kind : {"pipeline"}, sources : SUBSET Sources, destination : Destinations,
                  mode : Modes, status : {"active", "paused"}, reset : 0..MaxResets]
  BY ControlDocKinds
<1>2. store[p] \in DocOf(p)
  BY ControlDocKinds, ControlStored
<1>3. store[p].reset \in 0..MaxResets /\ MaxResets \in Nat
  BY <1>1, <1>2, ControlAssumption
<1>4. PICK n : n = IF again THEN store[p].reset + 1 ELSE store[p].reset
  OBVIOUS
<1>5. n \in 0..MaxResets
  BY <1>3, <1>4
<1>6. PICK old : old = store[p]
  OBVIOUS
<1>7. [old EXCEPT !.status = status, !.reset = n] \in DocOf(p)
  <2>1. old \in [kind : {"pipeline"}, sources : SUBSET Sources, destination : Destinations,
                 mode : Modes, status : {"active", "paused"}, reset : 0..MaxResets]
    BY <1>1, <1>2, <1>6
  <2>2. [old EXCEPT !.status = status]
            \in [kind : {"pipeline"}, sources : SUBSET Sources, destination : Destinations,
                 mode : Modes, status : {"active", "paused"}, reset : 0..MaxResets]
    BY <2>1
  <2>3. PICK half : half = [old EXCEPT !.status = status]
    OBVIOUS
  <2>4. [half EXCEPT !.reset = n]
            \in [kind : {"pipeline"}, sources : SUBSET Sources, destination : Destinations,
                 mode : Modes, status : {"active", "paused"}, reset : 0..MaxResets]
    BY <1>5, <2>2, <2>3
  <2>5. [old EXCEPT !.status = status, !.reset = n] = [half EXCEPT !.reset = n]
    BY <2>3
  <2> QED BY <1>1, <2>4, <2>5
<1>8. [old EXCEPT !.status = status, !.reset = IF again THEN @ + 1 ELSE @]
          = [old EXCEPT !.status = status, !.reset = n]
  BY <1>4, <1>6
<1> QED BY <1>6, <1>7, <1>8

\* Patching a destination, which is replayed when it is enabled.
LEMMA ControlPatch ==
  ASSUME ControlIInv, NEW c \in Calls, NEW d \in Destinations, NEW on \in BOOLEAN,
         PatchDestination(c, d, on)
  PROVE  ControlIInv'
<1> DEFINE doc == [store[d] EXCEPT !.enabled = on]
           w == Write("upsert", d, doc)
           list == Write("list", d, None)
<1>1. /\ d \in Ids /\ d \notin Jobs /\ Exists(d) /\ DocOf(d) \subseteq ControlDocs /\ None \in ControlDocs
      /\ DocOf(d) = [kind : {"destination"}, place : Places, enabled : BOOLEAN]
  BY ControlDocKinds, ControlDocsOf, ControlAssumption DEF PatchDestination
<1>2. store[d] \in DocOf(d)
  BY <1>1, ControlStored
<1>3. doc \in DocOf(d)
  BY <1>1, <1>2
<1>4. PICK replay \in {<<>>, <<list>>} : Begin(c, "patch", d, {d}, <<w>> \o replay)
  BY DEF PatchDestination
<1> HIDE DEF doc
<1>5. /\ w \in ControlWrites /\ w.how = "upsert" /\ w.id = d /\ w.doc = doc
      /\ list \in ControlWrites /\ list.how = "list" /\ list.id = d
  BY <1>1, <1>3, ControlWriteIn DEF WriteKinds
<1> HIDE DEF w, list
<1>6. PICK todo : todo = <<w>> \o replay
  OBVIOUS
<1>7. replay \in Seq(ControlWrites) /\ \A i \in DOMAIN replay : replay[i] = list
  <2>1. CASE replay = <<>>
    BY <2>1
  <2>2. CASE replay = <<list>>
    BY <2>2, <1>5
  <2> QED BY <1>4, <2>1, <2>2
<1>8. todo \in Seq(ControlWrites) /\ todo # <<>>
  BY <1>5, <1>6, <1>7
<1>9. \A i \in DOMAIN todo : todo[i] = w \/ todo[i] = list
  BY <1>5, <1>6, <1>7
<1>10. \A i \in DOMAIN todo :
           /\ todo[i].id \notin Jobs
           /\ \/ todo[i].how \in {"upsert", "replace"} /\ todo[i].doc \in DocOf(todo[i].id)
              \/ todo[i].how = "list"
  BY <1>1, <1>3, <1>5, <1>9
<1> QED BY <1>1, <1>4, <1>6, <1>8, <1>10, ControlManyWrites DEF OneField

\* Running a pipeline, and enabling its destination first.
LEMMA ControlRun ==
  ASSUME ControlIInv, NEW c \in Calls, NEW p \in Pipelines, RunPipeline(c, p)
  PROVE  ControlIInv'
<1> DEFINE d == store[p].destination
           wasOff == ~store[d].enabled
           active == [store[p] EXCEPT !.status = "active", !.reset = IF wasOff THEN @ + 1 ELSE @]
           on == [store[d] EXCEPT !.enabled = TRUE]
           first == Write("replace", d, on)
           last == Write("replace", p, active)
<1>1. p \in Ids /\ p \notin Jobs /\ Exists(p) /\ DocOf(p) \subseteq ControlDocs
  BY ControlDocKinds, ControlDocsOf DEF RunPipeline
<1>2. d \in Destinations
  <2>1. store[p] \in DocOf(p)
    BY <1>1, ControlStored
  <2>2. DocOf(p) = [kind : {"pipeline"}, sources : SUBSET Sources, destination : Destinations,
                    mode : Modes, status : {"active", "paused"}, reset : 0..MaxResets]
    BY ControlDocKinds
  <2> QED BY <2>1, <2>2
<1>3. /\ d \in Ids /\ d \notin Jobs /\ Exists(d) /\ DocOf(d) \subseteq ControlDocs
      /\ DocOf(d) = [kind : {"destination"}, place : Places, enabled : BOOLEAN]
  BY <1>2, ControlDocKinds, ControlDocsOf, ControlAssumption DEF RunPipeline
<1>4. wasOff => store[p].reset < MaxResets
  BY DEF RunPipeline
<1>5. active \in DocOf(p)
  <2>1. PICK again \in BOOLEAN : again = wasOff
    OBVIOUS
  <2> QED BY <1>1, <1>4, <2>1, ControlReplayed
<1>6. on \in DocOf(d)
  <2>1. store[d] \in DocOf(d)
    BY <1>3, ControlStored
  <2>2. PICK old : old = store[d]
    OBVIOUS
  <2>3. old \in [kind : {"destination"}, place : Places, enabled : BOOLEAN]
    BY <1>3, <2>1, <2>2
  <2>4. [old EXCEPT !.enabled = TRUE] \in [kind : {"destination"}, place : Places, enabled : BOOLEAN]
    BY <2>3
  <2> QED BY <1>3, <2>2, <2>4
<1>7. PICK enable \in {<<>>, <<first>>} : Begin(c, "run", p, {p, d}, enable \o <<last>>)
  BY DEF RunPipeline
<1> HIDE DEF active, on
<1>8. /\ first \in ControlWrites /\ first.how = "replace" /\ first.id = d /\ first.doc = on
      /\ last \in ControlWrites /\ last.how = "replace" /\ last.id = p /\ last.doc = active
  BY <1>1, <1>3, <1>5, <1>6, ControlWriteIn DEF WriteKinds
<1> HIDE DEF first, last, d
<1>9. PICK todo : todo = enable \o <<last>>
  OBVIOUS
<1>10. enable \in Seq(ControlWrites) /\ \A i \in DOMAIN enable : enable[i] = first
  <2>1. CASE enable = <<>>
    BY <2>1
  <2>2. CASE enable = <<first>>
    BY <2>2, <1>8
  <2> QED BY <1>7, <2>1, <2>2
<1>11. todo \in Seq(ControlWrites) /\ todo # <<>> /\ \A i \in DOMAIN todo : todo[i] = first \/ todo[i] = last
  BY <1>8, <1>9, <1>10
<1>12. \A i \in DOMAIN todo :
           /\ todo[i].id \notin Jobs
           /\ todo[i].how \in {"upsert", "replace"} /\ todo[i].doc \in DocOf(todo[i].id)
  BY <1>1, <1>3, <1>5, <1>6, <1>8, <1>11
<1>13. {p, d} \in SUBSET Ids
  BY <1>1, <1>3
<1> QED BY <1>7, <1>9, <1>11, <1>12, <1>13, ControlManyWrites DEF OneField

\* Synchronising a source: its pipelines, and the record of it.
LEMMA ControlSync ==
  ASSUME ControlIInv, NEW c \in Calls, NEW s \in Sources, NEW full \in BOOLEAN, NEW o \in Syncs,
         SyncSource(c, s, full, o)
  PROVE  ControlIInv'
<1> DEFINE using == UsedBy(s)
           Synced(p) == [store[p] EXCEPT !.status = "active", !.reset = IF full THEN @ + 1 ELSE @]
           different == {p \in using : Synced(p) # store[p]}
           changed == SetToSeq(different)
           record == [kind |-> "sync", pipelines |-> using, status |-> "running"]
           first == [i \in DOMAIN changed |-> Write("upsert", changed[i], Synced(changed[i]))]
           last == Write("upsert", o, record)
<1>1. using \subseteq Pipelines /\ \A p \in using : Exists(p)
  BY DEF UsedBy, Listed
<1>2. /\ Begin(c, "sync", s, using, first \o <<last>>)
      /\ full => \A p \in using : store[p].reset < MaxResets
  BY DEF SyncSource
<1>3. \A p \in using : p \in Ids /\ p \notin Jobs /\ Synced(p) \in DocOf(p) /\ Synced(p) \in ControlDocs
  BY <1>1, <1>2, ControlReplayed, ControlDocKinds, ControlDocsOf
<1>4. /\ o \in Ids /\ o \notin Jobs /\ record \in DocOf(o) /\ record \in ControlDocs
  BY <1>1, ControlDocKinds, ControlDocsOf
<1> HIDE DEF Synced, using, record
<1>5. different \subseteq using /\ using \subseteq Ids
  BY <1>3
<1> HIDE DEF different
<1>6. changed \in Seq(different) /\ \A i \in DOMAIN changed : changed[i] \in using
  <2>1. IsFiniteSet(different)
    BY <1>5, ControlFinite
  <2>2. changed \in Seq(different)
    BY <2>1, ControlSetToSeq
  <2> HIDE DEF changed
  <2> QED BY <2>2, <1>5
<1> HIDE DEF changed
<1>7. /\ last \in ControlWrites /\ last.how = "upsert" /\ last.id = o /\ last.doc = record
  BY <1>4, ControlWriteIn DEF WriteKinds
<1>8. \A i \in DOMAIN changed :
          /\ first[i] \in ControlWrites /\ first[i].how = "upsert" /\ first[i].id = changed[i]
          /\ first[i].doc = Synced(changed[i])
  BY <1>3, <1>6, ControlWriteIn DEF WriteKinds
<1>9. DOMAIN first = DOMAIN changed /\ first \in Seq(ControlWrites)
  BY <1>6, <1>8
<1> HIDE DEF first, last
<1>10. PICK todo : todo = first \o <<last>>
  OBVIOUS
<1>11. /\ todo \in Seq(ControlWrites) /\ todo # <<>>
       /\ \A i \in DOMAIN todo : todo[i] = last \/ \E k \in DOMAIN first : todo[i] = first[k]
  BY <1>7, <1>9, <1>10
<1>12. \A i \in DOMAIN todo :
           /\ todo[i].id \notin Jobs
           /\ todo[i].how = "upsert" /\ todo[i].doc \in DocOf(todo[i].id)
  BY <1>3, <1>4, <1>6, <1>7, <1>8, <1>9, <1>11
<1> QED BY <1>2, <1>5, <1>10, <1>11, <1>12, ControlManyWrites, ZenonT(60) DEF OneField

\* Resetting a pipeline: pause it, delete its jobs, set the new generation.
LEMMA ControlReset ==
  ASSUME ControlIInv, NEW c \in Calls, NEW p \in Pipelines, ResetPipeline(c, p)
  PROVE  ControlIInv'
<1> DEFINE now == store[p]
           stopped == [now EXCEPT !.status = "paused"]
           again == [now EXCEPT !.reset = @ + 1]
           first == Write("replace", p, stopped)
           jobs == Write("jobs", p, None)
           last == Write("replace", p, again)
<1>1. /\ p \in Ids /\ p \notin Jobs /\ Exists(p) /\ DocOf(p) \subseteq ControlDocs /\ None \in ControlDocs
      /\ now.reset < MaxResets
  BY ControlDocKinds, ControlDocsOf DEF ResetPipeline
<1>2. DocOf(p) = [kind : {"pipeline"}, sources : SUBSET Sources, destination : Destinations,
                  mode : Modes, status : {"active", "paused"}, reset : 0..MaxResets]
  BY ControlDocKinds
<1>3. now \in DocOf(p)
  BY <1>1, ControlStored
<1>4. stopped \in DocOf(p) /\ stopped.status = "paused"
  BY <1>2, <1>3
<1>5. PICK n : n = now.reset + 1
  OBVIOUS
<1>6. now.reset \in 0..MaxResets /\ MaxResets \in Nat
  BY <1>2, <1>3, ControlAssumption
<1>7. n \in 0..MaxResets
  BY <1>1, <1>5, <1>6
<1>8. again = [now EXCEPT !.reset = n]
  BY <1>5
<1>9. again \in DocOf(p)
  BY <1>2, <1>3, <1>7, <1>8
<1>10. ResetOf(now, again)
  <2>1. again.status = now.status
    BY <1>2, <1>3, <1>8
  <2>2. [now EXCEPT !.reset = n, !.status = now.status] = [now EXCEPT !.reset = n]
    BY <1>2, <1>3
  <2> QED BY <1>5, <1>8, <2>1, <2>2 DEF ResetOf
<1>11. ResetOf(stopped, again)
  <2>1. again.status = now.status /\ stopped.reset = now.reset
    BY <1>2, <1>3, <1>8
  <2>2. [stopped EXCEPT !.reset = n, !.status = now.status] = [now EXCEPT !.reset = n]
    BY <1>2, <1>3
  <2> QED BY <1>5, <1>8, <2>1, <2>2 DEF ResetOf
<1>12. now.status \in {"active", "paused"}
  BY <1>2, <1>3
<1> HIDE DEF stopped, again
<1>13. /\ first \in ControlWrites /\ first.how = "replace" /\ first.id = p /\ first.doc = stopped
       /\ jobs \in ControlWrites /\ jobs.how = "jobs" /\ jobs.id = p
       /\ last \in ControlWrites /\ last.how = "replace" /\ last.id = p /\ last.doc = again
  BY <1>1, <1>4, <1>9, ControlWriteIn DEF WriteKinds
<1>14. PICK pause \in {<<>>, <<first>>}, clean \in {<<>>, <<jobs>>} :
           /\ Begin(c, "reset", p, {p}, pause \o clean \o <<last>>)
           /\ now.status = "active" => pause = <<first>>
  BY DEF ResetPipeline, PausedFirst, Cleanup, stopped, again
<1> HIDE DEF first, jobs, last, now
<1>15. /\ pause \in Seq(ControlWrites) /\ Len(pause) \in {0, 1} /\ (Len(pause) = 1 => pause[1] = first)
       /\ pause = <<first>> => Len(pause) = 1
  <2>1. CASE pause = <<>>
    BY <2>1, <1>13
  <2>2. CASE pause = <<first>>
    BY <2>2, <1>13
  <2> QED BY <1>14, <2>1, <2>2
<1>16. clean \in Seq(ControlWrites) /\ Len(clean) \in {0, 1} /\ (Len(clean) = 1 => clean[1] = jobs)
  <2>1. CASE clean = <<>>
    BY <2>1
  <2>2. CASE clean = <<jobs>>
    BY <2>2, <1>13
  <2> QED BY <1>14, <2>1, <2>2
<1>17. PICK before : before = pause \o clean
  OBVIOUS
<1>18. /\ before \in Seq(ControlWrites) /\ Len(before) = Len(pause) + Len(clean)
       /\ Len(pause) = 1 => before[1] = first
       /\ \A i \in DOMAIN before : before[i] = jobs \/ (i = 1 /\ before[i] = first)
  <2>1. before \in Seq(ControlWrites) /\ Len(before) = Len(pause) + Len(clean)
    BY <1>15, <1>16, <1>17
  <2>2. \A i \in 1..Len(before) :
            before[i] = IF i <= Len(pause) THEN pause[i] ELSE clean[i - Len(pause)]
    BY <1>15, <1>16, <1>17
  <2>3. CASE Len(pause) = 0
    <3>1. \A i \in 1..Len(before) : i = 1 /\ before[i] = clean[1] /\ Len(clean) = 1
      BY <1>16, <2>1, <2>2, <2>3
    <3> QED BY <1>16, <2>1, <2>3, <3>1
  <2>4. CASE Len(pause) = 1
    <3>1. \A i \in 1..Len(before) : (i = 1 /\ before[i] = pause[1]) \/ (i = 2 /\ before[i] = clean[1] /\ Len(clean) = 1)
      BY <1>16, <2>1, <2>2, <2>4
    <3> QED BY <1>15, <1>16, <2>1, <2>2, <2>4, <3>1
  <2> QED BY <1>15, <2>3, <2>4
<1>19. PICK todo : todo = before \o <<last>>
  OBVIOUS
<1>20. /\ todo \in Seq(ControlWrites) /\ Len(todo) = Len(before) + 1 /\ todo # <<>>
       /\ todo[Len(todo)] = last
       /\ \A i \in DOMAIN before : todo[i] = before[i]
       /\ \A i \in DOMAIN todo : i < Len(todo) => i \in DOMAIN before
       /\ Head(todo) = todo[1]
  BY <1>13, <1>18, <1>19
<1>21. \A i \in DOMAIN todo :
           \/ todo[i] = last
           \/ i < Len(todo) /\ todo[i] = jobs
           \/ i < Len(todo) /\ i = 1 /\ todo[i] = first
  BY <1>18, <1>20
<1> DEFINE r == [op |-> "reset", id |-> p, todo |-> todo, fresh |-> {p}]
<1>22. Begin(c, "reset", p, {p}, todo)
  BY <1>14, <1>17, <1>19
<1>23. /\ c \in Procs
       /\ r.op = "reset" /\ r.id = p /\ r.todo = todo /\ r.fresh = {p}
       /\ call' = [call EXCEPT ![c] = r]
       /\ UNCHANGED <<store, gone>>
       /\ left' \in 0..MaxRequests
  BY <1>22, ControlBegun
<1>24. r = [op |-> r.op, id |-> r.id, todo |-> r.todo, fresh |-> r.fresh] /\ r # Idle
  BY <1>20, <1>23 DEF Idle
<1> HIDE DEF r
<1>25. LastDoc(r) = again
  BY <1>13, <1>20, <1>23 DEF LastDoc
<1>26. Pausing(r) => Head(todo) = first
  <2> SUFFICES ASSUME Pausing(r) PROVE Head(todo) = first
    OBVIOUS
  <2>1. todo[1].how = "replace" /\ 1 < Len(todo)
    BY <1>20, <1>23 DEF Pausing
  <2>2. 1 \in DOMAIN before
    BY <1>20, <2>1
  <2>3. before[1] = jobs \/ before[1] = first
    BY <1>18, <2>2
  <2> QED BY <1>13, <1>20, <2>1, <2>2, <2>3
<1>27. ~Pausing(r) => now.status = "paused"
  <2> SUFFICES ASSUME now.status = "active" PROVE Pausing(r)
    BY <1>12
  <2>1. Len(pause) = 1 /\ before[1] = first /\ 1 \in DOMAIN before
    BY <1>14, <1>15, <1>16, <1>18
  <2>2. Head(todo) = first /\ Len(todo) > 1
    BY <1>16, <1>18, <1>20, <2>1
  <2> QED BY <1>13, <1>23, <2>2 DEF Pausing
<1>28. CallOK(r)
  <2>1. WriteOK(first, "reset") /\ WriteOK(jobs, "reset") /\ WriteOK(last, "reset")
    BY <1>1, <1>4, <1>9, <1>13 DEF WriteOK
  <2>2. \A i \in DOMAIN todo : WriteOK(todo[i], "reset")
    BY <1>21, <2>1
  <2>3. OneWrite(r)
    BY <1>23 DEF OneWrite, OneField
  <2>4. \A i \in DOMAIN todo : i < Len(todo) => todo[i].how = "jobs" \/ (i = 1 /\ todo[i].how = "replace")
    <3> SUFFICES ASSUME NEW i \in DOMAIN todo, i < Len(todo)
                 PROVE  todo[i].how = "jobs" \/ (i = 1 /\ todo[i].how = "replace")
      OBVIOUS
    <3>1. i \in DOMAIN before /\ todo[i] = before[i]
      BY <1>20
    <3> QED BY <1>13, <1>18, <3>1
  <2>5. ResetShape(r)
    BY <1>4, <1>11, <1>13, <1>20, <1>23, <1>25, <1>26, <2>4 DEF ResetShape
  <2> QED BY <1>1, <1>20, <1>23, <1>24, <2>2, <2>3, <2>5 DEF CallOK
<1>29. ViewOK(store, r)
  <2>1. OwnField(store[p], r)
    BY <1>10, <1>23, <1>25, <1>27 DEF OwnField, now
  <2>2. \A i \in DOMAIN todo : todo[i].id = p
    BY <1>13, <1>21
  <2> QED BY <1>1, <1>23, <2>1, <2>2 DEF ViewOK
<1>30. Joins(store, call, gone, c, r)
  <2>1. \A j \in Jobs : ~Holds(r, j) /\ ~Creates(r, j)
    BY <1>1, <1>13, <1>21, <1>23 DEF Holds, Creates
  <2> QED BY <2>1 DEF Joins
<1> QED BY <1>23, <1>28, <1>29, <1>30, ControlTakesUp

\* An ID of the bundle and the ID that is drawn for it are of the same kind.
LEMMA ControlNewIds ==
  ASSUME NEW id \in DOMAIN Bundle
  PROVE  /\ id \in Sources \cup Destinations \cup Pipelines
         /\ id \in Sources => NewIds[id] \in Sources
         /\ id \in Destinations => NewIds[id] \in Destinations
         /\ id \in Pipelines => NewIds[id] \in Pipelines
<1>1. PICK kind \in {Sources, Destinations, Pipelines} : id \in kind /\ NewIds[id] \in kind
  BY BundleTyped
<1>2. /\ Sources \cap Destinations = {} /\ Sources \cap Pipelines = {}
      /\ Destinations \cap Pipelines = {}
  BY ControlAssumption
<1> QED BY <1>1, <1>2

\* What is written for a document of the bundle is a document of the ID it gets.
LEMMA ControlRewritten ==
  ASSUME NEW id \in DOMAIN Bundle, NEW map, DOMAIN map \subseteq DOMAIN Bundle,
         \A i \in DOMAIN map : map[i] = NewIds[i],
         NEW name, name = IF id \in DOMAIN map THEN map[id] ELSE id
  PROVE  name \in Ids /\ name \notin Jobs /\ Rewritten(Bundle[id], map) \in DocOf(name)
<1>1. /\ id \in Sources => name \in Sources
      /\ id \in Destinations => name \in Destinations
      /\ id \in Pipelines => name \in Pipelines
      /\ id \in Sources \cup Destinations \cup Pipelines
  BY ControlNewIds
<1>2. name \in Ids /\ name \notin Jobs
  BY <1>1, ControlDocKinds, ControlAssumption
<1>3. PICK doc : doc = Bundle[id]
  OBVIOUS
<1>4. doc \in DocOf(id)
  BY <1>3, BundleTyped
<1>5. CASE id \in Sources
  <2>1. /\ DocOf(id) = [kind : {"source"}, place : Places]
        /\ DocOf(name) = DocOf(id)
    BY <1>1, <1>5, ControlDocKinds
  <2>2. doc.kind = "source"
    BY <1>4, <2>1
  <2> QED BY <1>2, <1>3, <1>4, <2>1, <2>2 DEF Rewritten
<1>6. CASE id \in Destinations
  <2>1. /\ DocOf(id) = [kind : {"destination"}, place : Places, enabled : BOOLEAN]
        /\ DocOf(name) = DocOf(id)
    BY <1>1, <1>6, ControlDocKinds
  <2>2. doc.kind = "destination"
    BY <1>4, <2>1
  <2> QED BY <1>2, <1>3, <1>4, <2>1, <2>2 DEF Rewritten
<1>7. CASE id \in Pipelines
  <2> DEFINE New(x) == IF x \in DOMAIN map THEN map[x] ELSE x
             PipelineDocs == [kind : {"pipeline"}, sources : SUBSET Sources, destination : Destinations,
                              mode : Modes, status : {"active", "paused"}, reset : 0..MaxResets]
  <2>1. DocOf(id) = PipelineDocs /\ DocOf(name) = PipelineDocs
    BY <1>1, <1>7, ControlDocKinds
  <2>2. \A s \in Sources : New(s) \in Sources
    BY ControlNewIds
  <2>3. \A d \in Destinations : New(d) \in Destinations
    BY ControlNewIds
  <2> HIDE DEF New
  <2>4. PICK srcs, d : srcs = {New(s) : s \in doc.sources} /\ d = New(doc.destination)
    OBVIOUS
  <2>5. doc.sources \subseteq Sources /\ doc.destination \in Destinations /\ doc.kind = "pipeline"
    BY <1>4, <2>1
  <2>6. srcs \subseteq Sources /\ d \in Destinations
    BY <2>2, <2>3, <2>4, <2>5
  <2>7. Rewritten(doc, map) = [doc EXCEPT !.sources = srcs, !.destination = d, !.status = "paused"]
    BY <2>4, <2>5 DEF Rewritten, New
  <2>8. PICK one : one = [doc EXCEPT !.sources = srcs]
    OBVIOUS
  <2>9. one \in PipelineDocs
    BY <1>4, <2>1, <2>6, <2>8
  <2>10. PICK two : two = [one EXCEPT !.destination = d]
    OBVIOUS
  <2>11. two \in PipelineDocs
    BY <2>6, <2>9, <2>10
  <2>12. [two EXCEPT !.status = "paused"] \in PipelineDocs
    BY <2>11
  <2>13. Rewritten(doc, map) = [two EXCEPT !.status = "paused"]
    BY <2>7, <2>8, <2>10
  <2> HIDE DEF PipelineDocs
  <2> QED BY <1>2, <1>3, <2>1, <2>12, <2>13
<1> QED BY <1>1, <1>5, <1>6, <1>7

\* Importing the bundle.
LEMMA ControlImport ==
  ASSUME ControlIInv, NEW c \in Calls, NEW conflict, ImportBundle(c, conflict, NewIds)
  PROVE  ControlIInv'
<1> DEFINE Taken(ids) == {id \in DOMAIN Bundle \cap ids : conflict # "skip" \/ ~Exists(id)}
           order == SetToSeq(Taken(Sources)) \o SetToSeq(Taken(Destinations)) \o SetToSeq(Taken(Pipelines))
           map == [id \in {i \in DOMAIN Bundle : conflict = "rename" /\ Exists(i)} |-> NewIds[id]]
           Name(id) == IF id \in DOMAIN map THEN map[id] ELSE id
           todo == [i \in DOMAIN order |-> Write("upsert", Name(order[i]), Rewritten(Bundle[order[i]], map))]
<1>1. order # <<>> /\ Begin(c, "import", "", {}, todo)
  BY DEF ImportBundle
<1>2. \A ids : Taken(ids) \subseteq DOMAIN Bundle
  OBVIOUS
<1>3. DOMAIN Bundle \subseteq Ids
  BY ControlNewIds DEF Ids
<1>4. \A id \in DOMAIN Bundle :
          /\ Name(id) \in Ids /\ Name(id) \notin Jobs
          /\ Rewritten(Bundle[id], map) \in DocOf(Name(id))
  <2>1. DOMAIN map \subseteq DOMAIN Bundle /\ \A i \in DOMAIN map : map[i] = NewIds[i]
    OBVIOUS
  <2> HIDE DEF map
  <2> TAKE id \in DOMAIN Bundle
  <2>2. PICK name : name = IF id \in DOMAIN map THEN map[id] ELSE id
    OBVIOUS
  <2>3. name \in Ids /\ name \notin Jobs /\ Rewritten(Bundle[id], map) \in DocOf(name)
    BY <2>1, <2>2, ControlRewritten
  <2> QED BY <2>2, <2>3
<1> HIDE DEF Taken, map
<1>5. \A ids : SetToSeq(Taken(ids)) \in Seq(DOMAIN Bundle)
  <2> TAKE ids
  <2>1. IsFiniteSet(Taken(ids))
    BY <1>2, <1>3, ControlFinite
  <2>2. SetToSeq(Taken(ids)) \in Seq(Taken(ids))
    BY <2>1, ControlSetToSeq
  <2> QED BY <1>2, <2>2
<1>6. order \in Seq(DOMAIN Bundle)
  <2>1. PICK a, b, d : /\ a = SetToSeq(Taken(Sources)) /\ b = SetToSeq(Taken(Destinations))
                       /\ d = SetToSeq(Taken(Pipelines))
    OBVIOUS
  <2>2. a \in Seq(DOMAIN Bundle) /\ b \in Seq(DOMAIN Bundle) /\ d \in Seq(DOMAIN Bundle)
    BY <1>5, <2>1
  <2>3. a \o b \o d \in Seq(DOMAIN Bundle)
    BY <2>2
  <2> QED BY <2>1, <2>3
<1> HIDE DEF order, Name
<1>7. \A i \in DOMAIN order : order[i] \in DOMAIN Bundle
  BY <1>6
<1>8. \A i \in DOMAIN order :
          /\ todo[i] \in ControlWrites /\ todo[i].how = "upsert" /\ todo[i].id = Name(order[i])
          /\ todo[i].doc = Rewritten(Bundle[order[i]], map)
  <2> TAKE i \in DOMAIN order
  <2>1. /\ Name(order[i]) \in Ids
        /\ Rewritten(Bundle[order[i]], map) \in ControlDocs
    BY <1>4, <1>7, ControlDocsOf
  <2> QED BY <2>1, ControlWriteIn DEF WriteKinds
<1>9. DOMAIN todo = DOMAIN order /\ todo \in Seq(ControlWrites) /\ todo # <<>>
  <2>1. DOMAIN todo = DOMAIN order
    OBVIOUS
  <2> HIDE DEF todo
  <2>2. PICK n \in Nat : DOMAIN order = 1..n
    BY <1>6
  <2>3. todo \in Seq(ControlWrites)
    <3>1. todo = [i \in 1..n |-> todo[i]]
      BY <2>1, <2>2 DEF todo
    <3> QED BY <1>8, <2>2, <3>1
  <2>4. todo # <<>>
    <3>1. 1 \in DOMAIN order
      <4>1. order # <<>>
        BY <1>1
      <4> QED BY <4>1, <1>6, EmptySeq
    <3>2. todo = <<>> => DOMAIN todo = {}
      OBVIOUS
    <3> QED BY <2>1, <3>1, <3>2
  <2> QED BY <2>1, <2>3, <2>4
<1> HIDE DEF todo
<1>10. \A i \in DOMAIN todo :
           /\ todo[i].id \notin Jobs
           /\ todo[i].how = "upsert" /\ todo[i].doc \in DocOf(todo[i].id)
  BY <1>4, <1>7, <1>8, <1>9
<1> QED BY <1>1, <1>9, <1>10, ControlManyWrites, ZenonT(60) DEF OneField

-----------------------------------------------------------------------------
(* ControlPlane: the writes of a call, one by one.                          *)

\* The first write of a call is one of its writes.
LEMMA ControlHead ==
  ASSUME NEW q, CallOK(q), q.todo # <<>>
  PROVE  /\ Head(q.todo) = q.todo[1] /\ 1 \in DOMAIN q.todo
         /\ Head(q.todo) \in ControlWrites /\ Head(q.todo).id \in Ids
         /\ WriteOK(Head(q.todo), q.op)
         /\ Holds(q, Head(q.todo).id)
<1>1. q.todo \in Seq(ControlWrites) /\ \A i \in DOMAIN q.todo : WriteOK(q.todo[i], q.op)
  BY DEF CallOK
<1>2. /\ Head(q.todo) = q.todo[1] /\ 1 \in DOMAIN q.todo /\ Head(q.todo) \in ControlWrites
  BY <1>1, EmptySeq, HeadTailProperties
<1>3. Head(q.todo).id \in Ids
  BY <1>2 DEF ControlWrites
<1> QED BY <1>1, <1>2, <1>3 DEF Holds

Rest(q) == IF Tail(q.todo) = <<>> THEN Idle ELSE [q EXCEPT !.todo = Tail(q.todo)]

\* A call that has carried out its first write.
LEMMA ControlRest ==
  ASSUME NEW q, CallOK(q), q.todo # <<>>, NEW r, r = Rest(q), r # Idle
  PROVE  /\ r.op = q.op /\ r.id = q.id /\ r.fresh = q.fresh
         /\ Len(q.todo) \in Nat /\ Len(q.todo) > 1
         /\ r.todo \in Seq(ControlWrites) /\ r.todo # <<>> /\ Len(r.todo) = Len(q.todo) - 1
         /\ \A i \in DOMAIN r.todo : i + 1 \in DOMAIN q.todo /\ r.todo[i] = q.todo[i + 1]
         /\ r = [op |-> r.op, id |-> r.id, todo |-> r.todo, fresh |-> r.fresh]
         /\ q.op \notin OneField
         /\ LastDoc(r) = LastDoc(q)
<1>1. PICK o, i, t, f : q = [op |-> o, id |-> i, todo |-> t, fresh |-> f]
  BY DEF CallOK
<1>2. t \in Seq(ControlWrites) /\ t # <<>> /\ q.todo = t /\ q.op = o /\ q.id = i /\ q.fresh = f
  BY <1>1 DEF CallOK
<1>3. Tail(t) # <<>> /\ r = [q EXCEPT !.todo = Tail(t)]
  BY <1>2 DEF Rest
<1>4. r = [op |-> o, id |-> i, todo |-> Tail(t), fresh |-> f]
  BY <1>1, <1>3
<1>5. r.op = o /\ r.id = i /\ r.todo = Tail(t) /\ r.fresh = f
  BY <1>4
<1>6. /\ Tail(t) \in Seq(ControlWrites) /\ Len(Tail(t)) = Len(t) - 1
      /\ \A k \in 1..Len(Tail(t)) : Tail(t)[k] = t[k + 1]
  BY <1>2, HeadTailProperties
<1>7. Len(Tail(t)) \in Nat \ {0} /\ Len(t) \in Nat
  BY <1>2, <1>3, <1>6, EmptySeq
<1>8. \A k \in DOMAIN Tail(t) : k + 1 \in DOMAIN t /\ Tail(t)[k] = t[k + 1]
  BY <1>2, <1>6, <1>7
<1>9. q.op \notin OneField
  BY <1>2, <1>6, <1>7 DEF CallOK, OneWrite
<1>10. LastDoc(r) = LastDoc(q)
  <2>1. Tail(t)[Len(Tail(t))] = t[Len(Tail(t)) + 1]
    BY <1>6, <1>7
  <2>2. Len(Tail(t)) + 1 = Len(t)
    BY <1>6, <1>7
  <2> QED BY <1>2, <1>5, <2>1, <2>2 DEF LastDoc
<1>11. r.op = q.op /\ r.id = q.id /\ r.fresh = q.fresh
  BY <1>2, <1>5
<1>12. Len(q.todo) \in Nat /\ Len(q.todo) > 1
  BY <1>2, <1>6, <1>7
<1>13. r.todo \in Seq(ControlWrites) /\ r.todo # <<>> /\ Len(r.todo) = Len(q.todo) - 1
  BY <1>2, <1>3, <1>5, <1>6
<1>14. \A k \in DOMAIN r.todo : k + 1 \in DOMAIN q.todo /\ r.todo[k] = q.todo[k + 1]
  BY <1>2, <1>5, <1>8
<1>15. r = [op |-> r.op, id |-> r.id, todo |-> r.todo, fresh |-> r.fresh]
  BY <1>4, <1>5
<1> QED BY <1>9, <1>10, <1>11, <1>12, <1>13, <1>14, <1>15

\* A call that is over has no work.
LEMMA ControlIdleOK ==
  /\ CallOK(Idle)
  /\ \A docs : ViewOK(docs, Idle)
  /\ \A j : ~Holds(Idle, j) /\ ~Creates(Idle, j)
<1>1. Idle.op = "idle" /\ Idle.todo = <<>> /\ Idle.fresh = {} /\ Idle.id = ""
  BY DEF Idle
<1>2. DOMAIN Idle.todo = {} /\ Idle.todo \in Seq(ControlWrites)
  <2>1. DOMAIN <<>> = {} /\ <<>> \in Seq(ControlWrites)
    BY EmptySeq
  <2> QED BY <1>1, <2>1
<1>3. OneWrite(Idle) /\ ResetShape(Idle)
  BY <1>1 DEF OneWrite, ResetShape, OneField
<1>4. Idle = [op |-> Idle.op, id |-> Idle.id, todo |-> Idle.todo, fresh |-> Idle.fresh]
  BY DEF Idle
<1>5. CallOK(Idle)
  BY <1>1, <1>2, <1>3, <1>4 DEF CallOK
<1> QED BY <1>1, <1>2, <1>5 DEF ViewOK, Holds, Creates

\* What is left of a call is the work of a call, and it creates no job.
LEMMA ControlRestOK ==
  ASSUME NEW q, CallOK(q), q.todo # <<>>, NEW r, r = Rest(q),
         \A j \in Jobs : Creates(q, j) => Len(q.todo) = 1
  PROVE  /\ CallOK(r)
         /\ \A j \in Jobs : ~Creates(r, j) /\ (Holds(r, j) => Holds(q, j))
         /\ r # Idle => ~Pausing(r) \/ r.op # "reset"
<1>1. CASE r = Idle
  BY <1>1, ControlIdleOK
<1>2. CASE r # Idle
  <2>1. /\ r.op = q.op /\ r.id = q.id /\ r.fresh = q.fresh
        /\ Len(q.todo) \in Nat /\ Len(q.todo) > 1
        /\ r.todo \in Seq(ControlWrites) /\ r.todo # <<>> /\ Len(r.todo) = Len(q.todo) - 1
        /\ \A i \in DOMAIN r.todo : i + 1 \in DOMAIN q.todo /\ r.todo[i] = q.todo[i + 1]
        /\ r = [op |-> r.op, id |-> r.id, todo |-> r.todo, fresh |-> r.fresh]
        /\ q.op \notin OneField
        /\ LastDoc(r) = LastDoc(q)
    BY <1>2, ControlRest
  <2>2. DOMAIN r.todo = 1..Len(r.todo) /\ DOMAIN q.todo = 1..Len(q.todo) /\ Head(r.todo) = r.todo[1]
    BY <2>1 DEF CallOK
  <2>3. \A i \in DOMAIN r.todo : WriteOK(r.todo[i], r.op)
    BY <2>1 DEF CallOK
  <2>4. ~Pausing(r) \/ r.op # "reset"
    <3> SUFFICES ASSUME r.op = "reset", Pausing(r) PROVE FALSE
      OBVIOUS
    <3>1. r.todo[1].how = "replace" /\ Len(r.todo) > 1
      BY <2>2 DEF Pausing
    <3>2. 2 \in DOMAIN q.todo /\ 2 < Len(q.todo) /\ q.todo[2].how = "replace"
      BY <2>1, <2>2, <3>1
    <3>3. ResetShape(q) /\ q.op = "reset"
      BY <2>1 DEF CallOK
    <3> QED BY <3>2, <3>3 DEF ResetShape
  <2>5. OneWrite(r)
    BY <2>1 DEF OneWrite
  <2>6. ResetShape(r)
    <3> SUFFICES ASSUME r.op = "reset" PROVE ResetShape(r)
      BY DEF ResetShape
    <3>1. ResetShape(q) /\ q.op = "reset"
      BY <2>1 DEF CallOK
    <3>2. Len(r.todo) \in DOMAIN r.todo /\ r.todo[Len(r.todo)] = q.todo[Len(q.todo)]
      BY <2>1, <2>2
    <3>3. \A i \in DOMAIN r.todo :
              i < Len(r.todo) => \/ r.todo[i].how = "jobs"
                                 \/ r.todo[i].how = "delete" /\ r.todo[i].id \in Jobs
      <4> SUFFICES ASSUME NEW i \in DOMAIN r.todo, i < Len(r.todo)
                   PROVE  \/ r.todo[i].how = "jobs"
                          \/ r.todo[i].how = "delete" /\ r.todo[i].id \in Jobs
        OBVIOUS
      <4>1. i + 1 \in DOMAIN q.todo /\ i + 1 < Len(q.todo) /\ i + 1 # 1 /\ r.todo[i] = q.todo[i + 1]
        BY <2>1, <2>2
      <4> QED BY <3>1, <4>1 DEF ResetShape
    <3> QED BY <2>1, <2>4, <3>1, <3>2, <3>3 DEF ResetShape
  <2>7. CallOK(r)
    <3>1. r.fresh \subseteq Ids
      BY <2>1 DEF CallOK
    <3> QED BY <1>2, <2>1, <2>3, <2>5, <2>6, <3>1 DEF CallOK
  <2>8. \A j \in Jobs : Holds(r, j) => Holds(q, j)
    BY <2>1 DEF Holds
  <2>9. \A j \in Jobs : ~Creates(r, j)
    <3> SUFFICES ASSUME NEW j \in Jobs, Creates(r, j) PROVE FALSE
      OBVIOUS
    <3>1. Creates(q, j)
      BY <2>1 DEF Creates
    <3> QED BY <2>1, <3>1
  <2> QED BY <2>4, <2>7, <2>8, <2>9
<1> QED BY <1>1, <1>2

\* What is left of a call knows as much of the documents as the call did: of
\* those that did not change, and of the one the call itself has written.
LEMMA ControlRestView ==
  ASSUME NEW docs, NEW later, NEW q, CallOK(q), q.todo # <<>>, NEW r, r = Rest(q),
         ViewOK(docs, q),
         \A j \in Jobs : Creates(q, j) => Len(q.todo) = 1,
         NEW w, w = Head(q.todo),
         \A id \in Ids \ {w.id} : later[id] = docs[id],
         \/ /\ later[w.id] = docs[w.id]
            /\ w.how # "replace" \/ q.op # "reset"
         \/ later[w.id] = w.doc /\ w.how \in {"replace", "upsert", "recover"}
         \/ later[w.id] = None
  PROVE  ViewOK(later, r)
<1>1. CASE r = Idle
  BY <1>1, ControlIdleOK
<1>2. CASE r # Idle
  <2>1. /\ r.op = q.op /\ r.id = q.id /\ r.fresh = q.fresh
        /\ Len(q.todo) \in Nat /\ Len(q.todo) > 1
        /\ \A i \in DOMAIN r.todo : i + 1 \in DOMAIN q.todo /\ r.todo[i] = q.todo[i + 1]
        /\ q.op \notin OneField
        /\ LastDoc(r) = LastDoc(q)
    BY <1>2, ControlRest
  <2>2. /\ w = q.todo[1] /\ 1 \in DOMAIN q.todo /\ w.id \in Ids /\ WriteOK(w, q.op)
        /\ \A i \in DOMAIN q.todo : q.todo[i].id \in Ids
    <3>1. q.todo \in Seq(ControlWrites)
      BY DEF CallOK
    <3>2. \A i \in DOMAIN q.todo : q.todo[i] \in ControlWrites
      BY <3>1
    <3> QED BY <3>2, ControlHead DEF ControlWrites
  <2>3. ASSUME NEW i \in DOMAIN r.todo,
               r.todo[i].how \in {"replace", "recover", "look"},
               r.todo[i].id \in Jobs \cap r.fresh,
               later[r.todo[i].id] # None
        PROVE  later[r.todo[i].id].status # "completed"
    <3>1. /\ i + 1 \in DOMAIN q.todo /\ r.todo[i] = q.todo[i + 1]
          /\ r.todo[i].id \in Ids
      BY <2>1, <2>2
    <3>2. docs[r.todo[i].id] # None => docs[r.todo[i].id].status # "completed"
      BY <2>1, <2>3, <3>1 DEF ViewOK
    <3>3. CASE later[r.todo[i].id] = docs[r.todo[i].id]
      BY <2>3, <3>2, <3>3
    <3>4. CASE r.todo[i].id = w.id /\ later[w.id] = w.doc /\ w.how \in {"replace", "upsert", "recover"}
      <4>1. w.how # "upsert"
        <5>1. w.how = "upsert" => Creates(q, w.id)
          BY <2>2 DEF Creates
        <5> QED BY <2>1, <2>3, <3>4, <5>1
      <4>2. w.doc.status # "completed"
        BY <2>2, <2>3, <3>4, <4>1 DEF WriteOK
      <4> QED BY <3>4, <4>2
    <3> QED BY <2>3, <3>1, <3>3, <3>4
  <2>4. ASSUME r.id \in Pipelines \cap r.fresh, later[r.id] # None
        PROVE  OwnField(later[r.id], r)
    <3>1. CASE r.op # "reset"
      BY <2>1, <3>1 DEF OwnField, OneField
    <3>2. CASE r.op = "reset"
      <4>1. ResetShape(q) /\ q.op = "reset" /\ r.id \in Ids /\ r.id \notin Jobs
        BY <2>1, <2>4, <3>2, ControlDocKinds DEF CallOK
      <4>2. ~Pausing(r)
        BY <1>2, <3>2, ControlRestOK
      <4>3. \/ w.how = "jobs"
            \/ w.how = "delete" /\ w.id \in Jobs
            \/ w.how = "replace"
        BY <2>1, <2>2, <4>1 DEF ResetShape
      <4>4. CASE later[r.id] = docs[r.id] /\ w.how # "replace"
        <5>1. ~Pausing(q)
          BY <4>4 DEF Pausing
        <5>2. OwnField(docs[q.id], q)
          BY <2>1, <2>4, <4>4 DEF ViewOK
        <5>3. ResetOf(docs[q.id], LastDoc(q)) /\ docs[q.id].status = "paused"
          BY <4>1, <5>1, <5>2 DEF OwnField
        <5> QED BY <2>1, <3>2, <4>4, <5>3 DEF OwnField
      <4>5. CASE w.how = "replace"
        <5>1. Pausing(q)
          BY <2>1, <4>5 DEF Pausing
        <5>2. w.id = q.id /\ w.doc.status = "paused" /\ ResetOf(w.doc, LastDoc(q))
          BY <4>1, <5>1 DEF ResetShape
        <5>3. later[r.id] = w.doc
          BY <2>1, <2>4, <4>1, <4>5, <5>2
        <5> QED BY <2>1, <3>2, <5>2, <5>3 DEF OwnField
      <4>6. w.how # "replace" => later[r.id] = docs[r.id]
        BY <2>4, <4>1, <4>3
      <4> QED BY <4>4, <4>5, <4>6
    <3> QED BY <3>1, <3>2
  <2> QED BY <2>3, <2>4 DEF ViewOK
<1> QED BY <1>1, <1>2

\* Facts about the call that takes a step.
LEMMA ControlCalling ==
  ASSUME ControlIInv, NEW c \in Procs
  PROVE  /\ CallOK(call[c]) /\ ViewOK(store, call[c])
         /\ \A j \in Jobs : Creates(call[c], j) =>
                Len(call[c].todo) = 1 /\ store[j] = None /\ j \notin gone
         /\ Remaining(c) = Rest(call[c])
         /\ store = [id \in Ids |-> store[id]]
         /\ left \in 0..MaxRequests
  BY DEF ControlIInv, ControlState, NewJobsFresh, StoreOK, Remaining, Rest

\* The first write of a call is carried out.
LEMMA ControlPuts ==
  ASSUME ControlIInv, NEW c \in Procs, call[c].todo # <<>>,
         NEW w, w = Head(call[c].todo), w.how \in {"replace", "upsert", "recover"},
         w.how # "upsert" => Exists(w.id),
         Put(c, w, Remaining(c))
  PROVE  ControlIInv'
<1> DEFINE q == call[c]
           r == Remaining(c)
<1>1. /\ CallOK(q) /\ ViewOK(store, q) /\ r = Rest(q) /\ store = [id \in Ids |-> store[id]]
      /\ \A j \in Jobs : Creates(q, j) => Len(q.todo) = 1 /\ store[j] = None /\ j \notin gone
  BY ControlCalling
<1>2. /\ w = q.todo[1] /\ 1 \in DOMAIN q.todo /\ w.id \in Ids /\ WriteOK(w, q.op) /\ Holds(q, w.id)
  BY <1>1, ControlHead
<1>3. store' = [store EXCEPT ![w.id] = w.doc] /\ UNCHANGED <<gone, left>>
  BY DEF Put
<1>4. call' = [k \in Procs |-> IF k = c THEN r ELSE [call[k] EXCEPT !.fresh = @ \ {w.id}]]
  BY DEF Put, Written
<1>5. w.doc \in DocOf(w.id)
  BY <1>2 DEF WriteOK
<1>6. w.id \in Jobs => w.id \notin gone
  <2>1. CASE w.how = "upsert"
    BY <1>1, <1>2, <2>1 DEF Creates
  <2>2. CASE w.how # "upsert"
    BY <2>2 DEF ControlIInv, ControlState, Exists
  <2> QED BY <2>1, <2>2
<1>7. store'[w.id] = w.doc /\ \A id \in Ids \ {w.id} : store'[id] = store[id]
  BY <1>1, <1>2, <1>3
<1> HIDE DEF q, r
<1>8. PICK later, doc, id, now, after :
          later = store' /\ doc = w.doc /\ id = w.id /\ now = call[c] /\ after = call'
  OBVIOUS
<1>9. CallOK(r) /\ \A j \in Jobs : ~Creates(r, j) /\ (Holds(r, j) => Holds(q, j))
  BY <1>1, ControlRestOK DEF q
<1>10. ViewOK(later, r)
  <2>1. /\ CallOK(now) /\ now.todo # <<>> /\ r = Rest(now) /\ ViewOK(store, now) /\ w = Head(now.todo)
        /\ \A j \in Jobs : Creates(now, j) => Len(now.todo) = 1
    BY <1>1, <1>8 DEF q
  <2>2. later[w.id] = w.doc /\ \A i \in Ids \ {w.id} : later[i] = store[i]
    BY <1>7, <1>8
  <2> QED BY <2>1, <2>2, ControlRestView
<1>11. ControlState(later, after, gone, left)
  <2>1. /\ id \in Ids /\ doc \in DocOf(id) \cup {None} /\ later = [store EXCEPT ![id] = doc]
        /\ id \in Jobs /\ doc # None => id \notin gone
    BY <1>2, <1>3, <1>5, <1>6, <1>8
  <2>2. /\ ControlState(store, call, gone, left) /\ Holds(call[c], id)
        /\ \A j \in Jobs : ~Creates(r, j) /\ (Holds(r, j) => Holds(call[c], j))
    BY <1>2, <1>8, <1>9 DEF ControlIInv, q
  <2>3. /\ after = [k \in Procs |-> after[k]] /\ after[c] = r
        /\ \A k \in Procs \ {c} : Notices(call[k], id, after[k])
    BY <1>4, <1>8 DEF Notices
  <2>4. WriteBy(store, call, gone, c, r, id, doc, later, after, gone)
    BY <1>9, <1>10, <2>1, <2>2, <2>3 DEF WriteBy
  <2> QED BY <2>2, <2>4, ControlWriteKeeps
<1> QED BY <1>3, <1>8, <1>11 DEF ControlIInv

\* A document is deleted.
LEMMA ControlDeletes ==
  ASSUME ControlIInv, NEW c \in Procs, call[c].todo # <<>>, Delete(c)
  PROVE  ControlIInv'
<1> DEFINE q == call[c]
           r == Remaining(c)
           w == Head(call[c].todo)
<1>1. /\ CallOK(q) /\ ViewOK(store, q) /\ r = Rest(q) /\ store = [id \in Ids |-> store[id]]
      /\ \A j \in Jobs : Creates(q, j) => Len(q.todo) = 1 /\ store[j] = None /\ j \notin gone
  BY ControlCalling
<1>2. /\ w = q.todo[1] /\ 1 \in DOMAIN q.todo /\ w.id \in Ids /\ WriteOK(w, q.op) /\ Holds(q, w.id)
  BY <1>1, ControlHead
<1>3. /\ store' = [store EXCEPT ![w.id] = None] /\ UNCHANGED left
      /\ gone' = gone \/ gone' = gone \cup {w.id}
  BY DEF Delete
<1>4. call' = [k \in Procs |-> IF k = c THEN r ELSE [call[k] EXCEPT !.fresh = @ \ {w.id}]]
  BY DEF Delete, Written
<1>5. store'[w.id] = None /\ \A id \in Ids \ {w.id} : store'[id] = store[id]
  BY <1>1, <1>2, <1>3
<1> HIDE DEF q, r
<1>6. PICK later, new, id, now, after :
          later = store' /\ new = gone' /\ id = w.id /\ now = call[c] /\ after = call'
  OBVIOUS
<1>7. CallOK(r) /\ \A j \in Jobs : ~Creates(r, j) /\ (Holds(r, j) => Holds(q, j))
  BY <1>1, ControlRestOK DEF q
<1>8. ViewOK(later, r)
  <2>1. /\ CallOK(now) /\ now.todo # <<>> /\ r = Rest(now) /\ ViewOK(store, now) /\ w = Head(now.todo)
        /\ \A j \in Jobs : Creates(now, j) => Len(now.todo) = 1
    BY <1>1, <1>6 DEF q
  <2>2. later[w.id] = None /\ \A i \in Ids \ {w.id} : later[i] = store[i]
    BY <1>5, <1>6
  <2> QED BY <2>1, <2>2, ControlRestView
<1>9. ControlState(later, after, new, left)
  <2>1. /\ id \in Ids /\ later = [store EXCEPT ![id] = None] /\ (new = gone \/ new = gone \cup {id})
    BY <1>2, <1>3, <1>6
  <2>2. /\ ControlState(store, call, gone, left) /\ Holds(call[c], id)
        /\ \A j \in Jobs : ~Creates(r, j) /\ (Holds(r, j) => Holds(call[c], j))
    BY <1>2, <1>6, <1>7 DEF ControlIInv, q
  <2>3. /\ after = [k \in Procs |-> after[k]] /\ after[c] = r
        /\ \A k \in Procs \ {c} : Notices(call[k], id, after[k])
    BY <1>4, <1>6 DEF Notices
  <2>4. WriteBy(store, call, gone, c, r, id, None, later, after, new)
    BY <1>7, <1>8, <2>1, <2>2, <2>3 DEF WriteBy
  <2> QED BY <2>2, <2>4, ControlWriteKeeps
<1> QED BY <1>3, <1>6, <1>9 DEF ControlIInv

\* A write is left out, or the rest of the call is.
LEMMA ControlLeavesOut ==
  ASSUME ControlIInv, NEW c \in Procs, call[c].todo # <<>>, UNCHANGED <<store, gone, left>>,
         \/ call' = [call EXCEPT ![c] = Idle]
         \/ /\ call' = [call EXCEPT ![c] = Remaining(c)]
            /\ Head(call[c].todo).how # "replace" \/ call[c].op # "reset"
  PROVE  ControlIInv'
<1> DEFINE q == call[c]
<1>1. /\ CallOK(q) /\ ViewOK(store, q) /\ Remaining(c) = Rest(q)
      /\ \A j \in Jobs : Creates(q, j) => Len(q.todo) = 1
      /\ left \in 0..MaxRequests
  BY ControlCalling
<1>2. PICK r : /\ call' = [call EXCEPT ![c] = r]
               /\ \/ r = Idle
                  \/ r = Rest(q) /\ (Head(q.todo).how # "replace" \/ q.op # "reset")
  BY <1>1
<1> HIDE DEF q
<1>3. CallOK(r) /\ \A j \in Jobs : ~Creates(r, j) /\ (Holds(r, j) => Holds(q, j))
  BY <1>1, <1>2, ControlRestOK, ControlIdleOK DEF q
<1>4. ViewOK(store, r)
  <2>1. Head(q.todo).id \in Ids
    BY <1>1, ControlHead DEF q
  <2> QED BY <1>1, <1>2, <2>1, ControlRestView, ControlIdleOK DEF q
<1>5. Joins(store, call, gone, c, r)
  BY <1>3 DEF Joins, q
<1> QED BY <1>1, <1>2, <1>3, <1>4, <1>5, ControlTakesUp

\* The pipelines of a destination that was enabled are listed.
LEMMA ControlListReplayed ==
  ASSUME ControlIInv, NEW c \in Procs, call[c].todo # <<>>, ListReplayed(c)
  PROVE  ControlIInv'
<1> DEFINE q == call[c]
           w == Head(q.todo)
           replayed == {p \in Targeting(w.id) : store[p].status = "active" /\ store[p].reset < MaxResets}
           Again(p) == Write("upsert", p, [store[p] EXCEPT !.reset = @ + 1])
           todo == [i \in 1..Cardinality(replayed) |-> Again(SetToSeq(replayed)[i])]
           r == IF todo = <<>> THEN Idle ELSE [q EXCEPT !.todo = todo, !.fresh = @ \cup replayed]
<1>1. /\ CallOK(q) /\ ViewOK(store, q) /\ left \in 0..MaxRequests
  BY ControlCalling, SMTT(40)
<1>2. w.how = "list" /\ call' = [call EXCEPT ![c] = r] /\ UNCHANGED <<store, gone, left>>
  <2>1. w.how = "list"
    BY ZenonT(60) DEF ListReplayed
  <2>2. call' = [call EXCEPT ![c] = r]
    BY ZenonT(60) DEF ListReplayed
  <2> QED BY <2>1, <2>2, ZenonT(60) DEF ListReplayed
<1>3. q.op = "patch"
  BY <1>1, <1>2, ControlHead DEF WriteOK
<1>4. \A p \in replayed :
          /\ p \in Pipelines /\ p \in Ids /\ p \notin Jobs /\ Exists(p) /\ store[p].reset < MaxResets
          /\ store[p].status = "active"
  BY ControlDocKinds DEF Targeting, Listed
<1>5. \A p \in replayed :
          /\ [store[p] EXCEPT !.reset = @ + 1] \in DocOf(p)
          /\ [store[p] EXCEPT !.reset = @ + 1] \in ControlDocs
  <2> TAKE p \in replayed
  <2> HIDE DEF replayed
  <2>1. PICK old : old = store[p]
    OBVIOUS
  <2>2. [old EXCEPT !.status = "active", !.reset = IF TRUE THEN @ + 1 ELSE @] \in DocOf(p)
    BY <1>4, <2>1, ControlReplayed
  <2>3. old \in [kind : {"pipeline"}, sources : SUBSET Sources, destination : Destinations,
                 mode : Modes, status : {"active", "paused"}, reset : 0..MaxResets]
    BY <1>4, <2>1, ControlStored, ControlDocKinds
  <2>4. [old EXCEPT !.status = "active"] = old
    BY <1>4, <2>1, <2>3
  <2>5. [old EXCEPT !.status = "active", !.reset = IF TRUE THEN @ + 1 ELSE @] = [old EXCEPT !.reset = @ + 1]
    <3>1. PICK n : n = old.reset + 1
      OBVIOUS
    <3>2. [old EXCEPT !.status = "active", !.reset = n] = [old EXCEPT !.reset = n]
      BY <2>4
    <3>3. old.reset = store[p].reset
      BY <2>1
    <3> QED BY <3>1, <3>2
  <2> QED BY <1>4, <2>1, <2>2, <2>5, ControlDocsOf
<1>6. /\ SetToSeq(replayed) \in [1..Cardinality(replayed) -> replayed]
      /\ Cardinality(replayed) \in Nat
  <2>1. replayed \in SUBSET Ids
    BY <1>4
  <2> HIDE DEF replayed
  <2> QED BY <2>1, ControlFinite, ControlSetToSeq
<1> HIDE DEF replayed
<1>7. \A i \in 1..Cardinality(replayed) :
          /\ todo[i] \in ControlWrites /\ todo[i].how = "upsert" /\ todo[i].id \in replayed
          /\ todo[i].doc \in DocOf(todo[i].id)
  <2> TAKE i \in 1..Cardinality(replayed)
  <2>1. PICK p \in replayed : p = SetToSeq(replayed)[i]
    BY <1>6
  <2>2. PICK doc : doc = [store[p] EXCEPT !.reset = @ + 1]
    OBVIOUS
  <2>3. todo[i] = Write("upsert", p, doc)
    BY <2>1, <2>2
  <2> QED BY <1>4, <1>5, <2>1, <2>2, <2>3, ControlWriteIn DEF WriteKinds
<1>8. todo \in Seq(ControlWrites) /\ DOMAIN todo = 1..Cardinality(replayed)
  <2>1. DOMAIN todo = 1..Cardinality(replayed) /\ todo = [i \in 1..Cardinality(replayed) |-> todo[i]]
    OBVIOUS
  <2> HIDE DEF todo
  <2> QED BY <1>6, <1>7, <2>1
<1> HIDE DEF todo
<1>9. replayed \subseteq Ids
  BY <1>4
<1>10. CASE todo = <<>>
  BY <1>1, <1>2, <1>10, ControlLeavesOut
<1>11. CASE todo # <<>>
  <2>1. PICK o, i, t, f : q = [op |-> o, id |-> i, todo |-> t, fresh |-> f]
    BY <1>1 DEF CallOK
  <2>2. PICK g : g = f \cup replayed
    OBVIOUS
  <2>3. r = [op |-> o, id |-> i, todo |-> todo, fresh |-> g]
    <3>1. r = [q EXCEPT !.todo = todo, !.fresh = @ \cup replayed]
      BY <1>11
    <3>2. q.fresh = f
      BY <2>1
    <3>3. PICK half : half = [q EXCEPT !.todo = todo]
      OBVIOUS
    <3>4. half = [op |-> o, id |-> i, todo |-> todo, fresh |-> f]
      BY <2>1, <3>3
    <3>5. r = [half EXCEPT !.fresh = @ \cup replayed]
      BY <3>1, <3>3
    <3> QED BY <2>2, <3>4, <3>5
  <2> HIDE DEF r
  <2>4. r.op = "patch" /\ r.todo = todo /\ r.fresh \subseteq Ids
    BY <1>1, <1>3, <1>9, <2>1, <2>2, <2>3 DEF CallOK
  <2>5. r = [op |-> r.op, id |-> r.id, todo |-> r.todo, fresh |-> r.fresh]
    BY <2>3
  <2>6. \A k \in DOMAIN r.todo :
            /\ r.todo[k].id \notin Jobs
            /\ r.todo[k].how = "upsert" /\ r.todo[k].doc \in DocOf(r.todo[k].id)
    BY <1>4, <1>7, <1>8, <2>4
  <2>7. CallOK(r)
    <3>1. r # Idle
      <4>1. Idle.todo = <<>>
        BY DEF Idle
      <4> QED BY <1>11, <2>4, <4>1
    <3>2. OneWrite(r) /\ ResetShape(r)
      BY <2>4 DEF OneWrite, OneField, ResetShape
    <3>3. \A k \in DOMAIN r.todo : WriteOK(r.todo[k], r.op)
      BY <2>6 DEF WriteOK
    <3> QED BY <1>8, <1>11, <2>4, <2>5, <3>1, <3>2, <3>3 DEF CallOK
  <2>8. ViewOK(store, r)
    BY <2>4, <2>6 DEF ViewOK, OwnField, OneField
  <2>9. Joins(store, call, gone, c, r)
    BY <2>6 DEF Joins, Holds, Creates
  <2> QED BY <1>1, <1>2, <2>7, <2>8, <2>9, ControlTakesUp
<1> QED BY <1>10, <1>11

\* The jobs of a pipeline that is being reset are listed.
LEMMA ControlListJobs ==
  ASSUME ControlIInv, NEW c \in Procs, call[c].todo # <<>>, ListJobs(c)
  PROVE  ControlIInv'
<1> DEFINE q == call[c]
           p == Head(q.todo).id
           pool == {j \in Listed(Jobs) : store[j].pipeline = p}
           found == SetToSeq(pool)
           deletes == [i \in DOMAIN found |-> Write("delete", found[i], None)]
           rest == Tail(q.todo)
           r == [q EXCEPT !.todo = deletes \o rest]
<1>1. /\ CallOK(q) /\ ViewOK(store, q) /\ left \in 0..MaxRequests
      /\ \A j \in Jobs : Creates(q, j) => Len(q.todo) = 1
  BY ControlCalling
<1>2. /\ Head(q.todo).how = "jobs" /\ call' = [call EXCEPT ![c] = r] /\ UNCHANGED <<store, gone, left>>
  BY DEF ListJobs
<1>3. q.op = "reset"
  BY <1>1, <1>2, ControlHead DEF WriteOK
<1>4. ResetShape(q) /\ q.id \in Pipelines
  BY <1>1, <1>3 DEF CallOK, ResetShape
<1>5. \A j \in pool : j \in Jobs /\ j \in Ids /\ store[j] # None
  BY ControlDocKinds DEF Listed, Exists
<1>6. found \in Seq(pool)
  <2>1. pool \in SUBSET Ids
    BY <1>5
  <2> HIDE DEF pool
  <2> QED BY <2>1, ControlFinite, ControlSetToSeq
<1> HIDE DEF pool, found
<1>7. /\ deletes \in Seq(ControlWrites)
      /\ \A i \in DOMAIN deletes : deletes[i].how = "delete" /\ deletes[i].id \in pool
  <2>1. \A i \in DOMAIN found :
            /\ deletes[i] \in ControlWrites /\ deletes[i].how = "delete" /\ deletes[i].id \in pool
    BY <1>5, <1>6, ControlWriteIn, ControlDocsOf DEF WriteKinds
  <2>2. DOMAIN deletes = DOMAIN found /\ deletes = [i \in DOMAIN found |-> deletes[i]]
    OBVIOUS
  <2> HIDE DEF deletes
  <2>3. PICK n \in Nat : DOMAIN found = 1..n
    BY <1>6
  <2> QED BY <2>1, <2>2, <2>3
<1> HIDE DEF deletes
<1>8. /\ q.todo \in Seq(ControlWrites) /\ DOMAIN q.todo = 1..Len(q.todo) /\ Len(q.todo) \in Nat
      /\ rest \in Seq(ControlWrites) /\ Len(rest) = Len(q.todo) - 1
      /\ \A i \in 1..Len(rest) : rest[i] = q.todo[i + 1]
      /\ Head(q.todo) = q.todo[1]
  <2>1. PICK s : s = q.todo
    OBVIOUS
  <2>2. s \in Seq(ControlWrites) /\ s # <<>>
    BY <1>1, <2>1 DEF CallOK
  <2>3. /\ DOMAIN s = 1..Len(s) /\ Len(s) \in Nat /\ Head(s) = s[1]
    BY <2>2
  <2>4. /\ Tail(s) \in Seq(ControlWrites) /\ Len(Tail(s)) = Len(s) - 1
        /\ \A i \in 1..Len(Tail(s)) : Tail(s)[i] = s[i + 1]
    BY <2>2, HeadTailProperties
  <2>5. rest = Tail(s)
    BY <2>1
  <2> HIDE DEF rest, q
  <2> QED BY <2>1, <2>2, <2>3, <2>4, <2>5
<1>9. Len(rest) \in Nat /\ Len(rest) > 0 /\ Len(q.todo) > 1
  <2>1. Len(q.todo) # 1
    BY <1>2, <1>3, <1>4, <1>8 DEF ResetShape
  <2>2. Len(q.todo) # 0
    BY <1>8, EmptySeq
  <2>3. PICK n, m : n = Len(q.todo) /\ m = Len(rest)
    OBVIOUS
  <2>4. n \in Nat /\ m = n - 1 /\ n # 0 /\ n # 1
    BY <1>8, <2>1, <2>2, <2>3
  <2>5. m \in Nat /\ m > 0 /\ n > 1
    BY <2>4
  <2> HIDE DEF rest, q
  <2> QED BY <2>3, <2>5
<1>10. \A i \in 1..Len(rest) :
           /\ i = Len(rest) => rest[i].how = "replace" /\ rest[i].id = q.id
           /\ i < Len(rest) => rest[i].how = "jobs" \/ (rest[i].how = "delete" /\ rest[i].id \in Jobs)
           /\ WriteOK(rest[i], "reset")
  <2> TAKE i \in 1..Len(rest)
  <2>1. i + 1 \in DOMAIN q.todo /\ rest[i] = q.todo[i + 1] /\ i + 1 # 1
    BY <1>8, <1>9
  <2>2. i = Len(rest) => i + 1 = Len(q.todo)
    BY <1>8, <1>9
  <2>3. i < Len(rest) => i + 1 < Len(q.todo)
    BY <1>8, <1>9
  <2>4. WriteOK(rest[i], "reset")
    BY <1>1, <1>3, <2>1 DEF CallOK
  <2>5. /\ q.todo[Len(q.todo)].how = "replace" /\ q.todo[Len(q.todo)].id = q.id
        /\ \A k \in DOMAIN q.todo :
               k < Len(q.todo) => \/ q.todo[k].how = "jobs"
                                  \/ q.todo[k].how = "delete" /\ q.todo[k].id \in Jobs
                                  \/ k = 1 /\ q.todo[k].how = "replace"
    BY <1>3, <1>4 DEF ResetShape
  <2> QED BY <2>1, <2>2, <2>3, <2>4, <2>5
<1> HIDE DEF rest
<1>11. PICK todo : todo = deletes \o rest
  OBVIOUS
<1>12. /\ todo \in Seq(ControlWrites) /\ Len(todo) = Len(deletes) + Len(rest) /\ Len(deletes) \in Nat
       /\ DOMAIN todo = 1..Len(todo) /\ DOMAIN deletes = 1..Len(deletes)
       /\ \A i \in 1..Len(todo) :
              todo[i] = IF i <= Len(deletes) THEN deletes[i] ELSE rest[i - Len(deletes)]
  <2>1. deletes \in Seq(ControlWrites) /\ rest \in Seq(ControlWrites)
    BY <1>7, <1>8
  <2>2. /\ todo \in Seq(ControlWrites) /\ Len(todo) = Len(deletes) + Len(rest)
        /\ \A i \in 1..Len(deletes) + Len(rest) :
               todo[i] = IF i <= Len(deletes) THEN deletes[i] ELSE rest[i - Len(deletes)]
    BY <2>1, <1>11, ConcatProperties
  <2>3. /\ Len(deletes) \in Nat /\ DOMAIN todo = 1..Len(todo) /\ DOMAIN deletes = 1..Len(deletes)
    BY <2>1, <2>2
  <2> QED BY <2>2, <2>3
<1>13. todo # <<>> /\ Head(todo) = todo[1]
  BY <1>9, <1>12
<1>14. todo[Len(todo)] = rest[Len(rest)]
  BY <1>9, <1>12
<1>15. \A i \in DOMAIN todo :
           /\ i < Len(todo) => todo[i].how = "jobs" \/ (todo[i].how = "delete" /\ todo[i].id \in Jobs)
           /\ WriteOK(todo[i], "reset")
  <2> TAKE i \in DOMAIN todo
  <2>1. CASE i <= Len(deletes)
    <3>1. todo[i] = deletes[i] /\ i \in DOMAIN deletes
      BY <1>12, <2>1
    <3> QED BY <1>5, <1>7, <3>1 DEF WriteOK
  <2>2. CASE i > Len(deletes)
    <3>1. PICK k \in 1..Len(rest) : k = i - Len(deletes)
      BY <1>9, <1>12, <2>2
    <3>2. todo[i] = rest[k] /\ (i < Len(todo) => k < Len(rest))
      BY <1>9, <1>12, <2>2, <3>1
    <3> QED BY <1>10, <3>2
  <2> QED BY <1>9, <1>12, <2>1, <2>2
<1>16. todo[Len(todo)].how = "replace" /\ todo[Len(todo)].id = q.id
  BY <1>9, <1>10, <1>14
<1>17. PICK o, i, t, f : q = [op |-> o, id |-> i, todo |-> t, fresh |-> f]
  BY <1>1 DEF CallOK
<1>18. r = [op |-> o, id |-> i, todo |-> todo, fresh |-> f]
  <2>1. r = [q EXCEPT !.todo = todo]
    BY <1>11
  <2> HIDE DEF r
  <2> QED BY <1>17, <2>1
<1>19. q.op = o /\ q.id = i /\ q.fresh = f
  BY <1>17
<1> HIDE DEF r
<1>20. r.op = "reset" /\ r.id = q.id /\ r.todo = todo /\ r.fresh = q.fresh
  BY <1>3, <1>18, <1>19
<1>21. r = [op |-> r.op, id |-> r.id, todo |-> r.todo, fresh |-> r.fresh] /\ r # Idle
  BY <1>18, <1>20 DEF Idle
<1>22. ~Pausing(r)
  <2> SUFFICES ASSUME Pausing(r) PROVE FALSE
    OBVIOUS
  <2>1. todo[1].how = "replace" /\ 1 < Len(todo) /\ 1 \in DOMAIN todo
    BY <1>12, <1>13, <1>20 DEF Pausing
  <2> QED BY <1>15, <2>1
<1>23. LastDoc(r) = LastDoc(q)
  <2>1. Len(rest) \in 1..Len(rest) /\ Len(rest) + 1 = Len(q.todo)
    BY <1>8, <1>9
  <2>2. rest[Len(rest)] = q.todo[Len(q.todo)]
    BY <1>8, <2>1
  <2> QED BY <1>14, <1>20, <2>2 DEF LastDoc
<1>24. CallOK(r)
  <2>1. OneWrite(r)
    BY <1>20 DEF OneWrite, OneField
  <2>2. ResetShape(r)
    BY <1>4, <1>13, <1>15, <1>16, <1>20, <1>22 DEF ResetShape
  <2>3. r.fresh \subseteq Ids
    BY <1>1, <1>20 DEF CallOK
  <2> QED BY <1>12, <1>13, <1>15, <1>20, <1>21, <2>1, <2>2, <2>3 DEF CallOK
<1>25. ViewOK(store, r)
  <2>1. ~Pausing(q)
    BY <1>2 DEF Pausing
  <2>2. q.id \in q.fresh /\ store[q.id] # None => OwnField(store[q.id], q)
    BY <1>1, <1>4 DEF ViewOK
  <2>3. r.id \in r.fresh /\ store[r.id] # None => OwnField(store[r.id], r)
    BY <1>3, <1>20, <1>23, <2>1, <2>2 DEF OwnField
  <2>4. \A k \in DOMAIN todo :
            todo[k].id \in Jobs => todo[k].how \notin {"replace", "recover", "look"}
    <3> TAKE k \in DOMAIN todo
    <3>1. CASE k < Len(todo)
      BY <1>15, <3>1
    <3>2. CASE k = Len(todo)
      BY <1>4, <1>16, <3>2, ControlDocKinds
    <3> QED BY <1>12, <3>1, <3>2
  <2> QED BY <1>20, <2>3, <2>4 DEF ViewOK
<1>26. Joins(store, call, gone, c, r)
  <2>1. \A k \in DOMAIN todo : todo[k].how # "upsert"
    <3> TAKE k \in DOMAIN todo
    <3>1. CASE k < Len(todo)
      BY <1>15, <3>1
    <3>2. CASE k = Len(todo)
      BY <1>16, <3>2
    <3> QED BY <1>12, <3>1, <3>2
  <2>2. \A k \in DOMAIN todo : todo[k].id \in Jobs => store[todo[k].id] # None \/ Holds(q, todo[k].id)
    <3> TAKE k \in DOMAIN todo
    <3>1. CASE k <= Len(deletes)
      BY <1>5, <1>7, <1>12, <3>1
    <3>2. CASE k > Len(deletes)
      <4>1. PICK n \in 1..Len(rest) : n = k - Len(deletes)
        BY <1>9, <1>12, <3>2
      <4>2. todo[k] = rest[n]
        BY <1>9, <1>12, <3>2, <4>1
      <4>3. n + 1 \in DOMAIN q.todo /\ rest[n] = q.todo[n + 1]
        BY <1>8, <1>9, <4>1
      <4> QED BY <4>2, <4>3 DEF Holds
    <3> QED BY <1>9, <1>12, <3>1, <3>2
  <2> HIDE DEF q
  <2> QED BY <1>20, <2>1, <2>2 DEF Joins, Holds, Creates, q
<1> QED BY <1>1, <1>2, <1>24, <1>25, <1>26, ControlTakesUp

-----------------------------------------------------------------------------
(* ControlPlane: the job monitor, the workers and the clock.                *)

\* A job that the monitor has failed or retried is a job, and not a finished one.
LEMMA ControlRecovered ==
  ASSUME NEW j \in Jobs, NEW job \in DocOf(j), job.status # "completed"
  PROVE  Recovered(job) \in DocOf(j) /\ Recovered(job).status # "completed"
<1> DEFINE Status == {"pending", "processing", "completed", "failed", "cancelled"}
           JobDocs == [kind : {"job"}, pipeline : Pipelines, ref : Refs, late : BOOLEAN,
                       status : Status,
                       retries : 0..MAX_MANUAL_RETRIES \cup 0..MAX_RETRY_COUNT]
<1>1. DocOf(j) = JobDocs /\ MAX_MANUAL_RETRIES \in Nat /\ MAX_RETRY_COUNT \in Nat
  BY ControlDocKinds, ControlAssumption
<1>2. PICK failed : failed = IF Stuck(job) THEN [job EXCEPT !.status = "failed", !.late = FALSE] ELSE job
  OBVIOUS
<1>3. failed \in JobDocs /\ failed.status # "completed"
  <2>1. CASE Stuck(job)
    <3>1. PICK half : half = [job EXCEPT !.status = "failed"]
      OBVIOUS
    <3>2. half \in JobDocs /\ half.status = "failed"
      BY <1>1, <3>1
    <3>3. failed = [half EXCEPT !.late = FALSE]
      BY <1>2, <2>1, <3>1
    <3>4. failed \in JobDocs /\ failed.status = half.status
      BY <3>2, <3>3
    <3> QED BY <3>2, <3>4
  <2>2. CASE ~Stuck(job)
    <3>1. failed = job
      BY <1>2, <2>2
    <3> QED BY <1>1, <3>1
  <2> QED BY <2>1, <2>2
<1>4. PICK n : n = failed.retries + 1
  OBVIOUS
<1>5. failed.retries \in Nat
  BY <1>1, <1>3
<1>6. CASE failed.retries < MAX_RETRY_COUNT
  <2>1. n \in 0..MAX_RETRY_COUNT
    BY <1>1, <1>4, <1>5, <1>6
  <2>2. Retried(failed) = [failed EXCEPT !.status = "pending", !.late = FALSE, !.retries = n]
    BY <1>4 DEF Retried
  <2>3. [failed EXCEPT !.status = "pending", !.late = FALSE, !.retries = n] \in JobDocs
    BY <1>3, <2>1
  <2>4. Retried(failed) \in JobDocs /\ Retried(failed).status = "pending"
    BY <1>3, <2>2, <2>3
  <2>5. Recovered(job) = Retried(failed) \/ Recovered(job) = failed
    BY <1>2 DEF Recovered
  <2> HIDE DEF JobDocs
  <2> QED BY <1>1, <1>3, <2>4, <2>5
<1>7. CASE ~(failed.retries < MAX_RETRY_COUNT)
  <2>1. Recovered(job) = failed
    BY <1>2, <1>7 DEF Recovered
  <2> HIDE DEF JobDocs
  <2> QED BY <1>1, <1>3, <2>1
<1> QED BY <1>6, <1>7

\* The monitor queries the jobs: they exist, and none of them is finished.
LEMMA ControlQuery ==
  ASSUME ControlIInv, MonitorQuery
  PROVE  ControlIInv'
<1> DEFINE found == {j \in Listed(Jobs) : Recoverable(store[j])}
           todo == [i \in 1..Cardinality(found) |->
                        Write("look", SetToSeq(found)[i], store[SetToSeq(found)[i]])]
           r == [op |-> "monitor", id |-> "", todo |-> todo, fresh |-> found]
<1>1. Monitor \in Procs /\ left \in 0..MaxRequests
  BY DEF Procs, ControlIInv, ControlState
<1>2. found # {} /\ call' = [call EXCEPT ![Monitor] = r] /\ UNCHANGED <<store, gone, left>>
  BY DEF MonitorQuery
<1>3. \A j \in found : /\ j \in Jobs /\ j \in Ids /\ Exists(j) /\ store[j] # None
                       /\ store[j].status # "completed"
  BY ControlDocKinds DEF Listed, Exists, Recoverable, Stuck
<1>4. \A j \in found : store[j] \in DocOf(j) /\ store[j] \in ControlDocs
  BY <1>3, ControlStored
<1>5. found \in SUBSET Ids
  BY <1>3
<1>6. /\ Cardinality(found) \in Nat /\ Cardinality(found) # 0
      /\ SetToSeq(found) \in [1..Cardinality(found) -> found]
  <2> HIDE DEF found
  <2> QED BY <1>2, <1>5, ControlFinite, ControlSetToSeq
<1>7. r.op = "monitor" /\ r.todo = todo /\ r.fresh = found /\ r.id = ""
  OBVIOUS
<1>8. r = [op |-> r.op, id |-> r.id, todo |-> r.todo, fresh |-> r.fresh]
  BY <1>7
<1> HIDE DEF found, r
<1>9. \A i \in 1..Cardinality(found) :
          /\ todo[i] \in ControlWrites /\ todo[i].how = "look" /\ todo[i].id \in found
          /\ todo[i].doc = store[todo[i].id]
  <2> TAKE i \in 1..Cardinality(found)
  <2>1. PICK j \in found : j = SetToSeq(found)[i]
    BY <1>6
  <2>2. PICK doc : doc = store[j]
    OBVIOUS
  <2>3. todo[i] = Write("look", j, doc)
    BY <2>1, <2>2
  <2> QED BY <1>3, <1>4, <2>1, <2>2, <2>3, ControlWriteIn DEF WriteKinds
<1>10. /\ todo \in Seq(ControlWrites) /\ DOMAIN todo = 1..Cardinality(found) /\ todo # <<>>
  <2>1. DOMAIN todo = 1..Cardinality(found) /\ todo = [i \in 1..Cardinality(found) |-> todo[i]]
    OBVIOUS
  <2> HIDE DEF todo
  <2>2. todo \in Seq(ControlWrites)
    BY <1>6, <1>9, <2>1
  <2>3. 1 \in DOMAIN todo
    BY <1>6, <2>1
  <2>4. todo = <<>> => DOMAIN todo = {}
    OBVIOUS
  <2> QED BY <2>1, <2>2, <2>3, <2>4
<1> HIDE DEF todo
<1>11. CallOK(r)
  <2>1. \A i \in DOMAIN todo : WriteOK(todo[i], "monitor")
    <3> TAKE i \in DOMAIN todo
    <3>1. PICK w, j : w = todo[i] /\ j = w.id
      OBVIOUS
    <3>2. w.how = "look" /\ j \in found /\ w.doc = store[j]
      BY <1>9, <1>10, <3>1
    <3> QED BY <1>3, <1>4, <3>1, <3>2 DEF WriteOK
  <2>2. r # Idle
    <3>1. Idle.todo = <<>>
      BY DEF Idle
    <3> QED BY <1>7, <1>10, <3>1
  <2>3. OneWrite(r) /\ ResetShape(r)
    BY <1>7 DEF OneWrite, OneField, ResetShape
  <2> QED BY <1>5, <1>7, <1>8, <1>10, <2>1, <2>2, <2>3 DEF CallOK
<1>12. ViewOK(store, r)
  BY <1>3, <1>7, <1>9, <1>10 DEF ViewOK, OwnField, OneField
<1>13. Joins(store, call, gone, Monitor, r)
  BY <1>3, <1>7, <1>9, <1>10 DEF Joins, Holds, Creates
<1> QED BY <1>1, <1>2, <1>11, <1>12, <1>13, ControlTakesUp

\* The monitor decides what becomes of the job it looks at.
LEMMA ControlLook ==
  ASSUME ControlIInv, call[Monitor].todo # <<>>, MonitorLook
  PROVE  ControlIInv'
<1> DEFINE q == call[Monitor]
           w == Head(q.todo)
           doc == Recovered(w.doc)
           new == Write("recover", w.id, doc)
<1>1. /\ Monitor \in Procs /\ left \in 0..MaxRequests /\ CallOK(q) /\ ViewOK(store, q)
      /\ \A j \in Jobs : Creates(q, j) => Len(q.todo) = 1
  BY ControlCalling DEF Procs
<1>2. /\ w.how = "look"
      /\ call' = [call EXCEPT ![Monitor] = IF doc = w.doc THEN Remaining(Monitor)
                                           ELSE [q EXCEPT !.todo = <<new>> \o Tail(q.todo)]]
      /\ UNCHANGED <<store, gone, left>>
  <2>1. w.how = "look" /\ UNCHANGED <<store, gone, left>>
    BY DEF MonitorLook
  <2>2. call' = [call EXCEPT ![Monitor] = IF doc = w.doc THEN Remaining(Monitor)
                                           ELSE [q EXCEPT !.todo = <<new>> \o Tail(q.todo)]]
    BY DEF MonitorLook
  <2> QED BY <2>1, <2>2
<1>3. /\ w = q.todo[1] /\ 1 \in DOMAIN q.todo /\ w.id \in Ids /\ WriteOK(w, q.op) /\ Holds(q, w.id)
  BY <1>1, ControlHead
<1>4. CASE doc = w.doc
  BY <1>1, <1>2, <1>4, ControlLeavesOut
<1>5. CASE doc # w.doc
  <2>1. w.id \in Jobs /\ w.doc \in DocOf(w.id) /\ w.doc.status # "completed"
    BY <1>2, <1>3 DEF WriteOK
  <2>2. doc \in DocOf(w.id) /\ doc.status # "completed"
    BY <2>1, ControlRecovered
  <2> HIDE DEF doc, w
  <2>3. new \in ControlWrites /\ new.how = "recover" /\ new.id = w.id /\ new.doc = doc
    BY <1>3, <2>2, ControlWriteIn, ControlDocsOf DEF WriteKinds
  <2> HIDE DEF new
  <2>4. PICK o, i, t, f : q = [op |-> o, id |-> i, todo |-> t, fresh |-> f]
    BY <1>1 DEF CallOK
  <2>5. q.op = o /\ q.id = i /\ q.todo = t /\ q.fresh = f
    BY <2>4
  <2>6. PICK todo : todo = <<new>> \o Tail(t)
    OBVIOUS
  <2>7. PICK r : r = [op |-> o, id |-> i, todo |-> todo, fresh |-> f]
    OBVIOUS
  <2>8. call' = [call EXCEPT ![Monitor] = r]
    <3>1. r = [q EXCEPT !.todo = todo]
      BY <2>4, <2>7
    <3>2. todo = <<new>> \o Tail(q.todo)
      BY <2>5, <2>6
    <3> QED BY <1>2, <1>5, <3>1, <3>2
  <2> HIDE DEF q
  <2>9. /\ r.op = q.op /\ r.id = q.id /\ r.todo = todo /\ r.fresh = q.fresh
        /\ r = [op |-> r.op, id |-> r.id, todo |-> r.todo, fresh |-> r.fresh]
    BY <2>5, <2>7
  <2>10. t \in Seq(ControlWrites) /\ t # <<>> /\ t[1].how = "look" /\ Head(t) = t[1]
    BY <1>1, <1>2, <1>3, <2>5 DEF CallOK, q
  <2>11. /\ todo \in Seq(ControlWrites) /\ Len(todo) = Len(t) /\ DOMAIN todo = DOMAIN t
         /\ todo[1] = new /\ todo # <<>>
         /\ \A k \in DOMAIN t : k # 1 => todo[k] = t[k]
    <3>1. /\ Tail(t) \in Seq(ControlWrites) /\ Len(Tail(t)) = Len(t) - 1
          /\ \A k \in 1..Len(Tail(t)) : Tail(t)[k] = t[k + 1]
      BY <2>10, HeadTailProperties
    <3>2. PICK rest : rest = Tail(t)
      OBVIOUS
    <3>3. PICK one : one = <<new>>
      OBVIOUS
    <3>4. one \in Seq(ControlWrites) /\ Len(one) = 1 /\ one[1] = new
      BY <2>3, <3>3
    <3>5. Len(t) \in Nat \ {0} /\ DOMAIN t = 1..Len(t) /\ Len(rest) \in Nat
      BY <2>10, <3>1, <3>2, EmptySeq
    <3>6. /\ todo \in Seq(ControlWrites) /\ Len(todo) = 1 + Len(rest)
          /\ \A k \in 1..1 + Len(rest) : todo[k] = IF k <= 1 THEN new ELSE rest[k - 1]
      <4>1. todo = one \o rest
        BY <2>6, <3>2, <3>3
      <4>2. /\ todo \in Seq(ControlWrites) /\ Len(todo) = Len(one) + Len(rest)
            /\ \A k \in 1..Len(one) + Len(rest) :
                   todo[k] = IF k <= Len(one) THEN one[k] ELSE rest[k - Len(one)]
        <5>1. rest \in Seq(ControlWrites)
          BY <3>1, <3>2
        <5> QED BY <5>1, <3>4, <4>1, ConcatProperties
      <4> QED BY <3>4, <3>5, <4>2
    <3>7. Len(todo) = Len(t) /\ DOMAIN todo = DOMAIN t /\ todo[1] = new /\ todo # <<>>
      BY <3>1, <3>2, <3>5, <3>6
    <3>8. \A k \in DOMAIN t : k # 1 => todo[k] = t[k]
      <4> SUFFICES ASSUME NEW k \in DOMAIN t, k # 1 PROVE todo[k] = t[k]
        OBVIOUS
      <4>1. PICK m : m = k - 1
        OBVIOUS
      <4>2. m \in 1..Len(rest) /\ k = m + 1 /\ todo[k] = rest[m]
        BY <3>1, <3>2, <3>5, <3>6, <4>1
      <4> QED BY <3>1, <3>2, <4>2
    <3> QED BY <3>6, <3>7, <3>8
  <2>12. q.op \notin OneField /\ q.op # "reset"
    <3>1. OneWrite(q) /\ ResetShape(q)
      BY <1>1 DEF CallOK
    <3>2. q.op \notin OneField
      BY <2>5, <2>10, <3>1 DEF OneWrite
    <3>3. q.op # "reset"
      <4>1. 1 \in DOMAIN q.todo /\ q.todo[1].how = "look" /\ Len(q.todo) \in Nat \ {0}
        BY <1>3, <2>5, <2>10, EmptySeq
      <4>2. 1 < Len(q.todo) \/ 1 = Len(q.todo)
        <5>1. PICK n \in Nat \ {0} : n = Len(q.todo)
          BY <4>1
        <5>2. 1 < n \/ 1 = n
          OBVIOUS
        <5> QED BY <5>1, <5>2
      <4> QED BY <3>1, <4>1, <4>2 DEF ResetShape
    <3> QED BY <3>2, <3>3
  <2>13. CallOK(r)
    <3>1. \A k \in DOMAIN todo : WriteOK(todo[k], r.op)
      <4>1. WriteOK(new, r.op)
        BY <2>1, <2>2, <2>3 DEF WriteOK
      <4>2. \A k \in DOMAIN t : WriteOK(t[k], r.op)
        BY <1>1, <2>5, <2>9 DEF CallOK
      <4> QED BY <2>11, <4>1, <4>2
    <3>2. OneWrite(r) /\ ResetShape(r)
      BY <2>9, <2>12 DEF OneWrite, ResetShape
    <3>3. r # Idle
      <4>1. Idle.todo = <<>>
        BY DEF Idle
      <4> QED BY <2>9, <2>11, <4>1
    <3>4. r.fresh \subseteq Ids
      BY <1>1, <2>9 DEF CallOK
    <3> QED BY <2>9, <2>11, <3>1, <3>2, <3>3, <3>4 DEF CallOK
  <2>14. ViewOK(store, r)
    <3>1. \A now : OwnField(now, r)
      BY <2>9, <2>12 DEF OwnField, OneField
    <3>2. \A k \in DOMAIN t :
              /\ todo[k].id = t[k].id
              /\ todo[k].how \in {"replace", "recover", "look"} => t[k].how \in {"replace", "recover", "look"}
      BY <1>3, <2>3, <2>5, <2>10, <2>11
    <3> QED BY <1>1, <2>5, <2>9, <2>11, <3>1, <3>2 DEF ViewOK
  <2>15. Joins(store, call, gone, Monitor, r)
    <3>1. \A k \in DOMAIN t : /\ todo[k].id = t[k].id
                              /\ todo[k].how = "upsert" => t[k].how = "upsert"
      BY <1>3, <2>3, <2>5, <2>11
    <3>2. \A j : (Holds(r, j) => Holds(q, j)) /\ (Creates(r, j) => Creates(q, j))
      BY <2>5, <2>9, <2>11, <3>1 DEF Holds, Creates
    <3>3. \A j \in Jobs : ~Creates(r, j)
      <4> SUFFICES ASSUME NEW j \in Jobs, Creates(r, j) PROVE FALSE
        OBVIOUS
      <4>1. Creates(q, j)
        BY <3>2
      <4>2. Len(t) = 1
        BY <1>1, <2>5, <4>1
      <4>3. \A k \in DOMAIN todo : todo[k] = new
        BY <2>10, <2>11, <4>2
      <4> QED BY <2>3, <2>9, <4>3 DEF Creates
    <3> QED BY <3>2, <3>3 DEF Joins, q
  <2> QED BY <1>1, <1>2, <2>8, <2>13, <2>14, <2>15, ControlTakesUp
<1> QED BY <1>4, <1>5

\* The monitor writes the job, or skips it because it changed.
LEMMA ControlRecover ==
  ASSUME ControlIInv, call[Monitor].todo # <<>>, Recover(Monitor)
  PROVE  ControlIInv'
<1> DEFINE w == Head(call[Monitor].todo)
<1>1. Monitor \in Procs
  BY DEF Procs
<1>2. CASE Unchanged(Monitor, w.id)
  <2>1. w.how = "recover" /\ Exists(w.id) /\ Put(Monitor, w, Remaining(Monitor))
    BY <1>2 DEF Recover, Unchanged
  <2> QED BY <1>1, <2>1, ControlPuts
<1>3. CASE ~Unchanged(Monitor, w.id)
  <2>1. /\ w.how = "recover" /\ call' = [call EXCEPT ![Monitor] = Remaining(Monitor)]
        /\ UNCHANGED <<store, gone, left>>
    BY <1>3 DEF Recover
  <2> QED BY <1>1, <2>1, ControlLeavesOut
<1> QED BY <1>2, <1>3

\* A job changes under the calls: what they hold stays the same.
JobChanged(docs, calls, j, doc, later, now) ==
    /\ j \in Jobs /\ docs[j] # None /\ doc \in DocOf(j)
    /\ later = [docs EXCEPT ![j] = doc]
    /\ now = [k \in Procs |-> now[k]]
    /\ \A k \in Procs : CallOK(now[k]) /\ ViewOK(later, now[k]) /\ now[k].todo = calls[k].todo

LEMMA ControlJobKeeps ==
  ASSUME NEW docs, NEW calls, NEW old, NEW n, NEW j, NEW doc, NEW later, NEW now,
         ControlState(docs, calls, old, n),
         JobChanged(docs, calls, j, doc, later, now)
  PROVE  ControlState(later, now, old, n)
<1>1. /\ NewJobsFresh(docs, calls, old) /\ StoreOK(docs)
      /\ \A i \in Jobs \cap old : docs[i] = None
      /\ old \subseteq Ids /\ n \in 0..MaxRequests
  BY DEF ControlState
<1>2. /\ j \in Jobs /\ docs[j] # None /\ doc \in DocOf(j) /\ later = [docs EXCEPT ![j] = doc]
      /\ now = [k \in Procs |-> now[k]]
      /\ \A k \in Procs : CallOK(now[k]) /\ ViewOK(later, now[k]) /\ now[k].todo = calls[k].todo
  BY DEF JobChanged
<1>3. j \in Ids /\ docs = [i \in Ids |-> docs[i]]
  BY <1>1, <1>2, ControlDocKinds DEF StoreOK
<1>4. later = [i \in Ids |-> later[i]] /\ later[j] = doc /\ \A i \in Ids \ {j} : later[i] = docs[i]
  BY <1>2, <1>3
<1>5. StoreOK(later)
  BY <1>1, <1>2, <1>4 DEF StoreOK
<1>6. \A i \in Jobs : i \in Ids /\ (docs[i] = None => later[i] = None)
  BY <1>2, <1>4, ControlDocKinds
<1>7. NewJobsFresh(later, now, old)
  <2> SUFFICES ASSUME NEW c \in Procs, NEW i \in Jobs, Creates(now[c], i)
               PROVE  /\ Len(now[c].todo) = 1 /\ later[i] = None /\ i \notin old
                      /\ \A k \in Procs \ {c} : ~Holds(now[k], i)
    BY DEF NewJobsFresh
  <2>1. Creates(calls[c], i)
    BY <1>2 DEF Creates
  <2>2. /\ Len(calls[c].todo) = 1 /\ docs[i] = None /\ i \notin old
        /\ \A k \in Procs \ {c} : ~Holds(calls[k], i)
    BY <2>1, <1>1 DEF NewJobsFresh
  <2>3. \A k \in Procs : Holds(now[k], i) <=> Holds(calls[k], i)
    BY <1>2 DEF Holds
  <2> QED BY <1>2, <1>6, <2>2, <2>3
<1> QED BY <1>1, <1>2, <1>4, <1>5, <1>6, <1>7 DEF ControlState

\* A worker claims or finishes a job.
LEMMA ControlWorker ==
  ASSUME ControlIInv, NEW j \in Jobs, NEW status \in {"processing", "completed", "failed"},
         WorkerUpdates(j, status)
  PROVE  ControlIInv'
<1>1. /\ Exists(j) /\ store' = [store EXCEPT ![j].status = status, ![j].late = FALSE]
      /\ call' = [k \in Procs |-> [call[k] EXCEPT !.fresh = @ \ {j}]] /\ UNCHANGED <<gone, left>>
  BY DEF WorkerUpdates
<1>2. j \in Ids /\ store[j] \in DocOf(j) /\ store = [i \in Ids |-> store[i]]
  BY <1>1, ControlStored, ControlDocKinds DEF ControlIInv, ControlState, StoreOK
<1>3. PICK old, half, doc : /\ old = store[j] /\ half = [old EXCEPT !.status = status]
                            /\ doc = [half EXCEPT !.late = FALSE]
  OBVIOUS
<1>4. doc \in DocOf(j)
  <2> DEFINE JobDocs == [kind : {"job"}, pipeline : Pipelines, ref : Refs, late : BOOLEAN,
                         status : {"pending", "processing", "completed", "failed", "cancelled"},
                         retries : 0..MAX_MANUAL_RETRIES \cup 0..MAX_RETRY_COUNT]
  <2>1. DocOf(j) = JobDocs
    BY ControlDocKinds
  <2>2. old \in JobDocs
    BY <1>2, <1>3, <2>1
  <2>3. half \in JobDocs
    BY <1>3, <2>2
  <2>4. doc \in JobDocs
    BY <1>3, <2>3
  <2> HIDE DEF JobDocs
  <2> QED BY <2>1, <2>4
<1>5. store' = [store EXCEPT ![j] = doc]
  BY <1>1, <1>2, <1>3
<1>6. PICK later, now : later = store' /\ now = call'
  OBVIOUS
<1>7. now = [k \in Procs |-> now[k]] /\ \A k \in Procs : Notices(call[k], j, now[k])
  BY <1>1, <1>6 DEF Notices
<1>8. \A i \in Ids \ {j} : later[i] = store[i]
  BY <1>2, <1>5, <1>6
<1>9. ASSUME NEW k \in Procs
      PROVE  CallOK(now[k]) /\ ViewOK(later, now[k]) /\ now[k].todo = call[k].todo
  <2>1. PICK q, s : q = call[k] /\ s = now[k]
    OBVIOUS
  <2>2. CallOK(q) /\ ViewOK(store, q) /\ Notices(q, j, s)
    BY <1>7, <2>1, ControlCalling
  <2>3. CallOK(s) /\ s.todo = q.todo
    BY <2>2, ControlShrunk
  <2>4. ViewOK(later, s)
    BY <1>8, <2>2, ControlShrunkView
  <2> QED BY <2>1, <2>3, <2>4
<1>10. JobChanged(store, call, j, doc, later, now)
  <2>1. store[j] # None
    BY <1>1 DEF Exists
  <2> QED BY <1>4, <1>5, <1>6, <1>7, <1>9, <2>1 DEF JobChanged
<1>11. ControlState(later, now, gone, left)
  BY <1>10, ControlJobKeeps DEF ControlIInv
<1> QED BY <1>1, <1>6, <1>11 DEF ControlIInv

\* The time of a job runs out.
LEMMA ControlTimesOut ==
  ASSUME ControlIInv, NEW j \in Jobs, JobTimesOut(j)
  PROVE  ControlIInv'
<1>1. /\ Exists(j) /\ store[j].status = "processing" /\ store' = [store EXCEPT ![j].late = TRUE]
      /\ UNCHANGED <<call, gone, left>>
  BY DEF JobTimesOut
<1>2. j \in Ids /\ store[j] \in DocOf(j) /\ store = [i \in Ids |-> store[i]]
      /\ call = [k \in Procs |-> call[k]]
  BY <1>1, ControlStored, ControlDocKinds DEF ControlIInv, ControlState, StoreOK
<1>3. PICK old, doc : old = store[j] /\ doc = [old EXCEPT !.late = TRUE]
  OBVIOUS
<1>4. doc \in DocOf(j) /\ doc.status = "processing"
  <2> DEFINE JobDocs == [kind : {"job"}, pipeline : Pipelines, ref : Refs, late : BOOLEAN,
                         status : {"pending", "processing", "completed", "failed", "cancelled"},
                         retries : 0..MAX_MANUAL_RETRIES \cup 0..MAX_RETRY_COUNT]
  <2>1. DocOf(j) = JobDocs
    BY ControlDocKinds
  <2>2. old \in JobDocs /\ old.status = "processing"
    BY <1>1, <1>2, <1>3, <2>1
  <2>3. doc \in JobDocs /\ doc.status = old.status
    BY <1>3, <2>2
  <2> HIDE DEF JobDocs
  <2> QED BY <2>1, <2>2, <2>3
<1>5. store' = [store EXCEPT ![j] = doc]
  BY <1>1, <1>2, <1>3
<1>6. PICK later : later = store'
  OBVIOUS
<1>7. later[j] = doc /\ \A i \in Ids \ {j} : later[i] = store[i]
  BY <1>2, <1>5, <1>6
<1>8. ASSUME NEW k \in Procs
      PROVE  CallOK(call[k]) /\ ViewOK(later, call[k])
  <2>1. PICK q : q = call[k]
    OBVIOUS
  <2>2. CallOK(q) /\ ViewOK(store, q)
    BY <2>1, ControlCalling
  <2>3. \A i \in DOMAIN q.todo :
            /\ q.todo[i].how \in {"replace", "recover", "look"}
            /\ q.todo[i].id \in Jobs \cap q.fresh
            /\ later[q.todo[i].id] # None
            => later[q.todo[i].id].status # "completed"
    <3> SUFFICES ASSUME NEW i \in DOMAIN q.todo,
                        q.todo[i].how \in {"replace", "recover", "look"},
                        q.todo[i].id \in Jobs \cap q.fresh,
                        later[q.todo[i].id] # None
                 PROVE  later[q.todo[i].id].status # "completed"
      OBVIOUS
    <3>1. PICK id : id = q.todo[i].id
      OBVIOUS
    <3>2. CASE id = j
      BY <1>4, <1>7, <3>1, <3>2
    <3>3. CASE id # j
      <4>1. later[id] = store[id]
        BY <1>7, <3>1, <3>3, ControlDocKinds
      <4> QED BY <2>2, <3>1, <4>1 DEF ViewOK
    <3> QED BY <3>2, <3>3
  <2>4. q.id \in Pipelines \cap q.fresh /\ later[q.id] # None => OwnField(later[q.id], q)
    <3>1. q.id \in Pipelines => later[q.id] = store[q.id]
      BY <1>7, ControlDocKinds
    <3> QED BY <2>2, <3>1 DEF ViewOK
  <2> QED BY <2>1, <2>2, <2>3, <2>4 DEF ViewOK
<1>9. JobChanged(store, call, j, doc, later, call)
  <2>1. store[j] # None
    BY <1>1 DEF Exists
  <2> QED BY <1>2, <1>4, <1>5, <1>6, <1>8, <2>1 DEF JobChanged
<1>10. ControlState(later, call, gone, left)
  BY <1>9, ControlJobKeeps DEF ControlIInv
<1> QED BY <1>1, <1>6, <1>10 DEF ControlIInv

-----------------------------------------------------------------------------
(* ControlPlane: the invariant.                                             *)

LEMMA ControlInitOK ==
  ASSUME ControlInit
  PROVE  ControlIInv
<1>1. /\ store = [id \in Ids |-> store[id]] /\ \A id \in Ids : store[id] \in DocOf(id) \cup {None}
  BY InitialStoresTyped DEF ControlInit
<1>2. /\ call = [c \in Procs |-> Idle] /\ gone = {} /\ left = MaxRequests /\ MaxRequests \in Nat
  BY ControlAssumption DEF ControlInit
<1>3. \A c \in Procs : CallOK(call[c]) /\ ViewOK(store, call[c]) /\ \A j : ~Creates(call[c], j)
  BY <1>2, ControlIdleOK
<1>4. NewJobsFresh(store, call, gone)
  BY <1>3 DEF NewJobsFresh
<1>5. StoreOK(store)
  BY <1>1 DEF StoreOK
<1> QED BY <1>2, <1>3, <1>4, <1>5 DEF ControlIInv, ControlState

\* What a call does with the writes it has left.
LEMMA ControlStep ==
  ASSUME ControlIInv, NEW c \in Calls, call[c].todo # <<>>,
         Step(c) \/ StoreFails(c) \/ ImportFails(c)
  PROVE  ControlIInv'
<1>1. c \in Procs
  BY DEF Procs
<1>2. CASE Replace(c)
  <2>1. PICK w : w = Head(call[c].todo)
    OBVIOUS
  <2>2. w.how = "replace" /\ Exists(w.id) /\ Put(c, w, Remaining(c))
    BY <1>2, <2>1 DEF Replace, Unchanged
  <2> QED BY <1>1, <2>1, <2>2, ControlPuts
<1>3. CASE Conflict(c)
  BY <1>1, <1>3, ControlLeavesOut DEF Conflict
<1>4. CASE Upsert(c)
  <2>1. PICK w : w = Head(call[c].todo)
    OBVIOUS
  <2>2. w.how = "upsert" /\ Put(c, w, Remaining(c))
    BY <1>4, <2>1 DEF Upsert
  <2> QED BY <1>1, <2>1, <2>2, ControlPuts
<1>5. CASE Delete(c)
  BY <1>1, <1>5, ControlDeletes
<1>6. CASE ListReplayed(c)
  BY <1>1, <1>6, ControlListReplayed
<1>7. CASE ListJobs(c)
  BY <1>1, <1>7, ControlListJobs
<1>8. CASE StoreFails(c)
  BY <1>1, <1>8, ControlLeavesOut DEF StoreFails
<1>9. CASE ImportFails(c)
  BY <1>1, <1>9, ControlLeavesOut DEF ImportFails
<1> QED BY <1>2, <1>3, <1>4, <1>5, <1>6, <1>7, <1>8, <1>9 DEF Step

LEMMA ControlMonitorStep ==
  ASSUME ControlIInv, MonitorStep
  PROVE  ControlIInv'
  BY ControlQuery, ControlLook, ControlRecover DEF MonitorStep

LEMMA ControlUnchanged ==
  ASSUME ControlIInv, UNCHANGED controlVars
  PROVE  ControlIInv'
  BY DEF controlVars, ControlIInv

\* What a request needs to exist to name it.
LEMMA ControlNamed ==
  ASSUME ControlIInv
  PROVE  /\ \A s \in Sources : Exists(s) => \E place \in Places : TRUE
         /\ \A d \in Destinations : Exists(d) => \E place \in Places : TRUE
         /\ \A p \in Pipelines : Exists(p) => \E d \in Destinations : TRUE
         /\ \A j \in Jobs : Exists(j) => \E p \in Pipelines, r \in Refs : TRUE
<1>1. \A id \in Ids : Exists(id) => store[id] \in DocOf(id)
  BY ControlStored
<1>2. \A s \in Sources : Exists(s) => store[s].place \in Places
  <2> SUFFICES ASSUME NEW s \in Sources, Exists(s) PROVE store[s].place \in Places
    OBVIOUS
  <2>1. PICK doc : doc = store[s]
    OBVIOUS
  <2>2. s \in Ids /\ doc \in [kind : {"source"}, place : Places]
    BY <1>1, <2>1, ControlDocKinds
  <2> QED BY <2>1, <2>2
<1>3. \A d \in Destinations : Exists(d) => store[d].place \in Places
  <2> SUFFICES ASSUME NEW d \in Destinations, Exists(d) PROVE store[d].place \in Places
    OBVIOUS
  <2>1. PICK doc : doc = store[d]
    OBVIOUS
  <2>2. d \in Ids /\ doc \in [kind : {"destination"}, place : Places, enabled : BOOLEAN]
    BY <1>1, <2>1, ControlDocKinds
  <2> QED BY <2>1, <2>2
<1>4. \A p \in Pipelines : Exists(p) => store[p].destination \in Destinations
  <2> SUFFICES ASSUME NEW p \in Pipelines, Exists(p) PROVE store[p].destination \in Destinations
    OBVIOUS
  <2>1. PICK doc : doc = store[p]
    OBVIOUS
  <2>2. p \in Ids /\ doc \in [kind : {"pipeline"}, sources : SUBSET Sources, destination : Destinations,
                        mode : Modes, status : {"active", "paused"}, reset : 0..MaxResets]
    BY <1>1, <2>1, ControlDocKinds
  <2> QED BY <2>1, <2>2
<1>5. \A j \in Jobs : Exists(j) => store[j].pipeline \in Pipelines /\ store[j].ref \in Refs
  <2> SUFFICES ASSUME NEW j \in Jobs, Exists(j) PROVE store[j].pipeline \in Pipelines /\ store[j].ref \in Refs
    OBVIOUS
  <2>1. PICK doc : doc = store[j]
    OBVIOUS
  <2>2. j \in Ids /\ doc \in [kind : {"job"}, pipeline : Pipelines, ref : Refs, late : BOOLEAN,
                        status : {"pending", "processing", "completed", "failed", "cancelled"},
                        retries : 0..MAX_MANUAL_RETRIES \cup 0..MAX_RETRY_COUNT]
    BY <1>1, <2>1, ControlDocKinds
  <2> QED BY <2>1, <2>2
<1> QED BY <1>2, <1>3, <1>4, <1>5

LEMMA ControlNextKeeps ==
  ASSUME ControlIInv, [ControlNext]_controlVars
  PROVE  ControlIInv'
<1>1. ASSUME NEW c \in Calls,
             \/ SourceRequest(c) \/ DestinationRequest(c) \/ PipelineRequest(c)
             \/ JobRequest(c) \/ SyncRequest(c) \/ ImportRequest(c)
             \/ Step(c)
             \/ call[c].todo # <<>> /\ (StoreFails(c) \/ ImportFails(c))
      PROVE  ControlIInv'
  <2>1. CASE SourceRequest(c)
    <3>1. PICK s \in Sources :
              \/ DeleteSource(c, s)
              \/ \E place \in Places : CreateSource(c, s, place) \/ UpdateSource(c, s, place)
              \/ \E full \in BOOLEAN, o \in Syncs : SyncSource(c, s, full, o)
      BY <2>1 DEF SourceRequest
    <3>2. CASE DeleteSource(c, s)
      <4>1. PICK place \in Places : TRUE
        BY <3>2, ControlNamed DEF DeleteSource
      <4> QED BY <3>2, ControlSourceRequest
    <3>3. ASSUME NEW place \in Places, CreateSource(c, s, place) \/ UpdateSource(c, s, place)
          PROVE  ControlIInv'
      BY <3>3, ControlSourceRequest
    <3>4. ASSUME NEW full \in BOOLEAN, NEW o \in Syncs, SyncSource(c, s, full, o)
          PROVE  ControlIInv'
      BY <3>4, ControlSync
    <3> QED BY <3>1, <3>2, <3>3, <3>4
  <2>2. CASE DestinationRequest(c)
    <3>1. PICK d \in Destinations :
              \/ DeleteDestination(c, d)
              \/ \E on \in BOOLEAN :
                     \/ PatchDestination(c, d, on)
                     \/ \E place \in Places :
                            CreateDestination(c, d, place, on) \/ UpdateDestination(c, d, place, on)
      BY <2>2 DEF DestinationRequest
    <3>2. CASE DeleteDestination(c, d)
      <4>1. PICK place \in Places : TRUE
        BY <3>2, ControlNamed DEF DeleteDestination
      <4>2. TRUE \in BOOLEAN
        OBVIOUS
      <4> QED BY <3>2, <4>2, ControlDestinationRequest
    <3>3. ASSUME NEW on \in BOOLEAN, PatchDestination(c, d, on)
          PROVE  ControlIInv'
      BY <3>3, ControlPatch
    <3>4. ASSUME NEW on \in BOOLEAN, NEW place \in Places,
                 CreateDestination(c, d, place, on) \/ UpdateDestination(c, d, place, on)
          PROVE  ControlIInv'
      BY <3>4, ControlDestinationRequest
    <3> QED BY <3>1, <3>2, <3>3, <3>4
  <2>3. CASE PipelineRequest(c)
    <3>1. PICK p \in Pipelines :
              \/ DeletePipeline(c, p) \/ UpdateResourcePolicy(c, p) \/ PausePipeline(c, p)
              \/ ResumePipeline(c, p) \/ RunPipeline(c, p) \/ ResetPipeline(c, p)
              \/ \E mode \in Modes :
                     \/ UpdatePipeline(c, p, mode) \/ SetProcessingMode(c, p, mode)
                     \/ \E srcs \in SUBSET Sources \ {{}}, d \in Destinations :
                            CreatePipeline(c, p, srcs, d, mode)
      BY <2>3 DEF PipelineRequest
    <3>2. CASE RunPipeline(c, p)
      BY <3>2, ControlRun
    <3>3. CASE ResetPipeline(c, p)
      BY <3>3, ControlReset
    <3>4. ASSUME \/ DeletePipeline(c, p) \/ UpdateResourcePolicy(c, p)
                 \/ PausePipeline(c, p) \/ ResumePipeline(c, p)
          PROVE  ControlIInv'
      <4>1. Exists(p)
        BY <3>4 DEF DeletePipeline, UpdateResourcePolicy, PausePipeline, ResumePipeline
      <4>2. PICK d \in Destinations : TRUE
        BY <4>1, ControlNamed
      <4>3. {} \in SUBSET Sources /\ "queue" \in Modes
        BY DEF Modes
      <4> QED BY <3>4, <4>3, ControlPipelineRequest
    <3>5. ASSUME NEW mode \in Modes, UpdatePipeline(c, p, mode) \/ SetProcessingMode(c, p, mode)
          PROVE  ControlIInv'
      <4>1. Exists(p)
        BY <3>5 DEF UpdatePipeline, SetProcessingMode
      <4>2. PICK d \in Destinations : TRUE
        BY <4>1, ControlNamed
      <4>3. {} \in SUBSET Sources
        OBVIOUS
      <4> QED BY <3>5, <4>3, ControlPipelineRequest
    <3>6. ASSUME NEW mode \in Modes, NEW srcs \in SUBSET Sources \ {{}}, NEW d \in Destinations,
                 CreatePipeline(c, p, srcs, d, mode)
          PROVE  ControlIInv'
      BY <3>6, ControlPipelineRequest
    <3> QED BY <3>1, <3>2, <3>3, <3>4, <3>5, <3>6
  <2>4. CASE JobRequest(c)
    <3>1. PICK j \in Jobs :
              \/ CancelJob(c, j) \/ RetryJob(c, j)
              \/ \E p \in Pipelines, r \in Refs : CreateJobsBulk(c, j, p, r)
      BY <2>4 DEF JobRequest
    <3>2. CASE CancelJob(c, j) \/ RetryJob(c, j)
      <4>1. Exists(j)
        BY <3>2 DEF CancelJob, RetryJob
      <4>2. PICK p \in Pipelines, r \in Refs : TRUE
        BY <4>1, ControlNamed
      <4> QED BY <3>2, ControlJobRequest
    <3>3. ASSUME NEW p \in Pipelines, NEW r \in Refs, CreateJobsBulk(c, j, p, r)
          PROVE  ControlIInv'
      BY <3>3, ControlJobRequest
    <3> QED BY <3>1, <3>2, <3>3
  <2>5. CASE SyncRequest(c)
    <3>1. PICK o \in Syncs, status \in {"running", "ready", "failed"} : GetSourceSync(c, o, status)
      BY <2>5 DEF SyncRequest
    <3> QED BY <3>1, ControlSyncRequest
  <2>6. CASE ImportRequest(c)
    <3>1. PICK conflict : ImportBundle(c, conflict, NewIds)
      BY <2>6 DEF ImportRequest
    <3> QED BY <3>1, ControlImport
  <2>7. CASE Step(c) \/ (call[c].todo # <<>> /\ (StoreFails(c) \/ ImportFails(c)))
    <3>1. Step(c) => call[c].todo # <<>>
      BY DEF Step
    <3> QED BY <2>7, <3>1, ControlStep
  <2> QED BY <1>1, <2>1, <2>2, <2>3, <2>4, <2>5, <2>6, <2>7
<1>2. CASE MonitorStep
  BY <1>2, ControlMonitorStep
<1>3. ASSUME NEW j \in Jobs,
             \/ JobTimesOut(j)
             \/ \E status \in {"processing", "completed", "failed"} : WorkerUpdates(j, status)
      PROVE  ControlIInv'
  BY <1>3, ControlTimesOut, ControlWorker
<1>4. CASE UNCHANGED controlVars
  BY <1>4, ControlUnchanged
<1> QED BY <1>1, <1>2, <1>3, <1>4 DEF ControlNext

THEOREM ControlInductive == ControlSpec => []ControlIInv
<1>1. ControlInit => ControlIInv
  BY ControlInitOK
<1>2. ControlIInv /\ [ControlNext]_controlVars => ControlIInv'
  BY ControlNextKeeps
<1> QED BY <1>1, <1>2, PTL DEF ControlSpec

\* What a reset is about to write is the next generation of what it has paused.
LEMMA ControlResetOf ==
  ASSUME NEW p \in Pipelines, NEW now \in DocOf(p), NEW doc, ResetOf(now, doc)
  PROVE  doc.reset = now.reset + 1
<1>1. PICK n, s : n = now.reset + 1 /\ s = doc.status
  OBVIOUS
<1>2. doc = [now EXCEPT !.reset = n, !.status = s]
  BY <1>1 DEF ResetOf
<1>3. now \in [kind : {"pipeline"}, sources : SUBSET Sources, destination : Destinations,
               mode : Modes, status : {"active", "paused"}, reset : 0..MaxResets]
  BY ControlDocKinds
<1> QED BY <1>1, <1>2, <1>3

LEMMA ControlInvHolds ==
  ASSUME ControlIInv
  PROVE  ControlInv
<1>1. ControlTypeOK
  BY DEF ControlIInv, ControlState, StoreOK, CallOK, ControlTypeOK
<1>2. JobsStayDeleted
  BY DEF ControlIInv, ControlState, JobsStayDeleted, Exists
<1>3. ResetWorksPaused
  <2> SUFFICES ASSUME NEW c \in Calls, NEW p \in Pipelines,
                      call[c].op = "reset", call[c].id = p,
                      ~(Head(call[c].todo).how = "replace" /\ Len(call[c].todo) > 1),
                      Unchanged(c, p)
               PROVE  /\ store[p].status = "paused"
                      /\ store[p].reset + 1 = call[c].todo[Len(call[c].todo)].doc.reset
    BY DEF ResetWorksPaused
  <2>1. CallOK(call[c]) /\ ViewOK(store, call[c])
    BY ControlCalling DEF Procs
  <2>2. p \in call[c].fresh /\ store[p] # None /\ store[p] \in DocOf(p) /\ p \in Ids
    BY ControlStored, ControlDocKinds DEF Unchanged, Exists
  <2>3. OwnField(store[p], call[c])
    BY <2>1, <2>2 DEF ViewOK
  <2>4. ~Pausing(call[c])
    BY DEF Pausing
  <2>5. ResetOf(store[p], LastDoc(call[c])) /\ store[p].status = "paused"
    BY <2>3, <2>4 DEF OwnField
  <2>6. LastDoc(call[c]).reset = store[p].reset + 1
    BY <2>2, <2>5, ControlResetOf
  <2> QED BY <2>5, <2>6 DEF LastDoc
<1> QED BY <1>1, <1>2, <1>3 DEF ControlInv

\* ControlInv: nothing that a request, the monitor or a worker read some time ago
\* brings back a job that a reset deleted, and a reset works on a paused pipeline
\* of the generation before its own.
THEOREM ControlAlwaysSound == ControlSpec => []ControlInv
<1>1. ControlIInv => ControlInv
  BY ControlInvHolds
<1> QED BY <1>1, ControlInductive, PTL

-----------------------------------------------------------------------------
(* ControlPlane: nothing is overwritten.                                    *)

\* The store is written by a call that carries out its first write, by the
\* worker, or by nobody.
LEMMA ControlWriter ==
  ASSUME ControlNext
  PROVE  \/ UNCHANGED store
         \/ \E c \in Procs :
                /\ call[c].todo # <<>>
                /\ \/ Replace(c) \/ Upsert(c) \/ Delete(c)
                   \/ /\ c = Monitor
                      /\ Head(call[c].todo).how = "recover"
                      /\ Unchanged(c, Head(call[c].todo).id)
                      /\ Put(c, Head(call[c].todo), Remaining(c))
         \/ \E j \in Jobs :
                \/ JobTimesOut(j)
                \/ \E status \in {"processing", "completed", "failed"} : WorkerUpdates(j, status)
<1>1. ASSUME NEW c \in Calls, SourceRequest(c)
      PROVE  UNCHANGED store
  BY <1>1 DEF SourceRequest, DeleteSource, CreateSource, UpdateSource, SyncSource, Begin
<1>2. ASSUME NEW c \in Calls, DestinationRequest(c)
      PROVE  UNCHANGED store
  BY <1>2 DEF DestinationRequest, DeleteDestination, PatchDestination, CreateDestination,
              UpdateDestination, Begin
<1>3. ASSUME NEW c \in Calls, PipelineRequest(c)
      PROVE  UNCHANGED store
  <2>1. PICK p \in Pipelines :
            \/ DeletePipeline(c, p)
            \/ UpdateResourcePolicy(c, p)
            \/ PausePipeline(c, p)
            \/ ResumePipeline(c, p)
            \/ RunPipeline(c, p)
            \/ ResetPipeline(c, p)
            \/ \E mode \in Modes :
                   \/ UpdatePipeline(c, p, mode)
                   \/ SetProcessingMode(c, p, mode)
                   \/ \E srcs \in SUBSET Sources \ {{}}, d \in Destinations :
                          CreatePipeline(c, p, srcs, d, mode)
    BY <1>3 DEF PipelineRequest
  <2>2. ASSUME NEW op, NEW id, NEW fresh, NEW todo, Begin(c, op, id, fresh, todo)
        PROVE  UNCHANGED store
    BY <2>2 DEF Begin
  <2>3. ASSUME NEW op, NEW id, NEW doc, Revise(c, op, id, doc)
        PROVE  UNCHANGED store
    BY <2>2, <2>3 DEF Revise
  <2>4. CASE DeletePipeline(c, p)
    BY <2>2, <2>4 DEF DeletePipeline
  <2>5. CASE UpdateResourcePolicy(c, p)
    BY <2>3, <2>5 DEF UpdateResourcePolicy
  <2>6. CASE PausePipeline(c, p)
    BY <2>3, <2>6 DEF PausePipeline
  <2>7. CASE ResumePipeline(c, p)
    BY <2>3, <2>7 DEF ResumePipeline
  <2>8. CASE RunPipeline(c, p)
    BY <2>2, <2>8 DEF RunPipeline
  <2>9. CASE ResetPipeline(c, p)
    BY <2>2, <2>9 DEF ResetPipeline
  <2>10. ASSUME NEW mode \in Modes, UpdatePipeline(c, p, mode) \/ SetProcessingMode(c, p, mode)
         PROVE  UNCHANGED store
    BY <2>3, <2>10 DEF UpdatePipeline, SetProcessingMode
  <2>11. ASSUME NEW mode, NEW srcs, NEW d, CreatePipeline(c, p, srcs, d, mode)
         PROVE  UNCHANGED store
    BY <2>2, <2>11 DEF CreatePipeline
  <2> QED BY <2>1, <2>4, <2>5, <2>6, <2>7, <2>8, <2>9, <2>10, <2>11
<1>4. ASSUME NEW c \in Calls, JobRequest(c) \/ SyncRequest(c) \/ ImportRequest(c)
      PROVE  UNCHANGED store
  <2>1. CASE JobRequest(c)
    BY <2>1 DEF JobRequest, CancelJob, RetryJob, CreateJobsBulk, Revise, Begin
  <2>2. CASE SyncRequest(c)
    BY <2>2 DEF SyncRequest, GetSourceSync, Begin
  <2>3. CASE ImportRequest(c)
    BY <2>3, ZenonT(60) DEF ImportRequest, ImportBundle, Begin
  <2> QED BY <1>4, <2>1, <2>2, <2>3
<1>5. ASSUME NEW c \in Calls, Step(c)
      PROVE  \/ UNCHANGED store
             \/ call[c].todo # <<>> /\ (Replace(c) \/ Upsert(c) \/ Delete(c))
  BY <1>5 DEF Step, Conflict, ListReplayed, ListJobs
<1>6. ASSUME NEW c \in Calls, StoreFails(c) \/ ImportFails(c)
      PROVE  UNCHANGED store
  BY <1>6 DEF StoreFails, ImportFails
<1>7. ASSUME MonitorStep
      PROVE  \/ UNCHANGED store
             \/ /\ call[Monitor].todo # <<>>
                /\ Head(call[Monitor].todo).how = "recover"
                /\ Unchanged(Monitor, Head(call[Monitor].todo).id)
                /\ Put(Monitor, Head(call[Monitor].todo), Remaining(Monitor))
  BY <1>7 DEF MonitorStep, MonitorQuery, MonitorLook, Recover
<1>8. Monitor \in Procs /\ Calls \subseteq Procs
  BY DEF Procs
<1> QED BY <1>1, <1>2, <1>3, <1>4, <1>5, <1>6, <1>7, <1>8, SMTT(40) DEF ControlNext

\* The result of a worker is kept.
LEMMA ControlCompleted ==
  ASSUME ControlIInv, ControlNext, NEW j \in Jobs, Exists(j), store[j].status = "completed"
  PROVE  store'[j] \in {store[j], None}
<1>1. store = [id \in Ids |-> store[id]] /\ j \in Ids
  BY ControlDocKinds DEF ControlIInv, ControlState, StoreOK
<1>2. ASSUME NEW c \in Procs, call[c].todo # <<>>, NEW w, w = Head(call[c].todo), w.id = j
      PROVE  /\ ~(w.how \in {"replace", "recover"} /\ Unchanged(c, w.id))
             /\ w.how # "upsert"
  <2>1. CallOK(call[c]) /\ ViewOK(store, call[c]) /\ (Creates(call[c], j) => store[j] = None)
    BY ControlCalling
  <2>2. w = call[c].todo[1] /\ 1 \in DOMAIN call[c].todo
    BY <1>2, <2>1, ControlHead
  <2>3. w.how # "upsert"
    BY <1>2, <2>1, <2>2 DEF Creates, Exists
  <2>4. ~(w.how \in {"replace", "recover"} /\ Unchanged(c, w.id))
    BY <1>2, <2>1, <2>2 DEF ViewOK, Unchanged, Exists
  <2> QED BY <2>3, <2>4
<1>3. ASSUME NEW c \in Procs, call[c].todo # <<>>, NEW w, w = Head(call[c].todo),
             \/ w.how \in {"replace", "recover"} /\ Unchanged(c, w.id)
             \/ w.how = "upsert",
             store' = [store EXCEPT ![w.id] = w.doc]
      PROVE  store'[j] = store[j]
  <2>1. w.id # j
    BY <1>2, <1>3
  <2> QED BY <1>1, <1>3, <2>1
<1>4. ASSUME NEW c \in Procs, call[c].todo # <<>>,
             \/ Replace(c) \/ Upsert(c) \/ Delete(c)
             \/ /\ Head(call[c].todo).how = "recover"
                /\ Unchanged(c, Head(call[c].todo).id)
                /\ Put(c, Head(call[c].todo), Remaining(c))
      PROVE  store'[j] \in {store[j], None}
  <2>1. PICK w : w = Head(call[c].todo)
    OBVIOUS
  <2>2. CASE Delete(c)
    <3>1. store' = [store EXCEPT ![w.id] = None]
      BY <2>1, <2>2 DEF Delete
    <3> QED BY <1>1, <3>1
  <2>3. CASE ~Delete(c)
    <3>1. /\ \/ w.how \in {"replace", "recover"} /\ Unchanged(c, w.id)
             \/ w.how = "upsert"
          /\ store' = [store EXCEPT ![w.id] = w.doc]
      BY <1>4, <2>1, <2>3 DEF Replace, Upsert, Put
    <3> QED BY <1>3, <1>4, <2>1, <3>1
  <2> QED BY <2>2, <2>3
<1>5. ASSUME NEW i \in Jobs,
             \/ JobTimesOut(i)
             \/ \E status \in {"processing", "completed", "failed"} : WorkerUpdates(i, status)
      PROVE  store'[j] = store[j]
  <2>1. i # j
    BY <1>5 DEF JobTimesOut, WorkerUpdates
  <2>2. PICK new : store' = [store EXCEPT ![i] = new]
    BY <1>1, <1>5 DEF JobTimesOut, WorkerUpdates
  <2> QED BY <1>1, <2>1, <2>2
<1> QED BY <1>4, <1>5, ControlWriter

\* A call that ends by a write ends by its own, and it was its last one.
LEMMA ControlEnds ==
  ASSUME ControlIInv, ControlNext, NEW c \in Calls, call[c].todo # <<>>, call'[c] = Idle,
         ~UNCHANGED store
  PROVE  /\ Replace(c) \/ Upsert(c) \/ Delete(c)
         /\ Len(call[c].todo) = 1
<1>1. Idle.todo = <<>> /\ c \in Procs
  BY DEF Idle, Procs
<1>2. CallOK(call[c]) /\ Remaining(c) = Rest(call[c])
  BY <1>1, ControlCalling
<1>3. ASSUME NEW id, Notices(call[c], id, call'[c])
      PROVE  FALSE
  <2>1. PICK q, s : q = call[c] /\ s = call'[c]
    OBVIOUS
  <2>2. CallOK(q) /\ Notices(q, id, s)
    BY <1>2, <1>3, <2>1
  <2>3. s.todo = q.todo
    BY <2>2, ControlShrunk
  <2> QED BY <1>1, <2>1, <2>3
<1>4. ASSUME NEW j \in Jobs,
             \/ JobTimesOut(j)
             \/ \E status \in {"processing", "completed", "failed"} : WorkerUpdates(j, status)
      PROVE  FALSE
  <2>1. CASE JobTimesOut(j)
    BY <1>1, <2>1 DEF JobTimesOut
  <2>2. ASSUME NEW status, WorkerUpdates(j, status)
        PROVE  FALSE
    <3>1. call' = [k \in Procs |-> [call[k] EXCEPT !.fresh = @ \ {j}]]
      BY <2>2 DEF WorkerUpdates
    <3>2. Notices(call[c], j, call'[c])
      BY <1>1, <3>1 DEF Notices
    <3> QED BY <1>3, <3>2
  <2> QED BY <1>4, <2>1, <2>2
<1>5. ASSUME NEW k \in Procs, call[k].todo # <<>>,
             \/ Replace(k) \/ Upsert(k) \/ Delete(k)
             \/ k = Monitor /\ Put(k, Head(call[k].todo), Remaining(k))
      PROVE  k = c /\ call'[c] = Remaining(c)
  <2>1. PICK w : w = Head(call[k].todo)
    OBVIOUS
  <2>2. call' = Written(k, w.id, Remaining(k))
    BY <1>5, <2>1 DEF Replace, Upsert, Delete, Put
  <2>3. call'[c] = IF c = k THEN Remaining(k) ELSE [call[c] EXCEPT !.fresh = @ \ {w.id}]
    BY <1>1, <2>2 DEF Written
  <2>4. k = c
    <3> SUFFICES ASSUME k # c PROVE FALSE
      OBVIOUS
    <3>1. Notices(call[c], w.id, call'[c])
      BY <2>3 DEF Notices
    <3> QED BY <1>3, <3>1
  <2> QED BY <2>3, <2>4
<1>6. Monitor # c
  BY ControlAssumption
<1>7. /\ Replace(c) \/ Upsert(c) \/ Delete(c)
      /\ call'[c] = Remaining(c)
  BY <1>4, <1>5, <1>6, ControlWriter
<1>8. Len(call[c].todo) = 1
  <2>1. Rest(call[c]) = Idle
    BY <1>2, <1>7
  <2>2. Tail(call[c].todo) = <<>>
    <3> SUFFICES ASSUME Tail(call[c].todo) # <<>> PROVE FALSE
      OBVIOUS
    <3>1. PICK q, r : q = call[c] /\ r = Rest(q)
      OBVIOUS
    <3>2. r = [q EXCEPT !.todo = Tail(q.todo)]
      BY <3>1 DEF Rest
    <3>3. PICK o, i, t, f : q = [op |-> o, id |-> i, todo |-> t, fresh |-> f]
      BY <1>2, <3>1 DEF CallOK
    <3>4. r.todo = Tail(q.todo)
      BY <3>2, <3>3
    <3> QED BY <1>1, <2>1, <3>1, <3>4
  <2>3. PICK s \in Seq(ControlWrites) : s = call[c].todo
    BY <1>2 DEF CallOK
  <2>4. Len(Tail(s)) = Len(s) - 1 /\ Len(s) \in Nat
    BY <2>3, HeadTailProperties
  <2>5. Len(Tail(s)) = 0
    BY <2>2, <2>3
  <2>6. PICK n : n = Len(s)
    OBVIOUS
  <2>7. n = 1
    BY <2>4, <2>5, <2>6
  <2> QED BY <2>3, <2>6, <2>7
<1> QED BY <1>7, <1>8

\* A handler changes its own field only; a reset finds what it left.
LEMMA ControlOwnField ==
  ASSUME ControlIInv, ControlNext, NEW c \in Calls, NEW p \in Pipelines,
         call[c].id = p, call[c].todo # <<>>, store'[p] # store[p], call'[c] = Idle, Exists(p),
         call[c].op \in OneField \cup {"reset"}
  PROVE  OwnField(store[p], call[c]) /\ store'[p] = LastDoc(call[c]) /\ ~Pausing(call[c])
<1>1. /\ Replace(c) \/ Upsert(c) \/ Delete(c)
      /\ Len(call[c].todo) = 1
  BY ControlEnds
<1>2. /\ c \in Procs /\ CallOK(call[c]) /\ ViewOK(store, call[c])
      /\ store = [id \in Ids |-> store[id]] /\ p \in Ids
  BY ControlCalling, ControlDocKinds DEF Procs
<1>3. PICK w : w = Head(call[c].todo)
  OBVIOUS
<1>4. w = call[c].todo[1]
  BY <1>2, <1>3, ControlHead
<1>5. w.how = "replace" /\ w.id = p
  <2>1. CASE call[c].op = "reset"
    BY <1>1, <1>2, <1>4, <2>1 DEF CallOK, ResetShape
  <2>2. CASE call[c].op \in OneField
    BY <1>2, <1>4, <2>2 DEF CallOK, OneWrite
  <2> QED BY <2>1, <2>2
<1>6. Unchanged(c, p) /\ store' = [store EXCEPT ![p] = w.doc]
  BY <1>1, <1>3, <1>5 DEF Replace, Upsert, Delete, Put
<1>7. OwnField(store[p], call[c])
  BY <1>2, <1>6 DEF ViewOK, Unchanged, Exists
<1>8. store'[p] = w.doc
  BY <1>2, <1>6
<1>9. LastDoc(call[c]) = w.doc /\ ~Pausing(call[c])
  BY <1>1, <1>4 DEF LastDoc, Pausing
<1> QED BY <1>7, <1>8, <1>9

LEMMA ControlNoLostUpdate ==
  ASSUME ControlIInv, ControlNext, NEW c \in Calls, NEW p \in Pipelines,
         call[c].id = p, call[c].todo # <<>>, store'[p] # store[p], call'[c] = Idle, Exists(p)
  PROVE  OwnFieldOnly(call[c].op, store[p], store'[p])
<1>1. PICK op, now, later : op = call[c].op /\ now = store[p] /\ later = store'[p]
  OBVIOUS
<1>2. op \in OneField \cup {"reset"} => OwnField(now, call[c]) /\ later = LastDoc(call[c]) /\ ~Pausing(call[c])
  BY <1>1, ControlOwnField
<1>3. CASE op \in {"pause", "resume"}
  <2>1. later = [now EXCEPT !.status = later.status]
    BY <1>1, <1>2, <1>3 DEF OneField, OwnField
  <2> QED BY <1>1, <1>3, <2>1 DEF OwnFieldOnly
<1>4. CASE op \in {"update", "mode"}
  <2>1. later = [now EXCEPT !.mode = later.mode]
    BY <1>1, <1>2, <1>4 DEF OneField, OwnField
  <2> QED BY <1>1, <1>4, <2>1 DEF OwnFieldOnly
<1>5. CASE op = "policy"
  <2>1. later = now
    BY <1>1, <1>2, <1>5 DEF OneField, OwnField
  <2> QED BY <1>1, <1>5, <2>1 DEF OwnFieldOnly
<1>6. CASE op = "reset"
  <2>1. ResetOf(now, later) /\ now.status = "paused"
    BY <1>1, <1>2, <1>6 DEF OwnField
  <2>2. later = [now EXCEPT !.reset = @ + 1, !.status = later.status]
    BY <2>1 DEF ResetOf
  <2> QED BY <1>1, <1>6, <2>1, <2>2 DEF OwnFieldOnly
<1>7. CASE op \notin OneField \cup {"reset"}
  BY <1>1, <1>7 DEF OneField, OwnFieldOnly
<1> QED BY <1>3, <1>4, <1>5, <1>6, <1>7 DEF OneField

\* NothingOverwritten: the result of a worker is kept, and what a handler replaces
\* differs from the pipeline of that moment in the handler's own field only.
THEOREM ControlKeepsUpdates == ControlSpec => NothingOverwritten
<1>1. ControlIInv /\ [ControlNext]_controlVars
      => [\A j \in Jobs :
             Exists(j) /\ store[j].status = "completed" => store'[j] \in {store[j], None}]_controlVars
  BY ControlCompleted
<1>2. ControlIInv /\ [ControlNext]_controlVars
      => [\A c \in Calls : \A p \in Pipelines :
             call[c].id = p /\ call[c].todo # <<>> /\ store'[p] # store[p] /\ call'[c] = Idle /\ Exists(p)
             => OwnFieldOnly(call[c].op, store[p], store'[p])]_controlVars
  BY ControlNoLostUpdate
<1> QED BY <1>1, <1>2, ControlInductive, PTL DEF ControlSpec, NothingOverwritten, CompletedKept, NoLostUpdate
==============================================================================
