--------------------------- MODULE AgentApprovals ---------------------------
(***************************************************************************)
(* The approval gate of the OmniVec agent: agent/approvals.py, the loop of  *)
(* agent_loop.py and POST /v1/chat/approve of one session.  The loop never  *)
(* executes a mutating tool; it parks the call under an ID that the model   *)
(* chose and ends.  A request that names the ID consumes the parked call,   *)
(* executes or denies it and goes on with the loop.                         *)
(*                                                                         *)
(* Parked calls are numbered.  A chain is a chat turn and everything that   *)
(* is resumed from it.  The store lives in memory; whatever is older than   *)
(* the TTL is pruned before anybody looks, so here it goes when time        *)
(* passes.  The wording of the recovery record is left out.                *)
(***************************************************************************)
EXTENDS Integers

CONSTANTS
    CallId,
    Task,           \* bound: requests served at a time
    MaxChains,      \* bound: chat turns
    MaxCards,       \* bound: parked calls
    TTL,            \* DEFAULT_TTL_SECONDS
    MaxDelay,       \* bound: how long a request to approve is under way
    MaxActions      \* MAX_ACTIONS

ASSUME ApprovalsAssumption ==
    /\ {MaxChains, MaxCards, TTL, MaxDelay, MaxActions} \subseteq Nat
    /\ MaxDelay <= TTL

Card == 1 .. MaxCards
Chain == 1 .. MaxChains
NoCard == 0

VARIABLES
    slot,       \* per call ID: _data and _used, with the time since created_at or use
    parked,     \* per parked call: its chain and recovery_state["attempts"]
    cards,      \* how many calls were parked
    chains,     \* how many chat turns there were
    pc,         \* per task: what it does
    req,        \* per task: the approval it carries: ID, parked call shown, time under way
    state,      \* per task: its chain and recovery_state["attempts"]
    decided,    \* parked calls that were consumed
    runs,       \* per parked call: how often it was executed
    actions     \* per chain: how many calls were executed

vars == <<slot, parked, cards, chains, pc, req, state, decided, runs, actions>>

Slot == [status : {"free", "pending", "used"}, card : Card \union {NoCard}, age : 0 .. TTL]
State == [chain : 0 .. MaxChains, attempts : 0 .. MaxActions]
Request == [call : CallId, card : Card \union {NoCard}, delay : 0 .. MaxDelay]

Free == [status |-> "free", card |-> NoCard, age |-> 0]

TypeOK ==
    /\ slot \in [CallId -> Slot]
    /\ parked \in [Card -> State]
    /\ cards \in 0 .. MaxCards
    /\ chains \in 0 .. MaxChains
    /\ pc \in [Task -> {"idle", "loop", "sent", "found", "resume"}]
    /\ req \in [Task -> Request]
    /\ state \in [Task -> State]
    /\ decided \subseteq Card
    /\ runs \in [Card -> Nat]
    /\ actions \in [Chain -> Nat]

Init ==
    /\ slot = [c \in CallId |-> Free]
    /\ parked = [k \in Card |-> [chain |-> 0, attempts |-> 0]]
    /\ cards = 0
    /\ chains = 0
    /\ pc = [t \in Task |-> "idle"]
    /\ req \in [Task -> [call : CallId, card : {NoCard}, delay : {0}]]
    /\ state = [t \in Task |-> [chain |-> 0, attempts |-> 0]]
    /\ decided = {}
    /\ runs = [k \in Card |-> 0]
    /\ actions = [c \in Chain |-> 0]

-----------------------------------------------------------------------------
\* POST /v1/chat
Chat(t) ==
    /\ pc[t] = "idle"
    /\ chains < MaxChains
    /\ chains' = chains + 1
    /\ pc' = [pc EXCEPT ![t] = "loop"]
    /\ state' = [state EXCEPT ![t] = [chain |-> chains + 1, attempts |-> 0]]
    /\ UNCHANGED <<slot, parked, cards, req, decided, runs, actions>>

\* The loop ends: a final answer, a failing model, or too many iterations.
Finish(t) ==
    /\ pc[t] = "loop"
    /\ pc' = [pc EXCEPT ![t] = "idle"]
    /\ UNCHANGED <<slot, parked, cards, chains, req, state, decided, runs, actions>>

NotPending(c) == slot[c].status # "pending"  \* mutant: consumed IDs may come again

Unknown(c) == slot[c].status = "free"

\* The model calls a mutating tool.  Over the budget the call is answered with an
\* error and the loop goes on.  Otherwise it is parked, or its ID is refused, and
\* the loop ends.
Propose(t, c) ==
    /\ pc[t] = "loop"
    /\ state[t].attempts < MaxActions
    /\ pc' = [pc EXCEPT ![t] = "idle"]
    /\ IF Unknown(c)
       THEN /\ cards < MaxCards
            /\ cards' = cards + 1
            /\ slot' = [slot EXCEPT ![c] = [status |-> "pending", card |-> cards + 1, age |-> 0]]
            /\ parked' = [parked EXCEPT ![cards + 1] = state[t]]
       ELSE UNCHANGED <<slot, parked, cards>>
    /\ UNCHANGED <<chains, req, state, decided, runs, actions>>

-----------------------------------------------------------------------------
\* The user answers a card that is shown, perhaps more than once.
Answer(t, c) ==
    /\ pc[t] = "idle"
    /\ slot[c].status = "pending"
    /\ pc' = [pc EXCEPT ![t] = "sent"]
    /\ req' = [req EXCEPT ![t] = [call |-> c, card |-> slot[c].card, delay |-> 0]]
    /\ UNCHANGED <<slot, parked, cards, chains, state, decided, runs, actions>>

\* POST /v1/chat/approve: approvals.get; 404 ends the request.
Get(t) ==
    /\ pc[t] = "sent"
    /\ pc' = [pc EXCEPT ![t] = IF slot[req[t].call].status = "pending" THEN "found" ELSE "idle"]
    /\ UNCHANGED <<slot, parked, cards, chains, req, state, decided, runs, actions>>

KeepsCard(c) == slot[c]  \* mutant: the parked call is read, not removed

Consumed(c) == [status |-> "used", card |-> slot[c].card, age |-> 0]

\* approvals.pop; 404 again if somebody else was first.
Pop(t) ==
    LET c == req[t].call
    IN  /\ pc[t] = "found"
        /\ IF slot[c].status = "pending"
           THEN /\ slot' = [slot EXCEPT ![c] = Consumed(c)]
                /\ pc' = [pc EXCEPT ![t] = "resume"]
                /\ req' = [req EXCEPT ![t].card = slot[c].card]
                /\ state' = [state EXCEPT ![t] = parked[slot[c].card]]
                /\ decided' = decided \union {slot[c].card}
           ELSE /\ pc' = [pc EXCEPT ![t] = "idle"]
                /\ UNCHANGED <<slot, req, state, decided>>
        /\ UNCHANGED <<parked, cards, chains, runs, actions>>

Counted(t) == state[t].attempts + 1

\* resume_after_approval, approve: execute_verified counts the attempt and executes
\* the call once, whatever comes of it.
Execute(t) ==
    /\ pc[t] = "resume"
    /\ state[t].attempts < MaxActions
    /\ pc' = [pc EXCEPT ![t] = "loop"]
    /\ state' = [state EXCEPT ![t].attempts = Counted(t)]
    /\ runs' = [runs EXCEPT ![req[t].card] = @ + 1]
    /\ actions' = [actions EXCEPT ![state[t].chain] = @ + 1]
    /\ UNCHANGED <<slot, parked, cards, chains, req, decided>>

\* Denied, or the tool, the role or the arguments are not in order: the loop goes
\* on; a decision that is neither ends the request.
Decline(t) ==
    /\ pc[t] = "resume"
    /\ \E next \in {"loop", "idle"} : pc' = [pc EXCEPT ![t] = next]
    /\ UNCHANGED <<slot, parked, cards, chains, req, state, decided, runs, actions>>

\* The agent restarts: the store is empty, every request fails, and sessions, so
\* their IDs too, are new.
Restart ==
    /\ slot' = [c \in CallId |-> Free]
    /\ pc' = [t \in Task |-> "idle"]
    /\ UNCHANGED <<parked, cards, chains, req, state, decided, runs, actions>>

\* _prune_locked
Older(s) ==
    IF s.status = "free" \/ s.age = TTL THEN Free ELSE [s EXCEPT !.age = @ + 1]

Tick ==
    /\ \A t \in Task : pc[t] \in {"sent", "found"} => req[t].delay < MaxDelay
    /\ slot' = [c \in CallId |-> Older(slot[c])]
    /\ req' = [t \in Task |-> IF pc[t] \in {"sent", "found"} THEN [req[t] EXCEPT !.delay = @ + 1] ELSE req[t]]
    /\ UNCHANGED <<parked, cards, chains, pc, state, decided, runs, actions>>

Next ==
    \/ \E t \in Task :
          \/ Chat(t) \/ Finish(t) \/ Get(t) \/ Pop(t) \/ Execute(t) \/ Decline(t)
          \/ \E c \in CallId : Propose(t, c) \/ Answer(t, c)
    \/ Restart
    \/ Tick

Spec == Init /\ [][Next]_vars

-----------------------------------------------------------------------------
\* "Only consuming the server-side pending approval authorizes mutation"
\* (agent_loop.py:216): a parked call is executed at most once, however often it is
\* approved.
SingleUse == \A k \in Card : runs[k] <= 1

\* "At most two approved actions per recovery chain" (agent_loop.py:75), also when a
\* chain is resumed by several requests at once.
BudgetKept == \A c \in Chain : actions[c] <= MaxActions

\* A second answer to a call that was already decided is never taken for the answer
\* to another call under the same ID (approvals.py:68).
NoReplay ==
    [][ \A t \in Task : pc[t] = "found" /\ pc'[t] = "resume" => req[t].card \notin decided ]_vars

\* The inductive invariant.  A thread is what can still act for a chain: a task in
\* the loop or about to execute, or a parked call.  Every chain has at most one, and it
\* knows how many calls were executed.
Active(t) == pc[t] \in {"loop", "resume"}

PendingCard(k) == \E c \in CallId : slot[c].status = "pending" /\ slot[c].card = k

CardsFresh ==
    /\ \A c \in CallId : slot[c].status # "free" => slot[c].card \in 1 .. cards
    /\ \A c \in CallId : slot[c].status = "used" => slot[c].card \in decided
    /\ \A c, d \in CallId : slot[c].status = "pending" /\ slot[d].status = "pending" /\ slot[c].card = slot[d].card => c = d
    /\ \A k \in Card : k > cards \/ PendingCard(k) => k \notin decided
    /\ \A k \in Card : k \notin decided => runs[k] = 0
    /\ \A t \in Task : pc[t] = "resume" => req[t].card \in decided /\ runs[req[t].card] = 0
    /\ \A t, u \in Task : pc[t] = "resume" /\ pc[u] = "resume" /\ req[t].card = req[u].card => t = u

OneThread ==
    /\ \A t, u \in Task : Active(t) /\ Active(u) /\ state[t].chain = state[u].chain => t = u
    /\ \A t \in Task, k \in Card : Active(t) /\ PendingCard(k) => state[t].chain # parked[k].chain
    /\ \A j, k \in Card : PendingCard(j) /\ PendingCard(k) /\ parked[j].chain = parked[k].chain => j = k

Budget ==
    /\ \A t \in Task : Active(t) => state[t].chain \in 1 .. chains /\ actions[state[t].chain] = state[t].attempts
    /\ \A k \in Card : PendingCard(k) => parked[k].chain \in 1 .. chains /\ actions[parked[k].chain] = parked[k].attempts
    /\ \A c \in Chain : c > chains => actions[c] = 0

\* An ID stays with the call an answer under way was meant for, once that call was
\* decided, at least as long as the answer is under way.
InFlight(t) == pc[t] \in {"sent", "found"}

Answers ==
    \A t \in Task : InFlight(t) =>
        /\ req[t].card \in 1 .. cards
        /\ \A c \in CallId : slot[c].status # "free" /\ slot[c].card = req[t].card => c = req[t].call
        /\ req[t].card \in decided =>
              /\ slot[req[t].call].status = "used"
              /\ slot[req[t].call].card = req[t].card
              /\ slot[req[t].call].age <= req[t].delay

ApprovalInv == TypeOK /\ CardsFresh /\ OneThread /\ Budget /\ Answers /\ SingleUse /\ BudgetKept
=============================================================================
