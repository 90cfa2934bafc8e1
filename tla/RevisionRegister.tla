-------------------------- MODULE RevisionRegister --------------------------
(***************************************************************************)
(* What the SharePoint destination promises for one identity, without the   *)
(* ETags, the batches and the retries (docs/sharepoint-source.md: "A newer  *)
(* revision fences older workers ... Completed duplicates are idempotent;   *)
(* incomplete duplicates resume safely ... delayed upserts cannot resurrect *)
(* content").                                                              *)
(*                                                                         *)
(* The index is reduced to the set of revisions that readers can find a     *)
(* vector of.  A request carries a revision and gets an answer.             *)
(***************************************************************************)
EXTENDS Naturals

CONSTANTS
    Request,    \* the requests to replace the content
    Revision    \* the revisions, positive numbers

VARIABLES
    claimed,    \* the highest revision claimed, 0 before the first
    settled,    \* the claimed revision is all there is in the index
    visible,    \* the revisions readers can find
    of,         \* the revision of each request
    answer      \* the answer to each request

rvars == <<claimed, settled, visible, of, answer>>

RegisterInit ==
    /\ claimed = 0
    /\ settled = FALSE
    /\ visible = {}
    /\ of \in [Request -> Revision]
    /\ answer = [q \in Request |-> "none"]

\* A revision is claimed if it is newer; the claimed one may be taken up again
\* (a step that changes nothing here) until it is settled.
ClaimNewer(q) ==
    /\ of[q] > claimed
    /\ claimed' = of[q]
    /\ settled' = FALSE
    /\ UNCHANGED <<visible, of, answer>>

\* Vectors of the claimed revision appear next to the old ones.
Publish ==
    /\ claimed > 0
    /\ ~settled
    /\ visible' = visible \union {claimed}
    /\ UNCHANGED <<claimed, settled, of, answer>>

\* Revisions disappear while the claimed one is being settled; it can itself
\* disappear, when its document turns out to have no chunks.
Withdraw ==
    /\ claimed > 0
    /\ ~settled
    /\ visible' \in SUBSET visible
    /\ UNCHANGED <<claimed, settled, of, answer>>

\* The claimed revision is settled, and with the same step perhaps answered.
Settle ==
    /\ claimed > 0
    /\ ~settled
    /\ visible \subseteq {claimed}
    /\ settled' = TRUE
    /\ UNCHANGED <<claimed, visible, of>>
    /\ \/ UNCHANGED answer
       \/ \E q \in Request :
            /\ of[q] = claimed
            /\ answer[q] = "none"
            /\ answer' = [answer EXCEPT ![q] = "applied"]

\* A request is answered once, with what will stay true.
Answer(q) ==
    /\ answer[q] = "none"
    /\ \/ of[q] < claimed /\ answer' = [answer EXCEPT ![q] = "superseded"]
       \/ of[q] < claimed /\ answer' = [answer EXCEPT ![q] = "applied"]
       \/ of[q] = claimed /\ settled /\ answer' = [answer EXCEPT ![q] = "applied"]
    /\ UNCHANGED <<claimed, settled, visible, of>>

RegisterNext ==
    \/ \E q \in Request : ClaimNewer(q) \/ Answer(q)
    \/ Publish
    \/ Withdraw
    \/ Settle

RegisterSpec == RegisterInit /\ [][RegisterNext]_rvars
=============================================================================
