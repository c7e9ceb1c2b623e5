------------------------- MODULE ConnectionManager --------------------------
(***************************************************************************)
(* src/connection.rs: the approval workflow.  AppState keeps the manager   *)
(* behind a lock, so a call is one step; calls come from those who decide  *)
(* and from the tasks that wait, in any order and for any request.  A      *)
(* request may carry the sender of a one-shot channel; dropping it unsent  *)
(* ends the wait without an answer.                                        *)
(***************************************************************************)
CONSTANT Ids      \* the Uuids of the requests

VARIABLES
  pending,        \* by id: the state of its entry, or "absent"
  active,         \* the ids in the table of active connections
  decision_tx,    \* the ids whose entry holds a sender
  waiter,         \* by id: the receiver of its channel
  result,         \* what the latest call returned
  ended           \* history, by id: how it left the tables ("no": it has not)

vars == <<pending, active, decision_tx, waiter, result, ended>>

Outcomes == {"Approved", "Rejected", "no answer"}
-----------------------------------------------------------------------------
NotFound == result' = "NotFound" /\ UNCHANGED <<pending, active, decision_tx, waiter, ended>>

Remove(id) == pending' = [pending EXCEPT ![id] = "absent"]

\* take() and send, or drop, of the sender; a receiver that has gone is not told.
Resolve(id, outcome) ==
  /\ decision_tx' = decision_tx \ {id}
  /\ waiter' = IF id \in decision_tx /\ waiter[id] = "waiting"
               THEN [waiter EXCEPT ![id] = outcome] ELSE waiter

\* remove() before the state is looked at: the entry is lost, with its sender.
LoseEntry(id) ==
  /\ Remove(id) /\ Resolve(id, "no answer")
  /\ result' = "InvalidState"
  /\ ended' = [ended EXCEPT ![id] = "discarded"]
  /\ UNCHANGED active

\* ConnectionRequest::new, with or without a channel, and add_pending.
add_pending(id) ==
  /\ pending[id] = "absent" /\ id \notin active /\ ended[id] = "no"   \* a new Uuid
  /\ pending' = [pending EXCEPT ![id] = "Pending"]
  /\ \/ decision_tx' = decision_tx \cup {id} /\ waiter' = [waiter EXCEPT ![id] = "waiting"]
     \/ UNCHANGED <<decision_tx, waiter>>
  /\ result' = "Ok"
  /\ UNCHANGED <<active, ended>>

\* Mutant: the decision is not sent.
approve_silently(id) ==
  /\ pending[id] = "Pending"
  /\ pending' = [pending EXCEPT ![id] = "Approved"]
  /\ result' = "Ok"
  /\ UNCHANGED <<active, decision_tx, waiter, ended>>

approve_connection(id) ==
  \/ pending[id] = "absent" /\ NotFound
  \/ /\ pending[id] = "Approved"
     /\ result' = "InvalidState"
     /\ UNCHANGED <<pending, active, decision_tx, waiter, ended>>
  \/ /\ pending[id] = "Pending"
     /\ pending' = [pending EXCEPT ![id] = "Approved"]
     /\ Resolve(id, "Approved")
     /\ result' = "Ok"
     /\ UNCHANGED <<active, ended>>

\* Mutant: the rejected request is kept.
reject_and_store(id) ==
  /\ pending[id] = "Pending"
  /\ pending' = [pending EXCEPT ![id] = "Rejected"]
  /\ Resolve(id, "Rejected")
  /\ result' = "Ok"
  /\ UNCHANGED <<active, ended>>

reject_connection(id) ==
  \/ pending[id] = "absent" /\ NotFound
  \/ pending[id] = "Approved" /\ LoseEntry(id)
  \/ /\ pending[id] = "Pending"
     /\ Remove(id) /\ Resolve(id, "Rejected")
     /\ result' = "Ok"
     /\ ended' = [ended EXCEPT ![id] = "rejected"]
     /\ UNCHANGED active

\* Mutant: the state is not looked at.
activate_any(id) ==
  /\ pending[id] # "absent"
  /\ Remove(id) /\ Resolve(id, "no answer")
  /\ active' = active \cup {id}
  /\ result' = "Ok"
  /\ UNCHANGED ended

activate_connection(id) ==
  \/ pending[id] = "absent" /\ NotFound
  \/ pending[id] = "Pending" /\ LoseEntry(id)
  \/ /\ pending[id] = "Approved"
     /\ Remove(id)
     /\ active' = active \cup {id}
     /\ result' = "Ok"
     /\ UNCHANGED <<decision_tx, waiter, ended>>

close_connection(id) ==
  \/ id \notin active /\ NotFound
  \/ /\ id \in active
     /\ active' = active \ {id}
     /\ result' = "Ok"
     /\ ended' = [ended EXCEPT ![id] = "closed"]
     /\ UNCHANGED <<pending, decision_tx, waiter>>

\* The one who waits gives up and drops the receiver.
GiveUp(id) ==
  /\ waiter[id] = "waiting"
  /\ waiter' = [waiter EXCEPT ![id] = "gone"]
  /\ UNCHANGED <<pending, active, decision_tx, result, ended>>
-----------------------------------------------------------------------------
Init ==
  /\ pending = [i \in Ids |-> "absent"] /\ active = {}
  /\ decision_tx = {} /\ waiter = [i \in Ids |-> "none"]
  /\ result = "Ok" /\ ended = [i \in Ids |-> "no"]

Next == \E id \in Ids :
  \/ add_pending(id) \/ approve_connection(id) \/ reject_connection(id)
  \/ activate_connection(id) \/ close_connection(id) \/ GiveUp(id)

Spec == Init /\ [][Next]_vars
-----------------------------------------------------------------------------
\* Every variable keeps its type; a rejected request is not kept.
TypeOK ==
  /\ pending \in [Ids -> {"absent", "Pending", "Approved"}]
  /\ active \subseteq Ids /\ decision_tx \subseteq Ids
  /\ waiter \in [Ids -> {"none", "waiting", "gone"} \cup Outcomes]
  /\ result \in {"Ok", "NotFound", "InvalidState"}
  /\ ended \in [Ids -> {"no", "rejected", "closed", "discarded"}]

\* Nobody waits in vain: who still waits can still be answered, because the entry is
\* there, undecided, with its sender; a call that decides, removes or loses the
\* entry, and one that fails, leaves no receiver without an end to its wait.
WaitersCanBeAnswered ==
  \A id \in Ids : waiter[id] = "waiting" => id \in decision_tx /\ pending[id] = "Pending"

\* A request is in one table at most, in none once it has ended, and the answer that
\* was given agrees with where it is: no rejected or unanswered request is active,
\* and one that was told of its approval is lost only to a call that failed.
AnswerFits ==
  \A id \in Ids :
    /\ ~(pending[id] # "absent" /\ id \in active)
    /\ ended[id] # "no" => pending[id] = "absent" /\ id \notin active
    /\ waiter[id] = "Approved" => \/ pending[id] = "Approved" \/ id \in active
                                  \/ ended[id] \in {"closed", "discarded"}
    /\ waiter[id] = "Rejected" => ended[id] = "rejected"
    /\ waiter[id] = "no answer" => ended[id] = "discarded"

\* Whatever calls are made in whatever order, every request lives the abstract life.
Status(id) ==
  IF pending[id] = "Pending" THEN "pending" ELSE
  IF pending[id] = "Approved" THEN "approved" ELSE
  IF id \in active THEN "active" ELSE
  IF ended[id] = "no" THEN "new" ELSE ended[id]
TellOf(id) == IF waiter[id] \in Outcomes THEN waiter[id] ELSE "nothing"
Life == INSTANCE RequestLife
          WITH status <- [i \in Ids |-> Status(i)],
               told <- [i \in Ids |-> TellOf(i)]
ImplementsRequestLife == Life!Spec
=============================================================================
