---------------------------- MODULE RequestLife -----------------------------
(***************************************************************************)
(* The life of connection requests, as those who ask and those who decide  *)
(* see it.  A request is decided at most once, the one who waits is told   *)
(* that decision and no other, only an approved request becomes active,    *)
(* and an ended one stays ended.  A request may be discarded before it is  *)
(* active; one who still waits is then told that no answer will come.      *)
(***************************************************************************)
CONSTANT Ids

VARIABLES status,   \* by request
          told      \* by request: what the one who waits has been told, if anything

vars == <<status, told>>

Statuses == {"new", "pending", "approved", "rejected", "active", "closed", "discarded"}
Told     == {"nothing", "Approved", "Rejected", "no answer"}

Init == status = [i \in Ids |-> "new"] /\ told = [i \in Ids |-> "nothing"]

Move(i, from, to) == status[i] = from /\ status' = [status EXCEPT ![i] = to]

\* Those who wait may have left, or never have been there.
Tell(i, what) == told' = [told EXCEPT ![i] = what] \/ UNCHANGED told

Submit(i)  == Move(i, "new", "pending") /\ UNCHANGED told
Approve(i) == Move(i, "pending", "approved") /\ Tell(i, "Approved")
Reject(i)  == Move(i, "pending", "rejected") /\ Tell(i, "Rejected")
Start(i)   == Move(i, "approved", "active") /\ UNCHANGED told
Close(i)   == Move(i, "active", "closed") /\ UNCHANGED told
Discard(i) == \/ Move(i, "pending", "discarded") /\ Tell(i, "no answer")
              \/ Move(i, "approved", "discarded") /\ UNCHANGED told

Next == \E i \in Ids :
  Submit(i) \/ Approve(i) \/ Reject(i) \/ Start(i) \/ Close(i) \/ Discard(i)

Spec == Init /\ [][Next]_vars
=============================================================================
