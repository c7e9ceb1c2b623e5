----------------------- MODULE ConnectionManagerProofs ----------------------
(***************************************************************************)
(* The approval workflow, for any set of requests.  The three invariants   *)
(* of the runs are inductive together: that a decided request has no one   *)
(* waiting (WaitersCanBeAnswered) is what keeps the answers in agreement   *)
(* with the tables (AnswerFits) when a call removes an entry.              *)
(***************************************************************************)
EXTENDS ConnectionManager, TLAPS

Inv == TypeOK /\ WaitersCanBeAnswered /\ AnswerFits

\* ConnectionManager::new satisfies the invariant.
LEMMA InitInv == Init => Inv
  BY DEF Init, Inv, TypeOK, WaitersCanBeAnswered, AnswerFits, Outcomes

\* A call for an unknown request changes nothing but the result.
LEMMA NotFoundInv == ASSUME Inv, NotFound PROVE Inv'
  BY DEF Inv, TypeOK, WaitersCanBeAnswered, AnswerFits, NotFound

\* Losing an entry ends the wait of the one who waited for it.
LEMMA LoseEntryInv ==
  ASSUME Inv, NEW id \in Ids, pending[id] # "absent", LoseEntry(id) PROVE Inv'
  BY DEF Inv, TypeOK, WaitersCanBeAnswered, AnswerFits, Outcomes, LoseEntry, Remove, Resolve

\* Resolving tells the one who waits, and no other; nobody waits for it afterwards.
LEMMA ResolveFacts ==
  ASSUME Inv, NEW id \in Ids, NEW outcome \in Outcomes, Resolve(id, outcome)
  PROVE  /\ decision_tx' = decision_tx \ {id}
         /\ waiter' \in [Ids -> {"none", "waiting", "gone"} \cup Outcomes]
         /\ \A j \in Ids \ {id} : waiter'[j] = waiter[j]
         /\ waiter'[id] = IF waiter[id] = "waiting" THEN outcome ELSE waiter[id]
  BY DEF Inv, TypeOK, WaitersCanBeAnswered, Resolve, Outcomes

\* Deciding a pending request, whether it stays or goes, preserves the invariant.
LEMMA DecideInv ==
  ASSUME Inv, NEW id \in Ids, pending[id] = "Pending", UNCHANGED active, result' = "Ok",
         \/ /\ pending' = [pending EXCEPT ![id] = "Approved"]
            /\ Resolve(id, "Approved") /\ UNCHANGED ended
         \/ /\ Remove(id) /\ Resolve(id, "Rejected")
            /\ ended' = [ended EXCEPT ![id] = "rejected"]
  PROVE  Inv'
<1>1. CASE Resolve(id, "Approved") /\ pending' = [pending EXCEPT ![id] = "Approved"] /\ UNCHANGED ended
  <2>1. waiter[id] \notin Outcomes
    BY DEF Inv, AnswerFits, TypeOK, Outcomes
  <2>2. /\ decision_tx' = decision_tx \ {id}
        /\ waiter' \in [Ids -> {"none", "waiting", "gone"} \cup Outcomes]
        /\ \A j \in Ids \ {id} : waiter'[j] = waiter[j]
        /\ waiter'[id] = IF waiter[id] = "waiting" THEN "Approved" ELSE waiter[id]
    BY <1>1, ResolveFacts DEF Outcomes
  <2>3. TypeOK'
    BY <1>1, <2>2 DEF Inv, TypeOK
  <2>4. WaitersCanBeAnswered'
    BY <1>1, <2>2 DEF Inv, TypeOK, WaitersCanBeAnswered
  <2>5. AnswerFits'
    BY <1>1, <2>1, <2>2 DEF Inv, TypeOK, AnswerFits, Outcomes
  <2> QED BY <2>3, <2>4, <2>5 DEF Inv
<1>2. CASE Resolve(id, "Rejected") /\ Remove(id) /\ ended' = [ended EXCEPT ![id] = "rejected"]
  <2>1. waiter[id] \notin Outcomes
    BY DEF Inv, AnswerFits, TypeOK, Outcomes
  <2>2. /\ decision_tx' = decision_tx \ {id}
        /\ waiter' \in [Ids -> {"none", "waiting", "gone"} \cup Outcomes]
        /\ \A j \in Ids \ {id} : waiter'[j] = waiter[j]
        /\ waiter'[id] = IF waiter[id] = "waiting" THEN "Rejected" ELSE waiter[id]
    BY <1>2, ResolveFacts DEF Outcomes
  <2>3. TypeOK'
    BY <1>2, <2>2 DEF Inv, TypeOK, Remove
  <2>4. WaitersCanBeAnswered'
    BY <1>2, <2>2 DEF Inv, TypeOK, WaitersCanBeAnswered, Remove
  <2>5. AnswerFits'
    BY <1>2, <2>1, <2>2 DEF Inv, TypeOK, AnswerFits, Outcomes, Remove
  <2> QED BY <2>3, <2>4, <2>5 DEF Inv
<1> QED BY <1>1, <1>2

\* Every call, and a waiter that leaves, preserves the invariant.
LEMMA NextInv == Inv /\ [Next]_vars => Inv'
<1> SUFFICES ASSUME Inv, [Next]_vars PROVE Inv'
  OBVIOUS
<1> USE DEF Inv, TypeOK, WaitersCanBeAnswered, AnswerFits, Outcomes, Remove, Resolve
<1>1. CASE UNCHANGED vars
  BY <1>1 DEF vars
<1>2. ASSUME NEW id \in Ids, add_pending(id) PROVE Inv'
  BY <1>2 DEF add_pending
<1>3. ASSUME NEW id \in Ids, approve_connection(id) PROVE Inv'
  <2>1. CASE pending[id] = "absent" /\ NotFound
    BY <2>1, NotFoundInv
  <2>2. CASE pending[id] = "Approved"
    BY <1>3, <2>2 DEF approve_connection
  <2>3. CASE pending[id] = "Pending"
    BY <1>3, <2>3, DecideInv DEF approve_connection
  <2> QED BY <1>3, <2>1, <2>2, <2>3 DEF approve_connection
<1>4. ASSUME NEW id \in Ids, reject_connection(id) PROVE Inv'
  <2>1. CASE pending[id] = "absent" /\ NotFound
    BY <2>1, NotFoundInv
  <2>2. CASE pending[id] = "Approved" /\ LoseEntry(id)
    BY <2>2, LoseEntryInv
  <2>3. CASE pending[id] = "Pending"
    BY <1>4, <2>3, DecideInv DEF reject_connection
  <2> QED BY <1>4, <2>1, <2>2, <2>3 DEF reject_connection
<1>5. ASSUME NEW id \in Ids, activate_connection(id) PROVE Inv'
  <2>1. CASE pending[id] = "absent" /\ NotFound
    BY <2>1, NotFoundInv
  <2>2. CASE pending[id] = "Pending" /\ LoseEntry(id)
    BY <2>2, LoseEntryInv
  <2>3. CASE pending[id] = "Approved"
    BY <1>5, <2>3 DEF activate_connection
  <2> QED BY <1>5, <2>1, <2>2, <2>3 DEF activate_connection
<1>6. ASSUME NEW id \in Ids, close_connection(id) PROVE Inv'
  BY <1>6, NotFoundInv DEF close_connection
<1>7. ASSUME NEW id \in Ids, GiveUp(id) PROVE Inv'
  BY <1>7 DEF GiveUp
<1> QED BY <1>1, <1>2, <1>3, <1>4, <1>5, <1>6, <1>7 DEF Next

\* The invariant holds in every state.
LEMMA AlwaysInv == Spec => []Inv
  BY InitInv, NextInv, PTL DEF Spec

\* The tables of ConnectionManager are well formed; a rejected request is not kept.
THEOREM TypeCorrect == Spec => []TypeOK
  BY AlwaysInv, PTL DEF Inv

\* No sequence of calls leaves anyone waiting for an answer that cannot come any more.
THEOREM NobodyWaitsInVain == Spec => []WaitersCanBeAnswered
  BY AlwaysInv, PTL DEF Inv

\* A request is in one table at most, and every answer given agrees with where it is.
THEOREM AnswersFitTables == Spec => []AnswerFits
  BY AlwaysInv, PTL DEF Inv
-----------------------------------------------------------------------------
StatusF == [i \in Ids |-> Status(i)]
ToldF   == [i \in Ids |-> TellOf(i)]

\* A step that leaves the other requests alone changes the abstract state only at id.
LEMMA OnlyAt ==
  ASSUME NEW id \in Ids,
         \A j \in Ids \ {id} : /\ pending'[j] = pending[j] /\ waiter'[j] = waiter[j]
                               /\ ended'[j] = ended[j] /\ (j \in active' <=> j \in active)
  PROVE  /\ StatusF' = [StatusF EXCEPT ![id] = Status(id)']
         /\ ToldF' = [ToldF EXCEPT ![id] = TellOf(id)']
<1>1. \A j \in Ids \ {id} : Status(j)' = Status(j) /\ TellOf(j)' = TellOf(j)
  BY DEF Status, TellOf
<1>2. StatusF' = [j \in Ids |-> Status(j)'] /\ ToldF' = [j \in Ids |-> TellOf(j)']
  BY DEF StatusF, ToldF
<1>3. StatusF = [j \in Ids |-> Status(j)] /\ ToldF = [j \in Ids |-> TellOf(j)]
  BY DEF StatusF, ToldF
<1> QED BY <1>1, <1>2, <1>3

\* The initial tables map to requests that are all new.
LEMMA LifeInit == Init => Life!Init
  BY DEF Init, Life!Init, Status, TellOf, Outcomes
\* What a step does to one request, seen from outside, makes it a step of its life.
LEMMA LifeSteps ==
  ASSUME NEW id \in Ids,
         StatusF' = [StatusF EXCEPT ![id] = Status(id)'],
         ToldF' = [ToldF EXCEPT ![id] = TellOf(id)']
  PROVE  /\ Status(id) = "new" /\ Status(id)' = "pending" /\ TellOf(id)' = TellOf(id)
              => Life!Submit(id)
         /\ Status(id) = "pending" /\ Status(id)' = "approved"
              /\ TellOf(id)' \in {"Approved", TellOf(id)} => Life!Approve(id)
         /\ Status(id) = "pending" /\ Status(id)' = "rejected"
              /\ TellOf(id)' \in {"Rejected", TellOf(id)} => Life!Reject(id)
         /\ Status(id) = "approved" /\ Status(id)' = "active" /\ TellOf(id)' = TellOf(id)
              => Life!Start(id)
         /\ Status(id) = "active" /\ Status(id)' = "closed" /\ TellOf(id)' = TellOf(id)
              => Life!Close(id)
         /\ Status(id) = "pending" /\ Status(id)' = "discarded"
              /\ TellOf(id)' \in {"no answer", TellOf(id)} => Life!Discard(id)
         /\ Status(id) = "approved" /\ Status(id)' = "discarded" /\ TellOf(id)' = TellOf(id)
              => Life!Discard(id)
         /\ Status(id)' = Status(id) /\ TellOf(id)' = TellOf(id) => UNCHANGED <<StatusF, ToldF>>
<1>1. StatusF[id] = Status(id) /\ ToldF[id] = TellOf(id)
  BY DEF StatusF, ToldF
<1>2. /\ TellOf(id)' = TellOf(id) => ToldF' = ToldF
      /\ Status(id)' = Status(id) => StatusF' = StatusF
  BY <1>1 DEF StatusF, ToldF
<1> QED BY <1>1, <1>2 DEF StatusF, ToldF, Life!Submit, Life!Approve, Life!Reject, Life!Start,
           Life!Close, Life!Discard, Life!Move, Life!Tell
\* A step that leaves the tables and the waiters alone is a stutter.
LEMMA LifeStutter ==
  ASSUME UNCHANGED <<pending, active, waiter, ended>> PROVE UNCHANGED <<StatusF, ToldF>>
  BY DEF StatusF, ToldF, Status, TellOf

\* Losing an entry discards its request.
LEMMA LoseEntryLife ==
  ASSUME Inv, NEW id \in Ids, pending[id] \in {"Pending", "Approved"}, LoseEntry(id)
  PROVE  Life!Discard(id)
<1>1. \A j \in Ids \ {id} : /\ pending'[j] = pending[j] /\ waiter'[j] = waiter[j]
                            /\ ended'[j] = ended[j] /\ (j \in active' <=> j \in active)
  BY ResolveFacts DEF Inv, TypeOK, LoseEntry, Remove, Outcomes
<1>2. waiter'[id] = IF waiter[id] = "waiting" THEN "no answer" ELSE waiter[id]
  BY ResolveFacts DEF LoseEntry, Outcomes
<1>3. TellOf(id)' \in {"no answer", TellOf(id)}
  BY <1>2 DEF TellOf, Outcomes
<1>4. pending[id] = "Approved" => TellOf(id)' = TellOf(id)
  BY <1>2 DEF TellOf, Inv, WaitersCanBeAnswered
<1>5. Status(id)' = "discarded" /\ Status(id) = IF pending[id] = "Pending" THEN "pending" ELSE "approved"
  BY DEF Status, LoseEntry, Remove, Inv, TypeOK, AnswerFits
<1> QED BY <1>1, <1>3, <1>4, <1>5, OnlyAt, LifeSteps

\* Every step is a step of the abstract life of one request, or a stutter.
LEMMA LifeNext == Inv /\ [Next]_vars => [Life!Next]_(Life!vars)
<1> SUFFICES ASSUME Inv, [Next]_vars PROVE Life!Next \/ UNCHANGED <<StatusF, ToldF>>
  BY DEF StatusF, ToldF, Life!vars
<1>1. CASE UNCHANGED vars
  BY <1>1, LifeStutter DEF vars
<1>2. ASSUME NEW id \in Ids, add_pending(id) PROVE Life!Submit(id)
  <2>1. Status(id) = "new" /\ Status(id)' = "pending"
    BY <1>2 DEF add_pending, Status, Inv, TypeOK
  <2>2. waiter[id] \notin Outcomes /\ waiter'[id] \in {"waiting", waiter[id]}
    BY <1>2 DEF add_pending, Inv, TypeOK, AnswerFits, Outcomes
  <2>3. TellOf(id)' = TellOf(id)
    BY <2>2 DEF TellOf, Outcomes
  <2>4. \A j \in Ids \ {id} : /\ pending'[j] = pending[j] /\ waiter'[j] = waiter[j]
                              /\ ended'[j] = ended[j] /\ (j \in active' <=> j \in active)
    BY <1>2 DEF add_pending, Inv, TypeOK
  <2> QED BY <2>1, <2>3, <2>4, OnlyAt, LifeSteps
<1>3. ASSUME NEW id \in Ids, approve_connection(id)
      PROVE  Life!Approve(id) \/ UNCHANGED <<StatusF, ToldF>>
  <2>1. CASE pending[id] # "Pending"
    BY <1>3, <2>1, LifeStutter DEF approve_connection, NotFound
  <2>2. CASE pending[id] = "Pending"
    <3>1. Resolve(id, "Approved") /\ pending' = [pending EXCEPT ![id] = "Approved"] /\ UNCHANGED <<active, ended>>
      BY <1>3, <2>2 DEF approve_connection
    <3>2. Status(id) = "pending" /\ Status(id)' = "approved"
      BY <2>2, <3>1 DEF Status, Inv, TypeOK
    <3>3. TellOf(id)' \in {"Approved", TellOf(id)}
      BY <3>1, ResolveFacts DEF TellOf, Outcomes
    <3>4. \A j \in Ids \ {id} : /\ pending'[j] = pending[j] /\ waiter'[j] = waiter[j]
                                /\ ended'[j] = ended[j] /\ (j \in active' <=> j \in active)
      BY <3>1, ResolveFacts DEF Inv, TypeOK, Outcomes
    <3> QED BY <3>2, <3>3, <3>4, OnlyAt, LifeSteps
  <2> QED BY <2>1, <2>2
<1>4. ASSUME NEW id \in Ids, reject_connection(id)
      PROVE  Life!Reject(id) \/ Life!Discard(id) \/ UNCHANGED <<StatusF, ToldF>>
  <2>1. CASE pending[id] = "absent"
    BY <1>4, <2>1, LifeStutter DEF reject_connection, NotFound
  <2>2. CASE pending[id] = "Approved"
    BY <1>4, <2>2, LoseEntryLife DEF reject_connection
  <2>3. CASE pending[id] = "Pending"
    <3>1. Remove(id) /\ Resolve(id, "Rejected") /\ ended' = [ended EXCEPT ![id] = "rejected"] /\ UNCHANGED active
      BY <1>4, <2>3 DEF reject_connection
    <3>2. Status(id) = "pending" /\ Status(id)' = "rejected"
      BY <2>3, <3>1 DEF Status, Remove, Inv, TypeOK, AnswerFits
    <3>3. TellOf(id)' \in {"Rejected", TellOf(id)}
      BY <3>1, ResolveFacts DEF TellOf, Outcomes
    <3>4. \A j \in Ids \ {id} : /\ pending'[j] = pending[j] /\ waiter'[j] = waiter[j]
                                /\ ended'[j] = ended[j] /\ (j \in active' <=> j \in active)
      BY <3>1, ResolveFacts DEF Remove, Inv, TypeOK, Outcomes
    <3> QED BY <3>2, <3>3, <3>4, OnlyAt, LifeSteps
  <2> QED BY <1>4, <2>1, <2>2, <2>3 DEF reject_connection
<1>5. ASSUME NEW id \in Ids, activate_connection(id)
      PROVE  Life!Start(id) \/ Life!Discard(id) \/ UNCHANGED <<StatusF, ToldF>>
  <2>1. CASE pending[id] = "absent"
    BY <1>5, <2>1, LifeStutter DEF activate_connection, NotFound
  <2>2. CASE pending[id] = "Pending"
    BY <1>5, <2>2, LoseEntryLife DEF activate_connection
  <2>3. CASE pending[id] = "Approved"
    <3>1. Remove(id) /\ active' = active \cup {id} /\ UNCHANGED <<waiter, ended>>
      BY <1>5, <2>3 DEF activate_connection
    <3>2. Status(id) = "approved" /\ Status(id)' = "active" /\ TellOf(id)' = TellOf(id)
      BY <2>3, <3>1 DEF Status, TellOf, Remove, Inv, TypeOK
    <3>3. \A j \in Ids \ {id} : /\ pending'[j] = pending[j] /\ waiter'[j] = waiter[j]
                                /\ ended'[j] = ended[j] /\ (j \in active' <=> j \in active)
      BY <3>1 DEF Remove, Inv, TypeOK
    <3> QED BY <3>2, <3>3, OnlyAt, LifeSteps
  <2> QED BY <1>5, <2>1, <2>2, <2>3 DEF activate_connection
<1>6. ASSUME NEW id \in Ids, close_connection(id)
      PROVE  Life!Close(id) \/ UNCHANGED <<StatusF, ToldF>>
  <2>1. CASE id \notin active
    BY <1>6, <2>1, LifeStutter DEF close_connection, NotFound
  <2>2. CASE id \in active
    <3>1. Status(id) = "active" /\ Status(id)' = "closed" /\ TellOf(id)' = TellOf(id)
      BY <1>6, <2>2 DEF close_connection, Status, TellOf, Inv, TypeOK, AnswerFits
    <3>2. \A j \in Ids \ {id} : /\ pending'[j] = pending[j] /\ waiter'[j] = waiter[j]
                                /\ ended'[j] = ended[j] /\ (j \in active' <=> j \in active)
      BY <1>6, <2>2 DEF close_connection, Inv, TypeOK
    <3> QED BY <3>1, <3>2, OnlyAt, LifeSteps
  <2> QED BY <2>1, <2>2
<1>7. ASSUME NEW id \in Ids, GiveUp(id) PROVE UNCHANGED <<StatusF, ToldF>>
  <2>1. Status(id)' = Status(id) /\ TellOf(id)' = TellOf(id)
    BY <1>7 DEF GiveUp, Status, TellOf, Inv, TypeOK, Outcomes
  <2>2. \A j \in Ids \ {id} : /\ pending'[j] = pending[j] /\ waiter'[j] = waiter[j]
                              /\ ended'[j] = ended[j] /\ (j \in active' <=> j \in active)
    BY <1>7 DEF GiveUp, Inv, TypeOK
  <2> QED BY <2>1, <2>2, OnlyAt, LifeSteps
<1> QED BY <1>1, <1>2, <1>3, <1>4, <1>5, <1>6, <1>7 DEF Next, Life!Next

\* Whatever calls are made in whatever order, every request lives the abstract life:
\* decided at most once, told that decision only, active only after an approval.
THEOREM ImplementsLife == Spec => ImplementsRequestLife
  BY AlwaysInv, LifeInit, LifeNext, PTL DEF Spec, ImplementsRequestLife, Life!Spec
=============================================================================
