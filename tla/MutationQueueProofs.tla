------------------------ MODULE MutationQueueProofs -------------------------
(***************************************************************************)
(* Proofs about MutationQueue, for any number of topologies, watch loops,  *)
(* mutations and crashes.                                                  *)
(*                                                                         *)
(* ClaimsInOrder and OutcomeEarned are not inductive by themselves: the    *)
(* first needs that the row a watcher has in hand was claimed, and that    *)
(* rows are inserted in id order; the second that dispatch precedes the    *)
(* outcome.  QueueInv adds these facts.                                    *)
(***************************************************************************)
EXTENDS MutationQueue, FiniteSetTheorems, TLAPS

\* The rows inserted so far are exactly 1..rows.
RowsInserted == \A m \in Ids : (state[m] = "none") <=> (m > rows)

\* A row in a watcher's hand belongs to the topology it drains and is no
\* longer pending.
HeldClaimed ==
    \A w \in Watchers : mut[w] # NoMutation
        => /\ topology_id[mut[w]] = tid[w]
           /\ state[mut[w]] \notin {"none", "pending"}

\* A watcher about to write an outcome has entered the op.
RunBeforeOutcome ==
    \A w \in Watchers : pc[w] \in {"applied", "failed"} => runs[mut[w]] > 0

QueueInv ==
    /\ TypeOK
    /\ RowsInserted
    /\ HeldClaimed
    /\ RunBeforeOutcome
    /\ ClaimsInOrder
    /\ OutcomeEarned

USE MutationQueueAssumption DEF Ids, NoMutation

\* The statuses the queue reads and writes are statuses of the alphabet.
LEMMA StatusFacts ==
    /\ LiveStatuses \subseteq ALL
    /\ "degraded" \in ALL
    /\ \A s : legal_next(s) \subseteq ALL
BY DEF LiveStatuses, ALL, legal_next

\* The empty queue with idle watch loops is well typed.
LEMMA TypeInit == Init => TypeOK
<1>1. AnyTopology \in Topologies
  BY DEF AnyTopology
<1> QED
  BY <1>1, StatusFacts DEF Init, QueueInit, TypeOK, PC, Holding, Resolved

\* Every session of the API and of a watch loop keeps the tables well typed.
LEMMA TypeStep == TypeOK /\ [Next]_vars => TypeOK'
<1> SUFFICES ASSUME TypeOK, [Next]_vars PROVE TypeOK'
  OBVIOUS
<1> USE DEF TypeOK, PC, Holding, Resolved
<1>1. ASSUME NEW t \in Topologies, Api(t) PROVE TypeOK'
  <2>1. CASE AdmitEnqueue(t)
    <3>1. admitted' \in [Topologies -> Nat]
      BY <2>1 DEF AdmitEnqueue
    <3> QED
      BY <2>1, <3>1 DEF AdmitEnqueue
  <2>2. CASE Enqueue(t) BY <2>2 DEF Enqueue
  <2>3. CASE RejectEnqueue(t) BY <2>3 DEF RejectEnqueue
  <2> QED BY <1>1, <2>1, <2>2, <2>3 DEF Api
<1>2. ASSUME NEW w \in Watchers, Work(w) PROVE TypeOK'
  <2>1. CASE StartReconcile(w) BY <2>1 DEF StartReconcile
  <2>2. CASE NextTopology(w) BY <2>2 DEF NextTopology
  <2>3. CASE EndReconcile(w) BY <2>3 DEF EndReconcile
  <2>4. CASE ClaimNextMutation(w)
    <3>1. PICK c \in RowsOf(tid[w], "pending") :
            /\ state' = [state EXCEPT ![c] = "applying"]
            /\ \E m \in RowsOf(tid[w], "applying") \cup {c} :
                 mut' = [mut EXCEPT ![w] = m]
      BY <2>4 DEF ClaimNextMutation
    <3>2. PICK m \in RowsOf(tid[w], "applying") \cup {c} : mut' = [mut EXCEPT ![w] = m]
      BY <3>1
    <3>3. c \in Ids /\ m \in Ids
      BY DEF RowsOf
    <3>4. pc' = [pc EXCEPT ![w] = "dispatch"]
      BY <2>4 DEF ClaimNextMutation
    <3>5. \A v \in Watchers : (mut'[v] # NoMutation) <=> (pc'[v] \in Holding)
      BY <3>2, <3>3, <3>4
    <3>6. UNCHANGED <<status, admitted, rows, topology_id, todo, tid, runs, crashes>>
      BY <2>4 DEF ClaimNextMutation
    <3>7. mut' \in [Watchers -> Ids \cup {NoMutation}] /\ pc' \in [Watchers -> PC]
      BY <3>2, <3>3, <3>4
    <3> QED
      BY <3>1, <3>3, <3>5, <3>6, <3>7
  <2>5. CASE ClaimNothing(w) BY <2>5 DEF ClaimNothing
  <2>6. CASE Dispatch(w) BY <2>6 DEF Dispatch
  <2>7. CASE MarkApplied(w) BY <2>7 DEF MarkApplied, Resolve
  <2>8. CASE MarkFailed(w) BY <2>8 DEF MarkFailed, Resolve
  <2>9. CASE CheckDegrade(w) BY <2>9 DEF CheckDegrade
  <2>10. CASE DegradeMissing(w) BY <2>10 DEF DegradeMissing
  <2>11. CASE WriteDegraded(w) BY <2>11, StatusFacts DEF WriteDegraded
  <2> QED BY <1>2, <2>1, <2>2, <2>3, <2>4, <2>5, <2>6, <2>7, <2>8, <2>9,
             <2>10, <2>11 DEF Work, Drain
<1>3. ASSUME NEW w \in Watchers, Crash(w) PROVE TypeOK'
  BY <1>3 DEF Crash
<1>4. ASSUME NEW w \in Watchers, Restart(w) PROVE TypeOK'
  BY <1>4 DEF Restart
<1>5. ASSUME NEW t \in Topologies, OtherTransition(t) PROVE TypeOK'
  BY <1>5, StatusFacts DEF OtherTransition, queueVars
<1>6. ASSUME NEW t \in Topologies, DeleteTopology(t) PROVE TypeOK'
  BY <1>6 DEF DeleteTopology, DeleteRows
<1>7. CASE UNCHANGED vars
  BY <1>7 DEF vars, queueVars
<1> QED
  BY <1>1, <1>2, <1>3, <1>4, <1>5, <1>6, <1>7 DEF Next, QueueNext

\* Type correctness, for every value of the constants.
THEOREM TypeCorrect == Spec => []TypeOK
BY TypeInit, TypeStep, PTL DEF Spec

-----------------------------------------------------------------------------
\* What a successful claim does, in terms of the row it moves (c) and the row
\* it returns (m): used by every proof about claims.
LEMMA ClaimFacts ==
    ASSUME TypeOK, RowsInserted, NEW w \in Watchers, ClaimNextMutation(w)
    PROVE  \E c, m \in Ids :
             /\ state[c] = "pending" /\ topology_id[c] = tid[w]
             /\ state' = [state EXCEPT ![c] = "applying"]
             /\ mut' = [mut EXCEPT ![w] = m]
             /\ topology_id[m] = tid[w] /\ m <= c
             /\ m = c \/ state[m] = "applying"
             /\ \A k \in Ids : topology_id[k] = tid[w] /\ state[k] = "pending" => c <= k
             /\ \A k \in Ids : topology_id[k] = tid[w] /\ state[k] = "applying" => m <= k
<1>1. PICK c \in RowsOf(tid[w], "pending") :
        /\ IsOldest(c, RowsOf(tid[w], "pending"))
        /\ state' = [state EXCEPT ![c] = "applying"]
        /\ \E m \in RowsOf(tid[w], "applying") \cup {c} :
             /\ IsOldest(m, RowsOf(tid[w], "applying") \cup {c})
             /\ mut' = [mut EXCEPT ![w] = m]
  BY DEF ClaimNextMutation
<1>2. PICK m \in RowsOf(tid[w], "applying") \cup {c} :
        /\ IsOldest(m, RowsOf(tid[w], "applying") \cup {c})
        /\ mut' = [mut EXCEPT ![w] = m]
  BY <1>1
<1>3. c \in Ids /\ state[c] = "pending" /\ topology_id[c] = tid[w]
  BY DEF RowsOf
<1>4. m \in Ids /\ topology_id[m] = tid[w] /\ (m = c \/ state[m] = "applying")
  BY <1>3 DEF RowsOf
<1>5. m <= c
  BY <1>2 DEF IsOldest
<1>6. \A k \in Ids : topology_id[k] = tid[w] /\ state[k] = "pending" => c <= k
  BY <1>1 DEF IsOldest, RowsOf
<1>7. \A k \in Ids : topology_id[k] = tid[w] /\ state[k] = "applying" => m <= k
  BY <1>2 DEF IsOldest, RowsOf
<1> QED
  BY <1>1, <1>2, <1>3, <1>4, <1>5, <1>6, <1>7

\* The steps that leave the rows alone leave the invariant alone.
LEMMA RowsUntouched ==
    ASSUME QueueInv, UNCHANGED <<rows, topology_id, state, tid, mut, runs>>,
           \A w \in Watchers : pc'[w] \in {"applied", "failed"} => pc'[w] = pc[w]
    PROVE  /\ RowsInserted' /\ HeldClaimed' /\ RunBeforeOutcome'
           /\ ClaimsInOrder' /\ OutcomeEarned'
BY DEF QueueInv, RowsInserted, HeldClaimed, RunBeforeOutcome, ClaimsInOrder,
       OutcomeEarned

\* Writing an outcome on the row in hand.
LEMMA MarkStep ==
    ASSUME QueueInv, NEW w \in Watchers, NEW outcome \in Resolved,
           mut[w] # NoMutation, pc[w] \in {"applied", "failed"},
           state' = [state EXCEPT ![mut[w]] = Resolve(@, outcome)],
           mut' = [mut EXCEPT ![w] = NoMutation],
           \A v \in Watchers : pc'[v] \in {"applied", "failed"} => pc'[v] = pc[v] /\ v # w,
           UNCHANGED <<rows, topology_id, tid, runs>>
    PROVE  /\ RowsInserted' /\ HeldClaimed' /\ RunBeforeOutcome'
           /\ ClaimsInOrder' /\ OutcomeEarned'
<1> DEFINE h == mut[w]
<1>1. h \in Ids /\ state[h] \notin {"none", "pending"} /\ runs[h] > 0
  BY DEF QueueInv, TypeOK, HeldClaimed, RunBeforeOutcome
<1>2. /\ state \in [Ids -> {"none", "pending", "applying", "deleted"} \cup Resolved]
      /\ mut \in [Watchers -> Ids \cup {NoMutation}]
      /\ pc \in [Watchers -> PC]
  BY DEF QueueInv, TypeOK
<1>3. \A m \in Ids : m # h => state'[m] = state[m]
  BY <1>1, <1>2
<1>4. \/ state[h] = "deleted" /\ state'[h] = "deleted"
      \/ state[h] # "deleted" /\ state'[h] = outcome
  BY <1>1, <1>2 DEF Resolve
<1>5. outcome \in {"applied", "failed"}
  BY DEF Resolved
<1>6. RowsInserted'
  BY <1>1, <1>3, <1>4, <1>5 DEF QueueInv, RowsInserted
<1>7. HeldClaimed'
  <2> SUFFICES ASSUME NEW v \in Watchers, mut'[v] # NoMutation
               PROVE  /\ topology_id'[mut'[v]] = tid'[v]
                      /\ state'[mut'[v]] \notin {"none", "pending"}
    BY DEF HeldClaimed
  <2>1. v # w /\ mut'[v] = mut[v] /\ mut[v] \in Ids
    BY <1>2
  <2> QED
    BY <2>1, <1>3, <1>4, <1>5 DEF QueueInv, HeldClaimed
<1>8. RunBeforeOutcome'
  BY <1>2 DEF QueueInv, RunBeforeOutcome
<1>9. ClaimsInOrder'
  <2> SUFFICES ASSUME NEW m \in Ids, NEW k \in Ids, m < k,
                      topology_id[m] = topology_id[k], state'[m] = "pending"
               PROVE  state'[k] \in {"none", "pending", "deleted"}
    BY DEF ClaimsInOrder
  <2>1. m # h /\ state[m] = "pending"
    BY <1>3, <1>4, <1>5
  <2>2. state[k] \in {"none", "pending", "deleted"}
    BY <2>1 DEF QueueInv, ClaimsInOrder
  <2> QED
    BY <2>2, <1>1, <1>3, <1>4
<1>10. OutcomeEarned'
  BY <1>1, <1>3, <1>4, <1>5 DEF QueueInv, OutcomeEarned, Resolved
<1> QED
  BY <1>6, <1>7, <1>8, <1>9, <1>10

\* The inductive invariant holds of the empty queue.
LEMMA QueueInvInit == Init => QueueInv
<1> SUFFICES ASSUME Init PROVE QueueInv
  OBVIOUS
<1>1. TypeOK
  BY TypeInit
<1>2. /\ RowsInserted /\ HeldClaimed /\ RunBeforeOutcome
      /\ ClaimsInOrder /\ OutcomeEarned
  BY DEF Init, QueueInit, RowsInserted, HeldClaimed, RunBeforeOutcome, ClaimsInOrder,
         OutcomeEarned, Resolved
<1> QED
  BY <1>1, <1>2 DEF QueueInv

\* claim_next_mutation keeps the invariant, also when the row it returns is
\* not the row its UPDATE moved.
LEMMA ClaimStep ==
    ASSUME QueueInv, NEW w \in Watchers, ClaimNextMutation(w)
    PROVE  /\ RowsInserted' /\ HeldClaimed' /\ RunBeforeOutcome'
           /\ ClaimsInOrder' /\ OutcomeEarned'
<1>1. PICK c, m \in Ids :
        /\ state[c] = "pending" /\ topology_id[c] = tid[w]
        /\ state' = [state EXCEPT ![c] = "applying"]
        /\ mut' = [mut EXCEPT ![w] = m]
        /\ topology_id[m] = tid[w] /\ m <= c
        /\ m = c \/ state[m] = "applying"
        /\ \A k \in Ids : topology_id[k] = tid[w] /\ state[k] = "pending" => c <= k
  BY ClaimFacts DEF QueueInv
<1>2. /\ pc' = [pc EXCEPT ![w] = "dispatch"]
      /\ UNCHANGED <<rows, topology_id, tid, runs>>
  BY DEF ClaimNextMutation
<1>3. /\ state \in [Ids -> {"none", "pending", "applying", "deleted"} \cup Resolved]
      /\ mut \in [Watchers -> Ids \cup {NoMutation}]
      /\ pc \in [Watchers -> PC]
      /\ runs \in [Ids -> Nat]
  BY DEF QueueInv, TypeOK
<1>4. state'[c] = "applying" /\ \A k \in Ids : k # c => state'[k] = state[k]
  BY <1>1, <1>3
<1>5. RowsInserted'
  BY <1>1, <1>2, <1>4 DEF QueueInv, RowsInserted
<1>6. HeldClaimed'
  <2> SUFFICES ASSUME NEW v \in Watchers, mut'[v] # NoMutation
               PROVE  /\ topology_id'[mut'[v]] = tid'[v]
                      /\ state'[mut'[v]] \notin {"none", "pending"}
    BY DEF HeldClaimed
  <2>1. CASE v = w
    BY <2>1, <1>1, <1>2, <1>3, <1>4
  <2>2. CASE v # w
    <3>1. mut'[v] = mut[v] /\ mut[v] \in Ids
      BY <2>2, <1>1, <1>3
    <3> QED
      BY <3>1, <1>2, <1>4 DEF QueueInv, HeldClaimed
  <2> QED BY <2>1, <2>2
<1>7. RunBeforeOutcome'
  BY <1>1, <1>2, <1>3 DEF QueueInv, RunBeforeOutcome
<1>8. ClaimsInOrder'
  <2> SUFFICES ASSUME NEW i \in Ids, NEW k \in Ids, i < k,
                      topology_id[i] = topology_id[k], state'[i] = "pending"
               PROVE  state'[k] \in {"none", "pending", "deleted"}
    BY <1>2 DEF ClaimsInOrder
  <2>1. i # c /\ state[i] = "pending"
    BY <1>4
  <2>2. k # c
    BY <1>1, <2>1
  <2> QED
    BY <2>1, <2>2, <1>4 DEF QueueInv, ClaimsInOrder
<1>9. OutcomeEarned'
  BY <1>1, <1>2, <1>4 DEF QueueInv, OutcomeEarned, Resolved
<1> QED
  BY <1>5, <1>6, <1>7, <1>8, <1>9

\* Every step keeps the inductive invariant.
LEMMA QueueInvStep == QueueInv /\ [Next]_vars => QueueInv'
<1> SUFFICES ASSUME QueueInv, [Next]_vars PROVE QueueInv'
  OBVIOUS
<1> DEFINE Rest == /\ RowsInserted /\ HeldClaimed /\ RunBeforeOutcome
                   /\ ClaimsInOrder /\ OutcomeEarned
<1>0. TypeOK /\ TypeOK'
  BY TypeStep DEF QueueInv
<1> SUFFICES Rest'
  BY <1>0 DEF QueueInv
<1>1. ASSUME NEW t \in Topologies, Api(t) PROVE Rest'
  <2>1. CASE AdmitEnqueue(t) \/ RejectEnqueue(t)
    BY <2>1, RowsUntouched DEF AdmitEnqueue, RejectEnqueue
  <2>2. CASE Enqueue(t)
    <3>1. /\ rows' = rows + 1 /\ rows < MaxMutations /\ rows \in Nat
          /\ topology_id' = [topology_id EXCEPT ![rows + 1] = t]
          /\ state' = [state EXCEPT ![rows + 1] = "pending"]
          /\ UNCHANGED <<pc, tid, mut, runs>>
      BY <2>2, <1>0 DEF Enqueue, TypeOK
    <3>2. /\ rows + 1 \in Ids /\ state[rows + 1] = "none"
          /\ state'[rows + 1] = "pending"
          /\ \A m \in Ids : m # rows + 1 => /\ state'[m] = state[m]
                                            /\ topology_id'[m] = topology_id[m]
      BY <3>1, <1>0 DEF QueueInv, RowsInserted, TypeOK
    <3>3. RowsInserted'
      BY <3>1, <3>2 DEF QueueInv, RowsInserted
    <3>4. HeldClaimed'
      BY <3>1, <3>2, <1>0 DEF QueueInv, HeldClaimed, TypeOK
    <3>5. RunBeforeOutcome'
      BY <3>1 DEF QueueInv, RunBeforeOutcome
    <3>6. ClaimsInOrder'
      <4> SUFFICES ASSUME NEW m \in Ids, NEW k \in Ids, m < k,
                          topology_id'[m] = topology_id'[k], state'[m] = "pending"
                   PROVE  state'[k] \in {"none", "pending", "deleted"}
        BY DEF ClaimsInOrder
      <4>1. CASE k = rows + 1
        BY <4>1, <3>2
      <4>2. CASE k # rows + 1 /\ m = rows + 1
        BY <4>2, <3>1, <3>2 DEF QueueInv, RowsInserted
      <4>3. CASE k # rows + 1 /\ m # rows + 1
        BY <4>3, <3>2 DEF QueueInv, ClaimsInOrder
      <4> QED BY <4>1, <4>2, <4>3
    <3>7. OutcomeEarned'
      BY <3>1, <3>2, <1>0 DEF QueueInv, OutcomeEarned, TypeOK, Resolved
    <3> QED BY <3>3, <3>4, <3>5, <3>6, <3>7
  <2> QED BY <1>1, <2>1, <2>2 DEF Api
<1>2. ASSUME NEW w \in Watchers, Work(w) PROVE Rest'
  <2>0. pc \in [Watchers -> PC] /\ mut \in [Watchers -> Ids \cup {NoMutation}]
    BY <1>0 DEF TypeOK
  <2>1. CASE StartReconcile(w)
    BY <2>0, <2>1, RowsUntouched DEF StartReconcile
  <2>2. CASE NextTopology(w)
    <3>1. mut[w] = NoMutation
      BY <2>2, <1>0 DEF NextTopology, TypeOK, Holding
    <3>2. /\ UNCHANGED <<rows, topology_id, state, mut, runs>>
          /\ pc' = [pc EXCEPT ![w] = "claim"]
          /\ \A v \in Watchers : v # w => tid'[v] = tid[v]
      BY <2>2, <1>0 DEF NextTopology, TypeOK
    <3>3. HeldClaimed'
      BY <3>1, <3>2 DEF QueueInv, HeldClaimed
    <3> QED
      BY <2>0, <3>2, <3>3 DEF QueueInv, RowsInserted, RunBeforeOutcome,
                               ClaimsInOrder, OutcomeEarned
  <2>3. CASE EndReconcile(w)
    BY <2>0, <2>3, RowsUntouched DEF EndReconcile
  <2>4. CASE ClaimNextMutation(w)
    BY <2>4, ClaimStep
  <2>5. CASE ClaimNothing(w)
    BY <2>0, <2>5, RowsUntouched DEF ClaimNothing
  <2>6. CASE Dispatch(w)
    <3>1. /\ mut[w] \in Ids /\ runs \in [Ids -> Nat]
          /\ runs' = [runs EXCEPT ![mut[w]] = @ + 1]
          /\ UNCHANGED <<rows, topology_id, state, tid, mut>>
          /\ \A v \in Watchers : v # w => pc'[v] = pc[v]
      BY <2>6, <1>0 DEF Dispatch, TypeOK, Holding
    <3>2. \A m \in Ids : runs'[m] = IF m = mut[w] THEN runs[m] + 1 ELSE runs[m]
      BY <3>1
    <3>3. RunBeforeOutcome'
      <4> SUFFICES ASSUME NEW v \in Watchers, pc'[v] \in {"applied", "failed"}
                   PROVE  runs'[mut'[v]] > 0
        BY DEF RunBeforeOutcome
      <4>1. CASE v = w
        BY <4>1, <3>1, <3>2
      <4>2. CASE v # w
        <5>1. mut[v] \in Ids /\ runs[mut[v]] > 0
          BY <4>2, <3>1, <1>0, <2>0 DEF QueueInv, RunBeforeOutcome, TypeOK, Holding
        <5> QED
          BY <5>1, <3>1, <3>2
      <4> QED BY <4>1, <4>2
    <3>4. OutcomeEarned'
      <4>1. state[mut[w]] \in {"applying", "deleted"} \cup Resolved
        <5>1. state[mut[w]] \in {"none", "pending", "applying", "deleted"} \cup Resolved
          BY <3>1, <1>0 DEF TypeOK
        <5>2. mut[w] # NoMutation
          BY <3>1
        <5> QED
          BY <5>1, <5>2 DEF QueueInv, HeldClaimed
      <4> QED
        BY <4>1, <3>1, <3>2 DEF QueueInv, OutcomeEarned
    <3> QED
      BY <3>1, <3>3, <3>4 DEF QueueInv, RowsInserted, HeldClaimed, ClaimsInOrder
  <2>7. CASE MarkApplied(w)
    BY <2>0, <2>7, <1>0, MarkStep DEF MarkApplied, TypeOK, Holding, Resolved
  <2>8. CASE MarkFailed(w)
    BY <2>0, <2>8, <1>0, MarkStep DEF MarkFailed, TypeOK, Holding, Resolved
  <2>9. CASE CheckDegrade(w)
    BY <2>0, <2>9, RowsUntouched DEF CheckDegrade
  <2>10. CASE DegradeMissing(w)
    BY <2>0, <2>10, RowsUntouched DEF DegradeMissing
  <2>11. CASE WriteDegraded(w)
    BY <2>0, <2>11, RowsUntouched DEF WriteDegraded
  <2> QED BY <1>2, <2>1, <2>2, <2>3, <2>4, <2>5, <2>6, <2>7, <2>8, <2>9,
             <2>10, <2>11 DEF Work, Drain
<1>3. ASSUME NEW w \in Watchers, Crash(w) PROVE Rest'
  BY <1>0, <1>3 DEF Crash, TypeOK, QueueInv, RowsInserted, HeldClaimed,
     RunBeforeOutcome, ClaimsInOrder, OutcomeEarned
<1>4. ASSUME NEW w \in Watchers, Restart(w) PROVE Rest'
  <2>1. pc \in [Watchers -> PC]
    BY <1>0 DEF TypeOK
  <2> QED
    BY <1>4, <2>1, RowsUntouched DEF Restart
<1>5. ASSUME NEW t \in Topologies, OtherTransition(t) PROVE Rest'
  BY <1>5, RowsUntouched DEF OtherTransition, queueVars
<1>6. ASSUME NEW t \in Topologies, DeleteTopology(t) PROVE Rest'
  <2>1. /\ state' = [m \in Ids |-> IF topology_id[m] = t /\ state[m] # "none"
                                  THEN "deleted" ELSE state[m]]
        /\ UNCHANGED <<rows, topology_id, pc, tid, mut, runs>>
    BY <1>6 DEF DeleteTopology, DeleteRows
  <2>2. HeldClaimed'
    BY <2>1, <1>0 DEF QueueInv, HeldClaimed, TypeOK
  <2> QED
    BY <2>1, <2>2 DEF QueueInv, RowsInserted, RunBeforeOutcome, ClaimsInOrder,
                      OutcomeEarned, Resolved
<1>7. CASE UNCHANGED vars
  BY <1>7, RowsUntouched DEF vars, queueVars
<1> QED
  BY <1>1, <1>2, <1>3, <1>4, <1>5, <1>6, <1>7 DEF Next, QueueNext

\* The inductive invariant of the queue holds in every reachable state, for
\* any number of topologies, watch loops, rows and crashes.
THEOREM QueueInvariant == Spec => []QueueInv
BY QueueInvInit, QueueInvStep, PTL DEF Spec

\* claim_next_mutation hands out rows in requested_at order, for any number
\* of racing and crashing watch loops.
THEOREM ClaimsInOrderTheorem == Spec => []ClaimsInOrder
<1>1. QueueInv => ClaimsInOrder
  BY DEF QueueInv
<1> QED
  BY <1>1, QueueInvariant, PTL

\* Outcomes are earned, for any number of racing and crashing watch loops.
THEOREM OutcomeEarnedTheorem == Spec => []OutcomeEarned
<1>1. QueueInv => OutcomeEarned
  BY DEF QueueInv
<1> QED
  BY <1>1, QueueInvariant, PTL

\* Ops take effect in the order in which they were requested: whichever row a
\* claim returns, every older row of the topology is resolved.
THEOREM OldestUnresolvedFirstTheorem == Spec => OldestUnresolvedFirst
<1> DEFINE Oldest ==
      \A w \in Watchers :
         mut[w] = NoMutation /\ mut'[w] # NoMutation
         => \A k \in Ids :
              k < mut'[w] /\ topology_id[k] = topology_id[mut'[w]]
              => state'[k] \in Resolved \cup {"deleted"}
<1>1. ASSUME QueueInv, [Next]_vars PROVE [Oldest]_vars
  <2> SUFFICES ASSUME NEW w \in Watchers,
                      mut[w] = NoMutation, mut'[w] # NoMutation,
                      NEW k \in Ids, k < mut'[w],
                      topology_id[k] = topology_id[mut'[w]]
               PROVE  state'[k] \in Resolved \cup {"deleted"}
    OBVIOUS
  <2>1. TypeOK
    BY <1>1 DEF QueueInv
  <2>2. ClaimNextMutation(w)
    <3> SUFFICES ASSUME ~ClaimNextMutation(w) PROVE FALSE
      OBVIOUS
    <3>1. CASE UNCHANGED vars
      BY <3>1 DEF vars, queueVars
    <3>2. ASSUME NEW t \in Topologies, Api(t) \/ OtherTransition(t) \/ DeleteTopology(t)
          PROVE  FALSE
      BY <3>2 DEF Api, AdmitEnqueue, Enqueue, RejectEnqueue, OtherTransition, queueVars,
         DeleteTopology, DeleteRows
    <3>3. ASSUME NEW v \in Watchers, Work(v)
          PROVE  FALSE
      <4>1. CASE \/ StartReconcile(v) \/ NextTopology(v) \/ EndReconcile(v) \/ ClaimNothing(v)
                 \/ Dispatch(v) \/ CheckDegrade(v) \/ DegradeMissing(v) \/ WriteDegraded(v)
        BY <4>1 DEF StartReconcile, NextTopology, EndReconcile, ClaimNothing, Dispatch,
           CheckDegrade, DegradeMissing, WriteDegraded
      <4>2. CASE MarkApplied(v) \/ MarkFailed(v)
        BY <4>2, <2>1 DEF MarkApplied, MarkFailed, TypeOK
      <4>3. CASE ClaimNextMutation(v)
        <5>1. v # w
          BY <4>3
        <5>2. PICK m : mut' = [mut EXCEPT ![v] = m]
          BY <4>3 DEF ClaimNextMutation
        <5> QED
          BY <5>1, <5>2, <2>1 DEF TypeOK
      <4> QED
        BY <3>3, <4>1, <4>2, <4>3 DEF Work, Drain
    <3>4. ASSUME NEW v \in Watchers, Crash(v) \/ Restart(v)
          PROVE  FALSE
      BY <3>4, <2>1 DEF Crash, Restart, TypeOK
    <3> QED
      BY <1>1, <3>1, <3>2, <3>3, <3>4 DEF Next, QueueNext
  <2>3. PICK c, m \in Ids :
        /\ state[c] = "pending" /\ topology_id[c] = tid[w]
        /\ state' = [state EXCEPT ![c] = "applying"]
        /\ mut' = [mut EXCEPT ![w] = m]
        /\ topology_id[m] = tid[w] /\ m <= c
        /\ m = c \/ state[m] = "applying"
        /\ \A i \in Ids : topology_id[i] = tid[w] /\ state[i] = "pending" => c <= i
        /\ \A i \in Ids : topology_id[i] = tid[w] /\ state[i] = "applying" => m <= i
    BY <1>1, <2>2, ClaimFacts DEF QueueInv
  <2>4. mut'[w] = m
    BY <2>1, <2>3 DEF TypeOK
  <2>5. state[k] \notin {"pending", "applying"}
    BY <2>3, <2>4
  <2>6. state[k] # "none"
    BY <1>1, <2>1, <2>3, <2>4 DEF QueueInv, RowsInserted, TypeOK
  <2>7. state[k] \in {"none", "pending", "applying", "deleted"} \cup Resolved
    BY <2>1 DEF TypeOK
  <2>8. state'[k] = state[k]
    BY <2>1, <2>3, <2>4 DEF TypeOK
  <2> QED
    BY <2>5, <2>6, <2>7, <2>8
<1> QED
  BY <1>1, QueueInvariant, PTL DEF Spec, OldestUnresolvedFirst

\* An outcome that no loop has in hand is final, for any number of loops,
\* whatever crashes.
THEOREM OutcomeFinalTheorem == Spec => OutcomeFinal
<1> DEFINE Final ==
      \A m \in Ids :
          state[m] \in Resolved /\ (\A w \in Watchers : mut[w] # m) =>
              state'[m] \in {state[m], "deleted"} /\ \A w \in Watchers : mut'[w] # m
<1>1. ASSUME QueueInv, [Next]_vars PROVE [Final]_vars
  <2> SUFFICES ASSUME NEW m \in Ids, state[m] \in Resolved, \A w \in Watchers : mut[w] # m
               PROVE  state'[m] \in {state[m], "deleted"} /\ \A w \in Watchers : mut'[w] # m
    OBVIOUS
  <2> DEFINE Kept == state'[m] \in {state[m], "deleted"} /\ \A w \in Watchers : mut'[w] # m
  <2>1. TypeOK /\ RowsInserted /\ m # NoMutation
    BY <1>1 DEF QueueInv, Ids, NoMutation
  <2>2. CASE state' = state /\ mut' = mut
    BY <2>2
  <2>3. ASSUME NEW w \in Watchers, ClaimNextMutation(w) PROVE Kept
    <3>1. PICK c, k \in Ids :
          /\ state[c] = "pending" /\ state' = [state EXCEPT ![c] = "applying"]
          /\ mut' = [mut EXCEPT ![w] = k]
          /\ k = c \/ state[k] = "applying"
      BY <2>1, <2>3, ClaimFacts
    <3>2. c # m /\ k # m
      BY <3>1 DEF Resolved
    <3> QED
      BY <3>1, <3>2, <2>1 DEF TypeOK
  <2>4. ASSUME NEW w \in Watchers, MarkApplied(w) \/ MarkFailed(w) PROVE Kept
    <3>1. mut[w] \in Ids /\ m # mut[w] /\ mut' = [mut EXCEPT ![w] = NoMutation]
      BY <2>1, <2>4 DEF TypeOK, Holding, MarkApplied, MarkFailed
    <3> QED
      BY <3>1, <2>1, <2>4 DEF MarkApplied, MarkFailed, TypeOK
  <2>5. ASSUME NEW t \in Topologies, Enqueue(t) PROVE Kept
    <3>1. rows + 1 \in Ids /\ state' = [state EXCEPT ![rows + 1] = "pending"] /\ mut' = mut
      BY <2>1, <2>5 DEF Enqueue, TypeOK
    <3>2. state[rows + 1] = "none"
      BY <3>1, <2>1 DEF RowsInserted, TypeOK
    <3> QED
      BY <3>1, <3>2, <2>1 DEF TypeOK, Resolved
  <2>6. ASSUME NEW t \in Topologies, DeleteTopology(t) PROVE Kept
    BY <2>6 DEF DeleteTopology, DeleteRows
  <2>7. ASSUME NEW w \in Watchers, state' = state, mut' = [mut EXCEPT ![w] = NoMutation] PROVE Kept
    BY <2>1, <2>7 DEF TypeOK
  <2> HIDE DEF Kept
  <2>8. Kept
    BY <1>1, <2>2, <2>3, <2>4, <2>5, <2>6, <2>7
       DEF Next, QueueNext, vars, queueVars, Api, AdmitEnqueue,
       RejectEnqueue, Work, Drain, StartReconcile, NextTopology, EndReconcile,
       ClaimNothing, Dispatch, CheckDegrade, DegradeMissing, WriteDegraded,
       Crash, Restart, OtherTransition, Kept
  <2> QED
    BY <2>8 DEF Kept
<1> QED
  BY <1>1, QueueInvariant, PTL DEF Spec, OutcomeFinal

-----------------------------------------------------------------------------
(* One watch loop.  Its claim returns the row it moved as long as no crash   *)
(* has left an applying row behind.                                          *)

OneWatcher == \A v, w \in Watchers : v = w

RunsOnce == \A m \in Ids : runs[m] <= 1

\* One watch loop that has not died: an applying row is the row in its hand,
\* and an op about to be dispatched has not run.
LoneInv ==
    /\ \A m \in Ids : state[m] = "applying" => \E w \in Watchers : mut[w] = m
    /\ \A w \in Watchers : pc[w] = "dispatch" => runs[mut[w]] = 0
    /\ RunsOnce

\* As long as the only watch loop has not died, every applying row is the row in hand
\* and its op has not been entered before.
LEMMA LoneInvStep ==
    ASSUME OneWatcher, QueueInv, LoneInv, [Next]_vars, crashes' = 0
    PROVE  LoneInv'
<1>1. TypeOK /\ TypeOK' /\ RowsInserted /\ HeldClaimed /\ OutcomeEarned
  BY TypeStep DEF QueueInv
<1>2. ASSUME NEW w \in Watchers, ClaimNextMutation(w) PROVE LoneInv'
  <2>1. PICK c, m \in Ids :
        /\ state[c] = "pending" /\ topology_id[c] = tid[w]
        /\ state' = [state EXCEPT ![c] = "applying"]
        /\ mut' = [mut EXCEPT ![w] = m]
        /\ m = c \/ state[m] = "applying"
    BY <1>1, <1>2, ClaimFacts
  <2>2. /\ mut[w] = NoMutation /\ runs' = runs
        /\ pc' = [pc EXCEPT ![w] = "dispatch"]
    BY <1>1, <1>2 DEF ClaimNextMutation, TypeOK, Holding
  <2>3. \A k \in Ids : state[k] # "applying"
    BY <2>2 DEF LoneInv, OneWatcher
  <2>4. m = c /\ mut'[w] = c
    BY <2>1, <2>3, <1>1 DEF TypeOK
  <2>5. runs[c] = 0
    <3>1. runs[c] \in Nat
      BY <1>1 DEF TypeOK
    <3>2. ~(runs[c] > 0)
      BY <2>1, <1>1 DEF OutcomeEarned, Resolved
    <3> QED
      BY <3>1, <3>2
  <2>6. \A k \in Ids : state'[k] = "applying" => k = c
    BY <2>1, <2>3, <1>1 DEF TypeOK
  <2>7. \A v \in Watchers : v = w
    BY DEF OneWatcher
  <2> QED
    BY <2>2, <2>4, <2>5, <2>6, <2>7 DEF LoneInv, RunsOnce
<1>3. ASSUME NEW w \in Watchers, Dispatch(w) PROVE LoneInv'
  <2>1. /\ mut[w] \in Ids /\ runs[mut[w]] = 0
        /\ runs' = [runs EXCEPT ![mut[w]] = @ + 1]
        /\ UNCHANGED <<state, mut>> /\ pc'[w] # "dispatch"
        /\ \A v \in Watchers : v = w
    BY <1>1, <1>3 DEF Dispatch, LoneInv, TypeOK, Holding, OneWatcher
  <2>2. \A k \in Ids : runs'[k] = IF k = mut[w] THEN 1 ELSE runs[k]
    BY <2>1, <1>1 DEF TypeOK
  <2>3. RunsOnce'
    BY <2>2 DEF LoneInv, RunsOnce
  <2> QED
    BY <2>1, <2>3 DEF LoneInv
<1>4. ASSUME NEW w \in Watchers, MarkApplied(w) \/ MarkFailed(w) PROVE LoneInv'
  <2>0. pc \in [Watchers -> PC] /\ mut[w] \in Ids
    BY <1>1, <1>4 DEF MarkApplied, MarkFailed, TypeOK, Holding
  <2>1. /\ mut[w] \in Ids /\ runs' = runs /\ pc'[w] # "dispatch"
        /\ \E outcome \in Resolved :
              state' = [state EXCEPT ![mut[w]] = Resolve(@, outcome)]
        /\ \A v \in Watchers : v = w
    BY <1>4, <2>0 DEF MarkApplied, MarkFailed, Resolved, OneWatcher
  <2>2. \A k \in Ids : state'[k] # "applying"
    <3> SUFFICES ASSUME NEW k \in Ids, state'[k] = "applying" PROVE FALSE
      OBVIOUS
    <3>1. CASE k = mut[w]
      BY <3>1, <2>1, <1>1 DEF Resolve, Resolved, TypeOK
    <3>2. CASE k # mut[w]
      BY <3>2, <2>1, <1>1 DEF LoneInv, TypeOK
    <3> QED BY <3>1, <3>2
  <2> QED
    BY <2>1, <2>2 DEF LoneInv, RunsOnce
<1>5. ASSUME NEW t \in Topologies, Enqueue(t) PROVE LoneInv'
  <2>1. /\ rows + 1 \in Ids /\ state' = [state EXCEPT ![rows + 1] = "pending"]
        /\ UNCHANGED <<pc, mut, runs>>
    BY <1>1, <1>5 DEF Enqueue, TypeOK
  <2>2. \A k \in Ids : state'[k] = "applying" => state[k] = "applying"
    BY <2>1, <1>1 DEF TypeOK
  <2> QED
    BY <2>1, <2>2 DEF LoneInv, RunsOnce
<1>6. ASSUME NEW t \in Topologies, DeleteTopology(t) PROVE LoneInv'
  BY <1>6 DEF DeleteTopology, DeleteRows, LoneInv, RunsOnce
<1>7. CASE UNCHANGED <<state, mut, runs, pc>>
  BY <1>7 DEF LoneInv, RunsOnce
<1>8. ASSUME NEW w \in Watchers, UNCHANGED <<state, mut, runs>>,
             \E p \in PC \ {"dispatch"} : pc' = [pc EXCEPT ![w] = p]
      PROVE  LoneInv'
  BY <1>8, <1>1 DEF LoneInv, RunsOnce, TypeOK
<1>9. \A w \in Watchers : ~Crash(w)
  BY <1>1 DEF Crash, TypeOK
<1> QED
  BY <1>2, <1>3, <1>4, <1>5, <1>6, <1>7, <1>8, <1>9
     DEF Next, QueueNext, vars, queueVars, Api, AdmitEnqueue, RejectEnqueue,
     Work, Drain, StartReconcile, NextTopology, EndReconcile, ClaimNothing,
     CheckDegrade, DegradeMissing, WriteDegraded, Restart, OtherTransition, PC

\* One watch loop executes no mutation twice as long as it has not died,
\* whatever is enqueued, torn down and deleted meanwhile.
THEOREM LoneAtMostOnce ==
    ASSUME OneWatcher
    PROVE  Spec => []AtMostOnce
<1> DEFINE CalmInv == crashes = 0 => LoneInv
<1>1. Init => CalmInv
  BY DEF Init, QueueInit, LoneInv, RunsOnce
<1>2. QueueInv /\ CalmInv /\ [Next]_vars => CalmInv'
  <2> SUFFICES ASSUME QueueInv, CalmInv, [Next]_vars, crashes' = 0 PROVE LoneInv'
    OBVIOUS
  <2>1. crashes \in Nat
    BY DEF QueueInv, TypeOK
  <2>2. \A w \in Watchers : ~Crash(w)
    BY <2>1 DEF Crash
  <2>3. crashes = 0
    BY <2>2 DEF Next, QueueNext, vars, queueVars, Api, AdmitEnqueue, Enqueue,
       RejectEnqueue, Work, Drain, StartReconcile, NextTopology, EndReconcile,
       ClaimNextMutation, ClaimNothing, Dispatch, MarkApplied, MarkFailed,
       CheckDegrade, DegradeMissing, WriteDegraded, Restart, OtherTransition,
       DeleteTopology, DeleteRows
  <2> QED
    BY <2>3, LoneInvStep
<1>3. CalmInv => AtMostOnce
  BY DEF LoneInv, RunsOnce, AtMostOnce
<1> QED
  BY <1>1, <1>2, <1>3, QueueInvariant, PTL DEF Spec

(* What crashes cost.  A crash leaves at most one row behind whose op has     *)
(* been entered and whose outcome was not written; the claim after it hands   *)
(* that row out again.                                                        *)

\* Rows whose op will be entered again although it has run: the orphans of a
\* crash, and an orphan that was claimed anew and is about to be dispatched.
Owed ==
    {m \in Ids :
        /\ runs[m] > 0
        /\ \/ /\ state[m] = "applying"
              /\ \A w \in Watchers : mut[w] = m => pc[w] = "dispatch"
           \/ \E w \in Watchers : mut[w] = m /\ pc[w] = "dispatch"}

\* The executions beyond the first that have happened or are owed.
Charged == Reruns \cup {<<m, runs[m] + 1>> : m \in Owed}

ChargedPaid == IsFiniteSet(Charged) /\ Cardinality(Charged) <= crashes

\* The set of owed rows can only shrink in a step that enters no op and that does not
\* orphan a row: then nothing more is charged.
LEMMA OwedShrinks ==
    ASSUME runs' = runs, Owed' \subseteq Owed
    PROVE  Charged' \subseteq Charged
BY DEF Charged, Reruns

\* A step that keeps the states, the rows in hand and the runs, and dispatches
\* nothing, owes nothing new.
LEMMA OwedKept ==
    ASSUME TypeOK, runs' = runs, mut' = mut,
           \A m \in Ids : state'[m] = "applying" => state[m] = "applying",
           \A w \in Watchers : pc'[w] = "dispatch" <=> pc[w] = "dispatch"
    PROVE  Owed' \subseteq Owed
BY DEF Owed

\* With one watch loop no step but a crash charges an execution.
LEMMA NothingCharged ==
    ASSUME OneWatcher, QueueInv, [Next]_vars, \A w \in Watchers : ~Crash(w)
    PROVE  Charged' \subseteq Charged
<1>1. TypeOK /\ RowsInserted /\ OutcomeEarned /\ pc \in [Watchers -> PC]
      /\ runs \in [Ids -> Nat] /\ mut \in [Watchers -> Ids \cup {NoMutation}]
      /\ state \in [Ids -> {"none", "pending", "applying", "deleted"} \cup Resolved]
  BY DEF QueueInv, TypeOK
<1>2. ASSUME NEW w \in Watchers, ClaimNextMutation(w) PROVE Owed' \subseteq Owed /\ runs' = runs
  <2>1. PICK c, m \in Ids :
        /\ state[c] = "pending"
        /\ state' = [state EXCEPT ![c] = "applying"]
        /\ mut' = [mut EXCEPT ![w] = m]
        /\ m = c \/ state[m] = "applying"
    BY <1>1, <1>2, ClaimFacts
  <2>2. /\ mut[w] = NoMutation /\ runs' = runs
        /\ pc' = [pc EXCEPT ![w] = "dispatch"]
    BY <1>1, <1>2 DEF ClaimNextMutation, TypeOK, Holding
  <2>3. \A v \in Watchers : v = w
    BY DEF OneWatcher
  <2>4. ~(runs[c] > 0)
    BY <2>1, <1>1 DEF OutcomeEarned, Resolved
  <2>5. ASSUME NEW i \in Owed' PROVE i \in Owed
    <3>1. i \in Ids /\ runs[i] > 0 /\ i # c
      BY <2>2, <2>4, <2>5 DEF Owed
    <3>2. state'[i] = state[i] /\ mut'[w] = m
      BY <2>1, <3>1, <1>1
    <3>3. state[i] = "applying"
      BY <3>1, <3>2, <2>1, <2>3, <2>5 DEF Owed
    <3>4. \A v \in Watchers : mut[v] # i
      BY <2>2, <2>3, <3>1
    <3> QED
      BY <3>1, <3>3, <3>4 DEF Owed
  <2> QED
    BY <2>2, <2>5
<1>3. ASSUME NEW w \in Watchers, Dispatch(w) PROVE Charged' \subseteq Charged
  <2>1. /\ mut[w] \in Ids /\ pc[w] = "dispatch"
        /\ runs' = [runs EXCEPT ![mut[w]] = @ + 1]
        /\ state' = state /\ mut' = mut /\ pc'[w] # "dispatch"
    BY <1>1, <1>3 DEF Dispatch, TypeOK, Holding
  <2>2. \A v \in Watchers : v = w
    BY DEF OneWatcher
  <2> DEFINE h == mut[w]
  <2>3. /\ runs'[h] = runs[h] + 1 /\ runs[h] \in Nat
        /\ \A i \in Ids : i # h => runs'[i] = runs[i]
    BY <2>1, <1>1
  <2>4. runs[h] > 0 => h \in Owed
    BY <2>1 DEF Owed
  <2>5. h \notin Owed'
    BY <2>1, <2>2 DEF Owed
  <2>6. ASSUME NEW i \in Owed' PROVE i \in Owed /\ runs'[i] = runs[i]
    BY <2>1, <2>2, <2>3, <2>5, <2>6 DEF Owed
  <2>7. ASSUME NEW x \in Reruns' PROVE x \in Charged
    <3>1. PICK i \in Ids, k \in Nat : x = <<i, k>> /\ k \in 2..runs'[i]
      BY <2>7 DEF Reruns
    <3>2. CASE k \in 2..runs[i]
      BY <3>1, <3>2 DEF Charged, Reruns
    <3>3. CASE k \notin 2..runs[i]
      <4>1. i = h
        BY <3>1, <3>3, <2>3
      <4>2. k = runs[h] + 1 /\ runs[h] > 0
        BY <4>1, <3>1, <3>3, <2>3
      <4> QED
        BY <4>1, <4>2, <3>1, <2>4 DEF Charged
    <3> QED BY <3>2, <3>3
  <2> QED
    BY <2>6, <2>7 DEF Charged
<1>4. ASSUME NEW w \in Watchers, MarkApplied(w) \/ MarkFailed(w)
      PROVE  Owed' \subseteq Owed /\ runs' = runs
  <2>0. pc[w] \in {"applied", "failed"} /\ mut[w] \in Ids
    BY <1>1, <1>4 DEF MarkApplied, MarkFailed, TypeOK, Holding
  <2>1. /\ runs' = runs /\ pc'[w] # "dispatch" /\ mut'[w] = NoMutation
        /\ \E outcome \in Resolved :
              state' = [state EXCEPT ![mut[w]] = Resolve(@, outcome)]
    BY <1>1, <1>4 DEF MarkApplied, MarkFailed, Resolved
  <2>2. \A v \in Watchers : v = w
    BY DEF OneWatcher
  <2>3. state'[mut[w]] # "applying"
    BY <2>0, <2>1, <1>1 DEF Resolve, Resolved
  <2>4. \A i \in Ids : i # mut[w] => state'[i] = state[i]
    BY <2>1, <1>1
  <2>5. ASSUME NEW i \in Owed' PROVE i \in Owed
    <3>1. i \in Ids /\ runs[i] > 0 /\ state'[i] = "applying"
      BY <2>1, <2>2, <2>5 DEF Owed
    <3>2. i # mut[w] /\ state[i] = "applying"
      BY <3>1, <2>3, <2>4
    <3> QED
      BY <3>1, <3>2, <2>2 DEF Owed
  <2> QED
    BY <2>1, <2>5
<1>5. ASSUME NEW t \in Topologies, Enqueue(t) PROVE Owed' \subseteq Owed /\ runs' = runs
  <2>1. /\ state' = [state EXCEPT ![rows + 1] = "pending"]
        /\ UNCHANGED <<pc, mut, runs>>
    BY <1>5 DEF Enqueue
  <2>2. \A k \in Ids : state'[k] = "applying" => state[k] = "applying"
    BY <2>1, <1>1
  <2> QED
    BY <2>1, <2>2, <1>1, OwedKept
<1>6. ASSUME NEW t \in Topologies, DeleteTopology(t) PROVE Owed' \subseteq Owed /\ runs' = runs
  <2>1. /\ UNCHANGED <<pc, mut, runs>>
        /\ \A k \in Ids : state'[k] = "applying" => state[k] = "applying"
    BY <1>6 DEF DeleteTopology, DeleteRows
  <2> QED
    BY <2>1, <1>1, OwedKept
<1>7. CASE UNCHANGED <<state, mut, runs, pc>>
  BY <1>7, <1>1, OwedShrinks, OwedKept
<1>8. ASSUME NEW w \in Watchers, UNCHANGED <<state, mut, runs>>, pc[w] # "dispatch",
             \E p \in PC \ {"dispatch"} : pc' = [pc EXCEPT ![w] = p]
      PROVE  Charged' \subseteq Charged
  <2>1. \A v \in Watchers : pc'[v] = "dispatch" <=> pc[v] = "dispatch"
    BY <1>8, <1>1
  <2> QED
    BY <2>1, <1>1, <1>8, OwedShrinks, OwedKept
<1> QED
  BY <1>2, <1>3, <1>4, <1>5, <1>6, <1>7, <1>8, OwedShrinks
     DEF Next, QueueNext, vars, queueVars, Api, AdmitEnqueue, RejectEnqueue,
     Work, Drain, StartReconcile, NextTopology, EndReconcile, ClaimNothing,
     CheckDegrade, DegradeMissing, WriteDegraded, Restart, OtherTransition, PC

\* A crash of the only watch loop charges at most one execution: that of the
\* row it had in hand.
LEMMA CrashCharged ==
    ASSUME OneWatcher, QueueInv, NEW w \in Watchers, Crash(w)
    PROVE  Charged' \subseteq Charged \cup {<<mut[w], runs[mut[w]] + 1>>}
<1>1. /\ runs' = runs /\ state' = state /\ mut'[w] = NoMutation /\ pc'[w] = "down"
  BY DEF Crash, QueueInv, TypeOK
<1>2. \A v \in Watchers : v = w
  BY DEF OneWatcher
<1>3. ASSUME NEW i \in Owed', i # mut[w] PROVE i \in Owed
  BY <1>1, <1>2, <1>3 DEF Owed
<1>4. Reruns' = Reruns
  BY <1>1 DEF Reruns
<1> QED
  BY <1>1, <1>3, <1>4 DEF Charged

\* The executions beyond the first, done or owed, are at most the crashes.
LEMMA ChargedPaidStep ==
    ASSUME OneWatcher, QueueInv, ChargedPaid, [Next]_vars
    PROVE  ChargedPaid'
<1>1. crashes \in Nat
  BY DEF QueueInv, TypeOK
<1>2. Cardinality(Charged) \in Nat
  BY FS_CardinalityType DEF ChargedPaid
<1>3. CASE \E w \in Watchers : Crash(w)
  <2>1. PICK w \in Watchers : Crash(w)
    BY <1>3
  <2>2. PICK x : x = <<mut[w], runs[mut[w]] + 1>>
    OBVIOUS
  <2>3. Charged' \subseteq Charged \cup {x} /\ crashes' = crashes + 1
    BY <2>1, <2>2, CrashCharged DEF Crash
  <2>4. IsFiniteSet(Charged \cup {x}) /\ Cardinality(Charged \cup {x}) <= Cardinality(Charged) + 1
    BY <1>2, FS_AddElement DEF ChargedPaid
  <2>5. IsFiniteSet(Charged') /\ Cardinality(Charged') <= Cardinality(Charged \cup {x})
    BY <2>3, <2>4, FS_Subset
  <2>6. Cardinality(Charged \cup {x}) \in Nat /\ Cardinality(Charged') \in Nat
    BY <2>4, <2>5, FS_CardinalityType
  <2> QED
    BY <1>1, <1>2, <2>3, <2>4, <2>5, <2>6 DEF ChargedPaid
<1>4. CASE \A w \in Watchers : ~Crash(w)
  <2>1. Charged' \subseteq Charged
    BY <1>4, NothingCharged
  <2>2. crashes' = crashes
    BY <1>4 DEF Next, QueueNext, vars, queueVars, Api, AdmitEnqueue, Enqueue,
       RejectEnqueue, Work, Drain, StartReconcile, NextTopology, EndReconcile,
       ClaimNextMutation, ClaimNothing, Dispatch, MarkApplied, MarkFailed,
       CheckDegrade, DegradeMissing, WriteDegraded, Restart, OtherTransition,
       DeleteTopology, DeleteRows
  <2>3. IsFiniteSet(Charged') /\ Cardinality(Charged') <= Cardinality(Charged)
    BY <2>1, FS_Subset DEF ChargedPaid
  <2>4. Cardinality(Charged') \in Nat
    BY <2>3, FS_CardinalityType
  <2> QED
    BY <1>1, <1>2, <2>2, <2>3, <2>4 DEF ChargedPaid
<1> QED
  BY <1>3, <1>4

\* With one watch loop every execution of a mutation beyond its first is paid
\* for by a crash of that loop: however often it dies and whatever is
\* enqueued, torn down and deleted meanwhile, the executions beyond the first,
\* over all rows, never exceed the crashes.
THEOREM LoneRerunsPaid ==
    ASSUME OneWatcher
    PROVE  Spec => []RerunsPaidByCrashes
<1>1. ASSUME Init PROVE ChargedPaid
  <2>1. Charged = {} /\ crashes = 0
    BY <1>1 DEF Init, QueueInit, Charged, Reruns, Owed
  <2> QED
    BY <2>1, FS_EmptySet DEF ChargedPaid
<1>2. QueueInv /\ ChargedPaid /\ [Next]_vars => ChargedPaid'
  BY ChargedPaidStep
<1>3. ASSUME QueueInv, ChargedPaid PROVE RerunsPaidByCrashes
  <2>1. Reruns \subseteq Charged /\ crashes \in Nat
    BY <1>3 DEF Charged, QueueInv, TypeOK
  <2>2. IsFiniteSet(Reruns) /\ Cardinality(Reruns) <= Cardinality(Charged)
    BY <1>3, <2>1, FS_Subset DEF ChargedPaid
  <2>3. Cardinality(Reruns) \in Nat /\ Cardinality(Charged) \in Nat
    BY <1>3, <2>2, FS_CardinalityType DEF ChargedPaid
  <2> QED
    BY <1>3, <2>1, <2>2, <2>3 DEF ChargedPaid, RerunsPaidByCrashes
<1> QED
  BY <1>1, <1>2, <1>3, QueueInvariant, PTL DEF Spec
=============================================================================
