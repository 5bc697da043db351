---------------------------- MODULE MutationQueue ---------------------------
(***************************************************************************)
(* The live-mutation queue of MazeNET: the API enqueues rows of            *)
(* topology_mutations, and mutator watch loops claim, run and resolve them *)
(* (decnet/mutator/engine.py reconcile_topologies,                         *)
(* decnet/web/db/sqlmodel_repo/topology/mutations.py).                     *)
(*                                                                         *)
(* A mutation id is its rank in requested_at order.  A database session is *)
(* one step; every await between two sessions is a place where another     *)
(* process may run or where the watcher's process may die.  The payload    *)
(* and the effect of an op are left out: dispatch runs it and it either    *)
(* returns or raises.                                                      *)
(***************************************************************************)
EXTENDS Integers, FiniteSets, TopologyStatus

CONSTANTS Topologies,     \* ids of the topologies
          Watchers,       \* run_watch_loop processes
          MaxMutations,   \* bound: rows ever inserted
          MaxCrashes      \* bound: watcher processes that die

ASSUME MutationQueueAssumption ==
    /\ Topologies # {}
    /\ MaxMutations \in Nat
    /\ MaxCrashes \in Nat

VARIABLES
    status,       \* topologies.status, or Absent when there is no row
    admitted,     \* enqueue requests that passed the status check of the API
    rows,         \* number of rows inserted so far
    topology_id,  \* topology_mutations.topology_id of each row
    state,        \* topology_mutations.state of each row ("none": not
                  \* inserted yet, "deleted": gone with its topology)
    pc,           \* where each watcher is
    todo,         \* the snapshot of live ids a watcher still has to visit
    tid,          \* the topology a watcher is draining
    mut,          \* the row claim_next_mutation returned to it
    runs,         \* history: how often dispatch was entered for each row
    crashes       \* history: watcher processes that died

queueVars == <<admitted, rows, topology_id, state, pc, todo, tid, mut, runs, crashes>>
vars == <<status, queueVars>>

Ids == 1..MaxMutations
NoMutation == 0
AnyTopology == CHOOSE t \in Topologies : TRUE

QueueInit ==
    /\ admitted = [t \in Topologies |-> 0]
    /\ rows = 0
    /\ topology_id = [m \in Ids |-> AnyTopology]
    /\ state = [m \in Ids |-> "none"]
    /\ pc = [w \in Watchers |-> "idle"]
    /\ todo = [w \in Watchers |-> {}]
    /\ tid = [w \in Watchers |-> AnyTopology]
    /\ mut = [w \in Watchers |-> NoMutation]
    /\ runs = [m \in Ids |-> 0]
    /\ crashes = 0

\* Topologies that have been deployed, an empty queue, idle watchers.
Init == status \in [Topologies -> LiveStatuses] /\ QueueInit

RowsOf(t, s) == {m \in Ids : topology_id[m] = t /\ state[m] = s}
IsOldest(m, S) == m \in S /\ \A k \in S : m <= k

-----------------------------------------------------------------------------
(* The API: POST /topologies/{id}/mutations *)

\* get_topology_or_404 and the _MUTATABLE check, in a session of their own.
AdmitEnqueue(t) ==
    /\ status[t] \in LiveStatuses
    /\ rows + admitted[t] < MaxMutations
    /\ admitted' = [admitted EXCEPT ![t] = @ + 1]
    /\ UNCHANGED <<status, rows, topology_id, state, pc, todo, tid, mut, runs, crashes>>

\* enqueue_topology_mutation: the row is inserted as pending, without a second
\* look at the status.
Enqueue(t) ==
    /\ admitted[t] > 0
    /\ rows < MaxMutations
    /\ admitted' = [admitted EXCEPT ![t] = @ - 1]
    /\ rows' = rows + 1
    /\ topology_id' = [topology_id EXCEPT ![rows + 1] = t]
    /\ state' = [state EXCEPT ![rows + 1] = "pending"]
    /\ UNCHANGED <<status, pc, todo, tid, mut, runs, crashes>>

\* enqueue_topology_mutation raises: a stale expected_version
\* (VersionConflict), or a topology deleted since the check (ValueError).
RejectEnqueue(t) ==
    /\ admitted[t] > 0
    /\ admitted' = [admitted EXCEPT ![t] = @ - 1]
    /\ UNCHANGED <<status, rows, topology_id, state, pc, todo, tid, mut, runs, crashes>>

-----------------------------------------------------------------------------
(* A watch loop: run_watch_loop and reconcile_topologies *)

\* Faulty variant: the snapshot forgets degraded topologies.
StartReconcile_ActiveOnly(w) ==
    /\ pc[w] = "idle"
    /\ \E m \in Ids : state[m] = "pending" /\ status[topology_id[m]] \in LiveStatuses
    /\ todo' = [todo EXCEPT ![w] = {t \in Topologies : status[t] = "active"}]
    /\ pc' = [pc EXCEPT ![w] = "next"]
    /\ UNCHANGED <<status, admitted, rows, topology_id, state, tid, mut, runs, crashes>>

\* has_pending_topology_mutation, then list_live_topology_ids.
StartReconcile(w) ==
    /\ pc[w] = "idle"
    /\ \E m \in Ids : state[m] = "pending" /\ status[topology_id[m]] \in LiveStatuses
    /\ todo' = [todo EXCEPT ![w] = {t \in Topologies : status[t] \in LiveStatuses}]
    /\ pc' = [pc EXCEPT ![w] = "next"]
    /\ UNCHANGED <<status, admitted, rows, topology_id, state, tid, mut, runs, crashes>>

\* The for loop over the snapshot; the order of the ids is the database's.
NextTopology(w) ==
    /\ pc[w] = "next"
    /\ \E t \in todo[w] :
         /\ tid' = [tid EXCEPT ![w] = t]
         /\ todo' = [todo EXCEPT ![w] = @ \ {t}]
    /\ pc' = [pc EXCEPT ![w] = "claim"]
    /\ UNCHANGED <<status, admitted, rows, topology_id, state, mut, runs, crashes>>

EndReconcile(w) ==
    /\ pc[w] = "next"
    /\ todo[w] = {}
    /\ pc' = [pc EXCEPT ![w] = "idle"]
    /\ UNCHANGED <<status, admitted, rows, topology_id, state, todo, tid, mut, runs, crashes>>

\* Faulty variant: ORDER BY requested_at DESC in the UPDATE.
ClaimNextMutation_Newest(w) ==
    /\ pc[w] = "claim"
    /\ \E c \in RowsOf(tid[w], "pending") :
         /\ \A k \in RowsOf(tid[w], "pending") : k <= c
         /\ state' = [state EXCEPT ![c] = "applying"]
         /\ mut' = [mut EXCEPT ![w] = c]
    /\ pc' = [pc EXCEPT ![w] = "dispatch"]
    /\ UNCHANGED <<status, admitted, rows, topology_id, todo, tid, runs, crashes>>

\* claim_next_mutation: one UPDATE moves the oldest pending row to applying;
\* the SELECT that follows in the same transaction returns the oldest
\* applying row of the topology.
ClaimNextMutation(w) ==
    /\ pc[w] = "claim"
    /\ \E c \in RowsOf(tid[w], "pending") :
         /\ IsOldest(c, RowsOf(tid[w], "pending"))
         /\ state' = [state EXCEPT ![c] = "applying"]
         /\ \E m \in RowsOf(tid[w], "applying") \cup {c} :
              /\ IsOldest(m, RowsOf(tid[w], "applying") \cup {c})
              /\ mut' = [mut EXCEPT ![w] = m]
    /\ pc' = [pc EXCEPT ![w] = "dispatch"]
    /\ UNCHANGED <<status, admitted, rows, topology_id, todo, tid, runs, crashes>>

\* claim_next_mutation returns None: no more work for this topology.
ClaimNothing(w) ==
    /\ pc[w] = "claim"
    /\ RowsOf(tid[w], "pending") = {}
    /\ pc' = [pc EXCEPT ![w] = "next"]
    /\ UNCHANGED <<status, admitted, rows, topology_id, state, todo, tid, mut, runs, crashes>>

\* dispatch(repo, tid, op, payload): apply_<op> is entered; it will return
\* ("applied") or raise ("failed").
Dispatch(w) ==
    /\ pc[w] = "dispatch"
    /\ runs' = [runs EXCEPT ![mut[w]] = @ + 1]
    /\ \E outcome \in {"applied", "failed"} : pc' = [pc EXCEPT ![w] = outcome]
    /\ UNCHANGED <<status, admitted, rows, topology_id, state, todo, tid, mut, crashes>>

\* Faulty variant: a state the column does not know.
Resolve_Unknown(current, outcome) == "done"

\* UPDATE topology_mutations SET state = outcome WHERE id = mut: whatever the
\* row's state is, and no row at all if the topology was deleted meanwhile.
Resolve(current, outcome) == IF current = "deleted" THEN "deleted" ELSE outcome

\* mark_mutation_applied, then round the while loop.
MarkApplied(w) ==
    /\ pc[w] = "applied"
    /\ state' = [state EXCEPT ![mut[w]] = Resolve(@, "applied")]
    /\ mut' = [mut EXCEPT ![w] = NoMutation]
    /\ pc' = [pc EXCEPT ![w] = "claim"]
    /\ UNCHANGED <<status, admitted, rows, topology_id, todo, tid, runs, crashes>>

\* Faulty variant: the UPDATE selects by topology instead of by id.
MarkFailed_WholeTopology(w) ==
    /\ pc[w] = "failed"
    /\ state' = [m \in Ids |-> IF topology_id[m] = tid[w] /\ state[m] # "none"
                               THEN "failed" ELSE state[m]]
    /\ mut' = [mut EXCEPT ![w] = NoMutation]
    /\ pc' = [pc EXCEPT ![w] = "degrade"]
    /\ UNCHANGED <<status, admitted, rows, topology_id, todo, tid, runs, crashes>>

\* Faulty variant: a failed op is put back in the queue.
MarkFailed_Requeue(w) ==
    /\ pc[w] = "failed"
    /\ state' = [state EXCEPT ![mut[w]] = Resolve(@, "pending")]
    /\ mut' = [mut EXCEPT ![w] = NoMutation]
    /\ pc' = [pc EXCEPT ![w] = "degrade"]
    /\ UNCHANGED <<status, admitted, rows, topology_id, todo, tid, runs, crashes>>

\* Faulty variant: the except branch writes no outcome.
MarkFailed_Unwritten(w) ==
    /\ pc[w] = "failed"
    /\ mut' = [mut EXCEPT ![w] = NoMutation]
    /\ pc' = [pc EXCEPT ![w] = "degrade"]
    /\ UNCHANGED <<status, admitted, rows, topology_id, state, todo, tid, runs, crashes>>

\* mark_mutation_failed, in the except branch.
MarkFailed(w) ==
    /\ pc[w] = "failed"
    /\ state' = [state EXCEPT ![mut[w]] = Resolve(@, "failed")]
    /\ mut' = [mut EXCEPT ![w] = NoMutation]
    /\ pc' = [pc EXCEPT ![w] = "degrade"]
    /\ UNCHANGED <<status, admitted, rows, topology_id, todo, tid, runs, crashes>>

\* Faulty variant: the failure is recorded but the topology is not degraded.
CheckDegrade_Skip(w) ==
    /\ pc[w] = "degrade"
    /\ pc' = [pc EXCEPT ![w] = "next"]
    /\ UNCHANGED <<status, admitted, rows, topology_id, state, todo, tid, mut, runs, crashes>>

\* transition_status(DEGRADED), first half: the status is read and the
\* transition asserted.  TopologyStatusError is swallowed and draining of
\* this topology stops.
CheckDegrade(w) ==
    /\ pc[w] = "degrade"
    /\ status[tid[w]] # Absent
    /\ pc' = [pc EXCEPT ![w] = IF assert_transition(status[tid[w]], "degraded")
                               THEN "write_degraded" ELSE "next"]
    /\ UNCHANGED <<status, admitted, rows, topology_id, state, todo, tid, mut, runs, crashes>>

\* transition_status on a row that is gone raises ValueError, which nothing
\* catches: the watch loop ends with the process.
DegradeMissing(w) ==
    /\ pc[w] = "degrade"
    /\ status[tid[w]] = Absent
    /\ pc' = [pc EXCEPT ![w] = "down"]
    /\ todo' = [todo EXCEPT ![w] = {}]
    /\ UNCHANGED <<status, admitted, rows, topology_id, state, tid, mut, runs, crashes>>

\* transition_status(DEGRADED), second half: update_topology_status writes
\* whatever the row holds now (nothing when the row is gone); then break.
WriteDegraded(w) ==
    /\ pc[w] = "write_degraded"
    /\ status' = [status EXCEPT ![tid[w]] = IF @ = Absent THEN Absent ELSE "degraded"]
    /\ pc' = [pc EXCEPT ![w] = "next"]
    /\ UNCHANGED <<admitted, rows, topology_id, state, todo, tid, mut, runs, crashes>>

\* The process dies between two sessions, or a database call raises out of
\* reconcile_topologies.
Crash(w) ==
    /\ pc[w] # "down"
    /\ crashes < MaxCrashes
    /\ crashes' = crashes + 1
    /\ pc' = [pc EXCEPT ![w] = "down"]
    /\ todo' = [todo EXCEPT ![w] = {}]
    /\ mut' = [mut EXCEPT ![w] = NoMutation]
    /\ UNCHANGED <<status, admitted, rows, topology_id, state, tid, runs>>

\* The supervisor starts the watch loop again: nothing is recovered, rows in
\* state applying stay as they are.
Restart(w) ==
    /\ pc[w] = "down"
    /\ pc' = [pc EXCEPT ![w] = "idle"]
    /\ UNCHANGED <<status, admitted, rows, topology_id, state, todo, tid, mut, runs, crashes>>

-----------------------------------------------------------------------------
(* The deployer and the delete endpoint, as far as the queue sees them *)

\* A legal status transition of a topology, made by another process.
OtherTransition(t) ==
    /\ \E s \in legal_next(status[t]) : status' = [status EXCEPT ![t] = s]
    /\ UNCHANGED queueVars

\* DELETE FROM topology_mutations WHERE topology_id = t.
DeleteRows(t) ==
    /\ state' = [m \in Ids |-> IF topology_id[m] = t /\ state[m] # "none"
                               THEN "deleted" ELSE state[m]]
    /\ UNCHANGED <<admitted, rows, topology_id, pc, todo, tid, mut, runs, crashes>>

\* delete_topology_cascade on a topology the API lets go: its mutation rows
\* go with it.
DeleteTopology(t) ==
    /\ status[t] \in Deletable
    /\ status' = [status EXCEPT ![t] = Absent]
    /\ DeleteRows(t)

Drain(w) ==
    \/ StartReconcile(w) \/ NextTopology(w) \/ EndReconcile(w)
    \/ ClaimNextMutation(w) \/ ClaimNothing(w)
    \/ Dispatch(w) \/ MarkApplied(w) \/ MarkFailed(w)
    \/ CheckDegrade(w) \/ DegradeMissing(w)

Work(w) == Drain(w) \/ WriteDegraded(w)

Api(t) == AdmitEnqueue(t) \/ Enqueue(t) \/ RejectEnqueue(t)

QueueNext ==
    \/ \E t \in Topologies : Api(t)
    \/ \E w \in Watchers : Work(w) \/ Crash(w) \/ Restart(w)

Next ==
    \/ QueueNext
    \/ \E t \in Topologies : OtherTransition(t) \/ DeleteTopology(t)

\* The loop of a live process keeps running: poll_interval_secs bounds every
\* sleep.  The supervisor restarts a dead one.  Operators owe nothing.
Fairness == \A w \in Watchers : WF_vars(Work(w)) /\ WF_vars(Restart(w))

Spec == Init /\ [][Next]_vars /\ Fairness

-----------------------------------------------------------------------------
(* Properties *)

PC == {"idle", "next", "claim", "dispatch", "applied", "failed", "degrade",
       "write_degraded", "down"}

\* A watcher whose pc is here has a row in hand.
Holding == {"dispatch", "applied", "failed"}

Resolved == {"applied", "failed"}

\* Type correctness of the tables and of the watchers' local variables; a
\* watcher between claim_next_mutation and mark_mutation_* has a row in hand
\* and no other watcher has one.
TypeOK ==
    /\ status \in [Topologies -> ALL \cup {Absent}]
    /\ admitted \in [Topologies -> Nat]
    /\ rows \in 0..MaxMutations
    /\ topology_id \in [Ids -> Topologies]
    /\ state \in [Ids -> {"none", "pending", "applying", "deleted"} \cup Resolved]
    /\ pc \in [Watchers -> PC]
    /\ todo \in [Watchers -> SUBSET Topologies]
    /\ tid \in [Watchers -> Topologies]
    /\ mut \in [Watchers -> Ids \cup {NoMutation}]
    /\ runs \in [Ids -> Nat]
    /\ crashes \in 0..MaxCrashes
    /\ \A w \in Watchers : (mut[w] # NoMutation) <=> (pc[w] \in Holding)

\* claim_next_mutation hands out rows in requested_at order: while a row is
\* pending, no younger row of its topology has been claimed by any watcher,
\* whatever crashed in between.
ClaimsInOrder ==
    \A m, k \in Ids :
        /\ m < k
        /\ topology_id[m] = topology_id[k]
        /\ state[m] = "pending"
        => state[k] \in {"none", "pending", "deleted"}

\* The row a claim returns is the oldest unresolved row of the topology, even
\* when it is not the row the UPDATE moved: ops take effect in the order in
\* which they were requested.
OldestUnresolvedFirst ==
    [][\A w \in Watchers :
         mut[w] = NoMutation /\ mut'[w] # NoMutation
         => \A k \in Ids :
              k < mut'[w] /\ topology_id[k] = topology_id[mut'[w]]
              => state'[k] \in Resolved \cup {"deleted"}]_vars

\* No op runs for a row that nobody claimed, and no row is reported applied
\* or failed unless its op was entered: the outcome an operator sees was
\* earned by a run of that very row.
OutcomeEarned ==
    \A m \in Ids :
        /\ runs[m] > 0 => state[m] \in {"applying", "deleted"} \cup Resolved
        /\ state[m] \in Resolved => runs[m] > 0

\* "Correctness-critical" (claim_next_mutation's docstring, mutations.py:52-55):
\* as long as no watch loop died, no op is executed twice.
AtMostOnce == crashes = 0 => \A m \in Ids : runs[m] <= 1

\* The executions beyond the first: <<m, k>> is the k-th execution of row m.
Reruns == UNION {{m} \X (2..runs[m]) : m \in Ids}

\* With one watch loop a mutation is executed again only because the process
\* died while it ran: the executions beyond the first, over all rows, are at
\* most the crashes.
RerunsPaidByCrashes == Cardinality(Reruns) <= crashes

\* A reported outcome is final once no watch loop has the row in hand, which
\* with one loop is as soon as it is written: no loop overwrites it and none
\* takes the row again.  The UPDATEs of mark_mutation_applied and
\* mark_mutation_failed have no condition on the state, so two loops that run
\* the same row (AtMostOnce) do overwrite each other's outcome.
OutcomeFinal ==
    [][\A m \in Ids :
          state[m] \in Resolved /\ (\A w \in Watchers : mut[w] # m) =>
              state'[m] \in {state[m], "deleted"} /\ \A w \in Watchers : mut'[w] # m]_vars

\* Every pending row of a topology that stays live is claimed, although
\* draining stops at the first failed op and although processes die.
PendingClaimed ==
    \A m \in Ids : state[m] = "pending"
                   ~> (state[m] # "pending" \/ status[topology_id[m]] \notin LiveStatuses)

\* Every claimed row gets an outcome as long as no watch loop dies: the
\* reconciler "applies them against Docker, and writes applied or failed back"
\* (models/topology.py:175-176).
ClaimedResolved ==
    \A m \in Ids : state[m] = "applying" ~> (state[m] # "applying" \/ crashes > 0)
=============================================================================
