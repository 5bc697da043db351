--------------------------- MODULE DeckyLifecycle ---------------------------
(***************************************************************************)
(* The lifecycle rows behind POST /deckies/deploy and /deckies/../mutate:  *)
(* decnet/lifecycle (runner and strategies), the decky_lifecycle table,    *)
(* the agent's deploy_async and mutate_async with push_lifecycle_delta,    *)
(* and the heartbeat handler that turns a delta into a row's last status.  *)
(*                                                                         *)
(* A request creates rows and a task of the API process, named after its   *)
(* first row.  Without a swarm host the work is done in a thread of the    *)
(* API.  With one (the model has at most one) it is a job of the agent     *)
(* there, which answers 202 at once and, when it is done, pushes a delta   *)
(* to the heartbeat endpoint for every decky of the configuration it got:  *)
(* the request's own deckies and, unless the request replaces the fleet,   *)
(* those that were there before.  That endpoint is served by another       *)
(* process than the API.  Each database call of the tasks and the handler  *)
(* and each HTTP exchange ends a step; a request's own calls are one step, *)
(* which may miss deckies that another request commits during it.          *)
(***************************************************************************)
EXTENDS Integers, Sequences, FiniteSets

CONSTANTS Deckies,          \* names of the deckies
          MaxRows,          \* bound: lifecycle rows
          MaxNetFaults,     \* bound: dispatches that raise
          MaxDrops,         \* bound: pushes that fail and database calls that raise
          MaxCrashes        \* bound: deaths of the API or of the agent

ASSUME DeckyLifecycleAssumption ==
    {MaxRows, MaxNetFaults, MaxDrops, MaxCrashes} \subseteq Nat

Rows == 1..MaxRows
Operations == {"deploy", "mutate"}
Terminal == {"succeeded", "failed"}
Open == {"pending", "running"}

VARIABLES
    swarm,      \* an active swarm host is enrolled
    fleet,      \* the deckies of the fleet_deckies table
    rows,       \* rows created so far
    kind,       \* decky_name and operation of each row
    owner,      \* the task of each row
    sent,       \* the deckies of each task's configuration
    status,     \* decky_lifecycle.status
    pc,         \* where each task is
    todo,       \* rows the task has still to update
    work,       \* the deploy or mutate of each task, wherever it runs
    deltas,     \* deckies whose deltas the heartbeat handler has still to look up
    found,      \* the row find_open_lifecycle returned to it, or 0
    faults, drops, crashes,
    disturbed   \* history: requests overlapped, or a dispatch raised after the
                \* agent had accepted it

boundVars == <<faults, drops, crashes, disturbed>>
rowVars == <<swarm, fleet, rows, kind, owner, sent>>
vars == <<rowVars, status, pc, todo, work, deltas, found, boundVars>>

RowsOf(t) == {r \in 1..rows : owner[r] = t}
First(S) == CHOOSE r \in S : \A q \in S : r <= q
Latest(S) == CHOOSE r \in S : \A q \in S : q <= r

NoKind == [decky |-> "none", op |-> "none"]
Kinds == [decky : Deckies, op : Operations]

Init ==
    /\ swarm \in BOOLEAN /\ fleet = {} /\ rows = 0
    /\ kind = [r \in Rows |-> NoKind]
    /\ owner = [r \in Rows |-> 0]
    /\ sent = [t \in Rows |-> {}]
    /\ status = [r \in Rows |-> "pending"]
    /\ pc = [t \in Rows |-> "none"]
    /\ todo = [t \in Rows |-> {}]
    /\ work = [t \in Rows |-> "none"]
    /\ deltas = [t \in Rows |-> {}]
    /\ found = [t \in Rows |-> 0]
    /\ faults = 0 /\ drops = 0 /\ crashes = 0 /\ disturbed = FALSE

-----------------------------------------------------------------------------
(* The API: create the rows, then the task *)

\* The new deckies of a request: one, or for a deploy two.
Batches(op) ==
    {<<d>> : d \in Deckies} \cup
    {b \in Deckies \X Deckies : op = "deploy" /\ b[1] # b[2]}

OpenRows(k) == {r \in 1..rows : kind[r] = k /\ status[r] \in Open}

\* The attempt of task t is not over: the task, the agent's job, or the handler
\* of its deltas still has something to do.
Unfinished(t) ==
    \/ pc[t] \notin {"none", "done"} \/ work[t] = "running"
    \/ deltas[t] # {} \/ found[t] # 0

\* A new request meets an earlier one: an open row of its deckies, or an attempt
\* with one of its deckies that is not over.
Overlaps(op, config) ==
    \/ \E r \in 1..rows : /\ kind[r].op = op /\ kind[r].decky \in config
                          /\ status[r] \in Open
    \/ \E t \in 1..rows : /\ kind[t].op = op /\ sent[t] \cap config # {}
                          /\ Unfinished(t)

\* create_lifecycle for each of the new deckies, then create_task.
NewTask(names, op, config) ==
    LET t == rows + 1
        last == rows + Len(names) IN
    /\ last <= MaxRows
    /\ disturbed' = (disturbed \/ Overlaps(op, config))
    /\ rows' = last
    /\ kind' = [r \in Rows |-> IF r \in t..last THEN [decky |-> names[r - rows], op |-> op]
                                               ELSE kind[r]]
    /\ owner' = [r \in Rows |-> IF r \in t..last THEN t ELSE owner[r]]
    /\ sent' = [sent EXCEPT ![t] = config]
    /\ pc' = [pc EXCEPT ![t] = "mark"]
    /\ todo' = [todo EXCEPT ![t] = t..last]
    /\ UNCHANGED <<swarm, status, work, deltas, found, faults, drops, crashes>>

\* POST /deckies/deploy.  With replace_fleet the new deckies are the fleet, else
\* they join it and a name that is there is refused.  Deckies that another
\* request commits after this one has read the table are not seen.
Deploy(names, replace) ==
    LET new == {names[i] : i \in 1..Len(names)} IN
    \E seen \in IF replace THEN {{}} ELSE SUBSET fleet :
        /\ new \cap seen = {}
        /\ fleet' = IF replace THEN new ELSE fleet \cup new
        /\ NewTask(names, "deploy", new \cup seen)

\* POST /deckies/{name}/mutate.
Mutate(d) ==
    /\ d \in fleet
    /\ UNCHANGED fleet
    /\ NewTask(<<d>>, "mutate", {d})

-----------------------------------------------------------------------------
(* The strategies *)

\* One row of the phase: update_lifecycle, whatever the row's status is by now.
Update(t, new, next) ==
    LET r == First(todo[t]) IN
    /\ status' = [status EXCEPT ![r] = new]
    /\ todo' = [todo EXCEPT ![t] = @ \ {r}]
    /\ pc' = IF todo[t] = {r} THEN [pc EXCEPT ![t] = next] ELSE pc
    /\ UNCHANGED <<rowVars, work, deltas, found, boundVars>>

\* _mark_running for every row, then the work or the dispatch.
MarkRunning(t) ==
    /\ pc[t] = "mark"
    /\ Update(t, "running", IF ~swarm THEN "work" ELSE "dispatch")

\* LocalDeployStrategy and LocalMutateStrategy: compose up in a thread.
LocalWork(t) ==
    /\ pc[t] = "work"
    /\ \E outcome \in Terminal :
         /\ work' = [work EXCEPT ![t] = outcome]
         /\ pc' = [pc EXCEPT ![t] = outcome]
    /\ todo' = [todo EXCEPT ![t] = RowsOf(t)]
    /\ UNCHANGED <<rowVars, status, deltas, found, boundVars>>

\* Faulty variant: only the first row of a batch is sealed.
Seal_FirstOnly(t) ==
    /\ pc[t] \in Terminal
    /\ status' = [status EXCEPT ![First(todo[t])] = pc[t]]
    /\ todo' = [todo EXCEPT ![t] = {}]
    /\ pc' = [pc EXCEPT ![t] = "done"]
    /\ UNCHANGED <<rowVars, work, deltas, found, boundVars>>

\* _mark_succeeded or _mark_failed for every row of the task.
Seal(t) ==
    /\ pc[t] \in Terminal
    /\ Update(t, pc[t], "done")

\* AgentClient.deploy or .mutate reaches the agent, which starts its job.
AgentAccepts(t) ==
    /\ pc[t] = "dispatch"
    /\ pc' = [pc EXCEPT ![t] = "await_202"]
    /\ work' = [work EXCEPT ![t] = "running"]
    /\ UNCHANGED <<rowVars, status, todo, deltas, found, boundVars>>

\* The 202 arrives: the rows stay running, the worker drives their end.
Accepted(t) ==
    /\ pc[t] = "await_202"
    /\ pc' = [pc EXCEPT ![t] = "done"]
    /\ UNCHANGED <<rowVars, status, todo, work, deltas, found, boundVars>>

\* The dispatch raises, before or after the agent accepted it (a timeout).
DispatchRaises(t) ==
    /\ pc[t] \in {"dispatch", "await_202"}
    /\ faults < MaxNetFaults
    /\ disturbed' = (disturbed \/ pc[t] = "await_202")
    /\ faults' = faults + 1
    /\ pc' = [pc EXCEPT ![t] = "failed"]
    /\ todo' = [todo EXCEPT ![t] = RowsOf(t)]
    /\ UNCHANGED <<rowVars, status, work, deltas, found, drops, crashes>>

\* update_lifecycle raises in a _mark_*: run_deploy or run_mutate logs it and the
\* task is over, whatever rows it leaves open.
TaskRaises(t) ==
    /\ pc[t] \in {"mark"} \cup Terminal
    /\ drops < MaxDrops
    /\ drops' = drops + 1
    /\ pc' = [pc EXCEPT ![t] = "done"]
    /\ todo' = [todo EXCEPT ![t] = {}]
    /\ UNCHANGED <<rowVars, status, work, deltas, found, faults, crashes, disturbed>>

-----------------------------------------------------------------------------
(* The agent: deploy_async, mutate_async, push_lifecycle_delta *)

\* The job ends and a delta of each decky of its configuration, all with the one
\* outcome, reaches the heartbeat endpoint, or the push fails, which is logged
\* and forgotten.
AgentFinishes(t) ==
    /\ work[t] = "running" /\ swarm
    /\ \E outcome \in Terminal : work' = [work EXCEPT ![t] = outcome]
    /\ \/ deltas' = [deltas EXCEPT ![t] = sent[t]] /\ UNCHANGED drops
       \/ drops < MaxDrops /\ drops' = drops + 1 /\ UNCHANGED deltas
    /\ UNCHANGED <<rowVars, status, pc, todo, found, faults, crashes, disturbed>>

-----------------------------------------------------------------------------
(* The heartbeat handler: _apply_lifecycle_deltas *)

\* Faulty variant: the look-up forgets the operation.
FindOpen_AnyOperation(t) ==
    /\ found[t] = 0
    /\ \E d \in deltas[t] :
         LET open == {r \in 1..rows : kind[r].decky = d /\ status[r] \in Open} IN
         /\ deltas' = [deltas EXCEPT ![t] = @ \ {d}]
         /\ found' = IF open = {} THEN found ELSE [found EXCEPT ![t] = Latest(open)]
    /\ UNCHANGED <<rowVars, status, pc, todo, work, boundVars>>

\* find_open_lifecycle: the most recently started open row of the decky and the
\* operation; without one the delta is dropped.
FindOpen(t) ==
    /\ found[t] = 0
    /\ \E d \in deltas[t] :
         LET open == OpenRows([decky |-> d, op |-> kind[t].op]) IN
         /\ deltas' = [deltas EXCEPT ![t] = @ \ {d}]
         /\ found' = IF open = {} THEN found ELSE [found EXCEPT ![t] = Latest(open)]
    /\ UNCHANGED <<rowVars, status, pc, todo, work, boundVars>>

\* Faulty variant: a delta without its status counts as a success.
ApplyDelta_Default(t) ==
    /\ found[t] # 0
    /\ status' = [status EXCEPT ![found[t]] = "succeeded"]
    /\ found' = [found EXCEPT ![t] = 0]
    /\ UNCHANGED <<rowVars, pc, todo, work, deltas, boundVars>>

\* Faulty variant: the status is stored as the worker spells it.
ApplyDelta_Unchecked(t) ==
    /\ found[t] # 0
    /\ status' = [status EXCEPT ![found[t]] = "complete"]
    /\ found' = [found EXCEPT ![t] = 0]
    /\ UNCHANGED <<rowVars, pc, todo, work, deltas, boundVars>>

\* update_lifecycle on the row found, whatever its status is by now.
ApplyDelta(t) ==
    /\ found[t] # 0
    /\ status' = [status EXCEPT ![found[t]] = work[t]]
    /\ found' = [found EXCEPT ![t] = 0]
    /\ UNCHANGED <<rowVars, pc, todo, work, deltas, boundVars>>

\* find_open_lifecycle or update_lifecycle raises: that delta is dropped.
DeltaRaises(t) ==
    /\ drops < MaxDrops
    /\ drops' = drops + 1
    /\ \/ /\ found[t] = 0 /\ UNCHANGED found
          /\ \E d \in deltas[t] : deltas' = [deltas EXCEPT ![t] = @ \ {d}]
       \/ /\ found[t] # 0 /\ found' = [found EXCEPT ![t] = 0]
          /\ UNCHANGED deltas
    /\ UNCHANGED <<rowVars, status, pc, todo, work, faults, crashes, disturbed>>

-----------------------------------------------------------------------------
(* Crashes *)

\* The API dies with its tasks and threads; at startup sweep_stale_lifecycle
\* fails the open rows that are old enough, the first k of them.
ApiRestarts ==
    /\ crashes < MaxCrashes
    /\ crashes' = crashes + 1
    /\ pc' = [t \in Rows |-> IF pc[t] = "none" THEN "none" ELSE "done"]
    /\ todo' = [t \in Rows |-> {}]
    /\ \E k \in 0..rows :
         status' = [r \in Rows |-> IF r <= k /\ status[r] \in Open THEN "failed" ELSE status[r]]
    /\ UNCHANGED <<rowVars, work, deltas, found, faults, drops, disturbed>>

\* The agent dies with its jobs.
AgentDies ==
    /\ crashes < MaxCrashes
    /\ \E t \in Rows : work[t] = "running"
    /\ crashes' = crashes + 1
    /\ work' = [t \in Rows |-> IF work[t] = "running" THEN "dead" ELSE work[t]]
    /\ UNCHANGED <<rowVars, status, pc, todo, deltas, found, faults, drops, disturbed>>

-----------------------------------------------------------------------------
Task(t) == MarkRunning(t) \/ LocalWork(t) \/ Seal(t) \/ AgentAccepts(t) \/ Accepted(t)
Heartbeat(t) == FindOpen(t) \/ ApplyDelta(t)

Next ==
    \/ \E names \in Batches("deploy"), replace \in BOOLEAN : Deploy(names, replace)
    \/ \E d \in Deckies : Mutate(d)
    \/ \E t \in Rows : \/ Task(t) \/ DispatchRaises(t) \/ TaskRaises(t)
                       \/ AgentFinishes(t) \/ Heartbeat(t) \/ DeltaRaises(t)
    \/ ApiRestarts \/ AgentDies

\* Tasks, jobs and handlers that are not killed run on (the handler of a job's
\* deltas has work only after the job).
Fairness == \A t \in Rows : WF_vars(Task(t)) /\ WF_vars(AgentFinishes(t) \/ Heartbeat(t))

Spec == Init /\ [][Next]_vars /\ Fairness

-----------------------------------------------------------------------------
(* Properties *)

\* Type correctness of the table, the tasks, the jobs and the handler.
TypeOK ==
    /\ swarm \in BOOLEAN /\ fleet \in SUBSET Deckies /\ rows \in 0..MaxRows
    /\ kind \in [Rows -> Kinds \cup {NoKind}]
    /\ owner \in [Rows -> 0..MaxRows]
    /\ sent \in [Rows -> SUBSET Deckies]
    /\ status \in [Rows -> Open \cup Terminal]
    /\ pc \in [Rows -> {"none", "mark", "work", "dispatch", "await_202", "done"} \cup Terminal]
    /\ todo \in [Rows -> SUBSET Rows]
    /\ work \in [Rows -> {"none", "running", "dead"} \cup Terminal]
    /\ deltas \in [Rows -> SUBSET Deckies]
    /\ found \in [Rows -> 0..MaxRows]
    /\ faults \in 0..MaxNetFaults /\ drops \in 0..MaxDrops
    /\ crashes \in 0..MaxCrashes /\ disturbed \in BOOLEAN

\* No overlapping requests, no late timeout and no crash so far.
Calm == ~disturbed /\ crashes = 0

\* "master pivots them onto the matching open DeckyLifecycle rows"
\* (agent/executor.py:91-92): a row ends as its own attempt did, as far as no
\* crash, late timeout or overlap came before.  Two deploys overlap when their
\* configurations share a decky, so a deploy that adds to the fleet overlaps
\* with every deploy that is not over.
OutcomeMatchesAttempt ==
    Calm => \A r \in 1..rows :
        /\ status[r] = "succeeded" => work[owner[r]] = "succeeded"
        /\ status[r] = "failed" => work[owner[r]] \in {"failed", "none"}

\* Through every fault, crash and overlap a decky shows no more successes of an
\* operation than there were successful attempts whose configuration had it.
SuccessesEarned ==
    \A k \in Kinds :
        Cardinality({r \in 1..rows : kind[r] = k /\ status[r] = "succeeded"})
          <= Cardinality({t \in 1..rows : /\ kind[t].op = k.op /\ k.decky \in sent[t]
                                          /\ work[t] = "succeeded"})

\* The wizard polls until a row is terminal: every row comes to an end, as long
\* as no push fails, no database call of a task or of the handler raises, and no
\* overlap, late timeout or crash came before.
EveryRowEnds ==
    \A r \in Rows : (r <= rows) ~> (status[r] \in Terminal \/ drops > 0 \/ ~Calm)
=============================================================================
