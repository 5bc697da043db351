------------------------------ MODULE MazeNET -------------------------------
(***************************************************************************)
(* The deployer and the mutation queue on the same topologies: the API's   *)
(* jobs (TopologyDeploy) and the mutator's watch loops (MutationQueue)     *)
(* share topologies.status and nothing else, and no lock covers it.        *)
(***************************************************************************)
EXTENDS TopologyStatus, Integers

CONSTANTS Topologies, Jobs, Watchers, MaxMutations, MaxCrashes

VARIABLES status,
          events, up, nets, file, reliable, planned, job, raced,
          admitted, rows, topology_id, state, pc, todo, tid, mut, runs, crashes

D == INSTANCE TopologyDeploy
Q == INSTANCE MutationQueue

deployVars == <<events, up, nets, file, reliable, planned, job, raced>>
queueVars == <<admitted, rows, topology_id, state, pc, todo, tid, mut, runs, crashes>>
vars == <<status, deployVars, queueVars>>

Init == D!Init /\ Q!QueueInit

\* A step of a job; only the cascade of a delete reaches the mutation rows.
JobStep(j) ==
    \/ /\ D!Request(j) \/ D!JobDies(j) \/ (~D!At(j, "delete", "cascade") /\ D!Run(j))
       /\ UNCHANGED queueVars
    \/ D!DeleteCascade(j) /\ Q!DeleteRows(job[j].t)

\* reconcile_topologies' DEGRADED goes through update_topology_status like
\* every other status and leaves its event.
DegradeStep(w) ==
    /\ Q!WriteDegraded(w)
    /\ events' = [events EXCEPT ![tid[w]] = IF status[tid[w]] = Absent THEN @
                                            ELSE @ \cup {<<status[tid[w]], "degraded">>}]
    /\ UNCHANGED <<up, nets, file, reliable, planned, job, raced>>

\* A dry run reads topologies.status and writes its compose file only.
PlanStep == D!Plan /\ UNCHANGED queueVars

QueueStep ==
    /\ \/ \E t \in Topologies : Q!Api(t)
       \/ \E w \in Watchers : Q!Drain(w) \/ Q!Crash(w) \/ Q!Restart(w)
    /\ UNCHANGED deployVars

Next ==
    \/ \E j \in Jobs : JobStep(j)
    \/ \E w \in Watchers : DegradeStep(w)
    \/ PlanStep \/ QueueStep

Spec == Init /\ [][Next]_vars

-----------------------------------------------------------------------------
\* "so operators can see that a requested change was rejected" (engine.py:250):
\* once the watcher that recorded a failed mutation has finished with the
\* topology, the topology is not shown as active, whatever the operators
\* deploy and tear down meanwhile, unless a loop died between the two writes or
\* two jobs worked on the topology at a time.
FailedMutationShows ==
    \A m \in 1..MaxMutations :
        /\ topology_id[m] \notin raced
        /\ state[m] = "failed"
        /\ crashes = 0
        /\ \A w \in Watchers : pc[w] \notin {"degrade", "write_degraded"}
        => status[topology_id[m]] # "active"
=============================================================================
