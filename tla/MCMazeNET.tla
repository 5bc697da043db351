----------------------------- MODULE MCMazeNET ------------------------------
(***************************************************************************)
(* Model-checking instance of the live mutation of topologies: what one    *)
(* mutation does (MutationOps), and how the queue's watch loops and the    *)
(* deployer's jobs share a topology (MazeNET).  A behaviour is one of its  *)
(* subject, the other stands still.                                        *)
(***************************************************************************)
EXTENDS MutationOps

CONSTANTS Topologies, Jobs, Watchers, MaxMutations, MaxCrashes

ASSUME MazeAssumption ==
    Topologies # {} /\ MaxMutations \in Nat /\ MaxCrashes \in Nat /\ MaxOps >= 2

\* A patch that moves the decky to another home LAN and to another address.
MCPatches ==
    {<<[lan |-> "b", ip |-> [net |-> 2, host |-> 1]], [lan |-> "a", ip |-> [net |-> 1, host |-> 2]]>>}

VARIABLES
    mazeStatus, events, up, nets, mazeFile, reliable, planned, mazeJob, raced,
    admitted, queue, topology_id, state, pc, todo, tid, mut, runs, crashes,
    subject

Z == INSTANCE MazeNET WITH status <- mazeStatus, file <- mazeFile, job <- mazeJob, rows <- queue

mazeVars == <<mazeStatus, events, up, nets, mazeFile, reliable, planned, mazeJob, raced, admitted,
              queue, topology_id, state, pc, todo, tid, mut, runs, crashes>>
mcVars == <<vars, mazeVars, subject>>

\* The more mutations a behaviour has, the less else happens in it.
Budgets ==
    {[ops |-> MaxOps, api |-> 0, faults |-> 0],
     [ops |-> MaxOps - 1, api |-> 1, faults |-> 0],
     [ops |-> MaxOps - 1, api |-> 0, faults |-> MaxFaults],
     [ops |-> MaxOps - 2, api |-> MaxApi, faults |-> MaxFaults]}

MCInit ==
    /\ Init /\ left \in Budgets /\ Z!Init
    /\ subject \in {"ops", "maze"}
    /\ subject = "ops" => reliable
    /\ subject = "maze" => left.ops = MaxOps

MCNext ==
    \/ subject = "ops" /\ Next /\ UNCHANGED <<mazeVars, subject>>
    \/ subject = "maze" /\ Z!Next /\ UNCHANGED <<vars, subject>>

MCSpec == MCInit /\ [][MCNext]_mcVars

-----------------------------------------------------------------------------
\* Once the watcher that recorded a failed mutation has finished with the
\* topology, the topology is not shown as active, whatever the operators
\* deploy and tear down meanwhile, unless a loop died between the two writes or
\* two jobs worked on the topology at a time.
FailedMutationShows == Z!FailedMutationShows

\* With two watch loops, of which one may die: an outcome that mark_mutation_*
\* wrote is final once no loop has the row in hand.
OutcomeFinal == Z!Q!OutcomeFinal
=============================================================================
