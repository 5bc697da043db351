-------------------------- MODULE MCTopologyDeploy --------------------------
(***************************************************************************)
(* Model-checking instance of the two ways to deploy a topology: on the    *)
(* master (TopologyDeploy), and on an agent with its resyncs and           *)
(* heartbeats (AgentTopology).  A behaviour is one of its subject, the     *)
(* other stands still.                                                     *)
(***************************************************************************)
EXTENDS TopologyDeploy

CONSTANTS Configs, FirstConfig, Calls, MaxInFlight, MaxChanges, MaxFaults

VARIABLES
    agentStatus, config, resync, changes, call, todo, handler, store, runs, bridges,
    agentFile, beat, netFaults, hostFaults, overlap, deadPush,
    subject

A == INSTANCE AgentTopology
       WITH status <- agentStatus, up <- runs, nets <- bridges, file <- agentFile

agentVars == <<agentStatus, config, resync, changes, call, todo, handler, store, runs,
               bridges, agentFile, beat, netFaults, hostFaults, overlap, deadPush>>
mcVars == <<vars, agentVars, subject>>

MCInit ==
    /\ Init /\ A!Init
    /\ subject \in {"master", "agent"}
    /\ subject = "agent" => reliable

MasterNext == subject = "master" /\ Next /\ UNCHANGED <<agentVars, subject>>

AgentNext == subject = "agent" /\ A!Next /\ UNCHANGED <<vars, subject>>

MCNext == MasterNext \/ AgentNext

\* The fairness of each module, for the part whose behaviour it is.
MCFairness ==
    /\ \A j \in Jobs : WF_vars(subject = "master" /\ Run(j))
    /\ WF_agentVars(subject = "agent" /\ A!LoopStep)
    /\ WF_agentVars(subject = "agent" /\ A!BeatStep)
    /\ \A c \in Calls : WF_agentVars(subject = "agent" /\ A!Answered(c))
    /\ \A h \in A!Handlers : WF_agentVars(subject = "agent" /\ A!HandlerStep(h))

MCSpec == MCInit /\ [][MCNext]_mcVars /\ MCFairness

-----------------------------------------------------------------------------
\* Type correctness of the two parts.
DeployTypeOK == TypeOK /\ A!TypeOK

\* The flag of a topology is a request for one push: it does not stay for ever,
\* although pushes fail, time out or are refused a few times.
FlagDrained == A!FlagDrained

\* Drift is repaired: when the agent's topology is active and its content no
\* longer changes, its containers end up running that content, whatever was
\* edited, refused or lost before.
DriftRepaired == A!DriftRepaired
=============================================================================
