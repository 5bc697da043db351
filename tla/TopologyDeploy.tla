--------------------------- MODULE TopologyDeploy ---------------------------
(***************************************************************************)
(* Deploying, tearing down and deleting master-resident MazeNET topologies *)
(* (decnet/engine/deployer.py deploy_topology and teardown_topology, the   *)
(* deploy, teardown and delete endpoints, and transition_status).          *)
(*                                                                         *)
(* A job is a background task of the API or a run of the CLI.  Each await  *)
(* ends a step: a status transition is a read that asserts legality and,   *)
(* in a later session, a blind write.  Stretches of the deployer without   *)
(* an await (networks and compose file, rollback, cleanup) are one step.   *)
(*                                                                         *)
(* Docker is abstracted to three facts per topology: containers run,       *)
(* bridge networks exist, the compose file exists.                         *)
(***************************************************************************)
EXTENDS TopologyStatus, FiniteSets

CONSTANTS Topologies,     \* ids of the topologies
          Jobs            \* concurrent jobs

VARIABLES
    status,   \* topologies.status, or Absent
    events,   \* topology_status_events: the <<from, to>> pairs recorded
    up,       \* the topology's containers run
    nets,     \* its bridge networks exist
    file,     \* its compose file exists
    reliable, \* in this behaviour no docker call fails and no process dies
    planned,  \* topologies that a dry run has read, whose file it may still write
    job,      \* what each job is doing: [op, t, at, to]
    raced     \* history: topologies that two jobs worked on at a time

dockerVars == <<up, nets, file, reliable, planned>>
deployVars == <<events, dockerVars, job, raced>>
vars == <<status, deployVars>>

Steps == {"hydrate", "check", "write", "docker", "up", "ps", "down", "cleanup",
          "cascade"}
AJob == [op : {"deploy", "teardown", "delete"}, t : Topologies, at : Steps, to : ALL]
NoJob == [op |-> "none"]

Init ==
    /\ status = [t \in Topologies |-> "pending"]
    /\ events = [t \in Topologies |-> {}]
    /\ up = [t \in Topologies |-> FALSE]
    /\ nets = [t \in Topologies |-> FALSE]
    /\ file = [t \in Topologies |-> FALSE]
    /\ reliable \in BOOLEAN
    /\ planned = {}
    /\ job = [j \in Jobs |-> NoJob]
    /\ raced = {}

At(j, op, at) == job[j] # NoJob /\ job[j].op = op /\ job[j].at = at

Goto(j, at) == job' = [job EXCEPT ![j].at = at] /\ UNCHANGED raced
Transition(j, new) ==
    job' = [job EXCEPT ![j].at = "check", ![j].to = new] /\ UNCHANGED raced

\* The job returns or raises; its background-task wrapper logs and swallows.
End(j) == job' = [job EXCEPT ![j] = NoJob] /\ UNCHANGED raced

\* No job works on the topology.
Settled(t) == \A j \in Jobs : job[j] # NoJob => job[j].t # t

\* A job starts; nothing keeps it from a topology another job works on.
Start(j, op, t, at) ==
    /\ job' = [job EXCEPT ![j] = [op |-> op, t |-> t, at |-> at, to |-> "pending"]]
    /\ raced' = IF Settled(t) THEN raced ELSE raced \cup {t}

-----------------------------------------------------------------------------
(* The endpoints: a status check in a session of its own, then a job *)

ApiDeploy(j, t) ==
    /\ job[j] = NoJob
    /\ status[t] = "pending"
    /\ Start(j, "deploy", t, "hydrate")
    /\ UNCHANGED <<status, events, dockerVars>>

ApiTeardown(j, t) ==
    /\ job[j] = NoJob
    /\ status[t] \in Teardownable
    /\ Start(j, "teardown", t, "hydrate")
    /\ UNCHANGED <<status, events, dockerVars>>

ApiDelete(j, t) ==
    /\ job[j] = NoJob
    /\ status[t] \in Deletable
    /\ Start(j, "delete", t, "cascade")
    /\ UNCHANGED <<status, events, dockerVars>>

\* delete_topology_cascade: whatever the status is by now.
DeleteCascade(j) ==
    /\ At(j, "delete", "cascade")
    /\ status' = [status EXCEPT ![job[j].t] = Absent]
    /\ events' = [events EXCEPT ![job[j].t] = {}]
    /\ End(j)
    /\ UNCHANGED dockerVars

-----------------------------------------------------------------------------
(* transition_status *)

\* get_topology and assert_transition; a missing row raises ValueError, an
\* illegal transition TopologyStatusError, and either ends the job.
CheckTransition(j) ==
    /\ job[j] # NoJob
    /\ job[j].at = "check"
    /\ IF assert_transition(status[job[j].t], job[j].to) THEN Goto(j, "write") ELSE End(j)
    /\ UNCHANGED <<status, events, dockerVars>>

\* update_topology_status: writes the status whatever it is by now and records
\* the event; does nothing if the row is gone.
UpdateTopologyStatus(j) ==
    LET t == job[j].t IN
    /\ job[j] # NoJob
    /\ job[j].at = "write"
    /\ status' = [status EXCEPT ![t] = IF @ = Absent THEN Absent ELSE job[j].to]
    /\ events' = [events EXCEPT ![t] = IF status[t] = Absent THEN @
                                       ELSE @ \cup {<<status[t], job[j].to>>}]
    /\ CASE job[j].to = "deploying"    -> Goto(j, "docker")
         [] job[j].to = "tearing_down" -> Goto(j, "down")
         [] OTHER                      -> End(j)
    /\ UNCHANGED dockerVars

-----------------------------------------------------------------------------
(* deploy_topology *)

\* Faulty variant: the networks are created before DEPLOYING is committed.
DeployHydrate_NetworksFirst(j) ==
    /\ At(j, "deploy", "hydrate")
    /\ nets' = [nets EXCEPT ![job[j].t] = TRUE]
    /\ Transition(j, "deploying")
    /\ UNCHANGED <<status, events, up, file, reliable, planned>>

\* hydrate and the validation precondition: a missing topology or a
\* ValidationError ends the job with the status untouched.
DeployHydrate(j) ==
    /\ At(j, "deploy", "hydrate")
    /\ \/ status[job[j].t] # Absent /\ Transition(j, "deploying")
       \/ End(j)
    /\ UNCHANGED <<status, events, dockerVars>>

\* A dry run (decnet topology deploy --dry-run): it hydrates and validates the
\* topology, whatever its status, writes the compose file and is done.  It holds
\* no job: a dry run that has read the row may write until it dies.
DryRun(t) ==
    /\ status[t] # Absent
    /\ planned' = planned \cup {t}
    /\ UNCHANGED <<status, events, up, nets, file, reliable, job, raced>>

DryRunWrite(t) ==
    /\ t \in planned
    /\ file' = [file EXCEPT ![t] = TRUE]
    /\ UNCHANGED <<status, events, up, nets, reliable, planned, job, raced>>

\* What a compose down leaves running: it is skipped without a compose file,
\* and its failure is swallowed by both callers.
AfterDown(t, running) ==
    IF ~file[t] THEN {running}
    ELSE {FALSE} \cup (IF ~reliable THEN {running} ELSE {})

\* The except branch of deploy_topology: compose down, remove the networks,
\* unlink the file; every error of the rollback is swallowed.
Rollback(j, running) ==
    LET t == job[j].t IN
    /\ \E left \in AfterDown(t, running) : up' = [up EXCEPT ![t] = left]
    /\ \E kept \in BOOLEAN :
         /\ kept => ~reliable
         /\ nets' = [nets EXCEPT ![t] = kept]
    /\ file' = [file EXCEPT ![t] = FALSE]
    /\ Transition(j, "failed")

\* docker.from_env() stands before the try block: when it raises the job ends
\* and the status stays deploying.
DeployNoDocker(j) ==
    /\ At(j, "deploy", "docker")
    /\ ~reliable
    /\ End(j)
    /\ UNCHANGED <<status, events, dockerVars>>

\* create_bridge_network per LAN and write_topology_compose.
DeployNetworks(j) ==
    LET t == job[j].t IN
    /\ At(j, "deploy", "docker")
    /\ nets' = [nets EXCEPT ![t] = TRUE]
    /\ file' = [file EXCEPT ![t] = TRUE]
    /\ Goto(j, "up")
    /\ UNCHANGED <<status, events, up, reliable, planned>>

DeployNetworksFail(j) ==
    /\ At(j, "deploy", "docker")
    /\ ~reliable
    /\ Rollback(j, up[job[j].t])
    /\ UNCHANGED <<status, events, reliable, planned>>

\* compose up --build -d, in a worker thread.
DeployUp(j) ==
    LET t == job[j].t IN
    /\ At(j, "deploy", "up")
    /\ file[t]
    /\ up' = [up EXCEPT ![t] = TRUE]
    /\ Goto(j, "ps")
    /\ UNCHANGED <<status, events, nets, file, reliable, planned>>

\* It fails when docker does, perhaps with some containers started, and when
\* a teardown has removed the file.
DeployUpFail(j) ==
    LET t == job[j].t IN
    /\ At(j, "deploy", "up")
    /\ \/ ~file[t] /\ Rollback(j, up[t])
       \/ file[t] /\ ~reliable /\ \E started \in BOOLEAN : Rollback(j, started \/ up[t])
    /\ UNCHANGED <<status, events, reliable, planned>>

\* Faulty variant: a status the state machine does not know.
DeployPs_Unknown(j) ==
    /\ At(j, "deploy", "ps")
    /\ Transition(j, "healthy")
    /\ UNCHANGED <<status, events, dockerVars>>

\* compose ps and the per-decky state rows.  A container that is not running
\* makes the topology degraded; no rows at all count as healthy.
DeployPs(j) ==
    /\ At(j, "deploy", "ps")
    /\ \E bad \in BOOLEAN :
         /\ bad => up[job[j].t]
         /\ Transition(j, IF bad THEN "degraded" ELSE "active")
    /\ UNCHANGED <<status, events, dockerVars>>

-----------------------------------------------------------------------------
(* teardown_topology *)

\* Faulty variant: compose down runs before TEARING_DOWN is committed.
TeardownHydrate_DownFirst(j) ==
    /\ At(j, "teardown", "hydrate")
    /\ up' = [up EXCEPT ![job[j].t] = FALSE]
    /\ Transition(j, "tearing_down")
    /\ UNCHANGED <<status, events, nets, file, reliable, planned>>

\* hydrate: a missing topology ends the job.
TeardownHydrate(j) ==
    /\ At(j, "teardown", "hydrate")
    /\ IF status[job[j].t] = Absent THEN End(j) ELSE Transition(j, "tearing_down")
    /\ UNCHANGED <<status, events, dockerVars>>

\* compose down when the compose file exists; CalledProcessError is logged
\* and the teardown continues.
TeardownDown(j) ==
    LET t == job[j].t IN
    /\ At(j, "teardown", "down")
    /\ \E left \in AfterDown(t, up[t]) : up' = [up EXCEPT ![t] = left]
    /\ Goto(j, "cleanup")
    /\ UNCHANGED <<status, events, nets, file, reliable, planned>>

\* Faulty variant: the compose file stays behind.
TeardownCleanup_KeepFile(j) ==
    LET t == job[j].t IN
    /\ At(j, "teardown", "cleanup")
    /\ nets' = [nets EXCEPT ![t] = FALSE]
    /\ Transition(j, "torn_down")
    /\ UNCHANGED <<status, events, up, file, reliable, planned>>

\* Faulty variant: the last transition is forgotten.
TeardownCleanup_Unmarked(j) ==
    LET t == job[j].t IN
    /\ At(j, "teardown", "cleanup")
    /\ nets' = [nets EXCEPT ![t] = FALSE]
    /\ file' = [file EXCEPT ![t] = FALSE]
    /\ End(j)
    /\ UNCHANGED <<status, events, up, reliable, planned>>

\* remove_bridge_network per LAN (an APIError is swallowed) and unlink.
TeardownCleanup(j) ==
    LET t == job[j].t IN
    /\ At(j, "teardown", "cleanup")
    /\ \E kept \in BOOLEAN :
         /\ kept => nets[t] /\ ~reliable
         /\ nets' = [nets EXCEPT ![t] = kept]
    /\ file' = [file EXCEPT ![t] = FALSE]
    /\ Transition(j, "torn_down")
    /\ UNCHANGED <<status, events, up, reliable, planned>>

\* docker.from_env() or networks.list() raises: the job ends and the status
\* stays tearing_down.
TeardownNoDocker(j) ==
    /\ At(j, "teardown", "down") \/ At(j, "teardown", "cleanup")
    /\ ~reliable
    /\ End(j)
    /\ UNCHANGED <<status, events, dockerVars>>

-----------------------------------------------------------------------------
\* The process running a job dies; nothing resumes or reconciles the job.
JobDies(j) ==
    /\ ~reliable
    /\ job[j] # NoJob
    /\ End(j)
    /\ UNCHANGED <<status, events, dockerVars>>

Run(j) ==
    \/ DeployHydrate(j) \/ DeployNoDocker(j) \/ DeployNetworks(j)
    \/ DeployNetworksFail(j) \/ DeployUp(j) \/ DeployUpFail(j) \/ DeployPs(j)
    \/ TeardownHydrate(j) \/ TeardownDown(j) \/ TeardownCleanup(j)
    \/ TeardownNoDocker(j) \/ DeleteCascade(j)
    \/ CheckTransition(j) \/ UpdateTopologyStatus(j)

Request(j) == \E t \in Topologies : ApiDeploy(j, t) \/ ApiTeardown(j, t) \/ ApiDelete(j, t)

Plan == \E t \in Topologies : DryRun(t) \/ DryRunWrite(t)

DeployNext == Plan \/ \E j \in Jobs : Request(j) \/ Run(j) \/ JobDies(j)

Next == DeployNext

\* A job that is not killed runs on: the event loop and the worker threads
\* schedule it.  Requests are the operators' choice.
Fairness == \A j \in Jobs : WF_vars(Run(j))

Spec == Init /\ [][Next]_vars /\ Fairness

-----------------------------------------------------------------------------
(* Properties *)

\* Type correctness of the tables, of Docker's facts and of the jobs.
TypeOK ==
    /\ status \in [Topologies -> ALL \cup {Absent}]
    /\ events \in [Topologies -> SUBSET (ALL \X ALL)]
    /\ up \in [Topologies -> BOOLEAN]
    /\ nets \in [Topologies -> BOOLEAN]
    /\ file \in [Topologies -> BOOLEAN]
    /\ reliable \in BOOLEAN
    /\ planned \subseteq Topologies
    /\ job \in [Jobs -> AJob \cup {NoJob}]
    /\ raced \subseteq Topologies

\* "Legal-only status transition" (persistence.py:100): every transition
\* recorded in topology_status_events is one _LEGAL allows, as long as no two
\* jobs worked on the topology at a time.
LegalHistory ==
    \A t \in Topologies \ raced : \A e \in events[t] : e[2] \in legal_next(e[1])

\* Nothing of a topology exists in Docker before its row left pending,
\* however many deploys race: the deployer commits DEPLOYING first.  Its compose
\* file exists only if a dry run wrote it.
PendingUntouched ==
    \A t \in Topologies :
        status[t] = "pending" => ~up[t] /\ ~nets[t] /\ (file[t] => t \in planned)

\* As long as no two jobs worked on it at a time, a topology shown as live has
\* its containers, its networks and the compose file a teardown needs, whatever
\* failed or died before and whatever happens to other topologies.
LiveIsUp ==
    \A t \in Topologies \ raced :
        status[t] \in LiveStatuses => up[t] /\ nets[t] /\ file[t]

\* With a reliable Docker too, a topology at rest has exactly the Docker state
\* its status says: rollback and teardown are complete, and only a dry run
\* leaves a compose file behind.
RestMatchesDocker ==
    \A t \in Topologies \ raced : reliable /\ Settled(t) =>
        /\ status[t] \in LiveStatuses \cup Deletable \cup {Absent}
        /\ IF status[t] \in LiveStatuses
             THEN up[t] /\ nets[t] /\ file[t]
             ELSE ~up[t] /\ ~nets[t] /\ (file[t] => t \in planned)

\* Racing jobs do not wedge a topology: with a reliable Docker it leaves
\* deploying and tearing_down.
TransientEnds ==
    \A t \in Topologies :
        (reliable /\ status[t] \in {"deploying", "tearing_down"})
            ~> (status[t] \notin {"deploying", "tearing_down"})
=============================================================================
