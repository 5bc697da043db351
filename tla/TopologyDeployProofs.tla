------------------------ MODULE TopologyDeployProofs ------------------------
(***************************************************************************)
(* Proofs about TopologyDeploy, for any set of topologies and jobs and     *)
(* whatever Docker and the processes do.                                   *)
(*                                                                         *)
(* PendingUntouched is not inductive: it rests on the order of             *)
(* deploy_topology, which commits DEPLOYING before it touches Docker, and  *)
(* on the fact that no job ever writes "pending" back.  TouchedMoved and   *)
(* NeverToPending say so.                                                  *)
(*                                                                         *)
(* The other properties hold of a topology until two jobs work on it at a  *)
(* time (raced).  Their invariant says, per topology, that its only job is *)
(* at a stage that fits the status and Docker's facts (Stage), or that the *)
(* topology is at rest; other topologies may be worked on meanwhile.       *)
(***************************************************************************)
EXTENDS TopologyDeploy, TLAPS

\* A job that checks or writes a transition has a status other than pending
\* to write.
NeverToPending ==
    \A j \in Jobs :
        job[j] # NoJob /\ job[j].at \in {"check", "write"} => job[j].to # "pending"

\* The steps in which a job touches Docker, or has touched it.
DockerSteps == {"docker", "up", "ps", "down", "cleanup"}

\* A job that touches Docker has committed its first transition.
TouchedMoved ==
    \A j \in Jobs :
        job[j] # NoJob /\ job[j].at \in DockerSteps => status[job[j].t] # "pending"

DeployInv == TypeOK /\ NeverToPending /\ TouchedMoved /\ PendingUntouched

\* What a job's step may do to the jobs: only its own entry changes, to
\* nothing or to another well-typed job.
OnlyJob(j) ==
    /\ job' \in [Jobs -> AJob \cup {NoJob}]
    /\ \A i \in Jobs \ {j} : job'[i] = job[i]
    /\ raced' \subseteq Topologies

\* The job goes on to step at of the same operation.
LEMMA GotoFacts ==
    ASSUME TypeOK, NEW j \in Jobs, job[j] # NoJob, NEW at \in Steps, Goto(j, at)
    PROVE  /\ OnlyJob(j)
           /\ job'[j] # NoJob
           /\ job'[j] = [op |-> job[j].op, t |-> job[j].t, at |-> at, to |-> job[j].to]
           /\ raced' = raced
<1>1. job[j] \in AJob
  BY DEF TypeOK
<1>2. job'[j] = [op |-> job[j].op, t |-> job[j].t, at |-> at, to |-> job[j].to]
  BY <1>1 DEF Goto, TypeOK, AJob
<1>3. job'[j] \in AJob
  BY <1>1, <1>2 DEF AJob
<1>4. \A i \in Jobs \ {j} : job'[i] = job[i]
  BY DEF Goto, TypeOK
<1>5. job' \in [Jobs -> AJob \cup {NoJob}]
  BY <1>3, <1>4 DEF Goto, TypeOK
<1>6. job'[j] # NoJob
  <2>1. job'[j].op \in {"deploy", "teardown", "delete"}
    BY <1>3 DEF AJob
  <2>2. NoJob.op = "none"
    BY DEF NoJob
  <2> QED
    BY <2>1, <2>2
<1>7. raced' = raced /\ raced \subseteq Topologies
  BY DEF Goto, TypeOK
<1> QED
  BY <1>2, <1>4, <1>5, <1>6, <1>7 DEF OnlyJob

\* The job enters transition_status.
LEMMA TransitionFacts ==
    ASSUME TypeOK, NEW j \in Jobs, job[j] # NoJob, NEW new \in ALL, Transition(j, new)
    PROVE  /\ OnlyJob(j)
           /\ job'[j] # NoJob
           /\ job'[j] = [op |-> job[j].op, t |-> job[j].t, at |-> "check", to |-> new]
           /\ raced' = raced
<1>1. job[j] \in AJob
  BY DEF TypeOK
<1>2. job'[j] = [op |-> job[j].op, t |-> job[j].t, at |-> "check", to |-> new]
  BY <1>1 DEF Transition, TypeOK, AJob
<1>3. job'[j] \in AJob
  BY <1>1, <1>2 DEF AJob, Steps
<1>4. \A i \in Jobs \ {j} : job'[i] = job[i]
  BY DEF Transition, TypeOK
<1>5. job' \in [Jobs -> AJob \cup {NoJob}]
  BY <1>3, <1>4 DEF Transition, TypeOK
<1>6. job'[j] # NoJob
  <2>1. job'[j].op \in {"deploy", "teardown", "delete"}
    BY <1>3 DEF AJob
  <2>2. NoJob.op = "none"
    BY DEF NoJob
  <2> QED
    BY <2>1, <2>2
<1>7. raced' = raced /\ raced \subseteq Topologies
  BY DEF Transition, TypeOK
<1> QED
  BY <1>2, <1>4, <1>5, <1>6, <1>7 DEF OnlyJob

\* The job ends.
LEMMA EndFacts ==
    ASSUME TypeOK, NEW j \in Jobs, End(j)
    PROVE  OnlyJob(j) /\ job'[j] = NoJob /\ raced' = raced
BY DEF End, TypeOK, OnlyJob

\* An endpoint starts a job.
LEMMA StartFacts ==
    ASSUME TypeOK, NEW j \in Jobs, NEW op \in {"deploy", "teardown", "delete"},
           NEW t \in Topologies, NEW at \in Steps, Start(j, op, t, at)
    PROVE  /\ OnlyJob(j)
           /\ job'[j] = [op |-> op, t |-> t, at |-> at, to |-> "pending"]
           /\ raced' = IF Settled(t) THEN raced ELSE raced \cup {t}
<1>1. [op |-> op, t |-> t, at |-> at, to |-> "pending"] \in AJob
  BY DEF AJob, ALL
<1> QED
  BY <1>1 DEF Start, TypeOK, OnlyJob

\* What job j may be left with: nothing, or a job that keeps NeverToPending
\* and TouchedMoved with the status as it is.
JobSafe(j) ==
    \/ job'[j] = NoJob
    \/ /\ job'[j].at \in {"check", "write"} => job'[j].to # "pending"
       /\ job'[j].at \in DockerSteps => status[job'[j].t] # "pending"

\* Docker changed at most for the topology t.
OnlyDocker(t) ==
    /\ up' \in [Topologies -> BOOLEAN] /\ nets' \in [Topologies -> BOOLEAN]
    /\ file' \in [Topologies -> BOOLEAN]
    /\ \A s \in Topologies \ {t} : up'[s] = up[s] /\ nets'[s] = nets[s] /\ file'[s] = file[s]

\* A step that leaves the tables and Docker alone and its own job safe keeps
\* the invariant.
LEMMA QuietStep ==
    ASSUME DeployInv, NEW j \in Jobs, OnlyJob(j), JobSafe(j),
           UNCHANGED <<status, events, dockerVars>>
    PROVE  DeployInv'
<1>1. TypeOK'
  BY DEF DeployInv, TypeOK, OnlyJob, dockerVars
<1>2. NeverToPending'
  BY DEF DeployInv, NeverToPending, OnlyJob, JobSafe
<1>3. TouchedMoved'
  BY DEF DeployInv, TouchedMoved, OnlyJob, JobSafe
<1>4. PendingUntouched'
  BY DEF DeployInv, PendingUntouched, dockerVars
<1> QED
  BY <1>1, <1>2, <1>3, <1>4 DEF DeployInv

\* A step that touches Docker for a topology that has left pending keeps it.
LEMMA DockerStep ==
    ASSUME DeployInv, NEW j \in Jobs, OnlyJob(j), JobSafe(j),
           NEW t \in Topologies, OnlyDocker(t), status[t] # "pending",
           UNCHANGED <<status, events, reliable, planned>>
    PROVE  DeployInv'
<1>1. TypeOK'
  BY DEF DeployInv, TypeOK, OnlyJob, OnlyDocker
<1>2. NeverToPending'
  BY DEF DeployInv, NeverToPending, OnlyJob, JobSafe
<1>3. TouchedMoved'
  BY DEF DeployInv, TouchedMoved, OnlyJob, JobSafe
<1>4. PendingUntouched'
  BY DEF DeployInv, PendingUntouched, OnlyDocker
<1> QED
  BY <1>1, <1>2, <1>3, <1>4 DEF DeployInv

\* The endpoints start jobs that have touched nothing.
LEMMA RequestStep ==
    ASSUME DeployInv, NEW j \in Jobs, Request(j)
    PROVE  DeployInv'
<1>1. TypeOK
  BY DEF DeployInv
<1>2. ASSUME NEW t \in Topologies, NEW op \in {"deploy", "teardown", "delete"},
             NEW at \in {"hydrate", "cascade"}, Start(j, op, t, at),
             UNCHANGED <<status, events, dockerVars>>
      PROVE  DeployInv'
  <2>1. at \in Steps
    BY DEF Steps
  <2>2. OnlyJob(j) /\ job'[j] = [op |-> op, t |-> t, at |-> at, to |-> "pending"]
    BY <1>1, <1>2, <2>1, StartFacts
  <2>3. JobSafe(j)
    BY <2>2 DEF JobSafe, DockerSteps
  <2> QED
    BY <1>2, <2>2, <2>3, QuietStep
<1>3. PICK t \in Topologies : ApiDeploy(j, t) \/ ApiTeardown(j, t) \/ ApiDelete(j, t)
  BY DEF Request
<1>4. CASE ApiDeploy(j, t)
  BY <1>2, <1>4 DEF ApiDeploy
<1>5. CASE ApiTeardown(j, t)
  BY <1>2, <1>5 DEF ApiTeardown
<1>6. CASE ApiDelete(j, t)
  BY <1>2, <1>6 DEF ApiDelete
<1> QED
  BY <1>3, <1>4, <1>5, <1>6

\* transition_status: the check changes nothing, the write never writes
\* "pending", and the step behind it finds a status other than pending.
LEMMA TransitionStep ==
    ASSUME DeployInv, NEW j \in Jobs, CheckTransition(j) \/ UpdateTopologyStatus(j)
    PROVE  DeployInv'
<1>0. TypeOK /\ job[j] # NoJob /\ job[j] \in AJob /\ job[j].t \in Topologies
      /\ job[j].to \in ALL /\ job[j].at \in {"check", "write"} /\ job[j].to # "pending"
  BY DEF DeployInv, TypeOK, CheckTransition, UpdateTopologyStatus, NeverToPending, AJob
<1>1. CASE CheckTransition(j)
  <2>1. CASE Goto(j, "write")
    <3>0. "write" \in Steps
      BY DEF Steps
    <3>a. /\ OnlyJob(j)
          /\ job'[j] = [op |-> job[j].op, t |-> job[j].t, at |-> "write", to |-> job[j].to]
      <4>1. TypeOK
        BY <1>0
      <4>2. job[j] # NoJob
        BY <1>0
      <4> QED
        BY <4>1, <4>2, <2>1, <3>0, GotoFacts
    <3>1. OnlyJob(j) /\ job'[j].at = "write" /\ job'[j].to = job[j].to
      BY <3>a
    <3>2. JobSafe(j)
      BY <3>1, <1>0 DEF JobSafe, DockerSteps
    <3> QED
      BY <3>1, <3>2, <1>1, QuietStep DEF CheckTransition
  <2>2. CASE End(j)
    BY <2>2, <1>0, <1>1, EndFacts, QuietStep DEF CheckTransition, JobSafe
  <2> QED
    BY <1>1, <2>1, <2>2 DEF CheckTransition
<1>2. CASE UpdateTopologyStatus(j)
  <2> DEFINE t == job[j].t
  <2>1. /\ status' = [status EXCEPT ![t] = IF @ = Absent THEN Absent ELSE job[j].to]
        /\ events' = [events EXCEPT ![t] = IF status[t] = Absent THEN @
                                           ELSE @ \cup {<<status[t], job[j].to>>}]
        /\ UNCHANGED dockerVars
    BY <1>2 DEF UpdateTopologyStatus
  <2>2. /\ status' \in [Topologies -> ALL \cup {Absent}] /\ status'[t] # "pending"
        /\ \A s \in Topologies \ {t} : status'[s] = status[s]
    BY <2>1, <1>0 DEF TypeOK, Absent
  <2>3. events' \in [Topologies -> SUBSET (ALL \X ALL)]
    <3>1. CASE status[t] = Absent
      BY <3>1, <2>1, <1>0 DEF TypeOK
    <3>2. CASE status[t] # Absent
      <4>1. status[t] \in ALL /\ events[t] \in SUBSET (ALL \X ALL)
        BY <3>2, <1>0 DEF TypeOK
      <4>2. events[t] \cup {<<status[t], job[j].to>>} \in SUBSET (ALL \X ALL)
        BY <4>1, <1>0
      <4> QED
        BY <4>2, <3>2, <2>1, <1>0 DEF TypeOK
    <3> QED
      BY <3>1, <3>2
  <2>4. /\ OnlyJob(j)
        /\ \/ job'[j] = NoJob
           \/ job'[j].at \in {"docker", "down"} /\ job'[j].t = t
    <3>1. Goto(j, "docker") \/ Goto(j, "down") \/ End(j)
      BY <1>2 DEF UpdateTopologyStatus
    <3>2. {"docker", "down"} \subseteq Steps
      BY DEF Steps
    <3>3. ASSUME NEW at \in {"docker", "down"}, Goto(j, at)
          PROVE  OnlyJob(j) /\ job'[j].at = at /\ job'[j].t = t
      <4>1. TypeOK
        BY <1>0
      <4>2. job[j] # NoJob
        BY <1>0
      <4>3. at \in Steps
        BY <3>2, <3>3
      <4>4. /\ OnlyJob(j)
            /\ job'[j] = [op |-> job[j].op, t |-> job[j].t, at |-> at, to |-> job[j].to]
        BY <4>1, <4>2, <4>3, <3>3, GotoFacts
      <4> QED
        BY <4>4
    <3> QED
      BY <3>1, <3>3, <1>0, EndFacts
  <2>5. TypeOK'
    BY <2>1, <2>2, <2>3, <2>4, <1>0 DEF TypeOK, OnlyJob, dockerVars
  <2>6. NeverToPending'
    BY <2>4 DEF DeployInv, NeverToPending, OnlyJob
  <2>7. TouchedMoved'
    <3> SUFFICES ASSUME NEW i \in Jobs, job'[i] # NoJob, job'[i].at \in DockerSteps
                 PROVE  status'[job'[i].t] # "pending"
      BY DEF TouchedMoved
    <3>1. CASE i = j
      BY <3>1, <2>2, <2>4
    <3>2. CASE i # j
      <4>1. job'[i] = job[i] /\ status[job[i].t] # "pending" /\ job[i].t \in Topologies
        BY <3>2, <2>4, <1>0 DEF OnlyJob, DeployInv, TouchedMoved, TypeOK, AJob
      <4> QED
        BY <4>1, <2>2
    <3> QED
      BY <3>1, <3>2
  <2>8. PendingUntouched'
    BY <2>1, <2>2 DEF DeployInv, PendingUntouched, dockerVars
  <2> QED
    BY <2>5, <2>6, <2>7, <2>8 DEF DeployInv
<1> QED
  BY <1>1, <1>2

\* delete_topology_cascade removes the row of a topology.
LEMMA DeleteStep ==
    ASSUME DeployInv, NEW j \in Jobs, DeleteCascade(j)
    PROVE  DeployInv'
<1>1. TypeOK /\ job[j].t \in Topologies
  BY DEF DeployInv, TypeOK, DeleteCascade, At, AJob
<1>2. OnlyJob(j) /\ job'[j] = NoJob
  BY <1>1, EndFacts DEF DeleteCascade
<1>3. /\ status' \in [Topologies -> ALL \cup {Absent}]
      /\ \A s \in Topologies : status'[s] \in {status[s], Absent}
  BY <1>1 DEF DeleteCascade, TypeOK
<1>4. TypeOK'
  BY <1>1, <1>2, <1>3 DEF TypeOK, OnlyJob, DeleteCascade, dockerVars
<1>5. NeverToPending'
  BY <1>2 DEF DeployInv, NeverToPending, OnlyJob
<1>6. TouchedMoved'
  <2> SUFFICES ASSUME NEW i \in Jobs, job'[i] # NoJob, job'[i].at \in DockerSteps
               PROVE  status'[job'[i].t] # "pending"
    BY DEF TouchedMoved
  <2>1. job'[i] = job[i] /\ status[job[i].t] # "pending" /\ job[i].t \in Topologies
    BY <1>1, <1>2 DEF OnlyJob, DeployInv, TouchedMoved, TypeOK, AJob
  <2> QED
    BY <2>1, <1>3 DEF Absent
<1>7. PendingUntouched'
  BY <1>3 DEF DeployInv, PendingUntouched, DeleteCascade, dockerVars, Absent
<1> QED
  BY <1>4, <1>5, <1>6, <1>7 DEF DeployInv

\* A job that goes on, or enters a transition to a status other than pending,
\* or ends, is left safe; to go on to a Docker step its topology must have
\* left pending.
LEMMA MoveSafe ==
    ASSUME TypeOK, NEW j \in Jobs, job[j] # NoJob,
           \/ status[job[j].t] # "pending" /\ \E at \in DockerSteps : Goto(j, at)
           \/ \E new \in ALL \ {"pending"} : Transition(j, new)
           \/ End(j)
    PROVE  OnlyJob(j) /\ JobSafe(j)
<1>1. CASE status[job[j].t] # "pending" /\ \E at \in DockerSteps : Goto(j, at)
  <2>1. PICK at \in DockerSteps : Goto(j, at)
    BY <1>1
  <2>2. at \in Steps
    BY DEF DockerSteps, Steps
  <2>3. /\ OnlyJob(j)
        /\ job'[j] = [op |-> job[j].op, t |-> job[j].t, at |-> at, to |-> job[j].to]
    BY <2>1, <2>2, GotoFacts
  <2>4. job'[j].at = at /\ job'[j].t = job[j].t
    BY <2>3
  <2> QED
    BY <2>3, <2>4, <1>1 DEF JobSafe, DockerSteps
<1>2. CASE \E new \in ALL \ {"pending"} : Transition(j, new)
  <2>1. PICK new \in ALL \ {"pending"} : Transition(j, new)
    BY <1>2
  <2>2. /\ OnlyJob(j)
        /\ job'[j] = [op |-> job[j].op, t |-> job[j].t, at |-> "check", to |-> new]
    BY <2>1, TransitionFacts
  <2>3. job'[j].at = "check" /\ job'[j].to = new
    BY <2>2
  <2> QED
    BY <2>2, <2>3 DEF JobSafe, DockerSteps
<1>3. CASE End(j)
  BY <1>3, EndFacts DEF JobSafe
<1> QED
  BY <1>1, <1>2, <1>3

\* Steps that leave the tables and Docker alone: the two hydrates, the exits
\* on a Docker error, the health probe and the death of a process.
LEMMA TableStep ==
    ASSUME DeployInv, NEW j \in Jobs,
           \/ DeployHydrate(j) \/ TeardownHydrate(j) \/ DeployNoDocker(j)
           \/ TeardownNoDocker(j) \/ DeployPs(j) \/ JobDies(j)
    PROVE  DeployInv'
<1>1. TypeOK /\ job[j] # NoJob
  BY DEF DeployInv, DeployHydrate, TeardownHydrate, DeployNoDocker,
         TeardownNoDocker, DeployPs, JobDies, At
<1>2. UNCHANGED <<status, events, dockerVars>>
  BY DEF DeployHydrate, TeardownHydrate, DeployNoDocker, TeardownNoDocker, DeployPs, JobDies
<1>3. {"deploying", "tearing_down", "active", "degraded"} \subseteq ALL \ {"pending"}
  BY DEF ALL
<1>4. (\E new \in ALL \ {"pending"} : Transition(j, new)) \/ End(j)
  <2>1. CASE DeployHydrate(j)
    BY <2>1, <1>3 DEF DeployHydrate
  <2>2. CASE TeardownHydrate(j)
    BY <2>2, <1>3 DEF TeardownHydrate
  <2>3. CASE DeployNoDocker(j) \/ TeardownNoDocker(j) \/ JobDies(j)
    BY <2>3 DEF DeployNoDocker, TeardownNoDocker, JobDies
  <2>4. CASE DeployPs(j)
    <3>1. Transition(j, "degraded") \/ Transition(j, "active")
      BY <2>4 DEF DeployPs
    <3> QED
      BY <3>1, <1>3
  <2> QED
    BY <2>1, <2>2, <2>3, <2>4
<1>5. OnlyJob(j) /\ JobSafe(j)
  BY <1>1, <1>4, MoveSafe
<1> QED
  BY <1>2, <1>5, QuietStep

\* A rollback touches Docker for the job's own topology only and enters the
\* transition to failed.
LEMMA RollbackFacts ==
    ASSUME TypeOK, NEW j \in Jobs, job[j].t \in Topologies,
           NEW running \in BOOLEAN, Rollback(j, running)
    PROVE  OnlyDocker(job[j].t) /\ Transition(j, "failed")
<1> DEFINE t == job[j].t
<1>1. PICK left \in AfterDown(t, running) : up' = [up EXCEPT ![t] = left]
  BY DEF Rollback
<1>2. left \in BOOLEAN
  BY <1>1 DEF AfterDown
<1>3. PICK kept \in BOOLEAN : nets' = [nets EXCEPT ![t] = kept]
  BY DEF Rollback
<1>4. file' = [file EXCEPT ![t] = FALSE] /\ Transition(j, "failed")
  BY DEF Rollback
<1> QED
  BY <1>1, <1>2, <1>3, <1>4 DEF OnlyDocker, TypeOK

\* Steps that touch Docker: each belongs to a job that has committed its first
\* transition, so the topology is no longer pending.
LEMMA TouchStep ==
    ASSUME DeployInv, NEW j \in Jobs,
           \/ DeployNetworks(j) \/ DeployNetworksFail(j) \/ DeployUp(j)
           \/ DeployUpFail(j) \/ TeardownDown(j) \/ TeardownCleanup(j)
    PROVE  DeployInv'
<1> DEFINE t == job[j].t
<1>1. job[j] # NoJob /\ job[j].at \in DockerSteps
  BY DEF DeployNetworks, DeployNetworksFail, DeployUp, DeployUpFail, TeardownDown,
         TeardownCleanup, At, DockerSteps
<1>2. TypeOK /\ t \in Topologies /\ status[t] # "pending"
  BY <1>1 DEF DeployInv, TypeOK, AJob, TouchedMoved
<1>3. up[t] \in BOOLEAN
  BY <1>2 DEF TypeOK
<1>4. UNCHANGED <<status, events, reliable, planned>>
  BY DEF DeployNetworks, DeployNetworksFail, DeployUp, DeployUpFail, TeardownDown,
         TeardownCleanup
<1>5. /\ OnlyDocker(t)
      /\ \/ \E at \in DockerSteps : Goto(j, at)
         \/ \E new \in ALL \ {"pending"} : Transition(j, new)
  <2>0. {"failed", "torn_down"} \subseteq ALL \ {"pending"}
    BY DEF ALL
  <2>1. CASE DeployNetworks(j)
    BY <2>1, <1>2 DEF DeployNetworks, OnlyDocker, TypeOK, DockerSteps
  <2>2. CASE DeployNetworksFail(j)
    BY <2>0, <2>2, <1>2, <1>3, RollbackFacts DEF DeployNetworksFail
  <2>3. CASE DeployUp(j)
    BY <2>3, <1>2 DEF DeployUp, OnlyDocker, TypeOK, DockerSteps
  <2>4. CASE DeployUpFail(j)
    <3>1. PICK running \in BOOLEAN : Rollback(j, running)
      <4>1. Rollback(j, up[t]) \/ \E started \in BOOLEAN : Rollback(j, started \/ up[t])
        BY <2>4 DEF DeployUpFail
      <4> QED
        BY <4>1, <1>3
    <3> QED
      BY <2>0, <3>1, <1>2, RollbackFacts
  <2>5. CASE TeardownDown(j)
    <3>1. PICK left \in AfterDown(t, up[t]) : up' = [up EXCEPT ![t] = left]
      BY <2>5 DEF TeardownDown
    <3>2. left \in BOOLEAN
      BY <3>1, <1>3 DEF AfterDown
    <3> QED
      BY <2>5, <3>1, <3>2, <1>2 DEF TeardownDown, OnlyDocker, TypeOK, DockerSteps
  <2>6. CASE TeardownCleanup(j)
    <3>1. PICK kept \in BOOLEAN : nets' = [nets EXCEPT ![t] = kept]
      BY <2>6 DEF TeardownCleanup
    <3>2. OnlyDocker(t)
      BY <2>6, <3>1, <1>2 DEF TeardownCleanup, OnlyDocker, TypeOK
    <3> QED
      BY <2>0, <2>6, <3>2 DEF TeardownCleanup
  <2> QED
    BY <2>1, <2>2, <2>3, <2>4, <2>5, <2>6
<1>6. OnlyJob(j) /\ JobSafe(j)
  BY <1>1, <1>2, <1>5, MoveSafe
<1> QED
  BY <1>2, <1>4, <1>5, <1>6, DockerStep

\* A dry run touches a compose file only, of a topology it has read.
LEMMA PlanStep ==
    ASSUME DeployInv, Plan
    PROVE  DeployInv'
<1>1. PICK t \in Topologies : DryRun(t) \/ DryRunWrite(t)
  BY DEF Plan
<1>2. /\ UNCHANGED <<status, events, up, nets, reliable, job, raced>>
      /\ planned \subseteq planned' /\ planned' \subseteq Topologies
      /\ file' \in [Topologies -> BOOLEAN]
      /\ \A s \in Topologies : file'[s] => file[s] \/ s \in planned
  BY <1>1 DEF DryRun, DryRunWrite, DeployInv, TypeOK
<1>3. TypeOK'
  BY <1>2 DEF DeployInv, TypeOK
<1>4. NeverToPending' /\ TouchedMoved'
  BY <1>2 DEF DeployInv, NeverToPending, TouchedMoved
<1>5. PendingUntouched'
  BY <1>2 DEF DeployInv, PendingUntouched
<1> QED
  BY <1>3, <1>4, <1>5 DEF DeployInv

\* The inductive invariant: with any number of racing jobs and whatever Docker
\* does, a job touches Docker only after DEPLOYING or TEARING_DOWN was
\* committed, and no job writes pending back.
THEOREM DeployInvariant == Spec => []DeployInv
<1>1. Init => DeployInv
  <2> SUFFICES ASSUME Init PROVE DeployInv
    OBVIOUS
  <2>1. TypeOK
    BY DEF Init, TypeOK, ALL
  <2>2. \A j \in Jobs : job[j] = NoJob
    BY DEF Init
  <2> QED
    BY <2>1, <2>2 DEF Init, DeployInv, NeverToPending, TouchedMoved, PendingUntouched
<1>2. DeployInv /\ [Next]_vars => DeployInv'
  <2> SUFFICES ASSUME DeployInv, [Next]_vars PROVE DeployInv'
    OBVIOUS
  <2>1. CASE UNCHANGED vars
    BY <2>1 DEF vars, deployVars, dockerVars, DeployInv, TypeOK, NeverToPending,
                TouchedMoved, PendingUntouched
  <2>2. ASSUME NEW j \in Jobs, Request(j) \/ Run(j) \/ JobDies(j)
        PROVE  DeployInv'
    BY <2>2, RequestStep, TransitionStep, DeleteStep, TableStep, TouchStep DEF Run
  <2> QED
    BY <2>1, <2>2, PlanStep DEF Next, DeployNext
<1> QED
  BY <1>1, <1>2, PTL DEF Spec

\* Type correctness of the topology tables, of Docker's facts and of the jobs
\* of deploy_topology, teardown_topology and the delete endpoint.
THEOREM TypeCorrect == Spec => []TypeOK
<1>1. DeployInv => TypeOK
  BY DEF DeployInv
<1> QED
  BY <1>1, DeployInvariant, PTL

\* deploy_topology commits DEPLOYING before it creates the first network: for
\* any number of racing deploys, teardowns and deletes, and whatever fails or
\* dies, nothing of a pending topology exists in Docker, and a compose file of it
\* is one a dry run wrote.
THEOREM PendingUntouchedTheorem == Spec => []PendingUntouched
<1>1. DeployInv => PendingUntouched
  BY DEF DeployInv
<1> QED
  BY <1>1, DeployInvariant, PTL

-----------------------------------------------------------------------------
(* Topologies on which no two jobs met.  What a job's position says about the  *)
(* status and about Docker is then still true at its next step, and the        *)
(* invariant of a topology is that of the one job on it (Stage), or, without   *)
(* a job, that of a topology at rest.                                          *)

On(j, t) == job[j] # NoJob /\ job[j].t = t

\* The job is inside transition_status, on its way to one of the statuses S.
Moving(j, S) == job[j].at \in {"check", "write"} /\ job[j].to \in S

InDocker(t) == up[t] /\ nets[t] /\ file[t]
Gone(t) == ~up[t] /\ ~nets[t] /\ (file[t] => t \in planned)

\* The topology is one that a reliable Docker leaves behind at rest.
Clean(t) ==
    \/ status[t] \in LiveStatuses /\ InDocker(t)
    \/ status[t] \in Deletable \cup {Absent} /\ Gone(t)

\* What the position of job j, alone on its topology, says about it.
DeployStage(j) ==
    LET t == job[j].t IN
    \/ status[t] = "pending" /\ (job[j].at = "hydrate" \/ Moving(j, {"deploying"}))
    \/ status[t] = "deploying" /\ job[j].at = "docker"
    \/ status[t] = "deploying" /\ nets[t] /\ file[t] /\ job[j].at = "up"
    \/ status[t] = "deploying" /\ InDocker(t) /\ (job[j].at = "ps" \/ Moving(j, LiveStatuses))
    \/ status[t] = "deploying" /\ ~reliable /\ Moving(j, {"failed"})

TeardownStage(j) ==
    LET t == job[j].t IN
    \/ /\ status[t] \in Teardownable /\ (reliable => Clean(t))
       /\ job[j].at = "hydrate" \/ Moving(j, {"tearing_down"})
    \/ status[t] = "tearing_down" /\ job[j].at = "down" /\ (reliable /\ up[t] => file[t])
    \/ status[t] = "tearing_down" /\ job[j].at = "cleanup" /\ (reliable => ~up[t])
    \/ status[t] = "tearing_down" /\ Moving(j, {"torn_down"}) /\ (reliable => Gone(t))

DeleteStage(j) ==
    LET t == job[j].t IN
    job[j].at = "cascade" /\ status[t] \in Deletable /\ (reliable => Gone(t))

Stage(j) ==
    /\ job[j].op = "deploy" => DeployStage(j)
    /\ job[j].op = "teardown" => TeardownStage(j)
    /\ job[j].op = "delete" => DeleteStage(j)
    /\ job[j].at = "write" => assert_transition(status[job[j].t], job[j].to)

\* What holds of a topology whether a job works on it or not.
Sound(t) ==
    /\ status[t] \in LiveStatuses => InDocker(t)
    /\ \A e \in events[t] : e[2] \in legal_next(e[1])

SoloTop(t) ==
    /\ \A i, j \in Jobs : On(i, t) /\ On(j, t) => i = j
    /\ \A j \in Jobs : On(j, t) => Stage(j)
    /\ Sound(t)
    /\ reliable /\ Settled(t) => Clean(t)

SoloInv == \A t \in Topologies \ raced : SoloTop(t)

\* The step touches tables and Docker of topology t only.
Framed(t) ==
    /\ UNCHANGED <<reliable, planned>>
    /\ \A s \in Topologies \ {t} :
         /\ status'[s] = status[s] /\ events'[s] = events[s]
         /\ up'[s] = up[s] /\ nets'[s] = nets[s] /\ file'[s] = file[s]

\* The topologies a job does not work on do not notice its steps.
LEMMA SoloOther ==
    ASSUME NEW j \in Jobs, NEW s \in Topologies, NEW t \in Topologies \ {s},
           OnlyJob(j), ~On(j, t), ~On(j, t)', Framed(s), SoloTop(t)
    PROVE  SoloTop(t)'
<1>1. \A i \in Jobs : On(i, t)' <=> On(i, t)
  BY DEF On, OnlyJob
<1>2. \A i \in Jobs : On(i, t) => job'[i] = job[i] /\ job[i].t = t
  BY DEF On, OnlyJob
<1>3. /\ status'[t] = status[t] /\ events'[t] = events[t] /\ up'[t] = up[t]
      /\ nets'[t] = nets[t] /\ file'[t] = file[t] /\ UNCHANGED <<reliable, planned>>
  BY DEF Framed
<1>4. ASSUME NEW i \in Jobs, On(i, t)' PROVE Stage(i)'
  <2>1. Stage(i) /\ job'[i] = job[i] /\ job[i].t = t
    BY <1>1, <1>2, <1>4 DEF SoloTop
  <2> QED
    BY <2>1, <1>3 DEF Stage, DeployStage, TeardownStage, DeleteStage, Moving, InDocker,
                      Gone, Clean
<1>5. Sound(t)'
  BY <1>3 DEF SoloTop, Sound, InDocker
<1>6. reliable' /\ Settled(t)' => Clean(t)'
  <2>1. Settled(t)' => Settled(t)
    BY <1>1 DEF Settled, On
  <2> QED
    BY <2>1, <1>3 DEF SoloTop, Clean, InDocker, Gone
<1> QED
  BY <1>1, <1>4, <1>5, <1>6 DEF SoloTop

\* A step of the only job on a topology.
LEMMA SoloSelf ==
    ASSUME NEW j \in Jobs, NEW t \in Topologies, On(j, t), SoloTop(t), OnlyJob(j),
           job'[j] = NoJob \/ job'[j].t = t, Sound(t)',
           job'[j] # NoJob => Stage(j)',
           job'[j] = NoJob => (reliable' => Clean(t)')
    PROVE  SoloTop(t)'
<1>1. \A i \in Jobs : On(i, t)' => i = j
  BY DEF SoloTop, On, OnlyJob
<1>2. \A i \in Jobs : On(i, t)' => Stage(i)'
  BY <1>1 DEF On
<1>3. Settled(t)' => job'[j] = NoJob
  BY DEF Settled
<1> QED
  BY <1>1, <1>2, <1>3 DEF SoloTop

\* A step of a running job keeps SoloInv if it keeps what its own position
\* says, or leaves a clean topology when the job ends.
LEMMA SoloStep ==
    ASSUME TypeOK, SoloInv, NEW j \in Jobs, NEW t \in Topologies, On(j, t), OnlyJob(j),
           raced' = raced, Framed(t), job'[j] = NoJob \/ job'[j].t = t,
           SoloTop(t) => /\ Sound(t)'
                         /\ job'[j] # NoJob => Stage(j)'
                         /\ job'[j] = NoJob => (reliable' => Clean(t)')
    PROVE  SoloInv'
<1> SUFFICES ASSUME NEW s \in Topologies, s \notin raced PROVE SoloTop(s)'
  BY DEF SoloInv
<1>1. SoloTop(s)
  BY DEF SoloInv
<1>2. CASE s = t
  BY <1>1, <1>2, SoloSelf
<1>3. CASE s # t
  <2>1. ~On(j, s) /\ ~On(j, s)'
    BY <1>3 DEF On
  <2> QED
    BY <1>1, <1>3, <2>1, SoloOther
<1> QED
  BY <1>2, <1>3

\* An endpoint starts a job on a topology at rest, or marks the topology raced.
LEMMA SoloRequest ==
    ASSUME DeployInv, SoloInv, NEW j \in Jobs, Request(j)
    PROVE  SoloInv'
<1>1. PICK t \in Topologies : ApiDeploy(j, t) \/ ApiTeardown(j, t) \/ ApiDelete(j, t)
  BY DEF Request
<1>2. TypeOK /\ job[j] = NoJob /\ UNCHANGED <<status, events, dockerVars>>
  BY <1>1 DEF DeployInv, ApiDeploy, ApiTeardown, ApiDelete
<1>3. PICK op \in {"deploy", "teardown", "delete"}, at \in {"hydrate", "cascade"} :
        /\ Start(j, op, t, at)
        /\ op = "deploy" => at = "hydrate" /\ status[t] = "pending"
        /\ op = "teardown" => at = "hydrate" /\ status[t] \in Teardownable
        /\ op = "delete" => at = "cascade" /\ status[t] \in Deletable
  <2>1. CASE ApiDeploy(j, t)
    BY <2>1 DEF ApiDeploy
  <2>2. CASE ApiTeardown(j, t)
    BY <2>2 DEF ApiTeardown
  <2>3. CASE ApiDelete(j, t)
    BY <2>3 DEF ApiDelete
  <2> QED
    BY <1>1, <2>1, <2>2, <2>3
<1>4. /\ OnlyJob(j)
      /\ job'[j] = [op |-> op, t |-> t, at |-> at, to |-> "pending"]
      /\ raced' = IF Settled(t) THEN raced ELSE raced \cup {t}
  <2>1. at \in Steps
    BY DEF Steps
  <2> QED
    BY <1>2, <1>3, <2>1, StartFacts
<1>5. Framed(t)
  BY <1>2 DEF Framed, dockerVars
<1>6. SUFFICES ASSUME NEW s \in Topologies, s \notin raced' PROVE SoloTop(s)'
  BY DEF SoloInv
<1>7. s \notin raced /\ SoloTop(s)
  BY <1>4, <1>6 DEF SoloInv
<1>8. CASE s # t
  <2>1. ~On(j, s) /\ ~On(j, s)'
    BY <1>2, <1>4, <1>8 DEF On
  <2> QED
    BY <1>4, <1>5, <1>7, <1>8, <2>1, SoloOther
<1>9. CASE s = t
  <2>1. Settled(t)
    BY <1>4, <1>6, <1>9
  <2>2. \A i \in Jobs : On(i, t)' => i = j
    BY <1>4, <2>1 DEF On, OnlyJob, Settled
  <2>3. reliable => Clean(t)
    BY <1>7, <1>9, <2>1 DEF SoloTop
  <2>4. UNCHANGED <<status, events, up, nets, file, reliable, planned>>
    BY <1>2 DEF dockerVars
  <2>5. job'[j].op = op /\ job'[j].t = t /\ job'[j].at = at
    BY <1>4
  <2>6. Stage(j)'
    <3>1. CASE op = "deploy"
      BY <3>1, <1>3, <2>4, <2>5 DEF Stage, DeployStage
    <3>2. CASE op = "teardown"
      BY <3>2, <1>3, <2>3, <2>4, <2>5 DEF Stage, TeardownStage, Clean, InDocker, Gone
    <3>3. CASE op = "delete"
      <4>1. reliable => Gone(t)
        BY <3>3, <1>3, <2>3 DEF Clean, Deletable, LiveStatuses
      <4> QED
        BY <3>3, <1>3, <4>1, <2>4, <2>5 DEF Stage, DeleteStage, Gone
    <3> QED
      BY <3>1, <3>2, <3>3
  <2>7. Sound(t)'
    BY <1>7, <1>9, <2>4 DEF SoloTop, Sound, InDocker
  <2>8. ~Settled(t)'
    <3>1. job'[j] # NoJob
      <4>1. NoJob.op = "none"
        BY DEF NoJob
      <4> QED
        BY <4>1, <2>5
    <3> QED
      BY <3>1, <2>5 DEF Settled
  <2> QED
    BY <1>9, <2>2, <2>6, <2>7, <2>8 DEF SoloTop, On
<1> QED
  BY <1>8, <1>9

\* transition_status: alone on its topology a job passes the check and writes
\* what it checked.
LEMMA SoloCheck ==
    ASSUME DeployInv, SoloInv, NEW j \in Jobs, CheckTransition(j)
    PROVE  SoloInv'
<1>0. PICK t \in Topologies : t = job[j].t
  BY DEF DeployInv, TypeOK, CheckTransition, AJob
<1>1. /\ TypeOK /\ job[j] # NoJob /\ job[j].at = "check" /\ On(j, t)
      /\ job[j].op \in {"deploy", "teardown", "delete"}
  BY <1>0 DEF DeployInv, TypeOK, CheckTransition, AJob, On
<1>2. UNCHANGED <<status, events, up, nets, file, reliable, planned>>
  BY DEF CheckTransition, dockerVars
<1>3. Framed(t)
  BY <1>0, <1>2 DEF Framed
<1>4. CASE assert_transition(status[t], job[j].to)
  <2>1. Goto(j, "write") /\ "write" \in Steps
    BY <1>0, <1>4 DEF CheckTransition, Steps
  <2>2. /\ OnlyJob(j) /\ job'[j] # NoJob /\ raced' = raced
        /\ job'[j] = [op |-> job[j].op, t |-> t, at |-> "write", to |-> job[j].to]
    BY <1>0, <1>1, <2>1, GotoFacts
  <2>3. /\ job'[j].op = job[j].op /\ job'[j].t = t /\ job'[j].at = "write"
        /\ job'[j].to = job[j].to
    BY <1>0, <2>2
  <2>4. ASSUME SoloTop(t) PROVE Sound(t)' /\ Stage(j)'
    <3>1. Stage(j) /\ Sound(t)
      BY <1>0, <1>1, <2>4 DEF SoloTop
    <3>2. Sound(t)'
      BY <1>0, <3>1, <1>2 DEF Sound, InDocker
    <3>3. Stage(j)'
      BY <1>0, <3>1, <1>1, <1>2, <1>4, <2>3
        DEF Stage, DeployStage, TeardownStage, DeleteStage, Moving, InDocker, Gone, Clean
    <3> QED
      BY <1>0, <3>2, <3>3
  <2> QED
    BY <1>0, <1>1, <1>3, <2>2, <2>3, <2>4, SoloStep
<1>5. CASE ~assert_transition(status[t], job[j].to)
  <2>1. End(j)
    BY <1>0, <1>5 DEF CheckTransition
  <2>2. OnlyJob(j) /\ job'[j] = NoJob /\ raced' = raced
    BY <1>0, <1>1, <2>1, EndFacts
  <2>3. ASSUME SoloTop(t) PROVE FALSE
    <3>1. Stage(j)
      BY <1>0, <1>1, <2>3 DEF SoloTop
    <3>2. CASE job[j].op = "deploy"
      <4>1. DeployStage(j)
        BY <1>0, <3>1, <3>2 DEF Stage
      <4> QED
        BY <1>0, <4>1, <1>1, <1>5 DEF DeployStage, Moving, assert_transition, legal_next, ALL,
                                LiveStatuses
    <3>3. CASE job[j].op = "teardown"
      <4>1. TeardownStage(j)
        BY <1>0, <3>1, <3>3 DEF Stage
      <4> QED
        BY <1>0, <4>1, <1>1, <1>5 DEF TeardownStage, Moving, assert_transition, legal_next, ALL,
                                Teardownable
    <3>4. CASE job[j].op = "delete"
      BY <1>0, <3>1, <3>4, <1>1 DEF Stage, DeleteStage
    <3> QED
      BY <1>0, <1>1, <3>2, <3>3, <3>4
  <2> QED
    BY <1>0, <1>1, <1>3, <2>2, <2>3, SoloStep
<1> QED
  BY <1>0, <1>4, <1>5

\* update_topology_status writes what was checked, and records it.
LEMMA SoloWrite ==
    ASSUME DeployInv, SoloInv, NEW j \in Jobs, UpdateTopologyStatus(j)
    PROVE  SoloInv'
<1>0. PICK t \in Topologies, new \in ALL : t = job[j].t /\ new = job[j].to
  BY DEF DeployInv, TypeOK, UpdateTopologyStatus, AJob
<1>1. /\ TypeOK /\ job[j] # NoJob /\ job[j].at = "write" /\ On(j, t)
      /\ job[j].op \in {"deploy", "teardown", "delete"}
  BY <1>0 DEF DeployInv, TypeOK, UpdateTopologyStatus, AJob, On
<1>2. UNCHANGED <<up, nets, file, reliable, planned>>
  BY DEF UpdateTopologyStatus, dockerVars
<1>3. /\ status' = [status EXCEPT ![t] = IF @ = Absent THEN Absent ELSE new]
      /\ events' = [events EXCEPT ![t] = IF status[t] = Absent THEN @
                                         ELSE @ \cup {<<status[t], new>>}]
  BY <1>0 DEF UpdateTopologyStatus
<1>4. Framed(t)
  BY <1>0, <1>1, <1>2, <1>3 DEF Framed, TypeOK
<1>5. /\ OnlyJob(j) /\ raced' = raced
      /\ new = "deploying" => /\ job'[j] # NoJob
                              /\ job'[j] = [op |-> job[j].op, t |-> t, at |-> "docker", to |-> new]
      /\ new = "tearing_down" => /\ job'[j] # NoJob
                                 /\ job'[j] = [op |-> job[j].op, t |-> t, at |-> "down", to |-> new]
      /\ new \notin {"deploying", "tearing_down"} => job'[j] = NoJob
  <2>0. "docker" \in Steps /\ "down" \in Steps
    BY DEF Steps
  <2>1. CASE new = "deploying"
    <3>1. Goto(j, "docker")
      BY <1>0, <2>1 DEF UpdateTopologyStatus
    <3> QED
      BY <1>0, <1>1, <2>0, <2>1, <3>1, GotoFacts
  <2>2. CASE new = "tearing_down"
    <3>1. Goto(j, "down")
      BY <1>0, <2>2 DEF UpdateTopologyStatus
    <3> QED
      BY <1>0, <1>1, <2>0, <2>2, <3>1, GotoFacts
  <2>3. CASE new \notin {"deploying", "tearing_down"}
    <3>1. End(j)
      BY <1>0, <2>3 DEF UpdateTopologyStatus
    <3> QED
      BY <1>0, <1>1, <2>3, <3>1, EndFacts
  <2> QED
    BY <1>0, <2>1, <2>2, <2>3
<1>6. ASSUME SoloTop(t)
      PROVE  /\ Sound(t)'
             /\ job'[j] # NoJob => Stage(j)'
             /\ job'[j] = NoJob => (reliable' => Clean(t)')
  <2>1. /\ Stage(j) /\ Sound(t)
        /\ status[t] \in ALL /\ new \in legal_next(status[t])
    BY <1>0, <1>1, <1>6 DEF SoloTop, Stage, assert_transition
  <2>2. status'[t] = new /\ events'[t] = events[t] \cup {<<status[t], new>>}
    BY <1>0, <2>1, <1>1, <1>3 DEF TypeOK, ALL, Absent
  <2>3. \A e \in events'[t] : e[2] \in legal_next(e[1])
    BY <1>0, <2>1, <2>2 DEF Sound
  <2>4. CASE job[j].op = "deploy"
    <3>1. \/ status[t] = "pending" /\ new = "deploying"
          \/ status[t] = "deploying" /\ InDocker(t) /\ new \in LiveStatuses
          \/ status[t] = "deploying" /\ ~reliable /\ new = "failed"
      BY <1>0, <2>1, <2>4, <1>1 DEF Stage, DeployStage, Moving
    <3>2. CASE status[t] = "pending" /\ new = "deploying"
      <4>1. job'[j].op = "deploy" /\ job'[j].t = t /\ job'[j].at = "docker" /\ job'[j] # NoJob
        BY <1>0, <1>5, <2>4, <3>2
      <4> QED
        BY <1>0, <4>1, <3>2, <2>2, <2>3 DEF Stage, DeployStage, Sound, LiveStatuses
    <3>3. CASE status[t] = "deploying" /\ InDocker(t) /\ new \in LiveStatuses
      <4>1. job'[j] = NoJob
        BY <1>0, <1>5, <3>3 DEF LiveStatuses
      <4> QED
        BY <1>0, <4>1, <3>3, <2>2, <2>3, <1>2 DEF Sound, Clean, InDocker
    <3>4. CASE status[t] = "deploying" /\ ~reliable /\ new = "failed"
      <4>1. job'[j] = NoJob
        BY <1>0, <1>5, <3>4
      <4> QED
        BY <1>0, <4>1, <3>4, <2>2, <2>3, <1>2 DEF Sound, LiveStatuses
    <3> QED
      BY <1>0, <3>1, <3>2, <3>3, <3>4
  <2>5. CASE job[j].op = "teardown"
    <3>1. \/ status[t] \in Teardownable /\ (reliable => Clean(t)) /\ new = "tearing_down"
          \/ status[t] = "tearing_down" /\ new = "torn_down" /\ (reliable => Gone(t))
      BY <1>0, <2>1, <2>5, <1>1 DEF Stage, TeardownStage, Moving
    <3>2. CASE status[t] \in Teardownable /\ (reliable => Clean(t)) /\ new = "tearing_down"
      <4>1. job'[j].op = "teardown" /\ job'[j].t = t /\ job'[j].at = "down" /\ job'[j] # NoJob
        BY <1>0, <1>5, <2>5, <3>2
      <4>2. reliable' /\ up'[t] => file'[t]
        BY <1>0, <3>2, <1>2 DEF Clean, InDocker, Gone
      <4> QED
        BY <1>0, <4>1, <4>2, <3>2, <2>2, <2>3 DEF Stage, TeardownStage, Sound, LiveStatuses
    <3>3. CASE status[t] = "tearing_down" /\ new = "torn_down" /\ (reliable => Gone(t))
      <4>1. job'[j] = NoJob
        BY <1>0, <1>5, <3>3
      <4> QED
        BY <1>0, <4>1, <3>3, <2>2, <2>3, <1>2 DEF Sound, Clean, Gone, LiveStatuses, Deletable
    <3> QED
      BY <1>0, <3>1, <3>2, <3>3
  <2>6. CASE job[j].op = "delete"
    BY <1>0, <2>1, <2>6, <1>1 DEF Stage, DeleteStage
  <2> QED
    BY <1>0, <1>1, <2>4, <2>5, <2>6
<1>7. job'[j] = NoJob \/ job'[j].t = t
  BY <1>0, <1>5
<1> QED
  BY <1>0, <1>1, <1>4, <1>5, <1>6, <1>7, SoloStep

\* delete_topology_cascade: the row goes, and Docker was clean already.
LEMMA SoloDelete ==
    ASSUME DeployInv, SoloInv, NEW j \in Jobs, DeleteCascade(j)
    PROVE  SoloInv'
<1>0. PICK t \in Topologies : t = job[j].t
  BY DEF DeployInv, TypeOK, DeleteCascade, At, AJob
<1>1. TypeOK /\ job[j] # NoJob /\ On(j, t) /\ job[j].op = "delete"
  BY <1>0 DEF DeployInv, DeleteCascade, At, On
<1>2. /\ status' = [status EXCEPT ![t] = Absent] /\ events' = [events EXCEPT ![t] = {}]
      /\ UNCHANGED <<up, nets, file, reliable, planned>>
  BY <1>0 DEF DeleteCascade, dockerVars
<1>3. OnlyJob(j) /\ job'[j] = NoJob /\ raced' = raced
  BY <1>1, EndFacts DEF DeleteCascade
<1>4. Framed(t)
  BY <1>1, <1>2 DEF Framed, TypeOK
<1>5. ASSUME SoloTop(t) PROVE Sound(t)' /\ (reliable' => Clean(t)')
  <2>1. reliable => Gone(t)
    BY <1>0, <1>1, <1>5 DEF SoloTop, Stage, DeleteStage
  <2>2. status'[t] = Absent /\ events'[t] = {}
    BY <1>1, <1>2 DEF TypeOK
  <2> QED
    BY <2>1, <2>2, <1>2 DEF Sound, Clean, Gone, LiveStatuses, Absent
<1> QED
  BY <1>1, <1>3, <1>4, <1>5, SoloStep

\* The job ends where it is, with tables and Docker as they are: allowed on an
\* unreliable host, or with a clean topology.
LEMMA SoloEnd ==
    ASSUME DeployInv, SoloInv, NEW j \in Jobs, NEW t \in Topologies, On(j, t), End(j),
           UNCHANGED <<status, events, dockerVars>>,
           SoloTop(t) /\ reliable => Clean(t)
    PROVE  SoloInv'
<1>1. TypeOK
  BY DEF DeployInv
<1>2. OnlyJob(j) /\ job'[j] = NoJob /\ raced' = raced
  BY <1>1, EndFacts
<1>3. UNCHANGED <<status, events, up, nets, file, reliable, planned>>
  BY DEF dockerVars
<1>4. Framed(t)
  BY <1>3 DEF Framed
<1>5. ASSUME SoloTop(t) PROVE Sound(t)' /\ (reliable' => Clean(t)')
  BY <1>3, <1>5 DEF SoloTop, Sound, Clean, InDocker, Gone
<1> QED
  BY <1>1, <1>2, <1>4, <1>5, SoloStep

\* The job goes on with the tables as they are: to step at, or into the
\* transition to new.
LEMMA SoloGo ==
    ASSUME DeployInv, SoloInv, NEW j \in Jobs, NEW t \in Topologies, On(j, t),
           NEW at \in Steps \ {"write"}, NEW new \in ALL,
           \/ Goto(j, at) /\ new = job[j].to
           \/ Transition(j, new) /\ at = "check",
           UNCHANGED <<status, events, reliable, planned>>, Framed(t),
           ASSUME SoloTop(t), job'[j].op = job[j].op, job'[j].t = t, job'[j].at = at,
                  job'[j].to = new
           PROVE  /\ status[t] \in LiveStatuses => InDocker(t)'
                  /\ job[j].op = "deploy" => DeployStage(j)'
                  /\ job[j].op = "teardown" => TeardownStage(j)'
                  /\ job[j].op # "delete"
    PROVE  SoloInv'
<1>1. TypeOK /\ job[j] # NoJob /\ job[j].t = t
  BY DEF DeployInv, On
<1>2. /\ OnlyJob(j) /\ raced' = raced /\ job'[j] # NoJob
      /\ job'[j] = [op |-> job[j].op, t |-> t, at |-> at, to |-> new]
  <2>1. CASE Goto(j, at) /\ new = job[j].to
    BY <1>1, <2>1, GotoFacts
  <2>2. CASE Transition(j, new) /\ at = "check"
    BY <1>1, <2>2, TransitionFacts
  <2> QED
    BY <2>1, <2>2
<1>3. job'[j].op = job[j].op /\ job'[j].t = t /\ job'[j].at = at /\ job'[j].to = new
  BY <1>2
<1>4. ASSUME SoloTop(t) PROVE Sound(t)' /\ Stage(j)'
  <2>1. /\ status[t] \in LiveStatuses => InDocker(t)'
        /\ job[j].op = "deploy" => DeployStage(j)'
        /\ job[j].op = "teardown" => TeardownStage(j)'
        /\ job[j].op # "delete"
    BY <1>3, <1>4
  <2>2. Sound(t)'
    BY <2>1, <1>4 DEF SoloTop, Sound
  <2>3. Stage(j)'
    BY <2>1, <1>3 DEF Stage
  <2> QED
    BY <2>2, <2>3
<1> QED
  BY <1>1, <1>2, <1>3, <1>4, SoloStep

\* The steps that leave tables and Docker alone.
LEMMA SoloQuiet ==
    ASSUME DeployInv, SoloInv, NEW j \in Jobs,
           \/ DeployHydrate(j) \/ TeardownHydrate(j) \/ DeployNoDocker(j)
           \/ TeardownNoDocker(j) \/ DeployPs(j) \/ JobDies(j)
    PROVE  SoloInv'
<1>0. job[j] # NoJob /\ UNCHANGED <<status, events, dockerVars>>
  BY DEF DeployHydrate, TeardownHydrate, DeployNoDocker, TeardownNoDocker, DeployPs,
         JobDies, At
<1>1. PICK t \in Topologies : t = job[j].t
  BY <1>0 DEF DeployInv, TypeOK, AJob
<1>2. /\ On(j, t) /\ job[j].to \in ALL /\ PendingUntouched
      /\ job[j].op \in {"deploy", "teardown", "delete"}
  BY <1>0, <1>1 DEF On, DeployInv, TypeOK, AJob
<1>3. UNCHANGED <<status, events, up, nets, file, reliable, planned>>
  BY <1>0 DEF dockerVars
<1>4. Framed(t)
  BY <1>3 DEF Framed
<1>5. "check" \in Steps \ {"write"}
      /\ {"deploying", "tearing_down", "active", "degraded"} \subseteq ALL
  BY DEF Steps, ALL
<1>6. CASE DeployHydrate(j)
  <2>1. job[j].op = "deploy" /\ job[j].at = "hydrate"
    BY <1>6 DEF DeployHydrate, At
  <2>2. SoloTop(t) => status[t] = "pending"
    BY <1>1, <1>2, <2>1 DEF SoloTop, Stage, DeployStage, Moving
  <2>3. CASE End(j)
    <3>1. SoloTop(t) /\ reliable => Clean(t)
      BY <1>2, <2>2 DEF PendingUntouched, Clean, Gone, Deletable
    <3> QED
      BY <1>0, <1>2, <2>3, <3>1, SoloEnd
  <2>4. CASE Transition(j, "deploying")
    <3>1. ASSUME SoloTop(t), job'[j].op = job[j].op, job'[j].t = t, job'[j].at = "check",
                 job'[j].to = "deploying"
          PROVE  /\ status[t] \in LiveStatuses => InDocker(t)'
                 /\ DeployStage(j)'
      BY <1>3, <2>2, <3>1 DEF LiveStatuses, DeployStage, Moving
    <3> QED
      BY <1>2, <1>3, <1>4, <1>5, <2>1, <2>4, <3>1, SoloGo
  <2> QED
    BY <1>6, <2>3, <2>4 DEF DeployHydrate
<1>7. CASE TeardownHydrate(j)
  <2>1. job[j].op = "teardown" /\ job[j].at = "hydrate"
    BY <1>7 DEF TeardownHydrate, At
  <2>2. SoloTop(t) => status[t] \in Teardownable /\ (reliable => Clean(t))
    BY <1>1, <1>2, <2>1 DEF SoloTop, Stage, TeardownStage, Moving
  <2>3. CASE End(j)
    <3>1. SoloTop(t) /\ reliable => Clean(t)
      BY <2>2
    <3> QED
      BY <1>0, <1>2, <2>3, <3>1, SoloEnd
  <2>4. CASE Transition(j, "tearing_down")
    <3>1. ASSUME SoloTop(t), job'[j].op = job[j].op, job'[j].t = t, job'[j].at = "check",
                 job'[j].to = "tearing_down"
          PROVE  /\ status[t] \in LiveStatuses => InDocker(t)'
                 /\ TeardownStage(j)'
      <4>1. status[t] \in LiveStatuses => InDocker(t)'
        BY <1>3, <3>1 DEF SoloTop, Sound, InDocker
      <4>2. TeardownStage(j)'
        BY <1>3, <2>2, <3>1 DEF TeardownStage, Moving, Clean, InDocker, Gone
      <4> QED
        BY <4>1, <4>2
    <3> QED
      BY <1>2, <1>3, <1>4, <1>5, <2>1, <2>4, <3>1, SoloGo
  <2> QED
    BY <1>7, <2>3, <2>4 DEF TeardownHydrate
<1>8. CASE DeployNoDocker(j) \/ TeardownNoDocker(j) \/ JobDies(j)
  <2>1. End(j) /\ ~reliable
    BY <1>8 DEF DeployNoDocker, TeardownNoDocker, JobDies
  <2> QED
    BY <1>0, <1>2, <2>1, SoloEnd
<1>9. CASE DeployPs(j)
  <2>1. job[j].op = "deploy" /\ job[j].at = "ps"
    BY <1>9 DEF DeployPs, At
  <2>2. PICK new \in LiveStatuses : Transition(j, new)
    BY <1>9 DEF DeployPs, LiveStatuses
  <2>3. new \in ALL
    BY DEF LiveStatuses, ALL
  <2>4. ASSUME SoloTop(t), job'[j].op = job[j].op, job'[j].t = t, job'[j].at = "check",
               job'[j].to = new
        PROVE  /\ status[t] \in LiveStatuses => InDocker(t)'
               /\ DeployStage(j)'
    <3>1. status[t] = "deploying" /\ InDocker(t)
      BY <1>1, <1>2, <2>1, <2>4 DEF SoloTop, Stage, DeployStage, Moving
    <3> QED
      BY <1>3, <2>4, <3>1 DEF DeployStage, Moving, InDocker
  <2> QED
    BY <1>2, <1>3, <1>4, <1>5, <2>1, <2>2, <2>3, <2>4, SoloGo
<1> QED
  BY <1>6, <1>7, <1>8, <1>9

\* A rollback happens on an unreliable host only, or when the compose file is
\* gone, which another job must have done.
LEMMA SoloRollback ==
    ASSUME DeployInv, SoloInv, NEW j \in Jobs, NEW t \in Topologies, On(j, t),
           job[j].op = "deploy", NEW running \in BOOLEAN, Rollback(j, running),
           SoloTop(t) => status[t] = "deploying" /\ ~reliable,
           UNCHANGED <<status, events, reliable, planned>>
    PROVE  SoloInv'
<1>1. TypeOK /\ job[j].t = t
  BY DEF DeployInv, On
<1>2. OnlyDocker(t) /\ Transition(j, "failed")
  BY <1>1, RollbackFacts
<1>3. Framed(t)
  BY <1>2 DEF Framed, OnlyDocker
<1>4. "check" \in Steps \ {"write"} /\ "failed" \in ALL
  BY DEF Steps, ALL
<1>5. ASSUME SoloTop(t), job'[j].op = job[j].op, job'[j].t = t, job'[j].at = "check",
             job'[j].to = "failed"
      PROVE  /\ status[t] \in LiveStatuses => InDocker(t)'
             /\ DeployStage(j)'
  BY <1>5 DEF LiveStatuses, DeployStage, Moving
<1> QED
  BY <1>2, <1>3, <1>4, <1>5, SoloGo

\* The steps that touch Docker.
LEMMA SoloDocker ==
    ASSUME DeployInv, SoloInv, NEW j \in Jobs,
           \/ DeployNetworks(j) \/ DeployNetworksFail(j) \/ DeployUp(j) \/ DeployUpFail(j)
           \/ TeardownDown(j) \/ TeardownCleanup(j)
    PROVE  SoloInv'
<1>0. job[j] # NoJob /\ UNCHANGED <<status, events, reliable, planned>>
  BY DEF DeployNetworks, DeployNetworksFail, DeployUp, DeployUpFail, TeardownDown,
         TeardownCleanup, At
<1>1. PICK t \in Topologies : t = job[j].t
  BY <1>0 DEF DeployInv, TypeOK, AJob
<1>2. On(j, t) /\ job[j].to \in ALL /\ TypeOK /\ up[t] \in BOOLEAN
  BY <1>0, <1>1 DEF On, DeployInv, TypeOK, AJob
<1>3. {"up", "ps", "cleanup", "check"} \subseteq Steps \ {"write"} /\ "torn_down" \in ALL
  BY DEF Steps, ALL
<1>4. ASSUME SoloTop(t) PROVE Stage(j)
  BY <1>2, <1>4 DEF SoloTop
<1>5. CASE DeployNetworks(j)
  <2>1. /\ job[j].op = "deploy" /\ job[j].at = "docker" /\ Goto(j, "up")
        /\ nets' = [nets EXCEPT ![t] = TRUE] /\ file' = [file EXCEPT ![t] = TRUE]
        /\ up' = up
    BY <1>1, <1>5 DEF DeployNetworks, At
  <2>2. Framed(t) /\ nets'[t] /\ file'[t]
    BY <1>0, <1>2, <2>1 DEF Framed, TypeOK
  <2>3. ASSUME SoloTop(t), job'[j].op = job[j].op, job'[j].t = t, job'[j].at = "up",
               job'[j].to = job[j].to
        PROVE  /\ status[t] \in LiveStatuses => InDocker(t)'
               /\ DeployStage(j)'
    <3>1. status[t] = "deploying"
      BY <1>1, <1>4, <2>1, <2>3 DEF Stage, DeployStage, Moving
    <3> QED
      BY <1>0, <2>2, <2>3, <3>1 DEF DeployStage, LiveStatuses
  <2> QED
    BY <1>0, <1>2, <1>3, <2>1, <2>2, <2>3, SoloGo
<1>6. CASE DeployNetworksFail(j)
  <2>1. job[j].op = "deploy" /\ job[j].at = "docker" /\ ~reliable /\ Rollback(j, up[t])
    BY <1>1, <1>6 DEF DeployNetworksFail, At
  <2>2. SoloTop(t) => status[t] = "deploying"
    BY <1>1, <1>4, <2>1 DEF Stage, DeployStage, Moving
  <2> QED
    BY <1>0, <1>2, <2>1, <2>2, SoloRollback
<1>7. CASE DeployUp(j)
  <2>1. /\ job[j].op = "deploy" /\ job[j].at = "up" /\ Goto(j, "ps")
        /\ up' = [up EXCEPT ![t] = TRUE] /\ nets' = nets /\ file' = file
    BY <1>1, <1>7 DEF DeployUp, At
  <2>2. Framed(t) /\ up'[t]
    BY <1>0, <1>2, <2>1 DEF Framed, TypeOK
  <2>3. ASSUME SoloTop(t), job'[j].op = job[j].op, job'[j].t = t, job'[j].at = "ps",
               job'[j].to = job[j].to
        PROVE  /\ status[t] \in LiveStatuses => InDocker(t)'
               /\ DeployStage(j)'
    <3>1. status[t] = "deploying" /\ nets[t] /\ file[t]
      BY <1>1, <1>4, <2>1, <2>3 DEF Stage, DeployStage, Moving
    <3> QED
      BY <1>0, <2>1, <2>2, <2>3, <3>1 DEF DeployStage, InDocker
  <2> QED
    BY <1>0, <1>2, <1>3, <2>1, <2>2, <2>3, SoloGo
<1>8. CASE DeployUpFail(j)
  <2>1. /\ job[j].op = "deploy" /\ job[j].at = "up" /\ (~file[t] \/ ~reliable)
        /\ \E running \in BOOLEAN : Rollback(j, running)
    <3>1. Rollback(j, up[t]) \/ \E started \in BOOLEAN : Rollback(j, started \/ up[t])
      BY <1>1, <1>8 DEF DeployUpFail
    <3>2. job[j].op = "deploy" /\ job[j].at = "up" /\ (~file[t] \/ ~reliable)
      BY <1>1, <1>8 DEF DeployUpFail, At
    <3> QED
      BY <1>2, <3>1, <3>2
  <2>2. SoloTop(t) => status[t] = "deploying" /\ ~reliable
    BY <1>1, <1>4, <2>1 DEF Stage, DeployStage, Moving
  <2> QED
    BY <1>0, <1>2, <2>1, <2>2, SoloRollback
<1>9. CASE TeardownDown(j)
  <2>1. /\ job[j].op = "teardown" /\ job[j].at = "down" /\ Goto(j, "cleanup")
        /\ nets' = nets /\ file' = file
        /\ \E left \in AfterDown(t, up[t]) : up' = [up EXCEPT ![t] = left]
    BY <1>1, <1>9 DEF TeardownDown, At
  <2>2. Framed(t)
    BY <1>0, <1>2, <2>1 DEF Framed, TypeOK
  <2>3. reliable /\ (up[t] => file[t]) => ~up'[t]
    BY <1>2, <2>1 DEF AfterDown, TypeOK
  <2>4. ASSUME SoloTop(t), job'[j].op = job[j].op, job'[j].t = t, job'[j].at = "cleanup",
               job'[j].to = job[j].to
        PROVE  /\ status[t] \in LiveStatuses => InDocker(t)'
               /\ TeardownStage(j)'
    <3>1. status[t] = "tearing_down" /\ (reliable /\ up[t] => file[t])
      BY <1>1, <1>4, <2>1, <2>4 DEF Stage, TeardownStage, Moving
    <3> QED
      BY <1>0, <2>3, <2>4, <3>1 DEF TeardownStage, LiveStatuses
  <2> QED
    BY <1>0, <1>2, <1>3, <2>1, <2>2, <2>4, SoloGo
<1>10. CASE TeardownCleanup(j)
  <2>1. /\ job[j].op = "teardown" /\ job[j].at = "cleanup" /\ Transition(j, "torn_down")
        /\ up' = up /\ file' = [file EXCEPT ![t] = FALSE]
        /\ \E kept \in BOOLEAN : (kept => ~reliable) /\ nets' = [nets EXCEPT ![t] = kept]
    BY <1>1, <1>10 DEF TeardownCleanup, At
  <2>2. Framed(t) /\ ~file'[t] /\ (reliable => ~nets'[t])
    BY <1>0, <1>2, <2>1 DEF Framed, TypeOK
  <2>3. ASSUME SoloTop(t), job'[j].op = job[j].op, job'[j].t = t, job'[j].at = "check",
               job'[j].to = "torn_down"
        PROVE  /\ status[t] \in LiveStatuses => InDocker(t)'
               /\ TeardownStage(j)'
    <3>1. status[t] = "tearing_down" /\ (reliable => ~up[t])
      BY <1>1, <1>4, <2>1, <2>3 DEF Stage, TeardownStage, Moving
    <3> QED
      BY <1>0, <2>1, <2>2, <2>3, <3>1 DEF TeardownStage, Moving, Gone, LiveStatuses
  <2> QED
    BY <1>0, <1>2, <1>3, <2>1, <2>2, <2>3, SoloGo
<1> QED
  BY <1>5, <1>6, <1>7, <1>8, <1>9, <1>10

\* A dry run leaves the jobs and the statuses alone and adds a compose file.
LEMMA SoloPlan ==
    ASSUME DeployInv, SoloInv, Plan
    PROVE  SoloInv'
<1>1. PICK t \in Topologies : DryRun(t) \/ DryRunWrite(t)
  BY DEF Plan
<1>2. /\ UNCHANGED <<status, events, up, nets, reliable, job, raced>>
      /\ planned \subseteq planned'
      /\ \A s \in Topologies : file'[s] => file[s] \/ s \in planned
      /\ \A s \in Topologies : file[s] => file'[s]
  BY <1>1 DEF DryRun, DryRunWrite, DeployInv, TypeOK
<1>3. SUFFICES ASSUME NEW s \in Topologies, s \notin raced PROVE SoloTop(s)'
  BY <1>2 DEF SoloInv
<1>4. SoloTop(s)
  BY <1>3 DEF SoloInv
<1>5. /\ InDocker(s) => InDocker(s)'
      /\ Gone(s) => Gone(s)'
      /\ Clean(s) => Clean(s)'
      /\ file[s] => file'[s]
  BY <1>2 DEF InDocker, Gone, Clean
<1>6. ASSUME NEW i \in Jobs, On(i, s)' PROVE Stage(i)'
  <2>1. Stage(i) /\ job'[i] = job[i] /\ job[i].t = s
    BY <1>2, <1>4, <1>6 DEF SoloTop, On
  <2>2. DeployStage(i) => DeployStage(i)'
    BY <2>1, <1>2, <1>5 DEF DeployStage, Moving
  <2>3. TeardownStage(i) => TeardownStage(i)'
    BY <2>1, <1>2, <1>5 DEF TeardownStage, Moving
  <2>4. DeleteStage(i) => DeleteStage(i)'
    BY <2>1, <1>2, <1>5 DEF DeleteStage
  <2> QED
    BY <2>1, <2>2, <2>3, <2>4, <1>2 DEF Stage
<1>7. Sound(s)'
  BY <1>2, <1>4, <1>5 DEF SoloTop, Sound
<1>8. \A i, j \in Jobs : On(i, s)' /\ On(j, s)' => i = j
  BY <1>2, <1>4 DEF SoloTop, On
<1>9. reliable' /\ Settled(s)' => Clean(s)'
  BY <1>2, <1>4, <1>5 DEF SoloTop, Settled
<1> QED
  BY <1>6, <1>7, <1>8, <1>9 DEF SoloTop

\* The invariant of the topologies on which no two jobs met, for any number of
\* jobs and topologies, whatever Docker does and whichever process dies.
THEOREM SoloInvariant == Spec => []SoloInv
<1>1. Init => SoloInv
  <2> SUFFICES ASSUME Init, NEW t \in Topologies PROVE SoloTop(t)
    BY DEF SoloInv
  <2>1. \A j \in Jobs : ~On(j, t)
    BY DEF Init, On
  <2>2. status[t] = "pending" /\ events[t] = {} /\ ~up[t] /\ ~nets[t] /\ ~file[t]
    BY DEF Init
  <2>3. Sound(t) /\ Clean(t)
    BY <2>2 DEF Sound, Clean, Gone, LiveStatuses, Deletable
  <2> QED
    BY <2>1, <2>3 DEF SoloTop
<1>2. DeployInv /\ SoloInv /\ [Next]_vars => SoloInv'
  <2> SUFFICES ASSUME DeployInv, SoloInv, [Next]_vars PROVE SoloInv'
    OBVIOUS
  <2>1. CASE UNCHANGED vars
    <3>1. UNCHANGED <<status, events, up, nets, file, reliable, planned, job, raced>>
      BY <2>1 DEF vars, deployVars, dockerVars
    <3> QED
      BY <3>1 DEF SoloInv, SoloTop, On, Settled, Sound, Clean, InDocker, Gone, Stage,
                  DeployStage, TeardownStage, DeleteStage, Moving
  <2>2. ASSUME NEW j \in Jobs, Request(j) \/ Run(j) \/ JobDies(j)
        PROVE  SoloInv'
    BY <2>2, SoloRequest, SoloCheck, SoloWrite, SoloDelete, SoloQuiet, SoloDocker DEF Run
  <2> QED
    BY <2>1, <2>2, SoloPlan DEF Next, DeployNext
<1> QED
  BY <1>1, <1>2, DeployInvariant, PTL DEF Spec

\* A topology shown as live has its containers, its networks and the compose
\* file a teardown needs, as long as no two jobs worked on it at a time:
\* whatever failed or died before, and whatever runs on other topologies.
THEOREM LiveIsUpTheorem == Spec => []LiveIsUp
<1>1. SoloInv => LiveIsUp
  BY DEF SoloInv, SoloTop, Sound, InDocker, LiveIsUp
<1> QED
  BY <1>1, SoloInvariant, PTL

\* With a reliable Docker, a topology at rest on which no two jobs met has
\* exactly the Docker state its status says; a compose file more is a dry run's.
THEOREM RestMatchesDockerTheorem == Spec => []RestMatchesDocker
<1>1. SoloInv => RestMatchesDocker
  <2> SUFFICES ASSUME SoloInv, NEW t \in Topologies \ raced, reliable, Settled(t)
               PROVE  /\ status[t] \in LiveStatuses \cup Deletable \cup {Absent}
                      /\ IF status[t] \in LiveStatuses
                           THEN up[t] /\ nets[t] /\ file[t]
                           ELSE ~up[t] /\ ~nets[t] /\ (file[t] => t \in planned)
    BY DEF RestMatchesDocker
  <2>1. Clean(t)
    BY DEF SoloInv, SoloTop
  <2>2. status[t] \in Deletable \cup {Absent} => status[t] \notin LiveStatuses
    BY DEF LiveStatuses, Deletable, Absent
  <2> QED
    BY <2>1, <2>2 DEF Clean, InDocker, Gone
<1> QED
  BY <1>1, SoloInvariant, PTL

\* Without two jobs on a topology at a time its rows in topology_status_events
\* are legal transitions only, whatever Docker does and whichever process dies.
THEOREM LegalHistoryTheorem == Spec => []LegalHistory
<1>1. SoloInv => LegalHistory
  BY DEF SoloInv, SoloTop, Sound, LegalHistory
<1> QED
  BY <1>1, SoloInvariant, PTL
=============================================================================
