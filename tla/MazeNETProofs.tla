---------------------------- MODULE MazeNETProofs ---------------------------
(***************************************************************************)
(* Proofs about the live mutation of topologies: the queue's watch loops   *)
(* and the deployer's jobs on one status column (MazeNET), for any         *)
(* number of topologies, jobs, watch loops, mutations and crashes; and     *)
(* the homes of the deckies while mutations, live service changes and      *)
(* teardowns overlap, Docker as far as nothing failed or overlapped, and   *)
(* the types of what an op reads and writes (MutationOps), for any number  *)
(* of LANs, deckies, services, mutations and faults.                       *)
(***************************************************************************)
EXTENDS MCMazeNET, SequenceTheorems, FiniteSetTheorems, WellFoundedInduction, TLAPS

Rows == 1..MaxMutations
QueueStates == {"none", "pending", "applying", "deleted", "applied", "failed"}
Places == {"idle", "next", "claim", "dispatch", "applied", "failed", "degrade",
           "write_degraded", "down"}
InHand == {"dispatch", "applied", "failed"}
ToDegrade == {"degrade", "write_degraded"}
Statuses == ALL \cup {Absent}

\* Types of what the two parts share and of what the invariant speaks of.
MazeTypes ==
    /\ mazeStatus \in [Topologies -> Statuses]
    /\ mazeJob \in [Jobs -> Z!D!AJob \cup {Z!D!NoJob}]
    /\ raced \subseteq Topologies
    /\ admitted \in [Topologies -> Nat]
    /\ queue \in 0..MaxMutations
    /\ topology_id \in [Rows -> Topologies]
    /\ state \in [Rows -> QueueStates]
    /\ pc \in [Watchers -> Places]
    /\ todo \in [Watchers -> SUBSET Topologies]
    /\ tid \in [Watchers -> Topologies]
    /\ mut \in [Watchers -> Rows \cup {0}]
    /\ crashes \in Nat

\* Rows are inserted in order, and a row in a loop's hand is one of the
\* topology it drains.
QueueHands ==
    /\ \A m \in Rows : (state[m] = "none") <=> (m > queue)
    /\ \A w \in Watchers : pc[w] \in InHand =>
          mut[w] \in Rows /\ topology_id[mut[w]] = tid[w] /\ state[mut[w]] # "none"

\* The queue has never heard of the topology.
Unheard(t) ==
    /\ admitted[t] = 0
    /\ \A m \in Rows : topology_id[m] = t => state[m] = "none"
    /\ \A w \in Watchers :
          t \notin todo[w] /\ (tid[w] = t => pc[w] \in {"idle", "next", "down"})

\* A topology on its way to its first deployment is not one of the queue's.
FirstDeploy ==
    \A t \in Topologies \ raced :
        mazeStatus[t] \in {"pending", "deploying"} => Unheard(t)

\* Where a job may be, and the status of its topology while it is there.
Fits(r, s) ==
    \/ /\ r.op = "deploy"
       /\ \/ r.at = "hydrate" \/ (r.at = "check" /\ r.to = "deploying")
          \/ r.at = "write" /\ r.to = "deploying" /\ s = "pending"
          \/ r.at \in {"docker", "up", "ps"} /\ s = "deploying"
          \/ r.at \in {"check", "write"} /\ r.to \in {"active", "degraded", "failed"}
             /\ s = "deploying"
    \/ /\ r.op = "teardown"
       /\ \/ r.at \in {"hydrate", "down", "cleanup"}
          \/ r.at \in {"check", "write"} /\ r.to \in {"tearing_down", "torn_down"}
    \/ r.op = "delete" /\ r.at = "cascade"

\* A topology outside raced has one job at most, which finds the status where
\* it put it.
JobsFit ==
    \A j \in Jobs : mazeJob[j] # Z!D!NoJob /\ mazeJob[j].t \notin raced =>
        /\ Fits(mazeJob[j], mazeStatus[mazeJob[j].t])
        /\ \A i \in Jobs \ {j} : mazeJob[i] # Z!D!NoJob => mazeJob[i].t # mazeJob[j].t

\* An active topology with a failed mutation is about to be degraded.
FailureNoted ==
    \A m \in Rows :
        /\ state[m] = "failed" /\ crashes = 0 /\ topology_id[m] \notin raced
        /\ mazeStatus[topology_id[m]] = "active"
        => \E w \in Watchers : pc[w] \in ToDegrade /\ tid[w] = topology_id[m]

MazeInv == MazeTypes /\ QueueHands /\ FirstDeploy /\ JobsFit /\ FailureNoted

USE MazeAssumption

\* FailedMutationShows follows.
LEMMA MazeShows == MazeInv => FailedMutationShows
BY DEF MazeInv, FailureNoted, FailedMutationShows, Z!FailedMutationShows, Rows, ToDegrade

\* The queue is empty and everything pending at first.
LEMMA MazeInit == Z!Init => MazeInv
<1> SUFFICES ASSUME Z!Init PROVE MazeInv
  OBVIOUS
<1> USE DEF Z!Init, Z!D!Init, Z!Q!QueueInit
<1>1. Z!Q!AnyTopology \in Topologies
  BY DEF Z!Q!AnyTopology
<1>2. MazeTypes
  BY <1>1 DEF MazeTypes, Statuses, ALL, Rows, QueueStates, Places, Z!Q!Ids, Z!Q!NoMutation
<1>3. QueueHands
  BY DEF QueueHands, InHand, Rows, Z!Q!Ids
<1>4. FirstDeploy
  BY DEF FirstDeploy, Unheard, Rows, Z!Q!Ids
<1>5. JobsFit
  BY DEF JobsFit
<1>6. FailureNoted
  BY DEF FailureNoted, Rows, Z!Q!Ids
<1> QED
  BY <1>2, <1>3, <1>4, <1>5, <1>6 DEF MazeInv

\* What a session of the queue leaves alone.
JobsStill == mazeJob' = mazeJob /\ raced' = raced

LEMMA JobsStillFit ==
    ASSUME MazeInv, JobsStill, mazeStatus' = mazeStatus
    PROVE  JobsFit'
BY DEF MazeInv, JobsFit, JobsStill, Fits, Z!D!NoJob

\* The API's two sessions: AdmitEnqueue sees a live topology.
LEMMA MazeAdmit ==
    ASSUME MazeInv, NEW t \in Topologies, Z!Q!AdmitEnqueue(t), JobsStill
    PROVE  MazeInv'
<1> USE DEF MazeInv, JobsStill, Z!Q!AdmitEnqueue
<1>1. MazeTypes'
  <2>1. admitted' \in [Topologies -> Nat]
    BY DEF MazeTypes
  <2> QED
    BY <2>1 DEF MazeTypes
<1>2. QueueHands'
  BY DEF QueueHands
<1>3. FirstDeploy'
  <2> SUFFICES ASSUME NEW s \in Topologies \ raced, mazeStatus[s] \in {"pending", "deploying"}
               PROVE  Unheard(s)'
    BY DEF FirstDeploy
  <2>1. Unheard(s)
    BY DEF FirstDeploy
  <2>2. s # t
    BY DEF Z!Q!LiveStatuses
  <2>3. admitted'[s] = admitted[s]
    BY <2>2 DEF MazeTypes
  <2> QED
    BY <2>1, <2>3 DEF Unheard
<1>4. FailureNoted'
  BY DEF FailureNoted
<1> QED
  BY <1>1, <1>2, <1>3, <1>4, JobsStillFit

LEMMA MazeReject ==
    ASSUME MazeInv, NEW t \in Topologies, Z!Q!RejectEnqueue(t), JobsStill
    PROVE  MazeInv'
<1> USE DEF MazeInv, JobsStill, Z!Q!RejectEnqueue
<1>1. MazeTypes'
  <2>1. admitted' \in [Topologies -> Nat]
    BY DEF MazeTypes
  <2> QED
    BY <2>1 DEF MazeTypes
<1>2. QueueHands'
  BY DEF QueueHands
<1>3. FirstDeploy'
  BY DEF FirstDeploy, Unheard, MazeTypes
<1>4. FailureNoted'
  BY DEF FailureNoted
<1> QED
  BY <1>1, <1>2, <1>3, <1>4, JobsStillFit

LEMMA MazeEnqueue ==
    ASSUME MazeInv, NEW t \in Topologies, Z!Q!Enqueue(t), JobsStill
    PROVE  MazeInv'
<1> USE DEF MazeInv, JobsStill
<1>1. /\ admitted[t] > 0 /\ queue < MaxMutations
      /\ admitted' = [admitted EXCEPT ![t] = @ - 1]
      /\ queue' = queue + 1
      /\ topology_id' = [topology_id EXCEPT ![queue + 1] = t]
      /\ state' = [state EXCEPT ![queue + 1] = "pending"]
      /\ UNCHANGED <<mazeStatus, pc, todo, tid, mut, runs, crashes>>
  BY DEF Z!Q!Enqueue
<1>2. queue + 1 \in Rows /\ queue \in Nat
  BY <1>1 DEF MazeTypes, Rows
<1>3. MazeTypes'
  <2>1. admitted' \in [Topologies -> Nat]
    BY <1>1 DEF MazeTypes
  <2>2. queue' \in 0..MaxMutations
    BY <1>1 DEF MazeTypes
  <2>3. topology_id' \in [Rows -> Topologies] /\ state' \in [Rows -> QueueStates]
    BY <1>1 DEF MazeTypes, QueueStates
  <2> QED
    BY <1>1, <2>1, <2>2, <2>3 DEF MazeTypes
<1>4. \A m \in Rows : m # queue + 1 => state'[m] = state[m] /\ topology_id'[m] = topology_id[m]
  BY <1>1, <1>2 DEF MazeTypes
<1>5. state'[queue + 1] = "pending" /\ topology_id'[queue + 1] = t /\ state[queue + 1] = "none"
  BY <1>1, <1>2 DEF MazeTypes, QueueHands, Rows
<1>6. QueueHands'
  <2>1. \A m \in Rows : (state'[m] = "none") <=> (m > queue')
    BY <1>1, <1>2, <1>4, <1>5 DEF QueueHands, Rows
  <2>2. ASSUME NEW w \in Watchers, pc'[w] \in InHand
        PROVE  mut'[w] \in Rows /\ topology_id'[mut'[w]] = tid'[w] /\ state'[mut'[w]] # "none"
    BY <1>1, <1>4, <1>5, <2>2 DEF QueueHands
  <2> QED
    BY <2>1, <2>2 DEF QueueHands
<1>7. FirstDeploy'
  <2> SUFFICES ASSUME NEW s \in Topologies \ raced, mazeStatus[s] \in {"pending", "deploying"}
               PROVE  Unheard(s)'
    BY <1>1 DEF FirstDeploy
  <2>1. Unheard(s)
    BY DEF FirstDeploy
  <2>2. s # t
    BY <1>1, <2>1 DEF Unheard
  <2> QED
    BY <1>1, <1>4, <1>5, <2>1, <2>2 DEF Unheard, MazeTypes
<1>8. FailureNoted'
  BY <1>1, <1>4, <1>5 DEF FailureNoted
<1> QED
  BY <1>1, <1>3, <1>6, <1>7, <1>8, JobsStillFit

\* A loop goes on to place p, with the snapshot T and the topology s, without a
\* row.
Moves(w, p, T, s) ==
    /\ mazeStatus' = mazeStatus /\ UNCHANGED <<admitted, queue, topology_id, state>>
    /\ pc' = [pc EXCEPT ![w] = p]
    /\ todo' = [todo EXCEPT ![w] = T] /\ tid' = [tid EXCEPT ![w] = s]
    /\ mut' \in [Watchers -> Rows \cup {0}] /\ \A v \in Watchers \ {w} : mut'[v] = mut[v]
    /\ crashes' \in Nat /\ (crashes' = 0 => crashes = 0)
    /\ \A u \in Topologies \ raced : mazeStatus[u] \in {"pending", "deploying"} =>
           u \notin T /\ (s = u => p \in {"idle", "next", "down"})
    /\ (pc[w] \in ToDegrade /\ crashes' = 0)
       => (p \in ToDegrade /\ s = tid[w]) \/ mazeStatus[tid[w]] # "active"

LEMMA MazeMoves ==
    ASSUME MazeInv, JobsStill, NEW w \in Watchers, NEW p \in Places \ InHand,
           NEW T \in SUBSET Topologies, NEW s \in Topologies, Moves(w, p, T, s)
    PROVE  MazeInv'
<1> USE DEF MazeInv, JobsStill, Moves
<1>1. MazeTypes'
  BY DEF MazeTypes
<1>2. QueueHands'
  BY DEF QueueHands, MazeTypes
<1>3. FirstDeploy'
  BY DEF FirstDeploy, Unheard, MazeTypes
<1>4. FailureNoted'
  <2> SUFFICES ASSUME NEW m \in Rows, state[m] = "failed", crashes' = 0,
                      topology_id[m] \notin raced, mazeStatus[topology_id[m]] = "active"
               PROVE  \E v \in Watchers : pc'[v] \in ToDegrade /\ tid'[v] = topology_id[m]
    BY DEF FailureNoted
  <2>1. PICK v \in Watchers : pc[v] \in ToDegrade /\ tid[v] = topology_id[m]
    BY DEF FailureNoted
  <2>2. CASE v = w
    BY <2>1, <2>2 DEF MazeTypes
  <2>3. CASE v # w
    BY <2>1, <2>3 DEF MazeTypes
  <2> QED
    BY <2>2, <2>3
<1> QED
  BY <1>1, <1>2, <1>3, <1>4, JobsStillFit

\* A drain step that neither claims nor resolves a row.
LEMMA MazeQuietDrain ==
    ASSUME MazeInv, JobsStill, NEW w \in Watchers,
           \/ Z!Q!StartReconcile(w) \/ Z!Q!NextTopology(w) \/ Z!Q!EndReconcile(w)
           \/ Z!Q!ClaimNothing(w) \/ Z!Q!CheckDegrade(w) \/ Z!Q!DegradeMissing(w)
    PROVE  MazeInv'
<1> USE DEF MazeInv
<1>1. /\ todo[w] \in SUBSET Topologies /\ tid[w] \in Topologies
      /\ todo = [todo EXCEPT ![w] = todo[w]] /\ tid = [tid EXCEPT ![w] = tid[w]]
      /\ mut \in [Watchers -> Rows \cup {0}] /\ crashes \in Nat
  BY DEF MazeTypes
<1>2. \A u \in Topologies \ raced : mazeStatus[u] \in {"pending", "deploying"} =>
          u \notin todo[w] /\ (tid[w] = u => pc[w] \in {"idle", "next", "down"})
  BY DEF FirstDeploy, Unheard
<1>3. CASE Z!Q!StartReconcile(w)
  <2> DEFINE T == {t \in Topologies : mazeStatus[t] \in Z!Q!LiveStatuses}
  <2>1. /\ pc[w] = "idle" /\ pc' = [pc EXCEPT ![w] = "next"] /\ todo' = [todo EXCEPT ![w] = T]
        /\ UNCHANGED <<mazeStatus, admitted, queue, topology_id, state, tid, mut, crashes>>
    BY <1>3 DEF Z!Q!StartReconcile
  <2>2. \A u \in Topologies : mazeStatus[u] \in {"pending", "deploying"} => u \notin T
    BY DEF Z!Q!LiveStatuses
  <2>3. T \in SUBSET Topologies /\ "next" \in Places \ InHand
    BY DEF Places, InHand
  <2> HIDE DEF T
  <2>9. Moves(w, "next", T, tid[w])
    BY <1>1, <1>2, <2>1, <2>2, <2>3 DEF Moves, ToDegrade
  <2> QED
    BY <1>1, <2>2, <2>3, <2>9, MazeMoves
<1>4. CASE Z!Q!NextTopology(w)
  <2>1. PICK t \in todo[w] : /\ tid' = [tid EXCEPT ![w] = t]
                             /\ todo' = [todo EXCEPT ![w] = @ \ {t}]
    BY <1>4 DEF Z!Q!NextTopology
  <2>2. /\ pc[w] = "next" /\ pc' = [pc EXCEPT ![w] = "claim"]
        /\ UNCHANGED <<mazeStatus, admitted, queue, topology_id, state, mut, crashes>>
    BY <1>4 DEF Z!Q!NextTopology
  <2>3. todo' = [todo EXCEPT ![w] = todo[w] \ {t}] /\ todo[w] \ {t} \in SUBSET Topologies
        /\ t \in Topologies /\ "claim" \in Places \ InHand
    BY <1>1, <2>1 DEF Places, InHand, MazeTypes
  <2>4. \A u \in Topologies \ raced : mazeStatus[u] \in {"pending", "deploying"} =>
            u \notin todo[w] \ {t} /\ (t = u => "claim" \in {"idle", "next", "down"})
    BY <1>2, <2>1
  <2>5. /\ \A v \in Watchers \ {w} : mut'[v] = mut[v]
        /\ mut' \in [Watchers -> Rows \cup {0}] /\ crashes' \in Nat
        /\ crashes' = 0 => crashes = 0
        /\ pc[w] \notin ToDegrade
    BY <1>1, <2>2 DEF ToDegrade
  <2>9. Moves(w, "claim", todo[w] \ {t}, t)
    BY <1>1, <1>2, <2>1, <2>2, <2>3, <2>4, <2>5 DEF Moves, ToDegrade
  <2> QED
    BY <1>1, <2>2, <2>3, <2>9, MazeMoves
<1>5. CASE Z!Q!EndReconcile(w)
  <2>1. /\ pc[w] = "next" /\ pc' = [pc EXCEPT ![w] = "idle"]
        /\ UNCHANGED <<mazeStatus, admitted, queue, topology_id, state, todo, tid, mut, crashes>>
    BY <1>5 DEF Z!Q!EndReconcile
  <2>2. "idle" \in Places \ InHand
    BY DEF Places, InHand
  <2>9. Moves(w, "idle", todo[w], tid[w])
    BY <1>1, <1>2, <2>1, <2>2 DEF Moves, ToDegrade
  <2> QED
    BY <1>1, <2>2, <2>9, MazeMoves
<1>6. CASE Z!Q!ClaimNothing(w)
  <2>1. /\ pc[w] = "claim" /\ pc' = [pc EXCEPT ![w] = "next"]
        /\ UNCHANGED <<mazeStatus, admitted, queue, topology_id, state, todo, tid, mut, crashes>>
    BY <1>6 DEF Z!Q!ClaimNothing
  <2>2. "next" \in Places \ InHand
    BY DEF Places, InHand
  <2>9. Moves(w, "next", todo[w], tid[w])
    BY <1>1, <1>2, <2>1, <2>2 DEF Moves, ToDegrade
  <2> QED
    BY <1>1, <2>2, <2>9, MazeMoves
<1>7. CASE Z!Q!CheckDegrade(w)
  <2> DEFINE p == IF assert_transition(mazeStatus[tid[w]], "degraded") THEN "write_degraded"
                  ELSE "next"
  <2>1. /\ pc[w] = "degrade" /\ pc' = [pc EXCEPT ![w] = p]
        /\ UNCHANGED <<mazeStatus, admitted, queue, topology_id, state, todo, tid, mut, crashes>>
    BY <1>7 DEF Z!Q!CheckDegrade, Z!Q!assert_transition, assert_transition, Z!Q!legal_next,
                legal_next, Z!Q!ALL, ALL
  <2>2. p \in Places \ InHand
    BY DEF Places, InHand
  <2>3. p \in ToDegrade \/ mazeStatus[tid[w]] # "active"
    BY DEF assert_transition, legal_next, ALL, ToDegrade
  <2>4. \A u \in Topologies \ raced : mazeStatus[u] \in {"pending", "deploying"} =>
          u \notin todo[w] /\ (tid[w] = u => p \in {"idle", "next", "down"})
    BY <1>2, <2>1
  <2>5. /\ \A v \in Watchers \ {w} : mut'[v] = mut[v]
        /\ mut' \in [Watchers -> Rows \cup {0}] /\ crashes' \in Nat
        /\ crashes' = 0 => crashes = 0
        /\ todo' = [todo EXCEPT ![w] = todo[w]] /\ tid' = [tid EXCEPT ![w] = tid[w]]
    BY <1>1, <2>1
  <2> HIDE DEF p
  <2>9. Moves(w, p, todo[w], tid[w])
    BY <1>1, <1>2, <2>1, <2>2, <2>3, <2>4, <2>5 DEF Moves, ToDegrade
  <2> QED
    BY <1>1, <2>2, <2>3, <2>9, MazeMoves
<1>8. CASE Z!Q!DegradeMissing(w)
  <2>1. /\ pc[w] = "degrade" /\ pc' = [pc EXCEPT ![w] = "down"]
        /\ todo' = [todo EXCEPT ![w] = {}] /\ mazeStatus[tid[w]] = Absent
        /\ UNCHANGED <<mazeStatus, admitted, queue, topology_id, state, tid, mut, crashes>>
    BY <1>8 DEF Z!Q!DegradeMissing, Z!Q!Absent, Absent
  <2>2. "down" \in Places \ InHand /\ mazeStatus[tid[w]] # "active" /\ {} \in SUBSET Topologies
    BY <2>1 DEF Places, InHand, Absent
  <2>3. /\ \A v \in Watchers \ {w} : mut'[v] = mut[v]
        /\ mut' \in [Watchers -> Rows \cup {0}] /\ crashes' \in Nat
        /\ crashes' = 0 => crashes = 0
        /\ tid' = [tid EXCEPT ![w] = tid[w]]
    BY <1>1, <2>1
  <2>9. Moves(w, "down", {}, tid[w])
    BY <1>1, <1>2, <2>1, <2>2, <2>3 DEF Moves, ToDegrade
  <2> QED
    BY <1>1, <2>2, <2>3, <2>9, MazeMoves
<1> QED
  BY <1>3, <1>4, <1>5, <1>6, <1>7, <1>8

\* A loop dies, or starts again.
LEMMA MazeCrash ==
    ASSUME MazeInv, JobsStill, NEW w \in Watchers, Z!Q!Crash(w) \/ Z!Q!Restart(w)
    PROVE  MazeInv'
<1> USE DEF MazeInv
<1>1. /\ todo[w] \in SUBSET Topologies /\ tid[w] \in Topologies /\ {} \in SUBSET Topologies
      /\ todo = [todo EXCEPT ![w] = todo[w]] /\ tid = [tid EXCEPT ![w] = tid[w]]
      /\ mut \in [Watchers -> Rows \cup {0}] /\ crashes \in Nat
  BY DEF MazeTypes
<1>2. \A u \in Topologies \ raced : mazeStatus[u] \in {"pending", "deploying"} =>
          u \notin todo[w] /\ (tid[w] = u => pc[w] \in {"idle", "next", "down"})
  BY DEF FirstDeploy, Unheard
<1>3. CASE Z!Q!Crash(w)
  <2>1. /\ pc' = [pc EXCEPT ![w] = "down"] /\ todo' = [todo EXCEPT ![w] = {}]
        /\ mut' = [mut EXCEPT ![w] = 0] /\ crashes' = crashes + 1
        /\ UNCHANGED <<mazeStatus, admitted, queue, topology_id, state, tid>>
    BY <1>3 DEF Z!Q!Crash, Z!Q!NoMutation
  <2>2. "down" \in Places \ InHand
    BY DEF Places, InHand
  <2>3. /\ mut' \in [Watchers -> Rows \cup {0}] /\ \A v \in Watchers \ {w} : mut'[v] = mut[v]
        /\ crashes' \in Nat /\ crashes' # 0
    BY <1>1, <2>1
  <2>4. tid' = [tid EXCEPT ![w] = tid[w]]
    BY <1>1, <2>1
  <2>9. Moves(w, "down", {}, tid[w])
    BY <1>1, <1>2, <2>1, <2>2, <2>3, <2>4 DEF Moves, ToDegrade
  <2> QED
    BY <1>1, <2>2, <2>3, <2>9, MazeMoves
<1>4. CASE Z!Q!Restart(w)
  <2>1. /\ pc[w] = "down" /\ pc' = [pc EXCEPT ![w] = "idle"]
        /\ UNCHANGED <<mazeStatus, admitted, queue, topology_id, state, todo, tid, mut, crashes>>
    BY <1>4 DEF Z!Q!Restart
  <2>2. "idle" \in Places \ InHand
    BY DEF Places, InHand
  <2>9. Moves(w, "idle", todo[w], tid[w])
    BY <1>1, <1>2, <2>1, <2>2 DEF Moves, ToDegrade
  <2> QED
    BY <1>1, <2>2, <2>9, MazeMoves
<1> QED
  BY <1>3, <1>4

\* claim_next_mutation: the row returned is one of the topology that is drained.
LEMMA MazeClaim ==
    ASSUME MazeInv, JobsStill, NEW w \in Watchers, Z!Q!ClaimNextMutation(w)
    PROVE  MazeInv'
<1> USE DEF MazeInv, JobsStill
<1>1. PICK c \in Z!Q!RowsOf(tid[w], "pending") :
        /\ state' = [state EXCEPT ![c] = "applying"]
        /\ \E m \in Z!Q!RowsOf(tid[w], "applying") \cup {c} : mut' = [mut EXCEPT ![w] = m]
  BY DEF Z!Q!ClaimNextMutation
<1>2. PICK m \in Z!Q!RowsOf(tid[w], "applying") \cup {c} : mut' = [mut EXCEPT ![w] = m]
  BY <1>1
<1>3. /\ c \in Rows /\ topology_id[c] = tid[w] /\ state[c] = "pending"
      /\ m \in Rows /\ topology_id[m] = tid[w] /\ state[m] # "none"
  BY DEF Z!Q!RowsOf, Z!Q!Ids, Rows
<1>4. /\ pc[w] = "claim" /\ pc' = [pc EXCEPT ![w] = "dispatch"]
      /\ UNCHANGED <<mazeStatus, admitted, queue, topology_id, todo, tid, crashes>>
  BY DEF Z!Q!ClaimNextMutation
<1>5. \A k \in Rows : state'[k] = IF k = c THEN "applying" ELSE state[k]
  BY <1>1, <1>3 DEF MazeTypes
<1>6. MazeTypes'
  <2>1. state' \in [Rows -> QueueStates]
    BY <1>1 DEF MazeTypes, QueueStates
  <2>2. mut' \in [Watchers -> Rows \cup {0}] /\ pc' \in [Watchers -> Places]
    BY <1>2, <1>3, <1>4 DEF MazeTypes, Places
  <2> QED
    BY <1>4, <2>1, <2>2 DEF MazeTypes
<1>7. QueueHands'
  <2>1. \A k \in Rows : (state'[k] = "none") <=> (state[k] = "none")
    BY <1>3, <1>5
  <2>2. ASSUME NEW v \in Watchers, pc'[v] \in InHand
        PROVE  mut'[v] \in Rows /\ topology_id'[mut'[v]] = tid'[v] /\ state'[mut'[v]] # "none"
    <3>1. CASE v = w
      <4>1. mut'[v] = m
        BY <1>2, <3>1 DEF MazeTypes
      <4> QED
        BY <1>3, <1>4, <2>1, <3>1, <4>1
    <3>2. CASE v # w
      <4>1. mut'[v] = mut[v] /\ pc'[v] = pc[v]
        BY <1>2, <1>4, <3>2 DEF MazeTypes
      <4> QED
        BY <1>4, <2>1, <2>2, <4>1 DEF QueueHands
    <3> QED
      BY <3>1, <3>2
  <2> QED
    BY <1>4, <2>1, <2>2 DEF QueueHands
<1>8. FirstDeploy'
  BY <1>3, <1>4, <1>5 DEF FirstDeploy, Unheard, MazeTypes
<1>9. FailureNoted'
  <2>1. \A v \in Watchers : pc[v] \in ToDegrade => pc'[v] = pc[v]
    BY <1>4 DEF ToDegrade, MazeTypes
  <2> QED
    BY <1>4, <1>5, <2>1 DEF FailureNoted
<1> QED
  BY <1>4, <1>6, <1>7, <1>8, <1>9, JobsStillFit

\* dispatch: the op is entered.
LEMMA MazeDispatch ==
    ASSUME MazeInv, JobsStill, NEW w \in Watchers, Z!Q!Dispatch(w)
    PROVE  MazeInv'
<1> USE DEF MazeInv, JobsStill
<1>1. PICK p \in {"applied", "failed"} : pc' = [pc EXCEPT ![w] = p]
  BY DEF Z!Q!Dispatch
<1>2. /\ pc[w] = "dispatch"
      /\ UNCHANGED <<mazeStatus, admitted, queue, topology_id, state, todo, tid, mut, crashes>>
  BY DEF Z!Q!Dispatch
<1>3. MazeTypes'
  BY <1>1, <1>2 DEF MazeTypes, Places
<1>4. QueueHands'
  BY <1>1, <1>2 DEF QueueHands, MazeTypes, InHand
<1>5. FirstDeploy'
  BY <1>1, <1>2 DEF FirstDeploy, Unheard, MazeTypes
<1>6. FailureNoted'
  <2>1. \A v \in Watchers : pc[v] \in ToDegrade => pc'[v] = pc[v]
    BY <1>1, <1>2 DEF ToDegrade, MazeTypes
  <2> QED
    BY <1>2, <2>1 DEF FailureNoted
<1> QED
  BY <1>2, <1>3, <1>4, <1>5, <1>6, JobsStillFit

\* mark_mutation_applied and mark_mutation_failed; the latter's loop is about to
\* degrade the topology.
LEMMA MazeMark ==
    ASSUME MazeInv, JobsStill, NEW w \in Watchers, Z!Q!MarkApplied(w) \/ Z!Q!MarkFailed(w)
    PROVE  MazeInv'
<1> USE DEF MazeInv, JobsStill
<1>1. PICK o \in {"applied", "failed"}, p \in {"claim", "degrade"} :
        /\ o = "failed" <=> p = "degrade"
        /\ pc[w] = o /\ pc' = [pc EXCEPT ![w] = p]
        /\ state' = [state EXCEPT ![mut[w]] = IF @ = "deleted" THEN "deleted" ELSE o]
        /\ mut' = [mut EXCEPT ![w] = 0]
        /\ UNCHANGED <<mazeStatus, admitted, queue, topology_id, todo, tid, crashes>>
  BY DEF Z!Q!MarkApplied, Z!Q!MarkFailed, Z!Q!Resolve, Z!Q!NoMutation
<1>2. mut[w] \in Rows /\ topology_id[mut[w]] = tid[w] /\ state[mut[w]] # "none"
  BY <1>1 DEF QueueHands, InHand
<1>3. PICK m \in Rows : m = mut[w]
  BY <1>2
<1>4. \A k \in Rows : state'[k] = IF k = m /\ state[k] # "deleted" THEN o ELSE state[k]
  BY <1>1, <1>3 DEF MazeTypes
<1>5. MazeTypes'
  <2>1. state' \in [Rows -> QueueStates]
    BY <1>1 DEF MazeTypes, QueueStates
  <2>2. mut' \in [Watchers -> Rows \cup {0}] /\ pc' \in [Watchers -> Places]
    BY <1>1 DEF MazeTypes, Places
  <2> QED
    BY <1>1, <2>1, <2>2 DEF MazeTypes
<1>6. QueueHands'
  <2>1. \A k \in Rows : (state'[k] = "none") <=> (state[k] = "none")
    BY <1>2, <1>3, <1>4
  <2>2. ASSUME NEW v \in Watchers, pc'[v] \in InHand
        PROVE  mut'[v] \in Rows /\ topology_id'[mut'[v]] = tid'[v] /\ state'[mut'[v]] # "none"
    <3>1. v # w
      BY <1>1, <2>2 DEF MazeTypes, InHand
    <3>2. mut'[v] = mut[v] /\ pc'[v] = pc[v]
      BY <1>1, <3>1 DEF MazeTypes
    <3> QED
      BY <1>1, <2>1, <2>2, <3>2 DEF QueueHands
  <2> QED
    BY <1>1, <2>1, <2>2 DEF QueueHands
<1>7. FirstDeploy'
  BY <1>1, <1>2, <1>3, <1>4 DEF FirstDeploy, Unheard, MazeTypes
<1>8. FailureNoted'
  <2> SUFFICES ASSUME NEW k \in Rows, state'[k] = "failed", crashes = 0,
                      topology_id[k] \notin raced, mazeStatus[topology_id[k]] = "active"
               PROVE  \E v \in Watchers : pc'[v] \in ToDegrade /\ tid[v] = topology_id[k]
    BY <1>1 DEF FailureNoted
  <2>1. CASE state[k] = "failed"
    <3>1. PICK v \in Watchers : pc[v] \in ToDegrade /\ tid[v] = topology_id[k]
      BY <2>1 DEF FailureNoted
    <3>2. pc'[v] = pc[v]
      BY <1>1, <3>1 DEF MazeTypes, ToDegrade
    <3> QED
      BY <3>1, <3>2
  <2>2. CASE state[k] # "failed"
    <3>1. k = m /\ o = "failed"
      BY <1>4, <2>2
    <3>2. pc'[w] = "degrade" /\ tid[w] = topology_id[k]
      BY <1>1, <1>2, <1>3, <3>1 DEF MazeTypes
    <3> QED
      BY <3>2 DEF ToDegrade
  <2> QED
    BY <2>1, <2>2
<1> QED
  BY <1>1, <1>5, <1>6, <1>7, <1>8, JobsStillFit

\* The DEGRADED of a watch loop: a topology it drains is past its first
\* deployment, so no deploy counts on the status.
LEMMA MazeDegrade ==
    ASSUME MazeInv, NEW w \in Watchers, Z!DegradeStep(w)
    PROVE  MazeInv'
<1> USE DEF MazeInv
<1>1. /\ pc[w] = "write_degraded" /\ pc' = [pc EXCEPT ![w] = "next"]
      /\ mazeStatus' = [mazeStatus EXCEPT ![tid[w]] = IF @ = Absent THEN Absent ELSE "degraded"]
      /\ UNCHANGED <<admitted, queue, topology_id, state, todo, tid, mut, crashes>>
      /\ mazeJob' = mazeJob /\ raced' = raced
  BY DEF Z!DegradeStep, Z!Q!WriteDegraded, Z!Q!Absent, Absent
<1>2. PICK t \in Topologies : t = tid[w]
  BY DEF MazeTypes
<1>3. /\ \A s \in Topologies : s # t => mazeStatus'[s] = mazeStatus[s]
      /\ mazeStatus'[t] \in {Absent, "degraded"}
  BY <1>1, <1>2 DEF MazeTypes
<1>4. MazeTypes'
  <2>1. mazeStatus' \in [Topologies -> Statuses]
    BY <1>1 DEF MazeTypes, Statuses, ALL
  <2> QED
    BY <1>1, <2>1 DEF MazeTypes, Places
<1>5. QueueHands'
  BY <1>1 DEF QueueHands, MazeTypes, InHand
<1>6. FirstDeploy'
  <2> SUFFICES ASSUME NEW s \in Topologies \ raced, mazeStatus'[s] \in {"pending", "deploying"}
               PROVE  Unheard(s)'
    BY <1>1 DEF FirstDeploy
  <2>1. s # t
    BY <1>3 DEF Absent
  <2>2. Unheard(s)
    BY <1>3, <2>1 DEF FirstDeploy
  <2> QED
    BY <1>1, <2>2 DEF Unheard, MazeTypes
<1>7. JobsFit'
  <2> SUFFICES ASSUME NEW j \in Jobs, mazeJob[j] # Z!D!NoJob, mazeJob[j].t \notin raced
               PROVE  /\ Fits(mazeJob[j], mazeStatus'[mazeJob[j].t])
                      /\ \A i \in Jobs \ {j} :
                            mazeJob[i] # Z!D!NoJob => mazeJob[i].t # mazeJob[j].t
    BY <1>1 DEF JobsFit
  <2>1. mazeJob[j].t \in Topologies
    BY DEF MazeTypes, Z!D!AJob
  <2>2. Fits(mazeJob[j], mazeStatus[mazeJob[j].t])
    BY DEF JobsFit
  <2>3. mazeJob[j].t = t => mazeStatus[t] \notin {"pending", "deploying"}
    BY <1>1, <1>2 DEF FirstDeploy, Unheard
  <2>4. mazeJob[j].t = t => Fits(mazeJob[j], mazeStatus'[t])
    BY <2>2, <2>3 DEF Fits
  <2>5. mazeJob[j].t # t => mazeStatus'[mazeJob[j].t] = mazeStatus[mazeJob[j].t]
    BY <1>3, <2>1
  <2>6. Fits(mazeJob[j], mazeStatus'[mazeJob[j].t])
    <3>1. CASE mazeJob[j].t = t BY <2>4, <3>1
    <3>2. CASE mazeJob[j].t # t BY <2>2, <2>5, <3>2
    <3> QED BY <3>1, <3>2
  <2> QED
    BY <2>6 DEF JobsFit
<1>8. FailureNoted'
  <2> SUFFICES ASSUME NEW m \in Rows, state[m] = "failed", crashes = 0,
                      topology_id[m] \notin raced, mazeStatus'[topology_id[m]] = "active"
               PROVE  \E v \in Watchers : pc'[v] \in ToDegrade /\ tid[v] = topology_id[m]
    BY <1>1 DEF FailureNoted
  <2>1. topology_id[m] \in Topologies /\ topology_id[m] # t
    BY <1>3 DEF MazeTypes, Absent
  <2>2. PICK v \in Watchers : pc[v] \in ToDegrade /\ tid[v] = topology_id[m]
    BY <1>3, <2>1 DEF FailureNoted
  <2>3. v # w
    BY <1>2, <2>1, <2>2
  <2> QED
    BY <1>1, <2>2, <2>3 DEF MazeTypes
<1> QED
  BY <1>4, <1>5, <1>6, <1>7, <1>8

\* What a job's step leaves alone of the queue.
QueueStill ==
    UNCHANGED <<admitted, queue, topology_id, state, pc, todo, tid, mut, crashes>>

\* The job goes on as r, or ends.
Becomes(j, r) ==
    /\ mazeJob' = [mazeJob EXCEPT ![j] = r]
    /\ r # Z!D!NoJob => r.t = mazeJob[j].t /\ (r.t \notin raced => Fits(r, mazeStatus[r.t]))

\* A step of a job that does not write the status.
LEMMA MazeJobMoves ==
    ASSUME MazeInv, QueueStill, NEW j \in Jobs, mazeJob[j] # Z!D!NoJob,
           mazeStatus' = mazeStatus, raced' = raced,
           NEW r \in Z!D!AJob \cup {Z!D!NoJob}, Becomes(j, r)
    PROVE  MazeInv'
<1> USE DEF MazeInv, QueueStill, Becomes
<1>1. MazeTypes'
  BY DEF MazeTypes
<1>2. QueueHands' /\ FailureNoted'
  BY DEF QueueHands, FailureNoted
<1>3. FirstDeploy'
  BY DEF FirstDeploy, Unheard
<1>4. JobsFit'
  <2> SUFFICES ASSUME NEW k \in Jobs, mazeJob'[k] # Z!D!NoJob, mazeJob'[k].t \notin raced
               PROVE  /\ Fits(mazeJob'[k], mazeStatus[mazeJob'[k].t])
                      /\ \A i \in Jobs \ {k} :
                            mazeJob'[i] # Z!D!NoJob => mazeJob'[i].t # mazeJob'[k].t
    BY DEF JobsFit
  <2>1. mazeJob[k] # Z!D!NoJob /\ mazeJob'[k].t = mazeJob[k].t
    BY DEF MazeTypes
  <2>2. \A i \in Jobs : mazeJob'[i] # Z!D!NoJob =>
            mazeJob[i] # Z!D!NoJob /\ mazeJob'[i].t = mazeJob[i].t
    BY DEF MazeTypes
  <2>3. Fits(mazeJob'[k], mazeStatus[mazeJob'[k].t])
    <3>1. CASE k = j
      <4>1. mazeJob'[k] = r
        BY <3>1 DEF MazeTypes
      <4> QED BY <4>1
    <3>2. CASE k # j
      <4>1. mazeJob'[k] = mazeJob[k]
        BY <3>2 DEF MazeTypes
      <4> QED BY <4>1 DEF JobsFit
    <3> QED BY <3>1, <3>2
  <2> QED
    BY <2>1, <2>2, <2>3 DEF JobsFit
<1> QED
  BY <1>1, <1>2, <1>3, <1>4

\* The job goes on to another step.
LEMMA MazeGoto ==
    ASSUME MazeInv, QueueStill, NEW j \in Jobs, mazeJob[j] # Z!D!NoJob, mazeStatus' = mazeStatus,
           NEW at \in Z!D!Steps, Z!D!Goto(j, at),
           \A r \in Z!D!AJob : /\ r.op = mazeJob[j].op /\ r.t = mazeJob[j].t
                               /\ r.at = at /\ r.to = mazeJob[j].to
                               /\ r.t \notin raced
                               => Fits(r, mazeStatus[r.t])
    PROVE  MazeInv'
<1>1. mazeJob[j] \in Z!D!AJob
  BY DEF MazeInv, MazeTypes
<1> DEFINE r == [mazeJob[j] EXCEPT !.at = at]
<1>2. r \in Z!D!AJob /\ r.op = mazeJob[j].op /\ r.t = mazeJob[j].t /\ r.at = at
      /\ r.to = mazeJob[j].to
  BY <1>1 DEF Z!D!AJob
<1>3. mazeJob' = [mazeJob EXCEPT ![j] = r] /\ raced' = raced
  BY DEF Z!D!Goto
<1> HIDE DEF r
<1>4. Becomes(j, r)
  BY <1>2, <1>3 DEF Becomes
<1> QED
  BY <1>2, <1>3, <1>4, MazeJobMoves

\* The job enters transition_status.
LEMMA MazeTransition ==
    ASSUME MazeInv, QueueStill, NEW j \in Jobs, mazeJob[j] # Z!D!NoJob, mazeStatus' = mazeStatus,
           NEW new \in Z!D!ALL, Z!D!Transition(j, new),
           \A r \in Z!D!AJob : /\ r.op = mazeJob[j].op /\ r.t = mazeJob[j].t
                               /\ r.at = "check" /\ r.to = new
                               /\ r.t \notin raced
                               => Fits(r, mazeStatus[r.t])
    PROVE  MazeInv'
<1>1. mazeJob[j] \in Z!D!AJob
  BY DEF MazeInv, MazeTypes
<1> DEFINE r == [mazeJob[j] EXCEPT !.at = "check", !.to = new]
<1>2. r \in Z!D!AJob /\ r.op = mazeJob[j].op /\ r.t = mazeJob[j].t /\ r.at = "check"
      /\ r.to = new
  BY <1>1 DEF Z!D!AJob, Z!D!Steps
<1>3. mazeJob' = [mazeJob EXCEPT ![j] = r] /\ raced' = raced
  BY DEF Z!D!Transition
<1> HIDE DEF r
<1>4. Becomes(j, r)
  BY <1>2, <1>3 DEF Becomes
<1> QED
  BY <1>2, <1>3, <1>4, MazeJobMoves

\* The job ends.
LEMMA MazeEnd ==
    ASSUME MazeInv, QueueStill, NEW j \in Jobs, mazeJob[j] # Z!D!NoJob, mazeStatus' = mazeStatus,
           Z!D!End(j)
    PROVE  MazeInv'
<1>1. Becomes(j, Z!D!NoJob) /\ raced' = raced
  BY DEF Becomes, Z!D!End
<1> QED
  BY <1>1, MazeJobMoves

\* A step of a job that writes neither the status nor the queue.
LEMMA MazeQuietRun ==
    ASSUME MazeInv, QueueStill, NEW j \in Jobs,
           \/ Z!D!DeployHydrate(j) \/ Z!D!DeployNoDocker(j) \/ Z!D!DeployNetworks(j)
           \/ Z!D!DeployNetworksFail(j) \/ Z!D!DeployUp(j) \/ Z!D!DeployUpFail(j)
           \/ Z!D!DeployPs(j) \/ Z!D!TeardownHydrate(j) \/ Z!D!TeardownDown(j)
           \/ Z!D!TeardownCleanup(j) \/ Z!D!TeardownNoDocker(j) \/ Z!D!CheckTransition(j)
           \/ Z!D!JobDies(j)
    PROVE  MazeInv'
<1>1. mazeJob[j] # Z!D!NoJob /\ mazeStatus' = mazeStatus
  BY DEF Z!D!DeployHydrate, Z!D!DeployNoDocker, Z!D!DeployNetworks, Z!D!DeployNetworksFail,
         Z!D!DeployUp, Z!D!DeployUpFail, Z!D!DeployPs, Z!D!TeardownHydrate, Z!D!TeardownDown,
         Z!D!TeardownCleanup, Z!D!TeardownNoDocker, Z!D!CheckTransition, Z!D!JobDies, Z!D!At
<1>2. mazeJob[j].t \notin raced => Fits(mazeJob[j], mazeStatus[mazeJob[j].t])
  BY <1>1 DEF MazeInv, JobsFit
<1>3. CASE \/ Z!D!End(j) \/ Z!D!DeployNoDocker(j) \/ Z!D!TeardownNoDocker(j) \/ Z!D!JobDies(j)
  <2>1. Z!D!End(j)
    BY <1>3 DEF Z!D!DeployNoDocker, Z!D!TeardownNoDocker, Z!D!JobDies
  <2> QED
    BY <1>1, <2>1, MazeEnd
<1>4. CASE Z!D!DeployHydrate(j) /\ ~Z!D!End(j)
  <2>1. mazeJob[j].op = "deploy" /\ Z!D!Transition(j, "deploying") /\ "deploying" \in Z!D!ALL
    BY <1>4 DEF Z!D!DeployHydrate, Z!D!At, Z!D!ALL
  <2> QED
    BY <1>1, <2>1, MazeTransition DEF Fits
<1>5. CASE Z!D!DeployNetworks(j)
  <2>1. mazeJob[j].op = "deploy" /\ mazeJob[j].at = "docker" /\ Z!D!Goto(j, "up")
        /\ "up" \in Z!D!Steps
    BY <1>5 DEF Z!D!DeployNetworks, Z!D!At, Z!D!Steps
  <2>2. mazeJob[j].t \notin raced => mazeStatus[mazeJob[j].t] = "deploying"
    BY <1>2, <2>1 DEF Fits
  <2> QED
    BY <1>1, <2>1, <2>2, MazeGoto DEF Fits
<1>6. CASE Z!D!DeployNetworksFail(j) \/ Z!D!DeployUpFail(j)
  <2>1. mazeJob[j].op = "deploy" /\ mazeJob[j].at \in {"docker", "up"}
        /\ Z!D!Transition(j, "failed") /\ "failed" \in Z!D!ALL
    BY <1>6 DEF Z!D!DeployNetworksFail, Z!D!DeployUpFail, Z!D!Rollback, Z!D!At, Z!D!ALL
  <2>2. mazeJob[j].t \notin raced => mazeStatus[mazeJob[j].t] = "deploying"
    BY <1>2, <2>1 DEF Fits
  <2> QED
    BY <1>1, <2>1, <2>2, MazeTransition DEF Fits
<1>7. CASE Z!D!DeployUp(j)
  <2>1. mazeJob[j].op = "deploy" /\ mazeJob[j].at = "up" /\ Z!D!Goto(j, "ps")
        /\ "ps" \in Z!D!Steps
    BY <1>7 DEF Z!D!DeployUp, Z!D!At, Z!D!Steps
  <2>2. mazeJob[j].t \notin raced => mazeStatus[mazeJob[j].t] = "deploying"
    BY <1>2, <2>1 DEF Fits
  <2> QED
    BY <1>1, <2>1, <2>2, MazeGoto DEF Fits
<1>8. CASE Z!D!DeployPs(j)
  <2>1. PICK new \in {"active", "degraded"} : Z!D!Transition(j, new)
    BY <1>8 DEF Z!D!DeployPs
  <2>2. mazeJob[j].op = "deploy" /\ mazeJob[j].at = "ps" /\ new \in Z!D!ALL
    BY <1>8 DEF Z!D!DeployPs, Z!D!At, Z!D!ALL
  <2>3. mazeJob[j].t \notin raced => mazeStatus[mazeJob[j].t] = "deploying"
    BY <1>2, <2>2 DEF Fits
  <2> QED
    BY <1>1, <2>1, <2>2, <2>3, MazeTransition DEF Fits
<1>9. CASE Z!D!TeardownHydrate(j) /\ ~Z!D!End(j)
  <2>1. mazeJob[j].op = "teardown" /\ Z!D!Transition(j, "tearing_down")
        /\ "tearing_down" \in Z!D!ALL
    BY <1>9 DEF Z!D!TeardownHydrate, Z!D!At, Z!D!ALL
  <2> QED
    BY <1>1, <2>1, MazeTransition DEF Fits
<1>10. CASE Z!D!TeardownDown(j)
  <2>1. mazeJob[j].op = "teardown" /\ Z!D!Goto(j, "cleanup") /\ "cleanup" \in Z!D!Steps
    BY <1>10 DEF Z!D!TeardownDown, Z!D!At, Z!D!Steps
  <2> QED
    BY <1>1, <2>1, MazeGoto DEF Fits
<1>11. CASE Z!D!TeardownCleanup(j)
  <2>1. mazeJob[j].op = "teardown" /\ Z!D!Transition(j, "torn_down") /\ "torn_down" \in Z!D!ALL
    BY <1>11 DEF Z!D!TeardownCleanup, Z!D!At, Z!D!ALL
  <2> QED
    BY <1>1, <2>1, MazeTransition DEF Fits
<1>12. CASE Z!D!CheckTransition(j) /\ ~Z!D!End(j)
  <2>1. /\ mazeJob[j].at = "check" /\ Z!D!Goto(j, "write") /\ "write" \in Z!D!Steps
        /\ Z!D!assert_transition(mazeStatus[mazeJob[j].t], mazeJob[j].to)
    BY <1>12 DEF Z!D!CheckTransition, Z!D!Steps
  <2>2. mazeJob[j].to = "deploying" => mazeStatus[mazeJob[j].t] = "pending"
    BY <2>1 DEF Z!D!assert_transition, Z!D!legal_next, Z!D!ALL
  <2> QED
    BY <1>1, <1>2, <2>1, <2>2, MazeGoto DEF Fits
<1> QED
  BY <1>3, <1>4, <1>5, <1>6, <1>7, <1>8, <1>9, <1>10, <1>11, <1>12

\* update_topology_status: the status a deploy writes comes after pending or
\* deploying, where the queue has no part in the topology yet.
LEMMA MazeWrite ==
    ASSUME MazeInv, QueueStill, NEW j \in Jobs, Z!D!UpdateTopologyStatus(j)
    PROVE  MazeInv'
<1> USE DEF MazeInv, QueueStill
<1>1. mazeJob[j] # Z!D!NoJob /\ mazeJob[j].at = "write"
  BY DEF Z!D!UpdateTopologyStatus
<1>2. mazeJob[j] \in Z!D!AJob
  BY <1>1 DEF MazeTypes
<1>3. PICK t \in Topologies, new \in Z!D!ALL : t = mazeJob[j].t /\ new = mazeJob[j].to
  BY <1>2 DEF Z!D!AJob
<1>4. mazeStatus' = [mazeStatus EXCEPT ![t] = IF @ = Absent THEN Absent ELSE new]
  BY <1>3 DEF Z!D!UpdateTopologyStatus, Z!D!Absent, Absent
<1>5. PICK r \in Z!D!AJob \cup {Z!D!NoJob} :
        /\ mazeJob' = [mazeJob EXCEPT ![j] = r]
        /\ r # Z!D!NoJob => /\ r.t = t /\ r.op = mazeJob[j].op
                            /\ \/ new = "deploying" /\ r.at = "docker"
                               \/ new = "tearing_down" /\ r.at = "down"
  <2>1. CASE new = "deploying"
    <3>1. Z!D!Goto(j, "docker")
      BY <1>3, <2>1 DEF Z!D!UpdateTopologyStatus
    <3> DEFINE r == [mazeJob[j] EXCEPT !.at = "docker"]
    <3>2. r \in Z!D!AJob /\ r.t = t /\ r.op = mazeJob[j].op /\ r.at = "docker"
      BY <1>2, <1>3 DEF Z!D!AJob, Z!D!Steps
    <3>3. mazeJob' = [mazeJob EXCEPT ![j] = r]
      BY <3>1 DEF Z!D!Goto
    <3> HIDE DEF r
    <3> QED BY <2>1, <3>2, <3>3
  <2>2. CASE new = "tearing_down"
    <3>1. Z!D!Goto(j, "down")
      BY <1>3, <2>2 DEF Z!D!UpdateTopologyStatus
    <3> DEFINE r == [mazeJob[j] EXCEPT !.at = "down"]
    <3>2. r \in Z!D!AJob /\ r.t = t /\ r.op = mazeJob[j].op /\ r.at = "down"
      BY <1>2, <1>3 DEF Z!D!AJob, Z!D!Steps
    <3>3. mazeJob' = [mazeJob EXCEPT ![j] = r]
      BY <3>1 DEF Z!D!Goto
    <3> HIDE DEF r
    <3> QED BY <2>2, <3>2, <3>3
  <2>3. CASE new \notin {"deploying", "tearing_down"}
    <3>1. Z!D!End(j)
      BY <1>3, <2>3 DEF Z!D!UpdateTopologyStatus
    <3> QED BY <3>1 DEF Z!D!End
  <2> QED BY <2>1, <2>2, <2>3
<1>6. raced' = raced
  BY <1>3 DEF Z!D!UpdateTopologyStatus, Z!D!Goto, Z!D!End
<1>7. /\ \A s \in Topologies : s # t => mazeStatus'[s] = mazeStatus[s]
      /\ mazeStatus'[t] = IF mazeStatus[t] = Absent THEN Absent ELSE new
  BY <1>4 DEF MazeTypes
<1>8. t \notin raced =>
        /\ Fits(mazeJob[j], mazeStatus[t])
        /\ \A i \in Jobs \ {j} : mazeJob[i] # Z!D!NoJob => mazeJob[i].t # t
  BY <1>1, <1>3 DEF JobsFit
<1>9. t \notin raced =>
        \/ new = "deploying" /\ mazeStatus[t] = "pending" /\ mazeJob[j].op = "deploy"
        \/ new \in {"active", "degraded", "failed"} /\ mazeStatus[t] = "deploying"
        \/ new \in {"tearing_down", "torn_down"} /\ mazeJob[j].op = "teardown"
  BY <1>1, <1>3, <1>8 DEF Fits
<1>10. MazeTypes'
  <2>1. mazeStatus' \in [Topologies -> Statuses]
    BY <1>3, <1>4 DEF MazeTypes, Statuses, Z!D!ALL, ALL
  <2>2. mazeJob' \in [Jobs -> Z!D!AJob \cup {Z!D!NoJob}]
    BY <1>5 DEF MazeTypes
  <2> QED
    BY <1>6, <2>1, <2>2 DEF MazeTypes
<1>11. QueueHands'
  BY DEF QueueHands
<1>12. FirstDeploy'
  <2> SUFFICES ASSUME NEW s \in Topologies \ raced, mazeStatus'[s] \in {"pending", "deploying"}
               PROVE  Unheard(s)
    BY <1>6 DEF FirstDeploy, Unheard
  <2>1. mazeStatus[s] \in {"pending", "deploying"}
    <3>1. CASE s = t
      BY <1>7, <1>9, <3>1 DEF Absent
    <3>2. CASE s # t
      BY <1>7, <3>2
    <3> QED BY <3>1, <3>2
  <2> QED
    BY <2>1 DEF FirstDeploy
<1>13. JobsFit'
  <2> SUFFICES ASSUME NEW k \in Jobs, mazeJob'[k] # Z!D!NoJob, mazeJob'[k].t \notin raced
               PROVE  /\ Fits(mazeJob'[k], mazeStatus'[mazeJob'[k].t])
                      /\ \A i \in Jobs \ {k} :
                            mazeJob'[i] # Z!D!NoJob => mazeJob'[i].t # mazeJob'[k].t
    BY <1>6 DEF JobsFit
  <2>1. \A i \in Jobs : mazeJob'[i] # Z!D!NoJob =>
            mazeJob[i] # Z!D!NoJob /\ mazeJob'[i].t = mazeJob[i].t
    BY <1>1, <1>3, <1>5 DEF MazeTypes
  <2>2. \A i \in Jobs \ {k} : mazeJob'[i] # Z!D!NoJob => mazeJob'[i].t # mazeJob'[k].t
    BY <2>1 DEF JobsFit
  <2>3. CASE k = j
    <3>1. mazeJob'[k] = r
      BY <1>5, <2>3 DEF MazeTypes
    <3>2. r.t = t /\ t \notin raced
      BY <1>5, <3>1
    <3>3. Fits(r, mazeStatus'[t])
      <4>1. CASE new = "deploying"
        <5>1. r.op = "deploy" /\ r.at = "docker" /\ mazeStatus'[t] = "deploying"
          BY <1>5, <1>7, <1>9, <3>1, <3>2, <4>1 DEF Absent
        <5> QED BY <5>1 DEF Fits
      <4>2. CASE new = "tearing_down"
        <5>1. r.op = "teardown" /\ r.at = "down"
          BY <1>5, <1>9, <3>1, <3>2, <4>2
        <5> QED BY <5>1 DEF Fits
      <4> QED BY <1>5, <3>1, <4>1, <4>2
    <3> QED
      BY <2>2, <3>1, <3>2, <3>3
  <2>4. CASE k # j
    <3>1. mazeJob'[k] = mazeJob[k]
      BY <1>5, <2>4 DEF MazeTypes
    <3>2. mazeJob[k].t \in Topologies /\ Fits(mazeJob[k], mazeStatus[mazeJob[k].t])
      BY <3>1 DEF MazeTypes, Z!D!AJob, JobsFit
    <3>3. mazeJob[k].t # t
      BY <1>1, <1>3, <2>4, <3>1 DEF JobsFit
    <3> QED
      BY <1>7, <2>2, <3>1, <3>2, <3>3
  <2> QED
    BY <2>3, <2>4
<1>14. FailureNoted'
  <2> SUFFICES ASSUME NEW m \in Rows, state[m] = "failed", crashes = 0,
                      topology_id[m] \notin raced, mazeStatus'[topology_id[m]] = "active"
               PROVE  \E w \in Watchers : pc[w] \in ToDegrade /\ tid[w] = topology_id[m]
    BY <1>6 DEF FailureNoted
  <2>1. topology_id[m] \in Topologies
    BY DEF MazeTypes
  <2>2. topology_id[m] # t
    <3> SUFFICES ASSUME topology_id[m] = t PROVE FALSE
      OBVIOUS
    <3>1. new = "active" /\ mazeStatus[t] = "deploying"
      BY <1>7, <1>9 DEF Absent
    <3> QED
      BY <3>1 DEF FirstDeploy, Unheard
  <2> QED
    BY <1>7, <2>1, <2>2 DEF FailureNoted
<1> QED
  BY <1>10, <1>11, <1>12, <1>13, <1>14

\* delete_topology_cascade, with the mutation rows.
LEMMA MazeCascade ==
    ASSUME MazeInv, NEW j \in Jobs, Z!D!DeleteCascade(j), Z!Q!DeleteRows(mazeJob[j].t)
    PROVE  MazeInv'
<1> USE DEF MazeInv
<1>1. mazeJob[j] # Z!D!NoJob /\ mazeJob[j].op = "delete"
  BY DEF Z!D!DeleteCascade, Z!D!At
<1>2. PICK t \in Topologies : t = mazeJob[j].t
  BY <1>1 DEF MazeTypes, Z!D!AJob
<1>3. /\ mazeStatus' = [mazeStatus EXCEPT ![t] = Absent]
      /\ mazeJob' = [mazeJob EXCEPT ![j] = Z!D!NoJob] /\ raced' = raced
      /\ state' = [m \in Rows |-> IF topology_id[m] = t /\ state[m] # "none"
                                  THEN "deleted" ELSE state[m]]
      /\ UNCHANGED <<admitted, queue, topology_id, pc, todo, tid, mut, crashes>>
  BY <1>2 DEF Z!D!DeleteCascade, Z!D!End, Z!Q!DeleteRows, Z!Q!Ids, Rows, Z!D!Absent, Absent
<1>4. /\ \A s \in Topologies : s # t => mazeStatus'[s] = mazeStatus[s]
      /\ mazeStatus'[t] = Absent
  BY <1>3 DEF MazeTypes
<1>5. \A m \in Rows : /\ (state'[m] = "none") <=> (state[m] = "none")
                      /\ state'[m] = "failed" => state[m] = "failed"
  BY <1>3
<1>6. MazeTypes'
  <2>1. mazeStatus' \in [Topologies -> Statuses]
    BY <1>3 DEF MazeTypes, Statuses
  <2>2. state' \in [Rows -> QueueStates]
    BY <1>3 DEF MazeTypes, QueueStates
  <2>3. mazeJob' \in [Jobs -> Z!D!AJob \cup {Z!D!NoJob}]
    BY <1>3 DEF MazeTypes
  <2> QED
    BY <1>3, <2>1, <2>2, <2>3 DEF MazeTypes
<1>7. QueueHands'
  BY <1>3, <1>5 DEF QueueHands
<1>8. FirstDeploy'
  <2> SUFFICES ASSUME NEW s \in Topologies \ raced, mazeStatus'[s] \in {"pending", "deploying"}
               PROVE  Unheard(s)'
    BY <1>3 DEF FirstDeploy
  <2>1. Unheard(s)
    BY <1>4 DEF FirstDeploy, Absent
  <2> QED
    BY <1>3, <1>5, <2>1 DEF Unheard
<1>9. JobsFit'
  <2> SUFFICES ASSUME NEW k \in Jobs, mazeJob'[k] # Z!D!NoJob, mazeJob'[k].t \notin raced
               PROVE  /\ Fits(mazeJob'[k], mazeStatus'[mazeJob'[k].t])
                      /\ \A i \in Jobs \ {k} :
                            mazeJob'[i] # Z!D!NoJob => mazeJob'[i].t # mazeJob'[k].t
    BY <1>3 DEF JobsFit
  <2>1. \A i \in Jobs : mazeJob'[i] # Z!D!NoJob => i # j /\ mazeJob'[i] = mazeJob[i]
    BY <1>3 DEF MazeTypes
  <2>2. mazeJob[k].t \in Topologies /\ mazeJob[k].t # t
    BY <1>1, <1>2, <2>1 DEF JobsFit, MazeTypes, Z!D!AJob
  <2> QED
    BY <1>4, <2>1, <2>2 DEF JobsFit
<1>10. FailureNoted'
  <2> SUFFICES ASSUME NEW m \in Rows, state'[m] = "failed", crashes = 0,
                      topology_id[m] \notin raced, mazeStatus'[topology_id[m]] = "active"
               PROVE  \E w \in Watchers : pc[w] \in ToDegrade /\ tid[w] = topology_id[m]
    BY <1>3 DEF FailureNoted
  <2>1. topology_id[m] \in Topologies /\ topology_id[m] # t
    BY <1>4 DEF MazeTypes, Absent
  <2> QED
    BY <1>4, <1>5, <2>1 DEF FailureNoted
<1> QED
  BY <1>6, <1>7, <1>8, <1>9, <1>10

\* An endpoint starts a job; if another one is at the topology they race.
LEMMA MazeRequest ==
    ASSUME MazeInv, QueueStill, NEW j \in Jobs, Z!D!Request(j)
    PROVE  MazeInv'
<1> USE DEF MazeInv, QueueStill
<1>1. PICK t \in Topologies, op \in {"deploy", "teardown", "delete"},
           at \in {"hydrate", "cascade"} :
        /\ Z!D!Start(j, op, t, at)
        /\ op \in {"deploy", "teardown"} => at = "hydrate"
        /\ op = "delete" => at = "cascade"
        /\ mazeJob[j] = Z!D!NoJob /\ mazeStatus' = mazeStatus
  BY DEF Z!D!Request, Z!D!ApiDeploy, Z!D!ApiTeardown, Z!D!ApiDelete
<1> DEFINE r == [op |-> op, t |-> t, at |-> at, to |-> "pending"]
<1>2. r \in Z!D!AJob /\ r.op = op /\ r.at = at /\ r.t = t
  BY DEF Z!D!AJob, Z!D!Steps, Z!D!ALL
<1>3. /\ mazeJob' = [mazeJob EXCEPT ![j] = r]
      /\ raced' = IF Z!D!Settled(t) THEN raced ELSE raced \cup {t}
  BY <1>1 DEF Z!D!Start
<1> HIDE DEF r
<1>4. MazeTypes'
  BY <1>1, <1>2, <1>3 DEF MazeTypes
<1>5. QueueHands'
  BY DEF QueueHands
<1>6. FirstDeploy'
  <2>1. \A s \in Topologies \ raced' : s \in Topologies \ raced
    BY <1>3
  <2> QED
    BY <1>1, <2>1 DEF FirstDeploy, Unheard
<1>7. FailureNoted'
  BY <1>1, <1>3 DEF FailureNoted
<1>8. JobsFit'
  <2> SUFFICES ASSUME NEW k \in Jobs, mazeJob'[k] # Z!D!NoJob, mazeJob'[k].t \notin raced'
               PROVE  /\ Fits(mazeJob'[k], mazeStatus[mazeJob'[k].t])
                      /\ \A i \in Jobs \ {k} :
                            mazeJob'[i] # Z!D!NoJob => mazeJob'[i].t # mazeJob'[k].t
    BY <1>1 DEF JobsFit
  <2>1. mazeJob'[j] = r /\ \A i \in Jobs \ {j} : mazeJob'[i] = mazeJob[i]
    BY <1>3 DEF MazeTypes
  <2>2. mazeJob'[k].t \notin raced
    BY <1>3
  <2>3. CASE k = j
    <3>1. Z!D!Settled(t)
      BY <1>2, <1>3, <2>1, <2>3
    <3>2. \A i \in Jobs : mazeJob[i] # Z!D!NoJob => mazeJob[i].t # t
      BY <3>1 DEF Z!D!Settled
    <3>3. Fits(r, mazeStatus[t])
      BY <1>1, <1>2 DEF Fits
    <3> QED
      BY <1>2, <2>1, <2>3, <3>2, <3>3
  <2>4. CASE k # j
    <3>1. mazeJob[k] # Z!D!NoJob /\ mazeJob'[k] = mazeJob[k]
      BY <2>1, <2>4
    <3>2. mazeJob[k].t # t
      <4> SUFFICES ASSUME mazeJob[k].t = t PROVE FALSE
        OBVIOUS
      <4>1. ~Z!D!Settled(t)
        BY <3>1 DEF Z!D!Settled
      <4> QED
        BY <1>3, <3>1, <4>1
    <3> QED
      BY <1>2, <2>1, <2>2, <2>4, <3>1, <3>2 DEF JobsFit
  <2> QED
    BY <2>3, <2>4
<1> QED
  BY <1>4, <1>5, <1>6, <1>7, <1>8

\* Every step of a job, of a watch loop and of the API keeps the invariant.
LEMMA MazeStep == MazeInv /\ [Z!Next]_(Z!vars) => MazeInv'
<1> SUFFICES ASSUME MazeInv, [Z!Next]_(Z!vars) PROVE MazeInv'
  OBVIOUS
<1>1. ASSUME NEW j \in Jobs, Z!JobStep(j) PROVE MazeInv'
  <2>1. CASE Z!D!DeleteCascade(j) /\ Z!Q!DeleteRows(mazeJob[j].t)
    BY <2>1, MazeCascade
  <2>2. CASE /\ Z!D!Request(j) \/ Z!D!JobDies(j)
                \/ (~Z!D!At(j, "delete", "cascade") /\ Z!D!Run(j))
             /\ UNCHANGED Z!queueVars
    <3>1. QueueStill
      BY <2>2 DEF Z!queueVars, QueueStill
    <3>2. CASE Z!D!Request(j)
      BY <3>1, <3>2, MazeRequest
    <3>3. CASE Z!D!JobDies(j)
      BY <3>1, <3>3, MazeQuietRun
    <3>4. CASE ~Z!D!At(j, "delete", "cascade") /\ Z!D!Run(j)
      <4>1. ~Z!D!DeleteCascade(j)
        BY <3>4 DEF Z!D!DeleteCascade
      <4>2. CASE Z!D!UpdateTopologyStatus(j)
        BY <3>1, <4>2, MazeWrite
      <4>3. CASE ~Z!D!UpdateTopologyStatus(j)
        BY <3>1, <3>4, <4>1, <4>3, MazeQuietRun DEF Z!D!Run
      <4> QED BY <4>2, <4>3
    <3> QED
      BY <2>2, <3>2, <3>3, <3>4
  <2> QED
    BY <1>1, <2>1, <2>2 DEF Z!JobStep
<1>2. ASSUME NEW w \in Watchers, Z!DegradeStep(w) PROVE MazeInv'
  BY <1>2, MazeDegrade
<1>3. CASE Z!QueueStep
  <2>1. JobsStill
    BY <1>3 DEF Z!QueueStep, Z!deployVars, JobsStill
  <2>2. ASSUME NEW t \in Topologies, Z!Q!Api(t) PROVE MazeInv'
    BY <2>1, <2>2, MazeAdmit, MazeEnqueue, MazeReject DEF Z!Q!Api
  <2>3. ASSUME NEW w \in Watchers, Z!Q!Drain(w) PROVE MazeInv'
    BY <2>1, <2>3, MazeQuietDrain, MazeClaim, MazeDispatch, MazeMark DEF Z!Q!Drain
  <2>4. ASSUME NEW w \in Watchers, Z!Q!Crash(w) \/ Z!Q!Restart(w) PROVE MazeInv'
    BY <2>1, <2>4, MazeCrash
  <2> QED
    BY <1>3, <2>2, <2>3, <2>4 DEF Z!QueueStep
<1>4. CASE UNCHANGED Z!vars
  <2>1. QueueStill /\ JobsStill /\ mazeStatus' = mazeStatus
    BY <1>4 DEF Z!vars, Z!deployVars, Z!queueVars, QueueStill, JobsStill
  <2> QED
    BY <2>1 DEF MazeInv, QueueStill, JobsStill, MazeTypes, QueueHands, FirstDeploy, Unheard,
                JobsFit, FailureNoted
<1>5. CASE Z!PlanStep
  <2>1. QueueStill /\ JobsStill /\ mazeStatus' = mazeStatus
    BY <1>5 DEF Z!PlanStep, Z!D!Plan, Z!D!DryRun, Z!D!DryRunWrite, Z!queueVars,
                QueueStill, JobsStill
  <2> QED
    BY <2>1 DEF MazeInv, QueueStill, JobsStill, MazeTypes, QueueHands, FirstDeploy, Unheard,
                JobsFit, FailureNoted
<1> QED
  BY <1>1, <1>2, <1>3, <1>4, <1>5 DEF Z!Next

\* The deployer and the queue on one status column: a topology on its way to its
\* first deployment is unknown to the queue, its job finds the status where it
\* put it, and a failed mutation of an active topology has a loop about to
\* degrade it; for any number of jobs and loops, whatever dies.
THEOREM MazeInvariant == Z!Spec => []MazeInv
BY MazeInit, MazeStep, PTL DEF Z!Spec

\* "so operators can see that a requested change was rejected" (engine.py:250):
\* a topology with a failed mutation is not shown as active once the loop is
\* done with it, unless a loop died or two jobs raced on the topology.
THEOREM FailedMutationShowsTheorem == Z!Spec => []FailedMutationShows
BY MazeInvariant, MazeShows, PTL

(* The homes of the deckies (MutationOps) *)

\* A decky_config with a home.
Homed(c) ==
    /\ c = [ips |-> c.ips, l3 |-> c.l3]
    /\ c.ips \in Seq(ToSet(c.ips)) /\ c.ips # <<>> /\ c.ips[1].lan \in LanNames

IsRow(r) ==
    /\ r = [uuid |-> r.uuid, cfg |-> r.cfg, services |-> r.services, state |-> r.state]
    /\ r.uuid \in Nat \ {0} /\ Homed(r.cfg)

JobFields == {"op", "at", "d", "lan", "ip", "l3", "cfg", "patch", "services", "add", "del", "visitors"}
IsJob(j) == j = [f \in JobFields |-> j[f]] /\ j.visitors \subseteq Deckies

IsCall(a) ==
    /\ a = [kind |-> a.kind, at |-> a.at, d |-> a.d, s |-> a.s, uuid |-> a.uuid, cfg |-> a.cfg,
            services |-> a.services, config |-> a.config, up |-> a.up]
    /\ a.d \in Deckies /\ a.uuid \in Nat \ {0}

Shapes ==
    /\ rows = [d \in Deckies |-> rows[d]]
    /\ lans \in [LanNames -> [subnet : Nat, dmz : BOOLEAN]]
    /\ edges \subseteq [d : Deckies, lan : LanNames, bridge : BOOLEAN]
    /\ IsJob(job)
    /\ api.kind # None => IsCall(api)
    /\ left = [ops |-> left.ops, api |-> left.api, faults |-> left.faults] /\ left.ops \in Nat

\* No LAN was renamed, and no patch rewrote addresses.
Unmoved(ex) == "rename" \notin ex /\ "patch" \notin ex

\* A row has a home, which is a LAN of the topology unless something was moved;
\* an edge has a row.
RowsHomed ==
    /\ \A d \in Deckies : HasRow(d) =>
          /\ IsRow(rows[d])
          /\ Unmoved(excuses) => lans[Home(rows[d].cfg)] # NoLan
    /\ \A e \in edges : HasRow(e.d)

\* The id of a row that is about to be written is new.
Issued(u) ==
    /\ u = 1 \/ u >= left.ops + 2
    /\ On({"add_decky"}, "write") => u # left.ops + 2

IdsNew ==
    /\ \A d \in Deckies : HasRow(d) => Issued(rows[d].uuid)
    /\ api.kind # None => Issued(api.uuid)

\* What the op read still says where everybody lives, unless addresses were
\* patched, and it is not about to take a home away.
JobHomes ==
    /\ job.op \in {"attach_decky", "detach_decky", "update_decky", "remove_lan"} =>
          \A d \in Deckies : HasRow(d) =>
              /\ Homed(job.cfg[d])
              /\ "patch" \notin excuses => Home(job.cfg[d]) = Home(rows[d].cfg)
    /\ job.op \in {"attach_decky", "detach_decky", "update_decky"}
       \/ (job.op = "add_decky" /\ job.at # "write") => job.d \in Deckies /\ HasRow(job.d)
    /\ job.op = "detach_decky" => Home(job.cfg[job.d]) # job.lan
    /\ job.op = "remove_lan" =>
          /\ \A d \in Deckies : HasRow(d) => Home(job.cfg[d]) # job.lan
          /\ \A d \in job.visitors : HasRow(d)
    /\ job.op \in {"add_decky", "attach_decky", "remove_lan"} => job.lan \in LanNames
    /\ job.op = "add_decky" => job.d \in Deckies /\ job.ip.lan = job.lan
    /\ On({"add_decky"}, "write") => lans[job.lan] # NoLan

\* So does what a live service change read, as long as the row is the same.
ApiHomes ==
    api.kind # None /\ rows[api.d].uuid = api.uuid =>
        /\ Homed(api.cfg)
        /\ "patch" \notin excuses => Home(api.cfg) = Home(rows[api.d].cfg)

HomeInv == Shapes /\ RowsHomed /\ IdsNew /\ JobHomes /\ ApiHomes

\* A sequence is one over its own elements.
LEMMA OwnElements ==
    ASSUME NEW S, NEW s \in Seq(S) PROVE s \in Seq(ToSet(s))
<1>1. Len(s) \in Nat /\ DOMAIN s = 1..Len(s) /\ s = [i \in 1..Len(s) |-> s[i]]
  BY LenProperties
<1>2. s \in [1..Len(s) -> ToSet(s)]
  BY <1>1 DEF ToSet
<1> QED
  BY <1>1, <1>2, SeqDef

\* The elements of a finite set can be listed.
LEMMA ListOfSet ==
    ASSUME NEW S, IsFiniteSet(S) PROVE SetToSeq(S) \in Seq(S)
<1>1. Cardinality(S) \in Nat /\ ExistsBijection(1..Cardinality(S), S)
  BY FS_CardinalityType
<1>2. \E f \in [1..Cardinality(S) -> S] : IsInjective(f)
  BY <1>1 DEF ExistsBijection, Bijection, Injection
<1>3. SetToSeq(S) \in [1..Cardinality(S) -> S]
  BY <1>2 DEF SetToSeq
<1> QED
  BY <1>1, <1>3, SeqDef

\* Appending to an address list leaves its first address.
LEMMA ConcatHome ==
    ASSUME NEW S, NEW s \in Seq(S), s # <<>>, NEW T, NEW t \in Seq(T)
    PROVE  /\ s \o t \in Seq(ToSet(s \o t)) /\ s \o t # <<>> /\ (s \o t)[1] = s[1]
<1>1. s \in Seq(S \cup T) /\ t \in Seq(S \cup T)
  BY SeqMonotonic
<1>2. /\ s \o t \in Seq(S \cup T) /\ Len(s \o t) = Len(s) + Len(t)
      /\ \A i \in 1..Len(s) + Len(t) :
            (s \o t)[i] = IF i <= Len(s) THEN s[i] ELSE t[i - Len(s)]
  BY <1>1, ConcatProperties
<1>3. Len(s) \in Nat /\ Len(s) # 0 /\ Len(t) \in Nat
  BY LenProperties, EmptySeq
<1>4. (s \o t)[1] = s[1] /\ Len(s \o t) # 0
  BY <1>2, <1>3
<1>5. s \o t # <<>>
  BY <1>4, EmptySeq
<1> QED
  BY <1>2, <1>4, <1>5, OwnElements

\* decky_config["ips_by_lan"].pop of a LAN that is not the first.
LEMMA PopHome ==
    ASSUME NEW s, s \in Seq(ToSet(s)), s # <<>>, NEW l, s[1].lan # l
    PROVE  /\ Pop(s, l) \in Seq(ToSet(Pop(s, l))) /\ Pop(s, l) # <<>>
           /\ Pop(s, l)[1] = s[1]
<1>1. CASE l \notin Keys(s)
  BY <1>1 DEF Pop
<1>2. CASE l \in Keys(s)
  <2> DEFINE i == CHOOSE k \in DOMAIN s : s[k].lan = l
  <2>1. i \in DOMAIN s /\ s[i].lan = l
    BY <1>2 DEF Keys
  <2>2. Pop(s, l) = SubSeq(s, 1, i - 1) \o SubSeq(s, i + 1, Len(s))
    BY <1>2 DEF Pop, RemoveAt
  <2> HIDE DEF i
  <2>3. Len(s) \in Nat /\ DOMAIN s = 1..Len(s)
    BY LenProperties
  <2>4. i \in 2..Len(s)
    BY <2>1, <2>3
  <2>5. \A k \in 1..Len(s) : s[k] \in ToSet(s)
    BY <2>3 DEF ToSet
  <2>6. /\ SubSeq(s, 1, i - 1) \in Seq(ToSet(s)) /\ Len(SubSeq(s, 1, i - 1)) = i - 1
        /\ SubSeq(s, 1, i - 1)[1] = s[1]
    BY <2>3, <2>4, <2>5, SubSeqProperties
  <2>7. SubSeq(s, i + 1, Len(s)) \in Seq(ToSet(s))
    BY <2>3, <2>4, <2>5, SubSeqProperties
  <2>8. SubSeq(s, 1, i - 1) # <<>>
    BY <2>4, <2>6, EmptySeq
  <2> QED
    BY <2>2, <2>6, <2>7, <2>8, ConcatHome
<1> QED
  BY <1>1, <1>2

\* A put leaves the first key.
LEMMA PutHome ==
    ASSUME NEW s, s \in Seq(ToSet(s)), s # <<>>, NEW a
    PROVE  /\ Put(s, a) \in Seq(ToSet(Put(s, a))) /\ Put(s, a) # <<>>
           /\ Put(s, a)[1].lan = s[1].lan
<1>1. Len(s) \in Nat /\ DOMAIN s = 1..Len(s) /\ Len(s) # 0
  BY LenProperties, EmptySeq
<1>2. CASE a.lan \in Keys(s)
  <2>1. Put(s, a) = [i \in 1..Len(s) |-> IF s[i].lan = a.lan THEN a ELSE s[i]]
    BY <1>1, <1>2 DEF Put
  <2>2. Put(s, a) \in [1..Len(s) -> ToSet(s) \cup {a}]
    BY <1>1, <2>1 DEF ToSet
  <2>3. Put(s, a) \in Seq(ToSet(s) \cup {a})
    BY <1>1, <2>2, SeqDef
  <2>4. Put(s, a)[1].lan = s[1].lan /\ DOMAIN Put(s, a) = 1..Len(s)
    BY <1>1, <2>1
  <2>5. Put(s, a) # <<>>
    BY <1>1, <2>4
  <2> QED
    BY <2>3, <2>4, <2>5, OwnElements
<1>3. CASE a.lan \notin Keys(s)
  <2>1. Put(s, a) = Append(s, a)
    BY <1>3 DEF Put
  <2>2. s \in Seq(ToSet(s) \cup {a})
    BY SeqMonotonic
  <2>3. /\ Append(s, a) \in Seq(ToSet(s) \cup {a}) /\ Len(Append(s, a)) = Len(s) + 1
        /\ \A i \in 1..Len(s) : Append(s, a)[i] = s[i]
    BY <2>2, AppendProperties
  <2>4. Append(s, a)[1] = s[1] /\ Len(Append(s, a)) # 0
    BY <1>1, <2>3
  <2>5. Append(s, a) # <<>>
    BY <2>4, EmptySeq
  <2> QED
    BY <2>1, <2>3, <2>4, <2>5, OwnElements
<1> QED
  BY <1>2, <1>3

\* hydrate only adds addresses behind the ones that are there.
LEMMA HydrateHome ==
    ASSUME NEW d \in Deckies, Homed(rows[d].cfg)
    PROVE  Homed(Config(d)) /\ Home(Config(d)) = Home(rows[d].cfg)
<1> DEFINE ips == rows[d].cfg.ips
           gaps == {l \in LanNames : d \in Members(l) /\ l \notin Keys(ips)}
           more == {Backfilled(d, l) : l \in gaps}
<1>1. Config(d) = [rows[d].cfg EXCEPT !.ips = ips \o SetToSeq(more)]
  BY DEF Config
<1>2. IsFiniteSet(more)
  <2>1. IsFiniteSet(gaps)
    BY MutationOpsAssumption, FS_Subset
  <2> HIDE DEF gaps
  <2> DEFINE f == [l \in gaps |-> Backfilled(d, l)]
  <2>2. f \in Surjection(gaps, more)
    BY DEF Surjection
  <2> HIDE DEF f, more
  <2> QED
    BY <2>1, <2>2, FS_Surjection
<1>3. SetToSeq(more) \in Seq(more)
  BY <1>2, ListOfSet
<1>4. ips \in Seq(ToSet(ips)) /\ ips # <<>> /\ ips[1].lan \in LanNames
  BY DEF Homed
<1> HIDE DEF more, gaps, ips
<1>5. /\ ips \o SetToSeq(more) \in Seq(ToSet(ips \o SetToSeq(more)))
      /\ ips \o SetToSeq(more) # <<>> /\ (ips \o SetToSeq(more))[1] = ips[1]
  BY <1>3, <1>4, ConcatHome
<1>6. Config(d) = [ips |-> ips \o SetToSeq(more), l3 |-> rows[d].cfg.l3]
  BY <1>1 DEF Homed
<1> QED
  BY <1>4, <1>5, <1>6 DEF Homed, Home, ips

\* Everybody who has a row keeps it, with its id and, without a patch, its home.
Steady ==
    /\ rows' = [d \in Deckies |-> rows'[d]]
    /\ \A d \in Deckies :
          /\ ~HasRow(d) => rows'[d] = NoRow
          /\ HasRow(d) => /\ rows'[d] # NoRow /\ IsRow(rows'[d])
                          /\ rows'[d].uuid = rows[d].uuid
                          /\ "patch" \notin excuses' => Home(rows'[d].cfg) = Home(rows[d].cfg)

\* The op ends, or goes on with what it read.
OpGoesOn ==
    \/ job' = Blank
    \/ /\ IsJob(job') /\ job'.op = job.op /\ job'.lan = job.lan /\ job'.cfg = job.cfg
       /\ job'.ip = job.ip
       /\ job.op # "remove_lan" => job'.d = job.d
       /\ job'.visitors \subseteq job.visitors
       /\ job.op = "add_decky" => ((job'.at = "write") <=> (job.at = "write"))

CallGoesOn ==
    \/ api'.kind = None
    \/ IsCall(api') /\ api'.kind = api.kind /\ api'.d = api.d /\ api'.uuid = api.uuid
       /\ api'.cfg = api.cfg

\* No op is claimed, and excuses only grow.
Counted ==
    /\ left' = [ops |-> left.ops, api |-> left'.api, faults |-> left'.faults]
    /\ excuses \subseteq excuses'

\* HomeKept of one step.
HomeStep ==
    \A d \in Deckies :
        /\ HasRow(d) /\ rows'[d] # NoRow /\ rows'[d].uuid = rows[d].uuid
        /\ "patch" \notin excuses'
        => /\ Home(rows'[d].cfg) = Home(rows[d].cfg)
           /\ "rename" \notin excuses' => lans'[Home(rows[d].cfg)] # NoLan

\* The home of a row that stays is there after the step.
LEMMA HomeStays ==
    ASSUME HomeInv',
           \A d \in Deckies :
               /\ HasRow(d) /\ rows'[d] # NoRow /\ rows'[d].uuid = rows[d].uuid
               /\ "patch" \notin excuses'
               => Home(rows'[d].cfg) = Home(rows[d].cfg)
    PROVE  HomeStep
BY DEF HomeStep, HomeInv, RowsHomed, HasRow, Unmoved

LEMMA BlankJob == IsJob(Blank) /\ Blank.op = None /\ Blank.at = None
BY DEF IsJob, JobFields, Blank, None

\* Homes survive a step in which the rows are steady, the LANs that go are no
\* homes and the edges have rows.
LEMMA SteadyRows ==
    ASSUME HomeInv, Steady, OpGoesOn, CallGoesOn, Counted,
           lans' \in [LanNames -> [subnet : Nat, dmz : BOOLEAN]],
           \A l \in LanNames : lans[l] # NoLan /\ lans'[l] = NoLan =>
               /\ job.op # "add_decky"
               /\ "patch" \notin excuses' =>
                     \A d \in Deckies : HasRow(d) => Home(rows[d].cfg) # l,
           edges' \subseteq [d : Deckies, lan : LanNames, bridge : BOOLEAN],
           \A e \in edges' : HasRow(e.d)
    PROVE  HomeInv' /\ HomeStep
<1> USE DEF HomeInv
<1>1. left'.ops = left.ops /\ left'.ops \in Nat
      /\ left' = [ops |-> left'.ops, api |-> left'.api, faults |-> left'.faults]
  BY DEF Counted, Shapes
<1>2. IsJob(job')
  BY BlankJob DEF OpGoesOn
<1>3. api'.kind # None => IsCall(api')
  BY DEF CallGoesOn, NoApi
<1>4. Shapes'
  <2>1. /\ rows' = [d \in Deckies |-> rows'[d]] /\ lans' \in [LanNames -> [subnet : Nat, dmz : BOOLEAN]]
        /\ edges' \subseteq [d : Deckies, lan : LanNames, bridge : BOOLEAN]
    BY DEF Steady, Shapes
  <2> QED
    BY <1>1, <1>2, <1>3, <2>1 DEF Shapes, IsJob, IsCall
<1>5. \A d \in Deckies : (rows'[d] # NoRow) <=> HasRow(d)
  BY DEF Steady, HasRow
<1>6. RowsHomed'
  <2>1. ASSUME NEW d \in Deckies, rows'[d] # NoRow
        PROVE  IsRow(rows'[d]) /\ (Unmoved(excuses') => lans'[Home(rows'[d].cfg)] # NoLan)
    <3>1. /\ HasRow(d) /\ IsRow(rows'[d])
          /\ Unmoved(excuses') => Home(rows'[d].cfg) = Home(rows[d].cfg)
      BY <1>5, <2>1 DEF Steady, Unmoved
    <3>2. Unmoved(excuses') => lans[Home(rows[d].cfg)] # NoLan
      BY <3>1 DEF RowsHomed, Counted, Unmoved
    <3>3. Home(rows[d].cfg) \in LanNames
      BY <3>1 DEF RowsHomed, IsRow, Homed, Home
    <3> QED
      BY <3>1, <3>2, <3>3 DEF Unmoved
  <2>2. \A e \in edges' : rows'[e.d] # NoRow
    <3>1. \A e \in edges' : e.d \in Deckies /\ HasRow(e.d)
      OBVIOUS
    <3> QED
      BY <1>5, <3>1
  <2> QED
    BY <2>1, <2>2 DEF RowsHomed, HasRow, IsRow, Homed, Unmoved
<1>7. On({"add_decky"}, "write")' => On({"add_decky"}, "write")
  BY BlankJob DEF OpGoesOn, On, None
<1>8. IdsNew'
  <2>1. \A u : Issued(u) => /\ u = 1 \/ u >= left'.ops + 2
                            /\ On({"add_decky"}, "write")' => u # left'.ops + 2
    BY <1>1, <1>7 DEF Issued
  <2>2. \A d \in Deckies : rows'[d] # NoRow => Issued(rows'[d].uuid)
    BY <1>5 DEF Steady, IdsNew
  <2>3. api'.kind # None => Issued(api'.uuid)
    BY DEF CallGoesOn, NoApi, IdsNew
  <2> QED
    BY <2>1, <2>2, <2>3 DEF IdsNew, HasRow, Issued
<1>9. JobHomes'
  <2>1. CASE job' = Blank
    BY <2>1, BlankJob DEF JobHomes, On, None
  <2>2. CASE job' # Blank
    <3>1. /\ job'.op = job.op /\ job'.lan = job.lan /\ job'.cfg = job.cfg /\ job'.ip = job.ip
          /\ job.op # "remove_lan" => job'.d = job.d
          /\ job'.visitors \subseteq job.visitors
          /\ job.op = "add_decky" => ((job'.at = "write") <=> (job.at = "write"))
      BY <2>2 DEF OpGoesOn
    <3>2. /\ excuses \subseteq excuses'
          /\ \A d \in Deckies : HasRow(d) =>
                /\ rows'[d] # NoRow
                /\ "patch" \notin excuses' => Home(rows'[d].cfg) = Home(rows[d].cfg)
      BY DEF Steady, Counted
    <3>3. job'.op \in {"attach_decky", "detach_decky", "update_decky", "remove_lan"} =>
             \A d \in Deckies : rows'[d] # NoRow =>
                 /\ Homed(job'.cfg[d])
                 /\ "patch" \notin excuses' => Home(job'.cfg[d]) = Home(rows'[d].cfg)
      BY <1>5, <3>1, <3>2 DEF JobHomes
    <3>4. job'.op \in {"attach_decky", "detach_decky", "update_decky"}
          \/ (job'.op = "add_decky" /\ job'.at # "write")
          => job'.d \in Deckies /\ rows'[job'.d] # NoRow
      BY <3>1, <3>2 DEF JobHomes
    <3>5. job'.op = "detach_decky" => Home(job'.cfg[job'.d]) # job'.lan
      BY <3>1, <3>2 DEF JobHomes
    <3>6. job'.op = "remove_lan" =>
          /\ \A d \in Deckies : rows'[d] # NoRow => Home(job'.cfg[d]) # job'.lan
          /\ \A d \in job'.visitors : rows'[d] # NoRow
      <4>1. job.visitors \subseteq Deckies
        BY DEF Shapes, IsJob
      <4> QED
        BY <1>5, <3>1, <3>2, <4>1 DEF JobHomes
    <3>7. /\ job'.op \in {"add_decky", "attach_decky", "remove_lan"} => job'.lan \in LanNames
          /\ job'.op = "add_decky" => job'.d \in Deckies /\ job'.ip.lan = job'.lan
          /\ On({"add_decky"}, "write")' => lans'[job'.lan] # NoLan
      <4>1. On({"add_decky"}, "write")' =>
                job.op = "add_decky" /\ job.lan \in LanNames /\ lans[job.lan] # NoLan
        BY <1>7 DEF JobHomes, On
      <4> QED
        BY <3>1, <4>1 DEF JobHomes
    <3> QED
      BY <3>3, <3>4, <3>5, <3>6, <3>7 DEF JobHomes, HasRow, Homed, Home
  <2> QED
    BY <2>1, <2>2
<1>10. ApiHomes'
  <2> SUFFICES ASSUME api'.kind # None, rows'[api'.d].uuid = api'.uuid
               PROVE  /\ Homed(api'.cfg)
                      /\ "patch" \notin excuses' => Home(api'.cfg) = Home(rows'[api'.d].cfg)
    BY DEF ApiHomes, Homed
  <2>1. api.kind # None /\ api'.d = api.d /\ api'.uuid = api.uuid /\ api'.cfg = api.cfg
    BY DEF CallGoesOn, NoApi
  <2>2. api.d \in Deckies /\ api.uuid # 0
    BY <2>1 DEF Shapes, IsCall
  <2>3. HasRow(api.d)
    BY <2>1, <2>2 DEF Steady, NoRow
  <2>4. /\ rows[api.d].uuid = api.uuid
        /\ "patch" \notin excuses' => Home(rows'[api.d].cfg) = Home(rows[api.d].cfg)
    BY <2>1, <2>2, <2>3 DEF Steady
  <2> QED
    BY <2>1, <2>4 DEF ApiHomes, Counted
<1>11. HomeInv'
  BY <1>4, <1>6, <1>8, <1>9, <1>10
<1> QED
  BY <1>11, HomeStays DEF Steady

LEMMA SteadyStep ==
    ASSUME HomeInv, Steady, OpGoesOn, CallGoesOn, Counted, UNCHANGED lans,
           edges' \subseteq edges
    PROVE  HomeInv' /\ HomeStep
<1>1. /\ lans' \in [LanNames -> [subnet : Nat, dmz : BOOLEAN]]
      /\ edges' \subseteq [d : Deckies, lan : LanNames, bridge : BOOLEAN]
      /\ \A e \in edges' : HasRow(e.d)
  BY DEF HomeInv, Shapes, RowsHomed
<1> QED
  BY <1>1, SteadyRows

\* Rows that are not written, and a row that is written with its home.
LEMMA SameRows == ASSUME HomeInv, rows' = rows PROVE Steady
BY DEF HomeInv, Steady, Shapes, RowsHomed, HasRow

LEMMA RowWritten ==
    ASSUME HomeInv, NEW d \in Deckies, HasRow(d), NEW r, rows' = [rows EXCEPT ![d] = r],
           IsRow(r), r.uuid = rows[d].uuid,
           "patch" \notin excuses' => Home(r.cfg) = Home(rows[d].cfg)
    PROVE  Steady
<1>1. rows = [e \in Deckies |-> rows[e]]
  BY DEF HomeInv, Shapes
<1>2. rows' = [e \in Deckies |-> IF e = d THEN r ELSE rows[e]]
  BY <1>1
<1>3. rows'[d] = r /\ \A e \in Deckies \ {d} : rows'[e] = rows[e]
  BY <1>2
<1>4. r # NoRow
  BY DEF IsRow, NoRow
<1>5. rows' = [e \in Deckies |-> rows'[e]]
  BY <1>2
<1> QED
  BY <1>3, <1>4, <1>5 DEF Steady, HasRow, HomeInv, RowsHomed

\* The op goes on to its next step.
LEMMA GotoGoesOn ==
    ASSUME HomeInv, NEW at, Goto(at),
           job.op = "add_decky" => job.at # "write" /\ at # "write"
    PROVE  OpGoesOn
<1>1. IsJob(job)
  BY DEF HomeInv, Shapes
<1>2. job' = [f \in JobFields |-> IF f = "at" THEN at ELSE job[f]]
  BY <1>1 DEF Goto, IsJob
<1> QED
  BY <1>1, <1>2 DEF OpGoesOn, IsJob, JobFields

\* A step that leaves the tables alone and its op, if it is one of an op, going on.
LEMMA QuietOpStep ==
    ASSUME HomeInv, UNCHANGED <<dbVars, api>>, Counted, OpGoesOn
    PROVE  HomeInv' /\ HomeStep
<1>1. CallGoesOn
  BY DEF CallGoesOn, HomeInv, Shapes
<1>2. Steady /\ lans' = lans /\ edges' \subseteq edges
  BY SameRows DEF dbVars
<1> QED
  BY <1>1, <1>2, SteadyStep

LEMMA QuietApiStep ==
    ASSUME HomeInv, UNCHANGED <<dbVars, job>>, Counted, CallGoesOn
    PROVE  HomeInv' /\ HomeStep
<1>1. OpGoesOn
  BY DEF OpGoesOn, HomeInv, Shapes
<1>2. Steady /\ lans' = lans /\ edges' \subseteq edges
  BY SameRows DEF dbVars
<1> QED
  BY <1>1, <1>2, SteadyStep

\* Faults and the lack of them count no op.
LEMMA FaultCounts ==
    ASSUME HomeInv, Fault \/ NoFault PROVE Counted
<1>1. left = [ops |-> left.ops, api |-> left.api, faults |-> left.faults]
  BY DEF HomeInv, Shapes
<1>2. CASE Fault
  BY <1>1, <1>2 DEF Fault, Excuse, Counted
<1>3. CASE NoFault
  BY <1>1, <1>3 DEF NoFault, Counted
<1> QED
  BY <1>2, <1>3

\* The steps of an op that write no row.
LEMMA CheckHome == ASSUME HomeInv, CheckLive PROVE HomeInv' /\ HomeStep
<1>1. UNCHANGED <<dbVars, api, left, excuses>>
  BY DEF CheckLive, RowStep, dbVars
<1>2. Counted
  BY <1>1, FaultCounts DEF NoFault
<1>3. OpGoesOn
  <2>1. ASSUME NEW at, Goto(at), at # "write", job.at # "write" PROVE OpGoesOn
    BY <2>1, GotoGoesOn
  <2> QED
    BY <2>1 DEF CheckLive, AfterDocker
<1> QED
  BY <1>1, <1>2, <1>3, QuietOpStep

LEMMA DockerHome ==
    ASSUME HomeInv, DockerLan \/ DockerSpawn \/ DockerRemove \/ DockerConnect
                    \/ DockerDisconnect \/ DockerServices \/ DockerRecreate
    PROVE  HomeInv' /\ HomeStep
<1>1. UNCHANGED <<dbVars, api>>
  BY DEF DockerLan, DockerSpawn, DockerRemove, DockerConnect, DockerDisconnect,
         DockerServices, DockerRecreate, DockerStep
<1>2. Fault \/ NoFault
  BY DEF DockerLan, DockerSpawn, DockerRemove, DockerConnect, DockerDisconnect,
         DockerServices, DockerRecreate
<1>3. OpGoesOn
  <2>1. ASSUME NEW at, Goto(at), at # "write", job.at # "write" PROVE OpGoesOn
    BY <2>1, GotoGoesOn
  <2>2. AfterDocker # "write"
    BY DEF AfterDocker
  <2>3. job' = Blank => OpGoesOn
    BY DEF OpGoesOn
  <2> QED
    BY <2>1, <2>2, <2>3 DEF DockerLan, DockerSpawn, DockerRemove, DockerConnect,
         DockerDisconnect, DockerServices, DockerRecreate, DockerStep, On
<1> QED
  BY <1>1, <1>2, <1>3, FaultCounts, QuietOpStep

LEMMA EndHome == ASSUME HomeInv, Validate \/ MutatorDies PROVE HomeInv' /\ HomeStep
<1>1. UNCHANGED <<dbVars, api>>
  BY DEF Validate, MutatorDies
<1>2. Counted
  <2>1. CASE MutatorDies
    BY <2>1, FaultCounts DEF MutatorDies
  <2>2. CASE Validate
    <3>1. left = [ops |-> left.ops, api |-> left.api, faults |-> left.faults]
      BY DEF HomeInv, Shapes
    <3> QED
      BY <2>2, <3>1 DEF Validate, Excuse, Counted
  <2> QED
    BY <2>1, <2>2
<1> QED
  BY <1>1, <1>2, QuietOpStep DEF OpGoesOn, Validate, MutatorDies

\* Teardown and the fleet write no row of this topology.
LEMMA TearHome ==
    ASSUME HomeInv, TearBegin \/ TearCompose \/ TearNetworks \/ FleetUp
    PROVE  HomeInv' /\ HomeStep
<1>1. UNCHANGED <<dbVars, api, job>>
  BY DEF TearBegin, TearCompose, TearNetworks, FleetUp
<1>2. Counted
  <2>1. left = [ops |-> left.ops, api |-> left.api, faults |-> left.faults]
    BY DEF HomeInv, Shapes
  <2>2. CASE TearBegin
    BY <2>1, <2>2 DEF TearBegin, Excuse, Counted
  <2>3. CASE TearCompose
    BY <2>3, FaultCounts DEF TearCompose
  <2>4. CASE TearNetworks
    BY <2>4, FaultCounts DEF TearNetworks, NoFault
  <2>5. CASE FleetUp
    BY <2>1, <2>5 DEF FleetUp, Excuse, Counted
  <2> QED
    BY <2>2, <2>3, <2>4, <2>5
<1>3. OpGoesOn
  BY <1>1 DEF OpGoesOn, HomeInv, Shapes
<1> QED
  BY <1>1, <1>2, <1>3, QuietOpStep

LEMMA DeleteHome == ASSUME HomeInv, DeleteEdge PROVE HomeInv' /\ HomeStep
<1>1. UNCHANGED <<lans, rows, api, left, excuses>> /\ edges' \subseteq edges
  BY DEF DeleteEdge, RowStep
<1>2. Counted
  BY <1>1, FaultCounts DEF NoFault
<1>3. OpGoesOn
  <2>1. IsJob(job) /\ job.op # "add_decky"
    BY DEF DeleteEdge, On, HomeInv, Shapes
  <2>2. CASE job.op = "detach_decky"
    BY <2>1, <2>2, GotoGoesOn DEF DeleteEdge
  <2>3. CASE job.op # "detach_decky"
    <3> DEFINE others == job.visitors \ {job.d}
    <3>1. /\ job.op = "remove_lan"
          /\ job' = [job EXCEPT !.visitors = others, !.d = 0,
                                !.at = IF others = {} THEN "drop" ELSE "write"]
      BY <2>3 DEF DeleteEdge, On
    <3>2. others \subseteq job.visitors
      OBVIOUS
    <3> HIDE DEF others
    <3>3. /\ job' = [f \in JobFields |-> job'[f]] /\ job'.visitors = others
          /\ job'.op = job.op /\ job'.lan = job.lan /\ job'.cfg = job.cfg /\ job'.ip = job.ip
      BY <2>1, <3>1 DEF IsJob, JobFields
    <3> QED
      BY <2>1, <3>1, <3>2, <3>3 DEF OpGoesOn, IsJob
  <2> QED
    BY <2>2, <2>3
<1>4. CallGoesOn
  BY <1>1 DEF CallGoesOn, HomeInv, Shapes
<1>5. Steady
  BY <1>1, SameRows
<1> QED
  BY <1>1, <1>2, <1>3, <1>4, <1>5, SteadyStep

\* The API's request goes on, or ends.
LEMMA ApiGotoGoesOn ==
    ASSUME HomeInv, api.kind # None, NEW at, ApiGoto(at) PROVE CallGoesOn
<1>1. IsCall(api)
  BY DEF HomeInv, Shapes
<1>2. api' = [kind |-> api.kind, at |-> at, d |-> api.d, s |-> api.s, uuid |-> api.uuid,
              cfg |-> api.cfg, services |-> api.services, config |-> api.config, up |-> api.up]
  BY <1>1 DEF ApiGoto, IsCall
<1> QED
  BY <1>1, <1>2 DEF CallGoesOn, IsCall

LEMMA ApiDockerHome ==
    ASSUME HomeInv, ApiStop \/ ApiRender \/ ApiUp PROVE HomeInv' /\ HomeStep
<1>1. UNCHANGED <<dbVars, job>>
  BY DEF ApiStop, ApiRender, ApiUp, ApiStep, dbVars
<1>2. Counted
  BY FaultCounts DEF ApiStop, ApiRender, ApiUp, NoFault
<1>3. CallGoesOn
  <2>1. api.kind # None
    BY DEF ApiStop, ApiRender, ApiUp, None
  <2>2. ApiEnds => CallGoesOn
    BY DEF ApiEnds, CallGoesOn, NoApi
  <2> QED
    BY <2>1, <2>2, ApiGotoGoesOn DEF ApiStop, ApiRender, ApiUp
<1> QED
  BY <1>1, <1>2, <1>3, QuietApiStep

\* A write of a row by an op whose record of it is r.
LEMMA OpWrite ==
    ASSUME HomeInv, NEW d \in Deckies, HasRow(d), NEW r, rows' = [rows EXCEPT ![d] = r],
           IsRow(r), r.uuid = rows[d].uuid,
           "patch" \notin excuses => Home(r.cfg) = Home(rows[d].cfg),
           OpGoesOn, UNCHANGED edges, RowStep
    PROVE  HomeInv' /\ HomeStep
<1>2. UNCHANGED <<lans, api, left, excuses>> /\ edges' \subseteq edges
  BY DEF RowStep
<1>1. Steady
  BY <1>2, RowWritten
<1>3. Counted
  BY <1>2, FaultCounts DEF NoFault
<1>4. CallGoesOn
  BY <1>2 DEF CallGoesOn, HomeInv, Shapes
<1> QED
  BY <1>1, <1>2, <1>3, <1>4, SteadyStep

\* A row with another decky_config, or other services, of the same home.
LEMMA NewConfig ==
    ASSUME NEW r, IsRow(r), NEW c, Homed(c), NEW S, NEW st
    PROVE  IsRow([uuid |-> r.uuid, cfg |-> c, services |-> S, state |-> st])
BY DEF IsRow

LEMMA AttachHome == ASSUME HomeInv, WriteAttach PROVE HomeInv' /\ HomeStep
<1> DEFINE d == job.d
           c == [ips |-> Put(job.cfg[d].ips, job.ip), l3 |-> job.cfg[d].l3 \/ job.l3]
           r == [rows[d] EXCEPT !.cfg = c]
<1>1. /\ job.op = "attach_decky" /\ rows' = [rows EXCEPT ![d] = r]
      /\ Goto("edge") /\ UNCHANGED edges /\ RowStep
  BY DEF WriteAttach, On
<1>2. /\ d \in Deckies /\ HasRow(d) /\ Homed(job.cfg[d])
      /\ "patch" \notin excuses => Home(job.cfg[d]) = Home(rows[d].cfg)
  BY <1>1 DEF HomeInv, JobHomes
<1>3. IsRow(rows[d])
  BY <1>2 DEF HomeInv, RowsHomed
<1>4. Homed(c) /\ Home(c) = Home(job.cfg[d])
  <2> DEFINE s == job.cfg[d].ips
  <2>1. s \in Seq(ToSet(s)) /\ s # <<>> /\ s[1].lan \in LanNames
    BY <1>2 DEF Homed
  <2>2. /\ Put(s, job.ip) \in Seq(ToSet(Put(s, job.ip))) /\ Put(s, job.ip) # <<>>
        /\ Put(s, job.ip)[1].lan = s[1].lan
    BY <2>1, PutHome
  <2>3. Home(job.cfg[d]) = s[1].lan
    BY <1>2, <2>1 DEF Home
  <2> QED
    BY <2>1, <2>2, <2>3 DEF Homed, Home
<1> HIDE DEF c
<1>5. r = [uuid |-> rows[d].uuid, cfg |-> c, services |-> rows[d].services, state |-> rows[d].state]
  BY <1>3 DEF IsRow
<1>6. /\ IsRow(r) /\ r.uuid = rows[d].uuid
      /\ "patch" \notin excuses => Home(r.cfg) = Home(rows[d].cfg)
  BY <1>2, <1>3, <1>4, <1>5, NewConfig
<1>7. OpGoesOn
  BY <1>1, GotoGoesOn
<1> HIDE DEF d, r
<1> QED
  BY <1>1, <1>2, <1>6, <1>7, OpWrite

\* What detach_decky and remove_lan write: the LAN they pop is no home.
LEMMA PoppedRow ==
    ASSUME HomeInv, NEW d \in Deckies, HasRow(d), Homed(job.cfg[d]),
           "patch" \notin excuses => Home(job.cfg[d]) = Home(rows[d].cfg),
           Home(job.cfg[d]) # job.lan,
           rows' = [rows EXCEPT ![d].cfg = [job.cfg[d] EXCEPT !.ips = Pop(@, job.lan)]],
           OpGoesOn, UNCHANGED edges, RowStep
    PROVE  HomeInv' /\ HomeStep
<1> DEFINE c == [job.cfg[d] EXCEPT !.ips = Pop(@, job.lan)]
           r == [rows[d] EXCEPT !.cfg = c]
<1>1. rows' = [rows EXCEPT ![d] = r]
  OBVIOUS
<1>2. IsRow(rows[d])
  BY DEF HomeInv, RowsHomed
<1>3. Homed(c) /\ Home(c) = Home(job.cfg[d])
  <2> DEFINE s == job.cfg[d].ips
  <2>1. s \in Seq(ToSet(s)) /\ s # <<>> /\ s[1].lan \in LanNames
    BY DEF Homed
  <2>2. Home(job.cfg[d]) = s[1].lan
    BY <2>1 DEF Home
  <2>3. /\ Pop(s, job.lan) \in Seq(ToSet(Pop(s, job.lan))) /\ Pop(s, job.lan) # <<>>
        /\ Pop(s, job.lan)[1] = s[1]
    BY <2>1, <2>2, PopHome
  <2>4. c = [ips |-> Pop(s, job.lan), l3 |-> job.cfg[d].l3]
    BY DEF Homed
  <2> QED
    BY <2>1, <2>2, <2>3, <2>4 DEF Homed, Home
<1> HIDE DEF c
<1>4. r = [uuid |-> rows[d].uuid, cfg |-> c, services |-> rows[d].services, state |-> rows[d].state]
  BY <1>2 DEF IsRow
<1>5. /\ IsRow(r) /\ r.uuid = rows[d].uuid
      /\ "patch" \notin excuses => Home(r.cfg) = Home(rows[d].cfg)
  BY <1>2, <1>3, <1>4, NewConfig
<1> HIDE DEF r
<1> QED
  BY <1>1, <1>5, OpWrite

LEMMA DetachHome == ASSUME HomeInv, WriteDetach PROVE HomeInv' /\ HomeStep
<1>1. /\ job.op = "detach_decky" /\ Goto("unedge") /\ UNCHANGED edges /\ RowStep
      /\ rows' = [rows EXCEPT ![job.d].cfg = [job.cfg[job.d] EXCEPT !.ips = Pop(@, job.lan)]]
  BY DEF WriteDetach, On
<1>2. /\ job.d \in Deckies /\ HasRow(job.d) /\ Homed(job.cfg[job.d])
      /\ "patch" \notin excuses => Home(job.cfg[job.d]) = Home(rows[job.d].cfg)
      /\ Home(job.cfg[job.d]) # job.lan
  BY <1>1 DEF HomeInv, JobHomes
<1>3. OpGoesOn
  BY <1>1, GotoGoesOn
<1> QED
  BY <1>1, <1>2, <1>3, PoppedRow

LEMMA VisitorHome == ASSUME HomeInv, WriteVisitor PROVE HomeInv' /\ HomeStep
<1>1. job.op = "remove_lan" /\ UNCHANGED edges /\ RowStep
  BY DEF WriteVisitor, On
<1>2. PICK d \in job.visitors :
          /\ rows' = [rows EXCEPT ![d].cfg = [job.cfg[d] EXCEPT !.ips = Pop(@, job.lan)]]
          /\ job' = [job EXCEPT !.d = d, !.at = "check"]
  BY DEF WriteVisitor
<1>3. IsJob(job)
  BY DEF HomeInv, Shapes
<1>4. /\ d \in Deckies /\ HasRow(d) /\ Homed(job.cfg[d])
      /\ "patch" \notin excuses => Home(job.cfg[d]) = Home(rows[d].cfg)
      /\ Home(job.cfg[d]) # job.lan
  BY <1>1, <1>3 DEF HomeInv, JobHomes, IsJob
<1>5. OpGoesOn
  <2>1. /\ job' = [f \in JobFields |-> job'[f]] /\ job'.visitors = job.visitors
        /\ job'.op = job.op /\ job'.lan = job.lan /\ job'.cfg = job.cfg /\ job'.ip = job.ip
    BY <1>2, <1>3 DEF IsJob, JobFields
  <2> QED
    BY <1>1, <1>3, <2>1 DEF OpGoesOn, IsJob
<1> QED
  BY <1>1, <1>2, <1>4, <1>5, PoppedRow

\* A write of two columns.
RowShape(r) == r = [uuid |-> r.uuid, cfg |-> r.cfg, services |-> r.services, state |-> r.state]

Columns(f, d, c, S, r) ==
    /\ f = [e \in Deckies |-> f[e]] /\ d \in Deckies /\ RowShape(f[d])
    /\ r = [uuid |-> f[d].uuid, cfg |-> c, services |-> S, state |-> f[d].state]

EitherOrder(f, d, c, S, r) ==
    /\ [[f EXCEPT ![d].services = S] EXCEPT ![d].cfg = c] = [f EXCEPT ![d] = r]
    /\ [[f EXCEPT ![d].cfg = c] EXCEPT ![d].services = S] = [f EXCEPT ![d] = r]

LEMMA TwoFields ==
    ASSUME NEW f, NEW d, NEW c, NEW S, NEW r, Columns(f, d, c, S, r)
    PROVE  EitherOrder(f, d, c, S, r)
<1> USE DEF Columns
<1>1. ASSUME NEW q, RowShape(q), NEW v
      PROVE  /\ [q EXCEPT !.services = v]
                = [uuid |-> q.uuid, cfg |-> q.cfg, services |-> v, state |-> q.state]
             /\ [q EXCEPT !.cfg = v]
                = [uuid |-> q.uuid, cfg |-> v, services |-> q.services, state |-> q.state]
  BY <1>1 DEF RowShape
<1>2. /\ [[f[d] EXCEPT !.services = S] EXCEPT !.cfg = c]
         = [uuid |-> f[d].uuid, cfg |-> c, services |-> S, state |-> f[d].state]
      /\ [[f[d] EXCEPT !.cfg = c] EXCEPT !.services = S]
         = [uuid |-> f[d].uuid, cfg |-> c, services |-> S, state |-> f[d].state]
  <2> DEFINE s == [f[d] EXCEPT !.services = S]
             t == [f[d] EXCEPT !.cfg = c]
  <2>1. /\ s = [uuid |-> f[d].uuid, cfg |-> f[d].cfg, services |-> S, state |-> f[d].state]
        /\ t = [uuid |-> f[d].uuid, cfg |-> c, services |-> f[d].services, state |-> f[d].state]
    BY <1>1
  <2> HIDE DEF s, t
  <2>2. RowShape(s) /\ RowShape(t)
    BY <2>1 DEF RowShape
  <2>3. /\ [s EXCEPT !.cfg = c]
           = [uuid |-> f[d].uuid, cfg |-> c, services |-> S, state |-> f[d].state]
        /\ [t EXCEPT !.services = S]
           = [uuid |-> f[d].uuid, cfg |-> c, services |-> S, state |-> f[d].state]
    <3>1. /\ [s EXCEPT !.cfg = c]
             = [uuid |-> s.uuid, cfg |-> c, services |-> s.services, state |-> s.state]
          /\ [t EXCEPT !.services = S]
             = [uuid |-> t.uuid, cfg |-> t.cfg, services |-> S, state |-> t.state]
      BY <1>1, <2>2
    <3>2. /\ s.uuid = f[d].uuid /\ s.services = S /\ s.state = f[d].state
          /\ t.uuid = f[d].uuid /\ t.cfg = c /\ t.state = f[d].state
      BY <2>1
    <3> QED
      BY <3>1, <3>2
  <2> QED
    BY <2>3 DEF s, t
<1>3. ASSUME NEW a, NEW b PROVE [[f EXCEPT ![d] = a] EXCEPT ![d] = b] = [f EXCEPT ![d] = b]
  OBVIOUS
<1>4. [[f EXCEPT ![d].services = S] EXCEPT ![d].cfg = c]
      = [[f EXCEPT ![d] = [f[d] EXCEPT !.services = S]] EXCEPT ![d] = [[f[d] EXCEPT !.services = S] EXCEPT !.cfg = c]]
  OBVIOUS
<1>5. [[f EXCEPT ![d].cfg = c] EXCEPT ![d].services = S]
      = [[f EXCEPT ![d] = [f[d] EXCEPT !.cfg = c]] EXCEPT ![d] = [[f[d] EXCEPT !.cfg = c] EXCEPT !.services = S]]
  OBVIOUS
<1> QED
  BY <1>1, <1>2, <1>3, <1>4, <1>5 DEF EitherOrder

UpdatedRow ==
    [uuid |-> rows[job.d].uuid,
     cfg |-> IF job.patch # None THEN [job.cfg[job.d] EXCEPT !.l3 = job.l3] ELSE rows[job.d].cfg,
     services |-> IF job.add \cup job.del # {} THEN job.services ELSE rows[job.d].services,
     state |-> rows[job.d].state]

LEMMA UpdateRow == ASSUME HomeInv, WriteUpdate PROVE rows' = [rows EXCEPT ![job.d] = UpdatedRow]
<1> DEFINE d == job.d
           c == IF job.patch # None THEN [job.cfg[d] EXCEPT !.l3 = job.l3] ELSE rows[d].cfg
           S == IF job.add \cup job.del # {} THEN job.services ELSE rows[d].services
           r == [uuid |-> rows[d].uuid, cfg |-> c, services |-> S, state |-> rows[d].state]
<1>1. r = UpdatedRow
  BY DEF UpdatedRow
<1>2. d \in Deckies /\ HasRow(d)
  BY DEF HomeInv, JobHomes, WriteUpdate, On
<1>3. IsRow(rows[d]) /\ rows = [e \in Deckies |-> rows[e]]
  BY <1>2 DEF HomeInv, RowsHomed, Shapes
<1>4. rows' = [rows EXCEPT ![d].cfg = IF job.patch # None THEN [job.cfg[d] EXCEPT !.l3 = job.l3] ELSE @,
               ![d].services = IF job.add \cup job.del # {} THEN job.services ELSE @]
  BY DEF WriteUpdate
<1> HIDE DEF d
<1> DEFINE C == [job.cfg[d] EXCEPT !.l3 = job.l3]
           F == job.patch # None
           W == job.add \cup job.del # {}
           V == job.services
<1>5. rows' = [rows EXCEPT ![d].cfg = IF F THEN C ELSE @, ![d].services = IF W THEN V ELSE @]
  BY <1>4
<1>6. c = (IF F THEN C ELSE rows[d].cfg) /\ S = (IF W THEN V ELSE rows[d].services)
  OBVIOUS
<1> DEFINE g == [rows EXCEPT ![d].cfg = c]
<1> HIDE DEF C, F, W, V, c, S
<1>7. rows' = [g EXCEPT ![d].services = IF W THEN V ELSE @]
  BY <1>5, <1>6
<1>8. g[d].services = rows[d].services
  <2>1. [rows[d] EXCEPT !.cfg = c].services = rows[d].services
    BY <1>3 DEF IsRow
  <2>2. g[d] = [rows[d] EXCEPT !.cfg = c]
    BY <1>2, <1>3
  <2> QED
    BY <2>1, <2>2
<1>9. rows' = [g EXCEPT ![d].services = S]
  <2> HIDE DEF g
  <2> QED
    BY <1>6, <1>7, <1>8
<1>10. RowShape(rows[d])
  BY <1>3 DEF IsRow, RowShape
<1>11. r = [uuid |-> rows[d].uuid, cfg |-> c, services |-> S, state |-> rows[d].state]
  OBVIOUS
<1> HIDE DEF r
<1>12. [[rows EXCEPT ![d].cfg = c] EXCEPT ![d].services = S] = [rows EXCEPT ![d] = r]
  <2>1. Columns(rows, d, c, S, r)
    BY <1>2, <1>3, <1>10, <1>11 DEF Columns
  <2>2. EitherOrder(rows, d, c, S, r)
    BY <2>1, TwoFields
  <2> QED
    BY <2>2 DEF EitherOrder
<1> QED
  BY <1>9, <1>12, <1>1 DEF d

LEMMA UpdateHome == ASSUME HomeInv, WriteUpdate PROVE HomeInv' /\ HomeStep
<1> DEFINE d == job.d
           c == IF job.patch # None THEN [job.cfg[d] EXCEPT !.l3 = job.l3] ELSE rows[d].cfg
           S == IF job.add \cup job.del # {} THEN job.services ELSE rows[d].services
           r == [uuid |-> rows[d].uuid, cfg |-> c, services |-> S, state |-> rows[d].state]
<1>1. /\ job.op = "update_decky" /\ UNCHANGED edges /\ RowStep
      /\ Goto(IF job.add \cup job.del # {} THEN "check" ELSE "check_l3")
  BY DEF WriteUpdate, On
<1>2. /\ d \in Deckies /\ HasRow(d) /\ Homed(job.cfg[d])
      /\ "patch" \notin excuses => Home(job.cfg[d]) = Home(rows[d].cfg)
  BY <1>1 DEF HomeInv, JobHomes
<1>3. IsRow(rows[d]) /\ rows = [e \in Deckies |-> rows[e]]
  BY <1>2 DEF HomeInv, RowsHomed, Shapes
<1>4. Homed(c) /\ ("patch" \notin excuses => Home(c) = Home(rows[d].cfg))
  <2>1. [job.cfg[d] EXCEPT !.l3 = job.l3] = [ips |-> job.cfg[d].ips, l3 |-> job.l3]
    BY <1>2 DEF Homed
  <2>2. /\ Homed([ips |-> job.cfg[d].ips, l3 |-> job.l3])
        /\ Home([ips |-> job.cfg[d].ips, l3 |-> job.l3]) = Home(job.cfg[d])
    BY <1>2 DEF Homed, Home
  <2> QED
    BY <1>2, <1>3, <2>1, <2>2 DEF IsRow
<1>5. rows' = [rows EXCEPT ![d] = r]
  BY UpdateRow DEF UpdatedRow
<1> HIDE DEF c, S
<1>6. /\ IsRow(r) /\ r.uuid = rows[d].uuid
      /\ "patch" \notin excuses => Home(r.cfg) = Home(rows[d].cfg)
  BY <1>3, <1>4, NewConfig
<1>7. OpGoesOn
  BY <1>1, GotoGoesOn
<1> HIDE DEF d, r
<1> QED
  BY <1>1, <1>2, <1>5, <1>6, <1>7, OpWrite

LEMMA RunningHome == ASSUME HomeInv, WriteRunning PROVE HomeInv' /\ HomeStep
<1> DEFINE d == job.d
           r == [rows[d] EXCEPT !.state = "running"]
<1>1. /\ job.op = "add_decky" /\ job.at = "state" /\ rows' = [rows EXCEPT ![d] = r]
      /\ Goto("validate") /\ UNCHANGED edges /\ RowStep
  BY DEF WriteRunning, On
<1>2. d \in Deckies /\ HasRow(d)
  BY <1>1 DEF HomeInv, JobHomes
<1>3. IsRow(rows[d])
  BY <1>2 DEF HomeInv, RowsHomed
<1>4. r = [uuid |-> rows[d].uuid, cfg |-> rows[d].cfg, services |-> rows[d].services,
           state |-> "running"]
  BY <1>3 DEF IsRow
<1>5. IsRow(r) /\ r.uuid = rows[d].uuid /\ Home(r.cfg) = Home(rows[d].cfg)
  BY <1>3, <1>4, NewConfig DEF IsRow
<1>6. OpGoesOn
  BY <1>1, GotoGoesOn
<1> HIDE DEF d, r
<1> QED
  BY <1>1, <1>2, <1>5, <1>6, OpWrite

ApiRowWritten ==
    [uuid |-> rows[api.d].uuid, cfg |-> IF api.config THEN api.cfg ELSE rows[api.d].cfg,
     services |-> CASE api.kind = "add" -> api.services \cup {api.s}
                    [] api.kind = "remove" -> api.services \ {api.s}
                    [] OTHER -> rows[api.d].services,
     state |-> rows[api.d].state]

LEMMA ApiRow ==
    ASSUME HomeInv, ApiWrite, rows[api.d].uuid = api.uuid
    PROVE  rows' = [rows EXCEPT ![api.d] = ApiRowWritten]
<1> DEFINE d == api.d
           S == CASE api.kind = "add" -> api.services \cup {api.s}
                  [] api.kind = "remove" -> api.services \ {api.s}
                  [] OTHER -> rows[d].services
           c == IF api.config THEN api.cfg ELSE rows[d].cfg
           r == [uuid |-> rows[d].uuid, cfg |-> c, services |-> S, state |-> rows[d].state]
<1>1. r = ApiRowWritten
  BY DEF ApiRowWritten
<1>2. d \in Deckies /\ api.uuid # 0
  BY DEF HomeInv, Shapes, IsCall, ApiWrite
<1>3. HasRow(d)
  BY <1>2 DEF HasRow, NoRow
<1>4. IsRow(rows[d]) /\ rows = [e \in Deckies |-> rows[e]]
  BY <1>2, <1>3 DEF HomeInv, RowsHomed, Shapes
<1>5. rows' = [rows EXCEPT ![d].services = S, ![d].cfg = IF api.config THEN api.cfg ELSE @]
  BY DEF ApiWrite
<1> HIDE DEF S
<1> HIDE DEF d
<1> DEFINE F == api.config
           V == api.cfg
<1>6. rows' = [rows EXCEPT ![d].services = S, ![d].cfg = IF F THEN V ELSE @]
      /\ c = IF F THEN V ELSE rows[d].cfg
  BY <1>5
<1> DEFINE g == [rows EXCEPT ![d].services = S]
<1> HIDE DEF F, V, c
<1>7. rows' = [g EXCEPT ![d].cfg = IF F THEN V ELSE @]
  BY <1>6
<1>8. g[d].cfg = rows[d].cfg
  <2>1. [rows[d] EXCEPT !.services = S].cfg = rows[d].cfg
    BY <1>4 DEF IsRow
  <2>2. g[d] = [rows[d] EXCEPT !.services = S]
    BY <1>2, <1>4
  <2> QED
    BY <2>1, <2>2
<1>9. rows' = [g EXCEPT ![d].cfg = c]
  <2> HIDE DEF g
  <2> QED
    BY <1>6, <1>7, <1>8
<1>10. RowShape(rows[d])
  BY <1>4 DEF IsRow, RowShape
<1>11. r = [uuid |-> rows[d].uuid, cfg |-> c, services |-> S, state |-> rows[d].state]
  OBVIOUS
<1> HIDE DEF r
<1>12. [[rows EXCEPT ![d].services = S] EXCEPT ![d].cfg = c] = [rows EXCEPT ![d] = r]
  <2>1. Columns(rows, d, c, S, r)
    BY <1>2, <1>4, <1>10, <1>11 DEF Columns
  <2>2. EitherOrder(rows, d, c, S, r)
    BY <2>1, TwoFields
  <2> QED
    BY <2>2 DEF EitherOrder
<1> QED
  BY <1>9, <1>12, <1>1 DEF d, S

LEMMA ApiWriteHome == ASSUME HomeInv, ApiWrite PROVE HomeInv' /\ HomeStep
<1> DEFINE d == api.d
           S == CASE api.kind = "add" -> api.services \cup {api.s}
                  [] api.kind = "remove" -> api.services \ {api.s}
                  [] OTHER -> rows[d].services
           c == IF api.config THEN api.cfg ELSE rows[d].cfg
           r == [uuid |-> rows[d].uuid, cfg |-> c, services |-> S, state |-> rows[d].state]
<1>1. api.kind # None /\ UNCHANGED <<lans, edges, job, left, excuses>>
  BY DEF ApiWrite, ApiStep
<1>2. Counted
  BY <1>1, FaultCounts DEF NoFault
<1>3. OpGoesOn
  BY <1>1 DEF OpGoesOn, HomeInv, Shapes
<1>4. CASE rows[d].uuid # api.uuid
  <2>1. rows' = rows /\ CallGoesOn
    BY <1>4 DEF ApiWrite, ApiEnds, CallGoesOn, NoApi
  <2> QED
    BY <1>1, <1>2, <1>3, <2>1, SameRows, SteadyStep
<1>5. CASE rows[d].uuid = api.uuid
  <2>1. d \in Deckies /\ api.uuid # 0
    BY <1>1 DEF HomeInv, Shapes, IsCall
  <2>2. HasRow(d)
    BY <1>5, <2>1 DEF HasRow, NoRow
  <2>3. IsRow(rows[d]) /\ rows = [e \in Deckies |-> rows[e]]
    BY <2>1, <2>2 DEF HomeInv, RowsHomed, Shapes
  <2>4. Homed(api.cfg) /\ ("patch" \notin excuses => Home(api.cfg) = Home(rows[d].cfg))
    BY <1>1, <1>5 DEF HomeInv, ApiHomes
  <2>5. Homed(c) /\ ("patch" \notin excuses => Home(c) = Home(rows[d].cfg))
    BY <2>3, <2>4 DEF IsRow
  <2>6. /\ rows' = [rows EXCEPT ![d].services = S, ![d].cfg = IF api.config THEN api.cfg ELSE @]
        /\ ApiGoto("render")
    BY <1>5 DEF ApiWrite
  <2> HIDE DEF S
  <2>7. rows' = [rows EXCEPT ![d] = r]
    BY <1>1, <1>5, ApiRow DEF ApiRowWritten, S
  <2> HIDE DEF c
  <2>8. /\ IsRow(r) /\ r.uuid = rows[d].uuid
        /\ "patch" \notin excuses => Home(r.cfg) = Home(rows[d].cfg)
    BY <2>3, <2>5, NewConfig
  <2>9. CallGoesOn
    BY <1>1, <2>6, ApiGotoGoesOn
  <2> HIDE DEF d, r
  <2>10. Steady
    BY <1>1, <2>1, <2>2, <2>7, <2>8, RowWritten
  <2>11. edges' \subseteq edges
    BY <1>1
  <2> QED
    BY <1>1, <1>2, <1>3, <2>9, <2>10, <2>11, SteadyStep
<1> QED
  BY <1>4, <1>5

\* A mutation is claimed and its first step taken.
LEMMA ClaimStep ==
    ASSUME HomeInv, Claim, UNCHANGED <<rows, api>>, excuses \subseteq excuses',
           lans' \in [LanNames -> [subnet : Nat, dmz : BOOLEAN]],
           "rename" \notin excuses' => \A l \in LanNames : lans[l] # NoLan => lans'[l] # NoLan,
           edges' \subseteq [d : Deckies, lan : LanNames, bridge : BOOLEAN],
           \A e \in edges' : HasRow(e.d),
           IsJob(job'), JobHomes'
    PROVE  HomeInv' /\ HomeStep
<1> USE DEF HomeInv
<1>1. /\ left'.ops = left.ops - 1 /\ left'.ops \in Nat /\ left.ops \in Nat \ {0}
      /\ left' = [ops |-> left'.ops, api |-> left'.api, faults |-> left'.faults]
  <2>1. left = [ops |-> left.ops, api |-> left.api, faults |-> left.faults] /\ left.ops \in Nat
    BY DEF Shapes
  <2>2. left.ops > 0 /\ left' = [left EXCEPT !.ops = @ - 1]
    BY DEF Claim
  <2>3. left' = [ops |-> left.ops - 1, api |-> left.api, faults |-> left.faults]
    BY <2>1, <2>2
  <2> QED
    BY <2>1, <2>2, <2>3
<1>2. Shapes'
  BY <1>1 DEF Shapes, IsJob, IsCall
<1>3. RowsHomed'
  <2>1. ASSUME NEW d \in Deckies, HasRow(d)
        PROVE  IsRow(rows[d]) /\ (Unmoved(excuses') => lans'[Home(rows[d].cfg)] # NoLan)
    <3>1. IsRow(rows[d]) /\ (Unmoved(excuses) => lans[Home(rows[d].cfg)] # NoLan)
      BY <2>1 DEF RowsHomed
    <3>2. Home(rows[d].cfg) \in LanNames
      BY <3>1 DEF IsRow, Homed, Home
    <3> QED
      BY <3>1, <3>2 DEF Unmoved
  <2> QED
    BY <2>1 DEF RowsHomed, HasRow, IsRow, Homed, Unmoved
<1>4. IdsNew'
  <2>1. ASSUME NEW u \in Nat, Issued(u)
        PROVE  (u = 1 \/ u >= left'.ops + 2) /\ u # left'.ops + 2
    BY <1>1, <2>1 DEF Issued
  <2>2. \A d \in Deckies : HasRow(d) => rows[d].uuid \in Nat /\ Issued(rows[d].uuid)
    BY DEF IdsNew, RowsHomed, IsRow
  <2>3. api.kind # None => api.uuid \in Nat /\ Issued(api.uuid)
    BY DEF IdsNew, Shapes, IsCall
  <2> QED
    BY <2>1, <2>2, <2>3 DEF IdsNew, HasRow, Issued
<1>5. ApiHomes'
  BY DEF ApiHomes, Homed
<1>6. HomeInv'
  BY <1>2, <1>3, <1>4, <1>5
<1> QED
  BY <1>6, HomeStays

\* The ops that read before they write.
LEMMA ReadStep ==
    ASSUME HomeInv, NEW guard, NEW j, Begin(guard, j), UNCHANGED dbVars,
           guard => IsJob(j) /\ JobHomes'
    PROVE  HomeInv' /\ HomeStep
<1>1. /\ Claim /\ UNCHANGED <<rows, lans, edges, api>> /\ excuses \subseteq excuses'
      /\ guard => job' = j
      /\ ~guard => job' = Blank
  BY DEF Begin, Claim, dbVars
<1>2. /\ lans' \in [LanNames -> [subnet : Nat, dmz : BOOLEAN]]
      /\ edges' \subseteq [d : Deckies, lan : LanNames, bridge : BOOLEAN]
      /\ \A e \in edges' : HasRow(e.d)
  BY <1>1 DEF HomeInv, Shapes, RowsHomed
<1>3. job' = Blank => JobHomes'
  BY BlankJob DEF JobHomes, On, None
<1>4. IsJob(job') /\ JobHomes'
  BY <1>1, <1>3, BlankJob
<1> QED
  BY <1>1, <1>2, <1>4, ClaimStep

\* The configurations an op hydrates say where everybody lives.
LEMMA ConfigsHome ==
    ASSUME HomeInv, NEW d \in Deckies, HasRow(d)
    PROVE  d \in DOMAIN Configs /\ Homed(Configs[d]) /\ Home(Configs[d]) = Home(rows[d].cfg)
<1>1. Homed(rows[d].cfg)
  BY DEF HomeInv, RowsHomed, IsRow
<1>2. d \in DOMAIN Configs /\ Configs[d] = Config(d)
  BY DEF Configs
<1> QED
  BY <1>1, <1>2, HydrateHome

LEMMA RemoveLanHome ==
    ASSUME HomeInv, NEW l \in LanNames, apply_remove_lan(l) PROVE HomeInv' /\ HomeStep
<1> DEFINE at == IF Members(l) = {} THEN "drop" ELSE "write"
           guard == lans[l] # NoLan /\ \A d \in DOMAIN Configs : Home(Configs[d]) # l
           j == [Blank EXCEPT !.op = "remove_lan", !.lan = l, !.cfg = Configs,
                              !.at = at, !.visitors = Members(l)]
<1>1. Begin(guard, j) /\ UNCHANGED dbVars
  BY DEF apply_remove_lan
<1>2. ASSUME guard PROVE IsJob(j) /\ JobHomes'
  <2>1. Members(l) \subseteq Deckies /\ \A d \in Members(l) : HasRow(d)
    BY DEF Members, HomeInv, RowsHomed
  <2>2. /\ j.op = "remove_lan" /\ j.lan = l /\ j.cfg = Configs /\ j.visitors = Members(l)
        /\ IsJob(j)
    BY <2>1 DEF Blank, IsJob, JobFields
  <2>3. job' = j /\ rows' = rows
    BY <1>1, <1>2 DEF Begin, dbVars
  <2>4. \A d \in Deckies : HasRow(d) =>
            /\ Homed(Configs[d]) /\ Home(Configs[d]) = Home(rows[d].cfg)
            /\ Home(Configs[d]) # l
    BY <1>2, ConfigsHome
  <2> HIDE DEF j
  <2> QED
    BY <2>1, <2>2, <2>3, <2>4 DEF JobHomes, HasRow, On, Homed
<1> HIDE DEF guard, j
<1> QED
  BY <1>1, <1>2, ReadStep

LEMMA AddDeckyHome ==
    ASSUME HomeInv, NEW d \in Deckies, NEW l \in LanNames, NEW S, NEW l3, NEW pin,
           apply_add_decky(d, l, S, l3, pin)
    PROVE  HomeInv' /\ HomeStep
<1> DEFINE guard == ~HasRow(d) /\ lans[l] # NoLan /\ Allocates(l, pin)
           j == [Blank EXCEPT !.op = "add_decky", !.at = "write", !.d = d, !.lan = l,
                              !.ip = NewAddress(l, pin), !.add = S, !.l3 = l3]
<1>1. Begin(guard, j) /\ UNCHANGED dbVars
  BY DEF apply_add_decky
<1>2. ASSUME guard PROVE IsJob(j) /\ JobHomes'
  <2>1. /\ j.op = "add_decky" /\ j.at = "write" /\ j.d = d /\ j.lan = l
        /\ j.ip = NewAddress(l, pin) /\ IsJob(j)
    BY DEF Blank, IsJob, JobFields
  <2>2. NewAddress(l, pin).lan = l
    BY DEF NewAddress
  <2>3. job' = j /\ lans' = lans /\ lans[l] # NoLan
    BY <1>1, <1>2 DEF Begin, dbVars
  <2> HIDE DEF j
  <2> QED
    BY <2>1, <2>2, <2>3 DEF JobHomes, On
<1> HIDE DEF guard, j
<1> QED
  BY <1>1, <1>2, ReadStep

LEMMA AttachDeckyHome ==
    ASSUME HomeInv, NEW d \in Deckies, NEW l \in LanNames, NEW l3, NEW pin,
           apply_attach_decky(d, l, l3, pin)
    PROVE  HomeInv' /\ HomeStep
<1> DEFINE guard == HasRow(d) /\ lans[l] # NoLan /\ d \notin Members(l) /\ Allocates(l, pin)
           j == [Blank EXCEPT !.op = "attach_decky", !.at = "write", !.d = d, !.lan = l,
                              !.ip = NewAddress(l, pin), !.l3 = l3, !.cfg = Configs]
<1>1. Begin(guard, j) /\ UNCHANGED dbVars
  BY DEF apply_attach_decky
<1>2. ASSUME guard PROVE IsJob(j) /\ JobHomes'
  <2>1. j.op = "attach_decky" /\ j.d = d /\ j.lan = l /\ j.cfg = Configs /\ IsJob(j)
    BY DEF Blank, IsJob, JobFields
  <2>2. job' = j /\ rows' = rows /\ HasRow(d)
    BY <1>1, <1>2 DEF Begin, dbVars
  <2>3. \A e \in Deckies : HasRow(e) => Homed(Configs[e]) /\ Home(Configs[e]) = Home(rows[e].cfg)
    BY ConfigsHome
  <2> HIDE DEF j
  <2> QED
    BY <2>1, <2>2, <2>3 DEF JobHomes, HasRow, On, Homed
<1> HIDE DEF guard, j
<1> QED
  BY <1>1, <1>2, ReadStep

LEMMA DetachDeckyHome ==
    ASSUME HomeInv, NEW d \in Deckies, NEW l \in LanNames, apply_detach_decky(d, l)
    PROVE  HomeInv' /\ HomeStep
<1> DEFINE guard == /\ HasRow(d) /\ lans[l] # NoLan /\ Home(Configs[d]) \notin {None, l}
                    /\ d \in Members(l)
           j == [Blank EXCEPT !.op = "detach_decky", !.at = "write", !.d = d, !.lan = l,
                              !.cfg = Configs]
<1>1. Begin(guard, j) /\ UNCHANGED dbVars
  BY DEF apply_detach_decky
<1>2. ASSUME guard PROVE IsJob(j) /\ JobHomes'
  <2>1. j.op = "detach_decky" /\ j.d = d /\ j.lan = l /\ j.cfg = Configs /\ IsJob(j)
    BY DEF Blank, IsJob, JobFields
  <2>2. job' = j /\ rows' = rows /\ HasRow(d)
    BY <1>1, <1>2 DEF Begin, dbVars
  <2>3. \A e \in Deckies : HasRow(e) => Homed(Configs[e]) /\ Home(Configs[e]) = Home(rows[e].cfg)
    BY ConfigsHome
  <2>4. Home(Configs[d]) # l
    BY <1>2
  <2> HIDE DEF j
  <2> QED
    BY <2>1, <2>2, <2>3, <2>4 DEF JobHomes, HasRow, On, Homed
<1> HIDE DEF guard, j
<1> QED
  BY <1>1, <1>2, ReadStep

LEMMA RemoveDeckyHome ==
    ASSUME HomeInv, NEW d \in Deckies, apply_remove_decky(d) PROVE HomeInv' /\ HomeStep
<1> DEFINE S == IF HasRow(d) THEN rows[d].services ELSE {}
           j == [Blank EXCEPT !.op = "remove_decky", !.at = "write", !.d = d, !.del = S]
<1>1. Begin(HasRow(d), j) /\ UNCHANGED dbVars
  BY DEF apply_remove_decky
<1> HIDE DEF S
<1>2. ASSUME HasRow(d) PROVE IsJob(j) /\ JobHomes'
  <2>1. j.op = "remove_decky" /\ IsJob(j)
    BY DEF Blank, IsJob, JobFields
  <2>2. job' = j
    BY <1>1, <1>2 DEF Begin
  <2> HIDE DEF j
  <2> QED
    BY <2>1, <2>2 DEF JobHomes, On
<1> HIDE DEF j
<1> QED
  BY <1>1, <1>2, ReadStep

\* The decky_configs an update_decky goes on with, and what it patches.
Merged(d, ips) == IF ips = <<>> THEN Configs ELSE [Configs EXCEPT ![d].ips = ips]
PatchOf(patch, ips) ==
    CASE ips # <<>> -> "addresses" [] ips = <<>> /\ patch -> "keys" [] OTHER -> None

\* A list from a patch has a first LAN too.
LEMMA MergedHome ==
    ASSUME HomeInv, NEW d \in Deckies, HasRow(d), NEW ips \in Patches \cup {<<>>},
           NEW e \in Deckies, HasRow(e)
    PROVE  /\ Homed(Merged(d, ips)[e])
           /\ ips = <<>> \/ e # d => Merged(d, ips)[e] = Configs[e]
           /\ ips # <<>> => Merged(d, ips)[d] = [ips |-> ips, l3 |-> Configs[d].l3]
<1>1. d \in DOMAIN Configs /\ e \in DOMAIN Configs /\ Homed(Configs[d]) /\ Homed(Configs[e])
  BY ConfigsHome
<1>2. ips = <<>> => Merged(d, ips) = Configs
  BY DEF Merged
<1>3. CASE ips # <<>>
  <2> DEFINE c == [Configs[d] EXCEPT !.ips = ips]
  <2>1. c = [ips |-> ips, l3 |-> Configs[d].l3]
    BY <1>1 DEF Homed
  <2>2. Merged(d, ips) = [Configs EXCEPT ![d] = c]
    BY <1>3 DEF Merged
  <2>3. /\ Configs = [f \in DOMAIN Configs |-> Configs[f]]
    BY DEF Configs
  <2> HIDE DEF c
  <2>4. Merged(d, ips)[d] = c /\ (e # d => Merged(d, ips)[e] = Configs[e])
    BY <1>1, <2>2, <2>3
  <2>5. ips \in Seq(Address)
    BY <1>3, MutationOpsAssumption
  <2>6. ips[1] \in Address
    BY <1>3, <2>5, LenProperties, EmptySeq, ElementOfSeq
  <2>7. ips[1].lan \in LanNames
    BY <2>6 DEF Address
  <2>8. ips \in Seq(ToSet(ips))
    BY <2>5, OwnElements
  <2>9. Homed(c)
    BY <1>3, <2>1, <2>7, <2>8 DEF Homed
  <2> QED
    BY <1>1, <1>3, <2>1, <2>4, <2>9
<1> QED
  BY <1>1, <1>2, <1>3

LEMMA UpdateDeckyHome ==
    ASSUME HomeInv, NEW d \in Deckies, NEW S, NEW patch, NEW ips \in Patches \cup {<<>>},
           NEW flip, NEW force, apply_update_decky(d, S, patch, ips, flip, force)
    PROVE  HomeInv' /\ HomeStep
<1> DEFINE guard == /\ HasRow(d)
                    /\ flip => (force \/ ~IsLive) /\ (Configs[d].l3 \/ HomedInDmz(d))
           l3 == Configs[d].l3 # flip
           add == S \ rows[d].services
           del == rows[d].services \ S
           k == [Blank EXCEPT !.op = "update_decky", !.at = "write", !.d = d,
                              !.cfg = Merged(d, ips), !.patch = PatchOf(patch, ips),
                              !.l3 = l3, !.services = S, !.add = add, !.del = del]
           j == IF ~HasRow(d) THEN Blank ELSE k
<1>1. Begin(guard, j) /\ UNCHANGED dbVars
  BY DEF apply_update_decky, Merged, PatchOf
<1> HIDE DEF l3, add, del
<1>2. ASSUME guard PROVE IsJob(j) /\ JobHomes'
  <2>1. /\ k.op = "update_decky" /\ k.d = d /\ k.cfg = Merged(d, ips)
        /\ k.patch = PatchOf(patch, ips) /\ IsJob(k)
    BY DEF Blank, IsJob, JobFields
  <2>2. job' = k /\ j = k /\ rows' = rows /\ HasRow(d)
    BY <1>1, <1>2 DEF Begin, dbVars
  <2>3. \A e \in Deckies : HasRow(e) => Home(Configs[e]) = Home(rows[e].cfg)
    BY ConfigsHome
  <2>4. "patch" \notin excuses' => ips = <<>>
    BY <1>1, <1>2, <2>1, <2>2 DEF Begin, PatchOf
  <2>5. \A e \in Deckies : HasRow(e) =>
            /\ Homed(Merged(d, ips)[e])
            /\ "patch" \notin excuses' => Home(Merged(d, ips)[e]) = Home(rows[e].cfg)
    BY <2>2, <2>3, <2>4, MergedHome
  <2> HIDE DEF k, j
  <2> QED
    BY <2>1, <2>2, <2>5 DEF JobHomes, HasRow, On, Homed
<1> HIDE DEF guard, j
<1> QED
  BY <1>1, <1>2, ReadStep

\* A new LAN takes no home.
LEMMA AddLanHome ==
    ASSUME HomeInv, NEW l \in LanNames, NEW n \in Subnets, apply_add_lan(l, n)
    PROVE  HomeInv' /\ HomeStep
<1> DEFINE new == [subnet |-> n, dmz |-> FALSE]
           j == [Blank EXCEPT !.op = "add_lan", !.at = "check", !.lan = l]
<1>1. /\ Begin(lans[l] = NoLan, j) /\ UNCHANGED <<rows, edges>>
      /\ lans' = IF lans[l] = NoLan THEN [lans EXCEPT ![l] = new] ELSE lans
  BY DEF apply_add_lan
<1>2. n \in Nat \ {0} /\ new \in [subnet : Nat, dmz : BOOLEAN] /\ new # NoLan
  BY MutationOpsAssumption DEF NoLan, NoNet
<1> HIDE DEF new
<1>3. lans \in [LanNames -> [subnet : Nat, dmz : BOOLEAN]]
  BY DEF HomeInv, Shapes
<1>4. /\ lans' \in [LanNames -> [subnet : Nat, dmz : BOOLEAN]]
      /\ \A m \in LanNames : lans[m] # NoLan => lans'[m] # NoLan
  BY <1>1, <1>2, <1>3
<1>5. j.op = "add_lan" /\ IsJob(j)
  BY DEF Blank, IsJob, JobFields
<1>6. /\ Claim /\ UNCHANGED api /\ excuses \subseteq excuses' /\ job' \in {j, Blank}
  BY <1>1 DEF Begin, Claim
<1> HIDE DEF j
<1>7. IsJob(job') /\ JobHomes'
  BY <1>5, <1>6, BlankJob DEF JobHomes, On, None
<1>8. /\ edges' \subseteq [d : Deckies, lan : LanNames, bridge : BOOLEAN]
      /\ \A e \in edges' : HasRow(e.d)
  BY <1>1 DEF HomeInv, Shapes, RowsHomed
<1> QED
  BY <1>1, <1>4, <1>6, <1>7, <1>8, ClaimStep

\* A rename may leave a home behind, which it says; a new subnet does not.
LEMMA UpdateLanHome ==
    ASSUME HomeInv, NEW l \in LanNames, NEW name \in LanNames, NEW n \in Subnets \cup {NoNet},
           apply_update_lan(l, name, n)
    PROVE  HomeInv' /\ HomeStep
<1> DEFINE accepts == lans[l] # NoLan /\ IF name = l THEN ~IsLive ELSE lans[name] = NoLan
           new == IF name = l THEN [lans[l] EXCEPT !.subnet = n] ELSE lans[l]
           j == [Blank EXCEPT !.op = "update_lan", !.at = "validate"]
           moved == {IF e.lan = l THEN [e EXCEPT !.lan = name] ELSE e : e \in edges}
<1>1. /\ Begin(accepts, j) /\ UNCHANGED rows
      /\ lans' = IF accepts THEN [[lans EXCEPT ![l] = NoLan] EXCEPT ![name] = new] ELSE lans
      /\ edges' = IF accepts THEN moved ELSE edges
  BY DEF apply_update_lan
<1>2. /\ lans \in [LanNames -> [subnet : Nat, dmz : BOOLEAN]]
      /\ edges \subseteq [d : Deckies, lan : LanNames, bridge : BOOLEAN]
      /\ \A e \in edges : HasRow(e.d)
  BY DEF HomeInv, Shapes, RowsHomed
<1>3. n \in Nat /\ NoLan \in [subnet : Nat, dmz : BOOLEAN]
  BY MutationOpsAssumption DEF NoNet, NoLan
<1>4. new \in [subnet : Nat, dmz : BOOLEAN]
  <2>1. lans[l] \in [subnet : Nat, dmz : BOOLEAN]
    BY <1>2
  <2> HIDE DEF accepts
  <2> QED
    BY <1>3, <2>1
<1>5. moved \subseteq [d : Deckies, lan : LanNames, bridge : BOOLEAN]
      /\ \A e \in moved : HasRow(e.d)
  <2>1. ASSUME NEW e \in edges
        PROVE  LET f == IF e.lan = l THEN [e EXCEPT !.lan = name] ELSE e IN
               f \in [d : Deckies, lan : LanNames, bridge : BOOLEAN] /\ HasRow(f.d)
    BY <1>2
  <2> QED
    BY <2>1
<1>6. j.op = "update_lan" /\ IsJob(j)
  BY DEF Blank, IsJob, JobFields
<1> HIDE DEF new, moved
<1>7. /\ Claim /\ UNCHANGED api /\ excuses \subseteq excuses'
      /\ accepts => job' = j /\ "rename" \in excuses'
      /\ ~accepts => job' = Blank
  BY <1>1, <1>6 DEF Begin, Claim
<1> HIDE DEF j, accepts
<1>8. IsJob(job') /\ JobHomes'
  BY <1>6, <1>7, BlankJob DEF JobHomes, On, None
<1>9. /\ lans' \in [LanNames -> [subnet : Nat, dmz : BOOLEAN]]
      /\ "rename" \notin excuses' => \A m \in LanNames : lans[m] # NoLan => lans'[m] # NoLan
      /\ edges' \subseteq [d : Deckies, lan : LanNames, bridge : BOOLEAN]
      /\ \A e \in edges' : HasRow(e.d)
  BY <1>1, <1>2, <1>3, <1>4, <1>5, <1>7
<1> QED
  BY <1>1, <1>7, <1>8, <1>9, ClaimStep

\* A new row has its LAN for home and an id nobody had.
LEMMA AddHome == ASSUME HomeInv, WriteAdd PROVE HomeInv' /\ HomeStep
<1> DEFINE d == job.d
           c == [ips |-> <<job.ip>>, l3 |-> job.l3]
           r == [uuid |-> left.ops + 2, cfg |-> c, services |-> job.add, state |-> "pending"]
<1>1. /\ job.op = "add_decky" /\ job.at = "write" /\ rows' = [rows EXCEPT ![d] = r]
      /\ Goto("edge") /\ UNCHANGED edges /\ RowStep
  BY DEF WriteAdd, On
<1>2. UNCHANGED <<lans, edges, api, left, excuses>>
  BY <1>1 DEF RowStep
<1>3. /\ d \in Deckies /\ job.lan \in LanNames /\ job.ip.lan = job.lan /\ lans[job.lan] # NoLan
  BY <1>1 DEF HomeInv, JobHomes, On
<1>4. Homed(c) /\ Home(c) = job.lan
  <2> DEFINE s == <<job.ip>>
  <2>1. s \in Seq({job.ip}) /\ s # <<>> /\ s[1] = job.ip
    OBVIOUS
  <2>2. s \in Seq(ToSet(s))
    BY <2>1, OwnElements
  <2> HIDE DEF s
  <2>3. c = [ips |-> s, l3 |-> job.l3]
    BY DEF s
  <2> HIDE DEF c
  <2> QED
    BY <1>3, <2>1, <2>2, <2>3 DEF Homed, Home
<1>5. left.ops \in Nat /\ left.ops + 2 \in Nat \ {0}
  BY DEF HomeInv, Shapes
<1> HIDE DEF c
<1>6. IsRow(r) /\ r.uuid = left.ops + 2 /\ r.cfg = c /\ r # NoRow
  BY <1>4, <1>5 DEF IsRow, NoRow
<1> HIDE DEF r
<1>7. rows' = [e \in Deckies |-> IF e = d THEN r ELSE rows[e]]
  BY <1>1 DEF HomeInv, Shapes
<1>8. rows'[d] = r /\ \A e \in Deckies \ {d} : rows'[e] = rows[e]
  BY <1>3, <1>7
<1>9. /\ IsJob(job') /\ job'.op = "add_decky" /\ job'.at = "edge" /\ job'.d = d
      /\ job'.lan = job.lan /\ job'.ip = job.ip
  <2>1. IsJob(job)
    BY DEF HomeInv, Shapes
  <2> QED
    BY <1>1, <2>1 DEF Goto, IsJob, JobFields
<1>10. Shapes'
  BY <1>2, <1>7, <1>9 DEF HomeInv, Shapes, IsJob, IsCall
<1>11. RowsHomed'
  <2>1. ASSUME NEW e \in Deckies, rows'[e] # NoRow
        PROVE  IsRow(rows'[e]) /\ (Unmoved(excuses) => lans[Home(rows'[e].cfg)] # NoLan)
    BY <1>3, <1>4, <1>6, <1>8, <2>1 DEF HomeInv, RowsHomed, HasRow
  <2>2. \A e \in edges : rows'[e.d] # NoRow
    <3>1. \A e \in edges : e.d \in Deckies /\ rows[e.d] # NoRow
      BY DEF HomeInv, Shapes, RowsHomed, HasRow
    <3> QED
      BY <1>6, <1>8, <3>1
  <2> QED
    BY <1>2, <2>1, <2>2 DEF RowsHomed, HasRow, IsRow, Homed, Unmoved
<1>12. On({"add_decky"}, "write") /\ ~On({"add_decky"}, "write")'
  BY <1>1, <1>9 DEF On
<1>13. IdsNew'
  <2>1. \A u : Issued(u) => u = 1 \/ u >= left.ops + 2
    BY DEF Issued
  <2>2. \A e \in Deckies : rows'[e] # NoRow => rows'[e].uuid = 1 \/ rows'[e].uuid >= left.ops + 2
    BY <1>5, <1>6, <1>8, <2>1 DEF HomeInv, IdsNew, HasRow
  <2>3. api.kind # None => api.uuid = 1 \/ api.uuid >= left.ops + 2
    BY <2>1 DEF HomeInv, IdsNew
  <2> QED
    BY <1>2, <1>12, <2>2, <2>3 DEF IdsNew, HasRow, Issued
<1>14. JobHomes'
  BY <1>3, <1>6, <1>8, <1>9, <1>12 DEF JobHomes, HasRow
<1>15. ApiHomes'
  <2> SUFFICES ASSUME api.kind # None, rows'[api.d].uuid = api.uuid
               PROVE  /\ Homed(api.cfg)
                      /\ "patch" \notin excuses => Home(api.cfg) = Home(rows'[api.d].cfg)
    BY <1>2 DEF ApiHomes, Homed
  <2>1. api.uuid # left.ops + 2 /\ api.d \in Deckies
    BY <1>12 DEF HomeInv, IdsNew, Issued, Shapes, IsCall
  <2>2. rows'[api.d] = rows[api.d]
    BY <1>6, <1>8, <2>1
  <2> QED
    BY <2>2 DEF HomeInv, ApiHomes
<1>16. HomeInv'
  BY <1>10, <1>11, <1>13, <1>14, <1>15 DEF HomeInv
<1>17. \A e \in Deckies :
           HasRow(e) /\ rows'[e] # NoRow /\ rows'[e].uuid = rows[e].uuid => rows'[e] = rows[e]
  BY <1>6, <1>8, <1>12 DEF HomeInv, IdsNew, Issued
<1>18. \A e \in Deckies :
           HasRow(e) /\ rows'[e] # NoRow /\ rows'[e].uuid = rows[e].uuid =>
               Home(rows'[e].cfg) = Home(rows[e].cfg)
  BY <1>17
<1> QED
  BY <1>16, <1>18, HomeStays

\* remove_decky takes the row and its edges.
LEMMA RemoveHome == ASSUME HomeInv, WriteRemove PROVE HomeInv' /\ HomeStep
<1> DEFINE d == job.d
<1>1. /\ job.op = "remove_decky" /\ rows' = [rows EXCEPT ![d] = NoRow]
      /\ edges' = {e \in edges : e.d # d}
      /\ Goto("check") /\ RowStep
  BY DEF WriteRemove, On
<1>2. UNCHANGED <<lans, api, left, excuses>>
  BY <1>1 DEF RowStep
<1>3. rows' = [e \in Deckies |-> IF e = d THEN NoRow ELSE rows[e]]
  BY <1>1 DEF HomeInv, Shapes
<1>4. \A e \in Deckies : (e = d => rows'[e] = NoRow) /\ (e # d => rows'[e] = rows[e])
  BY <1>3
<1>5. IsJob(job') /\ job'.op = "remove_decky" /\ job'.at = "check"
  <2>1. IsJob(job)
    BY DEF HomeInv, Shapes
  <2> QED
    BY <1>1, <2>1 DEF Goto, IsJob, JobFields
<1> HIDE DEF d
<1>6. Shapes'
  BY <1>1, <1>2, <1>3, <1>5 DEF HomeInv, Shapes, IsJob, IsCall
<1>7. RowsHomed'
  <2>1. \A e \in Deckies : rows'[e] # NoRow => rows'[e] = rows[e] /\ HasRow(e)
    BY <1>4 DEF HasRow
  <2>2. \A e \in Deckies : rows'[e] # NoRow =>
            IsRow(rows'[e]) /\ (Unmoved(excuses) => lans[Home(rows'[e].cfg)] # NoLan)
    BY <2>1 DEF HomeInv, RowsHomed
  <2>3. \A e \in edges' : rows'[e.d] # NoRow
    <3>1. \A e \in edges : e.d \in Deckies /\ rows[e.d] # NoRow
      BY DEF HomeInv, Shapes, RowsHomed, HasRow
    <3> QED
      BY <1>1, <1>4, <3>1
  <2> QED
    BY <1>2, <2>2, <2>3 DEF RowsHomed, HasRow, IsRow, Homed, Unmoved
<1>8. ~On({"add_decky"}, "write")'
  BY <1>5 DEF On
<1>9. IdsNew'
  <2>1. \A u : Issued(u) => u = 1 \/ u >= left.ops + 2
    BY DEF Issued
  <2>2. \A e \in Deckies : rows'[e] # NoRow => rows'[e].uuid = 1 \/ rows'[e].uuid >= left.ops + 2
    BY <1>4, <2>1 DEF HomeInv, IdsNew, HasRow
  <2>3. api.kind # None => api.uuid = 1 \/ api.uuid >= left.ops + 2
    BY <2>1 DEF HomeInv, IdsNew
  <2> QED
    BY <1>2, <1>8, <2>2, <2>3 DEF IdsNew, HasRow, Issued
<1>10. JobHomes'
  BY <1>5, <1>8 DEF JobHomes
<1>11. ApiHomes'
  <2> SUFFICES ASSUME api.kind # None, rows'[api.d].uuid = api.uuid
               PROVE  /\ Homed(api.cfg)
                      /\ "patch" \notin excuses => Home(api.cfg) = Home(rows'[api.d].cfg)
    BY <1>2 DEF ApiHomes, Homed
  <2>1. api.uuid # 0 /\ api.d \in Deckies
    BY DEF HomeInv, Shapes, IsCall
  <2>2. rows'[api.d] = rows[api.d]
    BY <1>4, <2>1 DEF NoRow
  <2> QED
    BY <2>2 DEF HomeInv, ApiHomes
<1>12. HomeInv'
  BY <1>6, <1>7, <1>9, <1>10, <1>11 DEF HomeInv
<1>13. \A e \in Deckies :
           HasRow(e) /\ rows'[e] # NoRow /\ rows'[e].uuid = rows[e].uuid =>
               Home(rows'[e].cfg) = Home(rows[e].cfg)
  BY <1>4
<1> QED
  BY <1>12, <1>13, HomeStays

LEMMA AddEdgeHome == ASSUME HomeInv, AddEdge PROVE HomeInv' /\ HomeStep
<1> DEFINE new == [d |-> job.d, lan |-> job.lan, bridge |-> job.op = "attach_decky"]
<1>1. /\ job.op \in {"add_decky", "attach_decky"} /\ job.at = "edge"
      /\ edges' = edges \cup {new} /\ Goto("check") /\ UNCHANGED rows /\ RowStep
  BY DEF AddEdge, On
<1>2. UNCHANGED <<lans, api, left, excuses>>
  BY <1>1 DEF RowStep
<1>3. job.d \in Deckies /\ HasRow(job.d) /\ job.lan \in LanNames
  BY <1>1 DEF HomeInv, JobHomes
<1>4. new \in [d : Deckies, lan : LanNames, bridge : BOOLEAN] /\ HasRow(new.d)
  BY <1>3
<1> HIDE DEF new
<1>5. /\ lans' \in [LanNames -> [subnet : Nat, dmz : BOOLEAN]]
      /\ edges' \subseteq [d : Deckies, lan : LanNames, bridge : BOOLEAN]
      /\ \A e \in edges' : HasRow(e.d)
  BY <1>1, <1>2, <1>4 DEF HomeInv, Shapes, RowsHomed
<1>6. OpGoesOn
  BY <1>1, GotoGoesOn
<1>7. CallGoesOn
  BY <1>2 DEF CallGoesOn, HomeInv, Shapes
<1>8. Counted
  BY <1>2, FaultCounts DEF NoFault
<1>9. Steady
  BY <1>1, SameRows
<1> QED
  BY <1>2, <1>5, <1>6, <1>7, <1>8, <1>9, SteadyRows

\* The LAN that remove_lan drops is nobody's home.
LEMMA DropHome == ASSUME HomeInv, DropLan PROVE HomeInv' /\ HomeStep
<1>1. /\ job.op = "remove_lan" /\ lans' = [lans EXCEPT ![job.lan] = NoLan] /\ Goto("check")
      /\ UNCHANGED <<rows, edges, api, left, excuses>>
  BY DEF DropLan, On
<1>2. "patch" \notin excuses => \A d \in Deckies : HasRow(d) => Home(rows[d].cfg) # job.lan
  BY <1>1 DEF HomeInv, JobHomes
<1>3. /\ lans \in [LanNames -> [subnet : Nat, dmz : BOOLEAN]]
      /\ NoLan \in [subnet : Nat, dmz : BOOLEAN]
  BY DEF HomeInv, Shapes, NoLan, NoNet
<1>4. /\ lans' \in [LanNames -> [subnet : Nat, dmz : BOOLEAN]]
      /\ \A l \in LanNames : l # job.lan => lans'[l] = lans[l]
  BY <1>1, <1>3
<1>5. /\ edges' \subseteq [d : Deckies, lan : LanNames, bridge : BOOLEAN]
      /\ \A e \in edges' : HasRow(e.d)
  BY <1>1 DEF HomeInv, Shapes, RowsHomed
<1>6. OpGoesOn
  BY <1>1, GotoGoesOn
<1>7. CallGoesOn
  BY <1>1 DEF CallGoesOn, HomeInv, Shapes
<1>8. Counted
  BY <1>1, FaultCounts DEF NoFault
<1>9. Steady
  BY <1>1, SameRows
<1>10. \A l \in LanNames : lans[l] # NoLan /\ lans'[l] = NoLan =>
           /\ job.op # "add_decky"
           /\ "patch" \notin excuses' => \A d \in Deckies : HasRow(d) => Home(rows[d].cfg) # l
  BY <1>1, <1>2, <1>4
<1> QED
  BY <1>4, <1>5, <1>6, <1>7, <1>8, <1>9, <1>10, SteadyRows

\* A live service change reads the row it is about, as hydrate returns it.
LEMMA ApiBeginHome ==
    ASSUME HomeInv, NEW kind \in {"add", "remove", "update"}, NEW d \in Deckies, NEW s,
           NEW config, NEW starts, ApiBegin(kind, d, s, config, starts)
    PROVE  HomeInv' /\ HomeStep
<1>1. /\ UNCHANGED <<lans, rows, edges, job>> /\ HasRow(d) /\ excuses \subseteq excuses'
      /\ left' = [left EXCEPT !.api = @ - 1]
  BY DEF ApiBegin, Excuse, dbVars
<1>2. /\ api'.kind = kind /\ api'.d = d /\ api'.uuid = rows[d].uuid /\ api'.cfg = Config(d)
      /\ api' = [kind |-> api'.kind, at |-> api'.at, d |-> api'.d, s |-> api'.s,
                 uuid |-> api'.uuid, cfg |-> api'.cfg, services |-> api'.services,
                 config |-> api'.config, up |-> api'.up]
  <2> DEFINE at == IF kind = "remove" THEN "stop" ELSE "write"
  <2>1. api' = [kind |-> kind, at |-> at, d |-> d, s |-> s, uuid |-> rows[d].uuid,
                cfg |-> Config(d), services |-> rows[d].services, config |-> config, up |-> starts]
    BY DEF ApiBegin
  <2> HIDE DEF at
  <2> QED
    BY <2>1
<1>3. IsRow(rows[d])
  BY <1>1 DEF HomeInv, RowsHomed
<1>4. Homed(Config(d)) /\ Home(Config(d)) = Home(rows[d].cfg)
  BY <1>3, HydrateHome DEF IsRow
<1>5. IsCall(api') /\ api'.kind # None
  BY <1>2, <1>3 DEF IsCall, IsRow, None
<1>6. /\ left'.ops = left.ops
      /\ left' = [ops |-> left'.ops, api |-> left'.api, faults |-> left'.faults]
  BY <1>1 DEF HomeInv, Shapes
<1>7. Shapes'
  BY <1>1, <1>5, <1>6 DEF HomeInv, Shapes, IsJob, IsCall
<1>8. RowsHomed'
  BY <1>1 DEF HomeInv, RowsHomed, HasRow, IsRow, Homed, Unmoved
<1>9. IdsNew'
  <2>1. \A e \in Deckies : HasRow(e) => Issued(rows[e].uuid)
    BY DEF HomeInv, IdsNew
  <2>2. On({"add_decky"}, "write")' = On({"add_decky"}, "write")
    BY <1>1 DEF On
  <2> QED
    BY <1>1, <1>2, <1>6, <2>1, <2>2 DEF IdsNew, HasRow, Issued
<1>10. JobHomes'
  BY <1>1 DEF HomeInv, JobHomes, HasRow, On, Homed
<1>11. ApiHomes'
  BY <1>1, <1>2, <1>4 DEF ApiHomes, Homed
<1>12. HomeInv'
  BY <1>7, <1>8, <1>9, <1>10, <1>11 DEF HomeInv
<1> QED
  BY <1>1, <1>12, HomeStays

\* As deployed, the one decky lives in the first LAN.
LEMMA HomeStart == Init => HomeInv
<1> SUFFICES ASSUME Init PROVE HomeInv
  OBVIOUS
<1> DEFINE order == SetToSeq(FirstLans)
           home == [lan |-> order[1], ip |-> [net |-> 1, host |-> 1]]
           cfg == [ips |-> <<home>>, l3 |-> FALSE]
           place(l) == CHOOSE i \in DOMAIN order : order[i] = l
           row == [uuid |-> 1, cfg |-> cfg, services |-> Services, state |-> "running"]
<1>1. /\ lans = [l \in LanNames |-> IF l \notin FirstLans THEN NoLan
                                    ELSE [subnet |-> place(l), dmz |-> place(l) = 1]]
      /\ rows = [d \in Deckies |-> IF d = 1 THEN row ELSE NoRow]
      /\ edges = {[d |-> 1, lan |-> order[1], bridge |-> FALSE]}
      /\ job = Blank /\ api = NoApi /\ excuses = {}
  BY DEF Init
<1>2. left = [ops |-> left.ops, api |-> left.api, faults |-> left.faults] /\ left.ops \in Nat
  <2>1. left \in [ops : 0..MaxOps, api : 0..MaxApi, faults : 0..MaxFaults]
    BY DEF Init
  <2> QED
    BY <2>1, MutationOpsAssumption
<1>3. FirstLans \subseteq LanNames /\ FirstLans # {} /\ IsFiniteSet(FirstLans) /\ 1 \in Deckies
  BY MutationOpsAssumption, FS_Subset
<1>4. /\ order[1] \in FirstLans
      /\ \A l \in FirstLans : place(l) \in Nat \ {0}
  <2> DEFINE n == Cardinality(FirstLans)
  <2>1. n \in Nat /\ ExistsBijection(1..n, FirstLans)
    BY <1>3, FS_CardinalityType
  <2>2. \E f \in [1..n -> FirstLans] : IsInjective(f)
    BY <2>1 DEF ExistsBijection, Bijection, Injection
  <2>3. order \in [1..n -> FirstLans] /\ IsInjective(order)
    BY <2>2 DEF SetToSeq
  <2> HIDE DEF order
  <2>4. n # 0
    BY <1>3, FS_EmptySet
  <2>5. order \in Injection(1..n, FirstLans)
    BY <2>3 DEF Injection
  <2>6. Cardinality(1..n) = n
    BY <2>1, FS_Interval
  <2>7. order \in Surjection(1..n, FirstLans)
    BY <1>3, <2>5, <2>6, FS_Injection
  <2>8. \A l \in FirstLans : \E i \in 1..n : order[i] = l
    BY <2>7 DEF Surjection
  <2>9. DOMAIN order = 1..n
    BY <2>3
  <2>10. \A l \in FirstLans : place(l) \in 1..n
    BY <2>8, <2>9
  <2> HIDE DEF place, n
  <2> QED
    BY <2>1, <2>3, <2>4, <2>10
<1> HIDE DEF place, order
<1>5. Homed(cfg) /\ Home(cfg) = order[1]
  <2> DEFINE s == <<home>>
  <2>1. s \in Seq({home}) /\ s # <<>> /\ s[1] = home
    OBVIOUS
  <2>2. s \in Seq(ToSet(s))
    BY <2>1, OwnElements
  <2>3. home.lan = order[1] /\ order[1] \in LanNames
    BY <1>3, <1>4
  <2> HIDE DEF s, home
  <2>4. cfg = [ips |-> s, l3 |-> FALSE]
    BY DEF s, home
  <2> HIDE DEF cfg
  <2> QED
    BY <2>1, <2>2, <2>3, <2>4 DEF Homed, Home
<1> HIDE DEF cfg
<1>6. IsRow(row) /\ row.uuid = 1 /\ row.cfg = cfg /\ row # NoRow
  BY <1>5 DEF IsRow, NoRow
<1> HIDE DEF row
<1>7. rows[1] = row /\ \A d \in Deckies : d # 1 => rows[d] = NoRow
  BY <1>1, <1>3
<1>8. lans \in [LanNames -> [subnet : Nat, dmz : BOOLEAN]]
  <2>1. \A l \in FirstLans : [subnet |-> place(l), dmz |-> place(l) = 1]
                               \in [subnet : Nat, dmz : BOOLEAN]
    BY <1>4
  <2>2. NoLan \in [subnet : Nat, dmz : BOOLEAN]
    BY DEF NoLan, NoNet
  <2> QED
    BY <1>1, <2>1, <2>2
<1>9. lans[order[1]] # NoLan
  <2>1. lans[order[1]] = [subnet |-> place(order[1]), dmz |-> place(order[1]) = 1]
    BY <1>1, <1>3, <1>4
  <2> QED
    BY <1>4, <2>1 DEF NoLan, NoNet
<1>10. Shapes
  <2>1. rows = [d \in Deckies |-> rows[d]]
    BY <1>1
  <2>2. edges \subseteq [d : Deckies, lan : LanNames, bridge : BOOLEAN]
    BY <1>1, <1>3, <1>4
  <2> QED
    BY <1>1, <1>2, <1>8, <2>1, <2>2, BlankJob DEF Shapes, NoApi
<1>11. RowsHomed
  BY <1>1, <1>5, <1>6, <1>7, <1>9 DEF RowsHomed, HasRow
<1>12. IdsNew
  <2>1. ~On({"add_decky"}, "write")
    BY <1>1, BlankJob DEF On, None
  <2> QED
    BY <1>1, <1>6, <1>7, <2>1 DEF IdsNew, HasRow, Issued, NoApi
<1>13. JobHomes
  BY <1>1, BlankJob DEF JobHomes, On, None
<1>14. ApiHomes
  BY <1>1 DEF ApiHomes, NoApi
<1> QED
  BY <1>10, <1>11, <1>12, <1>13, <1>14 DEF HomeInv

\* Every step keeps the invariant and the homes.
LEMMA HomeNext == ASSUME HomeInv, [Next]_vars PROVE HomeInv' /\ HomeStep
<1>1. CASE Mutation
  BY <1>1, AddLanHome, RemoveLanHome, UpdateLanHome, RemoveDeckyHome, UpdateDeckyHome,
     DetachDeckyHome, AttachDeckyHome, AddDeckyHome DEF Mutation
<1>2. CASE Work
  BY <1>2, AddHome, AttachHome, DetachHome, VisitorHome, RemoveHome, UpdateHome, AddEdgeHome,
     DeleteHome, DropHome, RunningHome, CheckHome, DockerHome, EndHome DEF Work
<1>3. CASE MutatorDies
  BY <1>3, EndHome
<1>4. CASE Api
  BY <1>4, ApiBeginHome, ApiDockerHome, ApiWriteHome DEF Api
<1>5. CASE TearBegin \/ TearCompose \/ TearNetworks \/ FleetUp
  BY <1>5, TearHome
<1>6. CASE UNCHANGED vars
  <2>1. UNCHANGED <<dbVars, api, job, left, excuses>>
    BY <1>6 DEF vars
  <2>2. OpGoesOn
    BY <2>1 DEF OpGoesOn, HomeInv, Shapes
  <2> QED
    BY <2>1, <2>2, FaultCounts, QuietOpStep DEF NoFault
<1> QED
  BY <1>1, <1>2, <1>3, <1>4, <1>5, <1>6 DEF Next

\* A row has a first address, its id is its own, and as long as no update_decky
\* patched an address list what the mutator and a live service change have read
\* still says where everybody lives; with no LAN renamed either, a row's home is
\* a LAN of its topology: for any number of LANs, deckies, services, mutations and faults.
THEOREM HomeInvariant == Spec => []HomeInv
<1>1. HomeInv /\ [Next]_vars => HomeInv'
  BY HomeNext
<1> QED
  BY <1>1, HomeStart, PTL DEF Spec

\* A decky keeps its home LAN as long as it has its row, whatever detaches, LAN
\* removals, service changes, teardowns, refusals and crashes come between
\* (ops.py), until a LAN is renamed or an update_decky patches an address list.
THEOREM HomeKeptTheorem == Spec => HomeKept
<1>1. HomeInv /\ [Next]_vars =>
      [\A d \in Deckies :
          /\ HasRow(d) /\ rows'[d] # NoRow /\ rows'[d].uuid = rows[d].uuid
          /\ "patch" \notin excuses'
          => /\ Home(rows'[d].cfg) = Home(rows[d].cfg)
             /\ "rename" \notin excuses' => lans'[Home(rows[d].cfg)] # NoLan]_vars
  BY HomeNext DEF HomeStep
<1> QED
  BY <1>1, HomeInvariant, PTL DEF Spec, HomeKept

(* Docker follows the rows (MutationOps).  As long as nothing is excused, one *)
(* op or one live service change is at work at a time; the invariant says how *)
(* far the edges, the compose file and Docker are behind the rows at each of  *)
(* its steps.                                                                 *)

IsBase(b) ==
    /\ b = [project |-> b.project, nets |-> b.nets, l3 |-> b.l3]
    /\ b.project \in Projects /\ (b.project = None => b = NoBase)

BaseShape == base = [d \in Deckies |-> base[d]] /\ \A d \in Deckies : IsBase(base[d])

BridgeShape == bridges = [l \in LanNames |-> bridges[l]]

\* Without an excuse nothing overlaps, and only a live topology is worked on.
OneAtATime ==
    IF IsLive THEN down = NoDown /\ (job = Blank \/ api = NoApi)
    ELSE job = Blank /\ api = NoApi

KeysOf(d) == IF HasRow(d) THEN Keys(rows[d].cfg.ips) ELSE {}
EdgeLans(d) == {e.lan : e \in {x \in edges : x.d = d}}

\* The subject of the op, between the write of its row and that of its edge.
Linking(d) == d = job.d /\ On({"add_decky", "attach_decky"}, "edge")
Unlinking(d) ==
    /\ d = job.d
    /\ \/ On({"detach_decky"}, "unedge")
       \/ job.op = "remove_lan" /\ job.at \in {"check", "docker", "unedge"}

EdgesDue(d) ==
    IF Linking(d) THEN EdgeLans(d) \cup {job.lan}
    ELSE IF Unlinking(d) THEN EdgeLans(d) \ {job.lan} ELSE EdgeLans(d)

RowsEdged == \A d \in Deckies : KeysOf(d) = EdgesDue(d)

\* A decky has one address in a LAN.
OneEach(ips) == \A i, j \in DOMAIN ips : ips[i].lan = ips[j].lan => i = j
RowsOnce == \A d \in Deckies : HasRow(d) => OneEach(rows[d].cfg.ips)

LansKnown == \A e \in edges : lans[e.lan] # NoLan

\* Between the write of a LAN row and the docker call for its bridge.
LanInWork(l) ==
    l = job.lan /\ job.op \in {"add_lan", "remove_lan"} /\ job.d = 0 /\ job.at \in {"check", "docker"}
Bridged == \A l \in LanNames : ~LanInWork(l) => bridges[l] = lans[l].subnet

\* Between the write of the services and the rendering of the compose file.
Unrendered(d) ==
    \/ d = job.d /\ job.op = "add_decky" /\ job.at \in {"edge", "check", "docker"}
    \/ d = job.d /\ job.op = "update_decky" /\ job.at \in {"check", "docker"}
    \/ api # NoApi /\ d = api.d /\ api.at = "render"
FileServes ==
    \A d \in Deckies : HasRow(d) /\ ~Unrendered(d) =>
        d \in DOMAIN file /\ file[d].services = rows[d].services

\* What the op at work has read is still so, and what it has still to do.
ToWrite == job.at \in {"write", "unedge"} \/ (job.d # 0 /\ job.at \in {"check", "docker"})
JobDue ==
    /\ job.op \in {"attach_decky", "detach_decky", "update_decky"} /\ job.at = "write" =>
          job.cfg[job.d] = rows[job.d].cfg
    /\ On({"add_decky"}, "write") => ~HasRow(job.d)
    /\ On({"add_decky"}, "edge") => lans[job.lan] # NoLan
    /\ On({"add_decky"}, "state") => base[job.d].project = OpsProject
    /\ On({"attach_decky"}, "write") => job.lan \notin EdgeLans(job.d)
    /\ job.op = "attach_decky" /\ job.at # "validate" =>
          /\ lans[job.lan] # NoLan
          /\ job.ip.lan = job.lan /\ job.ip.ip.net = lans[job.lan].subnet
    /\ On({"remove_decky"}, "write") => HasRow(job.d) /\ job.del = rows[job.d].services
    /\ job.op = "remove_decky" => job.d \in Deckies
    /\ job.op = "remove_decky" /\ job.at \in {"check", "docker"} =>
          ~HasRow(job.d) /\ job.d \in DOMAIN file /\ file[job.d].services = job.del
    /\ job.op = "add_lan" => job.lan \in LanNames /\ lans[job.lan] # NoLan /\ Members(job.lan) = {}
    /\ job.op = "remove_lan" /\ ToWrite =>
          /\ job.visitors = Members(job.lan) /\ (job.d # 0 => job.d \in job.visitors)
          /\ \A d \in job.visitors \ {job.d} : job.cfg[d] = rows[d].cfg
    /\ job.op = "remove_lan" /\ job.at \in {"write", "drop"} => job.d = 0
    /\ job.op = "remove_lan" /\ LanInWork(job.lan) => lans[job.lan] = NoLan
    /\ job.op = "remove_lan" /\ ~ToWrite => Members(job.lan) = {}

ApiDue ==
    api # NoApi => /\ HasRow(api.d)
                   /\ api.at \in {"stop", "write"} => api.cfg = rows[api.d].cfg

Tidy == RowsEdged /\ RowsOnce /\ LansKnown /\ Bridged /\ FileServes /\ JobDue /\ ApiDue

\* The subject of the op, between the write of its row and the docker call.
Joining(d) ==
    d = job.d /\ job.op = "attach_decky" /\ job.at \in {"edge", "check", "docker"}
Leaving(d) ==
    /\ d = job.d
    /\ \/ job.op = "detach_decky" /\ job.at \in {"unedge", "check", "docker"}
       \/ job.op = "remove_lan" /\ job.at \in {"check", "docker"}
Removing(d) == d = job.d /\ job.op = "remove_decky" /\ job.at \in {"check", "docker"}

NetsDue(d) ==
    IF Joining(d) THEN base[d].nets \cup {job.ip}
    ELSE IF Leaving(d) THEN {a \in base[d].nets : a.lan # job.lan} ELSE base[d].nets

Docked ==
    \A d \in Deckies :
        /\ base[d].project # None /\ ~Removing(d) =>
              HasRow(d) /\ ToSet(rows[d].cfg.ips) = NetsDue(d)
        /\ HasRow(d) /\ rows[d].state = "running" => base[d].project # None

Follows == Tidy /\ (Strays = {} => Docked)

\* A validation that fails is an excuse.
Working == IsLive /\ (job.at = "validate" => Valid)

WiringInv == BaseShape /\ BridgeShape /\ (excuses = {} => OneAtATime /\ (Working => Follows))

\* A LAN is a key as long as an address is in it.
LEMMA KeysOfAddresses ==
    ASSUME NEW s PROVE Keys(s) = {a.lan : a \in ToSet(s)}
BY DEF Keys, ToSet

\* A pop takes the LAN's address and no other.
LEMMA PopTakes ==
    ASSUME NEW s, s \in Seq(ToSet(s)), OneEach(s), NEW l
    PROVE  /\ ToSet(Pop(s, l)) = {a \in ToSet(s) : a.lan # l}
           /\ Keys(Pop(s, l)) = Keys(s) \ {l}
           /\ OneEach(Pop(s, l))
<1>1. CASE l \notin Keys(s)
  <2>1. Pop(s, l) = s
    BY <1>1 DEF Pop
  <2>2. ToSet(s) = {a \in ToSet(s) : a.lan # l}
    BY <1>1, KeysOfAddresses
  <2> QED
    BY <1>1, <2>1, <2>2
<1>2. CASE l \in Keys(s)
  <2> DEFINE i == CHOOSE k \in DOMAIN s : s[k].lan = l
             t == Pop(s, l)
             n == Len(s)
  <2>1. i \in DOMAIN s /\ s[i].lan = l
    BY <1>2 DEF Keys
  <2>2. t = SubSeq(s, 1, i - 1) \o SubSeq(s, i + 1, n)
    BY <1>2 DEF Pop, RemoveAt
  <2>3. n \in Nat /\ DOMAIN s = 1..n
    BY LenProperties
  <2> HIDE DEF i, t, n
  <2>4. i \in 1..n
    BY <2>1, <2>3
  <2>5. \A k \in 1..n : s[k] \in ToSet(s)
    BY <2>3 DEF ToSet
  <2>6. /\ SubSeq(s, 1, i - 1) \in Seq(ToSet(s)) /\ Len(SubSeq(s, 1, i - 1)) = i - 1
        /\ \A k \in 1..i - 1 : SubSeq(s, 1, i - 1)[k] = s[k]
    BY <2>3, <2>4, <2>5, SubSeqProperties
  <2>7. /\ SubSeq(s, i + 1, n) \in Seq(ToSet(s)) /\ Len(SubSeq(s, i + 1, n)) = n - i
        /\ \A k \in 1..n - i : SubSeq(s, i + 1, n)[k] = s[i + k]
    BY <2>3, <2>4, <2>5, SubSeqProperties
  <2>8. /\ t \in Seq(ToSet(s)) /\ Len(t) = n - 1
        /\ \A k \in 1..n - 1 :
              t[k] = IF k <= i - 1 THEN SubSeq(s, 1, i - 1)[k]
                     ELSE SubSeq(s, i + 1, n)[k - (i - 1)]
    <3> DEFINE p == SubSeq(s, 1, i - 1)
               q == SubSeq(s, i + 1, n)
    <3>1. (i - 1) + (n - i) = n - 1
      BY <2>3, <2>4
    <3>2. t = p \o q /\ p \in Seq(ToSet(s)) /\ q \in Seq(ToSet(s))
      BY <2>2, <2>6, <2>7
    <3>3. Len(p) = i - 1 /\ Len(q) = n - i
      BY <2>6, <2>7
    <3> HIDE DEF p, q
    <3>4. /\ p \o q \in Seq(ToSet(s)) /\ Len(p \o q) = Len(p) + Len(q)
          /\ \A k \in 1..Len(p) + Len(q) :
                (p \o q)[k] = IF k <= Len(p) THEN p[k] ELSE q[k - Len(p)]
      BY <3>2, ConcatProperties
    <3>5. /\ t \in Seq(ToSet(s)) /\ Len(t) = n - 1
          /\ \A k \in 1..n - 1 : t[k] = IF k <= i - 1 THEN p[k] ELSE q[k - (i - 1)]
      BY <3>1, <3>2, <3>3, <3>4
    <3> QED
      BY <3>5 DEF p, q
  <2>9. \A k \in 1..n - 1 : t[k] = IF k < i THEN s[k] ELSE s[k + 1]
    <3>1. ASSUME NEW k \in 1..n - 1, k < i PROVE t[k] = s[k]
      BY <2>3, <2>4, <2>6, <2>8, <3>1
    <3>2. ASSUME NEW k \in 1..n - 1, ~(k < i) PROVE t[k] = s[k + 1]
      <4>1. k - (i - 1) \in 1..n - i /\ i + (k - (i - 1)) = k + 1 /\ ~(k <= i - 1)
        BY <2>3, <2>4, <3>2
      <4> QED
        BY <2>7, <2>8, <4>1
    <3> QED
      BY <3>1, <3>2
  <2>10. DOMAIN t = 1..n - 1
    BY <2>8, LenProperties
  <2>11. \A k \in 1..n : s[k].lan = l => k = i
    BY <2>1, <2>3 DEF OneEach
  <2>12. OneEach(t)
    <3> SUFFICES ASSUME NEW j \in 1..n - 1, NEW k \in 1..n - 1, t[j].lan = t[k].lan PROVE j = k
      BY <2>10 DEF OneEach
    <3>1. j \in 1..n /\ k \in 1..n /\ j + 1 \in 1..n /\ k + 1 \in 1..n
      BY <2>3
    <3>2. \A p, q \in 1..n : s[p].lan = s[q].lan => p = q
      BY <2>3 DEF OneEach
    <3>3. (IF j < i THEN j ELSE j + 1) = (IF k < i THEN k ELSE k + 1)
      BY <2>9, <3>1, <3>2
    <3> QED
      BY <2>4, <3>1, <3>3
  <2>13. ToSet(t) = {a \in ToSet(s) : a.lan # l}
    <3>1. ASSUME NEW k \in 1..n - 1 PROVE t[k] \in ToSet(s) /\ t[k].lan # l
      <4>1. k \in 1..n /\ k + 1 \in 1..n
        BY <2>3
      <4>2. CASE k < i
        BY <2>4, <2>5, <2>9, <2>11, <4>1, <4>2
      <4>3. CASE ~(k < i)
        <5>1. k + 1 # i
          BY <2>4, <4>3
        <5> QED
          BY <2>5, <2>9, <2>11, <4>1, <4>3, <5>1
      <4> QED
        BY <4>2, <4>3
    <3>2. ASSUME NEW k \in 1..n, s[k].lan # l PROVE \E j \in 1..n - 1 : t[j] = s[k]
      <4>1. k # i
        BY <2>1, <3>2
      <4>2. CASE k < i
        <5>1. k \in 1..n - 1
          BY <2>3, <2>4, <4>2
        <5> QED
          BY <2>9, <4>2, <5>1
      <4>3. CASE k > i
        <5>1. k - 1 \in 1..n - 1 /\ ~(k - 1 < i) /\ (k - 1) + 1 = k
          BY <2>3, <2>4, <4>3
        <5> QED
          BY <2>9, <5>1
      <4> QED
        BY <2>3, <2>4, <4>1, <4>2, <4>3
    <3>3. ToSet(s) = {s[k] : k \in 1..n} /\ ToSet(t) = {t[k] : k \in 1..n - 1}
      BY <2>3, <2>10 DEF ToSet
    <3> QED
      BY <3>1, <3>2, <3>3
  <2> QED
    BY <2>12, <2>13, KeysOfAddresses DEF t
<1> QED
  BY <1>1, <1>2

\* A put of an address in a new LAN adds it.
LEMMA PutAdds ==
    ASSUME NEW s, s \in Seq(ToSet(s)), OneEach(s), NEW a, a.lan \notin Keys(s)
    PROVE  /\ ToSet(Put(s, a)) = ToSet(s) \cup {a}
           /\ Keys(Put(s, a)) = Keys(s) \cup {a.lan}
           /\ OneEach(Put(s, a))
<1> DEFINE t == Append(s, a)
           n == Len(s)
<1>1. Put(s, a) = t
  BY DEF Put
<1>2. s \in Seq(ToSet(s) \cup {a})
  BY SeqMonotonic
<1>3. /\ n \in Nat /\ DOMAIN s = 1..n /\ t \in Seq(ToSet(s) \cup {a}) /\ Len(t) = n + 1
      /\ (\A i \in 1..n : t[i] = s[i]) /\ t[n + 1] = a
  BY <1>2, AppendProperties, LenProperties
<1>4. DOMAIN t = 1..n + 1
  BY <1>3, LenProperties
<1> HIDE DEF t, n
<1>5. \A i \in 1..n + 1 : i \in 1..n \/ i = n + 1
  BY <1>3
<1>6. \A i \in 1..n : i \in 1..n + 1
  BY <1>3
<1>7. n + 1 \in 1..n + 1
  BY <1>3
<1>8. ToSet(t) = ToSet(s) \cup {a}
  BY <1>3, <1>4, <1>5, <1>6, <1>7 DEF ToSet
<1>9. \A i \in 1..n : s[i].lan # a.lan
  BY <1>3 DEF Keys
<1>10. OneEach(t)
  BY <1>3, <1>4, <1>5, <1>9 DEF OneEach
<1> QED
  BY <1>1, <1>8, <1>10, KeysOfAddresses

\* The addresses of a list that is extended.
LEMMA ConcatAddresses ==
    ASSUME NEW S, NEW s \in Seq(S), NEW T, NEW t \in Seq(T)
    PROVE  ToSet(s \o t) \subseteq ToSet(s) \cup T
<1>1. s \in Seq(S \cup T) /\ t \in Seq(S \cup T)
  BY SeqMonotonic
<1>2. /\ s \o t \in Seq(S \cup T) /\ Len(s \o t) = Len(s) + Len(t)
      /\ \A i \in 1..Len(s) + Len(t) :
            (s \o t)[i] = IF i <= Len(s) THEN s[i] ELSE t[i - Len(s)]
  BY <1>1, ConcatProperties
<1>3. /\ Len(s) \in Nat /\ DOMAIN s = 1..Len(s) /\ Len(t) \in Nat
      /\ DOMAIN (s \o t) = 1..Len(s) + Len(t)
  BY <1>2, LenProperties
<1>4. \A j \in 1..Len(t) : t[j] \in T
  BY ElementOfSeq
<1>5. ASSUME NEW i \in 1..Len(s) + Len(t) PROVE (s \o t)[i] \in ToSet(s) \cup T
  <2>1. CASE i <= Len(s)
    <3>1. i \in DOMAIN s
      BY <1>3, <2>1
    <3> QED
      BY <1>2, <2>1, <3>1 DEF ToSet
  <2>2. CASE ~(i <= Len(s))
    <3>1. i - Len(s) \in 1..Len(t)
      BY <1>3, <2>2
    <3> QED
      BY <1>2, <1>4, <2>2, <3>1
  <2> QED
    BY <2>1, <2>2
<1> QED
  BY <1>3, <1>5 DEF ToSet

LEMMA MembersByEdge ==
    ASSUME NEW d \in Deckies, NEW l PROVE d \in Members(l) <=> l \in EdgeLans(d)
BY DEF Members, EdgeLans

\* hydrate adds nothing to a row whose edges all have an address.
LEMMA NoGaps ==
    ASSUME NEW d \in Deckies, Homed(rows[d].cfg), HasRow(d), EdgeLans(d) \subseteq KeysOf(d)
    PROVE  Config(d) = rows[d].cfg
<1> DEFINE ips == rows[d].cfg.ips
           gaps == {l \in LanNames : d \in Members(l) /\ l \notin Keys(ips)}
           more == {Backfilled(d, l) : l \in gaps}
<1>1. Config(d) = [rows[d].cfg EXCEPT !.ips = ips \o SetToSeq(more)]
  BY DEF Config
<1>2. gaps = {}
  BY MembersByEdge DEF KeysOf
<1>3. more = {}
  BY <1>2
<1>4. ips \in Seq(ToSet(ips))
  BY DEF Homed
<1> HIDE DEF ips, gaps, more
<1>5. SetToSeq(more) \in Seq({})
  BY <1>3, ListOfSet, FS_EmptySet
<1>6. SetToSeq(more) = <<>>
  <2>1. Len(SetToSeq(more)) \in Nat /\ SetToSeq(more) \in [1..Len(SetToSeq(more)) -> {}]
    BY <1>5, LenProperties
  <2>2. Len(SetToSeq(more)) = 0
    BY <2>1
  <2> QED
    BY <1>5, <2>2, EmptySeq
<1>7. ips \o SetToSeq(more) = ips
  BY <1>4, <1>6, ConcatEmptySeq
<1> QED
  BY <1>1, <1>7 DEF Homed, ips

\* What hydrate adds is in the LANs of the decky's edges.
LEMMA HydrateAdds ==
    ASSUME NEW d \in Deckies, Homed(rows[d].cfg), NEW a \in ToSet(Config(d).ips)
    PROVE  a \in ToSet(rows[d].cfg.ips) \/ a.lan \in EdgeLans(d)
<1> DEFINE ips == rows[d].cfg.ips
           gaps == {l \in LanNames : d \in Members(l) /\ l \notin Keys(ips)}
           more == {Backfilled(d, l) : l \in gaps}
<1>1. Config(d) = [rows[d].cfg EXCEPT !.ips = ips \o SetToSeq(more)]
  BY DEF Config
<1>2. IsFiniteSet(more)
  <2>1. IsFiniteSet(gaps)
    BY MutationOpsAssumption, FS_Subset
  <2> HIDE DEF gaps
  <2> DEFINE f == [l \in gaps |-> Backfilled(d, l)]
  <2>2. f \in Surjection(gaps, more)
    BY DEF Surjection
  <2> HIDE DEF f, more
  <2> QED
    BY <2>1, <2>2, FS_Surjection
<1>3. SetToSeq(more) \in Seq(more)
  BY <1>2, ListOfSet
<1>4. ips \in Seq(ToSet(ips))
  BY DEF Homed
<1>5. \A b \in more : b.lan \in EdgeLans(d)
  <2>1. ASSUME NEW l PROVE Backfilled(d, l).lan = l
    BY DEF Backfilled
  <2>2. \A l \in gaps : l \in EdgeLans(d)
    BY MembersByEdge
  <2> QED
    BY <2>1, <2>2
<1> HIDE DEF ips, gaps, more
<1>6. Config(d).ips = ips \o SetToSeq(more)
  BY <1>1 DEF Homed
<1>7. a \in ToSet(ips) \cup more
  BY <1>3, <1>4, <1>6, ConcatAddresses
<1> QED
  BY <1>5, <1>7 DEF ips

\* What the rows have is in their edges' LANs, but for the op's new address.
LEMMA KeysByEdge ==
    ASSUME Tidy, job.at # "edge", NEW d \in Deckies
    PROVE  KeysOf(d) \subseteq EdgeLans(d)
BY DEF Tidy, RowsEdged, EdgesDue, Linking, On

\* The compose file can be written, and serves what the rows say.
LEMMA TidyRenders ==
    ASSUME HomeInv, Tidy, job.at # "edge"
    PROVE  \A d \in Deckies : HasRow(d) =>
               /\ d \in DOMAIN Rendered /\ Rendered[d].services = rows[d].services
               /\ Rendered[d].nets = ToSet(Config(d).ips)
<1>1. Renders
  <2> SUFFICES ASSUME NEW d \in Deckies, HasRow(d), NEW a \in ToSet(Config(d).ips)
               PROVE  lans[a.lan] # NoLan
    BY DEF Renders, Configs
  <2>1. Homed(rows[d].cfg)
    BY DEF HomeInv, RowsHomed, IsRow
  <2>2. a.lan \in EdgeLans(d)
    <3>1. a \in ToSet(rows[d].cfg.ips) => a.lan \in KeysOf(d)
      BY KeysOfAddresses DEF KeysOf
    <3> QED
      BY <2>1, <3>1, KeysByEdge, HydrateAdds
  <2> QED
    BY <2>2 DEF EdgeLans, Tidy, LansKnown
<1>2. Rendered = [d \in {e \in Deckies : HasRow(e)} |->
          [nets |-> ToSet(Config(d).ips), services |-> rows[d].services, l3 |-> Config(d).l3]]
  <2>1. DOMAIN Configs = {e \in Deckies : HasRow(e)}
        /\ \A d \in {e \in Deckies : HasRow(e)} : Configs[d] = Config(d)
    BY DEF Configs
  <2> QED
    BY <1>1, <2>1 DEF Rendered
<1> QED
  BY <1>2

\* What every claim does, whatever the op.
Claimed ==
    /\ Claim /\ UNCHANGED <<dockerVars, api, down>> /\ status' \in {status, Degraded}
    /\ excuses \subseteq excuses' /\ (excuses' = {} => api = NoApi /\ down = NoDown)

LEMMA BeginClaims == ASSUME NEW guard, NEW j, Begin(guard, j) PROVE Claimed
<1>1. /\ Claim /\ UNCHANGED <<dockerVars, api, down>>
      /\ excuses' = excuses \cup {e \in {"disturbed"} : api # NoApi \/ down # NoDown}
                            \cup {e \in {"rename"} : guard /\ j.op = "update_lan"}
                            \cup {e \in {"patch"} : guard /\ j.patch = "addresses"}
  BY DEF Begin
<1>2. status' \in {status, Degraded}
  BY DEF Begin
<1>3. excuses \subseteq excuses' /\ (excuses' = {} => api = NoApi /\ down = NoDown)
  BY <1>1
<1> QED
  BY <1>1, <1>2, <1>3 DEF Claimed

LEMMA MutationClaims == ASSUME Mutation PROVE Claimed
<1>1. ASSUME NEW l, NEW n, apply_add_lan(l, n) PROVE Claimed
  BY <1>1, BeginClaims DEF apply_add_lan
<1>2. ASSUME NEW l, apply_remove_lan(l) PROVE Claimed
  BY <1>2, BeginClaims DEF apply_remove_lan
<1>3. ASSUME NEW l, NEW name, NEW n, apply_update_lan(l, name, n) PROVE Claimed
  BY <1>3, BeginClaims DEF apply_update_lan
<1>4. ASSUME NEW d, apply_remove_decky(d) PROVE Claimed
  BY <1>4, BeginClaims DEF apply_remove_decky
<1>5. ASSUME NEW d, NEW S, NEW patch, NEW ips, NEW flip, NEW force,
             apply_update_decky(d, S, patch, ips, flip, force)
      PROVE  Claimed
  BY <1>5, BeginClaims DEF apply_update_decky
<1>6. ASSUME NEW d, NEW l, apply_detach_decky(d, l) PROVE Claimed
  BY <1>6, BeginClaims DEF apply_detach_decky
<1>7. ASSUME NEW d, NEW l, NEW l3, NEW pin, apply_attach_decky(d, l, l3, pin) PROVE Claimed
  BY <1>7, BeginClaims DEF apply_attach_decky
<1>8. ASSUME NEW d, NEW l, NEW S, NEW l3, NEW pin, apply_add_decky(d, l, S, l3, pin) PROVE Claimed
  BY <1>8, BeginClaims DEF apply_add_decky
<1> QED
  BY <1>1, <1>2, <1>3, <1>4, <1>5, <1>6, <1>7, <1>8 DEF Mutation

\* Edits of a base container.
LEMMA BaseEdited ==
    ASSUME BaseShape, NEW d, NEW b, IsBase(b), base' = [base EXCEPT ![d] = b]
    PROVE  BaseShape'
<1>1. base' = [e \in Deckies |-> IF e = d THEN b ELSE base[e]]
  BY DEF BaseShape
<1>2. \A e \in Deckies : base'[e] = IF e = d THEN b ELSE base[e]
  BY <1>1
<1>3. \A e \in Deckies : IsBase(base'[e])
  BY <1>2 DEF BaseShape
<1>4. base' = [e \in Deckies |-> base'[e]]
  BY <1>1, <1>2
<1> QED
  BY <1>3, <1>4 DEF BaseShape, IsBase

LEMMA NetsEdited ==
    ASSUME NEW b, IsBase(b), NEW N, b.project = None => N = {}
    PROVE  /\ [b EXCEPT !.nets = N] = [project |-> b.project, nets |-> N, l3 |-> b.l3]
           /\ IsBase([b EXCEPT !.nets = N])
<1>1. [b EXCEPT !.nets = N] = [project |-> b.project, nets |-> N, l3 |-> b.l3]
  BY DEF IsBase
<1>2. ASSUME b.project = None PROVE [project |-> b.project, nets |-> N, l3 |-> b.l3] = NoBase
  <2>1. b = NoBase /\ N = {}
    BY <1>2 DEF IsBase
  <2>2. b.l3 = FALSE
    BY <2>1 DEF NoBase
  <2> QED
    BY <1>2, <2>1, <2>2 DEF NoBase
<1>3. b.project \in Projects
  BY DEF IsBase
<1> QED
  BY <1>1, <1>2, <1>3 DEF IsBase

LEMMA NoneProject == None \notin {Own, Fleet} /\ Own # Fleet /\ OpsProject = Fleet
BY DEF None, Own, Fleet, OpsProject

LEMMA StartedIsBase == ASSUME NEW d, NEW f, NEW p \in {Own, Fleet} PROVE IsBase(FromFile(d, f, p))
<1>1. FromFile(d, f, p) = [project |-> p, nets |-> f[d].nets, l3 |-> f[d].l3]
  BY DEF FromFile
<1> QED
  BY <1>1, NoneProject DEF IsBase, Projects

LEMMA UnpluggedBase ==
    ASSUME BaseShape, NEW S, base' = Unplugged(S)
    PROVE  /\ BaseShape'
           /\ \A d \in Deckies : /\ base'[d].project = base[d].project
                                 /\ base'[d].nets = {a \in base[d].nets : a.lan \notin S}
<1>1. \A d \in Deckies : base'[d] = [base[d] EXCEPT !.nets = {a \in base[d].nets : a.lan \notin S}]
  BY DEF Unplugged
<1>2. ASSUME NEW d \in Deckies
      PROVE  /\ IsBase(base'[d]) /\ base'[d].project = base[d].project
             /\ base'[d].nets = {a \in base[d].nets : a.lan \notin S}
  <2> DEFINE N == {a \in base[d].nets : a.lan \notin S}
  <2>1. IsBase(base[d]) /\ base'[d] = [base[d] EXCEPT !.nets = N]
    BY <1>1 DEF BaseShape
  <2>2. base[d].project = None => N = {}
    BY <2>1 DEF IsBase, NoBase
  <2> HIDE DEF N
  <2>3. /\ base'[d] = [project |-> base[d].project, nets |-> N, l3 |-> base[d].l3]
        /\ IsBase([base[d] EXCEPT !.nets = N])
    BY <2>1, <2>2, NetsEdited
  <2>4. IsBase(base'[d])
    BY <2>1, <2>3
  <2>5. base'[d].project = base[d].project /\ base'[d].nets = N
    BY <2>3
  <2> QED
    BY <2>4, <2>5 DEF N
<1>3. base' = [d \in Deckies |-> base'[d]]
  BY DEF Unplugged
<1> QED
  BY <1>2, <1>3 DEF BaseShape, IsBase

LEMMA GoneBase ==
    ASSUME BaseShape, NEW p, base' = Gone(base, p) PROVE BaseShape'
<1>1. base' = [d \in Deckies |-> base'[d]] /\ \A d \in Deckies : base'[d] \in {base[d], NoBase}
  BY DEF Gone
<1>2. IsBase(NoBase)
  BY DEF IsBase, NoBase, Projects
<1> QED
  BY <1>1, <1>2 DEF BaseShape, IsBase

LEMMA BaseStep == ASSUME BaseShape, [Next]_vars PROVE BaseShape'
<1>1. CASE base' = base
  BY <1>1 DEF BaseShape, IsBase
<1>2. ASSUME NEW S, base' = Unplugged(S) PROVE BaseShape'
  BY <1>2, UnpluggedBase
<1>3. CASE DockerLan
  BY <1>1, <1>2, <1>3 DEF DockerLan, CreateBridge, RemoveBridge, dockerVars
<1>4. ASSUME NEW d, NEW f, base' = [base EXCEPT ![d] = FromFile(d, f, OpsProject)] PROVE BaseShape'
  BY <1>4, NoneProject, StartedIsBase, BaseEdited
<1>5. CASE DockerSpawn \/ DockerRecreate
  BY <1>1, <1>4, <1>5 DEF DockerSpawn, DockerRecreate
<1>6. CASE DockerRemove
  <2> SUFFICES ASSUME base' = [base EXCEPT ![job.d] = IF @.project = OpsProject THEN NoBase ELSE @]
               PROVE  BaseShape'
    BY <1>1, <1>6 DEF DockerRemove
  <2>1. CASE job.d \in Deckies
    <3>1. IsBase(IF base[job.d].project = OpsProject THEN NoBase ELSE base[job.d])
      BY <2>1 DEF BaseShape, IsBase, NoBase, Projects
    <3> QED
      BY <3>1, BaseEdited
  <2>2. CASE job.d \notin Deckies
    <3>1. base' = base
      BY <2>2 DEF BaseShape
    <3> QED
      BY <1>1, <3>1
  <2> QED
    BY <2>1, <2>2
<1>7. CASE DockerConnect
  <2> SUFFICES ASSUME base[job.d] # NoBase,
                      base' = [base EXCEPT ![job.d].nets = @ \cup {job.ip}]
               PROVE  BaseShape'
    BY <1>1, <1>7 DEF DockerConnect
  <2>1. CASE job.d \in Deckies
    <3>1. IsBase(base[job.d]) /\ base[job.d].project # None
      BY <2>1 DEF BaseShape, IsBase
    <3>2. IsBase([base[job.d] EXCEPT !.nets = base[job.d].nets \cup {job.ip}])
      BY <3>1, NetsEdited
    <3>3. base' = [base EXCEPT ![job.d] = [base[job.d] EXCEPT !.nets = base[job.d].nets \cup {job.ip}]]
      OBVIOUS
    <3> QED
      BY <3>2, <3>3, BaseEdited
  <2>2. CASE job.d \notin Deckies
    <3>1. base' = base
      BY <2>2 DEF BaseShape
    <3> QED
      BY <1>1, <3>1
  <2> QED
    BY <2>1, <2>2
<1>8. CASE DockerDisconnect
  <2> DEFINE N == {a \in base[job.d].nets : a.lan # job.lan}
  <2> SUFFICES ASSUME base' = [base EXCEPT ![job.d].nets = {a \in @ : a.lan # job.lan}]
               PROVE  BaseShape'
    BY <1>1, <1>8 DEF DockerDisconnect
  <2>1. CASE job.d \in Deckies
    <3>1. IsBase(base[job.d])
      BY <2>1 DEF BaseShape
    <3>2. base[job.d].project = None => N = {}
      BY <3>1 DEF IsBase, NoBase
    <3>3. base' = [base EXCEPT ![job.d] = [base[job.d] EXCEPT !.nets = N]]
      OBVIOUS
    <3> HIDE DEF N
    <3>4. IsBase([base[job.d] EXCEPT !.nets = N])
      BY <3>1, <3>2, NetsEdited
    <3> QED
      BY <3>3, <3>4, BaseEdited
  <2>2. CASE job.d \notin Deckies
    <3>1. base' = base
      BY <2>2 DEF BaseShape
    <3> QED
      BY <1>1, <3>1
  <2> QED
    BY <2>1, <2>2
<1>9. CASE TearCompose \/ FleetUp
  BY <1>1, <1>9, GoneBase DEF TearCompose, FleetUp
<1>10. CASE TearNetworks
  BY <1>2, <1>10 DEF TearNetworks
<1>11. CASE Mutation
  BY <1>1, <1>11, MutationClaims DEF Claimed, dockerVars
<1>12. CASE WriteAdd \/ WriteAttach \/ WriteDetach \/ WriteVisitor \/ WriteRemove \/ WriteUpdate
            \/ AddEdge \/ DeleteEdge \/ DropLan \/ WriteRunning \/ CheckLive \/ DockerServices
            \/ Validate \/ MutatorDies
  BY <1>1, <1>12 DEF WriteAdd, WriteAttach, WriteDetach, WriteVisitor, WriteRemove, WriteUpdate,
       AddEdge, DeleteEdge, DropLan, WriteRunning, CheckLive, DockerServices, Validate, MutatorDies,
       RowStep, dockerVars
<1>13. CASE Api \/ TearBegin
  BY <1>1, <1>13 DEF Api, ApiBegin, ApiStop, ApiWrite, ApiRender, ApiUp, TearBegin, dockerVars
<1>14. CASE UNCHANGED vars
  BY <1>1, <1>14 DEF vars, dockerVars
<1> QED
  BY <1>3, <1>5, <1>6, <1>7, <1>8, <1>9, <1>10, <1>11, <1>12, <1>13, <1>14 DEF Next, Work

LEMMA BridgeStep == ASSUME BridgeShape, [Next]_vars PROVE BridgeShape'
<1>1. CASE bridges' = bridges
  BY <1>1 DEF BridgeShape
<1>2. CASE DockerLan
  <2>1. ASSUME NEW l, NEW n, CreateBridge(l, n) PROVE BridgeShape'
    <3>1. CASE bridges[l] = n
      BY <1>1, <2>1, <3>1 DEF CreateBridge
    <3>2. CASE bridges[l] # n
      <4> DEFINE rivals == {m \in LanNames \ {l} : bridges[m] = n}
                 f == [m \in LanNames |->
                         CASE m = l -> IF \E r \in rivals : InUse(r) THEN NoNet ELSE n
                           [] m \in rivals /\ ~InUse(m) -> NoNet
                           [] OTHER -> bridges[m]]
      <4>1. bridges' = f
        BY <2>1, <3>2 DEF CreateBridge
      <4>2. f = [m \in LanNames |-> f[m]]
        OBVIOUS
      <4> HIDE DEF f
      <4> QED
        BY <4>1, <4>2 DEF BridgeShape
    <3> QED
      BY <3>1, <3>2
  <2>2. ASSUME NEW l, RemoveBridge(l) PROVE BridgeShape'
    BY <2>2 DEF RemoveBridge, BridgeShape
  <2> QED
    BY <1>1, <1>2, <2>1, <2>2 DEF DockerLan, dockerVars
<1>3. CASE TearNetworks
  BY <1>3 DEF TearNetworks, BridgeShape
<1>4. CASE Mutation
  BY <1>1, <1>4, MutationClaims DEF Claimed, dockerVars
<1>5. CASE Work /\ ~DockerLan
  BY <1>1, <1>5 DEF Work, WriteAdd, WriteAttach, WriteDetach, WriteVisitor, WriteRemove, WriteUpdate,
       AddEdge, DeleteEdge, DropLan, WriteRunning, CheckLive, DockerSpawn, DockerRemove,
       DockerConnect, DockerDisconnect, DockerServices, DockerRecreate, Validate, RowStep, dockerVars
<1>6. CASE Api \/ MutatorDies \/ TearBegin \/ TearCompose \/ FleetUp
  BY <1>1, <1>6 DEF Api, ApiBegin, ApiStop, ApiWrite, ApiRender, ApiUp, ApiStep, MutatorDies,
       TearBegin, TearCompose, FleetUp, dockerVars
<1>7. CASE UNCHANGED vars
  BY <1>1, <1>7 DEF vars, dockerVars
<1> QED
  BY <1>2, <1>3, <1>4, <1>5, <1>6, <1>7 DEF Next

\* The verdict of a validation depends on the tables alone.
LEMMA ValidKept == ASSUME UNCHANGED dbVars PROVE Valid' <=> Valid
<1>1. lans' = lans /\ rows' = rows /\ edges' = edges
  BY DEF dbVars
<1>2. ASSUME NEW d, NEW l PROVE Backfilled(d, l)' = Backfilled(d, l)
  BY <1>1 DEF Backfilled, Members
<1>3. ASSUME NEW d PROVE Config(d)' = Config(d)
  BY <1>1, <1>2 DEF Config, Members
<1>4. Configs' = Configs
  BY <1>1, <1>3 DEF Configs, HasRow
<1> QED
  BY <1>1, <1>4 DEF Valid

\* A step with a fault is excused.
LEMMA FaultExcused == ASSUME Fault PROVE excuses' # {}
BY DEF Fault, Excuse

\* Docker's steps that are not excused, and the last one of an op.
LEMMA WorkGoesOn ==
    ASSUME Work, excuses' = {}
    PROVE  /\ job.at # None /\ excuses = {} /\ UNCHANGED <<status, api, down>>
           /\ job.at = "validate" => Valid
<1>1. CASE WriteAdd \/ WriteAttach \/ WriteDetach \/ WriteVisitor \/ WriteRemove \/ WriteUpdate
           \/ AddEdge \/ DeleteEdge \/ DropLan \/ WriteRunning \/ CheckLive
  BY <1>1 DEF WriteAdd, WriteAttach, WriteDetach, WriteVisitor, WriteRemove, WriteUpdate, AddEdge,
       DeleteEdge, DropLan, WriteRunning, CheckLive, RowStep, On, None
<1>2. CASE DockerLan \/ DockerSpawn \/ DockerRemove \/ DockerConnect \/ DockerDisconnect
           \/ DockerServices \/ DockerRecreate
  <2>1. NoFault
    BY <1>2, FaultExcused DEF DockerLan, DockerSpawn, DockerRemove, DockerConnect, DockerDisconnect,
         DockerServices, DockerRecreate
  <2>2. UNCHANGED <<status, api, down>> /\ job.at \in {"docker", "docker_l3"}
    BY <1>2, FaultExcused DEF DockerLan, DockerSpawn, DockerRemove, DockerConnect, DockerDisconnect,
         DockerServices, DockerRecreate, DockerStep, On
  <2> QED
    BY <2>1, <2>2 DEF NoFault, None
<1>3. CASE Validate
  BY <1>3 DEF Validate, Excuse, None
<1> QED
  BY <1>1, <1>2, <1>3 DEF Work

\* A live service change that is not excused.
LEMMA ApiGoesOn ==
    ASSUME Api, excuses' = {}
    PROVE  /\ excuses = {} /\ UNCHANGED <<status, job, down>>
           /\ api = NoApi => IsLive /\ job = Blank
<1>1. ASSUME NEW kind, NEW d, NEW s, NEW config, NEW doUp, ApiBegin(kind, d, s, config, doUp)
      PROVE  excuses = {} /\ UNCHANGED <<status, job, down>> /\ IsLive /\ job = Blank
  BY <1>1 DEF ApiBegin, Excuse
<1>2. CASE ApiStop \/ ApiWrite \/ ApiRender \/ ApiUp
  <2>1. UNCHANGED <<status, job, down>> /\ api.kind # None
    BY <1>2 DEF ApiStop, ApiWrite, ApiRender, ApiUp, ApiStep, None
  <2>2. excuses = {}
    BY <1>2, FaultExcused DEF ApiStop, ApiWrite, ApiRender, ApiUp, NoFault
  <2> QED
    BY <2>1, <2>2 DEF NoApi
<1> QED
  BY <1>1, <1>2 DEF Api

\* A step between two states in which nothing is excused.
Smooth ==
    /\ BaseShape /\ BridgeShape /\ excuses = {} /\ excuses' = {}
    /\ OneAtATime /\ Working /\ Working' /\ Follows

\* Without an excuse nothing begins to overlap, and what is not live, or will
\* not be found valid, stays so.
LEMMA OneStep ==
    ASSUME excuses = {} => OneAtATime, [Next]_vars, excuses' = {}
    PROVE  excuses = {} /\ OneAtATime' /\ (Working' => Working)
<1>1. CASE Mutation
  <2>1. /\ job = Blank /\ api = NoApi /\ down = NoDown /\ excuses = {} /\ IsLive
        /\ UNCHANGED <<api, down>> /\ status' \in {status, Degraded}
    BY <1>1, MutationClaims DEF Claimed, Claim
  <2>2. IsLive'
    BY <2>1 DEF IsLive, Degraded, LiveStatuses
  <2>3. job.at # "validate"
    BY <2>1 DEF Blank, None
  <2> QED
    BY <2>1, <2>2, <2>3 DEF OneAtATime, Working
<1>2. CASE Work
  <2>1. /\ job.at # None /\ excuses = {} /\ UNCHANGED <<status, api, down>>
        /\ job.at = "validate" => Valid
    BY <1>2, WorkGoesOn
  <2>2. job # Blank
    BY <2>1 DEF Blank
  <2>3. IsLive /\ down = NoDown /\ api = NoApi
    BY <2>1, <2>2 DEF OneAtATime
  <2> QED
    BY <2>1, <2>3 DEF OneAtATime, Working, IsLive
<1>3. CASE MutatorDies
  BY <1>3, FaultExcused DEF MutatorDies
<1>4. CASE Api
  <2>1. /\ excuses = {} /\ UNCHANGED <<status, job, down>>
        /\ api = NoApi => IsLive /\ job = Blank
    BY <1>4, ApiGoesOn
  <2>2. IsLive /\ down = NoDown /\ job = Blank
    BY <2>1 DEF OneAtATime
  <2>3. job.at # "validate"
    BY <2>2 DEF Blank, None
  <2> QED
    BY <2>1, <2>2, <2>3 DEF OneAtATime, Working, IsLive
<1>5. CASE TearBegin
  <2>1. /\ UNCHANGED <<job, api>> /\ job = Blank /\ api = NoApi /\ excuses = {}
        /\ status' = "tearing_down"
    BY <1>5 DEF TearBegin, Excuse
  <2>2. ~IsLive'
    BY <2>1 DEF IsLive, LiveStatuses
  <2> QED
    BY <2>1, <2>2 DEF OneAtATime, Working
<1>6. CASE TearCompose \/ TearNetworks
  <2>1. /\ UNCHANGED <<job, api>> /\ down # NoDown /\ excuses = {}
        /\ status' \in {status, "torn_down"}
    BY <1>6, FaultExcused DEF TearCompose, TearNetworks, NoDown, None, NoFault
  <2>2. ~IsLive
    BY <2>1 DEF OneAtATime
  <2>3. ~IsLive' /\ job = Blank /\ api = NoApi
    BY <2>1, <2>2 DEF IsLive, LiveStatuses, OneAtATime
  <2> QED
    BY <2>1, <2>3 DEF OneAtATime, Working
<1>7. CASE FleetUp \/ UNCHANGED vars
  <2>1. UNCHANGED <<status, dbVars, job, api, down>> /\ excuses = {}
    BY <1>7 DEF FleetUp, vars, Excuse
  <2>2. Valid' <=> Valid
    BY <2>1, ValidKept
  <2> QED
    BY <2>1, <2>2 DEF OneAtATime, Working, IsLive
<1> QED
  BY <1>1, <1>2, <1>3, <1>4, <1>5, <1>6, <1>7 DEF Next

\* So the invariant is kept by a step that follows smoothly.
LEMMA WiringStep ==
    ASSUME WiringInv, [Next]_vars, Smooth => Follows' PROVE WiringInv'
<1>1. BaseShape' /\ BridgeShape'
  BY BaseStep, BridgeStep DEF WiringInv
<1>2. ASSUME excuses' = {} PROVE OneAtATime' /\ (Working' => Follows')
  <2>1. excuses = {} /\ OneAtATime /\ OneAtATime' /\ (Working' => Working)
    BY <1>2, OneStep DEF WiringInv
  <2> QED
    BY <1>2, <2>1 DEF WiringInv, Smooth
<1> QED
  BY <1>1, <1>2 DEF WiringInv

\* Only at these steps are edges, file or Docker behind the rows.
AtWork == {"edge", "unedge", "check", "docker"}

Caught ==
    /\ \A d : EdgesDue(d) = EdgeLans(d) /\ NetsDue(d) = base[d].nets /\ ~Removing(d)
    /\ \A l : ~LanInWork(l)
    /\ \A d : Unrendered(d) <=> api # NoApi /\ d = api.d /\ api.at = "render"

LEMMA CaughtNow == ASSUME job.at \notin AtWork PROVE Caught
BY DEF AtWork, Caught, EdgesDue, Linking, Unlinking, NetsDue, Joining, Leaving, Removing, LanInWork,
       Unrendered, On

LEMMA CaughtThen == ASSUME job'.at \notin AtWork PROVE Caught'
BY DEF AtWork, Caught, EdgesDue, Linking, Unlinking, NetsDue, Joining, Leaving, Removing, LanInWork,
       Unrendered, On

LEMMA BlankDue == ASSUME job' = Blank PROVE JobDue' /\ job'.at \notin AtWork
BY DEF JobDue, Blank, On, AtWork, None

\* A step between two such places that leaves tables and Docker as they are.
LEMMA CaughtStep ==
    ASSUME Smooth, UNCHANGED <<dbVars, bridges, base, file>>,
           job.at \notin AtWork, job'.at \notin AtWork,
           api # NoApi /\ api.at = "render" => api' = api,
           JobDue', ApiDue'
    PROVE  Follows'
<1>1. lans' = lans /\ rows' = rows /\ edges' = edges
  BY DEF dbVars
<1>2. Caught /\ Caught'
  BY CaughtNow, CaughtThen
<1>3. Tidy /\ (Strays = {} => Docked)
  BY DEF Smooth, Follows
<1>4. \A d : EdgeLans(d)' = EdgeLans(d) /\ KeysOf(d)' = KeysOf(d)
  BY <1>1 DEF EdgeLans, KeysOf, HasRow
<1>5. RowsEdged'
  BY <1>2, <1>3, <1>4 DEF RowsEdged, Tidy, Caught
<1>6. RowsOnce' /\ LansKnown'
  BY <1>1, <1>3 DEF RowsOnce, LansKnown, Tidy, HasRow, OneEach
<1>7. Bridged'
  BY <1>1, <1>2, <1>3 DEF Bridged, Tidy, Caught
<1>8. FileServes'
  BY <1>1, <1>2, <1>3 DEF FileServes, Tidy, Caught, HasRow
<1>9. Strays' = Strays
  BY <1>1 DEF Strays, HasRow
<1>10. Docked => Docked'
  BY <1>1, <1>2 DEF Docked, Caught, HasRow
<1> QED
  BY <1>3, <1>5, <1>6, <1>7, <1>8, <1>9, <1>10 DEF Follows, Tidy

\* An op that is claimed reads the rows as they are.
LEMMA ReadsRow ==
    ASSUME HomeInv, Tidy, job.at \notin AtWork, NEW d \in Deckies, HasRow(d)
    PROVE  Configs[d] = rows[d].cfg /\ Config(d) = rows[d].cfg
<1>1. Caught
  BY CaughtNow
<1>2. EdgeLans(d) = KeysOf(d)
  BY <1>1 DEF Caught, Tidy, RowsEdged
<1>3. Homed(rows[d].cfg)
  BY DEF HomeInv, RowsHomed, IsRow
<1>4. Config(d) = rows[d].cfg
  BY <1>2, <1>3, NoGaps
<1> QED
  BY <1>4 DEF Configs

\* The ops that read before they write.
LEMMA ReadClaim ==
    ASSUME Smooth, NEW guard, NEW j, Begin(guard, j), UNCHANGED dbVars,
           guard => j.at \notin AtWork /\ JobDue'
    PROVE  Follows'
<1>1. /\ Claimed /\ (guard => job' = j) /\ (~guard => job' = job)
  BY BeginClaims DEF Begin
<1>2. job = Blank /\ api = NoApi /\ api' = NoApi /\ UNCHANGED <<bridges, base, file>>
  BY <1>1 DEF Claimed, Claim, Smooth, dockerVars
<1>3. job.at \notin AtWork
  BY <1>2 DEF Blank, AtWork, None
<1>4. ApiDue'
  BY <1>2 DEF ApiDue
<1>5. job'.at \notin AtWork /\ JobDue'
  BY <1>1, <1>2, BlankDue
<1> QED
  BY <1>2, <1>3, <1>4, <1>5, CaughtStep

\* While an op is claimed none is at work.
LEMMA ClaimIdle ==
    ASSUME NEW guard, NEW j, Begin(guard, j), guard
    PROVE  job' = j /\ job.at \notin AtWork
BY DEF Begin, Claim, Blank, AtWork, None

LEMMA RemoveLanWires ==
    ASSUME HomeInv, Smooth, NEW l \in LanNames, apply_remove_lan(l) PROVE Follows'
<1> DEFINE at == IF Members(l) = {} THEN "drop" ELSE "write"
           guard == lans[l] # NoLan /\ \A d \in DOMAIN Configs : Home(Configs[d]) # l
           j == [Blank EXCEPT !.op = "remove_lan", !.lan = l, !.cfg = Configs,
                              !.at = at, !.visitors = Members(l)]
<1>1. Begin(guard, j) /\ UNCHANGED dbVars
  BY DEF apply_remove_lan
<1>2. ASSUME guard PROVE j.at \notin AtWork /\ JobDue'
  <2>1. /\ j.op = "remove_lan" /\ j.lan = l /\ j.cfg = Configs /\ j.visitors = Members(l)
        /\ j.at = at /\ j.d = 0
    BY DEF Blank
  <2> HIDE DEF j
  <2>2. job' = j /\ job.at \notin AtWork
    BY <1>1, <1>2, ClaimIdle
  <2>3. rows' = rows /\ Members(l)' = Members(l)
    BY <1>1 DEF dbVars, Members
  <2>4. \A d \in Members(l) : Configs[d] = rows[d].cfg
    BY <2>2, ReadsRow DEF Members, HomeInv, RowsHomed, Smooth, Follows
  <2>5. at = "drop" => Members(l) = {}
    OBVIOUS
  <2>6. at \in {"drop", "write"}
    OBVIOUS
  <2> HIDE DEF at
  <2>7. job'.at \in {"drop", "write"} /\ (job'.at = "drop" => Members(l) = {})
    BY <2>1, <2>2, <2>5, <2>6
  <2>8. JobDue'
    BY <2>1, <2>2, <2>3, <2>4, <2>7 DEF JobDue, On, ToWrite, LanInWork
  <2> QED
    BY <2>1, <2>6, <2>8 DEF AtWork
<1> HIDE DEF guard, j
<1> QED
  BY <1>1, <1>2, ReadClaim

LEMMA AddDeckyWires ==
    ASSUME HomeInv, Smooth, NEW d \in Deckies, NEW l \in LanNames, NEW S, NEW l3, NEW pin,
           apply_add_decky(d, l, S, l3, pin)
    PROVE  Follows'
<1> DEFINE guard == ~HasRow(d) /\ lans[l] # NoLan /\ Allocates(l, pin)
           j == [Blank EXCEPT !.op = "add_decky", !.at = "write", !.d = d, !.lan = l,
                              !.ip = NewAddress(l, pin), !.add = S, !.l3 = l3]
<1>1. Begin(guard, j) /\ UNCHANGED dbVars
  BY DEF apply_add_decky
<1>2. ASSUME guard PROVE j.at \notin AtWork /\ JobDue'
  <2>1. j.op = "add_decky" /\ j.at = "write" /\ j.d = d
    BY DEF Blank
  <2>2. job' = j /\ ~HasRow(d) /\ rows' = rows
    BY <1>1, <1>2, ClaimIdle DEF dbVars
  <2> HIDE DEF j
  <2> QED
    BY <2>1, <2>2 DEF JobDue, On, HasRow, AtWork
<1> HIDE DEF guard, j
<1> QED
  BY <1>1, <1>2, ReadClaim

LEMMA AttachDeckyWires ==
    ASSUME HomeInv, Smooth, NEW d \in Deckies, NEW l \in LanNames, NEW l3, NEW pin,
           apply_attach_decky(d, l, l3, pin)
    PROVE  Follows'
<1> DEFINE guard == HasRow(d) /\ lans[l] # NoLan /\ d \notin Members(l) /\ Allocates(l, pin)
           j == [Blank EXCEPT !.op = "attach_decky", !.at = "write", !.d = d, !.lan = l,
                              !.ip = NewAddress(l, pin), !.l3 = l3, !.cfg = Configs]
<1>1. Begin(guard, j) /\ UNCHANGED dbVars
  BY DEF apply_attach_decky
<1>2. ASSUME guard PROVE j.at \notin AtWork /\ JobDue'
  <2>1. /\ j.op = "attach_decky" /\ j.at = "write" /\ j.d = d /\ j.lan = l /\ j.cfg = Configs
        /\ j.ip = NewAddress(l, pin)
    BY DEF Blank
  <2> HIDE DEF j
  <2>2. job' = j /\ job.at \notin AtWork /\ rows' = rows /\ lans' = lans /\ edges' = edges
    BY <1>1, <1>2, ClaimIdle DEF dbVars
  <2>3. Configs[d] = rows[d].cfg
    BY <1>2, <2>2, ReadsRow DEF Smooth, Follows
  <2>4. NewAddress(l, pin).lan = l /\ NewAddress(l, pin).ip.net = lans[l].subnet
    BY DEF NewAddress
  <2>5. l \notin EdgeLans(d)'
    BY <1>2, <2>2, MembersByEdge DEF EdgeLans
  <2> QED
    BY <1>2, <2>1, <2>2, <2>3, <2>4, <2>5 DEF JobDue, On, AtWork
<1> HIDE DEF guard, j
<1> QED
  BY <1>1, <1>2, ReadClaim

LEMMA DetachDeckyWires ==
    ASSUME HomeInv, Smooth, NEW d \in Deckies, NEW l \in LanNames, apply_detach_decky(d, l)
    PROVE  Follows'
<1> DEFINE guard == /\ HasRow(d) /\ lans[l] # NoLan /\ Home(Configs[d]) \notin {None, l}
                    /\ d \in Members(l)
           j == [Blank EXCEPT !.op = "detach_decky", !.at = "write", !.d = d, !.lan = l,
                              !.cfg = Configs]
<1>1. Begin(guard, j) /\ UNCHANGED dbVars
  BY DEF apply_detach_decky
<1>2. ASSUME guard PROVE j.at \notin AtWork /\ JobDue'
  <2>1. j.op = "detach_decky" /\ j.at = "write" /\ j.d = d /\ j.cfg = Configs
    BY DEF Blank
  <2> HIDE DEF j
  <2>2. job' = j /\ job.at \notin AtWork /\ rows' = rows
    BY <1>1, <1>2, ClaimIdle DEF dbVars
  <2>3. Configs[d] = rows[d].cfg
    BY <1>2, <2>2, ReadsRow DEF Smooth, Follows
  <2> QED
    BY <2>1, <2>2, <2>3 DEF JobDue, On, AtWork
<1> HIDE DEF guard, j
<1> QED
  BY <1>1, <1>2, ReadClaim

LEMMA RemoveDeckyWires ==
    ASSUME HomeInv, Smooth, NEW d \in Deckies, apply_remove_decky(d) PROVE Follows'
<1> DEFINE guard == HasRow(d)
           j == [Blank EXCEPT !.op = "remove_decky", !.at = "write", !.d = d,
                              !.del = IF HasRow(d) THEN rows[d].services ELSE {}]
<1>1. Begin(guard, j) /\ UNCHANGED dbVars
  BY DEF apply_remove_decky
<1>2. ASSUME guard PROVE j.at \notin AtWork /\ JobDue'
  <2>1. j.op = "remove_decky" /\ j.at = "write" /\ j.d = d /\ j.del = rows[d].services
    BY <1>2 DEF Blank
  <2> HIDE DEF j
  <2>2. job' = j /\ rows' = rows /\ HasRow(d)
    BY <1>1, <1>2, ClaimIdle DEF dbVars
  <2> QED
    BY <2>1, <2>2 DEF JobDue, On, HasRow, AtWork
<1> HIDE DEF guard, j
<1> QED
  BY <1>1, <1>2, ReadClaim

LEMMA UpdateDeckyWires ==
    ASSUME HomeInv, Smooth, NEW d \in Deckies, NEW S, NEW patch, NEW ips, NEW flip, NEW force,
           apply_update_decky(d, S, patch, ips, flip, force)
    PROVE  Follows'
<1> DEFINE guard == HasRow(d) /\ (flip => (force \/ ~IsLive) /\ (Configs[d].l3 \/ HomedInDmz(d)))
           j == IF ~HasRow(d) THEN Blank
                ELSE [Blank EXCEPT !.op = "update_decky", !.at = "write", !.d = d,
                                   !.cfg = Merged(d, ips), !.patch = PatchOf(patch, ips),
                                   !.l3 = (Configs[d].l3 # flip), !.services = S,
                                   !.add = S \ rows[d].services, !.del = rows[d].services \ S]
<1>1. Begin(guard, j) /\ UNCHANGED dbVars
  BY DEF apply_update_decky, Merged, PatchOf
<1>2. ASSUME guard PROVE j.at \notin AtWork /\ JobDue'
  <2>0. /\ j.op = "update_decky" /\ j.at = "write" /\ j.d = d /\ j.cfg = Merged(d, ips)
        /\ j.patch = PatchOf(patch, ips)
    BY <1>2 DEF Blank
  <2> HIDE DEF j
  <2>4. ips = <<>>
    <3>1. j.patch = "addresses" => "patch" \in excuses'
      BY <1>1, <1>2 DEF Begin
    <3> QED
      BY <2>0, <3>1 DEF PatchOf, Smooth
  <2>1. j.op = "update_decky" /\ j.at = "write" /\ j.d = d /\ j.cfg = Configs
    BY <2>0, <2>4 DEF Merged
  <2>2. job' = j /\ job.at \notin AtWork /\ rows' = rows
    BY <1>1, <1>2, ClaimIdle DEF dbVars
  <2>3. Configs[d] = rows[d].cfg
    BY <1>2, <2>2, ReadsRow DEF Smooth, Follows
  <2> QED
    BY <2>1, <2>2, <2>3 DEF JobDue, On, AtWork
<1> HIDE DEF guard, j
<1> QED
  BY <1>1, <1>2, ReadClaim

LEMMA UpdateLanWires ==
    ASSUME Smooth, NEW l, NEW name, NEW n, apply_update_lan(l, name, n) PROVE Follows'
<1> DEFINE guard == lans[l] # NoLan /\ IF name = l THEN ~IsLive ELSE lans[name] = NoLan
           j == [Blank EXCEPT !.op = "update_lan", !.at = "validate"]
<1>1. Begin(guard, j)
  BY DEF apply_update_lan
<1>2. ~guard
  <2>1. j.op = "update_lan"
    BY DEF Blank
  <2> HIDE DEF j, guard
  <2>2. guard => "rename" \in excuses'
    BY <1>1, <2>1 DEF Begin
  <2> QED
    BY <2>2 DEF Smooth
<1>3. UNCHANGED dbVars
  BY <1>2 DEF apply_update_lan, dbVars
<1> HIDE DEF guard, j
<1> QED
  BY <1>1, <1>2, <1>3, ReadClaim

LEMMA AddLanWires ==
    ASSUME HomeInv, Smooth, NEW l \in LanNames, NEW n \in Subnets, apply_add_lan(l, n)
    PROVE  Follows'
<1> DEFINE guard == lans[l] = NoLan
           j == [Blank EXCEPT !.op = "add_lan", !.at = "check", !.lan = l]
<1>1. Begin(guard, j)
  BY DEF apply_add_lan
<1>2. CASE ~guard
  <2>1. UNCHANGED dbVars
    BY <1>2 DEF apply_add_lan, dbVars
  <2> HIDE DEF guard, j
  <2> QED
    BY <1>1, <1>2, <2>1, ReadClaim
<1>3. CASE guard
  <2>1. j.op = "add_lan" /\ j.at = "check" /\ j.lan = l /\ j.d = 0
    BY DEF Blank
  <2> HIDE DEF j
  <2>2. job' = j /\ job.at \notin AtWork
    BY <1>1, <1>3, ClaimIdle
  <2>3. lans' = [lans EXCEPT ![l] = [subnet |-> n, dmz |-> FALSE]] /\ rows' = rows /\ edges' = edges
    BY <1>3 DEF apply_add_lan
  <2>4. lans'[l] # NoLan /\ \A m \in LanNames \ {l} : lans'[m] = lans[m]
    <3>1. lans \in [LanNames -> [subnet : Nat, dmz : BOOLEAN]] /\ n # 0
      BY MutationOpsAssumption DEF HomeInv, Shapes
    <3> QED
      BY <2>3, <3>1 DEF NoLan, NoNet
  <2>5. api' = NoApi /\ api = NoApi /\ UNCHANGED <<bridges, base, file>>
    BY <1>1, BeginClaims DEF Claimed, Smooth, dockerVars
  <2>6. Caught /\ Tidy /\ (Strays = {} => Docked)
    BY <2>2, CaughtNow DEF Smooth, Follows
  <2>7. \A d : /\ EdgesDue(d)' = EdgeLans(d)' /\ NetsDue(d)' = base'[d].nets
               /\ ~Removing(d)' /\ ~Unrendered(d)'
    BY <2>1, <2>2, <2>5 DEF EdgesDue, Linking, Unlinking, NetsDue, Joining, Leaving, Removing,
         Unrendered, On
  <2>8. \A m : m # l => ~LanInWork(m)'
    BY <2>1, <2>2 DEF LanInWork
  <2>9. LanInWork(l)'
    BY <2>1, <2>2 DEF LanInWork
  <2>10. \A e \in edges : e.lan \in LanNames \ {l} /\ lans[e.lan] # NoLan
    BY <1>3, <2>6 DEF Tidy, LansKnown, HomeInv, Shapes
  <2>11. RowsEdged' /\ RowsOnce'
    <3>1. \A d : EdgeLans(d)' = EdgeLans(d) /\ KeysOf(d)' = KeysOf(d)
      BY <2>3 DEF EdgeLans, KeysOf, HasRow
    <3>2. RowsEdged'
      BY <2>6, <2>7, <3>1 DEF RowsEdged, Tidy, Caught
    <3>3. RowsOnce'
      BY <2>3, <2>6 DEF RowsOnce, Tidy, HasRow, OneEach
    <3> QED
      BY <3>2, <3>3
  <2>12. LansKnown'
    BY <2>3, <2>4, <2>10 DEF LansKnown
  <2>13. Bridged'
    BY <2>4, <2>5, <2>6, <2>8, <2>9 DEF Bridged, Tidy, Caught
  <2>14. FileServes'
    BY <2>3, <2>5, <2>6, <2>7 DEF FileServes, Tidy, Caught, HasRow
  <2>15. JobDue'
    <3>1. Members(l)' = {}
      BY <2>3, <2>10 DEF Members
    <3> QED
      BY <2>1, <2>2, <2>4, <3>1 DEF JobDue, On
  <2>16. ApiDue'
    BY <2>5 DEF ApiDue
  <2>17. Strays' = Strays
    BY <2>3, <2>5 DEF Strays, HasRow
  <2>18. Docked => Docked'
    BY <2>3, <2>5, <2>6, <2>7 DEF Docked, Caught, HasRow
  <2> QED
    BY <2>6, <2>11, <2>12, <2>13, <2>14, <2>15, <2>16, <2>17, <2>18 DEF Follows, Tidy
<1> QED
  BY <1>2, <1>3

LEMMA MutationWires == ASSUME HomeInv, Smooth, Mutation PROVE Follows'
BY AddLanWires, RemoveLanWires, UpdateLanWires, RemoveDeckyWires, UpdateDeckyWires, DetachDeckyWires,
   AttachDeckyWires, AddDeckyWires DEF Mutation

\* An op at work is alone.
LEMMA OpAlone ==
    ASSUME Smooth, job.at # None, api' = api PROVE api = NoApi /\ ApiDue'
<1>1. job # Blank
  BY DEF Blank
<1>2. api = NoApi
  BY <1>1 DEF Smooth, OneAtATime, Working
<1> QED
  BY <1>2 DEF ApiDue

SameJob ==
    /\ job'.op = job.op /\ job'.d = job.d /\ job'.lan = job.lan /\ job'.ip = job.ip
    /\ job'.l3 = job.l3 /\ job'.cfg = job.cfg /\ job'.services = job.services
    /\ job'.add = job.add /\ job'.del = job.del /\ job'.visitors = job.visitors

LEMMA GotoKeeps == ASSUME HomeInv, NEW at, Goto(at) PROVE job'.at = at /\ SameJob
<1>1. job' = [f \in JobFields |-> IF f = "at" THEN at ELSE job[f]]
  BY DEF Goto, HomeInv, Shapes, IsJob
<1> QED
  BY <1>1 DEF SameJob, JobFields

LEMMA OneRow ==
    ASSUME HomeInv, NEW d \in Deckies, NEW r, rows' = [rows EXCEPT ![d] = r]
    PROVE  rows'[d] = r /\ \A e \in Deckies \ {d} : rows'[e] = rows[e]
BY DEF HomeInv, Shapes

\* The row of the op's subject as it is, and as it is written.
Rewritten(d) ==
    /\ rows'[d] # NoRow /\ OneEach(rows'[d].cfg.ips) /\ Keys(rows'[d].cfg.ips) = EdgesDue(d)'
    /\ IF HasRow(d) THEN rows'[d].state = rows[d].state ELSE rows'[d].state # "running"
    /\ Unrendered(d)' \/ (HasRow(d) /\ rows'[d].services = rows[d].services)
    /\ HasRow(d) /\ ToSet(rows[d].cfg.ips) = base[d].nets => ToSet(rows'[d].cfg.ips) = NetsDue(d)'

\* The first write of an op: its subject's row is ahead of edges and Docker.
LEMMA WriteWires ==
    ASSUME HomeInv, Smooth, job.at = "write", UNCHANGED edges, RowStep,
           NEW d \in Deckies, job'.d = d, \A e \in Deckies \ {d} : rows'[e] = rows[e],
           Rewritten(d), ~Removing(d)', JobDue'
    PROVE  Follows'
<1>1. Caught /\ Tidy /\ (Strays = {} => Docked)
  BY CaughtNow DEF Smooth, Follows, AtWork
<1>2. UNCHANGED <<lans, edges, bridges, base, file, api>>
  BY DEF RowStep, dockerVars
<1>3. api = NoApi /\ ApiDue'
  BY <1>2, OpAlone DEF None
<1>4. \A l : ~LanInWork(l)'
  BY MutationOpsAssumption DEF LanInWork
<1>5. \A e \in Deckies \ {d} :
          /\ EdgesDue(e)' = EdgeLans(e) /\ KeysOf(e)' = KeysOf(e)
          /\ NetsDue(e)' = base[e].nets /\ ~Removing(e)'
  <2>1. \A e : EdgeLans(e)' = EdgeLans(e)
    BY <1>2 DEF EdgeLans
  <2>2. \A e \in Deckies \ {d} : KeysOf(e)' = KeysOf(e)
    BY DEF KeysOf, HasRow
  <2> QED
    BY <1>2, <2>1, <2>2 DEF EdgesDue, Linking, Unlinking, NetsDue, Joining, Leaving, Removing
<1>6. RowsEdged'
  <2>1. KeysOf(d)' = EdgesDue(d)'
    BY DEF Rewritten, KeysOf, HasRow
  <2>2. \A e \in Deckies : KeysOf(e) = EdgeLans(e)
    BY <1>1 DEF Tidy, RowsEdged, Caught
  <2> QED
    BY <1>5, <2>1, <2>2 DEF RowsEdged
<1>7. RowsOnce'
  BY <1>1 DEF RowsOnce, Tidy, Rewritten, HasRow, OneEach
<1>8. LansKnown' /\ Bridged'
  BY <1>1, <1>2, <1>4 DEF LansKnown, Bridged, Tidy, Caught
<1>9. FileServes'
  <2>1. \A e \in Deckies : HasRow(e) => e \in DOMAIN file /\ file[e].services = rows[e].services
    BY <1>1, <1>3 DEF Tidy, FileServes, Caught
  <2> QED
    BY <1>2, <2>1 DEF FileServes, Rewritten, HasRow
<1>10. Strays' = Strays
  BY <1>2 DEF Strays, Rewritten, HasRow
<1>11. Docked => Docked'
  BY <1>1, <1>2, <1>5 DEF Docked, Caught, Rewritten, HasRow
<1> QED
  BY <1>1, <1>3, <1>6, <1>7, <1>8, <1>9, <1>10, <1>11 DEF Follows, Tidy

\* An op at its first write finds every row in step with its edges.
LEMMA WriteSees ==
    ASSUME HomeInv, Smooth, job.at = "write", NEW d \in Deckies
    PROVE  /\ KeysOf(d) = EdgeLans(d)
           /\ HasRow(d) => /\ IsRow(rows[d]) /\ OneEach(rows[d].cfg.ips)
                           /\ rows[d].cfg.ips \in Seq(ToSet(rows[d].cfg.ips))
                           /\ Keys(rows[d].cfg.ips) = EdgeLans(d)
<1>1. Caught /\ Tidy
  BY CaughtNow DEF Smooth, Follows, AtWork
<1>2. KeysOf(d) = EdgeLans(d)
  BY <1>1 DEF Caught, Tidy, RowsEdged
<1> QED
  BY <1>1, <1>2 DEF Tidy, RowsOnce, KeysOf, HomeInv, RowsHomed, IsRow, Homed

\* A write of decky_config leaves the other columns.
LEMMA ConfigWritten ==
    ASSUME HomeInv, NEW d \in Deckies, HasRow(d), NEW c, rows' = [rows EXCEPT ![d].cfg = c]
    PROVE  /\ rows'[d] # NoRow /\ rows'[d].cfg = c /\ rows'[d].services = rows[d].services
           /\ rows'[d].state = rows[d].state
           /\ \A e \in Deckies \ {d} : rows'[e] = rows[e]
<1> DEFINE r == [rows[d] EXCEPT !.cfg = c]
<1>1. IsRow(rows[d])
  BY DEF HomeInv, RowsHomed
<1>2. r = [uuid |-> rows[d].uuid, cfg |-> c, services |-> rows[d].services, state |-> rows[d].state]
  BY <1>1 DEF IsRow
<1>3. rows' = [rows EXCEPT ![d] = r]
  OBVIOUS
<1> HIDE DEF r
<1>4. rows'[d] = r /\ \A e \in Deckies \ {d} : rows'[e] = rows[e]
  BY <1>3, OneRow
<1>5. r # NoRow
  BY <1>2 DEF NoRow
<1> QED
  BY <1>2, <1>4, <1>5

LEMMA AddWires == ASSUME HomeInv, Smooth, WriteAdd PROVE Follows'
<1>0. PICK d : d = job.d
  OBVIOUS
<1> DEFINE r == [uuid |-> left.ops + 2, cfg |-> [ips |-> <<job.ip>>, l3 |-> job.l3],
                  services |-> job.add, state |-> "pending"]
<1>1. /\ job.op = "add_decky" /\ job.at = "write" /\ rows' = [rows EXCEPT ![d] = r]
      /\ Goto("edge") /\ UNCHANGED edges /\ RowStep
  BY <1>0 DEF WriteAdd, On
<1>2. d \in Deckies /\ job.ip.lan = job.lan /\ lans[job.lan] # NoLan
  BY <1>0, <1>1 DEF HomeInv, JobHomes, On
<1>3. ~HasRow(d)
  BY <1>0, <1>1 DEF Smooth, Follows, Tidy, JobDue, On
<1>4. job'.at = "edge" /\ SameJob
  BY <1>0, <1>1, GotoKeeps
<1>5. r.cfg.ips = <<job.ip>> /\ r.state = "pending" /\ r # NoRow
  BY DEF NoRow
<1> HIDE DEF r
<1>6. rows'[d] = r /\ \A e \in Deckies \ {d} : rows'[e] = rows[e]
  BY <1>0, <1>1, <1>2, OneRow
<1>7. Rewritten(d)
  <2>1. Keys(<<job.ip>>) = {job.lan} /\ OneEach(<<job.ip>>)
    BY <1>2 DEF Keys, OneEach
  <2>2. EdgeLans(d) = {}
    BY <1>0, <1>1, <1>2, <1>3, WriteSees DEF KeysOf
  <2>3. EdgesDue(d)' = {job.lan}
    <3>1. EdgeLans(d)' = EdgeLans(d)
      BY <1>0, <1>1 DEF EdgeLans
    <3>2. Linking(d)'
      BY <1>0, <1>1, <1>4 DEF Linking, On, SameJob
    <3> QED
      BY <1>4, <2>2, <3>1, <3>2 DEF EdgesDue, SameJob
  <2>4. Unrendered(d)'
    BY <1>0, <1>1, <1>4 DEF Unrendered, SameJob
  <2> QED
    BY <1>3, <1>5, <1>6, <2>1, <2>3, <2>4 DEF Rewritten
<1>8. JobDue'
  <2>1. lans' = lans
    BY <1>0, <1>1 DEF RowStep
  <2> QED
    BY <1>0, <1>1, <1>2, <1>4, <2>1 DEF JobDue, On, SameJob
<1>9. job'.d = d /\ ~Removing(d)'
  BY <1>0, <1>1, <1>4 DEF Removing, SameJob
<1> QED
  BY <1>0, <1>1, <1>2, <1>6, <1>7, <1>8, <1>9, WriteWires

LEMMA AttachWires == ASSUME HomeInv, Smooth, WriteAttach PROVE Follows'
<1>0. PICK d : d = job.d
  OBVIOUS
<1> DEFINE ips == rows[d].cfg.ips
           c == [ips |-> Put(job.cfg[d].ips, job.ip), l3 |-> job.cfg[d].l3 \/ job.l3]
<1>1. /\ job.op = "attach_decky" /\ job.at = "write" /\ rows' = [rows EXCEPT ![d].cfg = c]
      /\ Goto("edge") /\ UNCHANGED edges /\ RowStep
  BY <1>0 DEF WriteAttach, On
<1>2. d \in Deckies /\ HasRow(d)
  BY <1>0, <1>1 DEF HomeInv, JobHomes
<1>3. /\ job.cfg[d] = rows[d].cfg /\ job.lan \notin EdgeLans(d) /\ lans[job.lan] # NoLan
      /\ job.ip.lan = job.lan /\ job.ip.ip.net = lans[job.lan].subnet
  BY <1>0, <1>1 DEF Smooth, Follows, Tidy, JobDue, On
<1>4. job'.at = "edge" /\ SameJob
  BY <1>0, <1>1, GotoKeeps
<1>5. c.ips = Put(ips, job.ip)
  BY <1>3
<1> HIDE DEF c
<1>6. /\ rows'[d] # NoRow /\ rows'[d].cfg = c /\ rows'[d].services = rows[d].services
      /\ rows'[d].state = rows[d].state /\ \A e \in Deckies \ {d} : rows'[e] = rows[e]
  BY <1>0, <1>1, <1>2, ConfigWritten
<1>7. OneEach(ips) /\ ips \in Seq(ToSet(ips)) /\ Keys(ips) = EdgeLans(d)
  BY <1>0, <1>1, <1>2, WriteSees
<1> HIDE DEF ips
<1>8. Rewritten(d)
  <2>1. /\ ToSet(Put(ips, job.ip)) = ToSet(ips) \cup {job.ip} /\ OneEach(Put(ips, job.ip))
        /\ Keys(Put(ips, job.ip)) = EdgeLans(d) \cup {job.lan}
    BY <1>3, <1>7, PutAdds
  <2>2. EdgesDue(d)' = EdgeLans(d) \cup {job.lan}
    <3>1. EdgeLans(d)' = EdgeLans(d)
      BY <1>0, <1>1 DEF EdgeLans
    <3>2. Linking(d)'
      BY <1>0, <1>1, <1>4 DEF Linking, On, SameJob
    <3> QED
      BY <1>4, <3>1, <3>2 DEF EdgesDue, SameJob
  <2>3. NetsDue(d)' = base[d].nets \cup {job.ip}
    <3>1. Joining(d)' /\ base' = base
      BY <1>0, <1>1, <1>4 DEF Joining, SameJob, RowStep, dockerVars
    <3> QED
      BY <1>4, <3>1 DEF NetsDue, SameJob
  <2> QED
    BY <1>2, <1>5, <1>6, <2>1, <2>2, <2>3 DEF Rewritten, ips
<1>9. JobDue'
  <2>1. lans' = lans
    BY <1>0, <1>1 DEF RowStep
  <2> QED
    BY <1>0, <1>1, <1>3, <1>4, <2>1 DEF JobDue, On, SameJob
<1>10. job'.d = d /\ ~Removing(d)'
  BY <1>0, <1>1, <1>4 DEF Removing, SameJob
<1> QED
  BY <1>0, <1>1, <1>2, <1>6, <1>8, <1>9, <1>10, WriteWires

\* A detach, of one decky or of a visitor of a LAN that goes.
LEMMA PopWires ==
    ASSUME HomeInv, Smooth, job.at = "write", UNCHANGED edges, RowStep,
           NEW d \in Deckies, HasRow(d), job.cfg[d] = rows[d].cfg,
           rows' = [rows EXCEPT ![d].cfg = [job.cfg[d] EXCEPT !.ips = Pop(@, job.lan)]],
           job'.d = d, job'.lan = job.lan, Unlinking(d)', Leaving(d)', ~Removing(d)', JobDue'
    PROVE  Follows'
<1> DEFINE ips == rows[d].cfg.ips
           c == [job.cfg[d] EXCEPT !.ips = Pop(@, job.lan)]
<1>1. /\ rows'[d] # NoRow /\ rows'[d].cfg = c /\ rows'[d].services = rows[d].services
      /\ rows'[d].state = rows[d].state /\ \A e \in Deckies \ {d} : rows'[e] = rows[e]
  BY ConfigWritten
<1>2. OneEach(ips) /\ ips \in Seq(ToSet(ips)) /\ Keys(ips) = EdgeLans(d) /\ IsRow(rows[d])
  BY WriteSees
<1>3. c.ips = Pop(ips, job.lan)
  BY <1>2 DEF IsRow, Homed
<1> HIDE DEF ips, c
<1>4. /\ ToSet(Pop(ips, job.lan)) = {a \in ToSet(ips) : a.lan # job.lan}
      /\ OneEach(Pop(ips, job.lan)) /\ Keys(Pop(ips, job.lan)) = EdgeLans(d) \ {job.lan}
  BY <1>2, PopTakes
<1>5. EdgesDue(d)' = EdgeLans(d) \ {job.lan}
  <2>1. EdgeLans(d)' = EdgeLans(d)
    BY DEF EdgeLans
  <2>2. ~Linking(d)'
    BY DEF Linking, Unlinking, On
  <2> QED
    BY <2>1, <2>2 DEF EdgesDue
<1>6. NetsDue(d)' = {a \in base[d].nets : a.lan # job.lan}
  <2>1. base' = base /\ ~Joining(d)'
    BY DEF Joining, Leaving, RowStep, dockerVars
  <2> QED
    BY <2>1 DEF NetsDue
<1>7. Rewritten(d)
  BY <1>1, <1>3, <1>4, <1>5, <1>6 DEF Rewritten, ips
<1> QED
  BY <1>1, <1>7, WriteWires

LEMMA DetachWires == ASSUME HomeInv, Smooth, WriteDetach PROVE Follows'
<1>1. /\ job.op = "detach_decky" /\ job.at = "write" /\ Goto("unedge") /\ UNCHANGED edges /\ RowStep
      /\ rows' = [rows EXCEPT ![job.d].cfg = [job.cfg[job.d] EXCEPT !.ips = Pop(@, job.lan)]]
  BY DEF WriteDetach, On
<1>2. job.d \in Deckies /\ HasRow(job.d)
  BY <1>1 DEF HomeInv, JobHomes
<1>3. job.cfg[job.d] = rows[job.d].cfg
  BY <1>1 DEF Smooth, Follows, Tidy, JobDue
<1>4. job'.at = "unedge" /\ SameJob
  BY <1>1, GotoKeeps
<1>5. Unlinking(job.d)' /\ Leaving(job.d)' /\ ~Removing(job.d)'
  BY <1>1, <1>4 DEF Unlinking, Leaving, Removing, On, SameJob
<1>6. JobDue'
  BY <1>1, <1>4 DEF JobDue, On, SameJob
<1> QED
  BY <1>1, <1>2, <1>3, <1>4, <1>5, <1>6, PopWires DEF SameJob

LEMMA VisitorWires == ASSUME HomeInv, Smooth, WriteVisitor PROVE Follows'
<1>1. job.op = "remove_lan" /\ job.at = "write" /\ UNCHANGED edges /\ RowStep
  BY DEF WriteVisitor, On
<1>2. PICK d \in job.visitors :
          /\ rows' = [rows EXCEPT ![d].cfg = [job.cfg[d] EXCEPT !.ips = Pop(@, job.lan)]]
          /\ job' = [job EXCEPT !.d = d, !.at = "check"]
  BY DEF WriteVisitor
<1>3. d \in Deckies /\ HasRow(d)
  BY <1>1 DEF HomeInv, JobHomes, Shapes, IsJob
<1>4. /\ job.d = 0 /\ job.visitors = Members(job.lan)
      /\ \A e \in job.visitors \ {job.d} : job.cfg[e] = rows[e].cfg
  BY <1>1 DEF Smooth, Follows, Tidy, JobDue, ToWrite
<1>5. d # 0
  BY <1>3, MutationOpsAssumption
<1>6. job.cfg[d] = rows[d].cfg
  BY <1>4, <1>5
<1>7. /\ job'.op = job.op /\ job'.at = "check" /\ job'.d = d /\ job'.lan = job.lan
      /\ job'.cfg = job.cfg /\ job'.visitors = job.visitors
  BY <1>2 DEF HomeInv, Shapes, IsJob, JobFields
<1>8. Unlinking(d)' /\ Leaving(d)' /\ ~Removing(d)'
  BY <1>1, <1>7 DEF Unlinking, Leaving, Removing, On
<1>9. JobDue'
  <2>1. \A e \in Deckies \ {d} : rows'[e] = rows[e]
    BY <1>2, <1>3, ConfigWritten
  <2> PICK l : l = job.lan
    OBVIOUS
  <2>2. Members(l)' = Members(l)
    BY <1>1 DEF Members
  <2>3. \A e \in job.visitors : e \in Deckies /\ e # 0
    BY MutationOpsAssumption DEF HomeInv, Shapes, IsJob
  <2>4. \A e \in job'.visitors \ {d} : job'.cfg[e] = rows'[e].cfg
    BY <1>4, <1>7, <2>1, <2>3
  <2> QED
    BY <1>1, <1>4, <1>5, <1>7, <2>2, <2>4 DEF JobDue, On, ToWrite, LanInWork
<1> QED
  BY <1>1, <1>2, <1>3, <1>6, <1>7, <1>8, <1>9, PopWires

LEMMA UpdateWires == ASSUME HomeInv, Smooth, WriteUpdate PROVE Follows'
<1> DEFINE changes == job.add \cup job.del # {}
           r == UpdatedRow
<1>0. PICK d : d = job.d
  OBVIOUS
<1>1. /\ job.op = "update_decky" /\ job.at = "write" /\ UNCHANGED edges /\ RowStep
      /\ Goto(IF changes THEN "check" ELSE "check_l3")
  BY DEF WriteUpdate, On
<1>2. d \in Deckies /\ HasRow(d)
  BY <1>0, <1>1 DEF HomeInv, JobHomes
<1>3. job.cfg[d] = rows[d].cfg
  BY <1>0, <1>1 DEF Smooth, Follows, Tidy, JobDue
<1>4. job'.at = (IF changes THEN "check" ELSE "check_l3") /\ SameJob
  BY <1>1, GotoKeeps
<1>5. /\ OneEach(rows[d].cfg.ips) /\ Keys(rows[d].cfg.ips) = EdgeLans(d) /\ IsRow(rows[d])
  BY <1>1, <1>2, WriteSees
<1>6. /\ r # NoRow /\ r.cfg.ips = rows[d].cfg.ips /\ r.state = rows[d].state
      /\ ~changes => r.services = rows[d].services
  <2>1. /\ r.cfg = IF job.patch # None THEN [job.cfg[d] EXCEPT !.l3 = job.l3] ELSE rows[d].cfg
        /\ r.services = IF changes THEN job.services ELSE rows[d].services
        /\ r.state = rows[d].state
    BY <1>0 DEF UpdatedRow
  <2>2. r # NoRow
    BY DEF UpdatedRow, NoRow
  <2>3. [job.cfg[d] EXCEPT !.l3 = job.l3].ips = rows[d].cfg.ips
    BY <1>3, <1>5 DEF IsRow, Homed
  <2> HIDE DEF r, changes
  <2> QED
    BY <2>1, <2>2, <2>3
<1>7. rows'[d] = r /\ \A e \in Deckies \ {d} : rows'[e] = rows[e]
  BY <1>0, <1>2, UpdateRow, OneRow
<1> HIDE DEF changes, r
<1>8. /\ EdgesDue(d)' = EdgeLans(d) /\ NetsDue(d)' = base[d].nets /\ ~Removing(d)'
      /\ changes => Unrendered(d)'
  <2>1. EdgeLans(d)' = EdgeLans(d) /\ base' = base
    BY <1>1 DEF EdgeLans, RowStep, dockerVars
  <2>2. /\ ~Linking(d)' /\ ~Unlinking(d)' /\ ~Joining(d)' /\ ~Leaving(d)' /\ ~Removing(d)'
    BY <1>1, <1>4 DEF Linking, Unlinking, Joining, Leaving, Removing, On, SameJob
  <2>3. changes => Unrendered(d)'
    BY <1>0, <1>1, <1>4 DEF Unrendered, SameJob
  <2> QED
    BY <2>1, <2>2, <2>3 DEF EdgesDue, NetsDue
<1>9. Rewritten(d)
  BY <1>2, <1>5, <1>6, <1>7, <1>8 DEF Rewritten
<1>10. JobDue' /\ job'.d = d
  BY <1>0, <1>1, <1>4 DEF JobDue, On, SameJob
<1> QED
  BY <1>1, <1>2, <1>7, <1>8, <1>9, <1>10, WriteWires

LEMMA RemoveWires == ASSUME HomeInv, Smooth, WriteRemove PROVE Follows'
<1>0. PICK d : d = job.d
  OBVIOUS
<1>1. /\ job.op = "remove_decky" /\ job.at = "write" /\ rows' = [rows EXCEPT ![d] = NoRow]
      /\ edges' = {e \in edges : e.d # d} /\ Goto("check") /\ RowStep
  BY <1>0 DEF WriteRemove, On
<1>2. Caught /\ Tidy /\ (Strays = {} => Docked)
  BY <1>1, CaughtNow DEF Smooth, Follows, AtWork
<1>3. d \in Deckies /\ HasRow(d) /\ job.del = rows[d].services
  BY <1>0, <1>1, <1>2 DEF Tidy, JobDue, On
<1>4. job'.at = "check" /\ SameJob
  BY <1>1, GotoKeeps
<1>5. rows'[d] = NoRow /\ \A e \in Deckies \ {d} : rows'[e] = rows[e]
  BY <1>1, <1>3, OneRow
<1>6. UNCHANGED <<lans, bridges, base, file, api>>
  BY <1>1 DEF RowStep, dockerVars
<1>7. api = NoApi /\ ApiDue'
  BY <1>1, <1>6, OpAlone DEF None
<1>8. /\ \A e : EdgesDue(e)' = EdgeLans(e)' /\ NetsDue(e)' = base[e].nets
      /\ \A l : ~LanInWork(l)'
      /\ Removing(d)' /\ \A e : e # d => ~Removing(e)'
  BY <1>0, <1>1, <1>4, <1>6 DEF EdgesDue, Linking, Unlinking, NetsDue, Joining, Leaving, Removing,
       LanInWork, On, SameJob
<1>9. RowsEdged'
  <2>1. EdgeLans(d)' = {} /\ \A e : e # d => EdgeLans(e)' = EdgeLans(e)
    BY <1>1 DEF EdgeLans
  <2>2. KeysOf(d)' = {} /\ \A e \in Deckies \ {d} : KeysOf(e)' = KeysOf(e)
    BY <1>5 DEF KeysOf, HasRow
  <2> QED
    BY <1>2, <1>8, <2>1, <2>2 DEF Tidy, RowsEdged, Caught
<1>10. RowsOnce'
  BY <1>2, <1>5 DEF RowsOnce, Tidy, HasRow, OneEach
<1>11. LansKnown' /\ Bridged'
  BY <1>1, <1>2, <1>6 DEF LansKnown, Bridged, Tidy, Caught
<1>12. FileServes' /\ d \in DOMAIN file /\ file[d].services = rows[d].services
  BY <1>2, <1>3, <1>5, <1>6, <1>7 DEF FileServes, Tidy, Caught, HasRow
<1>13. JobDue'
  BY <1>0, <1>1, <1>3, <1>4, <1>5, <1>6, <1>12 DEF JobDue, On, HasRow, SameJob
<1>14. Strays \subseteq Strays'
  BY <1>5, <1>6 DEF Strays, HasRow
<1>15. Docked => Docked'
  BY <1>2, <1>5, <1>6, <1>8 DEF Docked, Caught, HasRow
<1> QED
  BY <1>2, <1>7, <1>9, <1>10, <1>11, <1>12, <1>13, <1>14, <1>15 DEF Follows, Tidy

\* The steps of an op that leave the rows, the LANs and Docker as they are.
LEMMA EdgeStep ==
    ASSUME HomeInv, Smooth, job.at # None, UNCHANGED rows, RowStep,
           RowsEdged', LansKnown', JobDue',
           \A d \in Deckies : NetsDue(d)' = NetsDue(d) /\ (Removing(d)' <=> Removing(d)),
           \A l \in LanNames : ~LanInWork(l)' => ~LanInWork(l),
           \A d \in Deckies : ~Unrendered(d)' => ~Unrendered(d)
    PROVE  Follows'
<1>1. Tidy /\ (Strays = {} => Docked)
  BY DEF Smooth, Follows
<1>2. UNCHANGED <<lans, rows, bridges, base, file, api>>
  BY DEF RowStep, dockerVars
<1>3. ApiDue'
  BY <1>2, OpAlone
<1>4. RowsOnce'
  BY <1>1, <1>2 DEF RowsOnce, Tidy, HasRow, OneEach
<1>5. Bridged'
  BY <1>1, <1>2 DEF Bridged, Tidy
<1>6. FileServes'
  BY <1>1, <1>2 DEF FileServes, Tidy, HasRow
<1>7. Strays' = Strays
  BY <1>2 DEF Strays, HasRow
<1>8. Docked => Docked'
  BY <1>2 DEF Docked, HasRow
<1> QED
  BY <1>1, <1>3, <1>4, <1>5, <1>6, <1>7, <1>8 DEF Follows, Tidy

LEMMA AddEdgeWires == ASSUME HomeInv, Smooth, AddEdge PROVE Follows'
<1>0. PICK d, l : d = job.d /\ l = job.lan
  OBVIOUS
<1> DEFINE new == [d |-> d, lan |-> l, bridge |-> job.op = "attach_decky"]
<1>1. /\ job.op \in {"add_decky", "attach_decky"} /\ job.at = "edge" /\ UNCHANGED rows /\ RowStep
      /\ edges' = edges \cup {new} /\ Goto("check")
  BY <1>0 DEF AddEdge, On
<1>2. new.d = d /\ new.lan = l
  OBVIOUS
<1> HIDE DEF new
<1>3. job'.at = "check" /\ SameJob
  BY <1>1, GotoKeeps
<1>4. Tidy /\ lans[l] # NoLan
  BY <1>0, <1>1 DEF Smooth, Follows, Tidy, JobDue, On
<1>5. UNCHANGED <<lans, base, api>>
  BY <1>1 DEF RowStep, dockerVars
<1>6. RowsEdged'
  <2>1. EdgeLans(d)' = EdgeLans(d) \cup {l} /\ \A e : e # d => EdgeLans(e)' = EdgeLans(e)
    BY <1>1, <1>2 DEF EdgeLans
  <2>2. EdgesDue(d) = EdgeLans(d) \cup {l} /\ \A e : e # d => EdgesDue(e) = EdgeLans(e)
    BY <1>0, <1>1 DEF EdgesDue, Linking, Unlinking, On
  <2>3. \A e : EdgesDue(e)' = EdgeLans(e)'
    BY <1>1, <1>3 DEF EdgesDue, Linking, Unlinking, On, SameJob
  <2>4. \A e : KeysOf(e)' = KeysOf(e)
    BY <1>1 DEF KeysOf, HasRow
  <2>5. \A e : EdgesDue(e)' = EdgesDue(e)
    BY <2>1, <2>2, <2>3
  <2> QED
    BY <1>4, <2>4, <2>5 DEF RowsEdged, Tidy
<1>7. LansKnown'
  BY <1>1, <1>2, <1>4, <1>5 DEF LansKnown, Tidy
<1>8. JobDue'
  BY <1>0, <1>1, <1>3, <1>4, <1>5 DEF JobDue, On, SameJob, Tidy
<1>9. \A e : NetsDue(e)' = NetsDue(e) /\ (Removing(e)' <=> Removing(e))
  <2>1. \A e : (Joining(e)' <=> Joining(e)) /\ ~Leaving(e)' /\ ~Leaving(e)
    BY <1>1, <1>3 DEF Joining, Leaving, SameJob
  <2>2. \A e : ~Removing(e)' /\ ~Removing(e)
    BY <1>1, <1>3 DEF Removing, SameJob
  <2>3. \A e : NetsDue(e)' = NetsDue(e)
    BY <1>3, <1>5, <2>1 DEF NetsDue, SameJob
  <2> QED
    BY <2>2, <2>3
<1>10. \A m : ~LanInWork(m)
  BY <1>1 DEF LanInWork
<1>11. \A e : ~Unrendered(e)' => ~Unrendered(e)
  BY <1>1, <1>3, <1>5 DEF Unrendered, SameJob
<1>12. job.at # None
  BY <1>1 DEF None
<1> QED
  BY <1>1, <1>6, <1>7, <1>8, <1>9, <1>10, <1>11, <1>12, EdgeStep

LEMMA DeleteEdgeWires == ASSUME HomeInv, Smooth, DeleteEdge PROVE Follows'
<1>0. PICK d, l : d = job.d /\ l = job.lan
  OBVIOUS
<1>1. /\ job.op \in {"detach_decky", "remove_lan"} /\ job.at = "unedge" /\ UNCHANGED rows /\ RowStep
      /\ edges' = {e \in edges : e.d # d \/ e.lan # l}
  BY <1>0 DEF DeleteEdge, On
<1>2. Tidy
  BY DEF Smooth, Follows
<1>3. UNCHANGED <<lans, rows, base, api>> /\ job.at # None
  BY <1>1 DEF RowStep, dockerVars, None
<1>4. EdgeLans(d)' = EdgeLans(d) \ {l} /\ \A e : e # d => EdgeLans(e)' = EdgeLans(e)
  BY <1>1 DEF EdgeLans
<1>5. EdgesDue(d) = EdgeLans(d) \ {l} /\ \A e : e # d => EdgesDue(e) = EdgeLans(e)
  BY <1>0, <1>1 DEF EdgesDue, Linking, Unlinking, On
<1>6. ASSUME \A e \in Deckies : EdgesDue(e)' = EdgeLans(e)' PROVE RowsEdged'
  <2>1. \A e : KeysOf(e)' = KeysOf(e)
    BY <1>1 DEF KeysOf, HasRow
  <2> QED
    BY <1>2, <1>4, <1>5, <1>6, <2>1 DEF RowsEdged, Tidy
<1>7. LansKnown'
  BY <1>1, <1>2, <1>3 DEF LansKnown, Tidy
<1>8. \A e : ~LanInWork(e) /\ ~Removing(e) /\ ~Unrendered(e)
  <2>1. api = NoApi
    BY <1>3, OpAlone
  <2> QED
    BY <1>1, <2>1 DEF LanInWork, Removing, Unrendered
<1>9. CASE job.op = "detach_decky"
  <2>1. job'.at = "check" /\ SameJob
    BY <1>1, <1>9, GotoKeeps DEF DeleteEdge
  <2>2. RowsEdged'
    BY <1>6, <1>9, <2>1 DEF EdgesDue, Linking, Unlinking, On, SameJob
  <2>3. JobDue'
    BY <1>9, <2>1 DEF JobDue, On, SameJob
  <2>4. \A e : NetsDue(e)' = NetsDue(e) /\ (Removing(e)' <=> Removing(e))
    <3>1. \A e : (Leaving(e)' <=> Leaving(e)) /\ ~Joining(e)' /\ ~Joining(e) /\ ~Removing(e)'
      BY <1>1, <1>9, <2>1 DEF Joining, Leaving, Removing, SameJob
    <3>2. \A e : NetsDue(e)' = NetsDue(e)
      BY <1>3, <2>1, <3>1 DEF NetsDue, SameJob
    <3> QED
      BY <1>8, <3>1, <3>2
  <2> QED
    BY <1>1, <1>3, <1>7, <1>8, <2>2, <2>3, <2>4, EdgeStep
<1>10. CASE job.op = "remove_lan"
  <2> DEFINE others == job.visitors \ {d}
  <2>1. job' = [job EXCEPT !.visitors = others, !.d = 0, !.at = IF others = {} THEN "drop" ELSE "write"]
    BY <1>0, <1>10 DEF DeleteEdge
  <2>2. /\ job'.visitors = others /\ job'.d = 0 /\ job'.cfg = job.cfg
        /\ job'.op = "remove_lan" /\ job'.lan = l /\ job'.at = IF others = {} THEN "drop" ELSE "write"
    BY <1>0, <1>10, <2>1 DEF HomeInv, Shapes, IsJob, JobFields
  <2>3. job'.at \notin AtWork /\ job'.at \in {"drop", "write"} /\ (job'.at = "drop" => others = {})
    BY <2>2 DEF AtWork
  <2>4. /\ job.visitors = Members(l) /\ \A e \in job.visitors \ {d} : job.cfg[e] = rows[e].cfg
    BY <1>0, <1>1, <1>2, <1>10 DEF Tidy, JobDue, ToWrite
  <2>5. Members(l)' = others
    BY <1>1, <2>4 DEF Members
  <2> HIDE DEF others
  <2>6. Caught'
    BY <2>3, CaughtThen
  <2>7. RowsEdged'
    BY <1>6, <2>6 DEF Caught
  <2>8. JobDue'
    <3>1. \A e \in job'.visitors : job'.cfg[e] = rows'[e].cfg
      BY <1>3, <2>2, <2>4 DEF others
    <3> QED
      BY <2>2, <2>3, <2>5, <3>1 DEF JobDue, On, ToWrite, LanInWork
  <2>9. \A e : NetsDue(e)' = NetsDue(e) /\ (Removing(e)' <=> Removing(e))
    <3>1. \A e : NetsDue(e) = base[e].nets
      BY <1>1, <1>10 DEF NetsDue, Joining, Leaving
    <3> QED
      BY <1>3, <1>8, <2>6, <3>1 DEF Caught
  <2> QED
    BY <1>1, <1>3, <1>7, <1>8, <2>7, <2>8, <2>9, EdgeStep
<1> QED
  BY <1>1, <1>9, <1>10

LEMMA DropWires == ASSUME HomeInv, Smooth, DropLan PROVE Follows'
<1>0. PICK l : l = job.lan
  OBVIOUS
<1>1. /\ job.op = "remove_lan" /\ job.at = "drop" /\ lans' = [lans EXCEPT ![l] = NoLan]
      /\ Goto("check") /\ UNCHANGED <<rows, edges, bridges, base, file, api>>
  BY <1>0 DEF DropLan, On, dockerVars
<1>2. Caught /\ Tidy /\ (Strays = {} => Docked)
  BY <1>1, CaughtNow DEF Smooth, Follows, AtWork
<1>3. job.d = 0 /\ Members(l) = {}
  BY <1>0, <1>1, <1>2 DEF Tidy, JobDue, ToWrite
<1>4. job'.at = "check" /\ SameJob
  BY <1>1, GotoKeeps
<1>5. api = NoApi /\ ApiDue'
  BY <1>1, OpAlone DEF None
<1>6. l \in LanNames /\ lans'[l] = NoLan /\ \A m \in LanNames \ {l} : lans'[m] = lans[m]
  BY <1>0, <1>1 DEF HomeInv, JobHomes, Shapes
<1>7. \A e \in edges : e.lan \in LanNames \ {l}
  BY <1>3 DEF Members, HomeInv, Shapes
<1>8. /\ \A e \in Deckies : /\ EdgesDue(e)' = EdgeLans(e) /\ NetsDue(e)' = base[e].nets
                            /\ ~Removing(e)' /\ ~Unrendered(e)'
      /\ \A m : m # l => ~LanInWork(m)'
      /\ LanInWork(l)'
  <2>1. \A e \in Deckies : e # job'.d
    BY <1>3, <1>4, MutationOpsAssumption DEF SameJob
  <2>2. \A e : EdgeLans(e)' = EdgeLans(e)
    BY <1>1 DEF EdgeLans
  <2>3. \A e \in Deckies : ~Linking(e)' /\ ~Unlinking(e)' /\ ~Joining(e)' /\ ~Leaving(e)'
                           /\ ~Removing(e)' /\ ~Unrendered(e)'
    BY <1>1, <1>5, <2>1 DEF Linking, Unlinking, Joining, Leaving, Removing, Unrendered
  <2>4. LanInWork(l)' /\ \A m : m # l => ~LanInWork(m)'
    BY <1>0, <1>1, <1>3, <1>4 DEF LanInWork, SameJob
  <2> QED
    BY <1>1, <2>2, <2>3, <2>4 DEF EdgesDue, NetsDue
<1>9. RowsEdged' /\ RowsOnce'
  <2>1. \A e : KeysOf(e)' = KeysOf(e)
    BY <1>1 DEF KeysOf, HasRow
  <2>2. RowsEdged'
    BY <1>2, <1>8, <2>1 DEF RowsEdged, Tidy, Caught
  <2>3. RowsOnce'
    BY <1>1, <1>2 DEF RowsOnce, Tidy, HasRow, OneEach
  <2> QED
    BY <2>2, <2>3
<1>10. LansKnown'
  BY <1>1, <1>2, <1>6, <1>7 DEF LansKnown, Tidy
<1>11. Bridged'
  BY <1>1, <1>2, <1>6, <1>8 DEF Bridged, Tidy, Caught
<1>12. FileServes'
  BY <1>1, <1>2, <1>5 DEF FileServes, Tidy, Caught, HasRow
<1>13. JobDue'
  <2>1. Members(l)' = {}
    BY <1>1, <1>3 DEF Members
  <2> QED
    BY <1>0, <1>1, <1>3, <1>4, <1>6, <2>1 DEF JobDue, On, SameJob, ToWrite
<1>14. Strays' = Strays
  BY <1>1 DEF Strays, HasRow
<1>15. Docked => Docked'
  BY <1>1, <1>2, <1>8 DEF Docked, Caught, HasRow
<1> QED
  BY <1>2, <1>5, <1>9, <1>10, <1>11, <1>12, <1>13, <1>14, <1>15 DEF Follows, Tidy

LEMMA RunningWires == ASSUME HomeInv, Smooth, WriteRunning PROVE Follows'
<1>0. PICK d : d = job.d
  OBVIOUS
<1> DEFINE r == [rows[d] EXCEPT !.state = "running"]
<1>1. /\ job.op = "add_decky" /\ job.at = "state" /\ rows' = [rows EXCEPT ![d] = r]
      /\ Goto("validate") /\ UNCHANGED edges /\ RowStep
  BY <1>0 DEF WriteRunning, On
<1>2. d \in Deckies /\ HasRow(d)
  BY <1>0, <1>1 DEF HomeInv, JobHomes
<1>3. r = [uuid |-> rows[d].uuid, cfg |-> rows[d].cfg, services |-> rows[d].services,
           state |-> "running"]
  <2>1. IsRow(rows[d])
    BY <1>2 DEF HomeInv, RowsHomed
  <2> QED
    BY <2>1 DEF IsRow
<1>4. r # NoRow /\ r.cfg = rows[d].cfg /\ r.services = rows[d].services /\ r.state = "running"
  BY <1>3 DEF NoRow
<1> HIDE DEF r
<1>5. rows'[d] = r /\ \A e \in Deckies \ {d} : rows'[e] = rows[e]
  BY <1>1, <1>2, OneRow
<1>6. \A e \in Deckies : /\ HasRow(e)' <=> HasRow(e)
                         /\ HasRow(e) => /\ rows'[e].cfg = rows[e].cfg
                                         /\ rows'[e].services = rows[e].services
  BY <1>2, <1>4, <1>5 DEF HasRow
<1>7. job'.at = "validate" /\ SameJob
  BY <1>1, GotoKeeps
<1>8. Caught /\ Caught' /\ Tidy /\ (Strays = {} => Docked)
  BY <1>1, <1>7, CaughtNow, CaughtThen DEF Smooth, Follows, AtWork
<1>9. base[d].project = OpsProject
  BY <1>0, <1>1, <1>8 DEF Tidy, JobDue, On
<1>10. UNCHANGED <<lans, edges, bridges, base, file, api>>
  BY <1>1 DEF RowStep, dockerVars
<1>11. api = NoApi /\ ApiDue'
  BY <1>1, <1>10, OpAlone DEF None
<1>12. RowsEdged'
  <2>1. \A e : EdgeLans(e)' = EdgeLans(e)
    BY <1>10 DEF EdgeLans
  <2>2. \A e \in Deckies : KeysOf(e)' = KeysOf(e)
    BY <1>6 DEF KeysOf
  <2> QED
    BY <1>8, <2>1, <2>2 DEF RowsEdged, Tidy, Caught
<1>13. RowsOnce'
  BY <1>6, <1>8 DEF RowsOnce, Tidy, OneEach
<1>14. LansKnown' /\ Bridged'
  BY <1>8, <1>10 DEF LansKnown, Bridged, Tidy, Caught
<1>15. FileServes'
  BY <1>6, <1>8, <1>10 DEF FileServes, Tidy, Caught
<1>16. JobDue'
  BY <1>1, <1>7 DEF JobDue, On, SameJob
<1>17. Strays \subseteq Strays'
  <2>1. d \notin Strays
    BY <1>9, NoneProject DEF Strays
  <2> QED
    BY <1>5, <1>10, <2>1 DEF Strays, HasRow
<1>18. Docked => Docked'
  <2>1. base[d].project # None
    BY <1>9, NoneProject
  <2> QED
    BY <1>5, <1>6, <1>8, <1>10, <2>1 DEF Docked, Caught
<1> QED
  BY <1>8, <1>11, <1>12, <1>13, <1>14, <1>15, <1>16, <1>17, <1>18 DEF Follows, Tidy

LEMMA CheckWires == ASSUME HomeInv, Smooth, CheckLive PROVE Follows'
<1>1. UNCHANGED <<rows, edges>> /\ RowStep /\ IsLive
  BY DEF CheckLive, Smooth, Working
<1>2. UNCHANGED <<lans, rows, edges, bridges, base, file, api>>
  BY <1>1 DEF RowStep, dockerVars
<1>3. Tidy
  BY DEF Smooth, Follows
<1>4. CASE job.at = "check" /\ Goto("docker")
  <2>1. job'.at = "docker" /\ SameJob
    BY <1>4, GotoKeeps
  <2>2. \A e : EdgesDue(e)' = EdgesDue(e)
    <3>1. \A e : (Unlinking(e)' <=> Unlinking(e)) /\ ~Linking(e)' /\ ~Linking(e)
      BY <1>4, <2>1 DEF Unlinking, Linking, On, SameJob
    <3>2. \A e : EdgeLans(e)' = EdgeLans(e)
      BY <1>2 DEF EdgeLans
    <3> QED
      BY <2>1, <3>1, <3>2 DEF EdgesDue, SameJob
  <2>3. RowsEdged' /\ LansKnown'
    <3>1. \A e : KeysOf(e)' = KeysOf(e)
      BY <1>2 DEF KeysOf, HasRow
    <3> QED
      BY <1>2, <1>3, <2>2, <3>1 DEF RowsEdged, LansKnown, Tidy
  <2>4. JobDue'
    BY <1>2, <1>3, <1>4, <2>1 DEF JobDue, Tidy, On, ToWrite, LanInWork, HasRow, Members, EdgeLans, SameJob
  <2>5. \A e : NetsDue(e)' = NetsDue(e) /\ (Removing(e)' <=> Removing(e))
    <3>1. \A e : (Leaving(e)' <=> Leaving(e)) /\ (Joining(e)' <=> Joining(e))
                 /\ (Removing(e)' <=> Removing(e))
      BY <1>4, <2>1 DEF Joining, Leaving, Removing, SameJob
    <3> QED
      BY <1>2, <2>1, <3>1 DEF NetsDue, SameJob
  <2>6. \A e : (~LanInWork(e)' => ~LanInWork(e)) /\ (~Unrendered(e)' => ~Unrendered(e))
    BY <1>2, <1>4, <2>1 DEF LanInWork, Unrendered, SameJob
  <2>7. job.at # None
    BY <1>4 DEF None
  <2> QED
    BY <1>1, <2>3, <2>4, <2>5, <2>6, <2>7, EdgeStep
<1>5. ASSUME job.at = "check_l3", NEW at \in {"docker_l3", "validate"}, Goto(at) PROVE Follows'
  <2>1. job'.at = at /\ SameJob
    BY <1>5, GotoKeeps
  <2>2. JobDue'
    BY <1>2, <1>3, <1>5, <2>1 DEF JobDue, Tidy, On, ToWrite, LanInWork, HasRow, Members, EdgeLans, SameJob
  <2>3. ApiDue' /\ job.at \notin AtWork /\ job'.at \notin AtWork
    BY <1>2, <1>5, <2>1, OpAlone DEF None, AtWork
  <2> QED
    BY <1>2, <2>2, <2>3, CaughtStep DEF dbVars
<1> QED
  BY <1>1, <1>4, <1>5 DEF CheckLive

\* The docker step of an op: the compose file is rendered from the tables.
Docking(at) ==
    /\ job.at \in {"docker", "docker_l3"} /\ UNCHANGED <<lans, rows, edges, api>>
    /\ file' = Rendered /\ Goto(at)

LEMMA DockingServes ==
    ASSUME HomeInv, Smooth, NEW at, Docking(at)
    PROVE  /\ \A d \in Deckies : HasRow(d)' => d \in DOMAIN file' /\ file'[d].services = rows'[d].services
           /\ api' = NoApi /\ ApiDue' /\ RowsOnce' /\ LansKnown' /\ Tidy
<1>1. Tidy /\ job.at \notin {"edge", None} /\ UNCHANGED <<lans, rows, edges, api>> /\ file' = Rendered
  BY DEF Smooth, Follows, Docking, None
<1>2. api = NoApi /\ ApiDue'
  BY <1>1, OpAlone
<1>3. RowsOnce' /\ LansKnown'
  BY <1>1 DEF Tidy, RowsOnce, LansKnown, HasRow, OneEach
<1>4. \A d \in Deckies : HasRow(d) => d \in DOMAIN Rendered /\ Rendered[d].services = rows[d].services
  BY <1>1, TidyRenders
<1> QED
  BY <1>1, <1>2, <1>3, <1>4 DEF HasRow

\* It is done, unless it was for a visitor of a LAN that goes.
LEMMA DockingDone ==
    ASSUME HomeInv, Smooth, NEW at \in {"validate", "state", "check_l3"}, Docking(at),
           \A d \in Deckies : ~Unlinking(d),
           \A l \in LanNames : bridges'[l] = lans[l].subnet,
           at # "validate" => JobDue', job.op = "remove_lan" => Members(job.lan) = {},
           Strays' = {} => Docked'
    PROVE  Follows'
<1>1. /\ \A d \in Deckies : HasRow(d)' => d \in DOMAIN file' /\ file'[d].services = rows'[d].services
      /\ api' = NoApi /\ ApiDue' /\ RowsOnce' /\ LansKnown' /\ Tidy
  BY DockingServes
<1>2. job'.at = at /\ SameJob /\ UNCHANGED <<lans, rows, edges>> /\ job.at \in {"docker", "docker_l3"}
  BY GotoKeeps DEF Docking
<1>3. RowsEdged'
  <2>1. \A d \in Deckies : EdgesDue(d) = EdgeLans(d)
    BY <1>2 DEF EdgesDue, Linking, On
  <2>2. \A d : EdgesDue(d)' = EdgeLans(d)'
    BY <1>2, CaughtThen DEF Caught, AtWork
  <2>3. \A d : EdgeLans(d)' = EdgeLans(d) /\ KeysOf(d)' = KeysOf(d)
    BY <1>2 DEF EdgeLans, KeysOf, HasRow
  <2> QED
    BY <1>1, <2>1, <2>2, <2>3 DEF RowsEdged, Tidy
<1>4. Bridged' /\ FileServes'
  BY <1>1, <1>2 DEF Bridged, FileServes
<1>5. JobDue'
  <2>1. CASE at = "validate"
    <3>1. /\ job.op = "remove_decky" => job.d \in Deckies
          /\ job.op = "add_lan" => job.lan \in LanNames /\ lans[job.lan] # NoLan /\ Members(job.lan) = {}
      BY <1>1 DEF Tidy, JobDue
    <3> PICK l : l = job.lan
      OBVIOUS
    <3>2. Members(l)' = Members(l)
      BY <1>2 DEF Members
    <3> QED
      BY <1>2, <2>1, <3>1, <3>2 DEF JobDue, On, ToWrite, LanInWork, SameJob
  <2> QED
    BY <2>1
<1> QED
  BY <1>1, <1>3, <1>4, <1>5 DEF Follows, Tidy

\* Outside add_lan and remove_lan every LAN has its bridge.
LEMMA BridgesStay ==
    ASSUME Smooth, job.op \notin {"add_lan", "remove_lan"} \/ job.at = "docker_l3"
    PROVE  \A l \in LanNames : bridges[l] = lans[l].subnet
BY DEF Smooth, Follows, Tidy, Bridged, LanInWork

\* Nobody is on the network of a LAN without members.
LEMMA EmptyLan ==
    ASSUME HomeInv, BaseShape, Tidy, Docked, NEW l, Members(l) = {},
           job.at = "docker", job.op \in {"add_lan", "remove_lan"}, job.d = 0,
           NEW d \in Deckies, NEW a \in base[d].nets
    PROVE  a.lan # l
<1>1. d # job.d
  BY MutationOpsAssumption
<1>2. base[d].project # None
  BY DEF BaseShape, IsBase, NoBase
<1>3. HasRow(d) /\ ToSet(rows[d].cfg.ips) = base[d].nets
  BY <1>1, <1>2 DEF Docked, Removing, NetsDue, Joining, Leaving
<1>4. a.lan \in KeysOf(d)
  BY <1>3, KeysOfAddresses DEF KeysOf
<1>5. KeysOf(d) = EdgeLans(d)
  BY <1>1 DEF Tidy, RowsEdged, EdgesDue, Linking, Unlinking
<1> QED
  BY <1>4, <1>5, MembersByEdge

LEMMA DockerLanWires == ASSUME HomeInv, Smooth, DockerLan PROVE Follows'
<1>0. PICK l : l = job.lan
  OBVIOUS
<1>1. /\ job.op \in {"add_lan", "remove_lan"} /\ job.at = "docker" /\ job.d = 0
      /\ IF job.op = "add_lan" THEN CreateBridge(l, lans[l].subnet) ELSE RemoveBridge(l)
      /\ Docking("validate")
  <2>1. ~Fault
    BY FaultExcused DEF Smooth
  <2> QED
    BY <1>0, <2>1 DEF DockerLan, DockerStep, On, dbVars, Docking
<1>2. Tidy /\ BaseShape /\ (Strays = {} => Docked)
  BY DEF Smooth, Follows
<1>3. l \in LanNames /\ Members(l) = {}
  <2>1. CASE job.op = "add_lan"
    BY <1>0, <1>2, <2>1 DEF Tidy, JobDue
  <2>2. CASE job.op = "remove_lan"
    BY <1>0, <1>1, <1>2, <2>2 DEF Tidy, JobDue, ToWrite, HomeInv, JobHomes
  <2> QED
    BY <1>1, <2>1, <2>2
<1>4. \A m \in LanNames \ {l} : bridges[m] = lans[m].subnet
  BY <1>0, <1>2 DEF Tidy, Bridged, LanInWork
<1>5. /\ \A m \in LanNames : bridges'[m] = lans[m].subnet
      /\ base' = base \/ base' = Unplugged({l})
  <2>1. CASE job.op = "add_lan"
    <3>1. lans[l] # NoLan
      BY <1>0, <1>2, <2>1 DEF Tidy, JobDue
    <3>2. Valid
      <4>1. job'.at = "validate" /\ UNCHANGED dbVars
        BY <1>1, GotoKeeps DEF Docking, dbVars
      <4>2. Valid'
        BY <4>1 DEF Smooth, Working
      <4> QED
        BY <4>1, <4>2, ValidKept
    <3>3. \A m \in LanNames \ {l} : bridges[m] # lans[l].subnet
      BY <1>3, <1>4, <3>1, <3>2 DEF Valid
    <3>4. CASE bridges[l] = lans[l].subnet
      BY <1>1, <1>4, <2>1, <3>4 DEF CreateBridge
    <3>5. CASE bridges[l] # lans[l].subnet
      <4>1. {m \in LanNames \ {l} : bridges[m] = lans[l].subnet} = {}
        BY <3>3
      <4>2. /\ base' = Unplugged({l})
            /\ bridges' = [m \in LanNames |-> IF m = l THEN lans[l].subnet ELSE bridges[m]]
        BY <1>1, <2>1, <3>5, <4>1 DEF CreateBridge
      <4> QED
        BY <1>4, <4>2
    <3> QED
      BY <3>4, <3>5
  <2>2. CASE job.op = "remove_lan"
    <3>1. lans[l] = NoLan
      BY <1>0, <1>1, <1>2, <2>2 DEF Tidy, JobDue, LanInWork
    <3>2. base' = Unplugged({l}) /\ bridges' = [bridges EXCEPT ![l] = NoNet]
      BY <1>1, <2>2 DEF RemoveBridge
    <3>3. bridges'[l] = NoNet /\ \A m \in LanNames \ {l} : bridges'[m] = bridges[m]
      BY <1>3, <3>2 DEF Smooth, BridgeShape
    <3> QED
      BY <1>4, <3>1, <3>2, <3>3 DEF NoLan
  <2> QED
    BY <1>1, <2>1, <2>2
<1>6. \A d \in Deckies : /\ base'[d].project = base[d].project
                         /\ Docked => base'[d].nets = base[d].nets
  <2>1. CASE base' = base
    BY <2>1
  <2>2. CASE base' = Unplugged({l})
    <3>1. \A d \in Deckies : /\ base'[d].project = base[d].project
                             /\ base'[d].nets = {a \in base[d].nets : a.lan \notin {l}}
      BY <1>2, <2>2, UnpluggedBase
    <3>2. ASSUME Docked PROVE \A d \in Deckies : \A a \in base[d].nets : a.lan # l
      BY <1>1, <1>2, <1>3, <3>2, EmptyLan
    <3> QED
      BY <3>1, <3>2
  <2> QED
    BY <1>5, <2>1, <2>2
<1>7. Strays' = {} => Docked'
  <2>1. rows' = rows /\ job'.at \notin AtWork
    BY <1>1, GotoKeeps DEF Docking, AtWork
  <2>2. Strays' = Strays
    BY <1>6, <2>1 DEF Strays, HasRow
  <2>3. \A d \in Deckies : NetsDue(d) = base[d].nets /\ ~Removing(d)
    BY <1>1, MutationOpsAssumption DEF NetsDue, Joining, Leaving, Removing
  <2>4. Docked => Docked'
    BY <1>6, <2>1, <2>3, CaughtThen DEF Docked, Caught, HasRow
  <2> QED
    BY <1>2, <2>2, <2>4
<1>8. \A d \in Deckies : ~Unlinking(d)
  BY <1>1, MutationOpsAssumption DEF Unlinking, On
<1> QED
  BY <1>0, <1>1, <1>3, <1>5, <1>7, <1>8, DockingDone

\* Ops that leave the base containers on their networks.
Still == job.op \in {"add_decky", "update_decky"}

LEMMA StillDue ==
    ASSUME Still, job.at \in {"docker", "docker_l3"}
    PROVE  \A d : /\ EdgesDue(d) = EdgeLans(d) /\ NetsDue(d) = base[d].nets
                  /\ ~Removing(d) /\ ~Unlinking(d)
BY DEF Still, EdgesDue, Linking, Unlinking, NetsDue, Joining, Leaving, Removing, On

LEMMA StillDocked ==
    ASSUME HomeInv, Smooth, Still, NEW at, at \notin AtWork, Docking(at), base' = base
    PROVE  Strays' = {} => Docked'
<1>1. rows' = rows /\ job'.at \notin AtWork /\ job.at \in {"docker", "docker_l3"}
  BY GotoKeeps DEF Docking
<1>2. Strays' = Strays
  BY <1>1 DEF Strays, HasRow
<1>3. Docked => Docked'
  BY <1>1, StillDue, CaughtThen DEF Docked, Caught, HasRow
<1> QED
  BY <1>2, <1>3 DEF Smooth, Follows

\* A base container is started from the file as it has just been rendered.
LEMMA StartDocked ==
    ASSUME HomeInv, Smooth, Still, NEW at, at \notin AtWork, Docking(at), NEW d \in Deckies, HasRow(d),
           BaseStarts(d, Rendered, OpsProject),
           base' = [base EXCEPT ![d] = FromFile(d, Rendered, OpsProject)]
    PROVE  base'[d].project = OpsProject /\ (Strays' = {} => Docked')
<1>1. /\ rows' = rows /\ job'.at \notin AtWork /\ job.at \in {"docker", "docker_l3"}
      /\ Tidy /\ (Strays = {} => Docked) /\ BaseShape
  BY GotoKeeps DEF Docking, Smooth, Follows
<1>2. base'[d] = FromFile(d, Rendered, OpsProject) /\ \A e \in Deckies \ {d} : base'[e] = base[e]
  BY <1>1 DEF BaseShape
<1>3. Rendered[d].nets = ToSet(rows[d].cfg.ips)
  <2>1. Rendered[d].nets = ToSet(Config(d).ips)
    BY <1>1, TidyRenders
  <2>2. KeysOf(d) = EdgeLans(d)
    BY <1>1, StillDue DEF Tidy, RowsEdged
  <2>3. Config(d) = rows[d].cfg
    BY <2>2, NoGaps DEF HomeInv, RowsHomed, IsRow
  <2> QED
    BY <2>1, <2>3
<1>4. base'[d].project = OpsProject /\ base'[d].nets = ToSet(rows[d].cfg.ips)
  BY <1>2, <1>3 DEF FromFile
<1>5. Strays \subseteq Strays'
  <2>1. d \notin Strays
    BY NoneProject DEF Strays, BaseStarts
  <2> QED
    BY <1>1, <1>2, <2>1 DEF Strays, HasRow
<1>6. Docked => Docked'
  <2>1. base'[d].project # None
    BY <1>4, NoneProject
  <2> QED
    BY <1>1, <1>2, <1>4, <2>1, StillDue, CaughtThen DEF Docked, Caught, HasRow
<1> QED
  BY <1>1, <1>4, <1>5, <1>6

LEMMA SpawnWires == ASSUME HomeInv, Smooth, DockerSpawn PROVE Follows'
<1>0. PICK d : d = job.d
  OBVIOUS
<1>1. job.op = "add_decky" /\ job.at = "docker" /\ bridges' = bridges
  BY DEF DockerSpawn, DockerStep, On
<1>2. d \in Deckies /\ HasRow(d) /\ Still
  BY <1>0, <1>1 DEF HomeInv, JobHomes, Still
<1>3. \A l \in LanNames : bridges'[l] = lans[l].subnet
  BY <1>1, BridgesStay
<1>4. \A e \in Deckies : ~Unlinking(e)
  BY <1>1, <1>2, StillDue
<1>5. CASE Docking("state") /\ base' = [base EXCEPT ![d] = FromFile(d, Rendered, OpsProject)]
           /\ BaseStarts(d, Rendered, OpsProject)
  <2>1. base'[d].project = OpsProject /\ (Strays' = {} => Docked')
    BY <1>2, <1>5, StartDocked DEF AtWork
  <2>2. job'.at = "state" /\ SameJob
    BY <1>5, GotoKeeps DEF Docking
  <2>3. JobDue'
    BY <1>0, <1>1, <2>1, <2>2 DEF JobDue, On, SameJob
  <2> QED
    BY <1>1, <1>3, <1>4, <1>5, <2>1, <2>3, DockingDone
<1>6. CASE Docking("validate") /\ base' = base
  <2>1. Strays' = {} => Docked'
    BY <1>2, <1>6, StillDocked DEF AtWork
  <2> QED
    BY <1>1, <1>3, <1>4, <1>6, <2>1, DockingDone
<1> QED
  BY <1>0, <1>1, <1>5, <1>6 DEF DockerSpawn, DockerStep, Docking, dbVars

LEMMA RecreateWires == ASSUME HomeInv, Smooth, DockerRecreate PROVE Follows'
<1>0. PICK d : d = job.d
  OBVIOUS
<1>1. job.op = "update_decky" /\ job.at = "docker_l3" /\ bridges' = bridges /\ Docking("validate")
  BY DEF DockerRecreate, On, Docking, dbVars
<1>2. d \in Deckies /\ HasRow(d) /\ Still
  BY <1>0, <1>1 DEF HomeInv, JobHomes, Still
<1>3. \A l \in LanNames : bridges'[l] = lans[l].subnet
  BY <1>1, BridgesStay
<1>4. \A e \in Deckies : ~Unlinking(e)
  BY <1>1, <1>2, StillDue
<1>5. Strays' = {} => Docked'
  <2>1. CASE base' = [base EXCEPT ![d] = FromFile(d, Rendered, OpsProject)]
             /\ BaseStarts(d, Rendered, OpsProject)
    BY <1>1, <1>2, <2>1, StartDocked DEF AtWork
  <2>2. CASE base' = base
    BY <1>1, <1>2, <2>2, StillDocked DEF AtWork
  <2> QED
    BY <1>0, <2>1, <2>2 DEF DockerRecreate
<1> QED
  BY <1>1, <1>3, <1>4, <1>5, DockingDone

LEMMA ServicesWires == ASSUME HomeInv, Smooth, DockerServices PROVE Follows'
<1>1. job.op = "update_decky" /\ job.at = "docker" /\ bridges' = bridges /\ base' = base
  BY DEF DockerServices, DockerStep, On
<1>2. PICK at : at \in {"check_l3", "validate"} /\ Docking(at)
  <2>1. Docking(AfterDocker)
    BY <1>1 DEF DockerServices, DockerStep, Docking, dbVars
  <2>2. AfterDocker \in {"check_l3", "validate"}
    BY <1>1 DEF AfterDocker
  <2> QED
    BY <2>1, <2>2
<1>3. Still
  BY <1>1 DEF Still
<1>4. \A l \in LanNames : bridges'[l] = lans[l].subnet
  BY <1>1, BridgesStay
<1>5. \A e \in Deckies : ~Unlinking(e)
  BY <1>1, <1>3, StillDue
<1>6. Strays' = {} => Docked'
  BY <1>1, <1>2, <1>3, StillDocked DEF AtWork
<1>7. job'.at = at /\ SameJob
  BY <1>2, GotoKeeps DEF Docking
<1>8. JobDue'
  BY <1>1, <1>2, <1>7 DEF JobDue, On, SameJob
<1> QED
  BY <1>1, <1>2, <1>4, <1>5, <1>6, <1>8, DockingDone

LEMMA DockerRemoveWires == ASSUME HomeInv, Smooth, DockerRemove PROVE Follows'
<1>0. PICK d : d = job.d
  OBVIOUS
<1>1. job.op = "remove_decky" /\ job.at = "docker" /\ bridges' = bridges /\ Docking("validate")
  BY DEF DockerRemove, DockerStep, On, Docking, dbVars
<1>2. Tidy /\ (Strays = {} => Docked) /\ BaseShape
  BY DEF Smooth, Follows
<1>3. d \in Deckies /\ ~HasRow(d) /\ d \in DOMAIN file /\ file[d].services = job.del
  BY <1>0, <1>1, <1>2 DEF Tidy, JobDue
<1>4. base' = [base EXCEPT ![d] = IF @.project = OpsProject THEN NoBase ELSE @]
  <2>1. Listed(d, job.del, file) /\ ~Fault
    BY <1>3, FaultExcused DEF Listed, Smooth
  <2> QED
    BY <1>0, <2>1 DEF DockerRemove
<1>5. /\ base'[d] = (IF base[d].project = OpsProject THEN NoBase ELSE base[d])
      /\ \A e \in Deckies \ {d} : base'[e] = base[e]
  BY <1>2, <1>3, <1>4 DEF BaseShape
<1>6. rows' = rows /\ job'.at \notin AtWork
  BY <1>1, GotoKeeps DEF Docking, AtWork
<1>7. Strays \subseteq Strays'
  BY <1>5, <1>6, NoneProject DEF Strays, HasRow
<1>8. ASSUME Strays' = {}, Docked PROVE Docked'
  <2>1. base'[d].project = None
    <3>1. base[d].project \in {None, Own, Fleet}
      BY <1>2, <1>3 DEF BaseShape, IsBase, Projects
    <3>2. base[d].project # Own
      BY <1>3, <1>7, <1>8 DEF Strays
    <3> QED
      BY <1>5, <3>1, <3>2, NoneProject DEF NoBase
  <2>2. \A e \in Deckies \ {d} : NetsDue(e) = base[e].nets /\ ~Removing(e)
    BY <1>0, <1>1 DEF NetsDue, Joining, Leaving, Removing
  <2> QED
    BY <1>3, <1>5, <1>6, <1>8, <2>1, <2>2, CaughtThen DEF Docked, Caught, HasRow
<1>9. \A l \in LanNames : bridges'[l] = lans[l].subnet
  BY <1>1, BridgesStay
<1>10. \A e \in Deckies : ~Unlinking(e)
  BY <1>1 DEF Unlinking, On
<1> QED
  BY <1>1, <1>2, <1>7, <1>8, <1>9, <1>10, DockingDone

LEMMA ConnectWires == ASSUME HomeInv, Smooth, DockerConnect PROVE Follows'
<1>0. PICK d, l, ip : d = job.d /\ l = job.lan /\ ip = job.ip
  OBVIOUS
<1> DEFINE connects == /\ base[d] # NoBase /\ l \notin {a.lan : a \in base[d].nets}
                       /\ Wirable(d, {ip})
<1>1. /\ job.op = "attach_decky" /\ job.at = "docker" /\ bridges' = bridges /\ Docking("validate")
  BY DEF DockerConnect, DockerStep, On, Docking, dbVars
<1>2. Tidy /\ (Strays = {} => Docked) /\ BaseShape
  BY DEF Smooth, Follows
<1>3. d \in Deckies /\ HasRow(d) /\ l \in LanNames
  BY <1>0, <1>1 DEF HomeInv, JobHomes
<1>4. ip.lan = l /\ ip.ip.net = lans[l].subnet
  BY <1>0, <1>1, <1>2 DEF Tidy, JobDue
<1>5. \/ connects /\ base' = [base EXCEPT ![d].nets = @ \cup {ip}]
      \/ ~connects /\ base' = base
  <2>1. ~Fault
    BY FaultExcused DEF Smooth
  <2> QED
    BY <1>0, <2>1 DEF DockerConnect
<1>6. rows' = rows /\ job'.at = "validate" /\ UNCHANGED dbVars
  BY <1>1, GotoKeeps DEF Docking, dbVars
<1>7. \A m \in LanNames : bridges[m] = lans[m].subnet
  BY <1>1, BridgesStay
<1>8. /\ NetsDue(d) = base[d].nets \cup {ip}
      /\ \A e : e # d => NetsDue(e) = base[e].nets
      /\ \A e : ~Removing(e) /\ ~Unlinking(e) /\ EdgesDue(e) = EdgeLans(e)
  BY <1>0, <1>1 DEF NetsDue, Joining, Leaving, Removing, EdgesDue, Linking, Unlinking, On
<1>9. Caught'
  BY <1>6, CaughtThen DEF AtWork
<1>10. CASE connects /\ base' = [base EXCEPT ![d].nets = @ \cup {ip}]
  <2> DEFINE b == [base[d] EXCEPT !.nets = base[d].nets \cup {ip}]
  <2>1. base' = [base EXCEPT ![d] = b]
    BY <1>10
  <2>2. IsBase(base[d]) /\ base[d].project # None
    BY <1>2, <1>3, <1>10 DEF BaseShape, IsBase
  <2>3. b = [project |-> base[d].project, nets |-> base[d].nets \cup {ip}, l3 |-> base[d].l3]
    BY <2>2, NetsEdited
  <2> HIDE DEF b
  <2>4. base'[d] = b /\ \A e \in Deckies \ {d} : base'[e] = base[e]
    BY <1>2, <1>3, <2>1 DEF BaseShape
  <2>5. base'[d].project = base[d].project /\ base'[d].nets = base[d].nets \cup {ip}
    BY <2>3, <2>4
  <2>6. Strays' = Strays
    BY <1>6, <2>4, <2>5 DEF Strays, HasRow
  <2>7. Docked => Docked'
    BY <1>3, <1>6, <1>8, <1>9, <2>4, <2>5 DEF Docked, Caught, HasRow
  <2> QED
    BY <1>1, <1>2, <1>7, <1>8, <2>6, <2>7, DockingDone
<1>11. CASE ~connects /\ base' = base
  <2>1. Strays' = Strays
    BY <1>6, <1>11 DEF Strays, HasRow
  <2>2. ASSUME Docked, base[d].project # None PROVE ip \in base[d].nets
    <3> SUFFICES ASSUME ip \notin base[d].nets PROVE FALSE
      OBVIOUS
    <3>1. ToSet(rows[d].cfg.ips) = base[d].nets \cup {ip}
      BY <1>3, <1>8, <2>2 DEF Docked
    <3>2. base[d] # NoBase
      BY <2>2 DEF NoBase
    <3>3. l \notin {a.lan : a \in base[d].nets}
      <4>1. OneEach(rows[d].cfg.ips)
        BY <1>2, <1>3 DEF Tidy, RowsOnce
      <4>2. \A a, b \in ToSet(rows[d].cfg.ips) : a.lan = b.lan => a = b
        BY <4>1 DEF OneEach, ToSet
      <4> QED
        BY <1>4, <3>1, <4>2
    <3>4. PICK e \in Deckies \ {d} : ip \in base[e].nets
      BY <1>3, <1>4, <1>7, <1>11, <3>2, <3>3 DEF Wirable
    <3>5. HasRow(e) /\ ip \in ToSet(rows[e].cfg.ips)
      <4>1. base[e].project # None
        BY <1>2, <3>4 DEF BaseShape, IsBase, NoBase
      <4> QED
        BY <1>8, <2>2, <3>4, <4>1 DEF Docked
    <3>6. \A f \in Deckies : HasRow(f) => f \in DOMAIN Configs /\ Configs[f] = rows[f].cfg
      <4>1. ASSUME NEW f \in Deckies, HasRow(f) PROVE Config(f) = rows[f].cfg
        BY <1>2, <1>8, <4>1, NoGaps DEF Tidy, RowsEdged, HomeInv, RowsHomed, IsRow
      <4> QED
        BY <4>1 DEF Configs
    <3>7. Valid
      BY <1>6, ValidKept DEF Smooth, Working
    <3>8. \A f \in DOMAIN Configs : \A a \in ToSet(Configs[f].ips) :
              \A g \in DOMAIN Configs \ {f} : a \notin ToSet(Configs[g].ips)
      BY <3>7 DEF Valid
    <3>9. /\ d \in DOMAIN Configs /\ ip \in ToSet(Configs[d].ips)
          /\ e \in DOMAIN Configs \ {d} /\ ip \in ToSet(Configs[e].ips)
      BY <1>3, <3>1, <3>4, <3>5, <3>6
    <3> QED
      BY <3>8, <3>9
  <2>3. Docked => Docked'
    <3>1. ASSUME Docked, base[d].project # None PROVE ToSet(rows[d].cfg.ips) = base[d].nets
      <4>1. ip \in base[d].nets
        BY <2>2, <3>1
      <4>2. ToSet(rows[d].cfg.ips) = NetsDue(d)
        BY <1>3, <1>8, <3>1 DEF Docked
      <4> QED
        BY <1>8, <4>1, <4>2
    <3> QED
      BY <1>6, <1>8, <1>9, <1>11, <3>1 DEF Docked, Caught, HasRow
  <2> QED
    BY <1>1, <1>2, <1>7, <1>8, <1>11, <2>1, <2>3, DockingDone
<1> QED
  BY <1>5, <1>10, <1>11

LEMMA DisconnectWires == ASSUME HomeInv, Smooth, DockerDisconnect PROVE Follows'
<1>0. PICK d, l : d = job.d /\ l = job.lan
  OBVIOUS
<1> DEFINE N == {a \in base[d].nets : a.lan # l}
           b == [base[d] EXCEPT !.nets = N]
<1>1. /\ job.op \in {"detach_decky", "remove_lan"} /\ job.at = "docker" /\ d # 0
      /\ UNCHANGED <<bridges, lans, rows, edges, api>> /\ file' = Rendered /\ Goto(AfterDocker)
  BY <1>0 DEF DockerDisconnect, DockerStep, On, dbVars
<1>2. Tidy /\ (Strays = {} => Docked) /\ BaseShape
  BY DEF Smooth, Follows
<1>3. base' = [base EXCEPT ![d] = b]
  <2>1. ~Fault
    BY FaultExcused DEF Smooth
  <2> QED
    BY <1>0, <2>1 DEF DockerDisconnect
<1>4. d \in Deckies
  <2>1. CASE job.op = "detach_decky"
    BY <1>0, <2>1 DEF HomeInv, JobHomes
  <2>2. CASE job.op = "remove_lan"
    <3>1. d \in job.visitors
      BY <1>0, <1>1, <1>2, <2>2 DEF Tidy, JobDue, ToWrite
    <3> QED
      BY <3>1 DEF HomeInv, Shapes, IsJob
  <2> QED
    BY <1>1, <2>1, <2>2
<1>5. IsBase(base[d]) /\ (base[d].project = None => N = {})
  BY <1>2, <1>4 DEF BaseShape, IsBase, NoBase
<1>6. b = [project |-> base[d].project, nets |-> N, l3 |-> base[d].l3]
  <2> HIDE DEF N
  <2> QED
    BY <1>5, NetsEdited
<1> HIDE DEF b
<1>7. base'[d] = b /\ \A e \in Deckies \ {d} : base'[e] = base[e]
  BY <1>2, <1>3, <1>4 DEF BaseShape
<1>8. base'[d].project = base[d].project /\ base'[d].nets = N
  <2> HIDE DEF N
  <2> QED
    BY <1>6, <1>7
<1>9. /\ NetsDue(d) = N /\ (\A e : e # d => NetsDue(e) = base[e].nets) /\ \A e : ~Removing(e)
  BY <1>0, <1>1 DEF NetsDue, Joining, Leaving, Removing
<1> HIDE DEF N
<1>10. Strays' = Strays
  BY <1>1, <1>7, <1>8 DEF Strays, HasRow
<1>11. ASSUME \A e \in Deckies : NetsDue(e)' = base'[e].nets /\ ~Removing(e)'
       PROVE  Strays' = {} => Docked'
  <2>1. Docked => Docked'
    BY <1>1, <1>4, <1>7, <1>8, <1>9, <1>11 DEF Docked, HasRow
  <2> QED
    BY <1>2, <1>10, <2>1
<1>12. CASE job.op = "detach_decky"
  <2>1. Docking("validate")
    BY <1>1, <1>12 DEF AfterDocker, Docking
  <2>2. Caught'
    BY <2>1, GotoKeeps, CaughtThen DEF Docking, AtWork
  <2>3. Strays' = {} => Docked'
    BY <1>11, <2>2 DEF Caught
  <2>4. \A m \in LanNames : bridges'[m] = lans[m].subnet
    BY <1>1, <1>12, BridgesStay
  <2>5. \A e \in Deckies : ~Unlinking(e)
    BY <1>1, <1>12 DEF Unlinking, On
  <2> QED
    BY <1>12, <2>1, <2>3, <2>4, <2>5, DockingDone
<1>13. CASE job.op = "remove_lan"
  <2>1. Docking("unedge")
    BY <1>0, <1>1, <1>13 DEF AfterDocker, Docking
  <2>2. job'.at = "unedge" /\ SameJob
    BY <2>1, GotoKeeps DEF Docking
  <2>3. /\ \A e \in Deckies : HasRow(e)' => e \in DOMAIN file' /\ file'[e].services = rows'[e].services
        /\ ApiDue' /\ RowsOnce' /\ LansKnown'
    BY <2>1, DockingServes
  <2>4. FileServes'
    BY <2>3 DEF FileServes
  <2>5. RowsEdged'
    <3>1. \A e : (Unlinking(e)' <=> Unlinking(e)) /\ ~Linking(e)' /\ ~Linking(e)
      BY <1>1, <1>13, <2>2 DEF Unlinking, Linking, On, SameJob
    <3>2. \A e : EdgeLans(e)' = EdgeLans(e) /\ KeysOf(e)' = KeysOf(e)
      BY <1>1 DEF EdgeLans, KeysOf, HasRow
    <3>3. \A e : EdgesDue(e)' = EdgesDue(e)
      BY <2>2, <3>1, <3>2 DEF EdgesDue, SameJob
    <3> QED
      BY <1>2, <3>2, <3>3 DEF RowsEdged, Tidy
  <2>6. Bridged'
    <3>1. \A m : ~LanInWork(m)
      BY <1>0, <1>1 DEF LanInWork
    <3> QED
      BY <1>1, <1>2, <3>1 DEF Bridged, Tidy
  <2>7. JobDue'
    <3>1. /\ job.visitors = Members(l) /\ d \in job.visitors
          /\ \A e \in job.visitors \ {d} : job.cfg[e] = rows[e].cfg
      BY <1>0, <1>1, <1>2, <1>13 DEF Tidy, JobDue, ToWrite
    <3>2. Members(l)' = Members(l)
      BY <1>1 DEF Members
    <3> QED
      BY <1>0, <1>1, <1>13, <2>2, <3>1, <3>2 DEF JobDue, On, ToWrite, LanInWork, SameJob
  <2>8. \A e : NetsDue(e)' = base'[e].nets /\ ~Removing(e)'
    BY <1>13, <2>2 DEF NetsDue, Joining, Leaving, Removing, SameJob
  <2>9. Strays' = {} => Docked'
    BY <1>11, <2>8
  <2> QED
    BY <2>3, <2>4, <2>5, <2>6, <2>7, <2>9 DEF Follows, Tidy
<1> QED
  BY <1>1, <1>12, <1>13

LEMMA ValidateWires == ASSUME HomeInv, Smooth, Validate PROVE Follows'
<1>1. /\ job.at = "validate" /\ job' = Blank /\ UNCHANGED <<dbVars, bridges, base, file, api>>
  BY DEF Validate, dockerVars
<1>2. JobDue' /\ job'.at \notin AtWork /\ job.at \notin AtWork
  BY <1>1, BlankDue DEF AtWork
<1>3. ApiDue'
  BY <1>1, OpAlone DEF None
<1> QED
  BY <1>1, <1>2, <1>3, CaughtStep

LEMMA WorkWires == ASSUME HomeInv, Smooth, Work PROVE Follows'
BY AddWires, AttachWires, DetachWires, VisitorWires, RemoveWires, UpdateWires, AddEdgeWires,
   DeleteEdgeWires, DropWires, RunningWires, CheckWires, DockerLanWires, SpawnWires,
   DockerRemoveWires, ConnectWires, DisconnectWires, ServicesWires, RecreateWires, ValidateWires
   DEF Work


\* While the API changes a service no op is at work.
LEMMA ApiAlone ==
    ASSUME Smooth, Api
    PROVE  /\ job = Blank /\ job' = Blank /\ JobDue'
           /\ job.at \notin AtWork /\ job'.at \notin AtWork
<1>1. job' = job /\ (api = NoApi => job = Blank)
  BY ApiGoesOn DEF Smooth
<1>2. job = Blank
  BY <1>1 DEF Smooth, OneAtATime, Working
<1>3. job.at \notin AtWork
  BY <1>2 DEF Blank, AtWork, None
<1> QED
  BY <1>1, <1>2, <1>3, BlankDue

LEMMA ApiCall ==
    ASSUME HomeInv, api.kind # None
    PROVE  IsCall(api) /\ api # NoApi /\ api.d \in Deckies
BY DEF HomeInv, Shapes, IsCall, NoApi

LEMMA ApiGotoKeeps ==
    ASSUME HomeInv, api.kind # None, NEW at, ApiGoto(at)
    PROVE  api'.at = at /\ api'.d = api.d /\ api'.cfg = api.cfg /\ api' # NoApi
<1>1. IsCall(api)
  BY ApiCall
<1>2. api' = [kind |-> api.kind, at |-> at, d |-> api.d, s |-> api.s, uuid |-> api.uuid,
              cfg |-> api.cfg, services |-> api.services, config |-> api.config, up |-> api.up]
  BY <1>1 DEF ApiGoto, IsCall
<1> QED
  BY <1>2 DEF NoApi

LEMMA ApiBeginWires ==
    ASSUME HomeInv, Smooth, Api, NEW kind, NEW d \in Deckies, NEW s, NEW config, NEW doUp,
           ApiBegin(kind, d, s, config, doUp)
    PROVE  Follows'
<1>1. /\ api = NoApi /\ HasRow(d) /\ UNCHANGED <<dbVars, bridges, base, file>>
      /\ api'.d = d /\ api'.cfg = Config(d)
  BY DEF ApiBegin, dockerVars
<1>2. JobDue' /\ job.at \notin AtWork /\ job'.at \notin AtWork
  BY ApiAlone
<1>3. Config(d) = rows[d].cfg
  BY <1>1, <1>2, ReadsRow DEF Smooth, Follows
<1>4. ApiDue'
  BY <1>1, <1>3 DEF ApiDue, HasRow, dbVars
<1> QED
  BY <1>1, <1>2, <1>4, CaughtStep

\* Stopping and starting a service's container is not seen by the wiring.
LEMMA ApiStopWires == ASSUME HomeInv, Smooth, Api, ApiStop PROVE Follows'
<1>1. /\ UNCHANGED <<dbVars, bridges, base, file>> /\ api.kind # None /\ api.at = "stop"
      /\ ApiGoto("write") \/ api' = NoApi
  BY DEF ApiStop, ApiStep, ApiEnds, dbVars, None
<1>2. JobDue' /\ job.at \notin AtWork /\ job'.at \notin AtWork
  BY ApiAlone
<1>3. ApiDue
  BY DEF Smooth, Follows, Tidy
<1>4. api # NoApi
  BY <1>1, ApiCall
<1>5. ApiDue'
  <2>1. CASE api' = NoApi
    BY <2>1 DEF ApiDue
  <2>2. CASE ApiGoto("write")
    BY <1>1, <1>3, <1>4, <2>2, ApiGotoKeeps DEF ApiDue, HasRow, dbVars
  <2> QED
    BY <1>1, <2>1, <2>2
<1> QED
  BY <1>1, <1>2, <1>5, CaughtStep

LEMMA ApiUpWires == ASSUME HomeInv, Smooth, Api, ApiUp PROVE Follows'
<1>1. /\ UNCHANGED <<dbVars, bridges, base, file>> /\ api.at = "up" /\ api' = NoApi
  BY DEF ApiUp, ApiStep, ApiEnds, dbVars
<1>2. JobDue' /\ job.at \notin AtWork /\ job'.at \notin AtWork
  BY ApiAlone
<1>3. ApiDue'
  BY <1>1 DEF ApiDue
<1> QED
  BY <1>1, <1>2, <1>3, CaughtStep

\* The services are written, and decky_config as it is: the file is behind.
LEMMA ApiWriteWires == ASSUME HomeInv, Smooth, Api, ApiWrite PROVE Follows'
<1>0. PICK d : d = api.d
  OBVIOUS
<1>1. UNCHANGED <<lans, edges, bridges, base, file>> /\ api.kind # None /\ api.at = "write"
  BY DEF ApiWrite, ApiStep
<1>2. JobDue' /\ job.at \notin AtWork /\ job'.at \notin AtWork
  BY ApiAlone
<1>3. CASE rows[d].uuid # api.uuid
  <2>1. api' = NoApi /\ rows' = rows
    BY <1>0, <1>3 DEF ApiWrite, ApiEnds
  <2>2. ApiDue'
    BY <2>1 DEF ApiDue
  <2> QED
    BY <1>1, <1>2, <2>1, <2>2, CaughtStep DEF dbVars
<1>4. CASE rows[d].uuid = api.uuid
  <2>1. Tidy /\ (Strays = {} => Docked) /\ Caught /\ Caught'
    BY <1>2, CaughtNow, CaughtThen DEF Smooth, Follows
  <2>2. d \in Deckies /\ HasRow(d) /\ api.cfg = rows[d].cfg /\ api # NoApi
    BY <1>0, <1>1, <2>1, ApiCall DEF Tidy, ApiDue
  <2>3. api'.at = "render" /\ api'.d = d /\ api' # NoApi
    BY <1>0, <1>1, <1>4, ApiGotoKeeps DEF ApiWrite
  <2>4. rows' = [rows EXCEPT ![d] = ApiRowWritten]
    BY <1>0, <1>4, ApiRow
  <2>5. rows'[d] = ApiRowWritten /\ \A e \in Deckies \ {d} : rows'[e] = rows[e]
    BY <2>2, <2>4, OneRow
  <2>6. rows'[d].cfg = rows[d].cfg /\ rows'[d].state = rows[d].state /\ rows'[d] # NoRow
    BY <1>0, <2>2, <2>5 DEF ApiRowWritten, NoRow
  <2>7. \A e \in Deckies : /\ HasRow(e)' <=> HasRow(e)
                           /\ HasRow(e) => /\ rows'[e].cfg = rows[e].cfg
                                           /\ rows'[e].state = rows[e].state
    BY <2>2, <2>5, <2>6 DEF HasRow
  <2>8. \A e \in Deckies : EdgeLans(e)' = EdgeLans(e) /\ KeysOf(e)' = KeysOf(e)
    BY <1>1, <2>7 DEF EdgeLans, KeysOf, HasRow
  <2>9. RowsEdged'
    BY <2>1, <2>8 DEF RowsEdged, Tidy, Caught
  <2>10. RowsOnce'
    BY <2>1, <2>7 DEF RowsOnce, Tidy, HasRow, OneEach
  <2>11. LansKnown' /\ Bridged'
    BY <1>1, <2>1 DEF LansKnown, Bridged, Tidy, Caught
  <2>12. FileServes'
    <3>1. \A e \in Deckies : ~Unrendered(e)
      BY <1>1, <2>1 DEF Caught
    <3>2. Unrendered(d)'
      BY <2>1, <2>3 DEF Caught
    <3> QED
      BY <1>1, <2>1, <2>5, <3>1, <3>2 DEF FileServes, Tidy, HasRow
  <2>13. ApiDue'
    BY <2>3, <2>6 DEF ApiDue, HasRow
  <2>14. Strays' = Strays
    BY <1>1, <2>7 DEF Strays
  <2>15. Docked => Docked'
    BY <1>1, <2>1, <2>7 DEF Docked, Caught
  <2> QED
    BY <1>2, <2>1, <2>9, <2>10, <2>11, <2>12, <2>13, <2>14, <2>15 DEF Follows, Tidy
<1> QED
  BY <1>3, <1>4

LEMMA ApiRenderWires == ASSUME HomeInv, Smooth, Api, ApiRender PROVE Follows'
<1>1. /\ UNCHANGED <<dbVars, bridges, base>> /\ file' = Rendered /\ api.kind # None
      /\ ApiGoto("up") \/ api' = NoApi
  BY DEF ApiRender, ApiStep, ApiEnds, dbVars
<1>2. JobDue' /\ job.at \notin AtWork /\ job'.at \notin AtWork
  BY ApiAlone
<1>3. Tidy /\ (Strays = {} => Docked) /\ Caught /\ Caught'
  BY <1>2, CaughtNow, CaughtThen DEF Smooth, Follows
<1>4. lans' = lans /\ rows' = rows /\ edges' = edges
  BY <1>1 DEF dbVars
<1>5. \A d : EdgeLans(d)' = EdgeLans(d) /\ KeysOf(d)' = KeysOf(d)
  BY <1>4 DEF EdgeLans, KeysOf, HasRow
<1>6. RowsEdged'
  BY <1>3, <1>5 DEF RowsEdged, Tidy, Caught
<1>7. RowsOnce' /\ LansKnown'
  BY <1>3, <1>4 DEF RowsOnce, LansKnown, Tidy, HasRow, OneEach
<1>8. Bridged'
  BY <1>1, <1>3, <1>4 DEF Bridged, Tidy, Caught
<1>9. FileServes'
  <2>1. job.at # "edge"
    BY <1>2 DEF AtWork
  <2>2. \A d \in Deckies : HasRow(d) =>
            d \in DOMAIN Rendered /\ Rendered[d].services = rows[d].services
    BY <1>3, <2>1, TidyRenders
  <2> QED
    BY <1>1, <1>4, <2>2 DEF FileServes, HasRow
<1>10. ApiDue'
  <2>1. CASE api' = NoApi
    BY <2>1 DEF ApiDue
  <2>2. CASE ApiGoto("up")
    <3>1. api'.at = "up" /\ api'.d = api.d /\ api # NoApi
      BY <1>1, <2>2, ApiCall, ApiGotoKeeps
    <3> QED
      BY <1>3, <1>4, <3>1 DEF ApiDue, Tidy, HasRow
  <2> QED
    BY <1>1, <2>1, <2>2
<1>11. Strays' = Strays
  BY <1>1, <1>4 DEF Strays, HasRow
<1>12. Docked => Docked'
  BY <1>1, <1>3, <1>4 DEF Docked, Caught, HasRow
<1> QED
  BY <1>2, <1>3, <1>6, <1>7, <1>8, <1>9, <1>10, <1>11, <1>12 DEF Follows, Tidy

LEMMA ApiWires == ASSUME HomeInv, Smooth, Api PROVE Follows'
BY ApiBeginWires, ApiStopWires, ApiWriteWires, ApiRenderWires, ApiUpWires DEF Api

\* A step that changes none of this.
LEMMA StillFollows ==
    ASSUME Smooth, UNCHANGED <<dbVars, bridges, base, file, job, api>> PROVE Follows'
<1>1. UNCHANGED <<lans, rows, edges, bridges, base, file, job, api>>
  BY DEF dbVars
<1>2. Tidy /\ (Strays = {} => Docked)
  BY DEF Smooth, Follows
<1>3. RowsEdged'
  BY <1>1, <1>2 DEF Tidy, RowsEdged, KeysOf, EdgesDue, EdgeLans, Linking, Unlinking, On, HasRow
<1>4. RowsOnce' /\ LansKnown' /\ Bridged'
  BY <1>1, <1>2 DEF Tidy, RowsOnce, LansKnown, Bridged, LanInWork, OneEach, HasRow
<1>5. FileServes' /\ ApiDue'
  BY <1>1, <1>2 DEF Tidy, FileServes, Unrendered, ApiDue, HasRow
<1>6. JobDue'
  <2>1. JobDue
    BY <1>2 DEF Tidy
  <2>2. Members(job.lan)' = Members(job.lan) /\ EdgeLans(job.d)' = EdgeLans(job.d)
    BY <1>1 DEF Members, EdgeLans
  <2> QED
    BY <1>1, <2>1, <2>2 DEF JobDue, On, ToWrite, LanInWork, HasRow
<1>7. Strays' = Strays
  BY <1>1 DEF Strays, HasRow
<1>8. Docked => Docked'
  BY <1>1 DEF Docked, NetsDue, Joining, Leaving, Removing, HasRow
<1> QED
  BY <1>2, <1>3, <1>4, <1>5, <1>6, <1>7, <1>8 DEF Follows, Tidy

\* Every step keeps the invariant.
LEMMA WiringNext == ASSUME HomeInv, WiringInv, [Next]_vars PROVE WiringInv'
<1> SUFFICES ASSUME Smooth PROVE Follows'
  BY WiringStep
<1>1. CASE Mutation
  BY <1>1, MutationWires
<1>2. CASE Work
  BY <1>2, WorkWires
<1>3. CASE Api
  BY <1>3, ApiWires
<1>4. CASE MutatorDies
  BY <1>4, FaultExcused DEF MutatorDies, Smooth
<1>5. CASE TearBegin
  BY <1>5 DEF TearBegin, Smooth, Working, IsLive, LiveStatuses
<1>6. CASE TearCompose \/ TearNetworks
  BY <1>6 DEF TearCompose, TearNetworks, Smooth, Working, OneAtATime, NoDown, None
<1>7. CASE FleetUp
  <2>1. base' = base /\ UNCHANGED <<dbVars, bridges, file, job, api>>
    BY <1>7 DEF FleetUp, Excuse, Smooth
  <2> QED
    BY <2>1, StillFollows
<1>8. CASE UNCHANGED vars
  <2>1. UNCHANGED <<dbVars, bridges, base, file, job, api>>
    BY <1>8 DEF vars, dockerVars
  <2> QED
    BY <2>1, StillFollows
<1> QED
  BY <1>1, <1>2, <1>3, <1>4, <1>5, <1>6, <1>7, <1>8 DEF Next

\* A topology as deployed is wired.
LEMMA WiringStart == Init => WiringInv
<1> SUFFICES ASSUME Init PROVE WiringInv
  OBVIOUS
<1> DEFINE order == SetToSeq(FirstLans)
           home == [lan |-> order[1], ip |-> [net |-> 1, host |-> 1]]
           row == [uuid |-> 1, cfg |-> [ips |-> <<home>>, l3 |-> FALSE], services |-> Services,
                   state |-> "running"]
           place(l) == CHOOSE i \in DOMAIN order : order[i] = l
           first(l) == IF l \notin FirstLans THEN NoLan
                       ELSE [subnet |-> place(l), dmz |-> place(l) = 1]
<1>1. /\ status = "active" /\ job = Blank /\ api = NoApi /\ down = NoDown
      /\ lans = [l \in LanNames |-> first(l)]
      /\ bridges = [l \in LanNames |-> [m \in LanNames |-> first(m)][l].subnet]
      /\ rows = [d \in Deckies |-> IF d = 1 THEN row ELSE NoRow]
      /\ edges = {[d |-> 1, lan |-> home.lan, bridge |-> FALSE]}
      /\ base = [d \in Deckies |->
                    IF d = 1 THEN [project |-> Own, nets |-> {home}, l3 |-> FALSE] ELSE NoBase]
      /\ file = [d \in {1} |-> [nets |-> {home}, services |-> Services, l3 |-> FALSE]]
  BY DEF Init
<1>2. bridges = [l \in LanNames |-> lans[l].subnet]
  BY <1>1
<1>3. 1 \in Deckies /\ HomeInv /\ excuses = {}
  BY HomeStart, MutationOpsAssumption DEF Init
<1> HIDE DEF home, first, place, order
<1>4. rows[1] = row /\ row # NoRow /\ \A d \in Deckies : d # 1 => rows[d] = NoRow
  BY <1>1, <1>3 DEF NoRow
<1>5. row.cfg.ips = <<home>> /\ row.services = Services /\ row.state = "running"
  OBVIOUS
<1>6. DOMAIN <<home>> = {1} /\ <<home>>[1] = home
  OBVIOUS
<1>7. ToSet(<<home>>) = {home} /\ Keys(<<home>>) = {home.lan} /\ OneEach(<<home>>)
  BY <1>6 DEF ToSet, Keys, OneEach
<1>8. Home(row.cfg) = home.lan
  BY <1>5, <1>6 DEF Home
<1> HIDE DEF row
<1>9. BaseShape
  BY <1>1 DEF BaseShape, IsBase, NoBase, Projects, Own, None
<1>10. BridgeShape
  BY <1>2 DEF BridgeShape
<1>11. OneAtATime
  BY <1>1 DEF OneAtATime
<1>12. Caught
  BY <1>1, CaughtNow DEF Blank, AtWork, None
<1>13. RowsEdged
  <2>1. EdgeLans(1) = {home.lan} /\ \A d \in Deckies : d # 1 => EdgeLans(d) = {}
    <3> DEFINE x == [d |-> 1, lan |-> home.lan, bridge |-> FALSE]
    <3>1. x.d = 1 /\ x.lan = home.lan /\ edges = {x}
      BY <1>1
    <3> HIDE DEF x
    <3> QED
      BY <3>1 DEF EdgeLans
  <2>2. KeysOf(1) = {home.lan} /\ \A d \in Deckies : d # 1 => KeysOf(d) = {}
    BY <1>4, <1>5, <1>7 DEF KeysOf, HasRow
  <2> QED
    BY <1>12, <2>1, <2>2 DEF RowsEdged, Caught
<1>14. RowsOnce
  BY <1>4, <1>5, <1>7 DEF RowsOnce, HasRow
<1>15. LansKnown
  <2>1. lans[home.lan] # NoLan
    BY <1>3, <1>4, <1>8 DEF HomeInv, RowsHomed, HasRow, Unmoved
  <2> QED
    BY <1>1, <2>1 DEF LansKnown
<1>16. Bridged
  BY <1>2 DEF Bridged
<1>17. FileServes
  BY <1>1, <1>4, <1>5 DEF FileServes, HasRow
<1>18. JobDue /\ ApiDue
  BY <1>1 DEF JobDue, ApiDue, Blank, On, None
<1>19. Docked
  <2>1. base[1].nets = {home} /\ base[1].project = Own
    BY <1>1, <1>3
  <2>2. \A d \in Deckies : d # 1 => base[d].project = None
    BY <1>1 DEF NoBase
  <2> QED
    BY <1>4, <1>5, <1>7, <1>12, <2>1, <2>2 DEF Docked, Caught, HasRow, Own, None
<1> QED
  BY <1>9, <1>10, <1>11, <1>13, <1>14, <1>15, <1>16, <1>17, <1>18, <1>19
     DEF WiringInv, Follows, Tidy

\* As long as nothing is excused, one op or one live service change is at work at
\* a time, and at each of its steps the edges, the compose file, the bridges and
\* the base containers are behind the rows by no more than what it has still to
\* do (ops.py): for any number of LANs, deckies, services and mutations.
THEOREM WiringInvariant == Spec => []WiringInv
<1>1. HomeInv /\ WiringInv /\ [Next]_vars => WiringInv'
  BY WiringNext
<1> QED
  BY <1>1, WiringStart, HomeInvariant, PTL DEF Spec

\* Between two ops nothing is left to do.
LEMMA WiredWhenQuiet == ASSUME WiringInv PROVE WiresFollowRows
<1> SUFFICES ASSUME Quiet, IsLive, Strays = {}, excuses = {} PROVE Wired
  BY DEF WiresFollowRows
<1>1. job.at = None /\ job.at # "validate" /\ job.at \notin AtWork
  BY DEF Quiet, Blank, AtWork, None
<1>2. Tidy /\ Docked /\ Caught /\ BaseShape
  BY <1>1, CaughtNow DEF WiringInv, Working, Follows
<1>3. \A l \in LanNames : bridges[l] = lans[l].subnet
  BY <1>2 DEF Tidy, Bridged, Caught
<1>4. ASSUME NEW d \in Deckies, HasRow(d)
      PROVE  /\ Keys(rows[d].cfg.ips) = {e.lan : e \in {e \in edges : e.d = d}}
             /\ rows[d].state = "running" =>
                   base[d] # NoBase /\ base[d].nets = ToSet(rows[d].cfg.ips)
  <2>1. Keys(rows[d].cfg.ips) = EdgeLans(d)
    BY <1>2, <1>4 DEF Tidy, RowsEdged, KeysOf, Caught
  <2>2. rows[d].state = "running" => base[d].project # None /\ base[d].nets = ToSet(rows[d].cfg.ips)
    BY <1>2, <1>4 DEF Docked, Caught
  <2>3. base[d].project # None => base[d] # NoBase
    BY DEF NoBase
  <2> QED
    BY <2>1, <2>2, <2>3 DEF EdgeLans
<1> QED
  BY <1>3, <1>4 DEF Wired

\* "persisting intent first keeps the system self-healing" (ops.py:13): as long
\* as every mutation was accepted and nothing failed or overlapped, Docker is
\* what the rows say after each of them, whatever the mutations and their order.
THEOREM WiresFollowRowsTheorem == Spec => []WiresFollowRows
<1>1. WiringInv => WiresFollowRows
  BY WiredWhenQuiet
<1> QED
  BY <1>1, WiringInvariant, PTL

(* The types of rows, edges, LANs and Docker (MutationOps).  A decky that has *)
(* an edge without an address is given one by hydrate, so the addresses are   *)
(* of their type only where a LAN has a host for everybody.                   *)

\* Every LAN has room for all deckies (otherwise allocate_ip raises).
RoomForAll ==
    /\ IsFiniteSet(Hosts) /\ IsFiniteSet(Deckies)
    /\ Cardinality(Deckies) <= Cardinality(Hosts)

\* The numbers of S up to x.
UpTo(S, x) == {y \in S : y <= x}

\* The n-th of some numbers exists, for every n up to how many they are.
LEMMA RankTaken ==
    ASSUME NEW S, S \subseteq Nat, IsFiniteSet(S), NEW n \in 1..Cardinality(S)
    PROVE  \E x \in S : Cardinality(UpTo(S, x)) = n
<1> DEFINE N == 1..Cardinality(S)
           f == [x \in S |-> Cardinality(UpTo(S, x))]
<1>1. Cardinality(S) \in Nat
  BY FS_CardinalityType
<1>2. ASSUME NEW x \in S
      PROVE  /\ UpTo(S, x) \in SUBSET S /\ x \in UpTo(S, x) /\ IsFiniteSet(UpTo(S, x))
             /\ Cardinality(UpTo(S, x)) \in N
  <2>1. UpTo(S, x) \in SUBSET S /\ x \in UpTo(S, x)
    BY DEF UpTo
  <2>2. IsFiniteSet(UpTo(S, x)) /\ Cardinality(UpTo(S, x)) <= Cardinality(S)
    BY <2>1, FS_Subset
  <2>3. Cardinality(UpTo(S, x)) \in Nat
    BY <2>2, FS_CardinalityType
  <2>4. Cardinality(UpTo(S, x)) # 0
    BY <2>1, <2>2, FS_EmptySet
  <2> QED
    BY <1>1, <2>1, <2>2, <2>3, <2>4
<1>3. ASSUME NEW x \in S, NEW y \in S, x < y
      PROVE  Cardinality(UpTo(S, x)) # Cardinality(UpTo(S, y))
  <2>0. x < y /\ x \in Nat /\ y \in Nat
    BY <1>3
  <2>1. \A z \in S : z <= x => z <= y
    BY <2>0
  <2>2. ~(y <= x)
    BY <2>0
  <2>3. UpTo(S, x) \in SUBSET UpTo(S, y) /\ y \notin UpTo(S, x)
    BY <2>1, <2>2 DEF UpTo
  <2> QED
    BY <1>2, <2>3, FS_Subset
<1>4. \A x, y \in S : x = y \/ x < y \/ y < x
  OBVIOUS
<1>5. f \in Injection(S, N)
  <2>1. f \in [S -> N]
    BY <1>2
  <2>2. \A x, y \in S : f[x] = f[y] => x = y
    BY <1>3, <1>4
  <2> HIDE DEF f, N
  <2> QED
    BY <2>1, <2>2 DEF Injection, IsInjective
<1>6. IsFiniteSet(N) /\ Cardinality(N) = Cardinality(S)
  BY <1>1, FS_Interval
<1>7. f \in Surjection(S, N)
  <2> HIDE DEF f, N
  <2> QED
    BY <1>5, <1>6, FS_Injection
<1>8. \E x \in S : f[x] = n
  <2> HIDE DEF f
  <2> QED
    BY <1>7 DEF Surjection
<1> QED
  BY <1>8

\* The least of some numbers is one of them.
LEMMA LeastIn ==
    ASSUME NEW S, S \subseteq Nat, S # {} PROVE Least(S) \in S
<1>1. PICK x \in S : \A y \in S : ~(<<y, x>> \in OpToRel(<, Nat))
  BY NatLessThanWellFounded, WFMin
<1>2. \A y \in S : ~(y < x)
  BY <1>1 DEF OpToRel
<1>3. \A y \in S : x <= y
  BY <1>2
<1> QED
  BY <1>3 DEF Least

\* The numbers from 1 to n are n.
LEMMA CountToN == ASSUME NEW n \in Nat PROVE IsFiniteSet(1..n) /\ Cardinality(1..n) = n
<1>1. 1 \in Int /\ n \in Int
  OBVIOUS
<1>2. IsFiniteSet(1..n) /\ Cardinality(1..n) = IF 1 > n THEN 0 ELSE n - 1 + 1
  BY ONLY <1>1, FS_Interval
<1>3. (IF 1 > n THEN 0 ELSE n - 1 + 1) = n
  OBVIOUS
<1> QED
  BY <1>2, <1>3

\* A list with one address per LAN is as long as it has LANs.
LEMMA OnceCounts ==
    ASSUME NEW s, s \in Seq(ToSet(s)), OneEach(s) PROVE Len(s) = Cardinality(Keys(s))
<1> DEFINE f == [i \in 1..Len(s) |-> s[i].lan]
           N == 1..Len(s)
<1>1. Len(s) \in Nat /\ DOMAIN s = 1..Len(s)
  BY LenProperties
<1>2. f \in Surjection(N, Keys(s)) /\ f \in Injection(N, Keys(s))
  BY <1>1 DEF Surjection, Injection, IsInjective, Keys, OneEach
<1>3. IsFiniteSet(N) /\ Cardinality(N) = Len(s)
  BY ONLY <1>1, CountToN
<1> HIDE DEF f, N
<1> QED
  BY <1>2, <1>3, FS_Surjection

\* SetToSeq lists nothing twice.
LEMMA ListedOnce ==
    ASSUME NEW S, IsFiniteSet(S), NEW i \in DOMAIN SetToSeq(S), NEW j \in DOMAIN SetToSeq(S),
           SetToSeq(S)[i] = SetToSeq(S)[j]
    PROVE  i = j
<1>1. Cardinality(S) \in Nat /\ ExistsBijection(1..Cardinality(S), S)
  BY FS_CardinalityType
<1>2. \E f \in [1..Cardinality(S) -> S] : IsInjective(f)
  BY <1>1 DEF ExistsBijection, Bijection, Injection
<1>3. IsInjective(SetToSeq(S))
  BY <1>2 DEF SetToSeq
<1> QED
  BY <1>3 DEF IsInjective

\* Two lists with one address per LAN, and no LAN in common, make up one.
LEMMA ConcatOnce ==
    ASSUME NEW S, NEW s \in Seq(S), NEW T, NEW t \in Seq(T), OneEach(s), OneEach(t),
           \A b \in T : b.lan \notin Keys(s)
    PROVE  OneEach(s \o t)
<1>1. s \in Seq(S \cup T) /\ t \in Seq(S \cup T)
  BY SeqMonotonic
<1>2. /\ s \o t \in Seq(S \cup T) /\ Len(s \o t) = Len(s) + Len(t)
      /\ \A i \in 1..Len(s) + Len(t) :
            (s \o t)[i] = IF i <= Len(s) THEN s[i] ELSE t[i - Len(s)]
  BY <1>1, ConcatProperties
<1>3. /\ Len(s) \in Nat /\ DOMAIN s = 1..Len(s) /\ Len(t) \in Nat /\ DOMAIN t = 1..Len(t)
      /\ DOMAIN (s \o t) = 1..Len(s) + Len(t)
  BY <1>2, LenProperties
<1>4. \A j \in 1..Len(t) : t[j] \in T
  BY ElementOfSeq
<1>5. ASSUME NEW i \in 1..Len(s) + Len(t)
      PROVE  \/ i \in DOMAIN s /\ (s \o t)[i] = s[i]
             \/ i - Len(s) \in DOMAIN t /\ (s \o t)[i] = t[i - Len(s)]
  BY <1>2, <1>3
<1>6. ASSUME NEW i \in DOMAIN s, NEW j \in DOMAIN t PROVE s[i].lan # t[j].lan
  BY <1>3, <1>4 DEF Keys
<1>7. ASSUME NEW i \in 1..Len(s) + Len(t), NEW j \in 1..Len(s) + Len(t),
             (s \o t)[i].lan = (s \o t)[j].lan
      PROVE  i = j
  <2>1. \/ i \in DOMAIN s /\ j \in DOMAIN s /\ s[i].lan = s[j].lan
        \/ i - Len(s) \in DOMAIN t /\ j - Len(s) \in DOMAIN t /\ t[i - Len(s)].lan = t[j - Len(s)].lan
    BY <1>5, <1>6, <1>7
  <2>2. i = j \/ i - Len(s) = j - Len(s)
    BY <2>1 DEF OneEach
  <2> QED
    BY <1>3, <2>2
<1> QED
  BY <1>3, <1>7 DEF OneEach

\* A put leaves one address per LAN.
LEMMA PutOnce ==
    ASSUME NEW s, s \in Seq(ToSet(s)), OneEach(s), NEW a
    PROVE  OneEach(Put(s, a)) /\ ToSet(Put(s, a)) \subseteq ToSet(s) \cup {a}
<1>1. CASE a.lan \notin Keys(s)
  BY <1>1, PutAdds
<1>2. CASE a.lan \in Keys(s)
  <2>1. Put(s, a) = [i \in DOMAIN s |-> IF s[i].lan = a.lan THEN a ELSE s[i]]
    BY <1>2 DEF Put
  <2>2. /\ DOMAIN Put(s, a) = DOMAIN s
        /\ \A i \in DOMAIN s : /\ Put(s, a)[i] \in {a, s[i]} /\ Put(s, a)[i].lan = s[i].lan
    BY <2>1
  <2> QED
    BY <2>2 DEF OneEach, ToSet
<1> QED
  BY <1>1, <1>2

\* The addresses of a configuration are addresses, one per LAN.
GoodConfig(c) == IsConfig(c) /\ OneEach(c.ips)

\* The members of a LAN that have an address in it, each with its own host, leave
\* a host for every member that has none: what hydrate gives out is an address.
LEMMA BackfillsAddress ==
    ASSUME RoomForAll, NEW d \in Deckies, NEW l \in LanNames, d \in Members(l),
           l \notin Keys(rows[d].cfg.ips), lans[l].subnet \in Subnets,
           \A e \in Members(l) : OneEach(rows[e].cfg.ips)
    PROVE  Backfilled(d, l) \in Address /\ Backfilled(d, l).lan = l
<1> DEFINE Of(h) == [lan |-> l, ip |-> [net |-> lans[l].subnet, host |-> h]]
           gaps == {e \in Members(l) : l \notin Keys(rows[e].cfg.ips)}
           reserved == {h \in Hosts : \E e \in Members(l) :
                           ToSet(rows[e].cfg.ips) \cap {Of(h)} # {}}
           served == Members(l) \ gaps
           free == Hosts \ reserved
<1>1. Members(l) \in SUBSET Deckies /\ gaps \in SUBSET Members(l) /\ served \in SUBSET Deckies
  BY DEF Members
<1>2. IsFiniteSet(Members(l)) /\ IsFiniteSet(served) /\ IsFiniteSet(gaps)
      /\ Cardinality(Members(l)) <= Cardinality(Deckies)
  BY <1>1, FS_Subset DEF RoomForAll
<1>3. IsFiniteSet(reserved) /\ Cardinality(reserved) <= Cardinality(served)
  <2> DEFINE Has(e, h) == Of(h) \in ToSet(rows[e].cfg.ips)
             g == [h \in reserved |-> CHOOSE e \in Members(l) : Has(e, h)]
  <2>1. ASSUME NEW h \in reserved PROVE g[h] \in Members(l) /\ Has(g[h], h)
    <3>1. \E e \in Members(l) : Has(e, h)
      OBVIOUS
    <3> QED
      BY <3>1
  <2>2. ASSUME NEW h \in reserved PROVE g[h] \in served
    <3>1. Of(h).lan = l
      OBVIOUS
    <3>2. l \in Keys(rows[g[h]].cfg.ips)
      BY <2>1, <3>1, KeysOfAddresses
    <3> HIDE DEF g
    <3> QED
      BY <2>1, <3>2
  <2>3. ASSUME NEW h \in reserved, NEW k \in reserved, g[h] = g[k] PROVE h = k
    <3>1. PICK e \in Members(l) : Has(e, h) /\ Has(e, k)
      BY <2>1, <2>3
    <3>2. PICK i \in DOMAIN rows[e].cfg.ips : rows[e].cfg.ips[i] = Of(h)
      BY <3>1 DEF ToSet
    <3>3. PICK j \in DOMAIN rows[e].cfg.ips : rows[e].cfg.ips[j] = Of(k)
      BY <3>1 DEF ToSet
    <3>4. i = j
      BY <3>2, <3>3 DEF OneEach
    <3>5. Of(h).ip.host = Of(k).ip.host
      BY <3>2, <3>3, <3>4
    <3> QED
      BY <3>5
  <2>4. g \in Injection(reserved, served)
    <3>1. g \in [reserved -> served]
      BY <2>2
    <3> HIDE DEF g, reserved, served
    <3> QED
      BY <2>3, <3>1 DEF Injection, IsInjective
  <2> HIDE DEF g, reserved, served
  <2> QED
    BY <1>2, <2>4, FS_Injection
<1>4. Cardinality(gaps) <= Cardinality(free) /\ IsFiniteSet(free)
  <2>1. /\ Cardinality(served) = Cardinality(Members(l)) - Cardinality(Members(l) \cap gaps)
        /\ Members(l) \cap gaps = gaps
    BY <1>1, <1>2, FS_Difference
  <2>2. /\ Cardinality(free) = Cardinality(Hosts) - Cardinality(Hosts \cap reserved)
        /\ Hosts \cap reserved = reserved /\ IsFiniteSet(free)
    BY FS_Difference DEF RoomForAll
  <2> HIDE DEF gaps, served, free, reserved
  <2>3. /\ Cardinality(gaps) \in Nat /\ Cardinality(Members(l)) \in Nat
        /\ Cardinality(Hosts) \in Nat /\ Cardinality(reserved) \in Nat
        /\ Cardinality(Deckies) \in Nat
    BY <1>2, <1>3, FS_CardinalityType DEF RoomForAll
  <2>4. Cardinality(served) = Cardinality(Members(l)) - Cardinality(gaps)
    BY <2>1
  <2>5. Cardinality(free) = Cardinality(Hosts) - Cardinality(reserved)
    BY <2>2
  <2>6. Cardinality(Deckies) <= Cardinality(Hosts)
    BY DEF RoomForAll
  <2>7. Cardinality(gaps) <= Cardinality(free)
    BY <1>2, <1>3, <2>3, <2>4, <2>5, <2>6
  <2> QED
    BY <2>2, <2>7
<1>5. gaps \subseteq Nat /\ free \subseteq Nat /\ d \in gaps
  BY <1>1, MutationOpsAssumption
<1>6. Cardinality(UpTo(gaps, d)) \in 1..Cardinality(free)
  <2> HIDE DEF gaps, free
  <2>1. UpTo(gaps, d) \in SUBSET gaps /\ d \in UpTo(gaps, d)
    BY <1>5 DEF UpTo
  <2>2. IsFiniteSet(UpTo(gaps, d)) /\ Cardinality(UpTo(gaps, d)) <= Cardinality(gaps)
    BY <1>2, <2>1, FS_Subset
  <2>3. Cardinality(UpTo(gaps, d)) # 0
    BY <2>1, <2>2, FS_EmptySet
  <2>4. Cardinality(UpTo(gaps, d)) \in Nat /\ Cardinality(gaps) \in Nat /\ Cardinality(free) \in Nat
    BY <1>2, <1>4, <2>2, FS_CardinalityType
  <2> QED
    BY <1>4, <2>2, <2>3, <2>4
<1>7. \E h \in free : Cardinality(UpTo(free, h)) = Cardinality(UpTo(gaps, d))
  <2> HIDE DEF gaps, free
  <2> QED
    BY <1>4, <1>5, <1>6, RankTaken
<1>8. Backfilled(d, l)
      = Of(CHOOSE h \in free : Cardinality(UpTo(free, h)) = Cardinality(UpTo(gaps, d)))
  BY DEF Backfilled, UpTo
<1>9. PICK h \in Hosts : Backfilled(d, l) = Of(h)
  BY <1>7, <1>8
<1> QED
  BY <1>9 DEF Address

LansTyped == lans \in [LanNames -> [subnet : Subnets, dmz : BOOLEAN] \cup {NoLan}]

GoodRow(r) ==
    GoodConfig(r.cfg) /\ r.services \subseteq Services /\ r.state \in {"pending", "running"}

RowsGood == \A d \in Deckies : HasRow(d) => GoodRow(rows[d])

\* What an op has read, and what it will write.
JobGood ==
    /\ job.d \in Deckies \cup {0} /\ job.l3 \in BOOLEAN
    /\ job.add \subseteq Services /\ job.services \subseteq Services
    /\ job.op \in {"add_decky", "attach_decky"} => job.ip \in Address
    /\ job.op \in {"attach_decky", "detach_decky", "update_decky", "remove_lan"} =>
          \A d \in Deckies : HasRow(d) => GoodConfig(job.cfg[d])

\* The LAN an edge is about to lead to is there, and the one that is about to be
\* dropped has no edge but those of the visitors left.
OpLan ==
    /\ job.op \in {"add_decky", "attach_decky"} /\ job.at \in {"write", "edge"} =>
          job.lan \in LanNames /\ lans[job.lan] # NoLan
    /\ job.op = "remove_lan" =>
          Members(job.lan) \subseteq job.visitors /\ (job.at = "drop" => job.visitors = {})

ApiGood ==
    api.kind # None =>
        /\ GoodConfig(api.cfg) /\ api.services \subseteq Services /\ api.s \in Services

DockerGood ==
    /\ bridges \in [LanNames -> Subnets \cup {NoNet}]
    /\ \A d \in Deckies : base[d].nets \subseteq Address
    /\ svc \in [Deckies -> [Services -> Projects]]
    /\ \A d \in DOMAIN file \ {0} : file[d].nets \subseteq Address

WordsGood == status \in ALL /\ excuses \subseteq {"disturbed", "fleet", "rename", "patch"}

RowsInv == LansTyped /\ LansKnown /\ RowsGood

TypesInv == RowsInv /\ JobGood /\ OpLan /\ ApiGood /\ DockerGood /\ WordsGood

\* Zero is nobody's name, number or subnet.
LEMMA ZeroIsNobody == 0 \notin Deckies /\ 0 \notin Hosts /\ 0 \notin Subnets
BY MutationOpsAssumption

\* A LAN that exists has a subnet.
LEMMA LanHasSubnet ==
    ASSUME LansTyped, NEW l \in LanNames
    PROVE  /\ lans[l].subnet \in Subnets \cup {NoNet}
           /\ lans[l] # NoLan => lans[l].subnet \in Subnets
BY DEF LansTyped, NoLan

\* hydrate keeps a row's addresses and adds one for each edge that has none.
LEMMA HydrateGood ==
    ASSUME RoomForAll, HomeInv, RowsInv, NEW d \in Deckies, HasRow(d)
    PROVE  GoodConfig(Config(d))
<1> DEFINE ips == rows[d].cfg.ips
           gaps == {l \in LanNames : d \in Members(l) /\ l \notin Keys(ips)}
           more == {Backfilled(d, l) : l \in gaps}
<1>1. Config(d) = [rows[d].cfg EXCEPT !.ips = ips \o SetToSeq(more)]
  BY DEF Config
<1>2. IsRow(rows[d]) /\ GoodConfig(rows[d].cfg)
  BY DEF HomeInv, RowsHomed, RowsInv, RowsGood, GoodRow
<1>3. Homed(rows[d].cfg) /\ ips \in Seq(ToSet(ips))
  BY <1>2 DEF IsRow, Homed
<1>4. ASSUME NEW l \in gaps
      PROVE  Backfilled(d, l) \in Address /\ Backfilled(d, l).lan = l /\ l \notin Keys(ips)
  <2>1. PICK e \in edges : e.d = d /\ e.lan = l
    BY DEF Members
  <2>2. lans[l] # NoLan
    BY <2>1 DEF RowsInv, LansKnown
  <2>3. lans[l].subnet \in Subnets
    BY <2>2, LanHasSubnet DEF RowsInv
  <2>4. ASSUME NEW m \in Members(l) PROVE OneEach(rows[m].cfg.ips)
    <3>1. m \in Deckies /\ HasRow(m)
      BY DEF Members, HomeInv, RowsHomed
    <3> QED
      BY <3>1 DEF RowsInv, RowsGood, GoodRow, GoodConfig
  <2> QED
    BY <2>3, <2>4, BackfillsAddress
<1>5. IsFiniteSet(more)
  <2>1. IsFiniteSet(gaps)
    BY MutationOpsAssumption, FS_Subset
  <2> HIDE DEF gaps
  <2> DEFINE f == [l \in gaps |-> Backfilled(d, l)]
  <2>2. f \in Surjection(gaps, more)
    BY DEF Surjection
  <2> HIDE DEF f, more
  <2> QED
    BY <2>1, <2>2, FS_Surjection
<1>6. SetToSeq(more) \in Seq(more)
  BY <1>5, ListOfSet
<1>7. \A b \in more : b \in Address /\ b.lan \notin Keys(ips)
  BY <1>4
<1>8. \A a, b \in more : a.lan = b.lan => a = b
  <2> SUFFICES ASSUME NEW k \in gaps, NEW l \in gaps, Backfilled(d, k).lan = Backfilled(d, l).lan
               PROVE  Backfilled(d, k) = Backfilled(d, l)
    OBVIOUS
  <2>1. k = l
    BY <1>4
  <2> QED
    BY <2>1
<1> HIDE DEF more, gaps, ips
<1>9. OneEach(SetToSeq(more))
  <2> DEFINE t == SetToSeq(more)
  <2> SUFFICES ASSUME NEW i \in DOMAIN t, NEW j \in DOMAIN t, t[i].lan = t[j].lan
               PROVE  i = j
    BY DEF OneEach
  <2>1. t[i] \in more /\ t[j] \in more
    BY <1>6, LenProperties, ElementOfSeq
  <2>2. t[i] = t[j]
    BY <1>8, <2>1
  <2> QED
    BY <1>5, <2>2, ListedOnce
<1>10. OneEach(ips)
  BY <1>2 DEF GoodConfig, ips
<1>11. OneEach(ips \o SetToSeq(more))
  BY <1>3, <1>6, <1>7, <1>9, <1>10, ConcatOnce
<1>12. ToSet(ips \o SetToSeq(more)) \subseteq ToSet(ips) \cup more
  BY <1>3, <1>6, ConcatAddresses
<1>13. ToSet(ips) \subseteq Address /\ rows[d].cfg.l3 \in BOOLEAN
  BY <1>2 DEF GoodConfig, IsConfig, ips
<1>14. Config(d) = [ips |-> ips \o SetToSeq(more), l3 |-> rows[d].cfg.l3]
  BY <1>1, <1>3 DEF Homed
<1> QED
  BY <1>7, <1>11, <1>12, <1>13, <1>14 DEF GoodConfig, IsConfig

LEMMA ConfigsGood ==
    ASSUME RoomForAll, HomeInv, RowsInv
    PROVE  \A d \in Deckies : HasRow(d) =>
               d \in DOMAIN Configs /\ Configs[d] = Config(d) /\ GoodConfig(Configs[d])
BY HydrateGood DEF Configs

\* The compose file as rendered connects containers to addresses.
LEMMA RenderedGood ==
    ASSUME RoomForAll, HomeInv, RowsInv, DockerGood
    PROVE  \A d \in DOMAIN Rendered \ {0} : Rendered[d].nets \subseteq Address
<1>1. CASE ~Renders
  BY <1>1 DEF Rendered, DockerGood
<1>2. CASE Renders
  <2>1. Rendered = [d \in DOMAIN Configs |->
            [nets |-> ToSet(Configs[d].ips), services |-> rows[d].services, l3 |-> Configs[d].l3]]
    BY <1>2 DEF Rendered
  <2>2. \A d \in DOMAIN Configs : d \in Deckies /\ HasRow(d)
    BY DEF Configs
  <2> QED
    BY <2>1, <2>2, ConfigsGood DEF GoodConfig, IsConfig
<1> QED
  BY <1>1, <1>2

\* The allocator hands out an address of the LAN.
LEMMA AllocatesAddress ==
    ASSUME LansTyped, NEW l \in LanNames, lans[l] # NoLan, NEW pin \in PinnedHosts \cup {0},
           Allocates(l, pin)
    PROVE  NewAddress(l, pin) \in Address
<1> DEFINE host == IF pin # 0 \/ FreeHosts(l) = {} THEN pin ELSE Least(FreeHosts(l))
<1>1. FreeHosts(l) \subseteq Hosts /\ FreeHosts(l) \subseteq Nat
  BY MutationOpsAssumption DEF FreeHosts
<1>2. CASE pin # 0
  BY <1>2, LanHasSubnet, MutationOpsAssumption DEF NewAddress, Address
<1>3. CASE pin = 0
  <2>1. FreeHosts(l) # {}
    BY <1>3 DEF Allocates
  <2>2. Least(FreeHosts(l)) \in Hosts
    BY <1>1, <2>1, LeastIn
  <2> QED
    BY <1>3, <2>1, <2>2, LanHasSubnet DEF NewAddress, Address
<1> QED
  BY <1>2, <1>3

\* The op goes on with what it has read, past its last write but that of an edge.
OpOn ==
    /\ job'.op = job.op /\ job'.lan = job.lan /\ job'.ip = job.ip /\ job'.l3 = job.l3
    /\ job'.cfg = job.cfg /\ job'.services = job.services /\ job'.add = job.add
    /\ job'.visitors = job.visitors /\ job'.d \in Deckies \cup {0}
    /\ job'.at \notin {"write", "drop"} /\ (job'.at = "edge" => job.at = "write")

LEMMA GotoOn ==
    ASSUME HomeInv, JobGood, NEW at, Goto(at), at \notin {"write", "drop"},
           at = "edge" => job.at = "write"
    PROVE  OpOn
BY GotoKeeps DEF OpOn, SameJob, JobGood

OpInv == RowsInv /\ JobGood /\ OpLan

\* A step that removes no LAN and adds no edge, and writes only good rows.
LEMMA OpStep ==
    ASSUME HomeInv, OpInv, job' = Blank \/ OpOn, lans' = lans, edges' \subseteq edges,
           \A d \in Deckies : rows'[d] # NoRow =>
               \/ rows'[d] = rows[d]
               \/ (HasRow(d) \/ job.op = "add_decky") /\ GoodRow(rows'[d])
    PROVE  OpInv'
<1>1. LansTyped' /\ LansKnown'
  BY DEF OpInv, RowsInv, LansTyped, LansKnown
<1>2. RowsGood'
  BY DEF OpInv, RowsInv, RowsGood, HasRow
<1>3. JobGood'
  <2>1. CASE job' = Blank
    BY <2>1 DEF JobGood, Blank, None
  <2>2. CASE OpOn
    <3>1. ASSUME NEW d \in Deckies, rows'[d] # NoRow, job.op # "add_decky" PROVE HasRow(d)
      BY <3>1 DEF HasRow
    <3> QED
      BY <2>2, <3>1 DEF OpInv, JobGood, OpOn, HasRow
  <2> QED
    BY <2>1, <2>2
<1>4. OpLan'
  <2>1. CASE job' = Blank
    BY <2>1 DEF OpLan, Blank, None
  <2>2. CASE OpOn
    <3>1. job.op = "remove_lan" => Members(job.lan)' \subseteq Members(job.lan)
      BY <2>2 DEF Members, OpOn
    <3>2. job'.op = "remove_lan" => Members(job.lan)' \subseteq job'.visitors
      BY <2>2, <3>1 DEF OpInv, OpLan, OpOn
    <3> QED
      BY <2>2, <3>2 DEF OpInv, OpLan, OpOn
  <2> QED
    BY <2>1, <2>2
<1> QED
  BY <1>1, <1>2, <1>3, <1>4 DEF OpInv, RowsInv

\* A step that leaves the rows alone.
LEMMA QuietTypes ==
    ASSUME HomeInv, OpInv, UNCHANGED dbVars, job' = Blank \/ OpOn PROVE OpInv'
<1>1. UNCHANGED <<lans, rows, edges>>
  BY DEF dbVars
<1> QED
  BY <1>1, OpStep

LEMMA IdleTypes == ASSUME OpInv, UNCHANGED <<dbVars, job>> PROVE OpInv'
<1>1. UNCHANGED <<lans, rows, edges, job>>
  BY DEF dbVars
<1> QED
  BY <1>1 DEF OpInv, RowsInv, LansTyped, LansKnown, RowsGood, GoodRow, GoodConfig, JobGood,
     OpLan, Members, HasRow

\* One row is written.
LEMMA RowTypes ==
    ASSUME HomeInv, OpInv, NEW d \in Deckies, HasRow(d) \/ job.op = "add_decky",
           NEW r, rows' = [rows EXCEPT ![d] = r], r = NoRow \/ GoodRow(r),
           UNCHANGED lans, edges' \subseteq edges, OpOn
    PROVE  OpInv'
<1>1. rows'[d] = r /\ \A e \in Deckies \ {d} : rows'[e] = rows[e]
  BY OneRow
<1> QED
  BY <1>1, OpStep

LEMMA AddTypes == ASSUME HomeInv, OpInv, WriteAdd PROVE OpInv'
<1> DEFINE r == [uuid |-> left.ops + 2, cfg |-> [ips |-> <<job.ip>>, l3 |-> job.l3],
                 services |-> job.add, state |-> "pending"]
<1>1. /\ job.op = "add_decky" /\ job.at = "write" /\ Goto("edge") /\ UNCHANGED <<edges, lans>>
      /\ rows' = [rows EXCEPT ![job.d] = r]
  BY DEF WriteAdd, On, RowStep
<1>2. OpOn
  BY <1>1, GotoOn DEF OpInv
<1>3. GoodRow(r)
  <2>1. job.ip \in Address /\ job.l3 \in BOOLEAN /\ job.add \subseteq Services
    BY <1>1 DEF OpInv, JobGood
  <2>2. ToSet(<<job.ip>>) = {job.ip} /\ OneEach(<<job.ip>>)
    BY DEF ToSet, OneEach
  <2> QED
    BY <2>1, <2>2 DEF GoodRow, GoodConfig, IsConfig
<1>4. job.d \in Deckies
  BY <1>1 DEF HomeInv, JobHomes
<1> HIDE DEF r
<1> QED
  BY <1>1, <1>2, <1>3, <1>4, RowTypes

\* decky_config is replaced.
LEMMA ConfigTypes ==
    ASSUME HomeInv, OpInv, NEW d \in Deckies, HasRow(d), NEW c, GoodConfig(c),
           rows' = [rows EXCEPT ![d].cfg = c], UNCHANGED <<edges, lans>>, OpOn
    PROVE  OpInv'
<1>1. rows' = [rows EXCEPT ![d] = [rows[d] EXCEPT !.cfg = c]]
  OBVIOUS
<1>2. IsRow(rows[d]) /\ GoodRow(rows[d])
  BY DEF HomeInv, RowsHomed, OpInv, RowsInv, RowsGood
<1>3. GoodRow([rows[d] EXCEPT !.cfg = c])
  <2>1. [rows[d] EXCEPT !.cfg = c] = [uuid |-> rows[d].uuid, cfg |-> c, services |-> rows[d].services,
                                      state |-> rows[d].state]
    BY <1>2 DEF IsRow
  <2> QED
    BY <1>2, <2>1 DEF GoodRow
<1> QED
  BY <1>1, <1>3, RowTypes

LEMMA AttachTypes == ASSUME HomeInv, OpInv, WriteAttach PROVE OpInv'
<1> DEFINE d == job.d
           c == [ips |-> Put(job.cfg[d].ips, job.ip), l3 |-> job.cfg[d].l3 \/ job.l3]
<1>1. /\ job.op = "attach_decky" /\ job.at = "write" /\ Goto("edge") /\ UNCHANGED <<edges, lans>>
      /\ rows' = [rows EXCEPT ![d].cfg = c]
  BY DEF WriteAttach, On, RowStep
<1>2. OpOn
  BY <1>1, GotoOn DEF OpInv
<1>3. d \in Deckies /\ HasRow(d) /\ Homed(job.cfg[d]) /\ GoodConfig(job.cfg[d]) /\ job.ip \in Address
  BY <1>1 DEF HomeInv, JobHomes, OpInv, JobGood
<1>4. GoodConfig(c)
  <2> DEFINE s == job.cfg[d].ips
  <2>1. s \in Seq(ToSet(s)) /\ OneEach(s) /\ ToSet(s) \subseteq Address
    BY <1>3 DEF Homed, GoodConfig, IsConfig
  <2>2. OneEach(Put(s, job.ip)) /\ ToSet(Put(s, job.ip)) \subseteq ToSet(s) \cup {job.ip}
    BY <2>1, PutOnce
  <2>3. c.ips = Put(s, job.ip) /\ c.l3 \in BOOLEAN
    OBVIOUS
  <2> HIDE DEF s, c
  <2> QED
    BY <1>3, <2>1, <2>2, <2>3 DEF GoodConfig, IsConfig
<1> HIDE DEF c, d
<1> QED
  BY <1>1, <1>2, <1>3, <1>4, ConfigTypes

\* A pop leaves a good configuration.
LEMMA PopGood ==
    ASSUME NEW c, Homed(c), GoodConfig(c), NEW l PROVE GoodConfig([c EXCEPT !.ips = Pop(@, l)])
<1>1. [c EXCEPT !.ips = Pop(@, l)] = [ips |-> Pop(c.ips, l), l3 |-> c.l3]
  BY DEF Homed
<1>2. ToSet(Pop(c.ips, l)) = {a \in ToSet(c.ips) : a.lan # l} /\ OneEach(Pop(c.ips, l))
  BY PopTakes DEF Homed, GoodConfig
<1> QED
  BY <1>1, <1>2 DEF GoodConfig, IsConfig

LEMMA DetachTypes == ASSUME HomeInv, OpInv, WriteDetach PROVE OpInv'
<1> DEFINE d == job.d
           c == [job.cfg[d] EXCEPT !.ips = Pop(@, job.lan)]
<1>1. /\ job.op = "detach_decky" /\ Goto("unedge") /\ UNCHANGED <<edges, lans>>
      /\ rows' = [rows EXCEPT ![d].cfg = c]
  BY DEF WriteDetach, On, RowStep
<1>2. OpOn
  BY <1>1, GotoOn DEF OpInv
<1>3. d \in Deckies /\ HasRow(d) /\ Homed(job.cfg[d]) /\ GoodConfig(job.cfg[d])
  BY <1>1 DEF HomeInv, JobHomes, OpInv, JobGood
<1>4. GoodConfig(c)
  BY <1>3, PopGood
<1> HIDE DEF c, d
<1> QED
  BY <1>1, <1>2, <1>3, <1>4, ConfigTypes

LEMMA VisitorTypes == ASSUME HomeInv, OpInv, WriteVisitor PROVE OpInv'
<1>1. job.op = "remove_lan" /\ UNCHANGED <<edges, lans>>
  BY DEF WriteVisitor, On, RowStep
<1>2. PICK d \in job.visitors :
          /\ rows' = [rows EXCEPT ![d].cfg = [job.cfg[d] EXCEPT !.ips = Pop(@, job.lan)]]
          /\ job' = [job EXCEPT !.d = d, !.at = "check"]
  BY DEF WriteVisitor
<1>3. IsJob(job)
  BY DEF HomeInv, Shapes
<1>4. d \in Deckies /\ HasRow(d) /\ Homed(job.cfg[d]) /\ GoodConfig(job.cfg[d])
  BY <1>1, <1>3 DEF HomeInv, JobHomes, IsJob, OpInv, JobGood
<1>5. OpOn
  BY <1>2, <1>3, <1>4 DEF OpOn, IsJob, JobFields
<1>6. GoodConfig([job.cfg[d] EXCEPT !.ips = Pop(@, job.lan)])
  BY <1>4, PopGood
<1> QED
  BY <1>1, <1>2, <1>4, <1>5, <1>6, ConfigTypes

LEMMA RemoveTypes == ASSUME HomeInv, OpInv, WriteRemove PROVE OpInv'
<1>1. /\ Goto("check") /\ UNCHANGED lans /\ edges' \subseteq edges
      /\ rows' = [rows EXCEPT ![job.d] = NoRow]
  BY DEF WriteRemove, RowStep
<1>2. OpOn
  BY <1>1, GotoOn DEF OpInv
<1>3. \A d \in Deckies : rows'[d] # NoRow => rows'[d] = rows[d]
  BY <1>1 DEF HomeInv, Shapes
<1> QED
  BY <1>1, <1>2, <1>3, OpStep

LEMMA UpdateTypes == ASSUME HomeInv, OpInv, WriteUpdate PROVE OpInv'
<1>1. /\ job.op = "update_decky" /\ UNCHANGED <<edges, lans>>
      /\ Goto(IF job.add \cup job.del # {} THEN "check" ELSE "check_l3")
  BY DEF WriteUpdate, On, RowStep
<1>2. OpOn
  BY <1>1, GotoOn DEF OpInv
<1>3. job.d \in Deckies /\ HasRow(job.d) /\ Homed(job.cfg[job.d]) /\ GoodConfig(job.cfg[job.d])
  BY <1>1 DEF HomeInv, JobHomes, OpInv, JobGood
<1>4. GoodRow(rows[job.d])
  BY <1>3 DEF OpInv, RowsInv, RowsGood
<1>5. GoodConfig([job.cfg[job.d] EXCEPT !.l3 = job.l3])
  <2>1. [job.cfg[job.d] EXCEPT !.l3 = job.l3] = [ips |-> job.cfg[job.d].ips, l3 |-> job.l3]
    BY <1>3 DEF Homed
  <2>2. job.l3 \in BOOLEAN
    BY DEF OpInv, JobGood
  <2> QED
    BY <1>3, <2>1, <2>2 DEF GoodConfig, IsConfig
<1>6. job.services \subseteq Services
  BY DEF OpInv, JobGood
<1>7. GoodRow(UpdatedRow)
  BY <1>4, <1>5, <1>6 DEF GoodRow, UpdatedRow
<1> QED
  BY <1>1, <1>2, <1>3, <1>7, UpdateRow, RowTypes

LEMMA RunningTypes == ASSUME HomeInv, OpInv, WriteRunning PROVE OpInv'
<1> DEFINE d == job.d
           r == [rows[d] EXCEPT !.state = "running"]
<1>1. /\ job.op = "add_decky" /\ job.at = "state" /\ rows' = [rows EXCEPT ![d] = r]
      /\ Goto("validate") /\ UNCHANGED <<edges, lans>>
  BY DEF WriteRunning, On, RowStep
<1>2. OpOn
  BY <1>1, GotoOn DEF OpInv
<1>3. d \in Deckies /\ HasRow(d)
  BY <1>1 DEF HomeInv, JobHomes
<1>4. IsRow(rows[d]) /\ GoodRow(rows[d])
  BY <1>3 DEF HomeInv, RowsHomed, OpInv, RowsInv, RowsGood
<1>5. r = [uuid |-> rows[d].uuid, cfg |-> rows[d].cfg, services |-> rows[d].services,
           state |-> "running"]
  BY <1>4 DEF IsRow
<1>6. GoodRow(r)
  BY <1>4, <1>5 DEF GoodRow
<1> HIDE DEF d, r
<1> QED
  BY <1>1, <1>2, <1>3, <1>6, RowTypes

LEMMA AddEdgeTypes == ASSUME HomeInv, OpInv, AddEdge PROVE OpInv'
<1>1. /\ job.op \in {"add_decky", "attach_decky"} /\ job.at = "edge" /\ Goto("check")
      /\ UNCHANGED <<rows, lans>>
      /\ edges' = edges \cup {[d |-> job.d, lan |-> job.lan, bridge |-> job.op = "attach_decky"]}
  BY DEF AddEdge, On, RowStep
<1>2. OpOn
  BY <1>1, GotoOn DEF OpInv
<1>3. lans[job.lan] # NoLan
  BY <1>1 DEF OpInv, OpLan
<1>4. LansTyped' /\ LansKnown' /\ RowsGood'
  BY <1>1, <1>3 DEF OpInv, RowsInv, LansTyped, LansKnown, RowsGood, HasRow
<1>5. JobGood'
  BY <1>1, <1>2 DEF OpInv, JobGood, OpOn, HasRow
<1>6. job'.at = "check"
  BY <1>1, GotoKeeps
<1>7. OpLan'
  BY <1>1, <1>2, <1>6 DEF OpLan, OpOn
<1> QED
  BY <1>4, <1>5, <1>7 DEF OpInv, RowsInv

LEMMA DeleteEdgeTypes == ASSUME HomeInv, OpInv, DeleteEdge PROVE OpInv'
<1> DEFINE others == job.visitors \ {job.d}
<1>1. /\ job.op \in {"detach_decky", "remove_lan"} /\ UNCHANGED <<rows, lans>>
      /\ edges' = {e \in edges : e.d # job.d \/ e.lan # job.lan}
      /\ IF job.op = "detach_decky" THEN Goto("check")
         ELSE job' = [job EXCEPT !.visitors = others, !.d = 0,
                                 !.at = IF others = {} THEN "drop" ELSE "write"]
  BY DEF DeleteEdge, On, RowStep
<1>2. edges' \subseteq edges
  BY <1>1
<1>3. CASE job.op = "detach_decky"
  <2>1. OpOn
    BY <1>1, <1>3, GotoOn DEF OpInv
  <2> QED
    BY <1>1, <1>2, <2>1, OpStep
<1>4. CASE job.op = "remove_lan"
  <2>0. PICK d, l : d = job.d /\ l = job.lan
    OBVIOUS
  <2>1. IsJob(job)
    BY DEF HomeInv, Shapes
  <2>2. /\ job'.op = job.op /\ job'.lan = l /\ job'.l3 = job.l3 /\ job'.cfg = job.cfg
        /\ job'.services = job.services /\ job'.add = job.add /\ job'.d = 0
        /\ job'.visitors = job.visitors \ {d}
        /\ job'.at = "drop" => job'.visitors = {}
    BY <1>1, <1>4, <2>0, <2>1 DEF IsJob, JobFields
  <2>3. Members(l)' \subseteq Members(l) \ {d}
    BY <1>1, <2>0 DEF Members
  <2>4. Members(l) \subseteq job.visitors
    BY <1>4, <2>0 DEF OpInv, OpLan
  <2>5. OpLan'
    BY <1>4, <2>2, <2>3, <2>4 DEF OpLan
  <2>6. LansTyped' /\ LansKnown' /\ RowsGood'
    BY <1>1, <1>2 DEF OpInv, RowsInv, LansTyped, LansKnown, RowsGood, HasRow
  <2>7. JobGood'
    BY <1>1, <1>4, <2>2 DEF OpInv, JobGood, HasRow
  <2> QED
    BY <2>5, <2>6, <2>7 DEF OpInv, RowsInv
<1> QED
  BY <1>1, <1>3, <1>4

LEMMA DropTypes == ASSUME HomeInv, OpInv, DropLan PROVE OpInv'
<1>0. PICK l : l = job.lan
  OBVIOUS
<1>1. /\ job.op = "remove_lan" /\ job.at = "drop" /\ Goto("check") /\ UNCHANGED <<rows, edges>>
      /\ lans' = [lans EXCEPT ![l] = NoLan]
  BY <1>0 DEF DropLan, On
<1>2. OpOn /\ job'.at = "check"
  BY <1>1, GotoOn, GotoKeeps DEF OpInv
<1>3. Members(l) = {} /\ l \in LanNames
  BY <1>0, <1>1 DEF OpInv, OpLan, HomeInv, JobHomes
<1>4. LansTyped'
  BY <1>1, <1>3 DEF OpInv, RowsInv, LansTyped
<1>5. LansKnown'
  <2> SUFFICES ASSUME NEW e \in edges PROVE lans'[e.lan] # NoLan
    BY <1>1 DEF LansKnown
  <2>1. e.d \in Deckies /\ e.lan \in LanNames
    BY DEF HomeInv, Shapes
  <2>2. e.lan # l
    BY <1>3, <2>1 DEF Members
  <2>3. lans'[e.lan] = lans[e.lan]
    BY <1>1, <1>3, <2>1, <2>2 DEF OpInv, RowsInv, LansTyped
  <2> QED
    BY <2>3 DEF OpInv, RowsInv, LansKnown
<1>6. RowsGood' /\ JobGood'
  BY <1>1, <1>2 DEF OpInv, RowsInv, RowsGood, JobGood, OpOn, HasRow
<1>7. Members(l)' = {}
  BY <1>1, <1>3 DEF Members
<1>8. OpLan'
  BY <1>0, <1>1, <1>2, <1>7 DEF OpLan, OpOn
<1> QED
  BY <1>4, <1>5, <1>6, <1>8 DEF OpInv, RowsInv

LEMMA BlankGood == ASSUME job' = Blank PROVE JobGood' /\ OpLan'
BY DEF JobGood, OpLan, Blank, None

\* An op that has read the rows and not yet written any.
LEMMA ReadTypes ==
    ASSUME OpInv, NEW guard, NEW j, Begin(guard, j), UNCHANGED dbVars,
           guard /\ job' = j => JobGood' /\ OpLan'
    PROVE  OpInv'
<1>1. UNCHANGED <<lans, rows, edges>> /\ (guard => job' = j) /\ (~guard => job' = Blank)
  BY DEF Begin, Claim, dbVars
<1>2. LansTyped' /\ LansKnown' /\ RowsGood'
  BY <1>1 DEF OpInv, RowsInv, LansTyped, LansKnown, RowsGood, HasRow
<1> QED
  BY <1>1, <1>2, BlankGood DEF OpInv, RowsInv

LEMMA AddLanTypes ==
    ASSUME HomeInv, OpInv, NEW l \in LanNames, NEW n \in Subnets, apply_add_lan(l, n)
    PROVE  OpInv'
<1> DEFINE j == [Blank EXCEPT !.op = "add_lan", !.at = "check", !.lan = l]
<1>1. /\ Begin(lans[l] = NoLan, j) /\ UNCHANGED <<rows, edges>>
      /\ lans' = IF lans[l] = NoLan THEN [lans EXCEPT ![l] = [subnet |-> n, dmz |-> FALSE]] ELSE lans
  BY DEF apply_add_lan
<1>2. LansTyped'
  BY <1>1 DEF OpInv, RowsInv, LansTyped
<1>3. LansKnown'
  <2> SUFFICES ASSUME NEW e \in edges PROVE lans'[e.lan] # NoLan
    BY <1>1 DEF LansKnown
  <2>1. e.lan \in LanNames /\ lans[e.lan] # NoLan
    BY DEF HomeInv, Shapes, OpInv, RowsInv, LansKnown
  <2>2. lans'[e.lan] = lans[e.lan]
    BY <1>1, <2>1 DEF OpInv, RowsInv, LansTyped
  <2> QED
    BY <2>1, <2>2
<1>4. RowsGood'
  BY <1>1 DEF OpInv, RowsInv, RowsGood, HasRow
<1>5. job' = j \/ job' = Blank
  BY <1>1 DEF Begin, Claim
<1>6. /\ j.op = "add_lan" /\ j.d = 0 /\ j.l3 = FALSE /\ j.add = {} /\ j.services = {}
  BY DEF Blank
<1> HIDE DEF j
<1>7. JobGood' /\ OpLan'
  BY <1>5, <1>6, BlankGood DEF JobGood, OpLan
<1> QED
  BY <1>2, <1>3, <1>4, <1>7 DEF OpInv, RowsInv

LEMMA UpdateLanTypes ==
    ASSUME HomeInv, OpInv, NEW l \in LanNames, NEW name \in LanNames,
           NEW n \in Subnets \cup {NoNet}, apply_update_lan(l, name, n)
    PROVE  OpInv'
<1> DEFINE accepts == /\ lans[l] # NoLan
                      /\ IF name = l THEN ~IsLive ELSE lans[name] = NoLan
           new == IF name = l THEN [lans[l] EXCEPT !.subnet = n] ELSE lans[l]
           j == [Blank EXCEPT !.op = "update_lan", !.at = "validate"]
<1>1. /\ (name = l) = (n # NoNet) /\ Begin(accepts, j) /\ UNCHANGED rows
      /\ lans' = IF accepts THEN [[lans EXCEPT ![l] = NoLan] EXCEPT ![name] = new] ELSE lans
      /\ edges' = IF accepts THEN {IF e.lan = l THEN [e EXCEPT !.lan = name] ELSE e : e \in edges}
                  ELSE edges
  BY DEF apply_update_lan
<1>2. /\ lans[l] # NoLan => new \in [subnet : Subnets, dmz : BOOLEAN] /\ new # NoLan
  <2>1. lans[l] # NoLan => lans[l] \in [subnet : Subnets, dmz : BOOLEAN]
    BY DEF OpInv, RowsInv, LansTyped
  <2>2. name = l => n \in Subnets
    BY <1>1
  <2>3. lans[l] # NoLan => new \in [subnet : Subnets, dmz : BOOLEAN]
    BY <2>1, <2>2
  <2>4. NoLan \notin [subnet : Subnets, dmz : BOOLEAN]
    BY ZeroIsNobody DEF NoLan, NoNet
  <2> QED
    BY <2>3, <2>4
<1> HIDE DEF new
<1>3. ASSUME accepts PROVE LansTyped' /\ LansKnown'
  <2>1. /\ lans' \in [LanNames -> [subnet : Subnets, dmz : BOOLEAN] \cup {NoLan}]
        /\ lans'[name] # NoLan /\ \A m \in LanNames \ {l, name} : lans'[m] = lans[m]
    BY <1>1, <1>2, <1>3 DEF OpInv, RowsInv, LansTyped
  <2>2. ASSUME NEW e \in edges'
        PROVE  lans'[e.lan] # NoLan
    <3>1. PICK x \in edges : e = IF x.lan = l THEN [x EXCEPT !.lan = name] ELSE x
      BY <1>1, <1>3
    <3>2. x \in [d : Deckies, lan : LanNames, bridge : BOOLEAN] /\ lans[x.lan] # NoLan
      BY DEF HomeInv, Shapes, OpInv, RowsInv, LansKnown
    <3>3. CASE x.lan = l
      <4>1. e.lan = name
        BY <3>1, <3>2, <3>3
      <4> QED
        BY <2>1, <4>1
    <3>4. CASE x.lan # l
      <4>1. e.lan = x.lan /\ x.lan \in LanNames
        BY <3>1, <3>2, <3>4
      <4> QED
        BY <2>1, <3>2, <3>4, <4>1
    <3> QED
      BY <3>3, <3>4
  <2> QED
    BY <2>1, <2>2 DEF LansTyped, LansKnown
<1>4. ASSUME ~accepts PROVE LansTyped' /\ LansKnown'
  BY <1>1, <1>4 DEF OpInv, RowsInv, LansTyped, LansKnown
<1>5. LansTyped' /\ LansKnown'
  <2> HIDE DEF accepts
  <2> QED
    BY <1>3, <1>4
<1>6. RowsGood'
  BY <1>1 DEF OpInv, RowsInv, RowsGood, HasRow
<1>7. job' = j \/ job' = Blank
  BY <1>1 DEF Begin, Claim
<1>8. /\ j.op = "update_lan" /\ j.d = 0 /\ j.l3 = FALSE /\ j.add = {} /\ j.services = {}
  BY DEF Blank
<1> HIDE DEF j
<1>9. JobGood' /\ OpLan'
  BY <1>7, <1>8, BlankGood DEF JobGood, OpLan
<1> QED
  BY <1>5, <1>6, <1>9 DEF OpInv, RowsInv

LEMMA RemoveLanTypes ==
    ASSUME RoomForAll, HomeInv, OpInv, NEW l \in LanNames, apply_remove_lan(l) PROVE OpInv'
<1> DEFINE guard == lans[l] # NoLan /\ \A d \in DOMAIN Configs : Home(Configs[d]) # l
           at == IF Members(l) = {} THEN "drop" ELSE "write"
           j == [Blank EXCEPT !.op = "remove_lan", !.lan = l, !.cfg = Configs, !.at = at,
                              !.visitors = Members(l)]
<1>1. Begin(guard, j) /\ UNCHANGED dbVars
  BY DEF apply_remove_lan
<1>2. /\ j.op = "remove_lan" /\ j.lan = l /\ j.cfg = Configs /\ j.at = at
      /\ j.visitors = Members(l) /\ j.d = 0 /\ j.l3 = FALSE /\ j.add = {} /\ j.services = {}
  BY DEF Blank
<1>3. \A d \in Deckies : HasRow(d) => GoodConfig(Configs[d])
  BY ConfigsGood DEF OpInv
<1>4. UNCHANGED <<rows, edges>>
  BY <1>1 DEF dbVars
<1>5. Members(l)' = Members(l)
  BY <1>4 DEF Members
<1>6. at = "drop" => Members(l) = {}
  OBVIOUS
<1> HIDE DEF j, guard, at
<1>7. ASSUME job' = j PROVE JobGood' /\ OpLan'
  BY <1>2, <1>3, <1>4, <1>5, <1>6, <1>7 DEF JobGood, OpLan, HasRow
<1> QED
  BY <1>1, <1>7, ReadTypes

LEMMA AddDeckyTypes ==
    ASSUME OpInv, NEW d \in Deckies, NEW l \in LanNames, NEW S \in SUBSET Services,
           NEW l3 \in BOOLEAN, NEW pin \in PinnedHosts \cup {0}, apply_add_decky(d, l, S, l3, pin)
    PROVE  OpInv'
<1> DEFINE guard == ~HasRow(d) /\ lans[l] # NoLan /\ Allocates(l, pin)
           j == [Blank EXCEPT !.op = "add_decky", !.at = "write", !.d = d, !.lan = l,
                              !.ip = NewAddress(l, pin), !.add = S, !.l3 = l3]
<1>1. Begin(guard, j) /\ UNCHANGED dbVars
  BY DEF apply_add_decky
<1>2. /\ j.op = "add_decky" /\ j.lan = l /\ j.ip = NewAddress(l, pin) /\ j.at = "write"
      /\ j.d = d /\ j.l3 = l3 /\ j.add = S /\ j.services = {}
  BY DEF Blank
<1>3. ASSUME guard PROVE lans[l] # NoLan /\ NewAddress(l, pin) \in Address
  BY <1>3, AllocatesAddress DEF OpInv, RowsInv
<1>4. UNCHANGED lans
  BY <1>1 DEF dbVars
<1> HIDE DEF j, guard
<1>5. ASSUME guard, job' = j PROVE JobGood' /\ OpLan'
  BY <1>2, <1>3, <1>4, <1>5 DEF JobGood, OpLan
<1> QED
  BY <1>1, <1>5, ReadTypes

LEMMA AttachDeckyTypes ==
    ASSUME RoomForAll, HomeInv, OpInv, NEW d \in Deckies, NEW l \in LanNames,
           NEW l3 \in BOOLEAN, NEW pin \in PinnedHosts \cup {0}, apply_attach_decky(d, l, l3, pin)
    PROVE  OpInv'
<1> DEFINE guard == HasRow(d) /\ lans[l] # NoLan /\ d \notin Members(l) /\ Allocates(l, pin)
           j == [Blank EXCEPT !.op = "attach_decky", !.at = "write", !.d = d, !.lan = l,
                              !.ip = NewAddress(l, pin), !.l3 = l3, !.cfg = Configs]
<1>1. Begin(guard, j) /\ UNCHANGED dbVars
  BY DEF apply_attach_decky
<1>2. /\ j.op = "attach_decky" /\ j.lan = l /\ j.ip = NewAddress(l, pin) /\ j.at = "write"
      /\ j.d = d /\ j.l3 = l3 /\ j.add = {} /\ j.services = {} /\ j.cfg = Configs
  BY DEF Blank
<1>3. ASSUME guard PROVE lans[l] # NoLan /\ NewAddress(l, pin) \in Address
  BY <1>3, AllocatesAddress DEF OpInv, RowsInv
<1>4. UNCHANGED <<lans, rows>>
  BY <1>1 DEF dbVars
<1>5. \A e \in Deckies : HasRow(e) => GoodConfig(Configs[e])
  BY ConfigsGood DEF OpInv
<1> HIDE DEF j, guard
<1>6. ASSUME guard, job' = j PROVE JobGood' /\ OpLan'
  BY <1>2, <1>3, <1>4, <1>5, <1>6 DEF JobGood, OpLan, HasRow
<1> QED
  BY <1>1, <1>6, ReadTypes

LEMMA DetachDeckyTypes ==
    ASSUME RoomForAll, HomeInv, OpInv, NEW d \in Deckies, NEW l, apply_detach_decky(d, l)
    PROVE  OpInv'
<1> DEFINE guard == /\ HasRow(d) /\ lans[l] # NoLan /\ Home(Configs[d]) \notin {None, l}
                    /\ d \in Members(l)
           j == [Blank EXCEPT !.op = "detach_decky", !.at = "write", !.d = d, !.lan = l,
                              !.cfg = Configs]
<1>1. Begin(guard, j) /\ UNCHANGED dbVars
  BY DEF apply_detach_decky
<1>2. /\ j.op = "detach_decky" /\ j.d = d /\ j.l3 = FALSE /\ j.add = {} /\ j.services = {}
      /\ j.cfg = Configs
  BY DEF Blank
<1>3. UNCHANGED rows
  BY <1>1 DEF dbVars
<1>4. \A e \in Deckies : HasRow(e) => GoodConfig(Configs[e])
  BY ConfigsGood DEF OpInv
<1> HIDE DEF j, guard
<1>5. ASSUME job' = j PROVE JobGood' /\ OpLan'
  BY <1>2, <1>3, <1>4, <1>5 DEF JobGood, OpLan, HasRow
<1> QED
  BY <1>1, <1>5, ReadTypes

LEMMA RemoveDeckyTypes ==
    ASSUME OpInv, NEW d \in Deckies, apply_remove_decky(d) PROVE OpInv'
<1> DEFINE j == [Blank EXCEPT !.op = "remove_decky", !.at = "write", !.d = d,
                              !.del = IF HasRow(d) THEN rows[d].services ELSE {}]
<1>1. Begin(HasRow(d), j) /\ UNCHANGED dbVars
  BY DEF apply_remove_decky
<1>2. j.op = "remove_decky" /\ j.d = d /\ j.l3 = FALSE /\ j.add = {} /\ j.services = {}
  BY DEF Blank
<1> HIDE DEF j
<1>3. ASSUME job' = j PROVE JobGood' /\ OpLan'
  BY <1>2, <1>3 DEF JobGood, OpLan
<1> QED
  BY <1>1, <1>3, ReadTypes

LEMMA UpdateDeckyTypes ==
    ASSUME RoomForAll, HomeInv, OpInv, NEW d \in Deckies, NEW S \in SUBSET Services,
           NEW patch, NEW ips \in Patches \cup {<<>>}, NEW flip, NEW force,
           apply_update_decky(d, S, patch, ips, flip, force)
    PROVE  OpInv'
<1> DEFINE guard == HasRow(d) /\ (flip => (force \/ ~IsLive) /\ (Configs[d].l3 \/ HomedInDmz(d)))
           k == [Blank EXCEPT !.op = "update_decky", !.at = "write", !.d = d,
                              !.cfg = Merged(d, ips), !.patch = PatchOf(patch, ips),
                              !.l3 = (Configs[d].l3 # flip), !.services = S,
                              !.add = S \ rows[d].services, !.del = rows[d].services \ S]
           j == IF ~HasRow(d) THEN Blank ELSE k
<1>1. Begin(guard, j) /\ UNCHANGED dbVars
  BY DEF apply_update_decky, Merged, PatchOf
<1>2. /\ k.op = "update_decky" /\ k.d = d /\ k.l3 = (Configs[d].l3 # flip) /\ k.services = S
      /\ k.add = S \ rows[d].services /\ k.cfg = Merged(d, ips)
  BY DEF Blank
<1>3. UNCHANGED rows
  BY <1>1 DEF dbVars
<1>4. ASSUME HasRow(d)
      PROVE  \A e \in Deckies : HasRow(e) => GoodConfig(Merged(d, ips)[e])
  <2>1. \A e \in Deckies : HasRow(e) => GoodConfig(Configs[e])
    BY ConfigsGood DEF OpInv
  <2>2. ASSUME ips # <<>> PROVE GoodConfig([ips |-> ips, l3 |-> Configs[d].l3])
    <3>1. ips \in Seq(Address) /\ OneEach(ips)
      BY <2>2, MutationOpsAssumption DEF OneEach
    <3>2. ToSet(ips) \subseteq Address
      BY <3>1, LenProperties, ElementOfSeq DEF ToSet
    <3>3. Configs[d].l3 \in BOOLEAN
      BY <1>4, <2>1 DEF GoodConfig, IsConfig
    <3> QED
      BY <3>1, <3>2, <3>3 DEF GoodConfig, IsConfig, OneEach
  <2> QED
    BY <1>4, <2>1, <2>2, MergedHome
<1> HIDE DEF k
<1>5. ASSUME job' = k, HasRow(d) PROVE JobGood' /\ OpLan'
  BY <1>2, <1>3, <1>4, <1>5 DEF JobGood, OpLan, HasRow
<1> HIDE DEF guard
<1>6. ASSUME job' = j PROVE JobGood' /\ OpLan'
  BY <1>5, <1>6, BlankGood
<1> HIDE DEF j
<1> QED
  BY <1>1, <1>6, ReadTypes

LEMMA MutationTypes == ASSUME RoomForAll, HomeInv, OpInv, Mutation PROVE OpInv'
<1>1. ASSUME NEW l \in LanNames,
             \/ \E n \in Subnets : apply_add_lan(l, n)
             \/ apply_remove_lan(l)
             \/ \E name \in LanNames, n \in Subnets \cup {NoNet} : apply_update_lan(l, name, n)
      PROVE  OpInv'
  BY <1>1, AddLanTypes, RemoveLanTypes, UpdateLanTypes
<1>2. ASSUME NEW d \in Deckies, NEW l \in LanNames, NEW l3 \in BOOLEAN,
             NEW pin \in PinnedHosts \cup {0},
             \/ apply_attach_decky(d, l, l3, pin)
             \/ \E S \in SUBSET Services : apply_add_decky(d, l, S, l3, pin)
      PROVE  OpInv'
  BY <1>2, AttachDeckyTypes, AddDeckyTypes
<1>3. ASSUME NEW d \in Deckies,
             \/ apply_remove_decky(d)
             \/ \E S \in SUBSET Services, ips \in Patches \cup {<<>>},
                   patch, flip, force \in BOOLEAN :
                   /\ (force => flip) /\ (ips # <<>> => ~flip)
                   /\ apply_update_decky(d, S, patch, ips, flip, force)
             \/ \E l \in LanNames : apply_detach_decky(d, l)
      PROVE  OpInv'
  BY <1>3, RemoveDeckyTypes, UpdateDeckyTypes, DetachDeckyTypes
<1> QED
  BY <1>1, <1>2, <1>3 DEF Mutation

\* The steps of an op on the rows, and those that leave them alone.
LEMMA WorkTypes == ASSUME HomeInv, OpInv, Work \/ MutatorDies PROVE OpInv'
<1>1. ASSUME NEW at \in {"docker", "unedge", "check_l3", "validate", "docker_l3", "state"},
             Goto(at)
      PROVE  OpOn
  BY <1>1, GotoOn DEF OpInv
<1>2. AfterDocker \in {"unedge", "check_l3", "validate"}
  BY DEF AfterDocker
<1>3. CASE CheckLive
  <2>1. UNCHANGED dbVars
    BY <1>3 DEF CheckLive, RowStep, dbVars
  <2>2. \E at \in {"docker", "unedge", "check_l3", "validate", "docker_l3", "state"} : Goto(at)
    BY <1>2, <1>3 DEF CheckLive
  <2> QED
    BY <1>1, <2>1, <2>2, QuietTypes
<1>4. CASE DockerLan
  BY <1>1, <1>4, QuietTypes DEF DockerLan, DockerStep
<1>5. CASE DockerSpawn \/ DockerRemove \/ DockerConnect \/ DockerRecreate
  BY <1>1, <1>5, QuietTypes DEF DockerSpawn, DockerRemove, DockerConnect, DockerRecreate, DockerStep
<1>6. CASE DockerDisconnect \/ DockerServices
  <2>1. UNCHANGED dbVars /\ Goto(AfterDocker)
    BY <1>6 DEF DockerDisconnect, DockerServices, DockerStep
  <2> QED
    BY <1>1, <1>2, <2>1, QuietTypes
<1>7. CASE Validate \/ MutatorDies
  BY <1>7, QuietTypes DEF Validate, MutatorDies
<1> QED
  BY <1>3, <1>4, <1>5, <1>6, <1>7, AddTypes, AttachTypes, DetachTypes, VisitorTypes, RemoveTypes,
     UpdateTypes, AddEdgeTypes, DeleteEdgeTypes, DropTypes, RunningTypes DEF Work

\* A live service change leaves LANs, edges and the op alone.
LEMMA ApiKeepsOp ==
    ASSUME HomeInv, OpInv, UNCHANGED <<lans, edges, job>>,
           \A d \in Deckies : rows'[d] # NoRow => HasRow(d) /\ GoodRow(rows'[d])
    PROVE  OpInv'
<1>1. LansTyped' /\ LansKnown'
  BY DEF OpInv, RowsInv, LansTyped, LansKnown
<1>2. RowsGood' /\ JobGood'
  BY DEF OpInv, RowsInv, RowsGood, JobGood, HasRow
<1>3. OpLan'
  BY DEF OpInv, OpLan, Members
<1> QED
  BY <1>1, <1>2, <1>3 DEF OpInv, RowsInv

LEMMA ApiWriteTypes == ASSUME HomeInv, OpInv, ApiGood, ApiWrite PROVE OpInv'
<1>1. UNCHANGED <<lans, edges, job>> /\ api.kind # None
  BY DEF ApiWrite, ApiStep
<1>2. CASE rows[api.d].uuid # api.uuid
  <2>1. rows' = rows
    BY <1>2 DEF ApiWrite
  <2>2. \A d \in Deckies : rows'[d] # NoRow => HasRow(d) /\ GoodRow(rows'[d])
    BY <2>1 DEF OpInv, RowsInv, RowsGood, HasRow
  <2> QED
    BY <1>1, <2>2, ApiKeepsOp
<1>3. CASE rows[api.d].uuid = api.uuid
  <2>1. IsCall(api)
    BY <1>1 DEF HomeInv, Shapes
  <2>2. api.d \in Deckies /\ HasRow(api.d)
    BY <1>3, <2>1 DEF IsCall, HasRow, NoRow
  <2>3. GoodRow(rows[api.d])
    BY <2>2 DEF OpInv, RowsInv, RowsGood
  <2>4. GoodConfig(api.cfg) /\ api.services \subseteq Services /\ api.s \in Services
    BY <1>1 DEF ApiGood
  <2>5. GoodRow(ApiRowWritten)
    BY <2>3, <2>4 DEF GoodRow, ApiRowWritten
  <2>6. rows' = [rows EXCEPT ![api.d] = ApiRowWritten]
    BY <1>3, ApiRow
  <2>7. rows'[api.d] = ApiRowWritten /\ \A e \in Deckies \ {api.d} : rows'[e] = rows[e]
    BY <2>2, <2>6, OneRow
  <2>8. \A d \in Deckies : rows'[d] # NoRow => HasRow(d) /\ GoodRow(rows'[d])
    BY <2>2, <2>5, <2>7 DEF OpInv, RowsInv, RowsGood, HasRow
  <2> QED
    BY <1>1, <2>8, ApiKeepsOp
<1> QED
  BY <1>2, <1>3

\* What the op and the rows have in common is kept by every step.
LEMMA OpNext == ASSUME RoomForAll, HomeInv, OpInv, ApiGood, [Next]_vars PROVE OpInv'
<1>1. CASE ApiStop \/ ApiRender \/ ApiUp
  <2>1. UNCHANGED <<dbVars, job>>
    BY <1>1 DEF ApiStop, ApiRender, ApiUp, ApiStep, dbVars
  <2> QED
    BY <2>1, IdleTypes
<1>2. ASSUME NEW kind, NEW d, NEW s, NEW config, NEW starts, ApiBegin(kind, d, s, config, starts)
      PROVE  OpInv'
  <2>1. UNCHANGED <<dbVars, job>>
    BY <1>2 DEF ApiBegin
  <2> QED
    BY <2>1, IdleTypes
<1>3. CASE Api
  BY <1>1, <1>2, <1>3, ApiWriteTypes DEF Api
<1>4. CASE TearBegin \/ TearCompose \/ TearNetworks \/ FleetUp
  <2>1. UNCHANGED <<dbVars, job>>
    BY <1>4 DEF TearBegin, TearCompose, TearNetworks, FleetUp
  <2> QED
    BY <2>1, IdleTypes
<1>5. CASE UNCHANGED vars
  BY <1>5, IdleTypes DEF vars
<1> QED
  BY <1>3, <1>4, <1>5, MutationTypes, WorkTypes DEF Next

\* What a live service change has read stays as it was read.
LEMMA ApiNext == ASSUME RoomForAll, HomeInv, OpInv, ApiGood, [Next]_vars PROVE ApiGood'
<1>1. CASE api' = api
  BY <1>1 DEF ApiGood
<1>2. CASE api' = NoApi
  BY <1>2 DEF ApiGood, NoApi
<1>3. ASSUME NEW at, api.kind # None, ApiGoto(at) PROVE ApiGood'
  <2>1. IsCall(api)
    BY <1>3 DEF HomeInv, Shapes
  <2>2. api'.cfg = api.cfg /\ api'.services = api.services /\ api'.s = api.s
    BY <1>3, <2>1 DEF ApiGoto, IsCall
  <2> QED
    BY <1>3, <2>2 DEF ApiGood
<1>4. ASSUME NEW kind \in {"add", "remove", "update"}, NEW d \in Deckies, NEW s \in Services,
             NEW config, NEW starts, ApiBegin(kind, d, s, config, starts)
      PROVE  ApiGood'
  <2>1. HasRow(d) /\ api'.cfg = Config(d) /\ api'.services = rows[d].services /\ api'.s = s
    BY <1>4 DEF ApiBegin
  <2>2. GoodConfig(Config(d)) /\ GoodRow(rows[d])
    BY <2>1, HydrateGood DEF OpInv, RowsInv, RowsGood
  <2> QED
    BY <2>1, <2>2 DEF ApiGood, GoodRow
<1>5. CASE ApiStop
  BY <1>2, <1>3, <1>5 DEF ApiStop, ApiEnds, None
<1>6. CASE ApiWrite
  BY <1>2, <1>3, <1>6 DEF ApiWrite, ApiEnds
<1>7. CASE ApiRender \/ ApiUp
  BY <1>2, <1>3, <1>7 DEF ApiRender, ApiUp, ApiEnds
<1>8. CASE Api
  BY <1>4, <1>5, <1>6, <1>7, <1>8 DEF Api
<1>9. CASE Mutation
  BY <1>1, <1>9, MutationClaims DEF Claimed
<1>10. CASE Work \/ MutatorDies
  BY <1>1, <1>10 DEF Work, MutatorDies, WriteAdd, WriteAttach, WriteDetach, WriteVisitor, WriteRemove,
     WriteUpdate, AddEdge, DeleteEdge, DropLan, WriteRunning, CheckLive, DockerLan, DockerSpawn,
     DockerRemove, DockerConnect, DockerDisconnect, DockerServices, DockerRecreate, DockerStep,
     Validate, RowStep
<1>11. CASE TearBegin \/ TearCompose \/ TearNetworks \/ FleetUp \/ UNCHANGED vars
  BY <1>1, <1>11 DEF TearBegin, TearCompose, TearNetworks, FleetUp, vars
<1> QED
  BY <1>8, <1>9, <1>10, <1>11 DEF Next

\* A compose file is rendered, removed or left alone.
LEMMA FileNext == ASSUME [Next]_vars PROVE file' \in {file, Rendered, NoFile}
<1>1. CASE Mutation
  BY <1>1, MutationClaims DEF Claimed, dockerVars
<1>2. CASE WriteAdd \/ WriteAttach \/ WriteDetach \/ WriteVisitor \/ WriteRemove \/ WriteUpdate
           \/ AddEdge \/ DeleteEdge \/ DropLan \/ WriteRunning \/ CheckLive \/ Validate \/ MutatorDies
  BY <1>2 DEF WriteAdd, WriteAttach, WriteDetach, WriteVisitor, WriteRemove, WriteUpdate, AddEdge,
     DeleteEdge, DropLan, WriteRunning, CheckLive, Validate, MutatorDies, RowStep, dockerVars
<1>3. CASE DockerLan \/ DockerSpawn \/ DockerRemove \/ DockerConnect \/ DockerDisconnect
           \/ DockerServices \/ DockerRecreate
  BY <1>3 DEF DockerLan, DockerSpawn, DockerRemove, DockerConnect, DockerDisconnect,
     DockerServices, DockerRecreate, DockerStep, dockerVars
<1>4. CASE Api
  BY <1>4 DEF Api, ApiBegin, ApiStop, ApiWrite, ApiRender, ApiUp, dockerVars
<1>5. CASE TearBegin \/ TearCompose \/ TearNetworks \/ FleetUp \/ UNCHANGED vars
  BY <1>5 DEF TearBegin, TearCompose, TearNetworks, FleetUp, vars, dockerVars
<1> QED
  BY <1>1, <1>2, <1>3, <1>4, <1>5 DEF Next, Work

FileGood == \A d \in DOMAIN file \ {0} : file[d].nets \subseteq Address
NetsGood == \A d \in Deckies : base[d].nets \subseteq Address
BridgesGood == bridges \in [LanNames -> Subnets \cup {NoNet}]
ServicesGood == svc \in [Deckies -> [Services -> Projects]]

LEMMA FileStays ==
    ASSUME RoomForAll, HomeInv, RowsInv, DockerGood, [Next]_vars PROVE FileGood'
<1>1. CASE file' = file
  BY <1>1 DEF DockerGood, FileGood
<1>2. CASE file' = Rendered
  BY <1>2, RenderedGood DEF FileGood
<1>3. CASE file' = NoFile
  BY <1>3 DEF FileGood, NoFile
<1> QED
  BY <1>1, <1>2, <1>3, FileNext

\* The base containers in a step: taken down, unplugged, started from a rendered
\* file, or connected to the address of an attach_decky.
LEMMA NetsStay ==
    ASSUME RoomForAll, HomeInv, RowsInv, JobGood, BaseShape, DockerGood, [Next]_vars
    PROVE  NetsGood'
<1>0. NetsGood
  BY DEF DockerGood, NetsGood
<1>1. ASSUME \A d \in Deckies : base'[d].nets \subseteq base[d].nets PROVE NetsGood'
  BY <1>0, <1>1 DEF NetsGood
<1>2. CASE base' = base
  BY <1>1, <1>2
<1>3. ASSUME NEW S, base' = Unplugged(S) PROVE NetsGood'
  BY <1>1, <1>3, UnpluggedBase
<1>4. CASE DockerLan
  BY <1>2, <1>3, <1>4 DEF DockerLan, CreateBridge, RemoveBridge, dockerVars
<1>5. ASSUME NEW d, base' = [base EXCEPT ![d] = FromFile(d, Rendered, OpsProject)],
             d \in Deckies => d \in DOMAIN Rendered
      PROVE  NetsGood'
  <2>1. d \in Deckies => Rendered[d].nets \subseteq Address
    BY <1>5, RenderedGood, ZeroIsNobody
  <2>2. d \in Deckies => base'[d].nets = Rendered[d].nets
    BY <1>5 DEF BaseShape, FromFile
  <2>3. \A e \in Deckies \ {d} : base'[e] = base[e]
    BY <1>5 DEF BaseShape
  <2> QED
    BY <1>0, <2>1, <2>2, <2>3 DEF NetsGood
<1>6. CASE DockerSpawn \/ DockerRecreate
  BY <1>2, <1>5, <1>6 DEF DockerSpawn, DockerRecreate, BaseStarts
<1>7. CASE DockerRemove
  <2> SUFFICES ASSUME base' = [base EXCEPT ![job.d] = IF @.project = OpsProject THEN NoBase ELSE @]
               PROVE  NetsGood'
    BY <1>2, <1>7 DEF DockerRemove
  <2>1. \A e \in Deckies : base'[e] \in {NoBase, base[e]}
    BY DEF BaseShape
  <2> QED
    BY <1>1, <2>1 DEF NoBase
<1>8. CASE DockerConnect
  <2> SUFFICES ASSUME base' = [base EXCEPT ![job.d].nets = @ \cup {job.ip}]
               PROVE  NetsGood'
    BY <1>2, <1>8 DEF DockerConnect
  <2>1. job.ip \in Address
    BY <1>8 DEF DockerConnect, DockerStep, On, JobGood
  <2>2. base' = [base EXCEPT ![job.d] = [base[job.d] EXCEPT !.nets = base[job.d].nets \cup {job.ip}]]
    OBVIOUS
  <2>3. \A e \in Deckies \ {job.d} : base'[e] = base[e]
    BY <2>2 DEF BaseShape
  <2>4. ASSUME job.d \in Deckies PROVE base'[job.d].nets = base[job.d].nets \cup {job.ip}
    BY <2>2, <2>4 DEF BaseShape, IsBase
  <2> QED
    BY <1>0, <2>1, <2>3, <2>4 DEF NetsGood
<1>9. CASE DockerDisconnect
  <2> DEFINE N == {a \in base[job.d].nets : a.lan # job.lan}
  <2> SUFFICES ASSUME base' = [base EXCEPT ![job.d].nets = {a \in @ : a.lan # job.lan}]
               PROVE  NetsGood'
    BY <1>2, <1>9 DEF DockerDisconnect
  <2>1. base' = [base EXCEPT ![job.d] = [base[job.d] EXCEPT !.nets = N]] /\ N \subseteq base[job.d].nets
    OBVIOUS
  <2> HIDE DEF N
  <2>2. \A e \in Deckies \ {job.d} : base'[e] = base[e]
    BY <2>1 DEF BaseShape
  <2>3. ASSUME job.d \in Deckies PROVE base'[job.d].nets = N
    BY <2>1, <2>3 DEF BaseShape, IsBase
  <2> QED
    BY <1>1, <2>1, <2>2, <2>3
<1>10. ASSUME NEW p, base' = Gone(base, p) PROVE NetsGood'
  <2>1. \A e \in Deckies : base'[e] \in {NoBase, base[e]}
    BY <1>10 DEF Gone
  <2> QED
    BY <1>1, <2>1 DEF NoBase
<1>11. CASE TearCompose \/ FleetUp
  BY <1>2, <1>10, <1>11 DEF TearCompose, FleetUp
<1>12. CASE TearNetworks
  BY <1>3, <1>12 DEF TearNetworks
<1>13. CASE Mutation
  BY <1>2, <1>13, MutationClaims DEF Claimed, dockerVars
<1>14. CASE WriteAdd \/ WriteAttach \/ WriteDetach \/ WriteVisitor \/ WriteRemove \/ WriteUpdate
            \/ AddEdge \/ DeleteEdge \/ DropLan \/ WriteRunning \/ CheckLive \/ Validate \/ MutatorDies
            \/ DockerServices
  BY <1>2, <1>14 DEF WriteAdd, WriteAttach, WriteDetach, WriteVisitor, WriteRemove, WriteUpdate,
     AddEdge, DeleteEdge, DropLan, WriteRunning, CheckLive, Validate, MutatorDies, RowStep,
     DockerServices, dockerVars
<1>15. CASE Api
  BY <1>2, <1>15 DEF Api, ApiBegin, ApiStop, ApiWrite, ApiRender, ApiUp, dockerVars
<1>16. CASE TearBegin \/ UNCHANGED vars
  BY <1>2, <1>16 DEF TearBegin, vars, dockerVars
<1> QED
  BY <1>4, <1>6, <1>7, <1>8, <1>9, <1>11, <1>12, <1>13, <1>14, <1>15, <1>16 DEF Next, Work

LEMMA BridgesStayGood == ASSUME LansTyped, BridgesGood, [Next]_vars, HomeInv PROVE BridgesGood'
<1>1. CASE bridges' = bridges
  BY <1>1 DEF BridgesGood
<1>2. CASE DockerLan
  <2>1. ASSUME NEW l \in LanNames, CreateBridge(l, lans[l].subnet) PROVE BridgesGood'
    <3>1. lans[l].subnet \in Subnets \cup {NoNet}
      BY LanHasSubnet
    <3> QED
      BY <2>1, <3>1 DEF CreateBridge, BridgesGood
  <2>2. ASSUME NEW l, RemoveBridge(l) PROVE BridgesGood'
    BY <2>2 DEF RemoveBridge, BridgesGood
  <2>3. ASSUME NEW l, l \notin LanNames, CreateBridge(l, lans[l].subnet) PROVE BridgesGood'
    BY <2>3 DEF CreateBridge, BridgesGood
  <2> QED
    BY <1>1, <1>2, <2>1, <2>2, <2>3 DEF DockerLan, dockerVars
<1>3. CASE TearNetworks
  BY <1>3 DEF TearNetworks, BridgesGood
<1>4. CASE Mutation
  BY <1>1, <1>4, MutationClaims DEF Claimed, dockerVars
<1>5. CASE WriteAdd \/ WriteAttach \/ WriteDetach \/ WriteVisitor \/ WriteRemove \/ WriteUpdate
           \/ AddEdge \/ DeleteEdge \/ DropLan \/ WriteRunning \/ CheckLive \/ Validate \/ MutatorDies
  BY <1>1, <1>5 DEF WriteAdd, WriteAttach, WriteDetach, WriteVisitor, WriteRemove, WriteUpdate,
     AddEdge, DeleteEdge, DropLan, WriteRunning, CheckLive, Validate, MutatorDies, RowStep, dockerVars
<1>6. CASE DockerSpawn \/ DockerRemove \/ DockerConnect \/ DockerDisconnect \/ DockerServices
           \/ DockerRecreate
  BY <1>1, <1>6 DEF DockerSpawn, DockerRemove, DockerConnect, DockerDisconnect, DockerServices,
     DockerRecreate
<1>7. CASE Api
  BY <1>1, <1>7 DEF Api, ApiBegin, ApiStop, ApiWrite, ApiRender, ApiUp, ApiStep, dockerVars
<1>8. CASE TearBegin \/ TearCompose \/ FleetUp \/ UNCHANGED vars
  BY <1>1, <1>8 DEF TearBegin, TearCompose, FleetUp, vars, dockerVars
<1> QED
  BY <1>2, <1>3, <1>4, <1>5, <1>6, <1>7, <1>8 DEF Next, Work

\* Service containers are started in a project and removed from one.
LEMMA ServicesEdited ==
    ASSUME NEW sv \in [Deckies -> [Services -> Projects]], NEW d, NEW S, NEW p \in Projects
    PROVE  /\ With(sv, d, S, p) \in [Deckies -> [Services -> Projects]]
           /\ Without(sv, d, S, p) \in [Deckies -> [Services -> Projects]]
           /\ GoneServices(sv, p) \in [Deckies -> [Services -> Projects]]
<1>1. None \in Projects
  BY DEF Projects
<1>2. With(sv, d, S, p) \in [Deckies -> [Services -> Projects]]
  BY DEF With
<1>3. Without(sv, d, S, p) \in [Deckies -> [Services -> Projects]]
  BY <1>1 DEF Without
<1>4. GoneServices(sv, p) \in [Deckies -> [Services -> Projects]]
  BY <1>1 DEF GoneServices
<1> QED
  BY <1>2, <1>3, <1>4

LEMMA ServicesStay == ASSUME ServicesGood, [Next]_vars PROVE ServicesGood'
<1>0. svc \in [Deckies -> [Services -> Projects]] /\ Own \in Projects /\ Fleet \in Projects
      /\ OpsProject \in Projects
  BY DEF ServicesGood, Projects, OpsProject
<1>1. CASE svc' = svc
  BY <1>1 DEF ServicesGood
<1>2. CASE DockerSpawn \/ DockerRemove
  BY <1>0, <1>1, <1>2, ServicesEdited DEF DockerSpawn, DockerRemove, ServicesGood
<1>3. CASE DockerServices
  <2> DEFINE f == Rendered
             added == IF base[job.d].project = OpsProject /\ ServicesStart(job.d, job.add, f, OpsProject)
                      THEN With(svc, job.d, job.add, OpsProject) ELSE svc
  <2>1. added \in [Deckies -> [Services -> Projects]]
    BY <1>0, ServicesEdited
  <2>2. svc' \in {svc, added, Without(added, job.d, job.del, OpsProject)}
    BY <1>3 DEF DockerServices
  <2> HIDE DEF added
  <2> QED
    BY <1>0, <2>1, <2>2, ServicesEdited DEF ServicesGood
<1>4. CASE ApiStop \/ ApiUp
  BY <1>0, <1>1, <1>4, ServicesEdited DEF ApiStop, ApiUp, ServicesGood
<1>5. CASE TearCompose \/ FleetUp
  <2>1. ASSUME NEW p \in Projects PROVE GoneServices(svc, p) \in [Deckies -> [Services -> Projects]]
    BY <1>0, ServicesEdited
  <2> QED
    BY <1>0, <1>1, <1>5, <2>1 DEF TearCompose, FleetUp, ServicesGood
<1>6. CASE Mutation
  BY <1>1, <1>6, MutationClaims DEF Claimed, dockerVars
<1>7. CASE WriteAdd \/ WriteAttach \/ WriteDetach \/ WriteVisitor \/ WriteRemove \/ WriteUpdate
           \/ AddEdge \/ DeleteEdge \/ DropLan \/ WriteRunning \/ CheckLive \/ Validate \/ MutatorDies
  BY <1>1, <1>7 DEF WriteAdd, WriteAttach, WriteDetach, WriteVisitor, WriteRemove, WriteUpdate,
     AddEdge, DeleteEdge, DropLan, WriteRunning, CheckLive, Validate, MutatorDies, RowStep, dockerVars
<1>8. CASE DockerLan \/ DockerConnect \/ DockerDisconnect \/ DockerRecreate
  BY <1>1, <1>8 DEF DockerLan, DockerConnect, DockerDisconnect, DockerRecreate, dockerVars
<1>9. ASSUME NEW kind, NEW d, NEW s, NEW config, NEW starts, ApiBegin(kind, d, s, config, starts)
      PROVE  ServicesGood'
  BY <1>1, <1>9 DEF ApiBegin, dockerVars
<1>10. CASE ApiWrite \/ ApiRender
  BY <1>1, <1>10 DEF ApiWrite, ApiRender
<1>11. CASE TearBegin \/ TearNetworks \/ UNCHANGED vars
  BY <1>1, <1>11 DEF TearBegin, TearNetworks, vars, dockerVars
<1> QED
  BY <1>2, <1>3, <1>4, <1>5, <1>6, <1>7, <1>8, <1>9, <1>10, <1>11 DEF Next, Work, Api

LEMMA WordsStay == ASSUME WordsGood, [Next]_vars PROVE WordsGood'
<1>1. Degraded \in ALL
  BY DEF Degraded, WordsGood, ALL
<1>2. "tearing_down" \in ALL /\ "torn_down" \in ALL
  BY DEF ALL
<1>3. ASSUME NEW e \in {"disturbed", "fleet"}, NEW c, Excuse(e, c)
      PROVE  excuses' \subseteq {"disturbed", "fleet", "rename", "patch"}
  BY <1>3 DEF Excuse, WordsGood
<1>4. ASSUME Fault \/ NoFault PROVE excuses' \subseteq {"disturbed", "fleet", "rename", "patch"}
  <2>1. CASE Fault
    BY <1>3, <2>1 DEF Fault
  <2>2. CASE NoFault
    BY <2>2 DEF NoFault, WordsGood
  <2> QED
    BY <1>4, <2>1, <2>2
<1>5. CASE UNCHANGED <<status, excuses>>
  BY <1>5 DEF WordsGood
<1>6. ASSUME NEW guard, NEW j, Begin(guard, j) PROVE WordsGood'
  <2>1. status' \in {status, Degraded}
    BY <1>6 DEF Begin
  <2>2. excuses' \subseteq excuses \cup {"disturbed", "rename", "patch"}
    BY <1>6 DEF Begin
  <2> QED
    BY <1>1, <2>1, <2>2 DEF WordsGood
<1>7. CASE Mutation
  <2>1. ASSUME NEW l, NEW n, apply_add_lan(l, n) PROVE WordsGood'
    BY <1>6, <2>1 DEF apply_add_lan
  <2>2. ASSUME NEW l, apply_remove_lan(l) PROVE WordsGood'
    BY <1>6, <2>2 DEF apply_remove_lan
  <2>3. ASSUME NEW l, NEW name, NEW n, apply_update_lan(l, name, n) PROVE WordsGood'
    BY <1>6, <2>3 DEF apply_update_lan
  <2>4. ASSUME NEW d, apply_remove_decky(d) PROVE WordsGood'
    BY <1>6, <2>4 DEF apply_remove_decky
  <2>5. ASSUME NEW d, NEW S, NEW patch, NEW ips, NEW flip, NEW force,
               apply_update_decky(d, S, patch, ips, flip, force)
        PROVE  WordsGood'
    BY <1>6, <2>5 DEF apply_update_decky
  <2>6. ASSUME NEW d, NEW l, apply_detach_decky(d, l) PROVE WordsGood'
    BY <1>6, <2>6 DEF apply_detach_decky
  <2>7. ASSUME NEW d, NEW l, NEW l3, NEW pin, apply_attach_decky(d, l, l3, pin) PROVE WordsGood'
    BY <1>6, <2>7 DEF apply_attach_decky
  <2>8. ASSUME NEW d, NEW l, NEW S, NEW l3, NEW pin, apply_add_decky(d, l, S, l3, pin)
        PROVE  WordsGood'
    BY <1>6, <2>8 DEF apply_add_decky
  <2> QED
    BY <1>7, <2>1, <2>2, <2>3, <2>4, <2>5, <2>6, <2>7, <2>8 DEF Mutation
<1>8. CASE WriteAdd \/ WriteAttach \/ WriteDetach \/ WriteVisitor \/ WriteRemove \/ WriteUpdate
           \/ AddEdge \/ DeleteEdge \/ DropLan \/ WriteRunning \/ CheckLive
  BY <1>5, <1>8 DEF WriteAdd, WriteAttach, WriteDetach, WriteVisitor, WriteRemove, WriteUpdate,
     AddEdge, DeleteEdge, DropLan, WriteRunning, CheckLive, RowStep
<1>9. CASE DockerLan
  <2>1. status' \in {status, Degraded} /\ (Fault \/ NoFault)
    BY <1>9 DEF DockerLan, DockerStep
  <2> QED
    BY <1>1, <1>4, <2>1 DEF WordsGood
<1>10. CASE DockerSpawn \/ DockerRemove \/ DockerConnect \/ DockerDisconnect \/ DockerServices
            \/ DockerRecreate \/ MutatorDies
  <2>1. status' = status /\ (Fault \/ NoFault)
    BY <1>10 DEF DockerSpawn, DockerRemove, DockerConnect, DockerDisconnect, DockerServices,
       DockerRecreate, DockerStep, MutatorDies
  <2> QED
    BY <1>4, <2>1 DEF WordsGood
<1>11. CASE Validate
  <2>1. status' \in {status, Degraded} /\ Excuse("disturbed", ~Valid)
    BY <1>11 DEF Validate
  <2> QED
    BY <1>1, <1>3, <2>1 DEF WordsGood
<1>12. ASSUME NEW kind, NEW d, NEW s, NEW config, NEW starts, ApiBegin(kind, d, s, config, starts)
       PROVE  WordsGood'
  <2>1. status' = status /\ Excuse("disturbed", job # Blank \/ ~IsLive)
    BY <1>12 DEF ApiBegin
  <2> QED
    BY <1>3, <2>1 DEF WordsGood
<1>13. CASE ApiStop \/ ApiUp
  <2>1. status' = status /\ (Fault \/ NoFault)
    BY <1>13 DEF ApiStop, ApiUp
  <2> QED
    BY <1>4, <2>1 DEF WordsGood
<1>14. CASE ApiWrite \/ ApiRender \/ UNCHANGED vars
  BY <1>5, <1>14 DEF ApiWrite, ApiRender, vars
<1>15. CASE TearBegin
  <2>1. status' = "tearing_down" /\ Excuse("disturbed", job # Blank \/ api # NoApi)
    BY <1>15 DEF TearBegin
  <2> QED
    BY <1>2, <1>3, <2>1 DEF WordsGood
<1>16. CASE TearCompose
  <2>1. status' = status /\ (Fault \/ NoFault)
    BY <1>16 DEF TearCompose
  <2> QED
    BY <1>4, <2>1 DEF WordsGood
<1>17. CASE TearNetworks
  BY <1>2, <1>17 DEF TearNetworks, WordsGood
<1>18. CASE FleetUp
  <2>1. status' = status /\ Excuse("fleet", <<base', svc'>> # <<base, svc>>)
    BY <1>18 DEF FleetUp
  <2> QED
    BY <1>3, <2>1 DEF WordsGood
<1> QED
  BY <1>7, <1>8, <1>9, <1>10, <1>11, <1>12, <1>13, <1>14, <1>15, <1>16, <1>17, <1>18
  DEF Next, Work, Api

\* The topology as deployed.
LEMMA TypesStart == Init => TypesInv
<1> SUFFICES ASSUME Init PROVE TypesInv
  OBVIOUS
<1> DEFINE order == SetToSeq(FirstLans)
           home == [lan |-> order[1], ip |-> [net |-> 1, host |-> 1]]
           n == [l \in LanNames |-> CHOOSE i \in DOMAIN order : order[i] = l]
<1>1. IsFiniteSet(FirstLans) /\ Cardinality(FirstLans) \in Nat /\ Cardinality(FirstLans) # 0
      /\ ExistsBijection(1..Cardinality(FirstLans), FirstLans)
  BY MutationOpsAssumption, FS_Subset, FS_CardinalityType, FS_EmptySet
<1>2. /\ order \in [1..Cardinality(FirstLans) -> FirstLans] /\ IsInjective(order)
  <2>1. \E f \in [1..Cardinality(FirstLans) -> FirstLans] : IsInjective(f)
    BY <1>1 DEF ExistsBijection, Bijection, Injection
  <2> QED
    BY <2>1 DEF SetToSeq
<1>3. \A l \in FirstLans : \E i \in 1..Cardinality(FirstLans) : order[i] = l
  <2> DEFINE N == 1..Cardinality(FirstLans)
  <2>1. order \in Injection(N, FirstLans)
    BY <1>2 DEF Injection
  <2>2. Cardinality(N) = Cardinality(FirstLans)
    BY <1>1, FS_Interval
  <2> HIDE DEF order, N
  <2>3. order \in Surjection(N, FirstLans)
    BY <1>1, <2>1, <2>2, FS_Injection
  <2> QED
    BY <2>3 DEF Surjection, N
<1>4. /\ order[1] \in FirstLans /\ order[1] \in LanNames /\ home \in Address
      /\ 1 \in Subnets
  BY <1>1, <1>2, MutationOpsAssumption DEF Address
<1>5. \A l \in FirstLans : n[l] \in 1..Cardinality(FirstLans) /\ n[l] \in Subnets /\ n[l] # 0
                           /\ order[n[l]] = l
  <2>1. \A l \in FirstLans : n[l] \in 1..Cardinality(FirstLans) /\ order[n[l]] = l
    BY <1>2, <1>3, MutationOpsAssumption
  <2> HIDE DEF n, order
  <2> QED
    BY <2>1, MutationOpsAssumption
<1>6. lans = [l \in LanNames |-> IF l \notin FirstLans THEN NoLan
                                 ELSE [subnet |-> n[l], dmz |-> n[l] = 1]]
  BY DEF Init
<1>7. /\ rows = [d \in Deckies |->
            IF d = 1 THEN [uuid |-> 1, cfg |-> [ips |-> <<home>>, l3 |-> FALSE],
                           services |-> Services, state |-> "running"]
            ELSE NoRow]
      /\ edges = {[d |-> 1, lan |-> home.lan, bridge |-> FALSE]}
      /\ bridges = [l \in LanNames |-> lans[l].subnet]
      /\ base = [d \in Deckies |->
            IF d = 1 THEN [project |-> Own, nets |-> {home}, l3 |-> FALSE] ELSE NoBase]
      /\ svc = [d \in Deckies |-> [s \in Services |-> IF d = 1 THEN Own ELSE None]]
      /\ file = [d \in {1} |-> [nets |-> {home}, services |-> Services, l3 |-> FALSE]]
      /\ job = Blank /\ api = NoApi /\ status = "active" /\ excuses = {}
  BY DEF Init
<1> HIDE DEF n, order
<1>8. LansTyped
  BY <1>5, <1>6 DEF LansTyped
<1>9. LansKnown
  <2>1. lans[order[1]] = [subnet |-> n[order[1]], dmz |-> n[order[1]] = 1]
    BY <1>4, <1>6
  <2>2. lans[order[1]] # NoLan
    BY <1>4, <1>5, <2>1 DEF NoLan, NoNet
  <2> QED
    BY <1>7, <2>2 DEF LansKnown
<1> HIDE DEF home
<1>10. RowsGood
  <2>1. ToSet(<<home>>) = {home} /\ OneEach(<<home>>)
    BY DEF ToSet, OneEach
  <2> QED
    BY <1>4, <1>7, <2>1 DEF RowsGood, HasRow, GoodRow, GoodConfig, IsConfig
<1>11. JobGood /\ OpLan /\ ApiGood
  BY <1>7 DEF JobGood, OpLan, ApiGood, Blank, NoApi, None
<1>12. bridges \in [LanNames -> Subnets \cup {NoNet}]
  BY <1>7, <1>8, LanHasSubnet
<1>13. svc \in [Deckies -> [Services -> Projects]]
  BY <1>7 DEF Projects
<1>14. (\A d \in Deckies : base[d].nets \subseteq Address)
       /\ \A d \in DOMAIN file \ {0} : file[d].nets \subseteq Address
  BY <1>4, <1>7 DEF NoBase
<1>15. WordsGood
  BY <1>7 DEF WordsGood, ALL
<1> QED
  BY <1>8, <1>9, <1>10, <1>11, <1>12, <1>13, <1>14, <1>15 DEF TypesInv, RowsInv, DockerGood

LEMMA TypesNext ==
    ASSUME RoomForAll, HomeInv, BaseShape, TypesInv, [Next]_vars PROVE TypesInv'
<1>1. OpInv /\ ApiGood /\ RowsInv /\ JobGood /\ LansTyped /\ DockerGood /\ WordsGood
  BY DEF TypesInv, OpInv, RowsInv
<1>2. OpInv' /\ ApiGood'
  BY <1>1, OpNext, ApiNext
<1>3. FileGood' /\ NetsGood'
  BY <1>1, FileStays, NetsStay
<1>4. BridgesGood' /\ ServicesGood'
  BY <1>1, BridgesStayGood, ServicesStay DEF DockerGood, BridgesGood, ServicesGood
<1>5. DockerGood'
  BY <1>3, <1>4 DEF DockerGood, FileGood, NetsGood, BridgesGood, ServicesGood
<1> QED
  BY <1>1, <1>2, <1>5, WordsStay DEF TypesInv, OpInv

LEMMA TypesImply == ASSUME HomeInv, BaseShape, TypesInv PROVE TypeOK
<1>1. \A d \in Deckies : HasRow(d) =>
          /\ IsConfig(rows[d].cfg) /\ Len(rows[d].cfg.ips) = Cardinality(Keys(rows[d].cfg.ips))
          /\ rows[d].services \subseteq Services /\ rows[d].state \in {"pending", "running"}
  <2> SUFFICES ASSUME NEW d \in Deckies, HasRow(d)
               PROVE  /\ IsConfig(rows[d].cfg)
                      /\ Len(rows[d].cfg.ips) = Cardinality(Keys(rows[d].cfg.ips))
                      /\ rows[d].services \subseteq Services
                      /\ rows[d].state \in {"pending", "running"}
    OBVIOUS
  <2>1. IsRow(rows[d]) /\ GoodRow(rows[d])
    BY DEF HomeInv, RowsHomed, TypesInv, RowsInv, RowsGood
  <2>2. rows[d].cfg.ips \in Seq(ToSet(rows[d].cfg.ips)) /\ OneEach(rows[d].cfg.ips)
    BY <2>1 DEF IsRow, Homed, GoodRow, GoodConfig
  <2> QED
    BY <2>1, <2>2, OnceCounts DEF GoodRow, GoodConfig
<1>2. edges \subseteq [d : Deckies, lan : LanNames, bridge : BOOLEAN] /\ job.visitors \subseteq Deckies
  BY DEF HomeInv, Shapes, IsJob
<1>3. \A d \in Deckies : base[d].project \in Projects
  BY DEF BaseShape, IsBase
<1> QED
  BY <1>1, <1>2, <1>3 DEF TypeOK, TypesInv, RowsInv, LansTyped, JobGood, DockerGood, WordsGood

\* While every LAN has room for all deckies, rows, edges, Docker and what ops
\* and service changes have read keep their types: a decky has at most one
\* address in a LAN, an edge leads to a LAN that exists, a LAN that is dropped
\* has no member left, and what hydrate and the allocator give out are
\* addresses of the LAN's subnet, for any number of LANs, deckies, mutations,
\* API calls and faults.
THEOREM TypesInvariant == ASSUME RoomForAll PROVE Spec => []TypesInv
<1>1. Init => HomeInv /\ WiringInv /\ TypesInv
  BY HomeStart, WiringStart, TypesStart
<1>2. HomeInv /\ BaseShape /\ TypesInv /\ [Next]_vars => TypesInv'
  BY TypesNext
<1>3. WiringInv => BaseShape
  BY DEF WiringInv
<1> QED
  BY <1>1, <1>2, <1>3, HomeInvariant, WiringInvariant, PTL DEF Spec

\* The types the run checks, one address per LAN among them, where every LAN has
\* room for all deckies (allocator.py raises otherwise).
THEOREM OpsTypeCorrect == ASSUME RoomForAll PROVE Spec => []TypeOK
<1>1. HomeInv /\ WiringInv /\ TypesInv => TypeOK
  BY TypesImply DEF WiringInv
<1> QED
  BY <1>1, HomeInvariant, WiringInvariant, TypesInvariant, PTL
=============================================================================
