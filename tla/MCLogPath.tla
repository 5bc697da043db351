----------------------------- MODULE MCLogPath ------------------------------
(***************************************************************************)
(* The three workers a log line passes through, each with its own faults:  *)
(* the collector (Collector), the forwarder (LogForwarder) and the         *)
(* ingester (Ingester).  They share nothing but files, and each model      *)
(* already writes and truncates its file at any time, so they are checked  *)
(* side by side: a behaviour is one of its subject, the others stand still.*)
(***************************************************************************)
EXTENDS Ingester

CONSTANTS MaxLag, MaxShipped, MaxCuts,
          Containers, PoolSize, MaxLogged, MaxChanges, MaxBreaks, MaxDeaths

VARIABLES
    shipLog, shipWritten, stored, offset, pumped, shipBatch, shipPc, conn, link, wire,
    received, drained, skipped, lost, shipRotations, cuts, shipCrashes,
    running, lines, active, pos, copies, queue, watch, events, posted, recon, seen, up,
    over, changes, breaks, deaths, ended,
    subject

F == INSTANCE LogForwarder WITH
    MaxLines <- MaxShipped, log <- shipLog, written <- shipWritten, batch <- shipBatch,
    pc <- shipPc, rotations <- shipRotations, crashes <- shipCrashes
C == INSTANCE Collector WITH MaxLines <- MaxLogged

\* Docker's container ids are no names of the pool's own jobs.
ASSUME PathAssumption ==
    /\ {MaxLag, MaxShipped, MaxCuts, PoolSize, MaxLogged, MaxChanges, MaxBreaks, MaxDeaths}
         \subseteq Nat
    /\ IsFiniteSet(Containers)
    /\ C!Watch \notin Containers /\ C!List \notin Containers

shipVars == <<shipLog, shipWritten, stored, offset, pumped, shipBatch, shipPc, conn, link,
              wire, received, drained, skipped, lost, shipRotations, cuts, shipCrashes>>
collectVars == <<running, lines, active, pos, copies, queue, watch, events, posted, recon,
                 seen, up, over, changes, breaks, deaths, ended>>
pathVars == <<vars, shipVars, collectVars, subject>>

PathInit ==
    /\ Init /\ F!Init /\ C!Init
    /\ subject \in {"collector", "forwarder", "ingester"}
    /\ subject = "collector" \/ running = {}

ByIngester(A) == subject = "ingester" /\ A /\ UNCHANGED <<shipVars, collectVars, subject>>
ByForwarder(A) == subject = "forwarder" /\ A /\ UNCHANGED <<vars, collectVars, subject>>
ByCollector(A) == subject = "collector" /\ A /\ UNCHANGED <<vars, shipVars, subject>>

PathNext == ByIngester(Next) \/ ByForwarder(F!Next) \/ ByCollector(C!Next)

\* The fairness of each module, for the worker whose behaviour it is.
PathFairness ==
    /\ WF_vars(subject = "ingester" /\ Step)
    /\ WF_shipVars(subject = "forwarder" /\ F!Forward)
    /\ WF_shipVars(subject = "forwarder" /\ F!Restart)
    /\ \A c \in F!Conns : WF_shipVars(subject = "forwarder" /\ (F!Lose(c) \/ F!HandleFrame(c)))
    /\ WF_collectVars(subject = "collector" /\ C!Scan)
    /\ WF_collectVars(subject = "collector" /\ C!Take)
    /\ WF_collectVars(subject = "collector" /\ C!Reconcile)
    /\ \A c \in Containers : WF_collectVars(subject = "collector" /\ C!Stream(c))

PathSpec == PathInit /\ [][PathNext]_pathVars /\ PathFairness

-----------------------------------------------------------------------------
\* Type correctness of the three workers.
PathTypeOK == TypeOK /\ F!TypeOK /\ C!TypeOK

\* Forwarder and ingester implement the checkpoint promise of AtLeastOnceLog:
\* no checkpoint runs ahead of what was handed over, and every line is handed
\* over, through crashes, cuts, failing calls and the lag cap.
CheckpointsKept == AtLeastOnce /\ F!AtLeastOnce

\* Forwarder and ingester come to the end of a file that was rotated under them
\* and stay there; neither waits beyond it.
NeverStuck == NotStuck /\ F!NotStuck

\* What left the forwarder is on the master, on its way, or fell with a
\* connection, and nothing falls while connections hold.
ShippedAccounted == F!DrainedAccounted

\* An undisturbed master's log repeats the worker's, in order and once.
MirrorsLog == F!MirrorsLog

\* A container has one stream at a time, whoever asks for it: start events,
\* late ones too, the scan, and the reconcile loop's lists, stale ones too.
NoSecondStream == C!NoSecondStream

\* A running container whose start event was lost or whose stream broke is
\* picked up by the reconcile loop, and its lines reach the log file, as long as
\* the worker has not returned.
OrphanPickedUp == C!OrphanPickedUp
=============================================================================
