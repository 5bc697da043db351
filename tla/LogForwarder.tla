---------------------------- MODULE LogForwarder ----------------------------
(***************************************************************************)
(* Shipping a worker's log to the master: decnet/swarm/log_forwarder.py    *)
(* (run_forwarder, _pump, _send_batch, _OffsetStore) and the listener's    *)
(* frame loop in decnet/swarm/log_listener.py.                             *)
(*                                                                         *)
(* A line is the number of its production, offsets count whole lines.      *)
(* run_forwarder keeps the offset in a variable of its own (offset) that   *)
(* _pump receives as an argument and returns when it is stopped; while     *)
(* _pump runs it works on its own copy (pumped), and when it raises,       *)
(* run_forwarder's variable has the value it had before the connection.    *)
(*                                                                         *)
(* Every connection has its listener task and its bytes in flight, so the  *)
(* rest of a dropped connection may arrive after the next one is open.     *)
(***************************************************************************)
EXTENDS Integers, Sequences, FiniteSets

CONSTANTS BatchSize,      \* lines per _send_batch (500 in the code)
          MaxLag,         \* cfg.max_lag_bytes, in lines
          MaxLines,       \* bound: lines the collector writes
          MaxRotations,   \* bound: copytruncate rotations of the log
          MaxCuts,        \* bound: connections dropped by network or master
          MaxCrashes      \* bound: deaths of the forwarder

Lines == 1..MaxLines
Conns == 1..(1 + MaxCuts + MaxCrashes)

VARIABLES
    log,        \* the worker's log file: the lines it holds
    written,    \* lines the collector has written so far
    stored,     \* the row of the SQLite offset store
    offset,     \* run_forwarder's variable
    pumped,     \* _pump's variable
    batch,      \* the lines of the batch being drained
    pc,         \* where the forwarder is
    conn,       \* the number of the latest connection
    link,       \* its state: open, cut (unnoticed) or closed
    wire,       \* frames in flight per connection
    received,   \* the master's log file
    drained,    \* history: lines of batches whose drain() returned
    skipped,    \* history: lines passed over by the lag cap
    lost,       \* history: frames that never reached the listener
    rotations, cuts, crashes

forwarderVars == <<stored, offset, pumped, batch, pc>>
netVars == <<conn, link, wire, received, lost>>
historyVars == <<drained, skipped>>
boundVars == <<rotations, cuts, crashes>>
vars == <<log, written, forwarderVars, netVars, historyVars, boundVars>>

Elements(s) == {s[i] : i \in DOMAIN s}
InFlight == UNION {Elements(wire[c]) : c \in Conns}

Init ==
    /\ log = <<>> /\ written = 0
    /\ stored = 0 /\ offset = 0 /\ pumped = 0 /\ batch = <<>>
    /\ pc = "connect"
    /\ conn = 0 /\ link = "closed"
    /\ wire = [c \in Conns |-> <<>>]
    /\ received = <<>>
    /\ drained = {} /\ skipped = {} /\ lost = {}
    /\ rotations = 0 /\ cuts = 0 /\ crashes = 0

-----------------------------------------------------------------------------
(* The log file *)

\* The collector appends a line.
Collect ==
    /\ written < MaxLines
    /\ written' = written + 1
    /\ log' = Append(log, written')
    /\ UNCHANGED <<forwarderVars, netVars, historyVars, boundVars>>

\* logrotate with copytruncate: the file keeps its name and becomes empty.
Rotate ==
    /\ rotations < MaxRotations
    /\ log # <<>>
    /\ rotations' = rotations + 1
    /\ log' = <<>>
    /\ UNCHANGED <<written, forwarderVars, netVars, historyVars, cuts, crashes>>

-----------------------------------------------------------------------------
(* run_forwarder *)

\* open_connection succeeds and _pump starts from run_forwarder's offset.
Connect ==
    /\ pc = "connect"
    /\ conn + 1 \in Conns
    /\ conn' = conn + 1
    /\ link' = "open"
    /\ pumped' = offset
    /\ pc' = "stat"
    /\ UNCHANGED <<log, written, stored, offset, batch, wire, received, lost,
                   historyVars, boundVars>>

-----------------------------------------------------------------------------
(* _pump *)

\* Faulty variant: a shrunken file is not noticed.
Stat_NoRotation ==
    /\ pc = "stat"
    /\ LET cap == IF Len(log) - pumped > MaxLag THEN Len(log) - MaxLag ELSE pumped IN
         /\ pumped' = cap
         /\ stored' = IF cap # pumped THEN cap ELSE stored
         /\ skipped' = skipped \cup {log[i] : i \in (pumped + 1)..cap}
    /\ pc' = IF Len(log) > pumped' THEN "read" ELSE "stat"
    /\ UNCHANGED <<log, written, offset, batch, netVars, drained, boundVars>>

\* stat(), the rotation reset and the lag cap, each saved to the store; a file
\* without news is polled again.
Stat ==
    /\ pc = "stat"
    /\ LET from == IF Len(log) < pumped THEN 0 ELSE pumped
           to   == IF Len(log) - from > MaxLag THEN Len(log) - MaxLag ELSE from IN
         /\ pumped' = to
         /\ stored' = IF to # pumped THEN to ELSE stored
         /\ skipped' = skipped \cup {log[i] : i \in (from + 1)..to}
         /\ pc' = IF Len(log) = to THEN "stat" ELSE "read"
    /\ UNCHANGED <<log, written, offset, batch, netVars, drained, boundVars>>

\* Faulty variant: the seek is forgotten.
NextBatch_NoSeek == SubSeq(log, 1, IF Len(log) < BatchSize THEN Len(log) ELSE BatchSize)

\* The next lines from pumped on, at most BatchSize; the file may have changed
\* since stat().
NextBatch == SubSeq(log, pumped + 1, IF Len(log) < pumped + BatchSize THEN Len(log)
                                     ELSE pumped + BatchSize)

\* writer.write per line: into the connection, or into a dead one.
Ship ==
    IF link = "open"
    THEN wire' = [wire EXCEPT ![conn] = @ \o NextBatch] /\ UNCHANGED lost
    ELSE lost' = lost \cup Elements(NextBatch) /\ UNCHANGED wire

\* open, seek, readline; then the first half of _send_batch.
ReadBatch ==
    /\ pc = "read"
    /\ batch' = NextBatch
    /\ Ship
    /\ pc' = IF NextBatch = <<>> THEN "stat" ELSE "drain"
    /\ UNCHANGED <<log, written, stored, offset, pumped, conn, link, received,
                   historyVars, boundVars>>

\* drain() returns although nothing says the listener has the lines, not even
\* that the connection is alive; the offset is saved.
Drain ==
    /\ pc = "drain"
    /\ pumped' = pumped + Len(batch)
    /\ stored' = pumped'
    /\ drained' = drained \cup Elements(batch)
    /\ batch' = <<>>
    /\ pc' = "stat"
    /\ UNCHANGED <<log, written, offset, netVars, skipped, boundVars>>

\* drain() raises on a dead connection; run_forwarder closes the writer, backs
\* off and connects again, with offset as it was before the connection.
DrainRaises ==
    /\ pc = "drain"
    /\ link = "cut"
    /\ link' = "closed"
    /\ batch' = <<>>
    /\ pc' = "connect"
    /\ UNCHANGED <<log, written, stored, offset, pumped, conn, wire, received, lost,
                   historyVars, boundVars>>

\* The forwarder process dies; its connection goes with it.
Crash ==
    /\ crashes < MaxCrashes
    /\ pc # "dead"
    /\ crashes' = crashes + 1
    /\ pc' = "dead"
    /\ link' = "closed"
    /\ batch' = <<>>
    /\ UNCHANGED <<log, written, stored, offset, pumped, conn, wire, received, lost,
                   historyVars, rotations, cuts>>

\* Faulty variant: it goes on behind the batch that was under way.
Restart_SkipBatch ==
    /\ pc = "dead"
    /\ offset' = IF Len(log) < stored + BatchSize THEN Len(log) ELSE stored + BatchSize
    /\ pc' = "connect"
    /\ UNCHANGED <<log, written, stored, pumped, batch, netVars, historyVars, boundVars>>

\* systemd starts it again: the offset comes from the store.
Restart ==
    /\ pc = "dead"
    /\ offset' = stored
    /\ pc' = "connect"
    /\ UNCHANGED <<log, written, stored, pumped, batch, netVars, historyVars, boundVars>>

-----------------------------------------------------------------------------
(* The network and the listener *)

\* The connection breaks: the network, or the master's listener dies.
Cut ==
    /\ cuts < MaxCuts
    /\ link = "open"
    /\ cuts' = cuts + 1
    /\ link' = "cut"
    /\ UNCHANGED <<log, written, forwarderVars, conn, wire, received, lost, historyVars,
                   rotations, crashes>>

\* What a broken connection still held is gone.
Lose(c) ==
    /\ c # conn \/ link # "open"
    /\ wire[c] # <<>>
    /\ lost' = lost \cup Elements(wire[c])
    /\ wire' = [wire EXCEPT ![c] = <<>>]
    /\ UNCHANGED <<log, written, forwarderVars, conn, link, received, historyVars, boundVars>>

\* Faulty variant: a frame with others behind it is discarded.
HandleFrame_Drop(c) ==
    /\ wire[c] # <<>>
    /\ received' = IF Len(wire[c]) > 1 THEN received ELSE Append(received, Head(wire[c]))
    /\ wire' = [wire EXCEPT ![c] = Tail(@)]
    /\ UNCHANGED <<log, written, forwarderVars, conn, link, lost, historyVars, boundVars>>

\* _handle_connection: a frame is read and appended to the master's files.
HandleFrame(c) ==
    /\ wire[c] # <<>>
    /\ received' = Append(received, Head(wire[c]))
    /\ wire' = [wire EXCEPT ![c] = Tail(@)]
    /\ UNCHANGED <<log, written, forwarderVars, conn, link, lost, historyVars, boundVars>>

-----------------------------------------------------------------------------
Forward == Connect \/ Stat \/ ReadBatch \/ Drain \/ DrainRaises

Next ==
    \/ Collect \/ Rotate
    \/ Forward \/ Crash \/ Restart
    \/ Cut
    \/ \E c \in Conns : Lose(c) \/ HandleFrame(c)

\* The forwarder's loop goes on, systemd restarts it, and a listener task
\* reads what its connection still delivers or loses it.
Fairness ==
    /\ WF_vars(Forward)
    /\ WF_vars(Restart)
    /\ \A c \in Conns : WF_vars(Lose(c) \/ HandleFrame(c))

Spec == Init /\ [][Next]_vars /\ Fairness

-----------------------------------------------------------------------------
(* Properties *)

\* Type correctness of the files, offsets, connections and histories.
TypeOK ==
    /\ log \in Seq(Lines) /\ received \in Seq(Lines) /\ batch \in Seq(Lines)
    /\ written \in 0..MaxLines
    /\ {stored, offset, pumped} \subseteq Nat
    /\ pc \in {"connect", "stat", "read", "drain", "dead"}
    /\ conn \in {0} \cup Conns
    /\ link \in {"open", "cut", "closed"}
    /\ wire \in [Conns -> Seq(Lines)]
    /\ {drained, skipped, lost} \subseteq SUBSET Lines
    /\ rotations \in 0..MaxRotations /\ cuts \in 0..MaxCuts /\ crashes \in 0..MaxCrashes

\* A line that left the forwarder is on the master, on its way, or fell with a
\* connection; with an unbroken connection none falls.
DrainedAccounted ==
    /\ drained \subseteq Elements(received) \cup InFlight \cup lost
    /\ cuts = 0 /\ crashes = 0 => lost = {}

\* Without cuts, crashes, rotations and lag the master's file repeats the
\* worker's: same lines, same order, none twice.
MirrorsLog ==
    LET sent == received \o wire[1] IN
    cuts + crashes + rotations = 0 /\ skipped = {} => \A i \in DOMAIN sent : sent[i] = log[i]

\* "offset persistence MUST be transactional w.r.t. the send" (:15-16): the
\* forwarder implements the checkpoint promise of AtLeastOnceLog until the
\* file is rotated: a line is handed over when the drain of its batch returns or
\* the lag cap gives it up, and the checkpoint is the row of the offset store.
Promise == INSTANCE AtLeastOnceLog WITH
    delivered <- drained \cup skipped, checkpoint <- stored, intact <- rotations = 0,
    alive <- TRUE

AtLeastOnce == Promise!Spec

\* "never get stuck past EOF" (test_forwarder_resilience.py:100): after the last
\* rotation the pump comes to the end of the file and stays there.
NotStuck == <>[](pumped = Len(log))
=============================================================================
