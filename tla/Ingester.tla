------------------------------ MODULE Ingester ------------------------------
(***************************************************************************)
(* The log ingestion worker of the API (decnet/web/ingester.py): it tails  *)
(* the JSON log, commits batches to the logs table, extracts bounties from *)
(* the records and keeps its file position in the state table.             *)
(*                                                                         *)
(* A line is the number of its production, positions count whole lines.    *)
(* Each database call ends a step.  An exception anywhere abandons the     *)
(* batch: the loop sleeps and starts over at its position variable.        *)
(***************************************************************************)
EXTENDS Integers, Sequences, FiniteSets

CONSTANTS BatchSize,      \* DECNET_BATCH_SIZE
          MaxLines,       \* bound: lines written to the JSON log
          FatalErrors,    \* whether the database may fail for good
          MaxRotations,   \* bound: truncations of the file
          MaxFailures,    \* bound: database calls that raise
          MaxCrashes      \* bound: restarts of the API

ASSUME IngesterAssumption ==
    /\ BatchSize \in Nat \ {0}
    /\ {MaxLines, MaxRotations, MaxFailures, MaxCrashes} \subseteq Nat
    /\ FatalErrors \in BOOLEAN

Lines == 1..MaxLines

VARIABLES
    log,        \* the JSON log: the lines it holds
    written,    \* lines written so far
    bad,        \* those of them that are not JSON
    saved,      \* state table: the persisted position
    position,   \* _position
    cursor,     \* _f.tell()
    batch,      \* _batch: lines read, with the position they end at
    resume,     \* where the loop goes on after a flush
    pc,
    logs,       \* how often each line was inserted in the logs table
    bounties,   \* how often each line's bounties were extracted
    rotations, failures, crashes

fileVars == <<log, written, bad>>
workerVars == <<position, cursor, batch, resume>>
tableVars == <<saved, logs, bounties>>
boundVars == <<rotations, failures, crashes>>
vars == <<fileVars, pc, workerVars, tableVars, boundVars>>

BatchLines == {batch[i].line : i \in DOMAIN batch}

Init ==
    /\ log = <<>> /\ written = 0 /\ bad = {}
    /\ saved = 0 /\ position = 0 /\ cursor = 0 /\ batch = <<>>
    /\ resume = "poll" /\ pc = "load"
    /\ logs = [n \in Lines |-> 0]
    /\ bounties = [n \in Lines |-> 0]
    /\ rotations = 0 /\ failures = 0 /\ crashes = 0

-----------------------------------------------------------------------------
(* The file, written by the collector and by the swarm listener *)

WriteLine ==
    /\ written < MaxLines
    /\ written' = written + 1
    /\ log' = Append(log, written')
    /\ bad' \in {bad, bad \cup {written'}}
    /\ UNCHANGED <<pc, workerVars, tableVars, boundVars>>

Rotate ==
    /\ rotations < MaxRotations
    /\ log # <<>>
    /\ rotations' = rotations + 1
    /\ log' = <<>>
    /\ UNCHANGED <<written, bad, pc, workerVars, tableVars, failures, crashes>>

-----------------------------------------------------------------------------
(* log_ingestion_worker *)

\* get_state is retried until the database answers.
LoadPosition ==
    /\ pc = "load"
    /\ position' = saved
    /\ pc' = "poll"
    /\ UNCHANGED <<fileVars, cursor, batch, resume, tableVars, boundVars>>

\* The outer except: the batch is dropped and the loop starts over, unless the
\* error says that the database is gone, which ends the worker.
Raise ==
    /\ failures < MaxFailures
    /\ failures' = failures + 1
    /\ pc' \in {"poll"} \cup (IF FatalErrors THEN {"exited"} ELSE {})
    /\ batch' = <<>>
    /\ UNCHANGED <<fileVars, cursor, resume, rotations, crashes>>

\* stat() finds nothing new: sleep and poll again.
PollNothing ==
    /\ pc = "poll"
    /\ Len(log) = position
    /\ UNCHANGED vars

\* News are read from the position on.
Poll ==
    /\ pc = "poll"
    /\ Len(log) > position
    /\ cursor' = position
    /\ batch' = <<>>
    /\ pc' = "read"
    /\ UNCHANGED <<fileVars, position, resume, tableVars, boundVars>>

\* Faulty variant: the persisted position is reset, the loop's is not.
PollRotated_SavedOnly ==
    /\ pc = "poll"
    /\ Len(log) < position
    /\ saved' = 0
    /\ UNCHANGED <<fileVars, pc, workerVars, logs, bounties, boundVars>>

\* A file shorter than the position was rotated: both positions restart.  (What
\* is left of the pass is Poll.)
PollRotated ==
    /\ pc = "poll"
    /\ Len(log) < position
    /\ position' = 0
    /\ saved' = 0
    /\ UNCHANGED <<fileVars, pc, cursor, batch, resume, logs, bounties, boundVars>>

\* set_state raises: the loop's position is reset already.
PollRotatedFails ==
    /\ pc = "poll"
    /\ Len(log) < position
    /\ position' = 0
    /\ Raise
    /\ UNCHANGED tableVars

\* Faulty variant: only the waiting time ends a batch.
ReadRecord_NoLimit ==
    /\ pc = "read"
    /\ cursor < Len(log)
    /\ log[cursor + 1] \notin bad
    /\ cursor' = cursor + 1
    /\ batch' = Append(batch, [line |-> log[cursor + 1], end |-> cursor + 1])
    /\ \/ pc' = "flush" /\ resume' = "read"
       \/ UNCHANGED <<pc, resume>>
    /\ UNCHANGED <<fileVars, position, tableVars, boundVars>>

\* A record joins the batch; a full batch, or one that waited long enough, is
\* flushed.
ReadRecord ==
    /\ pc = "read"
    /\ cursor < Len(log)
    /\ log[cursor + 1] \notin bad
    /\ cursor' = cursor + 1
    /\ batch' = Append(batch, [line |-> log[cursor + 1], end |-> cursor + 1])
    /\ \/ pc' = "flush" /\ resume' = "read"
       \/ Len(batch') < BatchSize /\ UNCHANGED <<pc, resume>>
    /\ UNCHANGED <<fileVars, position, tableVars, boundVars>>

\* JSONDecodeError: the position moves behind the line, and with it behind the
\* records of the batch that is still waiting.
ReadBadLine ==
    /\ pc = "read"
    /\ cursor < Len(log)
    /\ log[cursor + 1] \in bad
    /\ cursor' = cursor + 1
    /\ position' = cursor + 1
    /\ UNCHANGED <<fileVars, pc, batch, resume, tableVars, boundVars>>

\* The end of the file: the rest is flushed, then the file is polled again.
ReadEnd ==
    /\ pc = "read"
    /\ cursor >= Len(log)
    /\ pc' = IF batch = <<>> THEN "poll" ELSE "flush"
    /\ resume' = "poll"
    /\ UNCHANGED <<fileVars, position, cursor, batch, tableVars, boundVars>>

-----------------------------------------------------------------------------
(* _flush_batch *)

Insert == logs' = [n \in Lines |-> IF n \in BatchLines THEN logs[n] + 1 ELSE logs[n]]

\* Faulty variant: an entry is lost from a batch of several.
AddLogs_Truncate ==
    /\ pc = "flush"
    /\ logs' = [logs EXCEPT ![batch[1].line] = @ + 1]
    /\ pc' = "bounty"
    /\ UNCHANGED <<fileVars, workerVars, saved, bounties, boundVars>>

\* add_logs: one transaction for the batch.
AddLogs ==
    /\ pc = "flush"
    /\ Insert
    /\ pc' = "bounty"
    /\ UNCHANGED <<fileVars, workerVars, saved, bounties, boundVars>>

\* It raises; the commit may have happened before the connection broke.
AddLogsFails ==
    /\ pc = "flush"
    /\ Insert \/ UNCHANGED logs
    /\ Raise
    /\ UNCHANGED <<position, saved, bounties>>

Extract(k) ==
    bounties' = [n \in Lines |-> IF \E i \in 1..k : batch[i].line = n THEN bounties[n] + 1
                                                                      ELSE bounties[n]]

\* Faulty variant: the extraction of a batch stops before its last entry.
ExtractBounties_ButLast ==
    /\ pc = "bounty"
    /\ Extract(Len(batch) - 1)
    /\ pc' = "save"
    /\ UNCHANGED <<fileVars, workerVars, saved, logs, boundVars>>

\* _extract_bounty for every entry.
ExtractBounties ==
    /\ pc = "bounty"
    /\ Extract(Len(batch))
    /\ pc' = "save"
    /\ UNCHANGED <<fileVars, workerVars, saved, logs, boundVars>>

\* It raises at one entry; those before it are done.
ExtractBountiesFails ==
    /\ pc = "bounty"
    /\ \E k \in 0..(Len(batch) - 1) : Extract(k)
    /\ Raise
    /\ UNCHANGED <<position, saved, logs>>

\* Faulty variant: the new position is not handed back to the loop.
SavePosition_NotReturned ==
    /\ pc = "save"
    /\ saved' = batch[Len(batch)].end
    /\ batch' = <<>>
    /\ pc' = resume
    /\ UNCHANGED <<fileVars, position, cursor, resume, logs, bounties, boundVars>>

\* set_state, and the position the loop goes on with.
SavePosition ==
    /\ pc = "save"
    /\ saved' = batch[Len(batch)].end
    /\ position' = batch[Len(batch)].end
    /\ batch' = <<>>
    /\ pc' = resume
    /\ UNCHANGED <<fileVars, cursor, resume, logs, bounties, boundVars>>

SavePositionFails ==
    /\ pc = "save"
    /\ Raise
    /\ UNCHANGED <<position, tableVars>>

\* The API process stops, or cancels the task, and starts again.
Crash ==
    /\ crashes < MaxCrashes
    /\ pc # "load"
    /\ crashes' = crashes + 1
    /\ pc' = "load"
    /\ batch' = <<>>
    /\ UNCHANGED <<fileVars, position, cursor, resume, tableVars, rotations, failures>>

-----------------------------------------------------------------------------
Fail == PollRotatedFails \/ AddLogsFails \/ ExtractBountiesFails \/ SavePositionFails

Step ==
    \/ LoadPosition \/ PollNothing \/ Poll \/ PollRotated
    \/ ReadRecord \/ ReadBadLine \/ ReadEnd
    \/ AddLogs \/ ExtractBounties \/ SavePosition

Next == WriteLine \/ Rotate \/ Step \/ Fail \/ Crash

\* The task runs as long as the API does.
Fairness == WF_vars(Step)

Spec == Init /\ [][Next]_vars /\ Fairness

-----------------------------------------------------------------------------
(* Properties *)

\* Type correctness of the file, the positions and the tables.
TypeOK ==
    /\ log \in Seq(Lines) /\ written \in 0..MaxLines /\ bad \subseteq 1..written
    /\ {saved, position, cursor} \subseteq 0..MaxLines
    /\ batch \in Seq([line : Lines \ bad, end : 1..MaxLines]) /\ Len(batch) <= BatchSize
    /\ resume \in {"read", "poll"}
    /\ pc \in {"load", "poll", "read", "flush", "bounty", "save", "exited"}
    /\ logs \in [Lines -> Nat] /\ bounties \in [Lines -> Nat]
    /\ rotations \in 0..MaxRotations /\ failures \in 0..MaxFailures
    /\ crashes \in 0..MaxCrashes

\* "the next run re-reads the un-committed lines rather than losing them"
\* (ingester.py:107-110): without rotation no record below the persisted
\* position is missing in the logs table or was left without its bounties.
UncommittedReread ==
    rotations = 0 =>
        \A i \in 1..saved : log[i] \notin bad => logs[log[i]] >= 1 /\ bounties[log[i]] >= 1

\* Bounties are extracted from committed records only, so a bounty always has
\* its log row, however often a flush breaks off and is repeated.
BountyHasLog == \A n \in Lines : bounties[n] <= logs[n]

\* A record is inserted again only when a flush broke off or the file was
\* taken for a rotated one: without rotation the extra rows are paid for by
\* failures and restarts.
DuplicatesPaid == rotations = 0 => \A n \in Lines : logs[n] <= 1 + failures + crashes

\* The ingester implements the checkpoint promise of AtLeastOnceLog: a record is
\* handed over when it is in the logs table and its bounties are extracted, a
\* line that is not JSON when it is written; the checkpoint is the state row.
\* A rotation, or a failure that meets an undecodable line, ends the promise; a
\* fatal database error suspends it until the API is started again.
Promise == INSTANCE AtLeastOnceLog WITH
    delivered <- bad \cup {n \in 1..written : logs[n] >= 1 /\ bounties[n] >= 1},
    checkpoint <- saved,
    intact <- rotations = 0 /\ (bad = {} \/ failures = 0),
    alive <- pc # "exited"

AtLeastOnce == Promise!Spec

\* The worker does not stay beyond the end of a rotated file.
NotStuck == <>[](position = Len(log) \/ pc = "exited")
=============================================================================
