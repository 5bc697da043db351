------------------------------ MODULE Collector ------------------------------
(***************************************************************************)
(* The collector (decnet/collector/worker.py): one thread per container    *)
(* that follows its log and appends the lines to the host's log file, a    *)
(* thread that watches Docker's start events, and a reconcile loop that    *)
(* lists the running containers and starts the streams that are missing.   *)
(*                                                                         *)
(* Streams, watcher and the reconcile loop's list call share one bounded   *)
(* thread pool with a FIFO queue.  The loop's own code (_spawn, the pruning*)
(* and what follows a list) runs in single steps of the event loop.  All   *)
(* containers are service containers; Docker keeps a container's log over  *)
(* a stop and a start, and a new stream begins at its first line.          *)
(*                                                                         *)
(* The worker may end without an error: its reconcile loop is cancelled,   *)
(* the process lives on as long as its threads do and then exits with 0,   *)
(* which systemd (Restart=on-failure) does not answer with a restart.      *)
(***************************************************************************)
EXTENDS Naturals, Sequences, FiniteSets

CONSTANTS Containers,
          PoolSize,     \* max_workers of collector_pool (64 in the code)
          MaxLines,     \* bound: lines a container writes
          MaxChanges,   \* bound: starts and stops of containers
          MaxBreaks,    \* bound: Docker streams and calls that raise
          MaxDeaths     \* bound: deaths of the collector

Watch == "watch"        \* the pool's job that runs _watch_events
List == "list"          \* the pool's job that lists the containers
Lines == 1..MaxLines

VARIABLES
    running,    \* Docker: the running containers
    lines,      \* Docker: lines in each container's log
    active,     \* the active dict: none, queued, streaming, ended (the thread
                \* is done, its future not yet), done
    pos,        \* lines the container's stream has delivered
    copies,     \* the log file: how often it has each line
    queue,      \* jobs waiting for a thread
    watch,      \* the watcher: none, queued, live, backoff
    events,     \* start events it has still to read
    posted,     \* _spawn calls scheduled on the loop
    recon,      \* the reconcile loop: sleep, queued, listing, apply
    seen,       \* the containers it listed
    up,         \* the worker is past its initial scan
    over,       \* the worker has returned; only its threads go on
    changes, breaks, deaths,
    ended       \* history: streams of each container that ended

dockerVars == <<running, lines>>
boundVars == <<changes, breaks, deaths>>
vars == <<dockerVars, active, pos, copies, queue, watch, events, posted, recon, seen,
          up, over, boundVars, ended>>

Threads ==
    Cardinality({c \in Containers : active[c] = "streaming"})
      + (IF watch \in {"live", "backoff"} THEN 1 ELSE 0)
      + (IF recon = "listing" THEN 1 ELSE 0)

Init ==
    /\ running \in SUBSET Containers
    /\ lines = [c \in Containers |-> 0]
    /\ active = [c \in Containers |-> "none"]
    /\ pos = [c \in Containers |-> 0]
    /\ copies = [c \in Containers |-> [n \in Lines |-> 0]]
    /\ queue = <<>> /\ watch = "none" /\ events = {} /\ posted = {}
    /\ recon = "sleep" /\ seen = {} /\ up = FALSE /\ over = FALSE
    /\ changes = 0 /\ breaks = 0 /\ deaths = 0
    /\ ended = [c \in Containers |-> 0]

-----------------------------------------------------------------------------
(* Docker *)

Log(c) ==
    /\ c \in running /\ lines[c] < MaxLines
    /\ lines' = [lines EXCEPT ![c] = @ + 1]
    /\ UNCHANGED <<running, active, pos, copies, queue, watch, events, posted, recon, seen,
                   up, over, boundVars, ended>>

\* The start event reaches a watcher that is connected, and nobody else.
Start(c) ==
    /\ c \notin running
    /\ changes < MaxChanges /\ changes' = changes + 1
    /\ running' = running \cup {c}
    /\ events' = IF watch = "live" THEN events \cup {c} ELSE events
    /\ UNCHANGED <<lines, active, pos, copies, queue, watch, posted, recon, seen, up, over,
                   breaks, deaths, ended>>

Stop(c) ==
    /\ c \in running
    /\ changes < MaxChanges /\ changes' = changes + 1
    /\ running' = running \ {c}
    /\ UNCHANGED <<lines, active, pos, copies, queue, watch, events, posted, recon, seen,
                   up, over, breaks, deaths, ended>>

-----------------------------------------------------------------------------
(* _spawn, and the pool *)

Missing(S) == {c \in S : active[c] \in {"none", "done"}}

\* Some order of a set, as a list from Docker comes.
Orders(S) == {s \in [1..Cardinality(S) -> S] : \A i, j \in DOMAIN s : i # j => s[i] # s[j]}

\* Faulty variant: a running stream does not keep a second one away.
Spawn_Again(S, jobs) ==
    /\ active' = [c \in Containers |-> IF c \in S THEN "queued" ELSE active[c]]
    /\ \E s \in Orders(S) : queue' = queue \o s \o jobs

\* _spawn for each container of S; jobs are submitted behind them.
Spawn(S, jobs) ==
    /\ active' = [c \in Containers |-> IF c \in Missing(S) THEN "queued" ELSE active[c]]
    /\ \E s \in Orders(Missing(S)) : queue' = queue \o s \o jobs

\* A free thread takes the next job; a stream's begins with the first line.
Take ==
    /\ queue # <<>> /\ Threads < PoolSize
    /\ queue' = Tail(queue)
    /\ LET j == Head(queue) IN
         /\ watch' = IF j = Watch THEN "live" ELSE watch
         /\ recon' = IF j = List THEN "listing" ELSE recon
         /\ active' = IF j \in Containers THEN [active EXCEPT ![j] = "streaming"] ELSE active
         /\ pos' = IF j \in Containers THEN [pos EXCEPT ![j] = 0] ELSE pos
    /\ UNCHANGED <<dockerVars, copies, events, posted, seen, up, over, boundVars, ended>>

-----------------------------------------------------------------------------
(* log_collector_worker *)

\* The initial scan, then the watcher is submitted.
Scan ==
    /\ ~up /\ ~over /\ up' = TRUE
    /\ Spawn(running, <<Watch>>)
    /\ watch' = "queued"
    /\ UNCHANGED <<dockerVars, pos, copies, events, posted, recon, seen, over, boundVars, ended>>

\* from_env() or the list raises: the error is logged and the worker returns.
ScanRaises ==
    /\ ~up /\ ~over /\ over' = TRUE
    /\ breaks < MaxBreaks /\ breaks' = breaks + 1
    /\ UNCHANGED <<dockerVars, active, pos, copies, queue, watch, events, posted, recon, seen,
                   up, changes, deaths, ended>>

\* The watcher reads an event and schedules _spawn on the loop.
WatchEvent(c) ==
    /\ watch = "live" /\ c \in events
    /\ events' = events \ {c}
    /\ posted' = posted \cup {c}
    /\ UNCHANGED <<dockerVars, active, pos, copies, queue, watch, recon, seen, up, over, boundVars,
                   ended>>

SpawnPosted(c) ==
    /\ c \in posted
    /\ posted' = posted \ {c}
    /\ Spawn({c}, <<>>)
    /\ UNCHANGED <<dockerVars, pos, copies, watch, events, recon, seen, up, over, boundVars, ended>>

\* The event stream breaks: what it held is lost; the watcher keeps its thread.
WatchBreaks ==
    /\ watch = "live"
    /\ breaks < MaxBreaks /\ breaks' = breaks + 1
    /\ watch' = "backoff"
    /\ events' = {}
    /\ UNCHANGED <<dockerVars, active, pos, copies, queue, posted, recon, seen, up, over, changes,
                   deaths, ended>>

\* The event stream ends without an error: the watcher returns, and with it the
\* worker, once the loop has run what the watcher scheduled.  The reconcile loop
\* is cancelled, the pool takes no new jobs, the streams go on.
WatchEnds ==
    /\ watch = "live" /\ posted = {}
    /\ breaks < MaxBreaks /\ breaks' = breaks + 1
    /\ watch' = "none" /\ events' = {}
    /\ up' = FALSE /\ over' = TRUE
    /\ UNCHANGED <<dockerVars, active, pos, copies, queue, posted, recon, seen, changes,
                   deaths, ended>>

WatchReconnects ==
    /\ watch = "backoff"
    /\ watch' = "live"
    /\ UNCHANGED <<dockerVars, active, pos, copies, queue, events, posted, recon, seen, up, over,
                   boundVars, ended>>

\* Faulty variant: finished futures stay in the dict.
ReconcileWakes_NoPrune ==
    /\ up /\ recon = "sleep"
    /\ queue' = Append(queue, List)
    /\ recon' = "queued"
    /\ UNCHANGED <<dockerVars, active, pos, copies, watch, events, posted, seen, up, over,
                   boundVars, ended>>

\* The interval is over: finished futures are dropped and the list submitted.
ReconcileWakes ==
    /\ up /\ recon = "sleep"
    /\ active' = [c \in Containers |-> IF active[c] = "done" THEN "none" ELSE active[c]]
    /\ queue' = Append(queue, List)
    /\ recon' = "queued"
    /\ UNCHANGED <<dockerVars, pos, copies, watch, events, posted, seen, up, over, boundVars, ended>>

\* containers.list() returns in its thread, or raises.
ListReturns ==
    /\ recon = "listing"
    /\ \/ recon' = "apply" /\ seen' = running /\ UNCHANGED breaks
       \/ /\ breaks < MaxBreaks /\ breaks' = breaks + 1
          /\ recon' = "sleep" /\ UNCHANGED seen
    /\ UNCHANGED <<dockerVars, active, pos, copies, queue, watch, events, posted, up, over,
                   changes, deaths, ended>>

\* The loop starts what is in the list and not in the dict.
ReconcileApplies ==
    /\ up /\ recon = "apply"
    /\ Spawn({c \in seen : active[c] = "none"}, <<>>)
    /\ recon' = "sleep" /\ seen' = {}
    /\ UNCHANGED <<dockerVars, pos, copies, watch, events, posted, up, over, boundVars, ended>>

-----------------------------------------------------------------------------
(* _stream_container *)

\* A line is written to the log file.
Read(c) ==
    /\ active[c] = "streaming" /\ pos[c] < lines[c]
    /\ pos' = [pos EXCEPT ![c] = @ + 1]
    /\ copies' = [copies EXCEPT ![c][pos[c] + 1] = @ + 1]
    /\ UNCHANGED <<dockerVars, active, queue, watch, events, posted, recon, seen, up, over,
                   boundVars, ended>>

\* The log of a stopped container comes to its end, or the stream breaks.
StreamEnds(c) ==
    /\ active[c] = "streaming"
    /\ \/ c \notin running /\ pos[c] = lines[c] /\ UNCHANGED breaks
       \/ breaks < MaxBreaks /\ breaks' = breaks + 1
    /\ active' = [active EXCEPT ![c] = "ended"]
    /\ ended' = [ended EXCEPT ![c] = @ + 1]
    /\ UNCHANGED <<dockerVars, pos, copies, queue, watch, events, posted, recon, seen, up, over,
                   changes, deaths>>

\* The loop learns that the thread is done.
FutureDone(c) ==
    /\ up /\ active[c] = "ended"
    /\ active' = [active EXCEPT ![c] = "done"]
    /\ UNCHANGED <<dockerVars, pos, copies, queue, watch, events, posted, recon, seen, up, over,
                   boundVars, ended>>

\* The process dies and systemd starts it again; one that has exited cannot.
Die ==
    /\ up \/ (over /\ (queue # <<>> \/ Threads > 0))
    /\ deaths < MaxDeaths /\ deaths' = deaths + 1
    /\ up' = FALSE /\ over' = FALSE
    /\ active' = [c \in Containers |-> "none"]
    /\ ended' = [c \in Containers |-> IF active[c] = "streaming" THEN ended[c] + 1 ELSE ended[c]]
    /\ queue' = <<>> /\ watch' = "none" /\ events' = {} /\ posted' = {}
    /\ recon' = "sleep" /\ seen' = {}
    /\ UNCHANGED <<dockerVars, pos, copies, changes, breaks>>

-----------------------------------------------------------------------------
Reconcile == ReconcileWakes \/ ListReturns \/ ReconcileApplies
Stream(c) == Read(c) \/ FutureDone(c)
Watcher(c) == WatchEvent(c) \/ SpawnPosted(c)

Next ==
    \/ \E c \in Containers :
         Log(c) \/ Start(c) \/ Stop(c) \/ Watcher(c) \/ Stream(c) \/ StreamEnds(c)
    \/ Take \/ Scan \/ ScanRaises \/ WatchBreaks \/ WatchEnds \/ WatchReconnects
    \/ Reconcile \/ Die

\* Threads and the loop go on, and a process that died is started again (Scan),
\* which Restart=on-failure does unless it exited with 0; nothing is assumed of
\* events and of the watcher, which the reconcile loop does not rely on.
Fairness ==
    /\ WF_vars(Scan) /\ WF_vars(Take) /\ WF_vars(Reconcile)
    /\ \A c \in Containers : WF_vars(Stream(c))

Spec == Init /\ [][Next]_vars /\ Fairness

-----------------------------------------------------------------------------
(* Properties *)

\* Type correctness of the dict, the pool and the file.
TypeOK ==
    /\ running \subseteq Containers /\ seen \subseteq Containers
    /\ events \cup posted \subseteq Containers
    /\ active \in [Containers -> {"none", "queued", "streaming", "ended", "done"}]
    /\ \A c \in Containers : pos[c] <= lines[c] /\ lines[c] <= MaxLines
    /\ \A i \in DOMAIN queue : queue[i] \in Containers \cup {Watch, List}
    /\ watch \in {"none", "queued", "live", "backoff"}
    /\ recon \in {"sleep", "queued", "listing", "apply"}
    /\ Threads <= PoolSize

\* A stream reads a container's log from its first line, so every stream
\* repeats it: a second one is opened only after the first has ended, although
\* the scan, start events (late ones, too) and the reconcile loop's lists (stale
\* ones, too) all ask for streams of the same containers.
NoSecondStream == \A c \in Containers, n \in Lines : copies[c][n] <= 1 + ended[c]

\* "this loop picks up the orphan within RECONCILE_INTERVAL_S": whatever events
\* are lost, streams break or containers come and go, a line of a container
\* that keeps running reaches the log file, and the pool is never so full that
\* the list waits for ever, as long as the worker has not returned.
OrphanPickedUp ==
    \A c \in Containers, n \in Lines :
        (n <= lines[c]) ~> (copies[c][n] > 0 \/ c \notin running \/ over)
=============================================================================
