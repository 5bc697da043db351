------------------------------- MODULE Webhook -------------------------------
(***************************************************************************)
(* The webhook dispatcher (decnet/webhook/worker.py) for one subscription  *)
(* row: the bus epochs, the reload loop, the consumer of the row's events, *)
(* the delivery tasks it starts, and the circuit breaker, whose counter is *)
(* read, bumped and written by concurrent tasks                            *)
(* (web/db/sqlmodel_repo/webhooks.py), with the API's changes of the row.  *)
(*                                                                         *)
(* deliver() with its retries (decnet/webhook/client.py) is one outcome.   *)
(* Each database call ends a step and may raise.  Signals over the bus may *)
(* be lost.                                                                *)
(***************************************************************************)
EXTENDS Naturals, FiniteSets

CONSTANTS Tasks,        \* delivery tasks at once (_EGRESS_CONCURRENCY and waiting)
          Threshold,    \* _CIRCUIT_THRESHOLD
          MaxEvents,    \* bound: events of the subscription
          MaxPatches,   \* bound: changes of the row by the API
          MaxRestarts,  \* bound: restarts of the bus
          MaxErrors     \* bound: database calls that raise

VARIABLES
    row,        \* the subscription: exists, enabled, tripped, failures
    server,     \* the bus server is up
    conn,       \* the worker's bus object: none, live or dead
    loop,       \* the worker: connect, reload, wait
    flag,       \* reload_flag
    consumer,   \* the row's consumer: none, live, or deaf: on a dead connection
    task,       \* the delivery tasks
    orphans,    \* the tasks started in an epoch that has ended
    events, patches, restarts, errors,
    streak,     \* history: deliveries that failed since the last success the
                \* database recorded, the creation or the enabling
    overlap     \* history: a task met another one, or a change of the row

countVars == <<events, patches, restarts, errors>>
vars == <<row, server, conn, loop, flag, consumer, task, orphans, countVars, streak, overlap>>

Rows == [exists : BOOLEAN, enabled : BOOLEAN, tripped : BOOLEAN, failures : Nat]
Free == [at |-> "free", count |-> 0]
Busy == {k \in Tasks : task[k] # Free}

Init ==
    /\ row = [exists |-> TRUE, enabled |-> TRUE, tripped |-> FALSE, failures |-> 0]
    /\ server = TRUE /\ conn = "none" /\ loop = "connect"
    /\ flag = FALSE /\ consumer = "none"
    /\ task = [k \in Tasks |-> Free] /\ orphans = {}
    /\ events = 0 /\ patches = 0 /\ restarts = 0 /\ errors = 0
    /\ streak = 0 /\ overlap = FALSE

\* A database call raises; the exception is logged and swallowed.
DbError == errors < MaxErrors /\ errors' = errors + 1

-----------------------------------------------------------------------------
(* webhook_worker and _run_with_bus *)

\* get_bus and connect; an unreachable bus is tried again after a while.
Connect ==
    /\ loop = "connect"
    /\ server
    /\ conn' = "live"
    /\ loop' = "reload"
    /\ UNCHANGED <<row, server, flag, consumer, task, orphans, countVars, streak, overlap>>

\* Faulty variant: the old consumers are not cancelled.
Reload_Keep ==
    /\ loop = "reload"
    /\ consumer' = IF row.exists /\ row.enabled
                   THEN IF conn = "live" THEN "live" ELSE "deaf" ELSE consumer
    /\ loop' = "wait"
    /\ UNCHANGED <<row, server, conn, flag, task, orphans, countVars, streak, overlap>>

\* The old consumers are cancelled; the enabled rows get new ones, on the bus
\* object of the epoch, whether its connection is still alive or not.
Reload ==
    /\ loop = "reload"
    /\ consumer' = IF row.exists /\ row.enabled
                   THEN IF conn = "live" THEN "live" ELSE "deaf" ELSE "none"
    /\ loop' = "wait"
    /\ UNCHANGED <<row, server, conn, flag, task, orphans, countVars, streak, overlap>>

\* list_webhook_subscriptions raises: the epoch ends without consumers, its bus
\* object is closed and the worker connects again, with a flag of its own; the
\* delivery tasks go on.
EpochEnds ==
    /\ loop = "reload"
    /\ DbError
    /\ consumer' = "none" /\ conn' = "none" /\ flag' = FALSE
    /\ orphans' = Busy
    /\ loop' = "connect"
    /\ UNCHANGED <<row, server, task, events, patches, restarts, streak, overlap>>

\* The wait ends by the flag or by the timer.
WaitEnds ==
    /\ loop = "wait"
    /\ flag' = FALSE
    /\ loop' = "reload"
    /\ UNCHANGED <<row, server, conn, consumer, task, orphans, countVars, streak, overlap>>

\* The bus server stops: the iterators of the consumer and of the listeners
\* end, nothing raises, and the epoch goes on.
BusStops ==
    /\ server
    /\ restarts < MaxRestarts
    /\ restarts' = restarts + 1
    /\ server' = FALSE
    /\ conn' = IF conn = "live" THEN "dead" ELSE conn
    /\ consumer' = IF consumer = "live" THEN "none" ELSE consumer
    /\ UNCHANGED <<row, loop, flag, task, orphans, events, patches, errors, streak, overlap>>

BusStarts ==
    /\ ~server
    /\ server' = TRUE
    /\ UNCHANGED <<row, conn, loop, flag, consumer, task, orphans, countVars, streak, overlap>>

-----------------------------------------------------------------------------
(* _consume and _dispatch_one *)

\* An event of the subscription's pattern: a delivery task starts.
Dispatch(k) ==
    /\ consumer = "live" /\ server
    /\ task[k] = Free
    /\ events < MaxEvents /\ events' = events + 1
    /\ task' = [task EXCEPT ![k].at = "deliver"]
    /\ orphans' = orphans \ {k}
    /\ overlap' = (overlap \/ Busy # {})
    /\ UNCHANGED <<row, server, conn, loop, flag, consumer, patches, restarts, errors, streak>>

\* The task of a delivery goes on to new; what the loop and the API own stays.
TaskGoes(k, new) ==
    /\ task' = [task EXCEPT ![k] = new]
    /\ UNCHANGED <<server, conn, loop, consumer, orphans, events, patches, restarts, overlap>>

\* deliver() succeeds: record_webhook_success resets the counter, or raises.
Succeed(k) ==
    /\ task[k].at = "deliver"
    /\ \/ /\ row' = IF row.exists THEN [row EXCEPT !.failures = 0] ELSE row
          /\ streak' = 0 /\ UNCHANGED errors
       \/ DbError /\ UNCHANGED <<row, streak>>
    /\ TaskGoes(k, Free)
    /\ UNCHANGED flag

\* deliver() fails or raises: record_webhook_failure reads the counter, or raises.
Fail(k) ==
    /\ task[k].at = "deliver"
    /\ streak' = streak + 1
    /\ \/ /\ TaskGoes(k, [at |-> "bump", count |-> (IF row.exists THEN row.failures ELSE 0) + 1])
          /\ UNCHANGED errors
       \/ DbError /\ TaskGoes(k, Free)
    /\ UNCHANGED <<row, flag>>

\* Faulty variant: the circuit trips one failure early.
Bump_Early(k) ==
    /\ task[k].at = "bump"
    /\ \/ /\ row' = IF row.exists THEN [row EXCEPT !.failures = task[k].count] ELSE row
          /\ TaskGoes(k, IF task[k].count + 1 >= Threshold THEN [task[k] EXCEPT !.at = "trip"]
                         ELSE Free)
          /\ UNCHANGED errors
       \/ DbError /\ TaskGoes(k, Free) /\ UNCHANGED row
    /\ UNCHANGED <<flag, streak>>

\* The bumped counter is written, and compared with the threshold; or the
\* commit raises and the failure is not counted.
Bump(k) ==
    /\ task[k].at = "bump"
    /\ \/ /\ row' = IF row.exists THEN [row EXCEPT !.failures = task[k].count] ELSE row
          /\ TaskGoes(k, IF task[k].count >= Threshold THEN [task[k] EXCEPT !.at = "trip"]
                         ELSE Free)
          /\ UNCHANGED errors
       \/ DbError /\ TaskGoes(k, Free) /\ UNCHANGED row
    /\ UNCHANGED <<flag, streak>>

\* trip_webhook_circuit, and the reload flag of the epoch that started the task;
\* or the call raises and the circuit stays closed.
Trip(k) ==
    /\ task[k].at = "trip"
    /\ \/ /\ row' = IF row.exists THEN [row EXCEPT !.enabled = FALSE, !.tripped = TRUE] ELSE row
          /\ flag' = (flag \/ k \notin orphans)
          /\ UNCHANGED errors
       \/ DbError /\ UNCHANGED <<row, flag>>
    /\ TaskGoes(k, Free)
    /\ UNCHANGED streak

-----------------------------------------------------------------------------
(* The API *)

\* A change of the row and its signal, which a live epoch may get.
Patch(new) ==
    /\ row.exists
    /\ patches < MaxPatches /\ patches' = patches + 1
    /\ row' = new
    /\ flag' \in {flag} \cup (IF conn = "live" THEN {TRUE} ELSE {})
    /\ overlap' = (overlap \/ Busy # {})
    /\ UNCHANGED <<server, conn, loop, consumer, task, orphans, events, restarts, errors>>

\* Enabling a disabled row clears the trip and the counter.
Enable ==
    /\ ~row.enabled
    /\ Patch([row EXCEPT !.enabled = TRUE, !.tripped = FALSE, !.failures = 0])
    /\ streak' = 0

Pause == row.enabled /\ Patch([row EXCEPT !.enabled = FALSE]) /\ UNCHANGED streak

Delete == Patch([row EXCEPT !.exists = FALSE]) /\ UNCHANGED streak

-----------------------------------------------------------------------------
Work(k) == Succeed(k) \/ Fail(k) \/ Bump(k) \/ Trip(k)
Loop == Connect \/ Reload \/ EpochEnds \/ WaitEnds

Next ==
    \/ Loop \/ BusStops \/ BusStarts
    \/ \E k \in Tasks : Dispatch(k) \/ Work(k)
    \/ Enable \/ Pause \/ Delete

\* The worker's loop runs (the fallback timer ends every wait), tasks go on,
\* and systemd starts a stopped bus again.
Fairness ==
    /\ WF_vars(Loop) /\ WF_vars(BusStarts)
    /\ \A k \in Tasks : WF_vars(Work(k))

Spec == Init /\ [][Next]_vars /\ Fairness

-----------------------------------------------------------------------------
(* Properties *)

\* Type correctness of the row, the loop and the tasks.
TypeOK ==
    /\ row \in Rows
    /\ server \in BOOLEAN /\ conn \in {"none", "live", "dead"}
    /\ loop \in {"connect", "reload", "wait"}
    /\ consumer \in {"none", "live", "deaf"}
    /\ flag \in BOOLEAN /\ overlap \in BOOLEAN /\ orphans \subseteq Tasks
    /\ task \in [Tasks -> [at : {"free", "deliver", "bump", "trip"}, count : Nat]]
    /\ streak \in Nat /\ events \in 0..MaxEvents
    /\ patches \in 0..MaxPatches /\ restarts \in 0..MaxRestarts /\ errors \in 0..MaxErrors

\* A disabled or deleted subscription goes quiet: whatever was under way when
\* it was tripped, paused or deleted, and although signals are lost, its
\* consumer ends, unless it is enabled again.
DisabledGoesQuiet ==
    (~row.exists \/ ~row.enabled) ~> (consumer = "none" \/ (row.exists /\ row.enabled))

\* The circuit breaker trips on a dead receiver only: while the deliveries do
\* not overlap each other or a change of the row, it takes Threshold deliveries
\* that failed since the last success the database recorded or the enabling,
\* whichever of the calls around it raise.  (A success whose call raises does
\* not reset the counter.)
TripEarned ==
    [][~row.tripped /\ row'.tripped /\ ~overlap => streak >= Threshold]_row
=============================================================================
