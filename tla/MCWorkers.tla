------------------------------ MODULE MCWorkers ------------------------------
(***************************************************************************)
(* Four parts of the control plane that do not touch each other's state,   *)
(* checked side by side: the decky lifecycle (DeckyLifecycle), a worker's  *)
(* updater (Updater), the event bus (EventBus) and the webhook dispatcher  *)
(* (Webhook).  A behaviour is one of its subject, the others stand still.  *)
(***************************************************************************)
EXTENDS DeckyLifecycle

CONSTANTS Releases, Installed, MaxOps, MaxDeaths,
          Subs, OutSize, InSize, SocketSize, BusEvents,
          Tasks, Threshold, HookEvents, MaxPatches, MaxRestarts, MaxErrors

\* The bounds are numbers, and no queue of the bus is empty by its size.
ASSUME WorkersAssumption ==
    /\ {MaxOps, MaxDeaths, BusEvents, Threshold, HookEvents, MaxPatches, MaxRestarts,
         MaxErrors} \subseteq Nat
    /\ {OutSize, InSize, SocketSize} \subseteq Nat \ {0}

\* A release is not one of the values that stand for no or an unfinished one.
ASSUME ReleasesAssumption == Releases \cap {"none", "partial", "broken", "bare"} = {}

VARIABLES
    slots, venv, bin, stuck, proc, healthy, systemd, job, last, good, unguarded, ops,
    deaths,
    sub, starting, toServer, registered, outbound, toClient, inbound, link, client, reader,
    published, got, owed, unwoken,
    row, server, conn, loop, flag, consumer, task, orphans, events, patches, restarts, errors,
    streak, overlap,
    subject

U == INSTANCE Updater
B == INSTANCE EventBus WITH MaxEvents <- BusEvents
W == INSTANCE Webhook WITH MaxEvents <- HookEvents

updaterVars == <<slots, venv, bin, stuck, proc, healthy, systemd, job, last, good,
                 unguarded, ops, deaths>>
busVars == <<sub, starting, toServer, registered, outbound, toClient, inbound, link, client,
             reader, published, got, owed, unwoken>>
hookVars == <<row, server, conn, loop, flag, consumer, task, orphans, events, patches,
              restarts, errors, streak, overlap>>
workersVars == <<vars, updaterVars, busVars, hookVars, subject>>

WorkersInit ==
    /\ Init /\ U!Init /\ B!Init /\ W!Init
    /\ subject \in {"lifecycle", "updater", "bus", "webhook"}
    /\ subject = "updater" \/ (systemd /\ healthy = Releases)

ByLifecycle(A) ==
    subject = "lifecycle" /\ A /\ UNCHANGED <<updaterVars, busVars, hookVars, subject>>
ByUpdater(A) == subject = "updater" /\ A /\ UNCHANGED <<vars, busVars, hookVars, subject>>
ByBus(A) == subject = "bus" /\ A /\ UNCHANGED <<vars, updaterVars, hookVars, subject>>
ByWebhook(A) == subject = "webhook" /\ A /\ UNCHANGED <<vars, updaterVars, busVars, subject>>

WorkersNext ==
    ByLifecycle(Next) \/ ByUpdater(U!Next) \/ ByBus(B!Next) \/ ByWebhook(W!Next)

\* The fairness of each module, for the part whose behaviour it is.
WorkersFairness ==
    /\ \A t \in Rows : /\ WF_vars(subject = "lifecycle" /\ Task(t))
                       /\ WF_vars(subject = "lifecycle" /\ (AgentFinishes(t) \/ Heartbeat(t)))
    /\ WF_busVars(subject = "bus" /\ B!SendSub)
    /\ WF_busVars(subject = "bus" /\ B!Reader)
    /\ WF_busVars(subject = "bus" /\ B!Closer)
    /\ WF_busVars(subject = "bus" /\ B!ServerReads)
    /\ WF_busVars(subject = "bus" /\ B!WriteEvent)
    /\ \A s \in Subs : WF_busVars(subject = "bus" /\ B!Consume(s))
    /\ WF_hookVars(subject = "webhook" /\ W!Loop)
    /\ WF_hookVars(subject = "webhook" /\ W!BusStarts)
    /\ \A k \in Tasks : WF_hookVars(subject = "webhook" /\ W!Work(k))

WorkersSpec == WorkersInit /\ [][WorkersNext]_workersVars /\ WorkersFairness

-----------------------------------------------------------------------------
\* Type correctness of the four parts.
WorkersTypeOK == TypeOK /\ U!TypeOK /\ B!TypeOK /\ W!TypeOK

\* An update reported as done is active and installed and its agent healthy,
\* and the agent runs the pushed release unless the symlink it is started
\* through could not be repointed, whatever earlier requests left.
UpdatedRuns == U!UpdatedRuns

\* An update that ends in an UpdateError leaves the last good release active,
\* as long as the updater does not die, systemctl does not fail and nobody
\* rolls back by hand.
FailureRestores == U!FailureRestores

\* Closing one of several subscriptions of a pattern does not unsubscribe the
\* others on the server.
StaysSubscribed == B!StaysSubscribed

\* The last event published to an open subscription reaches its consumer,
\* however slow it is and however full the queues are.
LatestArrives == B!LatestArrives

\* When the connection drops, every consumer's iterator ends, except where the
\* queue was full at that moment and for those that subscribed afterwards.
Woken == B!Woken

\* The consumer of a disabled, tripped or deleted subscription ends, although
\* signals are lost and the bus is restarted.
DisabledGoesQuiet == W!DisabledGoesQuiet

\* Deliveries that do not overlap trip the circuit only after Threshold
\* failures since the last success that was recorded.
TripEarned == W!TripEarned
=============================================================================
