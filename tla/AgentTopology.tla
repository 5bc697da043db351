---------------------------- MODULE AgentTopology ----------------------------
(***************************************************************************)
(* MazeNET topologies pinned to one swarm agent: the agent branch of the   *)
(* deployer, the agent's apply and teardown endpoints with their sqlite    *)
(* cache (decnet/agent/topology_ops.py, topology_store.py, app.py), and    *)
(* the loop that repairs drift: the agent's heartbeat reports the hash it  *)
(* applied, the master flags a topology whose hash differs, the mutator    *)
(* pushes the flagged ones again and clears the flag.                      *)
(*                                                                         *)
(* A call is a coroutine of the master; the API's deploy and teardown jobs *)
(* are call "api", the mutator's resync pass is "loop", a live service     *)
(* change (engine/services_live.py) is "live".  Each await ends a step.    *)
(* On the agent a handler runs its docker work in a thread, which is one   *)
(* step here, and touches the store on the event loop in other steps.      *)
(*                                                                         *)
(* The content of a topology is a member of Configs.  A hydrated blob is   *)
(* its content with the needs_resync column, which canonical_hash covers   *)
(* (status, version and timestamps are stripped): the blob is its hash.    *)
(* A transition of the status is one step here; that it is a read and a    *)
(* blind write is the subject of TopologyDeploy.                           *)
(***************************************************************************)
EXTENDS TopologyStatus, Sequences, Naturals, FiniteSets

CONSTANTS Topologies,    \* topologies pinned to the agent's host
          Configs,       \* contents a topology can have
          FirstConfig,   \* its content when created
          Calls,         \* the master's callers: a subset of {"api", "loop", "live"}
          MaxInFlight,   \* bound on calls that wait for the agent at once
          MaxChanges,    \* bound on edits, failed mutations, live changes, deletes
          MaxFaults      \* bound on faults: of the network (timeouts, lost reports,
                         \* refused blobs) and of the host (docker, agent dies)

ASSUME AgentTopologyAssumption ==
    /\ Calls \subseteq {"api", "loop", "live"}
    /\ FirstConfig \in Configs
    /\ MaxInFlight \in Nat /\ MaxChanges \in Nat /\ MaxFaults \in Nat

VARIABLES
    status,    \* topologies.status on the master
    config,    \* the content of each topology on the master
    resync,    \* topologies.needs_resync
    changes,   \* those so far
    call,      \* what each of the master's callers is doing
    todo,      \* the topologies left to the current resync pass
    handler,   \* the requests the agent is handling, by caller, and one "gone":
               \* abandoned by its caller
    store,     \* applied_topology: rows [t, hash, err] in insertion order
    up,        \* what the topology's containers run: a config, Nothing or Mixed
    nets,      \* its bridge networks exist
    file,      \* its compose file exists
    beat,      \* the heartbeat being delivered or handled
    netFaults, hostFaults,   \* faults so far
    overlap,   \* two calls to the agent were in progress at once
    deadPush   \* topologies pushed by "loop" or "live" while not live

masterVars == <<status, config, resync, changes>>
hostVars == <<up, nets, file>>
vars == <<masterVars, call, todo, handler, store, hostVars, beat, netFaults, hostFaults,
          overlap, deadPush>>

Nothing == "nothing"
Mixed == "mixed"
NoHash == [config |-> Nothing, flag |-> FALSE]
NoCall == [op |-> "none", at |-> "none"]
Idle == [op |-> "idle", at |-> "idle"]
NoBeat == [at |-> "none"]

Blobs == [config : Configs, flag : BOOLEAN]
Rows == [t : Topologies, hash : Blobs \cup {NoHash}, err : BOOLEAN]
Ran == Configs \cup {Nothing, Mixed}

ACall == [op : {"deploy", "teardown", "resync", "live"}, t : Topologies,
          at : {"wait", "clear"}]
Handlers == Calls \cup {"gone"}
AHandler == [op : {"apply", "teardown"}, t : Topologies, blob : Blobs,
             sup : Topologies, known : BOOLEAN, ok : BOOLEAN,
             at : {"arrive", "dismantle", "cleared", "materialise", "put", "record",
                   "answered"}]

Init ==
    /\ status = [t \in Topologies |-> "pending"]
    /\ config = [t \in Topologies |-> FirstConfig]
    /\ resync = [t \in Topologies |-> FALSE]
    /\ changes = 0
    /\ call = [c \in Calls |-> NoCall]
    /\ todo = {}
    /\ handler = [h \in Handlers |-> Idle]
    /\ store = <<>>
    /\ up = [t \in Topologies |-> Nothing]
    /\ nets = [t \in Topologies |-> FALSE]
    /\ file = [t \in Topologies |-> FALSE]
    /\ beat = NoBeat
    /\ netFaults = 0
    /\ hostFaults = 0
    /\ overlap = FALSE
    /\ deadPush = {}

\* hydrate and canonical_hash of a topology as the master has it now.
canonical_hash(t) == [config |-> config[t], flag |-> resync[t]]

Change == changes < MaxChanges /\ changes' = changes + 1
Fault == netFaults + hostFaults < MaxFaults
NetFault == Fault /\ netFaults' = netFaults + 1 /\ UNCHANGED hostFaults
HostFault == Fault /\ hostFaults' = hostFaults + 1 /\ UNCHANGED netFaults
NoFault == UNCHANGED <<netFaults, hostFaults>>

-----------------------------------------------------------------------------
(* The agent's store *)

\* current(): SELECT ... LIMIT 1 scans in insertion order.  The id, if any.
Current == {store[i].t : i \in DOMAIN store \cap {1}}

RowOf(t) == {i \in DOMAIN store : store[i].t = t}

\* clear(): the id is the primary key; no-op without a row.
Clear(t) ==
    \/ RowOf(t) = {} /\ UNCHANGED store
    \/ \E i \in RowOf(t) :
          store' = SubSeq(store, 1, i - 1) \o SubSeq(store, i + 1, Len(store))

\* The upsert of put(): a new row is last, an old one keeps its place.
Upsert(t, hash) ==
    LET row == [t |-> t, hash |-> hash, err |-> FALSE] IN
    store' = IF RowOf(t) = {} THEN Append(store, row)
             ELSE [i \in DOMAIN store |-> IF store[i].t = t THEN row ELSE store[i]]

\* record_error(): a marker row without a hash, or last_error on the old row.
RecordError(t) ==
    store' = IF RowOf(t) = {} THEN Append(store, [t |-> t, hash |-> NoHash, err |-> TRUE])
             ELSE [i \in DOMAIN store |->
                      IF store[i].t = t THEN [store[i] EXCEPT !.err = TRUE] ELSE store[i]]

-----------------------------------------------------------------------------
(* The master's calls *)

\* Another call, or one its caller gave up, whose work may meet a new call's.
InProgress(c) ==
    \/ \E d \in Calls \ {c} : call[d].at = "wait"
    \/ handler["gone"] # Idle

EndCall(c) == call' = [call EXCEPT ![c] = NoCall]

\* The blob is hydrated and the request sent; it arrives some time later.
Begin(c, op, t, blob) ==
    /\ call[c] = NoCall
    /\ Cardinality({d \in Calls : call[d].at = "wait"}) < MaxInFlight
    /\ call' = [call EXCEPT ![c] = [op |-> op, t |-> t, at |-> "wait"]]
    /\ handler' = [handler EXCEPT ![c] =
          [op |-> IF op = "teardown" THEN "teardown" ELSE "apply", t |-> t, blob |-> blob,
           sup |-> t, known |-> FALSE, ok |-> FALSE, at |-> "arrive"]]
    /\ overlap' = (overlap \/ InProgress(c))
    /\ deadPush' = IF c # "api" /\ status[t] \notin LiveStatuses THEN deadPush \cup {t}
                   ELSE deadPush
    /\ UNCHANGED <<store, hostVars, beat>> /\ NoFault

\* The deploy endpoint and its job: DEPLOYING is committed, then the push.
ApiDeploy(t) ==
    /\ assert_transition(status[t], "deploying")
    /\ status' = [status EXCEPT ![t] = "deploying"]
    /\ Begin("api", "deploy", t, canonical_hash(t))
    /\ UNCHANGED <<config, resync, changes, todo>>

ApiTeardown(t) ==
    /\ status[t] \in Teardownable
    /\ status' = [status EXCEPT ![t] = "tearing_down"]
    /\ Begin("api", "teardown", t, canonical_hash(t))
    /\ UNCHANGED <<config, resync, changes, todo>>

\* DELETE of a topology that is not live: the agent is not told.
ApiDelete(t) ==
    /\ Change
    /\ status[t] \in Deletable
    /\ status' = [status EXCEPT ![t] = Absent]
    /\ resync' = [resync EXCEPT ![t] = FALSE]
    /\ UNCHANGED <<config, call, todo, handler, store, hostVars, beat, overlap,
                   deadPush>> /\ NoFault

\* Pending-only CRUD, or a mutation of a live topology (its live op is
\* skipped for a pinned one: "next agent push will reconcile").
Edit(t, c) ==
    /\ Change
    /\ status[t] \in LiveStatuses \cup {"pending"}
    /\ c # config[t]
    /\ config' = [config EXCEPT ![t] = c]
    /\ UNCHANGED <<status, resync, call, todo, handler, store, hostVars, beat, overlap,
                   deadPush>> /\ NoFault

\* A mutation fails: reconcile_topologies degrades the topology.
Degrade(t) ==
    /\ Change
    /\ status[t] = "active"
    /\ status' = [status EXCEPT ![t] = "degraded"]
    /\ UNCHANGED <<config, resync, call, todo, handler, store, hostVars, beat,
                   overlap, deadPush>> /\ NoFault

\* services_live: the decky row is updated and the topology pushed, whatever
\* its status.
LiveChange(t, c) ==
    /\ Change
    /\ status[t] # Absent
    /\ c # config[t]
    /\ config' = [config EXCEPT ![t] = c]
    /\ Begin("live", "live", t, [config |-> c, flag |-> resync[t]])
    /\ UNCHANGED <<status, resync, todo>>

Flagged == {t \in Topologies : status[t] # Absent /\ resync[t]}

\* reconcile_agent_resyncs: a pass lists the flagged topologies, of any status,
\* and resync_agent_topology pushes them one by one without a check of the
\* status; a row that is gone by now raises ValueError and the pass goes on.
Resync(t) ==
    LET pass == IF todo = {} THEN Flagged ELSE todo IN
    /\ t \in pass
    /\ todo' = pass \ {t}
    /\ IF status[t] = Absent
       THEN /\ call["loop"] = NoCall
            /\ UNCHANGED <<call, handler, overlap, deadPush, store, hostVars, beat>> /\ NoFault
       ELSE Begin("loop", "resync", t, canonical_hash(t))
    /\ UNCHANGED masterVars

\* What a caller does with the outcome of its request: a deploy ends ACTIVE or
\* FAILED, a teardown TORN_DOWN either way, a resync clears the flag later.
Settle(c, ok) ==
    LET t == call[c].t
        new == CASE call[c].op = "deploy"   -> IF ok THEN "active" ELSE "failed"
                 [] call[c].op = "teardown" -> "torn_down"
                 [] OTHER                   -> status[t] IN
    /\ status' = [status EXCEPT ![t] = IF c = "api" /\ assert_transition(@, new) THEN new
                                       ELSE @]
    /\ IF c = "loop" /\ ok THEN call' = [call EXCEPT ![c].at = "clear"] ELSE EndCall(c)

Answered(c) ==
    /\ call[c].at = "wait"
    /\ handler[c].at = "answered"
    /\ Settle(c, handler[c].ok)
    /\ handler' = [handler EXCEPT ![c] = Idle]
    /\ UNCHANGED <<config, resync, changes, todo, store, hostVars, beat, overlap,
                   deadPush>> /\ NoFault

\* The client's timeout: the agent goes on with the request, or never got it.
TimesOut(c) ==
    /\ call[c].at = "wait"
    /\ handler[c].at # "answered"
    /\ Settle(c, FALSE)
    /\ \/ /\ handler["gone"] = Idle
          /\ handler' = [handler EXCEPT ![c] = Idle, !["gone"] = handler[c]]
       \/ /\ handler[c].at = "arrive"
          /\ handler' = [handler EXCEPT ![c] = Idle]
    /\ NetFault
    /\ UNCHANGED <<config, resync, changes, todo, store, hostVars, beat, overlap, deadPush>>

\* Faulty variant: the flag is cleared only if the topology is active by now.
ClearFlag_ActiveOnly ==
    /\ call["loop"].at = "clear"
    /\ resync' = [resync EXCEPT ![call["loop"].t] = status[call["loop"].t] # "active"]
    /\ EndCall("loop")
    /\ UNCHANGED <<status, config, changes, todo, handler, store, hostVars, beat, overlap,
                   deadPush>> /\ NoFault

\* set_topology_resync(tid, False) after a successful push.
ClearFlag ==
    /\ call["loop"].at = "clear"
    /\ resync' = [resync EXCEPT ![call["loop"].t] = FALSE]
    /\ EndCall("loop")
    /\ UNCHANGED <<status, config, changes, todo, handler, store, hostVars, beat, overlap,
                   deadPush>> /\ NoFault

-----------------------------------------------------------------------------
(* The agent's endpoints *)

On(h, op, at) == handler[h] # Idle /\ handler[h].op \in op /\ handler[h].at = at

Goto(h, at) == handler' = [handler EXCEPT ![h].at = at]

\* The response; nobody waits for an abandoned one.
Answer(h, ok) ==
    handler' = [handler EXCEPT ![h] = IF h = "gone" THEN Idle
                                      ELSE [@ EXCEPT !.at = "answered", !.ok = ok]]

Dismantle(h, t, known) ==
    handler' = [handler EXCEPT ![h].at = "dismantle", ![h].sup = t, ![h].known = known]

\* apply up to its first await: a hash or structure the agent refuses (400);
\* no row or its own: go on; another row: teardown of that one first, or, when
\* docker.from_env raises, only its row is cleared.
ApplyArrives(h) ==
    /\ On(h, {"apply"}, "arrive")
    /\ \/ NetFault /\ Answer(h, FALSE) /\ UNCHANGED store
       \/ /\ Current \subseteq {handler[h].t}
          /\ Goto(h, "materialise") /\ UNCHANGED store /\ NoFault
       \/ \E existing \in Current \ {handler[h].t} :
             \/ Dismantle(h, existing, TRUE) /\ UNCHANGED store /\ NoFault
             \/ HostFault /\ Clear(existing) /\ Goto(h, "materialise")
    /\ UNCHANGED <<masterVars, call, todo, hostVars, beat, overlap, deadPush>>

\* teardown up to its first await: the LAN list is known only if the current
\* row is this topology's.
TeardownArrives(h) ==
    /\ On(h, {"teardown"}, "arrive")
    /\ \/ HostFault /\ Answer(h, FALSE)
       \/ Dismantle(h, handler[h].t, handler[h].t \in Current) /\ NoFault
    /\ UNCHANGED <<masterVars, call, todo, store, hostVars, beat, overlap, deadPush>>

\* Faulty variant: compose down is skipped, the rest is done.
DismantleThread_NoDown(h) ==
    LET t == handler[h].sup IN
    /\ On(h, {"apply", "teardown"}, "dismantle")
    /\ nets' = [nets EXCEPT ![t] = IF handler[h].known THEN FALSE ELSE @]
    /\ file' = [file EXCEPT ![t] = FALSE]
    /\ Goto(h, "cleared")
    /\ UNCHANGED <<masterVars, call, todo, store, up, beat, overlap, deadPush>> /\ NoFault

\* _dismantle: compose down, only with a compose file, and its failure is
\* logged; the bridges, only with a known LAN list; the file.  Docker may raise
\* while the networks are listed: the file stays, teardown answers 500, apply
\* goes on to clear the row.
DismantleThread(h) ==
    LET t == handler[h].sup
        Down == up' = [up EXCEPT ![t] = IF file[t] THEN Nothing ELSE @]
        Remove == /\ nets' = [nets EXCEPT ![t] = IF handler[h].known THEN FALSE ELSE @]
                  /\ file' = [file EXCEPT ![t] = FALSE]
                  /\ Goto(h, "cleared") IN
    /\ On(h, {"apply", "teardown"}, "dismantle")
    /\ \/ Down /\ Remove /\ NoFault
       \/ file[t] /\ HostFault /\ UNCHANGED up /\ Remove
       \/ /\ handler[h].known /\ HostFault
          /\ Down /\ UNCHANGED <<nets, file>>
          /\ IF handler[h].op = "apply" THEN Goto(h, "cleared") ELSE Answer(h, FALSE)
    /\ UNCHANGED <<masterVars, call, todo, store, beat, overlap, deadPush>>

\* store.clear, back on the event loop.
ClearRow(h) ==
    /\ On(h, {"apply", "teardown"}, "cleared")
    /\ Clear(handler[h].sup)
    /\ IF handler[h].op = "apply" THEN Goto(h, "materialise") ELSE Answer(h, TRUE)
    /\ UNCHANGED <<masterVars, call, todo, hostVars, beat, overlap, deadPush>> /\ NoFault

\* _materialise: bridges, compose file, compose up.  Docker may raise before,
\* between or after; the failure is recorded.
Materialise(h) ==
    LET t == handler[h].t IN
    /\ On(h, {"apply"}, "materialise")
    /\ \/ /\ nets' = [nets EXCEPT ![t] = TRUE]
          /\ file' = [file EXCEPT ![t] = TRUE]
          /\ up' = [up EXCEPT ![t] = handler[h].blob.config]
          /\ Goto(h, "put") /\ NoFault
       \/ /\ HostFault /\ Goto(h, "record")
          /\ \/ UNCHANGED hostVars
             \/ nets' = [nets EXCEPT ![t] = TRUE] /\ UNCHANGED <<up, file>>
             \/ /\ nets' = [nets EXCEPT ![t] = TRUE]
                /\ file' = [file EXCEPT ![t] = TRUE]
                /\ up' \in {up, [up EXCEPT ![t] = Mixed]}
    /\ UNCHANGED <<masterVars, call, todo, store, beat, overlap, deadPush>>

\* Faulty variant: put records the hash the row had.
PutRow_OldHash(h) ==
    /\ On(h, {"apply"}, "put")
    /\ IF RowOf(handler[h].t) = {} THEN Upsert(handler[h].t, handler[h].blob)
       ELSE UNCHANGED store
    /\ Answer(h, TRUE)
    /\ UNCHANGED <<masterVars, call, todo, hostVars, beat, overlap, deadPush>> /\ NoFault

\* store.put; a row of another topology raises AlreadyApplied (409), and the
\* containers just started are not recorded.
PutRow(h) ==
    LET t == handler[h].t IN
    /\ On(h, {"apply"}, "put")
    /\ IF Current \ {t} # {} THEN Answer(h, FALSE) /\ UNCHANGED store
       ELSE Upsert(t, handler[h].blob) /\ Answer(h, TRUE)
    /\ UNCHANGED <<masterVars, call, todo, hostVars, beat, overlap, deadPush>> /\ NoFault

\* Any other exception: record_error, then 500.
RecordFailure(h) ==
    /\ On(h, {"apply"}, "record")
    /\ RecordError(handler[h].t)
    /\ Answer(h, FALSE)
    /\ UNCHANGED <<masterVars, call, todo, hostVars, beat, overlap, deadPush>> /\ NoFault

\* The agent's process dies and restarts: its handlers and threads are gone,
\* containers, files and store stay; nothing is restored.
AgentDies ==
    /\ \E h \in Handlers : handler[h] # Idle
    /\ HostFault
    /\ handler' = [h \in Handlers |->
          IF handler[h] = Idle \/ h = "gone" THEN Idle
          ELSE IF handler[h].at = "answered" THEN handler[h]
          ELSE [handler[h] EXCEPT !.at = "answered", !.ok = FALSE]]
    /\ UNCHANGED <<masterVars, call, todo, store, hostVars, beat, overlap, deadPush>>

-----------------------------------------------------------------------------
(* The heartbeat *)

\* _build_body: the current row, or, when the store cannot be read, nothing.
SendBeat ==
    /\ beat = NoBeat
    /\ \/ beat' = [at |-> "sent", rows |-> SelectSeq(store, LAMBDA row : row.t \in Current)] /\ NoFault
       \/ beat' = [at |-> "sent", rows |-> <<>>] /\ NetFault
    /\ UNCHANGED <<masterVars, call, todo, handler, store, hostVars, overlap, deadPush>>

LoseBeat ==
    /\ beat.at = "sent"
    /\ NetFault
    /\ beat' = NoBeat
    /\ UNCHANGED <<masterVars, call, todo, handler, store, hostVars, overlap, deadPush>>

Matches(t) ==
    \E i \in DOMAIN beat.rows : beat.rows[i].t = t /\ beat.rows[i].hash = canonical_hash(t)

\* Faulty variant: any row of the topology will do, whatever its hash.
ReceiveBeat_AnyHash ==
    /\ beat.at = "sent"
    /\ beat' = NoBeat
    /\ resync' = [t \in Topologies |-> resync[t] \/
          (status[t] = "active" /\ ~\E i \in DOMAIN beat.rows : beat.rows[i].t = t)]
    /\ UNCHANGED <<status, config, changes, call, todo, handler, store, hostVars, overlap,
                   deadPush>> /\ NoFault

\* _reconcile_topology_report: of the ACTIVE topologies of the host that are
\* not flagged yet, those whose hash is not the reported one get the flag.
ReceiveBeat ==
    /\ beat.at = "sent"
    /\ beat' = NoBeat
    /\ resync' = [t \in Topologies |-> resync[t] \/ (status[t] = "active" /\ ~Matches(t))]
    /\ UNCHANGED <<status, config, changes, call, todo, handler, store, hostVars, overlap,
                   deadPush>> /\ NoFault

-----------------------------------------------------------------------------
HandlerStep(h) ==
    \/ ApplyArrives(h) \/ TeardownArrives(h) \/ DismantleThread(h) \/ ClearRow(h)
    \/ Materialise(h) \/ PutRow(h) \/ RecordFailure(h)

ApiCall(t) == "api" \in Calls /\ (ApiDeploy(t) \/ ApiTeardown(t))

LiveCall(t) == "live" \in Calls /\ \E c \in Configs : LiveChange(t, c)

LoopStep == "loop" \in Calls /\ (ClearFlag \/ \E t \in Topologies : Resync(t))

BeatStep == SendBeat \/ ReceiveBeat

Next ==
    \/ \E t \in Topologies :
          \/ ApiCall(t) \/ ApiDelete(t) \/ LiveCall(t) \/ Degrade(t)
          \/ \E c \in Configs : Edit(t, c)
    \/ LoopStep \/ BeatStep
    \/ \E c \in Calls : Answered(c) \/ TimesOut(c)
    \/ \E h \in Handlers : HandlerStep(h)
    \/ AgentDies \/ LoseBeat

\* The mutator's watch loop and the agent's heartbeat loop run forever, and
\* coroutines and threads that have work left go on; operators need not act.
Fairness ==
    /\ WF_vars(LoopStep)
    /\ WF_vars(BeatStep)
    /\ \A c \in Calls : WF_vars(Answered(c))
    /\ \A h \in Handlers : WF_vars(HandlerStep(h))

Spec == Init /\ [][Next]_vars /\ Fairness

-----------------------------------------------------------------------------
(* Properties *)

\* Type correctness of the tables, the calls, the requests and the agent's host.
TypeOK ==
    /\ status \in [Topologies -> ALL \cup {Absent}]
    /\ config \in [Topologies -> Configs]
    /\ resync \in [Topologies -> BOOLEAN]
    /\ changes \in 0..MaxChanges
    /\ call \in [Calls -> ACall \cup {NoCall}]
    /\ todo \subseteq Topologies
    /\ handler \in [Handlers -> AHandler \cup {Idle}]
    /\ store \in Seq(Rows)
    /\ up \in [Topologies -> Ran]
    /\ nets \in [Topologies -> BOOLEAN]
    /\ file \in [Topologies -> BOOLEAN]
    /\ netFaults \in 0..MaxFaults
    /\ hostFaults \in 0..MaxFaults
    /\ overlap \in BOOLEAN
    /\ deadPush \subseteq Topologies

\* No handler of the agent is working on topology t.
Quiet(t) == \A h \in Handlers :
    handler[h] = Idle \/ handler[h].at \in {"arrive", "answered"}
        \/ t \notin {handler[h].t, handler[h].sup}

Clean == hostFaults = 0 /\ ~overlap

\* The hash the agent reports describes what it runs: without docker failures,
\* deaths and overlapping calls, the containers of a topology with a row run
\* the content that was hashed, and a topology without a row runs nothing.
RowsDescribeDocker ==
    Clean => \A t \in Topologies : Quiet(t) =>
        IF RowOf(t) = {} THEN up[t] = Nothing
        ELSE \A i \in RowOf(t) : ~store[i].err /\ up[t] = store[i].hash.config

\* A teardown is final: without faults and overlapping calls a torn-down
\* topology runs nothing once its requests are answered, unless the resync pass
\* or a live change pushed it while it was not live.
TornDownIsGone ==
    Clean /\ netFaults = 0 =>
        \A t \in Topologies :
            status[t] = "torn_down" /\ t \notin deadPush
            /\ (\A h \in Handlers : handler[h] = Idle \/ handler[h].t # t)
                => up[t] = Nothing

\* The flag of a topology is a request for one push: it does not stay for ever,
\* although pushes fail, time out or are refused a few times.
FlagDrained ==
    \A t \in Topologies : resync[t] ~> ~resync[t]

Alone(t, c) ==
    /\ status[t] = "active" /\ config[t] = c
    /\ \A u \in Topologies \ {t} : status[u] # "active"

\* Drift is repaired: when one topology of the host is active and its content
\* no longer changes, its containers end up running that content, whatever was
\* edited, superseded, refused or lost before.
DriftRepaired ==
    \A t \in Topologies, c \in Configs :
        <>[](Alone(t, c) /\ Clean) => <>[](up[t] = c)

\* What hashing.py promises ("same logical state -> same hash"): a heartbeat
\* flags a topology only if the agent did not report its present content.
FlaggedForContent ==
    [][\A t \in Topologies : ~resync[t] /\ resync'[t] =>
          ~\E i \in DOMAIN beat.rows :
              beat.rows[i].t = t /\ beat.rows[i].hash.config = config[t]]_vars
=============================================================================
