------------------------- MODULE AgentTopologyProofs -------------------------
(***************************************************************************)
(* Proofs about AgentTopology, for every set of topologies and contents    *)
(* and every bound: what the agent reports describes what it runs, and a   *)
(* teardown is final.                                                      *)
(*                                                                         *)
(* CallInv ties a caller's state to the request the agent handles for it   *)
(* and to the status it committed; it holds always.  While no two calls    *)
(* overlap and the host does not fail there is one request at a time       *)
(* (SoloInv), the store has one row at most (StoreInv), each position of a *)
(* request has its own meaning (PlaceInv), and a topology that no request  *)
(* is changing runs what its row says (BaseInv).  GoneInv adds what a      *)
(* reliable network gives: requests are not abandoned, and the live pushes *)
(* concern live topologies, or are remembered in deadPush.                 *)
(***************************************************************************)
EXTENDS AgentTopology, SequenceTheorems, TLAPS

Busy(h) == handler[h] # Idle

CallInv ==
    /\ \A c \in Calls :
          /\ call[c].at = "wait" <=> Busy(c)
          /\ call[c].at = "wait" =>
                /\ handler[c].t = call[c].t
                /\ handler[c].op = "teardown" <=> call[c].op = "teardown"
                /\ c = "api" <=> call[c].op \in {"deploy", "teardown"}
    /\ "api" \in Calls /\ call["api"].at = "wait" =>
          status[call["api"].t] = IF call["api"].op = "deploy" THEN "deploying"
                                  ELSE "tearing_down"

AgentInv == TypeOK /\ CallInv

SoloInv == \A g, h \in Handlers : Busy(g) /\ Busy(h) => g = h

StoreInv == Len(store) <= 1 /\ \A i \in DOMAIN store : ~store[i].err

\* What a request may count on where it is.
PlaceInv(h) ==
    /\ handler[h].at # "record"
    /\ handler[h].op = "teardown" =>
          handler[h].at \notin {"materialise", "put"} /\ handler[h].sup = handler[h].t
    /\ handler[h].op = "apply" /\ handler[h].at \in {"dismantle", "cleared"} =>
          \A i \in DOMAIN store : store[i].t = handler[h].sup
    /\ handler[h].at \in {"materialise", "put"} =>
          \A i \in DOMAIN store : store[i].t = handler[h].t
    /\ handler[h].at = "cleared" => up[handler[h].sup] = Nothing
    /\ handler[h].at = "put" => file[handler[h].t] /\ up[handler[h].t] = handler[h].blob.config

\* The request is between the docker work and the store's row of t.
Between(h, t) ==
    \/ handler[h].at = "cleared" /\ handler[h].sup = t
    \/ handler[h].at = "put" /\ handler[h].t = t

\* The row of t, or its absence, says what runs.
Described(t) ==
    /\ RowOf(t) = {} => up[t] = Nothing
    /\ \A i \in RowOf(t) : file[t] /\ up[t] = store[i].hash.config

BaseInv == \A t \in Topologies : (\A h \in Handlers : ~Between(h, t)) => Described(t)

CleanInv ==
    Clean => /\ SoloInv /\ StoreInv /\ BaseInv
             /\ \A h \in Handlers : Busy(h) => PlaceInv(h)

GoneInv ==
    Clean /\ netFaults = 0 =>
        /\ ~Busy("gone")
        /\ \A c \in Calls \ {"api"} :
              call[c].at = "wait" /\ call[c].t \notin deadPush => status[call[c].t] \in LiveStatuses
        /\ \A h \in Handlers :
              Busy(h) /\ handler[h].op = "teardown" /\ handler[h].at = "answered" =>
                 up[handler[h].t] = Nothing
        /\ \A t \in Topologies \ deadPush : status[t] = "torn_down" => up[t] = Nothing

\* The records a caller and a request are.
LEMMA Records ==
    ASSUME TypeOK
    PROVE  /\ "gone" \in Handlers /\ "gone" \notin Calls /\ Calls \subseteq Handlers
           /\ \A c \in Handlers : c = "gone" \/ c \in Calls
           /\ Idle \notin AHandler /\ NoCall.at = "none"
           /\ \A h \in Handlers : Busy(h) => handler[h] \in AHandler
           /\ \A h \in Handlers : handler[h].at # "idle" => Busy(h)
           /\ \A h \in Handlers : handler[h] \in AHandler => Busy(h) /\ handler[h].at # "idle"
           /\ \A c \in Calls : call[c].at \in {"wait", "clear"} => call[c] \in ACall
           /\ \A c \in Calls : call[c].at = "wait" => call[c] # NoCall
<1>1. /\ "gone" \in Handlers /\ "gone" \notin Calls /\ Calls \subseteq Handlers
      /\ \A c \in Handlers : c = "gone" \/ c \in Calls
    BY AgentTopologyAssumption DEF Handlers
<1>2. Idle.at = "idle" /\ NoCall.at = "none"
    BY DEF Idle, NoCall
<1>3. \A a \in AHandler : a.at # "idle"
    BY DEF AHandler
<1>4. Idle \notin AHandler
    BY <1>2, <1>3
<1>5. \A h \in Handlers : handler[h] \in AHandler \/ handler[h] = Idle
    BY DEF TypeOK
<1>6. \A c \in Calls : call[c] \in ACall \/ call[c] = NoCall
    BY DEF TypeOK
<1> QED BY <1>1, <1>2, <1>3, <1>4, <1>5, <1>6 DEF Busy

\* The fields of a request.
LEMMA Fields ==
    ASSUME NEW a \in AHandler
    PROVE  /\ a.op \in {"apply", "teardown"} /\ a.t \in Topologies /\ a.blob \in Blobs
           /\ a.sup \in Topologies /\ a.known \in BOOLEAN /\ a.ok \in BOOLEAN
           /\ a.blob.config \in Configs
           /\ a.at \in {"arrive", "dismantle", "cleared", "materialise", "put", "record",
                        "answered"}
BY DEF AHandler, Blobs

\* The fault counters; a fault of the host ends the clean part of a behaviour.
LEMMA Faults ==
    ASSUME TypeOK, NetFault \/ HostFault \/ NoFault
    PROVE  /\ netFaults' \in 0..MaxFaults /\ hostFaults' \in 0..MaxFaults
           /\ netFaults' \in Nat /\ hostFaults' \in Nat
           /\ HostFault => hostFaults' # 0
           /\ NetFault => netFaults' # 0 /\ hostFaults' = hostFaults
           /\ hostFaults' = 0 => hostFaults = 0
           /\ netFaults' = 0 => netFaults = 0
<1>1. MaxFaults \in Nat /\ netFaults \in 0..MaxFaults /\ hostFaults \in 0..MaxFaults
    BY AgentTopologyAssumption DEF TypeOK
<1> QED BY <1>1 DEF NetFault, HostFault, NoFault, Fault

-----------------------------------------------------------------------------
(* The store *)

\* A store of one row at most.
LEMMA ShortStore ==
    ASSUME NEW s \in Seq(Rows), Len(s) <= 1
    PROVE  /\ s # <<>> => Len(s) = 1 /\ DOMAIN s = {1} /\ s[1] \in Rows
           /\ s = <<>> => DOMAIN s = {}
           /\ \A i \in DOMAIN s : i = 1
<1>1. Len(s) \in Nat /\ DOMAIN s = 1..Len(s) /\ (s = <<>> <=> Len(s) = 0)
    BY LenProperties, EmptySeq
<1>2. \A i \in 1..Len(s) : s[i] \in Rows
    BY ElementOfSeq
<1> QED BY <1>1, <1>2

LEMMA StoreRows ==
    ASSUME TypeOK
    PROVE  /\ store \in Seq(Rows) /\ Len(store) \in Nat /\ DOMAIN store = 1..Len(store)
           /\ \A i \in DOMAIN store : store[i] \in Rows /\ store[i].t \in Topologies
                                      /\ store[i].err \in BOOLEAN
           /\ \A t : RowOf(t) \subseteq DOMAIN store
<1>1. store \in Seq(Rows)
    BY DEF TypeOK
<1>2. Len(store) \in Nat /\ DOMAIN store = 1..Len(store)
    BY <1>1, LenProperties
<1>3. \A i \in 1..Len(store) : store[i] \in Rows
    BY <1>1, ElementOfSeq
<1> QED BY <1>1, <1>2, <1>3 DEF Rows, RowOf

\* clear() leaves a short store as it was, or empty.
LEMMA ClearFacts ==
    ASSUME TypeOK, NEW t, Clear(t)
    PROVE  /\ store' \in Seq(Rows)
           /\ Len(store) <= 1 => store' = IF RowOf(t) = {} THEN store ELSE <<>>
<1>0. /\ store \in Seq(Rows) /\ Len(store) \in Nat /\ DOMAIN store = 1..Len(store)
      /\ RowOf(t) \subseteq DOMAIN store
    BY StoreRows
<1>1. CASE RowOf(t) = {} /\ UNCHANGED store
    BY <1>0, <1>1
<1>2. CASE \E i \in RowOf(t) :
             store' = SubSeq(store, 1, i - 1) \o SubSeq(store, i + 1, Len(store))
    <2>1. PICK i \in RowOf(t) :
             store' = SubSeq(store, 1, i - 1) \o SubSeq(store, i + 1, Len(store))
        BY <1>2
    <2>2. PICK n \in Nat : n = Len(store)
        BY <1>0
    <2>3. PICK k \in Nat : k = i /\ 1 <= k /\ k <= n
        BY <1>0, <2>2
    <2>r. \A j \in 1..n : store[j] \in Rows
        BY <1>0, <2>2, StoreRows
    <2>4. PICK a \in Seq(Rows) : a = SubSeq(store, 1, k - 1) /\ Len(a) = k - 1
        <3>1. 1 \in Int /\ k - 1 \in Int /\ \A j \in 1..(k - 1) : store[j] \in Rows
            BY <2>3, <2>r
        <3>2. /\ SubSeq(store, 1, k - 1) \in Seq(Rows)
              /\ Len(SubSeq(store, 1, k - 1)) = IF 1 <= k - 1 THEN k - 1 - 1 + 1 ELSE 0
            BY <3>1, SubSeqProperties
        <3>3. (IF 1 <= k - 1 THEN k - 1 - 1 + 1 ELSE 0) = k - 1
            BY <2>3
        <3> QED BY <3>2, <3>3
    <2>5. PICK b \in Seq(Rows) : b = SubSeq(store, k + 1, n) /\ Len(b) = n - k
        <3>1. k + 1 \in Int /\ n \in Int /\ \A j \in (k + 1)..n : store[j] \in Rows
            BY <2>3, <2>r
        <3>2. /\ SubSeq(store, k + 1, n) \in Seq(Rows)
              /\ Len(SubSeq(store, k + 1, n)) = IF k + 1 <= n THEN n - (k + 1) + 1 ELSE 0
            BY <3>1, SubSeqProperties
        <3>3. (IF k + 1 <= n THEN n - (k + 1) + 1 ELSE 0) = n - k
            BY <2>3
        <3> QED BY <3>2, <3>3
    <2>6. store' = a \o b /\ a \o b \in Seq(Rows) /\ Len(a \o b) = (k - 1) + (n - k)
        <3>1. store' = a \o b
            BY <2>1, <2>2, <2>3, <2>4, <2>5
        <3>2. a \o b \in Seq(Rows) /\ Len(a \o b) = Len(a) + Len(b)
            BY ConcatProperties
        <3> QED BY <2>4, <2>5, <3>1, <3>2
    <2>7. Len(store) <= 1 => Len(a \o b) = 0
        BY <2>2, <2>3, <2>6
    <2>8. Len(store) <= 1 => store' = <<>>
        BY <2>6, <2>7, EmptySeq
    <2> QED BY <2>6, <2>8
<1> QED BY <1>1, <1>2 DEF Clear

\* put(): the row of t is there with the new hash, the others stay.
LEMMA UpsertFacts ==
    ASSUME TypeOK, NEW t \in Topologies, NEW hash \in Blobs, Upsert(t, hash)
    PROVE  /\ store' \in Seq(Rows)
           /\ (\A i \in DOMAIN store : i = 1 /\ store[i].t = t) =>
                 /\ DOMAIN store' = {1} /\ Len(store') = 1
                 /\ store'[1] = [t |-> t, hash |-> hash, err |-> FALSE]
<1>1. PICK row \in Rows : row = [t |-> t, hash |-> hash, err |-> FALSE]
    BY DEF Rows
<1>2. /\ store \in Seq(Rows) /\ Len(store) \in Nat /\ DOMAIN store = 1..Len(store)
      /\ \A i \in DOMAIN store : store[i] \in Rows
    BY StoreRows
<1>3. CASE RowOf(t) = {}
    <2>1. store' = Append(store, row)
        BY <1>1, <1>3 DEF Upsert
    <2>2. store' \in Seq(Rows) /\ Len(store') = Len(store) + 1 /\ store'[Len(store) + 1] = row
        BY <1>2, <2>1, AppendProperties
    <2>3. DOMAIN store' = 1..Len(store')
        BY <2>2, LenProperties
    <2>4. ASSUME \A i \in DOMAIN store : i = 1 /\ store[i].t = t PROVE Len(store) = 0
        <3>1. DOMAIN store = {}
            BY <1>3, <2>4 DEF RowOf
        <3> QED BY <1>2, <3>1
    <2> QED BY <1>1, <2>2, <2>3, <2>4
<1>4. CASE RowOf(t) # {}
    <2>1. store' = [i \in 1..Len(store) |-> IF store[i].t = t THEN row ELSE store[i]]
        BY <1>1, <1>2, <1>4 DEF Upsert
    <2>2. store' \in [1..Len(store) -> Rows]
        BY <1>2, <2>1
    <2>3. store' \in Seq(Rows) /\ DOMAIN store' = 1..Len(store)
        BY <1>2, <2>2, SeqDef
    <2>4. ASSUME \A i \in DOMAIN store : i = 1 /\ store[i].t = t
          PROVE  DOMAIN store = {1} /\ Len(store) = 1
        <3>1. Len(store) # 0
            BY <1>2, <1>4 DEF RowOf
        <3>2. Len(store) \in DOMAIN store
            BY <1>2, <3>1
        <3> QED BY <1>2, <2>4, <3>2
    <2>5. Len(store') = Len(store)
        BY <1>2, <2>3, LenProperties
    <2> QED BY <1>1, <1>2, <2>1, <2>3, <2>4, <2>5
<1> QED BY <1>3, <1>4

LEMMA RecordErrorFacts ==
    ASSUME TypeOK, NEW t \in Topologies, RecordError(t)
    PROVE  store' \in Seq(Rows)
<1>1. PICK row \in Rows : row = [t |-> t, hash |-> NoHash, err |-> TRUE]
    BY DEF Rows
<1>2. /\ store \in Seq(Rows) /\ Len(store) \in Nat /\ DOMAIN store = 1..Len(store)
      /\ \A i \in DOMAIN store : store[i] \in Rows
    BY StoreRows
<1>3. CASE RowOf(t) = {}
    BY <1>1, <1>2, <1>3, AppendProperties DEF RecordError
<1>4. CASE RowOf(t) # {}
    <2>1. store' = [i \in 1..Len(store) |->
                      IF store[i].t = t THEN [store[i] EXCEPT !.err = TRUE] ELSE store[i]]
        BY <1>2, <1>4 DEF RecordError
    <2>2. \A i \in 1..Len(store) : [store[i] EXCEPT !.err = TRUE] \in Rows
        BY <1>2 DEF Rows
    <2>3. store' \in [1..Len(store) -> Rows]
        BY <1>2, <2>1, <2>2
    <2> QED BY <1>2, <2>3, SeqDef
<1> QED BY <1>3, <1>4

-----------------------------------------------------------------------------
(* The steps of a request *)

Places == {"arrive", "dismantle", "cleared", "materialise", "put", "record", "answered"}

\* What every step of a request does to the table of requests.
Moves(h) ==
    /\ handler' \in [Handlers -> AHandler \cup {Idle}]
    /\ \A g \in Handlers : g # h => handler'[g] = handler[g]
    /\ \/ h = "gone" /\ handler'[h] = Idle
       \/ /\ handler'[h] \in AHandler
          /\ handler'[h].t = handler[h].t /\ handler'[h].op = handler[h].op
          /\ handler'[h].blob = handler[h].blob

LEMMA GotoFacts ==
    ASSUME TypeOK, NEW h \in Handlers, Busy(h), NEW at \in Places, Goto(h, at)
    PROVE  /\ Moves(h) /\ handler'[h] \in AHandler
           /\ handler'[h].at = at /\ handler'[h].sup = handler[h].sup
<1>1. handler \in [Handlers -> AHandler \cup {Idle}] /\ handler[h] \in AHandler
    BY Records DEF TypeOK
<1>2. PICK new : new = [handler[h] EXCEPT !.at = at]
    OBVIOUS
<1>3. handler' = [handler EXCEPT ![h] = new]
    BY <1>1, <1>2 DEF Goto
<1>4. /\ new \in AHandler /\ new.at = at /\ new.sup = handler[h].sup
      /\ new.t = handler[h].t /\ new.op = handler[h].op /\ new.blob = handler[h].blob
    BY <1>1, <1>2 DEF AHandler, Places
<1> QED BY <1>1, <1>3, <1>4 DEF Moves

LEMMA DismantleFacts ==
    ASSUME TypeOK, NEW h \in Handlers, Busy(h), NEW t \in Topologies, NEW known \in BOOLEAN,
           Dismantle(h, t, known)
    PROVE  /\ Moves(h) /\ handler'[h] \in AHandler
           /\ handler'[h].at = "dismantle" /\ handler'[h].sup = t /\ handler'[h].known = known
<1>1. handler \in [Handlers -> AHandler \cup {Idle}] /\ handler[h] \in AHandler
    BY Records DEF TypeOK
<1>2. PICK new : new = [handler[h] EXCEPT !.at = "dismantle", !.sup = t, !.known = known]
    OBVIOUS
<1>3. handler' = [handler EXCEPT ![h] = new]
    BY <1>1, <1>2 DEF Dismantle
<1>4. /\ new \in AHandler /\ new.at = "dismantle" /\ new.sup = t /\ new.known = known
      /\ new.t = handler[h].t /\ new.op = handler[h].op /\ new.blob = handler[h].blob
    BY <1>1, <1>2 DEF AHandler
<1> QED BY <1>1, <1>3, <1>4 DEF Moves

LEMMA AnswerFacts ==
    ASSUME TypeOK, NEW h \in Handlers, Busy(h), NEW ok \in BOOLEAN, Answer(h, ok)
    PROVE  /\ Moves(h)
           /\ h # "gone" => /\ handler'[h] \in AHandler /\ handler'[h].at = "answered"
                            /\ handler'[h].sup = handler[h].sup
           /\ h = "gone" => handler'[h] = Idle
<1>1. handler \in [Handlers -> AHandler \cup {Idle}] /\ handler[h] \in AHandler
    BY Records DEF TypeOK
<1>2. PICK new : new = IF h = "gone" THEN Idle
                       ELSE [handler[h] EXCEPT !.at = "answered", !.ok = ok]
    OBVIOUS
<1>3. handler' = [handler EXCEPT ![h] = new]
    BY <1>1, <1>2 DEF Answer
<1>4. ASSUME h # "gone"
      PROVE  /\ new \in AHandler /\ new.at = "answered" /\ new.sup = handler[h].sup
             /\ new.t = handler[h].t /\ new.op = handler[h].op /\ new.blob = handler[h].blob
    BY <1>1, <1>2, <1>4 DEF AHandler
<1>5. h = "gone" => new = Idle
    BY <1>2
<1> QED BY <1>1, <1>3, <1>4, <1>5 DEF Moves

\* A step of a request changes no caller.
LEMMA MovesCalls ==
    ASSUME AgentInv, NEW h \in Handlers, Busy(h), Moves(h), UNCHANGED <<call, status>>
    PROVE  CallInv'
<1>1. \A c \in Calls : /\ handler'[c] # Idle <=> handler[c] # Idle
                       /\ handler'[c].t = handler[c].t /\ handler'[c].op = handler[c].op
    BY Records DEF Moves, AgentInv, Busy
<1> QED BY <1>1 DEF AgentInv, CallInv, Busy

\* The steps up to the first await of a request.
LEMMA ArriveTypes ==
    ASSUME AgentInv, NEW h \in Handlers, ApplyArrives(h) \/ TeardownArrives(h)
    PROVE  /\ Moves(h) /\ Busy(h) /\ store' \in Seq(Rows)
           /\ NetFault \/ HostFault \/ NoFault
           /\ UNCHANGED <<masterVars, call, todo, hostVars, beat, overlap, deadPush>>
<1>0. TypeOK
    BY DEF AgentInv
<1>1. Busy(h) /\ handler[h] \in AHandler /\ handler[h].t \in Topologies
    BY <1>0, Records, Fields DEF ApplyArrives, TeardownArrives, On, Busy
<1>2. store \in Seq(Rows) /\ Current \subseteq Topologies
    BY <1>0, StoreRows DEF Current
<1>3. CASE ApplyArrives(h)
    <2>1. CASE NetFault /\ Answer(h, FALSE) /\ UNCHANGED store
        BY <1>0, <1>1, <1>2, <1>3, <2>1, AnswerFacts DEF ApplyArrives
    <2>2. CASE Goto(h, "materialise") /\ UNCHANGED store /\ NoFault
        BY <1>0, <1>1, <1>2, <1>3, <2>2, GotoFacts DEF ApplyArrives, Places
    <2>3. ASSUME NEW existing \in Current \ {handler[h].t},
                 \/ Dismantle(h, existing, TRUE) /\ UNCHANGED store /\ NoFault
                 \/ HostFault /\ Clear(existing) /\ Goto(h, "materialise")
          PROVE  /\ Moves(h) /\ store' \in Seq(Rows)
                 /\ NetFault \/ HostFault \/ NoFault
        <3>1. CASE Dismantle(h, existing, TRUE) /\ UNCHANGED store /\ NoFault
            BY <1>0, <1>1, <1>2, <3>1, DismantleFacts
        <3>2. CASE HostFault /\ Clear(existing) /\ Goto(h, "materialise")
            BY <1>0, <1>1, <3>2, ClearFacts, GotoFacts DEF Places
        <3> QED BY <2>3, <3>1, <3>2
    <2> QED BY <1>1, <1>3, <2>1, <2>2, <2>3 DEF ApplyArrives
<1>4. CASE TeardownArrives(h)
    <2>1. CASE HostFault /\ Answer(h, FALSE)
        BY <1>0, <1>1, <1>2, <1>4, <2>1, AnswerFacts DEF TeardownArrives
    <2>2. CASE Dismantle(h, handler[h].t, handler[h].t \in Current) /\ NoFault
        <3>1. ASSUME handler[h].t \in Current PROVE Moves(h)
            <4>1. Dismantle(h, handler[h].t, TRUE)
                BY <2>2, <3>1
            <4> QED BY <1>0, <1>1, <4>1, DismantleFacts
        <3>2. ASSUME handler[h].t \notin Current PROVE Moves(h)
            <4>0. (handler[h].t \in Current) = FALSE
                BY <3>2
            <4>1. Dismantle(h, handler[h].t, FALSE)
                BY <2>2, <4>0
            <4> QED BY <1>0, <1>1, <4>1, DismantleFacts
        <3>3. Moves(h)
            BY <3>1, <3>2
        <3> QED BY <1>1, <1>2, <1>4, <2>2, <3>3 DEF TeardownArrives
    <2> QED BY <1>4, <2>1, <2>2 DEF TeardownArrives
<1> QED BY <1>3, <1>4

\* The docker work: containers, bridges and compose files.
LEMMA DockerTypes ==
    ASSUME AgentInv, NEW h \in Handlers, DismantleThread(h) \/ Materialise(h)
    PROVE  /\ Moves(h) /\ Busy(h)
           /\ up' \in [Topologies -> Ran] /\ nets' \in [Topologies -> BOOLEAN]
           /\ file' \in [Topologies -> BOOLEAN]
           /\ NetFault \/ HostFault \/ NoFault
           /\ UNCHANGED <<masterVars, call, todo, store, beat, overlap, deadPush>>
<1>0. /\ TypeOK /\ up \in [Topologies -> Ran] /\ nets \in [Topologies -> BOOLEAN]
      /\ file \in [Topologies -> BOOLEAN]
    BY DEF AgentInv, TypeOK
<1>1. /\ Busy(h) /\ handler[h] \in AHandler /\ handler[h].t \in Topologies
      /\ handler[h].sup \in Topologies /\ handler[h].known \in BOOLEAN
      /\ handler[h].blob.config \in Configs
    BY <1>0, Records, Fields DEF DismantleThread, Materialise, On, Busy
<1>2. Nothing \in Ran /\ Mixed \in Ran /\ Configs \subseteq Ran
    BY DEF Ran
<1>3. CASE DismantleThread(h)
    <2>1. Goto(h, "cleared") \/ Answer(h, FALSE)
        BY <1>3 DEF DismantleThread
    <2>2. Moves(h)
        BY <1>0, <1>1, <2>1, GotoFacts, AnswerFacts DEF Places
    <2>3. up' \in [Topologies -> Ran]
        BY <1>0, <1>1, <1>2, <1>3 DEF DismantleThread
    <2>4. nets' \in [Topologies -> BOOLEAN]
        BY <1>0, <1>1, <1>3 DEF DismantleThread
    <2>5. file' \in [Topologies -> BOOLEAN]
        BY <1>0, <1>1, <1>3 DEF DismantleThread
    <2> QED BY <1>1, <1>3, <2>2, <2>3, <2>4, <2>5 DEF DismantleThread
<1>4. CASE Materialise(h)
    <2>1. Goto(h, "put") \/ Goto(h, "record")
        BY <1>4 DEF Materialise
    <2>2. Moves(h)
        BY <1>0, <1>1, <2>1, GotoFacts DEF Places
    <2>3. up' \in [Topologies -> Ran]
        BY <1>0, <1>1, <1>2, <1>4 DEF Materialise, hostVars
    <2>4. nets' \in [Topologies -> BOOLEAN]
        BY <1>0, <1>1, <1>4 DEF Materialise, hostVars
    <2>5. file' \in [Topologies -> BOOLEAN]
        BY <1>0, <1>1, <1>4 DEF Materialise, hostVars
    <2> QED BY <1>1, <1>4, <2>2, <2>3, <2>4, <2>5 DEF Materialise
<1> QED BY <1>3, <1>4

\* The store's steps.
LEMMA RowTypes ==
    ASSUME AgentInv, NEW h \in Handlers, ClearRow(h) \/ PutRow(h) \/ RecordFailure(h)
    PROVE  /\ Moves(h) /\ Busy(h) /\ store' \in Seq(Rows) /\ NoFault
           /\ UNCHANGED <<masterVars, call, todo, hostVars, beat, overlap, deadPush>>
<1>0. TypeOK
    BY DEF AgentInv
<1>1. /\ Busy(h) /\ handler[h] \in AHandler /\ handler[h].t \in Topologies
      /\ handler[h].sup \in Topologies /\ handler[h].blob \in Blobs
    BY <1>0, Records, Fields DEF ClearRow, PutRow, RecordFailure, On, Busy
<1>2. store \in Seq(Rows)
    BY <1>0, StoreRows
<1>3. CASE ClearRow(h)
    <2>1. Clear(handler[h].sup) /\ (Goto(h, "materialise") \/ Answer(h, TRUE))
        BY <1>3 DEF ClearRow
    <2>2. Moves(h)
        BY <1>0, <1>1, <2>1, GotoFacts, AnswerFacts DEF Places
    <2>3. store' \in Seq(Rows)
        BY <1>0, <2>1, ClearFacts
    <2> QED BY <1>1, <1>3, <2>2, <2>3 DEF ClearRow
<1>4. CASE PutRow(h)
    <2>1. \/ Answer(h, FALSE) /\ UNCHANGED store
          \/ Upsert(handler[h].t, handler[h].blob) /\ Answer(h, TRUE)
        BY <1>4 DEF PutRow
    <2>2. Moves(h)
        BY <1>0, <1>1, <2>1, AnswerFacts
    <2>3. store' \in Seq(Rows)
        BY <1>0, <1>1, <1>2, <2>1, UpsertFacts
    <2> QED BY <1>1, <1>4, <2>2, <2>3 DEF PutRow
<1>5. CASE RecordFailure(h)
    <2>1. RecordError(handler[h].t) /\ Answer(h, FALSE)
        BY <1>5 DEF RecordFailure
    <2>2. Moves(h)
        BY <1>0, <1>1, <2>1, AnswerFacts
    <2>3. store' \in Seq(Rows)
        BY <1>0, <1>1, <2>1, RecordErrorFacts
    <2> QED BY <1>1, <1>5, <2>2, <2>3 DEF RecordFailure
<1> QED BY <1>3, <1>4, <1>5

LEMMA HandlerStepInv ==
    ASSUME AgentInv, NEW h \in Handlers, HandlerStep(h)
    PROVE  AgentInv'
<1>0. TypeOK
    BY DEF AgentInv
<1>1. /\ Moves(h) /\ Busy(h) /\ store' \in Seq(Rows)
      /\ up' \in [Topologies -> Ran] /\ nets' \in [Topologies -> BOOLEAN]
      /\ file' \in [Topologies -> BOOLEAN]
      /\ NetFault \/ HostFault \/ NoFault
      /\ UNCHANGED <<masterVars, call, todo, beat, overlap, deadPush>>
    <2>1. CASE ApplyArrives(h) \/ TeardownArrives(h)
        BY <1>0, <2>1, ArriveTypes DEF TypeOK, hostVars
    <2>2. CASE DismantleThread(h) \/ Materialise(h)
        BY <1>0, <2>2, DockerTypes DEF TypeOK
    <2>3. CASE ClearRow(h) \/ PutRow(h) \/ RecordFailure(h)
        BY <1>0, <2>3, RowTypes DEF TypeOK, hostVars
    <2> QED BY <2>1, <2>2, <2>3 DEF HandlerStep
<1>2. netFaults' \in 0..MaxFaults /\ hostFaults' \in 0..MaxFaults
    BY <1>0, <1>1, Faults
<1>3. TypeOK'
    BY <1>0, <1>1, <1>2 DEF TypeOK, Moves, masterVars
<1>4. CallInv'
    BY <1>1, MovesCalls DEF masterVars
<1> QED BY <1>3, <1>4 DEF AgentInv

-----------------------------------------------------------------------------
(* The master's calls *)

\* A request leaves.
LEMMA BeginFacts ==
    ASSUME TypeOK, NEW c \in Calls, NEW op \in {"deploy", "teardown", "resync", "live"},
           NEW t \in Topologies, NEW blob \in Blobs, Begin(c, op, t, blob)
    PROVE  /\ call' \in [Calls -> ACall \cup {NoCall}] /\ call[c] = NoCall
           /\ call'[c].at = "wait" /\ call'[c].op = op /\ call'[c].t = t
           /\ \A d \in Calls : d # c => call'[d] = call[d]
           /\ handler' \in [Handlers -> AHandler \cup {Idle}] /\ handler'[c] \in AHandler
           /\ handler'[c].t = t /\ handler'[c].at = "arrive" /\ handler'[c].sup = t
           /\ handler'[c].op = "teardown" <=> op = "teardown"
           /\ \A g \in Handlers : g # c => handler'[g] = handler[g]
           /\ overlap' \in BOOLEAN /\ (overlap' <=> overlap \/ InProgress(c))
           /\ deadPush' \subseteq Topologies /\ deadPush \subseteq deadPush'
           /\ c # "api" /\ status[t] \notin LiveStatuses => t \in deadPush'
           /\ UNCHANGED <<store, up, nets, file, beat, netFaults, hostFaults>>
<1>0. /\ call \in [Calls -> ACall \cup {NoCall}] /\ handler \in [Handlers -> AHandler \cup {Idle}]
      /\ overlap \in BOOLEAN /\ deadPush \subseteq Topologies /\ c \in Handlers
    BY Records DEF TypeOK
<1>1. PICK rec \in ACall : rec = [op |-> op, t |-> t, at |-> "wait"]
    BY DEF ACall
<1>2. call[c] = NoCall /\ call' = [call EXCEPT ![c] = rec]
    BY <1>1 DEF Begin
<1>3. rec.at = "wait" /\ rec.op = op /\ rec.t = t
    BY <1>1
<1>4. PICK req \in AHandler :
        req = [op |-> IF op = "teardown" THEN "teardown" ELSE "apply", t |-> t, blob |-> blob,
               sup |-> t, known |-> FALSE, ok |-> FALSE, at |-> "arrive"]
    <2>1. PICK o \in {"apply", "teardown"} : o = IF op = "teardown" THEN "teardown" ELSE "apply"
        OBVIOUS
    <2>2. [op |-> o, t |-> t, blob |-> blob, sup |-> t, known |-> FALSE, ok |-> FALSE,
           at |-> "arrive"] \in AHandler
        BY DEF AHandler
    <2> QED BY <2>1, <2>2
<1>5. handler' = [handler EXCEPT ![c] = req]
    BY <1>4 DEF Begin
<1>6. /\ req.t = t /\ req.at = "arrive" /\ req.sup = t
      /\ req.op = "teardown" <=> op = "teardown"
    BY <1>4
<1>7. overlap' \in BOOLEAN /\ (overlap' <=> overlap \/ InProgress(c))
    BY <1>0, Zenon DEF Begin
<1>8. /\ deadPush' \subseteq Topologies /\ deadPush \subseteq deadPush'
      /\ c # "api" /\ status[t] \notin LiveStatuses => t \in deadPush'
    BY <1>0 DEF Begin
<1>9. UNCHANGED <<store, up, nets, file, beat, netFaults, hostFaults>>
    BY DEF Begin, hostVars, NoFault
<1> QED BY <1>0, <1>2, <1>3, <1>5, <1>6, <1>7, <1>8, <1>9

\* The caller that begins a request, with the status it committed.
LEMMA BeginInv ==
    ASSUME AgentInv, NEW c \in Calls, NEW op \in {"deploy", "teardown", "resync", "live"},
           NEW t \in Topologies, NEW blob \in Blobs, Begin(c, op, t, blob),
           c = "api" <=> op \in {"deploy", "teardown"},
           status' \in [Topologies -> ALL \cup {Absent}], config' \in [Topologies -> Configs],
           resync' = resync, changes' \in 0..MaxChanges, todo' \subseteq Topologies,
           c = "api" => status'[t] = IF op = "deploy" THEN "deploying" ELSE "tearing_down",
           c # "api" => status' = status
    PROVE  AgentInv'
<1>0. TypeOK /\ CallInv
    BY DEF AgentInv
<1>1. /\ call' \in [Calls -> ACall \cup {NoCall}] /\ call[c] = NoCall
      /\ call'[c].at = "wait" /\ call'[c].op = op /\ call'[c].t = t
      /\ \A d \in Calls : d # c => call'[d] = call[d]
      /\ handler' \in [Handlers -> AHandler \cup {Idle}] /\ handler'[c] \in AHandler
      /\ handler'[c].t = t /\ (handler'[c].op = "teardown" <=> op = "teardown")
      /\ \A g \in Handlers : g # c => handler'[g] = handler[g]
      /\ overlap' \in BOOLEAN /\ deadPush' \subseteq Topologies
      /\ UNCHANGED <<store, up, nets, file, beat, netFaults, hostFaults>>
    BY <1>0, BeginFacts
<1>2. TypeOK'
    BY <1>0, <1>1 DEF TypeOK
<1>3. Calls \subseteq Handlers /\ handler'[c] # Idle
    BY <1>0, <1>1, Records
<1>4. \A d \in Calls : /\ (call'[d].at = "wait" <=> handler'[d] # Idle)
                       /\ call'[d].at = "wait" =>
                             /\ handler'[d].t = call'[d].t
                             /\ handler'[d].op = "teardown" <=> call'[d].op = "teardown"
                             /\ d = "api" <=> call'[d].op \in {"deploy", "teardown"}
    <2> SUFFICES ASSUME NEW d \in Calls
                 PROVE  /\ (call'[d].at = "wait" <=> handler'[d] # Idle)
                        /\ call'[d].at = "wait" =>
                             /\ handler'[d].t = call'[d].t
                             /\ handler'[d].op = "teardown" <=> call'[d].op = "teardown"
                             /\ d = "api" <=> call'[d].op \in {"deploy", "teardown"}
        OBVIOUS
    <2>1. CASE d = c
        BY <1>1, <1>3, <2>1
    <2>2. CASE d # c
        <3>1. call'[d] = call[d] /\ handler'[d] = handler[d]
            BY <1>1, <1>3, <2>2
        <3> QED BY <1>0, <3>1 DEF CallInv, Busy
    <2> QED BY <2>1, <2>2
<1>5. "api" \in Calls /\ call'["api"].at = "wait" =>
        status'[call'["api"].t] = IF call'["api"].op = "deploy" THEN "deploying" ELSE "tearing_down"
    <2>1. CASE c = "api"
        BY <1>1, <2>1
    <2>2. CASE c # "api"
        BY <1>0, <1>1, <2>2 DEF CallInv
    <2> QED BY <2>1, <2>2
<1> QED BY <1>2, <1>4, <1>5 DEF AgentInv, CallInv, Busy

\* deploy, teardown, live change and resync push.
LEMMA CallsBegin ==
    ASSUME AgentInv, NEW t \in Topologies,
           ApiCall(t) \/ LiveCall(t) \/ ("loop" \in Calls /\ Resync(t))
    PROVE  AgentInv'
<1>0. /\ TypeOK /\ CallInv /\ status \in [Topologies -> ALL \cup {Absent}]
      /\ config \in [Topologies -> Configs] /\ resync \in [Topologies -> BOOLEAN]
      /\ changes \in 0..MaxChanges /\ MaxChanges \in Nat /\ todo \subseteq Topologies
    BY AgentTopologyAssumption DEF AgentInv, TypeOK
<1>1. canonical_hash(t) \in Blobs /\ \A c \in Configs : [config |-> c, flag |-> resync[t]] \in Blobs
    BY <1>0 DEF canonical_hash, Blobs
<1>2. CASE ApiCall(t)
    <2>1. CASE ApiDeploy(t)
        <3>1. /\ status' = [status EXCEPT ![t] = "deploying"]
              /\ Begin("api", "deploy", t, canonical_hash(t))
              /\ UNCHANGED <<config, resync, changes, todo>> /\ "api" \in Calls
            BY <1>2, <2>1 DEF ApiCall, ApiDeploy
        <3>2. status' \in [Topologies -> ALL \cup {Absent}] /\ status'[t] = "deploying"
            BY <1>0, <3>1 DEF ALL
        <3> QED BY <1>0, <1>1, <3>1, <3>2, BeginInv
    <2>2. CASE ApiTeardown(t)
        <3>1. /\ status' = [status EXCEPT ![t] = "tearing_down"]
              /\ Begin("api", "teardown", t, canonical_hash(t))
              /\ UNCHANGED <<config, resync, changes, todo>> /\ "api" \in Calls
            BY <1>2, <2>2 DEF ApiCall, ApiTeardown
        <3>2. status' \in [Topologies -> ALL \cup {Absent}] /\ status'[t] = "tearing_down"
            BY <1>0, <3>1 DEF ALL
        <3> QED BY <1>0, <1>1, <3>1, <3>2, BeginInv
    <2> QED BY <1>2, <2>1, <2>2 DEF ApiCall
<1>3. CASE LiveCall(t)
    <2>1. PICK c \in Configs : LiveChange(t, c)
        BY <1>3 DEF LiveCall
    <2>2. /\ Begin("live", "live", t, [config |-> c, flag |-> resync[t]]) /\ "live" \in Calls
          /\ config' = [config EXCEPT ![t] = c] /\ UNCHANGED <<status, resync, todo>>
          /\ changes < MaxChanges /\ changes' = changes + 1
        BY <1>3, <2>1 DEF LiveChange, LiveCall, Change
    <2>3. config' \in [Topologies -> Configs] /\ changes' \in 0..MaxChanges
        BY <1>0, <2>2
    <2> QED BY <1>0, <1>1, <2>2, <2>3, BeginInv
<1>4. CASE "loop" \in Calls /\ Resync(t)
    <2>1. /\ UNCHANGED <<status, config, resync, changes>> /\ todo' \subseteq Topologies
        BY <1>0, <1>4 DEF Resync, masterVars, Flagged
    <2>2. CASE status[t] # Absent
        <3>1. Begin("loop", "resync", t, canonical_hash(t))
            BY <1>4, <2>2 DEF Resync
        <3> QED BY <1>0, <1>1, <1>4, <2>1, <3>1, BeginInv
    <2>3. CASE status[t] = Absent
        <3>1. UNCHANGED <<call, handler, overlap, deadPush, store, up, nets, file, netFaults, hostFaults>>
            BY <1>4, <2>3 DEF Resync, hostVars, NoFault
        <3>2. TypeOK'
            BY <1>0, <2>1, <3>1 DEF TypeOK
        <3>3. CallInv'
            BY <1>0, <2>1, <3>1 DEF CallInv, Busy
        <3> QED BY <3>2, <3>3 DEF AgentInv
    <2> QED BY <2>2, <2>3
<1> QED BY <1>2, <1>3, <1>4

\* The caller takes the answer, or gives up.
LEMMA SettleFacts ==
    ASSUME TypeOK, NEW c \in Calls, call[c].at = "wait", NEW ok, Settle(c, ok)
    PROVE  /\ call[c] \in ACall /\ call[c].t \in Topologies
           /\ call' \in [Calls -> ACall \cup {NoCall}] /\ call'[c].at # "wait"
           /\ \A d \in Calls : d # c => call'[d] = call[d]
           /\ status' \in [Topologies -> ALL \cup {Absent}]
           /\ \A t \in Topologies : t # call[c].t => status'[t] = status[t]
           /\ c # "api" => status' = status
           /\ call[c].op = "deploy" => status'[call[c].t] \in {status[call[c].t], "active", "failed"}
<1>1. /\ status \in [Topologies -> ALL \cup {Absent}] /\ call \in [Calls -> ACall \cup {NoCall}]
      /\ call[c] \in ACall /\ NoCall.at = "none"
    BY Records DEF TypeOK
<1>2. call[c].t \in Topologies /\ call[c].op \in {"deploy", "teardown", "resync", "live"}
    BY <1>1 DEF ACall
<1>3. PICK t \in Topologies : t = call[c].t
    BY <1>2
<1>4. PICK new : /\ new = CASE call[c].op = "deploy"   -> IF ok THEN "active" ELSE "failed"
                            [] call[c].op = "teardown" -> "torn_down"
                            [] OTHER                   -> status[t]
                 /\ status' = [status EXCEPT ![t] =
                       IF c = "api" /\ assert_transition(@, new) THEN new ELSE @]
    BY <1>3 DEF Settle
<1>5. /\ call[c].op = "deploy" => new \in {"active", "failed"}
      /\ new \in ALL \cup {Absent}
    <2>1. CASE call[c].op = "deploy"
        BY <1>4, <2>1 DEF ALL
    <2>2. CASE call[c].op = "teardown"
        BY <1>4, <2>2 DEF ALL
    <2>3. CASE call[c].op \notin {"deploy", "teardown"}
        BY <1>1, <1>4, <2>3
    <2> QED BY <2>1, <2>2, <2>3
<1>6. PICK s \in ALL \cup {Absent} : /\ status' = [status EXCEPT ![t] = s]
                                     /\ s \in {status[t], new}
                                     /\ c # "api" => s = status[t]
    BY <1>1, <1>4, <1>5
<1>7. /\ status' \in [Topologies -> ALL \cup {Absent}] /\ status'[t] = s
      /\ \A u \in Topologies : u # t => status'[u] = status[u]
    BY <1>1, <1>6
<1>8. c # "api" => status' = status
    BY <1>1, <1>6
<1>9. /\ call' \in [Calls -> ACall \cup {NoCall}] /\ call'[c].at # "wait"
      /\ \A d \in Calls : d # c => call'[d] = call[d]
    <2>1. CASE call' = [call EXCEPT ![c].at = "clear"]
        <3>0. PICK r : r = [call[c] EXCEPT !.at = "clear"]
            OBVIOUS
        <3>1. r \in ACall /\ r.at = "clear"
            BY <1>1, <3>0 DEF ACall
        <3>2. call' = [call EXCEPT ![c] = r]
            BY <1>1, <2>1, <3>0
        <3> QED BY <1>1, <3>1, <3>2
    <2>2. CASE call' = [call EXCEPT ![c] = NoCall]
        BY <1>1, <2>2
    <2> QED BY <2>1, <2>2 DEF Settle, EndCall
<1> QED BY <1>1, <1>2, <1>3, <1>5, <1>6, <1>7, <1>8, <1>9

LEMMA CallsEnd ==
    ASSUME AgentInv, NEW c \in Calls, Answered(c) \/ TimesOut(c)
    PROVE  /\ AgentInv' /\ call[c].at = "wait" /\ Busy(c) /\ handler'[c] = Idle
           /\ \A g \in Handlers \ {c, "gone"} : handler'[g] = handler[g]
           /\ \/ handler'["gone"] = handler["gone"]
              \/ handler'["gone"] = handler[c] /\ ~Busy("gone")
           /\ UNCHANGED <<config, resync, changes, todo, store, up, nets, file, beat, overlap, deadPush>>
<1>0. /\ TypeOK /\ CallInv /\ handler \in [Handlers -> AHandler \cup {Idle}]
      /\ c \in Handlers /\ "gone" \in Handlers /\ c # "gone"
    BY Records DEF AgentInv, TypeOK
<1>1. /\ call[c].at = "wait" /\ \E ok : Settle(c, ok)
      /\ UNCHANGED <<config, resync, changes, todo, store, up, nets, file, beat, overlap, deadPush>>
      /\ NetFault \/ HostFault \/ NoFault
    BY DEF Answered, TimesOut, hostVars
<1>2. Busy(c)
    BY <1>0, <1>1 DEF CallInv
<1>3. /\ call[c] \in ACall /\ call[c].t \in Topologies
      /\ call' \in [Calls -> ACall \cup {NoCall}] /\ call'[c].at # "wait"
      /\ \A d \in Calls : d # c => call'[d] = call[d]
      /\ status' \in [Topologies -> ALL \cup {Absent}]
      /\ c # "api" => status' = status
    BY <1>0, <1>1, SettleFacts
<1>4. \/ handler' = [handler EXCEPT ![c] = Idle]
      \/ handler["gone"] = Idle /\ handler' = [handler EXCEPT ![c] = Idle, !["gone"] = handler[c]]
    BY DEF Answered, TimesOut
<1>5. /\ handler' \in [Handlers -> AHandler \cup {Idle}] /\ handler'[c] = Idle
      /\ \A g \in Handlers \ {c, "gone"} : handler'[g] = handler[g]
      /\ \/ handler'["gone"] = handler["gone"]
         \/ handler'["gone"] = handler[c] /\ handler["gone"] = Idle
    BY <1>0, <1>4
<1>6. netFaults' \in 0..MaxFaults /\ hostFaults' \in 0..MaxFaults
    BY <1>0, <1>1, Faults
<1>7. TypeOK'
    BY <1>0, <1>1, <1>3, <1>5, <1>6 DEF TypeOK
<1>8. \A d \in Calls : d # c => call'[d] = call[d] /\ handler'[d] = handler[d]
    BY <1>0, <1>3, <1>5, Records
<1>9. CallInv'
    BY <1>0, <1>3, <1>5, <1>8 DEF CallInv, Busy
<1> QED BY <1>1, <1>2, <1>5, <1>7, <1>9 DEF AgentInv, Busy

\* Steps that touch no request: operators' edits, heartbeats, the cleared flag.
LEMMA MasterSteps ==
    ASSUME AgentInv,
           \/ \E t \in Topologies : \/ ApiDelete(t) \/ Degrade(t)
                                    \/ \E c \in Configs : Edit(t, c)
           \/ SendBeat \/ ReceiveBeat \/ LoseBeat
           \/ "loop" \in Calls /\ ClearFlag
    PROVE  /\ AgentInv'
           /\ \A c \in Calls : call'[c].at = "wait" => call'[c] = call[c]
           /\ \A t \in Topologies : \/ status'[t] = status[t]
                                    \/ status[t] \in Deletable /\ status'[t] = Absent
                                    \/ status[t] = "active" /\ status'[t] = "degraded"
           /\ UNCHANGED <<handler, store, up, nets, file, overlap, deadPush>>
           /\ NetFault \/ NoFault
<1>0. /\ TypeOK /\ CallInv /\ status \in [Topologies -> ALL \cup {Absent}]
      /\ config \in [Topologies -> Configs] /\ resync \in [Topologies -> BOOLEAN]
      /\ changes \in 0..MaxChanges /\ MaxChanges \in Nat
      /\ call \in [Calls -> ACall \cup {NoCall}] /\ NoCall.at = "none"
    BY AgentTopologyAssumption, Records DEF AgentInv, TypeOK
<1>1. UNCHANGED <<handler, store, up, nets, file, overlap, deadPush, todo>> /\ (NetFault \/ NoFault)
    BY DEF ApiDelete, Degrade, Edit, SendBeat, ReceiveBeat, LoseBeat, ClearFlag, hostVars, masterVars
<1>2. /\ status' \in [Topologies -> ALL \cup {Absent}]
      /\ \A t \in Topologies : \/ status'[t] = status[t]
                               \/ status[t] \in Deletable /\ status'[t] = Absent
                               \/ status[t] = "active" /\ status'[t] = "degraded"
    <2>1. CASE \E t \in Topologies : ApiDelete(t) \/ Degrade(t)
        BY <1>0, <2>1 DEF ApiDelete, Degrade, ALL
    <2>2. CASE ~\E t \in Topologies : ApiDelete(t) \/ Degrade(t)
        <3>1. status' = status
            BY <2>2 DEF Edit, SendBeat, ReceiveBeat, LoseBeat, ClearFlag, masterVars
        <3> QED BY <1>0, <3>1
    <2> QED BY <2>1, <2>2
<1>3. config' \in [Topologies -> Configs]
    BY <1>0 DEF ApiDelete, Degrade, Edit, SendBeat, ReceiveBeat, LoseBeat, ClearFlag, masterVars
<1>4. resync' \in [Topologies -> BOOLEAN]
    <2>1. CASE ReceiveBeat
        BY <1>0, <2>1, Zenon DEF ReceiveBeat
    <2>2. CASE "loop" \in Calls /\ ClearFlag
        BY <1>0, <2>2 DEF ClearFlag
    <2>3. CASE \E t \in Topologies : ApiDelete(t)
        BY <1>0, <2>3 DEF ApiDelete
    <2> QED BY <1>0, <2>1, <2>2, <2>3 DEF Degrade, Edit, SendBeat, LoseBeat, masterVars
<1>5. changes' \in 0..MaxChanges
    BY <1>0 DEF ApiDelete, Degrade, Edit, SendBeat, ReceiveBeat, LoseBeat, ClearFlag, masterVars, Change
<1>6. /\ call' \in [Calls -> ACall \cup {NoCall}]
      /\ \A c \in Calls : /\ call'[c].at = "wait" <=> call[c].at = "wait"
                          /\ call'[c].at = "wait" => call'[c] = call[c]
    <2>1. CASE "loop" \in Calls /\ ClearFlag
        <3>1. call["loop"].at = "clear" /\ call' = [call EXCEPT !["loop"] = NoCall]
            BY <2>1 DEF ClearFlag, EndCall
        <3> QED BY <1>0, <2>1, <3>1
    <2>2. CASE ~("loop" \in Calls /\ ClearFlag)
        <3>1. call' = call
            BY <2>2 DEF ApiDelete, Degrade, Edit, SendBeat, ReceiveBeat, LoseBeat
        <3> QED BY <1>0, <3>1
    <2> QED BY <2>1, <2>2
<1>7. netFaults' \in 0..MaxFaults /\ hostFaults' \in 0..MaxFaults
    BY <1>0, <1>1, Faults
<1>8. TypeOK'
    BY <1>0, <1>1, <1>2, <1>3, <1>4, <1>5, <1>6, <1>7 DEF TypeOK
<1>9. CallInv'
    <2>1. \A c \in Calls : /\ (call'[c].at = "wait" <=> handler'[c] # Idle)
                           /\ call'[c].at = "wait" =>
                                /\ handler'[c].t = call'[c].t
                                /\ handler'[c].op = "teardown" <=> call'[c].op = "teardown"
                                /\ c = "api" <=> call'[c].op \in {"deploy", "teardown"}
        BY <1>0, <1>1, <1>6 DEF CallInv, Busy
    <2>2. ASSUME "api" \in Calls, call'["api"].at = "wait"
          PROVE  status'[call'["api"].t] = IF call'["api"].op = "deploy" THEN "deploying"
                                           ELSE "tearing_down"
        <3>1. call'["api"] = call["api"] /\ call["api"].at = "wait"
            BY <1>6, <2>2
        <3>2. call["api"].t \in Topologies
            BY <1>0, <2>2, <3>1, Records DEF ACall
        <3>3. status[call["api"].t] = IF call["api"].op = "deploy" THEN "deploying" ELSE "tearing_down"
            BY <1>0, <2>2, <3>1 DEF CallInv
        <3> QED BY <1>2, <3>1, <3>2, <3>3 DEF Deletable
    <2> QED BY <2>1, <2>2 DEF CallInv, Busy
<1> QED BY <1>1, <1>2, <1>6, <1>8, <1>9 DEF AgentInv

LEMMA DeathInv ==
    ASSUME AgentInv, AgentDies
    PROVE  AgentInv'
<1>0. TypeOK /\ CallInv /\ handler \in [Handlers -> AHandler \cup {Idle}]
    BY DEF AgentInv, TypeOK
<1>1. /\ HostFault /\ UNCHANGED <<masterVars, call, todo, store, hostVars, beat, overlap, deadPush>>
      /\ handler' = [h \in Handlers |->
            IF handler[h] = Idle \/ h = "gone" THEN Idle
            ELSE IF handler[h].at = "answered" THEN handler[h]
            ELSE [handler[h] EXCEPT !.at = "answered", !.ok = FALSE]]
    BY DEF AgentDies
<1>2. \A a \in AHandler : LET b == [a EXCEPT !.at = "answered", !.ok = FALSE] IN
                            b \in AHandler /\ b.t = a.t /\ b.op = a.op
    BY DEF AHandler
<1>3. handler' \in [Handlers -> AHandler \cup {Idle}]
    BY <1>0, <1>1, <1>2
<1>4. \A c \in Calls : /\ handler'[c] # Idle <=> handler[c] # Idle
                       /\ handler[c] # Idle => handler'[c].t = handler[c].t /\ handler'[c].op = handler[c].op
    BY <1>0, <1>1, <1>2, Records DEF Busy
<1>5. netFaults' \in 0..MaxFaults /\ hostFaults' \in 0..MaxFaults
    BY <1>0, <1>1, Faults
<1>6. TypeOK'
    BY <1>0, <1>1, <1>3, <1>5 DEF TypeOK, masterVars, hostVars
<1>7. CallInv'
    <2>1. UNCHANGED <<call, status>>
        BY <1>1 DEF masterVars
    <2>2. \A c \in Calls : call[c].at = "wait" => handler[c] # Idle
        BY <1>0 DEF CallInv, Busy
    <2> QED BY <1>0, <1>4, <2>1, <2>2 DEF CallInv, Busy
<1> QED BY <1>6, <1>7 DEF AgentInv

LEMMA AgentInit == Init => AgentInv /\ CleanInv /\ GoneInv
<1> SUFFICES ASSUME Init PROVE AgentInv /\ CleanInv /\ GoneInv
    OBVIOUS
<1>1. /\ FirstConfig \in Configs /\ 0 \in 0..MaxChanges /\ 0 \in 0..MaxFaults
      /\ "gone" \in Handlers /\ Calls \subseteq Handlers
    BY AgentTopologyAssumption DEF Handlers
<1>2. TypeOK
    <2>1. /\ status \in [Topologies -> ALL \cup {Absent}] /\ config \in [Topologies -> Configs]
          /\ up \in [Topologies -> Ran] /\ changes \in 0..MaxChanges
          /\ netFaults \in 0..MaxFaults /\ hostFaults \in 0..MaxFaults
        BY <1>1 DEF Init, ALL, Ran
    <2>2. /\ resync \in [Topologies -> BOOLEAN] /\ nets \in [Topologies -> BOOLEAN]
          /\ file \in [Topologies -> BOOLEAN] /\ overlap \in BOOLEAN
        BY DEF Init
    <2>3. /\ call \in [Calls -> ACall \cup {NoCall}]
          /\ handler \in [Handlers -> AHandler \cup {Idle}]
          /\ todo \subseteq Topologies /\ deadPush \subseteq Topologies
        BY DEF Init
    <2>4. store \in Seq(Rows)
        BY EmptySeq DEF Init
    <2> QED BY <2>1, <2>2, <2>3, <2>4 DEF TypeOK
<1>3. /\ \A h \in Handlers : ~Busy(h) /\ handler[h].at = "idle"
      /\ \A c \in Calls : call[c].at = "none"
      /\ \A t \in Topologies : up[t] = Nothing /\ status[t] = "pending"
    BY DEF Init, Busy, Idle, NoCall
<1>4. CallInv
    BY <1>1, <1>3 DEF CallInv
<1>5. Len(store) = 0 /\ DOMAIN store = {}
    BY DEF Init
<1>6. SoloInv /\ StoreInv /\ BaseInv
    BY <1>3, <1>5 DEF SoloInv, StoreInv, BaseInv, Described, RowOf
<1>7. GoneInv
    BY <1>1, <1>3 DEF GoneInv
<1> QED BY <1>2, <1>3, <1>4, <1>6, <1>7 DEF AgentInv, CleanInv

LEMMA AgentNext ==
    ASSUME AgentInv, [Next]_vars
    PROVE  AgentInv'
<1>1. CASE UNCHANGED vars
    BY <1>1 DEF vars, masterVars, hostVars, AgentInv, TypeOK, CallInv, Busy
<1> QED BY <1>1, CallsBegin, CallsEnd, MasterSteps, HandlerStepInv, DeathInv
        DEF Next, LoopStep, BeatStep

\* Type correctness, and what a caller and its request have in common, for every
\* set of topologies and every number of calls, edits and faults.
THEOREM AgentInvariant == Spec => []AgentInv
BY AgentInit, AgentNext, PTL DEF Spec

-----------------------------------------------------------------------------
(* The clean part of a behaviour *)

\* Steps that leave the agent alone.
LEMMA CleanFrame ==
    ASSUME CleanInv, UNCHANGED <<handler, store, up, file>>, Clean' => Clean
    PROVE  CleanInv'
BY DEF CleanInv, SoloInv, StoreInv, BaseInv, Between, Described, RowOf, PlaceInv, Busy

\* With one request at a time its position is all there is to know.
LEMMA CleanSolo ==
    ASSUME TypeOK', NEW h \in Handlers, \A g \in Handlers : g # h => handler'[g] = Idle,
           StoreInv', Busy(h)' => PlaceInv(h)',
           \A t \in Topologies : (Busy(h)' => ~Between(h, t)') => Described(t)'
    PROVE  CleanInv'
<1>1. \A t : handler'[h] = Idle => ~Between(h, t)'
    BY DEF Between, Idle
<1>2. SoloInv'
    BY DEF SoloInv, Busy
<1>3. \A g \in Handlers : Busy(g)' => g = h
    BY DEF Busy
<1>4. BaseInv'
    BY <1>1 DEF BaseInv, Busy
<1> QED BY <1>2, <1>3, <1>4 DEF CleanInv

\* What a step of a request starts from.
LEMMA CleanBefore ==
    ASSUME AgentInv, CleanInv, Clean, NEW h \in Handlers, Busy(h)
    PROVE  /\ \A g \in Handlers : g # h => handler[g] = Idle
           /\ PlaceInv(h) /\ StoreInv
           /\ \A i \in DOMAIN store : i = 1
           /\ \A t \in Topologies : ~Between(h, t) => Described(t)
<1>1. \A g \in Handlers : g # h => handler[g] = Idle
    BY DEF CleanInv, SoloInv, Busy
<1>2. \A g \in Handlers, t \in Topologies : g # h => ~Between(g, t)
    BY <1>1 DEF Between, Idle
<1>3. store \in Seq(Rows)
    BY DEF AgentInv, TypeOK
<1> QED BY <1>1, <1>2, <1>3, ShortStore DEF CleanInv, BaseInv, StoreInv

LEMMA CleanBegin ==
    ASSUME AgentInv, AgentInv', CleanInv, NEW c \in Calls,
           NEW op \in {"deploy", "teardown", "resync", "live"},
           NEW t \in Topologies, NEW blob \in Blobs, Begin(c, op, t, blob)
    PROVE  CleanInv'
<1> SUFFICES ASSUME Clean' PROVE CleanInv'
    BY DEF CleanInv
<1>0. /\ call[c] = NoCall /\ handler'[c] \in AHandler
      /\ handler'[c].t = t /\ handler'[c].at = "arrive" /\ handler'[c].sup = t
      /\ \A g \in Handlers : g # c => handler'[g] = handler[g]
      /\ overlap' <=> overlap \/ InProgress(c)
      /\ UNCHANGED <<store, up, nets, file, beat, netFaults, hostFaults>>
    BY BeginFacts DEF AgentInv
<1>1. Clean /\ ~InProgress(c)
    BY <1>0 DEF Clean
<1>2. c \in Handlers /\ handler[c] = Idle /\ TypeOK'
    BY <1>0, Records DEF AgentInv, CallInv, Busy
<1>3. \A g \in Handlers : handler[g] = Idle
    BY <1>1, <1>2, Records DEF AgentInv, CallInv, Busy, InProgress
<1>4. \A u \in Topologies : Described(u)
    BY <1>1, <1>3 DEF CleanInv, BaseInv, Between, Idle
<1>5. \A u \in Topologies : Described(u)'
    BY <1>0, <1>4 DEF Described, RowOf
<1>6. PlaceInv(c)'
    BY <1>0 DEF PlaceInv
<1>7. StoreInv'
    BY <1>0, <1>1 DEF CleanInv, StoreInv
<1>8. \A g \in Handlers : g # c => handler'[g] = Idle
    BY <1>0, <1>3
<1> QED BY <1>2, <1>5, <1>6, <1>7, <1>8, CleanSolo

LEMMA CleanEnd ==
    ASSUME AgentInv, AgentInv', CleanInv, NEW c \in Calls, Answered(c) \/ TimesOut(c)
    PROVE  CleanInv'
<1> SUFFICES ASSUME Clean' PROVE CleanInv'
    BY DEF CleanInv
<1>0. /\ call[c].at = "wait" /\ Busy(c) /\ handler'[c] = Idle
      /\ \A g \in Handlers \ {c, "gone"} : handler'[g] = handler[g]
      /\ UNCHANGED <<store, up, nets, file, overlap>>
    BY CallsEnd
<1>2. Clean
    BY <1>0, Faults DEF Clean, AgentInv, Answered, TimesOut
<1>3. /\ \A g \in Handlers : g # c => handler[g] = Idle
      /\ PlaceInv(c) /\ StoreInv
      /\ \A t \in Topologies : ~Between(c, t) => Described(t)
    BY <1>0, <1>2, CleanBefore, Records DEF AgentInv
<1>4. \/ handler'["gone"] = handler[c]
      \/ handler'["gone"] = Idle /\ handler[c].at \in {"arrive", "answered"}
    <2>1. handler \in [Handlers -> AHandler \cup {Idle}] /\ handler["gone"] = Idle
        BY <1>3, Records DEF AgentInv, TypeOK
    <2>2. c # "gone" /\ "gone" \in Handlers
        BY Records DEF AgentInv
    <2> QED BY <2>1, <2>2 DEF Answered, TimesOut
<1>5. \A g \in Handlers : g # "gone" => handler'[g] = Idle
    BY <1>0, <1>3
<1>6. StoreInv' /\ \A t \in Topologies : Described(t) => Described(t)'
    BY <1>0, <1>3 DEF StoreInv, Described, RowOf
<1>7. "gone" \in Handlers /\ TypeOK'
    BY Records DEF AgentInv
<1>8. Busy("gone")' => PlaceInv("gone")'
    BY <1>0, <1>3, <1>4 DEF Busy, PlaceInv
<1>9. ASSUME NEW t \in Topologies, Busy("gone")' => ~Between("gone", t)'
      PROVE  Described(t)'
    <2>1. ~Between(c, t)
        BY <1>0, <1>4, <1>9 DEF Between, Busy
    <2> QED BY <1>3, <1>6, <2>1
<1> QED BY <1>5, <1>6, <1>7, <1>8, <1>9, CleanSolo

\* A request on its way into the docker work.
LEMMA CleanArrive ==
    ASSUME AgentInv, AgentInv', CleanInv, NEW h \in Handlers, ApplyArrives(h) \/ TeardownArrives(h)
    PROVE  CleanInv'
<1> SUFFICES ASSUME Clean' PROVE CleanInv'
    BY DEF CleanInv
<1>0. /\ TypeOK /\ TypeOK' /\ Busy(h) /\ Moves(h) /\ (NetFault \/ HostFault \/ NoFault)
      /\ UNCHANGED <<up, nets, file, overlap>>
    BY ArriveTypes DEF AgentInv, hostVars
<1>1. Clean /\ ~HostFault
    BY <1>0, Faults DEF Clean
<1>2. /\ \A g \in Handlers : g # h => handler[g] = Idle
      /\ StoreInv /\ \A i \in DOMAIN store : i = 1
      /\ \A t \in Topologies : ~Between(h, t) => Described(t)
      /\ handler[h] \in AHandler /\ handler[h].op \in {"apply", "teardown"}
      /\ handler[h].t \in Topologies
    BY <1>0, <1>1, CleanBefore, Records, Fields
<1>3. \A t \in Topologies : Described(t)
    BY <1>2 DEF Between, ApplyArrives, TeardownArrives, On
<1>4. /\ UNCHANGED store
      /\ \/ handler[h].op = "apply" /\ Answer(h, FALSE)
         \/ handler[h].op = "apply" /\ Current \subseteq {handler[h].t} /\ Goto(h, "materialise")
         \/ /\ handler[h].op = "apply"
            /\ \E existing \in Current : Dismantle(h, existing, TRUE)
         \/ handler[h].op = "teardown" /\ \E known \in BOOLEAN : Dismantle(h, handler[h].t, known)
    <2>1. CASE ApplyArrives(h)
        BY <1>1, <2>1 DEF ApplyArrives, On
    <2>2. CASE TeardownArrives(h)
        <3>1. handler[h].op = "teardown" /\ UNCHANGED store
            BY <2>2 DEF TeardownArrives, On
        <3>2. Dismantle(h, handler[h].t, handler[h].t \in Current)
            BY <1>1, <2>2 DEF TeardownArrives
        <3>3. (handler[h].t \in Current) = TRUE \/ (handler[h].t \in Current) = FALSE
            OBVIOUS
        <3>4. \E known \in BOOLEAN : Dismantle(h, handler[h].t, known)
            BY <3>2, <3>3
        <3> QED BY <3>1, <3>4
    <2> QED BY <2>1, <2>2
<1>5. StoreInv' /\ \A t \in Topologies : Described(t)'
    BY <1>0, <1>2, <1>3, <1>4 DEF StoreInv, Described, RowOf
<1>6. \A g \in Handlers : g # h => handler'[g] = Idle
    BY <1>0, <1>2 DEF Moves
<1>7. Current \subseteq Topologies /\ \A i \in DOMAIN store : store[i].t \in Current
    BY <1>0, <1>2, StoreRows DEF Current
<1>8. \A e \in Current : \A i \in DOMAIN store : store[i].t = e
    BY <1>2 DEF Current
<1>9. Busy(h)' => PlaceInv(h)'
    <2>1. CASE handler[h].op = "apply" /\ Answer(h, FALSE)
        <3>1. /\ h # "gone" => handler'[h].at = "answered"
              /\ h = "gone" => handler'[h] = Idle
            BY <1>0, <2>1, AnswerFacts
        <3>2. Busy(h)' => handler'[h].op = "apply" /\ handler'[h].at = "answered"
            BY <1>0, <2>1, <3>1 DEF Moves, Busy
        <3> QED BY <3>2 DEF PlaceInv
    <2>2. CASE handler[h].op = "apply" /\ Current \subseteq {handler[h].t} /\ Goto(h, "materialise")
        <3>1. handler'[h].at = "materialise" /\ handler'[h] \in AHandler
            BY <1>0, <2>2, GotoFacts DEF Places
        <3>2. handler'[h].op = "apply" /\ handler'[h].t = handler[h].t
            BY <1>0, <2>2, <3>1, Records DEF Moves
        <3> QED BY <1>4, <1>7, <2>2, <3>1, <3>2 DEF PlaceInv
    <2>3. CASE handler[h].op = "apply" /\ \E existing \in Current : Dismantle(h, existing, TRUE)
        <3>1. PICK e \in Current : Dismantle(h, e, TRUE)
            BY <2>3
        <3>2. handler'[h].at = "dismantle" /\ handler'[h].sup = e /\ handler'[h] \in AHandler
            BY <1>0, <1>7, <3>1, DismantleFacts
        <3>3. handler'[h].op = "apply"
            BY <1>0, <2>3, <3>2, Records DEF Moves
        <3> QED BY <1>4, <1>8, <3>2, <3>3 DEF PlaceInv
    <2>4. CASE handler[h].op = "teardown" /\ \E known \in BOOLEAN : Dismantle(h, handler[h].t, known)
        <3>1. handler'[h].at = "dismantle" /\ handler'[h].sup = handler[h].t /\ handler'[h] \in AHandler
            BY <1>0, <1>2, <2>4, DismantleFacts
        <3>2. handler'[h].op = "teardown" /\ handler'[h].t = handler[h].t
            BY <1>0, <2>4, <3>1, Records DEF Moves
        <3> QED BY <3>1, <3>2 DEF PlaceInv
    <2> QED BY <1>4, <2>1, <2>2, <2>3, <2>4
<1> QED BY <1>0, <1>5, <1>6, <1>9, CleanSolo

\* compose down, and the bridges and the file removed.
LEMMA CleanDismantle ==
    ASSUME AgentInv, AgentInv', CleanInv, NEW h \in Handlers, DismantleThread(h)
    PROVE  CleanInv'
<1> SUFFICES ASSUME Clean' PROVE CleanInv'
    BY DEF CleanInv
<1>0. /\ TypeOK /\ TypeOK' /\ Busy(h) /\ Moves(h) /\ (NetFault \/ HostFault \/ NoFault)
      /\ UNCHANGED <<store, overlap>>
    BY DockerTypes DEF AgentInv
<1>1. Clean /\ ~HostFault
    BY <1>0, Faults DEF Clean
<1>2. /\ \A g \in Handlers : g # h => handler[g] = Idle
      /\ StoreInv /\ PlaceInv(h)
      /\ \A t \in Topologies : ~Between(h, t) => Described(t)
      /\ handler[h] \in AHandler /\ handler[h].sup \in Topologies
    BY <1>0, <1>1, CleanBefore, Records, Fields
<1>3. \A t \in Topologies : Described(t)
    BY <1>2 DEF Between, DismantleThread, On
<1>4. PICK s \in Topologies : s = handler[h].sup
    BY <1>2
<1>5. /\ up' = [up EXCEPT ![s] = IF file[s] THEN Nothing ELSE @]
      /\ file' = [file EXCEPT ![s] = FALSE] /\ Goto(h, "cleared")
      /\ handler[h].at = "dismantle"
    BY <1>1, <1>4 DEF DismantleThread, On
<1>6. /\ up'[s] = IF file[s] THEN Nothing ELSE up[s]
      /\ \A t \in Topologies : t # s => up'[t] = up[t] /\ file'[t] = file[t]
    BY <1>0, <1>5 DEF TypeOK
<1>7. up'[s] = Nothing
    BY <1>3, <1>6 DEF Described
<1>8. /\ handler'[h] \in AHandler /\ handler'[h].at = "cleared" /\ handler'[h].sup = s
      /\ handler'[h].op = handler[h].op /\ handler'[h].t = handler[h].t
    BY <1>0, <1>4, <1>5, GotoFacts, Records DEF Places, Moves
<1>9. \A g \in Handlers : g # h => handler'[g] = Idle
    BY <1>0, <1>2 DEF Moves
<1>10. PlaceInv(h)'
    BY <1>0, <1>2, <1>4, <1>5, <1>7, <1>8 DEF PlaceInv
<1>11. \A t \in Topologies : ~Between(h, t)' => Described(t)'
    <2>1. \A t \in Topologies : t # s => Described(t)'
        BY <1>0, <1>3, <1>6 DEF Described, RowOf
    <2> QED BY <1>8, <2>1 DEF Between
<1>12. StoreInv'
    BY <1>0, <1>2 DEF StoreInv
<1>13. Busy(h)'
    BY <1>0, <1>8, Records DEF Busy
<1> QED BY <1>0, <1>9, <1>10, <1>11, <1>12, <1>13, CleanSolo

\* The bridges, the file and compose up.
LEMMA CleanMaterialise ==
    ASSUME AgentInv, AgentInv', CleanInv, NEW h \in Handlers, Materialise(h)
    PROVE  CleanInv'
<1> SUFFICES ASSUME Clean' PROVE CleanInv'
    BY DEF CleanInv
<1>0. /\ TypeOK /\ TypeOK' /\ Busy(h) /\ Moves(h) /\ (NetFault \/ HostFault \/ NoFault)
      /\ UNCHANGED <<store, overlap>>
    BY DockerTypes DEF AgentInv
<1>1. Clean /\ ~HostFault
    BY <1>0, Faults DEF Clean
<1>2. /\ \A g \in Handlers : g # h => handler[g] = Idle
      /\ StoreInv /\ PlaceInv(h)
      /\ \A t \in Topologies : ~Between(h, t) => Described(t)
      /\ handler[h] \in AHandler /\ handler[h].t \in Topologies
    BY <1>0, <1>1, CleanBefore, Records, Fields
<1>3. \A t \in Topologies : Described(t)
    BY <1>2 DEF Between, Materialise, On
<1>4. PICK s \in Topologies : s = handler[h].t
    BY <1>2
<1>5. /\ up' = [up EXCEPT ![s] = handler[h].blob.config]
      /\ file' = [file EXCEPT ![s] = TRUE] /\ Goto(h, "put")
      /\ handler[h].at = "materialise" /\ handler[h].op = "apply"
    BY <1>1, <1>4 DEF Materialise, On
<1>6. /\ up'[s] = handler[h].blob.config /\ file'[s]
      /\ \A t \in Topologies : t # s => up'[t] = up[t] /\ file'[t] = file[t]
    BY <1>0, <1>5 DEF TypeOK
<1>7. /\ handler'[h] \in AHandler /\ handler'[h].at = "put" /\ handler'[h].blob = handler[h].blob
      /\ handler'[h].op = handler[h].op /\ handler'[h].t = s
    BY <1>0, <1>4, <1>5, GotoFacts, Records DEF Places, Moves
<1>8. \A g \in Handlers : g # h => handler'[g] = Idle
    BY <1>0, <1>2 DEF Moves
<1>9. \A i \in DOMAIN store : store[i].t = s
    BY <1>2, <1>4, <1>5 DEF PlaceInv
<1>10. PlaceInv(h)'
    BY <1>0, <1>5, <1>6, <1>7, <1>9 DEF PlaceInv
<1>11. \A t \in Topologies : ~Between(h, t)' => Described(t)'
    <2>1. \A t \in Topologies : t # s => Described(t)'
        BY <1>0, <1>3, <1>6 DEF Described, RowOf
    <2> QED BY <1>7, <2>1 DEF Between
<1>12. StoreInv'
    BY <1>0, <1>2 DEF StoreInv
<1>13. Busy(h)'
    BY <1>0, <1>7, Records DEF Busy
<1> QED BY <1>0, <1>8, <1>10, <1>11, <1>12, <1>13, CleanSolo

\* store.clear.
LEMMA CleanClearRow ==
    ASSUME AgentInv, AgentInv', CleanInv, NEW h \in Handlers, ClearRow(h)
    PROVE  CleanInv'
<1> SUFFICES ASSUME Clean' PROVE CleanInv'
    BY DEF CleanInv
<1>0. /\ TypeOK /\ TypeOK' /\ Busy(h) /\ Moves(h) /\ NoFault
      /\ UNCHANGED <<up, nets, file, overlap>>
    BY RowTypes DEF AgentInv, hostVars
<1>1. Clean
    BY <1>0 DEF Clean, NoFault
<1>2. /\ \A g \in Handlers : g # h => handler[g] = Idle
      /\ StoreInv /\ PlaceInv(h) /\ \A i \in DOMAIN store : i = 1
      /\ \A t \in Topologies : ~Between(h, t) => Described(t)
      /\ handler[h] \in AHandler /\ handler[h].sup \in Topologies
      /\ handler[h].op \in {"apply", "teardown"}
    BY <1>0, <1>1, CleanBefore, Records, Fields
<1>3. PICK s \in Topologies : s = handler[h].sup
    BY <1>2
<1>4. /\ handler[h].at = "cleared" /\ Clear(s)
      /\ IF handler[h].op = "apply" THEN Goto(h, "materialise") ELSE Answer(h, TRUE)
    BY <1>3 DEF ClearRow, On
<1>5. store' = IF RowOf(s) = {} THEN store ELSE <<>>
    BY <1>0, <1>2, <1>4, ClearFacts DEF StoreInv
<1>6. /\ \A t \in Topologies : t # s => RowOf(t)' = RowOf(t) /\ \A i \in RowOf(t) : store'[i] = store[i]
      /\ RowOf(s)' = {}
    <2>1. CASE RowOf(s) = {}
        BY <1>5, <2>1 DEF RowOf
    <2>2. CASE RowOf(s) # {}
        <3>1. store' = <<>> /\ DOMAIN store' = {}
            BY <1>5, <2>2
        <3>2. \A i \in DOMAIN store : store[i].t = s
            BY <1>2, <2>2 DEF RowOf
        <3> QED BY <3>1, <3>2 DEF RowOf
    <2> QED BY <2>1, <2>2
<1>7. up[s] = Nothing /\ \A t \in Topologies : t # s => Described(t)
    BY <1>2, <1>3, <1>4 DEF PlaceInv, Between
<1>8. \A t \in Topologies : Described(t)'
    BY <1>0, <1>6, <1>7 DEF Described
<1>9. StoreInv'
    <2>1. CASE RowOf(s) = {}
        BY <1>2, <1>5, <2>1 DEF StoreInv
    <2>2. CASE RowOf(s) # {}
        <3>1. Len(store') = 0 /\ DOMAIN store' = {}
            BY <1>5, <2>2
        <3> QED BY <3>1 DEF StoreInv
    <2> QED BY <2>1, <2>2
<1>10. \A g \in Handlers : g # h => handler'[g] = Idle
    BY <1>0, <1>2 DEF Moves
<1>11. Busy(h)' => PlaceInv(h)'
    <2>1. CASE handler[h].op = "apply"
        <3>1. handler'[h].at = "materialise" /\ handler'[h] \in AHandler
            BY <1>0, <1>4, <2>1, GotoFacts DEF Places
        <3>2. handler'[h].op = "apply"
            BY <1>0, <2>1, <3>1, Records DEF Moves
        <3>3. DOMAIN store' = {}
            <4>1. \A i \in DOMAIN store : i \in RowOf(s)
                BY <1>2, <1>3, <1>4, <2>1 DEF PlaceInv, RowOf
            <4> QED BY <1>5, <4>1
        <3> QED BY <3>1, <3>2, <3>3 DEF PlaceInv
    <2>2. CASE handler[h].op = "teardown"
        <3>1. /\ h # "gone" => handler'[h].at = "answered" /\ handler'[h].sup = handler[h].sup
              /\ h = "gone" => handler'[h] = Idle
            BY <1>0, <1>4, <2>2, AnswerFacts
        <3>2. Busy(h)' => /\ handler'[h].op = "teardown" /\ handler'[h].at = "answered"
                          /\ handler'[h].t = handler[h].t /\ handler'[h].sup = handler[h].sup
            BY <1>0, <2>2, <3>1 DEF Moves, Busy
        <3>3. handler[h].sup = handler[h].t
            BY <1>2, <2>2 DEF PlaceInv
        <3> QED BY <3>2, <3>3 DEF PlaceInv
    <2> QED BY <1>2, <2>1, <2>2
<1> QED BY <1>0, <1>8, <1>9, <1>10, <1>11, CleanSolo

\* store.put; record_error is not reached.
LEMMA CleanPutRow ==
    ASSUME AgentInv, AgentInv', CleanInv, NEW h \in Handlers, PutRow(h) \/ RecordFailure(h)
    PROVE  CleanInv'
<1> SUFFICES ASSUME Clean' PROVE CleanInv'
    BY DEF CleanInv
<1>0. /\ TypeOK /\ TypeOK' /\ Busy(h) /\ Moves(h) /\ NoFault
      /\ UNCHANGED <<up, nets, file, overlap>>
    BY RowTypes DEF AgentInv, hostVars
<1>1. Clean
    BY <1>0 DEF Clean, NoFault
<1>2. /\ \A g \in Handlers : g # h => handler[g] = Idle
      /\ StoreInv /\ PlaceInv(h) /\ \A i \in DOMAIN store : i = 1
      /\ \A t \in Topologies : ~Between(h, t) => Described(t)
      /\ handler[h] \in AHandler /\ handler[h].t \in Topologies /\ handler[h].blob \in Blobs
    BY <1>0, <1>1, CleanBefore, Records, Fields
<1>3. PutRow(h) /\ handler[h].at = "put" /\ handler[h].op = "apply"
    BY <1>2 DEF PlaceInv, PutRow, RecordFailure, On
<1>4. PICK s \in Topologies : s = handler[h].t
    BY <1>2
<1>5. PICK b \in Blobs : b = handler[h].blob
    BY <1>2
<1>6. file[s] /\ up[s] = b.config /\ \A i \in DOMAIN store : store[i].t = s
    BY <1>2, <1>3, <1>4, <1>5 DEF PlaceInv
<1>7. Upsert(s, b) /\ Answer(h, TRUE)
    <2>1. Current \ {s} = {}
        BY <1>6 DEF Current
    <2> QED BY <1>3, <1>4, <1>5, <2>1 DEF PutRow
<1>8. DOMAIN store' = {1} /\ Len(store') = 1 /\ store'[1] = [t |-> s, hash |-> b, err |-> FALSE]
    BY <1>0, <1>2, <1>6, <1>7, UpsertFacts
<1>9. StoreInv'
    BY <1>8 DEF StoreInv
<1>10. \A t \in Topologies : Described(t)'
    <2>1. Described(s)'
        BY <1>0, <1>6, <1>8 DEF Described, RowOf
    <2>2. ASSUME NEW t \in Topologies, t # s PROVE Described(t)'
        <3>1. RowOf(t) = {} /\ RowOf(t)' = {}
            BY <1>6, <1>8, <2>2 DEF RowOf
        <3>2. Described(t)
            BY <1>2, <1>3, <1>4, <2>2 DEF Between
        <3> QED BY <1>0, <3>1, <3>2 DEF Described
    <2> QED BY <2>1, <2>2
<1>11. \A g \in Handlers : g # h => handler'[g] = Idle
    BY <1>0, <1>2 DEF Moves
<1>12. Busy(h)' => PlaceInv(h)'
    <2>1. /\ h # "gone" => handler'[h].at = "answered"
          /\ h = "gone" => handler'[h] = Idle
        BY <1>0, <1>7, AnswerFacts
    <2>2. Busy(h)' => handler'[h].op = "apply" /\ handler'[h].at = "answered"
        BY <1>0, <1>3, <2>1 DEF Moves, Busy
    <2> QED BY <2>2 DEF PlaceInv
<1> QED BY <1>0, <1>9, <1>10, <1>11, <1>12, CleanSolo

LEMMA CleanNext ==
    ASSUME AgentInv, CleanInv, [Next]_vars
    PROVE  CleanInv'
<1>0. AgentInv'
    BY AgentNext
<1>1. CASE UNCHANGED vars
    BY <1>1, CleanFrame DEF vars, hostVars, Clean
<1>2. ASSUME NEW t \in Topologies, ApiCall(t) \/ LiveCall(t) \/ ("loop" \in Calls /\ Resync(t))
      PROVE  CleanInv'
    <2>1. canonical_hash(t) \in Blobs /\ \A c \in Configs : [config |-> c, flag |-> resync[t]] \in Blobs
        BY DEF AgentInv, TypeOK, canonical_hash, Blobs
    <2>2. CASE ApiCall(t)
        BY <1>0, <2>1, <2>2, CleanBegin DEF ApiCall, ApiDeploy, ApiTeardown
    <2>3. CASE LiveCall(t)
        BY <1>0, <2>1, <2>3, CleanBegin DEF LiveCall, LiveChange
    <2>4. CASE "loop" \in Calls /\ Resync(t)
        <3>1. CASE status[t] = Absent
            BY <2>4, <3>1, CleanFrame DEF Resync, hostVars, NoFault, Clean
        <3>2. CASE status[t] # Absent
            BY <1>0, <2>1, <2>4, <3>2, CleanBegin DEF Resync
        <3> QED BY <3>1, <3>2
    <2> QED BY <1>2, <2>2, <2>3, <2>4
<1>3. ASSUME NEW c \in Calls, Answered(c) \/ TimesOut(c) PROVE CleanInv'
    BY <1>0, <1>3, CleanEnd
<1>4. ASSUME NEW h \in Handlers, HandlerStep(h) PROVE CleanInv'
    BY <1>0, <1>4, CleanArrive, CleanDismantle, CleanMaterialise, CleanClearRow, CleanPutRow
       DEF HandlerStep
<1>5. ASSUME \/ \E t \in Topologies : \/ ApiDelete(t) \/ Degrade(t)
                                      \/ \E c \in Configs : Edit(t, c)
             \/ SendBeat \/ ReceiveBeat \/ LoseBeat
             \/ "loop" \in Calls /\ ClearFlag
      PROVE  CleanInv'
    <2>1. UNCHANGED <<handler, store, up, nets, file, overlap, deadPush>> /\ (NetFault \/ NoFault)
        BY <1>5, MasterSteps
    <2>2. Clean' => Clean
        BY <2>1, Faults DEF Clean, AgentInv
    <2> QED BY <2>1, <2>2, CleanFrame
<1>6. CASE AgentDies
    <2>1. hostFaults' # 0
        BY <1>6, Faults DEF AgentDies, AgentInv
    <2> QED BY <2>1 DEF CleanInv, Clean
<1> QED BY <1>1, <1>2, <1>3, <1>4, <1>5, <1>6 DEF Next, LoopStep, BeatStep

\* What the agent's store and host are like while nothing overlaps and docker
\* works, whatever the network does.
THEOREM CleanInvariant == Spec => []CleanInv
BY AgentInit, CleanNext, AgentInvariant, PTL DEF Spec

\* The hash the agent reports describes what it runs (topology_ops.py, apply and
\* teardown; topology_store.py).
THEOREM RowsDescribeDockerTheorem == Spec => []RowsDescribeDocker
<1>1. AgentInv /\ CleanInv => RowsDescribeDocker
    <2> SUFFICES ASSUME AgentInv, CleanInv, Clean, NEW t \in Topologies, Quiet(t)
                 PROVE  IF RowOf(t) = {} THEN up[t] = Nothing
                        ELSE \A i \in RowOf(t) : ~store[i].err /\ up[t] = store[i].hash.config
        BY DEF RowsDescribeDocker
    <2>1. \A h \in Handlers : ~Between(h, t)
        BY DEF Quiet, Between, Idle
    <2>2. Described(t) /\ StoreInv
        BY <2>1 DEF CleanInv, BaseInv
    <2> QED BY <2>2 DEF Described, StoreInv, RowOf
<1> QED BY <1>1, AgentInvariant, CleanInvariant, PTL

-----------------------------------------------------------------------------
(* Teardown is final *)

\* The request of an apply is for a topology that is not torn down.
LEMMA AppliedIsNotTornDown ==
    ASSUME AgentInv, GoneInv, Clean, netFaults = 0, NEW h \in Handlers, Busy(h),
           handler[h].op = "apply", handler[h].t \notin deadPush
    PROVE  status[handler[h].t] # "torn_down"
<1>1. h \in Calls /\ call[h].at = "wait" /\ handler[h].t = call[h].t /\ call[h].op # "teardown"
    BY Records DEF GoneInv, AgentInv, CallInv
<1>2. CASE h = "api"
    BY <1>1, <1>2 DEF AgentInv, CallInv
<1>3. CASE h # "api"
    BY <1>1, <1>3 DEF GoneInv, LiveStatuses
<1> QED BY <1>2, <1>3

\* What a step of a request does to the containers, without faults.
LEMMA RequestDoes ==
    ASSUME AgentInv, CleanInv, Clean, NEW h \in Handlers, Busy(h), HandlerStep(h),
           ~HostFault, ~NetFault
    PROVE  /\ \A t \in Topologies : \/ up'[t] = up[t] \/ up'[t] = Nothing
                                    \/ handler[h].op = "apply" /\ handler[h].t = t
           /\ h # "gone" /\ handler'[h].op = "teardown" /\ handler'[h].at = "answered" =>
                 up'[handler'[h].t] = Nothing
<1>0. /\ TypeOK /\ Moves(h) /\ handler[h] \in AHandler /\ handler[h].sup \in Topologies
      /\ handler[h].t \in Topologies /\ handler[h].op \in {"apply", "teardown"}
    <2>1. TypeOK /\ handler[h] \in AHandler
        BY Records DEF AgentInv
    <2>2. Moves(h)
        BY ArriveTypes, DockerTypes, RowTypes DEF HandlerStep
    <2> QED BY <2>1, <2>2, Fields
<1>1. h # "gone" => handler'[h].op = handler[h].op /\ handler'[h].t = handler[h].t
    BY <1>0 DEF Moves
<1>2. PlaceInv(h)
    BY DEF CleanInv
<1>3. CASE ApplyArrives(h) \/ PutRow(h) \/ RecordFailure(h)
    <2>1. up' = up /\ handler[h].op = "apply"
        BY <1>3 DEF ApplyArrives, PutRow, RecordFailure, hostVars, On
    <2> QED BY <1>1, <2>1
<1>4. CASE TeardownArrives(h)
    <2>1. up' = up /\ Dismantle(h, handler[h].t, handler[h].t \in Current)
        BY <1>4 DEF TeardownArrives, hostVars
    <2>2. \E known \in BOOLEAN : Dismantle(h, handler[h].t, known)
        <3>1. (handler[h].t \in Current) = TRUE \/ (handler[h].t \in Current) = FALSE
            OBVIOUS
        <3> QED BY <2>1, <3>1
    <2>3. handler'[h].at = "dismantle"
        BY <1>0, <2>2, DismantleFacts
    <2> QED BY <2>1, <2>3
<1>5. CASE DismantleThread(h)
    <2>1. /\ up' = [up EXCEPT ![handler[h].sup] = IF file[handler[h].sup] THEN Nothing ELSE @]
          /\ Goto(h, "cleared")
        BY <1>5 DEF DismantleThread
    <2>2. handler'[h].at = "cleared"
        BY <1>0, <2>1, GotoFacts DEF Places
    <2>3. \A t \in Topologies : up'[t] \in {up[t], Nothing}
        BY <1>0, <2>1 DEF TypeOK
    <2> QED BY <2>2, <2>3
<1>6. CASE ClearRow(h)
    <2>1. up' = up /\ handler[h].at = "cleared"
        BY <1>6 DEF ClearRow, hostVars, On
    <2>2. handler[h].op = "teardown" => up[handler[h].t] = Nothing
        BY <1>2, <2>1 DEF PlaceInv
    <2> QED BY <1>1, <2>1, <2>2
<1>7. CASE Materialise(h)
    <2>1. /\ up' = [up EXCEPT ![handler[h].t] = handler[h].blob.config]
          /\ handler[h].op = "apply"
        BY <1>7 DEF Materialise, On
    <2>2. \A t \in Topologies : t # handler[h].t => up'[t] = up[t]
        BY <1>0, <2>1 DEF TypeOK
    <2> QED BY <1>1, <2>1, <2>2
<1> QED BY <1>3, <1>4, <1>5, <1>6, <1>7 DEF HandlerStep

LEMMA GoneHandler ==
    ASSUME AgentInv, CleanInv, GoneInv, NEW h \in Handlers, HandlerStep(h)
    PROVE  GoneInv'
<1> SUFFICES ASSUME Clean', netFaults' = 0 PROVE GoneInv'
    BY DEF GoneInv
<1>0. /\ TypeOK /\ Moves(h) /\ Busy(h) /\ (NetFault \/ HostFault \/ NoFault)
      /\ UNCHANGED <<status, call, overlap, deadPush>>
    BY ArriveTypes, DockerTypes, RowTypes DEF HandlerStep, AgentInv, masterVars
<1>1. Clean /\ netFaults = 0 /\ ~HostFault /\ ~NetFault
    BY <1>0, Faults DEF Clean
<1>2. /\ ~Busy("gone") /\ h # "gone"
      /\ \A c \in Calls \ {"api"} :
            call[c].at = "wait" /\ call[c].t \notin deadPush => status[call[c].t] \in LiveStatuses
      /\ \A t \in Topologies \ deadPush : status[t] = "torn_down" => up[t] = Nothing
    BY <1>0, <1>1 DEF GoneInv
<1>3. /\ \A t \in Topologies : \/ up'[t] = up[t] \/ up'[t] = Nothing
                               \/ handler[h].op = "apply" /\ handler[h].t = t
      /\ handler'[h].op = "teardown" /\ handler'[h].at = "answered" =>
            up'[handler'[h].t] = Nothing
    BY <1>0, <1>1, <1>2, RequestDoes
<1>4. \A g \in Handlers : g # h => handler'[g] = Idle
    BY <1>0, <1>1, CleanBefore DEF Moves
<1>5. ~Busy("gone")'
    BY <1>0, <1>2, <1>4, Records DEF Busy
<1>6. \A g \in Handlers : Busy(g)' /\ handler'[g].op = "teardown" /\ handler'[g].at = "answered" =>
          up'[handler'[g].t] = Nothing
    BY <1>3, <1>4 DEF Busy
<1>7. ASSUME NEW t \in Topologies \ deadPush, status[t] = "torn_down" PROVE up'[t] = Nothing
    BY <1>0, <1>1, <1>2, <1>3, <1>7, AppliedIsNotTornDown
<1> QED BY <1>0, <1>2, <1>5, <1>6, <1>7 DEF GoneInv

LEMMA GoneBegin ==
    ASSUME AgentInv, GoneInv, CleanInv, NEW c \in Calls,
           NEW op \in {"deploy", "teardown", "resync", "live"},
           NEW t \in Topologies, NEW blob \in Blobs, Begin(c, op, t, blob),
           c # "api" => status' = status,
           \A u \in Topologies : status'[u] = "torn_down" => status[u] = "torn_down"
    PROVE  GoneInv'
<1> SUFFICES ASSUME Clean', netFaults' = 0 PROVE GoneInv'
    BY DEF GoneInv
<1>0. /\ call[c] = NoCall /\ handler'[c] \in AHandler /\ handler'[c].at = "arrive"
      /\ call'[c].t = t /\ \A d \in Calls : d # c => call'[d] = call[d]
      /\ \A g \in Handlers : g # c => handler'[g] = handler[g]
      /\ overlap' <=> overlap \/ InProgress(c)
      /\ deadPush \subseteq deadPush'
      /\ c # "api" /\ status[t] \notin LiveStatuses => t \in deadPush'
      /\ UNCHANGED <<store, up, nets, file, beat, netFaults, hostFaults>>
    BY BeginFacts DEF AgentInv
<1>1. Clean /\ netFaults = 0 /\ ~InProgress(c)
    BY <1>0 DEF Clean
<1>2. "gone" # c /\ "gone" \in Handlers /\ c \in Handlers
    BY Records DEF AgentInv
<1>3. ~Busy("gone") /\ \A u \in Topologies \ deadPush : status[u] = "torn_down" => up[u] = Nothing
    BY <1>1 DEF GoneInv
<1>4. ~Busy("gone")'
    BY <1>0, <1>2, <1>3 DEF Busy
<1>5. \A d \in Calls : d # c => call'[d].at # "wait"
    BY <1>0, <1>1 DEF InProgress
<1>6. \A d \in Calls \ {"api"} :
          call'[d].at = "wait" /\ call'[d].t \notin deadPush' => status'[call'[d].t] \in LiveStatuses
    BY <1>0, <1>5
<1>7. \A g \in Handlers : g # c => handler'[g] = Idle
    BY <1>0, <1>1, Records DEF AgentInv, CallInv, Busy, InProgress
<1>8. \A g \in Handlers : Busy(g)' => handler'[g].at # "answered"
    BY <1>0, <1>7 DEF Busy
<1>9. \A u \in Topologies \ deadPush' : status'[u] = "torn_down" => up'[u] = Nothing
    BY <1>0, <1>3
<1> QED BY <1>4, <1>6, <1>8, <1>9 DEF GoneInv

LEMMA GoneEnd ==
    ASSUME AgentInv, CleanInv, GoneInv, NEW c \in Calls, Answered(c) \/ TimesOut(c)
    PROVE  GoneInv'
<1> SUFFICES ASSUME Clean', netFaults' = 0 PROVE GoneInv'
    BY DEF GoneInv
<1>0. /\ TypeOK /\ CallInv /\ c \in Handlers /\ c # "gone" /\ "gone" \in Handlers
    BY Records DEF AgentInv
<1>1. Answered(c)
    BY <1>0, Faults DEF TimesOut
<1>2. /\ call[c].at = "wait" /\ handler[c].at = "answered" /\ Settle(c, handler[c].ok)
      /\ handler' = [handler EXCEPT ![c] = Idle]
      /\ UNCHANGED <<up, overlap, deadPush, netFaults, hostFaults>>
    BY <1>1 DEF Answered, hostVars, NoFault
<1>3. Clean /\ netFaults = 0 /\ Busy(c)
    BY <1>0, <1>2 DEF Clean, CallInv
<1>5. \A g \in Handlers : handler'[g] = Idle
    <2>1. \A g \in Handlers : g # c => handler[g] = Idle
        BY <1>0, <1>3, CleanBefore
    <2> QED BY <1>0, <1>2, <2>1 DEF TypeOK
<1>6. /\ call[c].t \in Topologies /\ call[c] \in ACall /\ call'[c].at # "wait"
      /\ \A d \in Calls : d # c => call'[d] = call[d]
      /\ \A t \in Topologies : t # call[c].t => status'[t] = status[t]
      /\ c # "api" => status' = status
      /\ call[c].op = "deploy" => status'[call[c].t] \in {status[call[c].t], "active", "failed"}
    BY <1>0, <1>2, SettleFacts
<1>7. \A d \in Calls : call'[d].at # "wait"
    <2>1. \A d \in Calls : d # c => ~Busy(d)
        BY <1>0, <1>3, CleanBefore, Records DEF Busy
    <2> QED BY <1>0, <1>6, <2>1 DEF CallInv
<1>8. ASSUME NEW t \in Topologies \ deadPush, status'[t] = "torn_down" PROVE up[t] = Nothing
    <2>1. CASE status[t] = "torn_down"
        BY <1>3, <2>1 DEF GoneInv
    <2>2. CASE status[t] # "torn_down"
        <3>1. c = "api" /\ t = call[c].t
            BY <1>6, <1>8, <2>2
        <3>2. call[c].op = "teardown"
            BY <1>0, <1>2, <1>6, <1>8, <2>2, <3>1 DEF CallInv
        <3>3. handler[c].op = "teardown" /\ handler[c].t = t
            BY <1>0, <1>2, <3>1, <3>2 DEF CallInv
        <3> QED BY <1>0, <1>2, <1>3, <3>3 DEF GoneInv
    <2> QED BY <2>1, <2>2
<1> QED BY <1>0, <1>2, <1>5, <1>7, <1>8 DEF GoneInv, Busy

LEMMA GoneNext ==
    ASSUME AgentInv, CleanInv, GoneInv, [Next]_vars
    PROVE  GoneInv'
<1>0. TypeOK /\ status \in [Topologies -> ALL \cup {Absent}]
    BY DEF AgentInv, TypeOK
<1>1. CASE UNCHANGED vars
    BY <1>1 DEF vars, masterVars, hostVars, Clean, GoneInv, Busy
<1>2. ASSUME NEW t \in Topologies, ApiCall(t) \/ LiveCall(t) \/ ("loop" \in Calls /\ Resync(t))
      PROVE  GoneInv'
    <2>1. canonical_hash(t) \in Blobs /\ \A c \in Configs : [config |-> c, flag |-> resync[t]] \in Blobs
        BY DEF AgentInv, TypeOK, canonical_hash, Blobs
    <2>2. CASE ApiCall(t)
        <3>1. status' = [status EXCEPT ![t] = "deploying"] \/ status' = [status EXCEPT ![t] = "tearing_down"]
            BY <2>2 DEF ApiCall, ApiDeploy, ApiTeardown
        <3>2. \A u \in Topologies : status'[u] = "torn_down" => status[u] = "torn_down"
            BY <1>0, <3>1
        <3> QED BY <2>1, <2>2, <3>2, GoneBegin DEF ApiCall, ApiDeploy, ApiTeardown
    <2>3. CASE LiveCall(t)
        BY <2>1, <2>3, GoneBegin DEF LiveCall, LiveChange
    <2>4. CASE "loop" \in Calls /\ Resync(t)
        <3>1. status' = status
            BY <2>4 DEF Resync, masterVars
        <3>2. CASE status[t] = Absent
            <4>1. UNCHANGED <<call, handler, overlap, deadPush, up, netFaults, hostFaults, status>>
                BY <2>4, <3>1, <3>2 DEF Resync, hostVars, NoFault
            <4> QED BY <4>1 DEF GoneInv, Clean, Busy
        <3>3. CASE status[t] # Absent
            BY <2>1, <2>4, <3>1, <3>3, GoneBegin DEF Resync
        <3> QED BY <3>2, <3>3
    <2> QED BY <1>2, <2>2, <2>3, <2>4
<1>3. ASSUME NEW c \in Calls, Answered(c) \/ TimesOut(c) PROVE GoneInv'
    BY <1>3, GoneEnd
<1>4. ASSUME NEW h \in Handlers, HandlerStep(h) PROVE GoneInv'
    BY <1>4, GoneHandler
<1>5. ASSUME \/ \E t \in Topologies : \/ ApiDelete(t) \/ Degrade(t)
                                      \/ \E c \in Configs : Edit(t, c)
             \/ SendBeat \/ ReceiveBeat \/ LoseBeat
             \/ "loop" \in Calls /\ ClearFlag
      PROVE  GoneInv'
    <2>1. /\ \A c \in Calls : call'[c].at = "wait" => call'[c] = call[c]
          /\ \A t \in Topologies : \/ status'[t] = status[t]
                                   \/ status[t] \in Deletable /\ status'[t] = Absent
                                   \/ status[t] = "active" /\ status'[t] = "degraded"
          /\ UNCHANGED <<handler, store, up, nets, file, overlap, deadPush>>
          /\ NetFault \/ NoFault
        BY <1>5, MasterSteps
    <2> SUFFICES ASSUME Clean', netFaults' = 0 PROVE GoneInv'
        BY DEF GoneInv
    <2>2. Clean /\ netFaults = 0
        BY <1>0, <2>1, Faults DEF Clean
    <2>3. \A c \in Calls : call'[c].at = "wait" => call[c].t \in Topologies
        BY <1>0, <2>1, Records DEF ACall
    <2>4. \A c \in Calls \ {"api"} :
            call'[c].at = "wait" /\ call'[c].t \notin deadPush' => status'[call'[c].t] \in LiveStatuses
        BY <2>1, <2>2, <2>3 DEF GoneInv, LiveStatuses, Deletable
    <2>5. \A t \in Topologies \ deadPush' : status'[t] = "torn_down" => up'[t] = Nothing
        BY <2>1, <2>2 DEF GoneInv, Absent
    <2> QED BY <2>1, <2>2, <2>4, <2>5 DEF GoneInv, Busy
<1>6. CASE AgentDies
    <2>1. hostFaults' # 0
        BY <1>0, <1>6, Faults DEF AgentDies
    <2> QED BY <2>1 DEF GoneInv, Clean
<1> QED BY <1>1, <1>2, <1>3, <1>4, <1>5, <1>6 DEF Next, LoopStep, BeatStep

\* Torn-down topologies run nothing, and their requests are accounted for.
THEOREM GoneInvariant == Spec => []GoneInv
BY AgentInit, GoneNext, AgentInvariant, CleanInvariant, PTL DEF Spec

\* A teardown is final, unless the resync pass or a live change pushes the
\* topology again while it is not live (deployer.py, teardown of a pinned
\* topology; mutator/engine.py, resync_agent_topology).
THEOREM TornDownIsGoneTheorem == Spec => []TornDownIsGone
<1>1. GoneInv => TornDownIsGone
    BY DEF GoneInv, TornDownIsGone
<1> QED BY <1>1, GoneInvariant, PTL
=============================================================================
