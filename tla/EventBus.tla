------------------------------- MODULE EventBus -------------------------------
(***************************************************************************)
(* The host-local event bus: a client with its reader task, subscriptions  *)
(* and close (decnet/bus/unix_client.py), and its connection on the server *)
(* (decnet/bus/unix_server.py).  Publishers are other connections.         *)
(*                                                                         *)
(* All subscriptions have the same pattern, which every event matches:     *)
(* others do not interact except through UNSUB, which needs equal patterns.*)
(* Events are numbered.  Frames are written in the order in which tasks    *)
(* come to the write lock, so a frame is in the channel from then on.      *)
(***************************************************************************)
EXTENDS Naturals, Sequences

CONSTANTS Subs,         \* subscriptions the client's tasks open, each once
          OutSize,      \* _OUTBOUND_QUEUE_SIZE
          InSize,       \* _INBOUND_QUEUE_SIZE
          SocketSize,   \* frames the socket holds before drain() waits
          MaxEvents     \* bound: events published

VARIABLES
    sub,          \* none, open (iterating), ended (StopAsyncIteration), closed
    starting,     \* SUB tasks scheduled by subscribe() that have not run
    toServer,     \* frames on their way to the server
    registered,   \* the server's connection holds the pattern
    outbound,     \* its queue
    toClient,     \* EVT frames in the socket
    inbound,      \* the queue of each subscription
    link,         \* up, or eof: the server's side is closed
    client,       \* open, closing (reader not stopped yet), cancelled, closed
    reader,       \* run or done
    published,    \* events so far
    got,          \* the last event each open subscription's consumer received
    owed,         \* history: the last event published to each open subscription
    unwoken       \* history: subscriptions that got no sentinel, or opened too late

clientVars == <<sub, starting, inbound, client, reader, got, unwoken>>
serverVars == <<registered, outbound>>
vars == <<clientVars, serverVars, toServer, toClient, link, published, owed>>

Close == 0              \* _CLOSE_SENTINEL
Local == {s \in Subs : sub[s] \in {"open", "ended"}}     \* _subs

Init ==
    /\ sub = [s \in Subs |-> "none"]
    /\ starting = 0
    /\ toServer = <<>> /\ toClient = <<>>
    /\ registered = FALSE /\ outbound = <<>>
    /\ inbound = [s \in Subs |-> <<>>]
    /\ link = "up" /\ client = "open" /\ reader = "run"
    /\ published = 0
    /\ got = [s \in Subs |-> 0]
    /\ owed = [s \in Subs |-> 0]
    /\ unwoken = {}

\* Faulty variant: a full queue refuses the new item.
Enqueue_DropNewest(q, item, size) == IF Len(q) < size THEN Append(q, item) ELSE q

\* _enqueue_drop_oldest.
Enqueue(q, item, size) == Append(IF Len(q) < size THEN q ELSE Tail(q), item)

\* Faulty variant: only the first subscription is woken.
Wake_First ==
    LET first == CHOOSE s \in Local : TRUE IN
    /\ inbound' = [s \in Subs |-> IF Local # {} /\ s = first /\ Len(inbound[s]) < InSize
                                  THEN Append(inbound[s], Close) ELSE inbound[s]]
    /\ UNCHANGED unwoken

\* put_nowait of the sentinel on every subscription, QueueFull suppressed.
Wake ==
    /\ inbound' = [s \in Subs |-> IF s \in Local /\ Len(inbound[s]) < InSize
                                  THEN Append(inbound[s], Close) ELSE inbound[s]]
    /\ unwoken' = unwoken \cup {s \in Local : Len(inbound[s]) >= InSize}

-----------------------------------------------------------------------------
(* The client *)

\* The connection ends: the server forgets it with its pattern and its queue;
\* what the socket holds can still be read.
Disconnect ==
    /\ link' = "eof"
    /\ toServer' = <<>>
    /\ registered' = FALSE /\ outbound' = <<>>

\* subscribe(): registered locally, the SUB frame left to a task.
Subscribe(s) ==
    /\ client = "open"
    /\ sub[s] = "none"
    /\ sub' = [sub EXCEPT ![s] = "open"]
    /\ starting' = starting + 1
    /\ unwoken' = IF reader = "done" THEN unwoken \cup {s} ELSE unwoken
    /\ UNCHANGED <<inbound, client, reader, got, serverVars, toServer, toClient, link,
                   published, owed>>

\* _send_sub; on a dead connection the failure is logged.
SendSub ==
    /\ starting > 0
    /\ starting' = starting - 1
    /\ toServer' = IF client \in {"open", "closing", "cancelled"} /\ link = "up"
                   THEN Append(toServer, "SUB") ELSE toServer
    /\ UNCHANGED <<sub, inbound, client, reader, got, unwoken, serverVars, toClient, link,
                   published, owed>>

\* __anext__.
Consume(s) ==
    /\ sub[s] = "open"
    /\ inbound[s] # <<>>
    /\ inbound' = [inbound EXCEPT ![s] = Tail(@)]
    /\ IF Head(inbound[s]) = Close
       THEN sub' = [sub EXCEPT ![s] = "ended"] /\ UNCHANGED got
       ELSE got' = [got EXCEPT ![s] = Head(inbound[s])] /\ UNCHANGED sub
    /\ UNCHANGED <<starting, client, reader, unwoken, serverVars, toServer, toClient, link,
                   published, owed>>

\* Faulty variant: UNSUB although another subscription has the pattern.
Unsubscribe_Always(s) ==
    /\ sub[s] \in {"open", "ended"}
    /\ sub' = [sub EXCEPT ![s] = "closed"]
    /\ inbound' = [inbound EXCEPT ![s] = <<>>]
    /\ got' = [got EXCEPT ![s] = 0] /\ owed' = [owed EXCEPT ![s] = 0]
    /\ toServer' = IF client # "closed" /\ link = "up"
                   THEN Append(toServer, "UNSUB") ELSE toServer
    /\ UNCHANGED <<starting, client, reader, unwoken, serverVars, toClient, link, published>>

\* aclose(): the consumer leaves its loop; UNSUB if no other one is left.
Unsubscribe(s) ==
    /\ sub[s] \in {"open", "ended"}
    /\ sub' = [sub EXCEPT ![s] = "closed"]
    /\ inbound' = [inbound EXCEPT ![s] = <<>>]
    /\ got' = [got EXCEPT ![s] = 0] /\ owed' = [owed EXCEPT ![s] = 0]
    /\ toServer' = IF client # "closed" /\ link = "up" /\ Local = {s}
                   THEN Append(toServer, "UNSUB") ELSE toServer
    /\ UNCHANGED <<starting, client, reader, unwoken, serverVars, toClient, link, published>>

\* _reader_loop and _dispatch.
ReadEvent ==
    /\ reader = "run"
    /\ toClient # <<>>
    /\ toClient' = Tail(toClient)
    /\ inbound' = [s \in Subs |-> IF s \in Local THEN Enqueue(inbound[s], Head(toClient), InSize)
                                  ELSE inbound[s]]
    /\ UNCHANGED <<sub, starting, client, reader, got, unwoken, serverVars, toServer, link,
                   published, owed>>

\* The end of the stream.
ReaderEnds ==
    /\ reader = "run"
    /\ toClient = <<>> /\ link = "eof"
    /\ reader' = "done"
    /\ Wake
    /\ UNCHANGED <<sub, starting, client, got, serverVars, toServer, toClient, link,
                   published, owed>>

\* close(): BYE,
CloseBus ==
    /\ client = "open"
    /\ client' = "closing"
    /\ toServer' = IF link = "up" THEN Append(toServer, "BYE") ELSE toServer
    /\ UNCHANGED <<sub, starting, inbound, reader, got, unwoken, serverVars, toClient, link,
                   published, owed>>

\* the reader is cancelled, whose finally wakes the subscriptions,
CancelReader ==
    /\ client = "closing"
    /\ client' = "cancelled"
    /\ reader' = "done"
    /\ IF reader = "run" THEN Wake ELSE UNCHANGED <<inbound, unwoken>>
    /\ UNCHANGED <<sub, starting, got, serverVars, toServer, toClient, link, published, owed>>

\* the writer is closed, and all are woken once more.
ClearSubs ==
    /\ client = "cancelled"
    /\ client' = "closed"
    /\ Disconnect
    /\ Wake
    /\ UNCHANGED <<sub, starting, reader, got, toClient, published, owed>>

-----------------------------------------------------------------------------
(* The server *)

ServerReads ==
    /\ link = "up"
    /\ toServer # <<>>
    /\ \/ Head(toServer) = "BYE" /\ Disconnect
       \/ /\ Head(toServer) # "BYE"
          /\ toServer' = Tail(toServer)
          /\ registered' = (Head(toServer) = "SUB")
          /\ UNCHANGED <<outbound, link>>
    /\ UNCHANGED <<clientVars, toClient, published, owed>>

\* _fanout of another connection's event, or of the server's own heartbeat, to
\* a connection that holds the pattern; others are passed over.
Publish ==
    /\ published < MaxEvents
    /\ registered /\ link = "up"
    /\ published' = published + 1
    /\ outbound' = Enqueue(outbound, published', OutSize)
    /\ owed' = [s \in Subs |-> IF sub[s] = "open" THEN published' ELSE owed[s]]
    /\ UNCHANGED <<clientVars, registered, toServer, toClient, link>>

\* _writer_loop.
WriteEvent ==
    /\ link = "up"
    /\ outbound # <<>>
    /\ Len(toClient) < SocketSize
    /\ toClient' = Append(toClient, Head(outbound))
    /\ outbound' = Tail(outbound)
    /\ UNCHANGED <<clientVars, registered, toServer, link, published, owed>>

\* The server stops or dies.
ServerGone ==
    /\ link = "up"
    /\ Disconnect
    /\ UNCHANGED <<clientVars, toClient, published, owed>>

-----------------------------------------------------------------------------
Reader == ReadEvent \/ ReaderEnds
Closer == CancelReader \/ ClearSubs

Next ==
    \/ \E s \in Subs : Subscribe(s) \/ Consume(s) \/ Unsubscribe(s)
    \/ SendSub \/ Reader \/ CloseBus \/ Closer
    \/ ServerReads \/ WriteEvent \/ Publish \/ ServerGone

\* Tasks that can run, run, and a consumer comes back for its next event.
Fairness ==
    /\ WF_vars(SendSub) /\ WF_vars(Reader) /\ WF_vars(Closer)
    /\ WF_vars(ServerReads) /\ WF_vars(WriteEvent)
    /\ \A s \in Subs : WF_vars(Consume(s))

Spec == Init /\ [][Next]_vars /\ Fairness

-----------------------------------------------------------------------------
(* Properties *)

\* Type correctness of the queues, the channels and the subscriptions.
TypeOK ==
    /\ sub \in [Subs -> {"none", "open", "ended", "closed"}]
    /\ starting \in Nat /\ registered \in BOOLEAN
    /\ outbound \in Seq(1..MaxEvents) /\ Len(outbound) <= OutSize
    /\ toClient \in Seq(1..MaxEvents) /\ Len(toClient) <= SocketSize
    /\ toServer \in Seq({"SUB", "UNSUB", "BYE"})
    /\ inbound \in [Subs -> Seq(0..MaxEvents)] /\ \A s \in Subs : Len(inbound[s]) <= InSize
    /\ link \in {"up", "eof"} /\ client \in {"open", "closing", "cancelled", "closed"}
    /\ reader \in {"run", "done"} /\ published \in 0..MaxEvents
    /\ got \in [Subs -> 0..MaxEvents] /\ owed \in [Subs -> 0..MaxEvents]
    /\ unwoken \subseteq Subs

\* An open subscription stays subscribed: once the frames sent so far are
\* handled, the server has the pattern, whichever other subscription of the
\* same pattern was closed meanwhile.
StaysSubscribed ==
    link = "up" /\ starting = 0 /\ toServer = <<>> /\ Local # {} => registered

\* Queues drop the oldest event, never the newest: a consumer, however
\* slow it is, comes to the last event published to its subscription again and
\* again, unless the connection or the subscription ends.
LatestArrives ==
    \A s \in Subs :
        []<>(got[s] >= owed[s] \/ sub[s] # "open" \/ link # "up" \/ client # "open")

\* Consumers do not hang on a dead bus: when the reader has ended, every
\* consumer's iterator ends, except those whose queue was full when the
\* sentinels were put, and those that subscribed afterwards.
Woken ==
    (reader = "done") ~> \A s \in Subs : sub[s] # "open" \/ s \in unwoken
=============================================================================
