----------------------------- MODULE ReceiveLoop -----------------------------
(****************************************************************************)
(* When received messages are processed, and when clients that quit are     *)
(* closed: Server::eventLoop with kqueue's level-triggered events.  A socket*)
(* that is ready stays ready until it is read, written or closed, so an     *)
(* event that is ignored comes again, and kevent() returns 0 only when no   *)
(* socket is ready.                                                         *)
(*                                                                          *)
(* Bytes are counted in recv() calls, received messages in blocks; messages *)
(* are shorter than a block, so an incomplete one lies in at most two.      *)
(****************************************************************************)
EXTENDS SequencesExt

CONSTANTS
  Client,                                     \* connected clients
  NUM_CLIENT_MSGBLOCK_RECV_IGNORE_THRESHOLD,  \* blocks at which READ is ignored
  pendingMsgWarningThreshold,                 \* queue length that forces processing
  KEVENT_OBSERVE_MAX,                         \* size of the array kevent() fills
  SENT_MAX,                                   \* bound on the recv() calls' worth of
                                              \* bytes all peers ever send
  PeersClose                                  \* whether peers may close

ASSUME ClientAssumption == IsFiniteSet(Client)
ASSUME LimitAssumption ==
  /\ NUM_CLIENT_MSGBLOCK_RECV_IGNORE_THRESHOLD \in Nat \ 0..2
  /\ pendingMsgWarningThreshold \in Nat
  /\ KEVENT_OBSERVE_MAX \in Nat \ {0}
  /\ SENT_MAX \in Nat
  /\ PeersClose \in BOOLEAN

VARIABLES
  sent,             \* recv() calls' worth of bytes all peers have sent
  unread,           \* [Client -> those its socket holds]
  eof,              \* clients whose peer has closed the connection
  RecvMsgBlocks,    \* [Client -> number of blocks]
  unscanned,        \* clients with bytes received since their last processing
  receivedClientMsgProcessQueue,
  bExpired, bSocketClosed,
  MsgSendingQueue,  \* clients with messages queued for them
  observedEvents,   \* events of the last kevent() still to handle
  phase             \* "kevent", "events" or "process"

peerVars   == <<sent, unread, eof>>
clientVars == <<RecvMsgBlocks, unscanned, bExpired, bSocketClosed, MsgSendingQueue>>
vars == <<peerVars, clientVars, receivedClientMsgProcessQueue, observedEvents, phase>>

Open == Client \ bSocketClosed

\* An event, with EV_EOF if the peer had closed when kevent() returned it.
Event(c, filter) == [client |-> c, filter |-> filter, eof |-> c \in eof]

Init ==
  /\ sent = 0 /\ unread = [c \in Client |-> 0] /\ eof = {}
  /\ RecvMsgBlocks = [c \in Client |-> 0] /\ unscanned = {}
  /\ receivedClientMsgProcessQueue = <<>>
  /\ bExpired = {} /\ bSocketClosed = {} /\ MsgSendingQueue = {}
  /\ observedEvents = {} /\ phase = "kevent"

-----------------------------------------------------------------------------
\* Peers send and close whenever they like.
PeerSends(c) ==
  /\ c \in Open \ eof /\ sent < SENT_MAX
  /\ sent' = sent + 1 /\ unread' = [unread EXCEPT ![c] = @ + 1]
  /\ UNCHANGED <<eof, clientVars, receivedClientMsgProcessQueue, observedEvents, phase>>

PeerCloses(c) ==
  /\ PeersClose /\ c \in Open \ eof
  /\ eof' = eof \union {c}
  /\ UNCHANGED <<sent, unread, clientVars, receivedClientMsgProcessQueue,
                 observedEvents, phase>>

-----------------------------------------------------------------------------
ReadyEvents ==
  {Event(c, "READ") : c \in {d \in Open : unread[d] > 0 \/ d \in eof}}
  \union {Event(c, "WRITE") : c \in Open \intersect MsgSendingQueue}

TooManyPending == Len(receivedClientMsgProcessQueue) > pendingMsgWarningThreshold

\* kevent() waits for an event if no messages are pending; it returns all ready events
\* that fit into the array.  The batch is dropped in favour of processing if too many
\* messages are pending.  (Mutants: it always waits for an event; processing is never
\* forced.)
MutantWaits ==
  /\ phase = "kevent"
  /\ ReadyEvents # {}
  /\ \E batch \in SUBSET ReadyEvents :
       /\ batch = ReadyEvents \/ Cardinality(batch) = KEVENT_OBSERVE_MAX
       /\ Cardinality(batch) <= KEVENT_OBSERVE_MAX
       /\ \/ /\ batch = {} \/ TooManyPending
             /\ phase' = "process" /\ UNCHANGED observedEvents
          \/ /\ batch # {} /\ ~TooManyPending
             /\ phase' = "events" /\ observedEvents' = batch
  /\ UNCHANGED <<peerVars, clientVars, receivedClientMsgProcessQueue>>

MutantNotForced ==
  /\ phase = "kevent"
  /\ receivedClientMsgProcessQueue = <<>> => ReadyEvents # {}
  /\ \E batch \in SUBSET ReadyEvents :
       /\ batch = ReadyEvents \/ Cardinality(batch) = KEVENT_OBSERVE_MAX
       /\ Cardinality(batch) <= KEVENT_OBSERVE_MAX
       /\ \/ /\ batch = {}
             /\ phase' = "process" /\ UNCHANGED observedEvents
          \/ /\ batch # {}
             /\ phase' = "events" /\ observedEvents' = batch
  /\ UNCHANGED <<peerVars, clientVars, receivedClientMsgProcessQueue>>

Kevent ==
  /\ phase = "kevent"
  /\ receivedClientMsgProcessQueue = <<>> => ReadyEvents # {}
  /\ \E batch \in SUBSET ReadyEvents :
       /\ batch = ReadyEvents \/ Cardinality(batch) = KEVENT_OBSERVE_MAX
       /\ Cardinality(batch) <= KEVENT_OBSERVE_MAX
       /\ \/ /\ batch = {} \/ TooManyPending
             /\ phase' = "process" /\ UNCHANGED observedEvents
          \/ /\ batch # {} /\ ~TooManyPending
             /\ phase' = "events" /\ observedEvents' = batch
  /\ UNCHANGED <<peerVars, clientVars, receivedClientMsgProcessQueue>>

BackToKevent ==
  /\ \/ phase = "events" /\ observedEvents = {}
     \/ phase = "process" /\ receivedClientMsgProcessQueue = <<>>
  /\ phase' = "kevent"
  /\ UNCHANGED <<peerVars, clientVars, receivedClientMsgProcessQueue, observedEvents>>

\* forceDisconnectClient: members of its channels are told, unless c was expired.
forceDisconnectClient(c, sending) ==
  /\ bExpired' = bExpired \union {c} /\ bSocketClosed' = bSocketClosed \union {c}
  /\ IF c \in bExpired THEN MsgSendingQueue' = sending
     ELSE \E told \in SUBSET (Open \ (bExpired \union {c})) :
            MsgSendingQueue' = sending \union told

Take(e, filter) ==
  /\ phase = "events" /\ e \in observedEvents /\ e.filter = filter
  /\ observedEvents' = observedEvents \ {e}
  /\ UNCHANGED phase

\* EV_EOF, on either filter, disconnects the client unless it is expired.
EofEvent(e) ==
  /\ Take(e, e.filter) /\ e.eof
  /\ \/ e.client \in Open \ bExpired /\ forceDisconnectClient(e.client, MsgSendingQueue)
     \/ e.client \in bExpired /\ UNCHANGED <<bExpired, bSocketClosed, MsgSendingQueue>>
  /\ UNCHANGED <<peerVars, RecvMsgBlocks, unscanned, receivedClientMsgProcessQueue>>

Receives(c, limit) == c \notin bExpired /\ RecvMsgBlocks[c] < limit

\* A READ event: ignored when the client is expired or has too many blocks; otherwise
\* one recv(), into the last block or into a new one.  (Mutants: the client is queued
\* for processing only with its first block; the limit is one off, up or down.)
MutantQueuesOnce(e) ==
  LET c == e.client IN
  /\ Take(e, "READ") /\ ~e.eof
  /\ Receives(c, NUM_CLIENT_MSGBLOCK_RECV_IGNORE_THRESHOLD)
  /\ RecvMsgBlocks' = [RecvMsgBlocks EXCEPT ![c] = @ + 1]
  /\ unread' = [unread EXCEPT ![c] = @ - 1]
  /\ unscanned' = unscanned \union {c}
  /\ receivedClientMsgProcessQueue' =
       receivedClientMsgProcessQueue \o (IF RecvMsgBlocks[c] = 0 THEN <<c>> ELSE <<>>)
  /\ UNCHANGED <<sent, eof, bExpired, bSocketClosed, MsgSendingQueue>>

ReadWithLimit(e, limit) ==
  LET c == e.client IN
  /\ Take(e, "READ") /\ ~e.eof
  /\ \/ /\ ~Receives(c, limit)
        /\ UNCHANGED <<unread, RecvMsgBlocks, unscanned, receivedClientMsgProcessQueue>>
     \/ /\ Receives(c, limit)
        /\ \E new \in IF RecvMsgBlocks[c] = 0 THEN {1} ELSE {0, 1} :
             RecvMsgBlocks' = [RecvMsgBlocks EXCEPT ![c] = @ + new]
        /\ unread' = [unread EXCEPT ![c] = @ - 1]
        /\ unscanned' = unscanned \union {c}
        /\ receivedClientMsgProcessQueue' = Append(receivedClientMsgProcessQueue, c)
  /\ UNCHANGED <<sent, eof, bExpired, bSocketClosed, MsgSendingQueue>>

MutantReadsMore(e) == ReadWithLimit(e, NUM_CLIENT_MSGBLOCK_RECV_IGNORE_THRESHOLD + 1)
MutantReadsLess(e) == ReadWithLimit(e, NUM_CLIENT_MSGBLOCK_RECV_IGNORE_THRESHOLD - 1)

ReadEvent(e) == ReadWithLimit(e, NUM_CLIENT_MSGBLOCK_RECV_IGNORE_THRESHOLD)

\* A WRITE event: send() fails because the peer closed after kevent() returned, ...
SendFails(e) ==
  /\ Take(e, "WRITE") /\ ~e.eof
  /\ e.client \in Open \intersect MsgSendingQueue \intersect eof
  /\ forceDisconnectClient(e.client, MsgSendingQueue)
  /\ UNCHANGED <<peerVars, RecvMsgBlocks, unscanned, receivedClientMsgProcessQueue>>

\* ... or takes a part of what is queued, or there is nothing to do, ...
SendSome(e) ==
  /\ Take(e, "WRITE") /\ ~e.eof
  /\ UNCHANGED <<peerVars, clientVars, receivedClientMsgProcessQueue>>

\* ... or it takes the rest, and an expired client is disconnected.  (Mutant: it is
\* not.)
MutantLeavesExpired(e) ==
  /\ Take(e, "WRITE") /\ ~e.eof
  /\ e.client \in Open \intersect MsgSendingQueue
  /\ MsgSendingQueue' = MsgSendingQueue \ {e.client}
  /\ UNCHANGED <<peerVars, RecvMsgBlocks, unscanned, bExpired, bSocketClosed,
                 receivedClientMsgProcessQueue>>

SendAll(e) ==
  /\ Take(e, "WRITE") /\ ~e.eof
  /\ e.client \in Open \intersect MsgSendingQueue
  /\ \/ /\ e.client \in bExpired
        /\ forceDisconnectClient(e.client, MsgSendingQueue \ {e.client})
     \/ /\ e.client \notin bExpired
        /\ MsgSendingQueue' = MsgSendingQueue \ {e.client}
        /\ UNCHANGED <<bExpired, bSocketClosed>>
  /\ UNCHANGED <<peerVars, RecvMsgBlocks, unscanned, receivedClientMsgProcessQueue>>

-----------------------------------------------------------------------------
\* The next entry of the queue, which may be a duplicate.  The messages of the client
\* make the server send to any clients, and may end with QUIT.
ProcessNext ==
  /\ phase = "process" /\ receivedClientMsgProcessQueue # <<>>
  /\ receivedClientMsgProcessQueue' = Tail(receivedClientMsgProcessQueue)
  /\ LET c == Head(receivedClientMsgProcessQueue) IN
     \/ c \notin unscanned \ bExpired /\ UNCHANGED clientVars
     \/ /\ c \in unscanned \ bExpired
        /\ unscanned' = unscanned \ {c}
        /\ \E kept \in {1, 2} :
             /\ kept <= RecvMsgBlocks[c]
             /\ RecvMsgBlocks' = [RecvMsgBlocks EXCEPT ![c] = kept]
        /\ \E told \in SUBSET (Open \ bExpired) :
             LET sending == MsgSendingQueue \union told IN
             \/ MsgSendingQueue' = sending /\ UNCHANGED <<bExpired, bSocketClosed>>
             \/ c \notin sending /\ forceDisconnectClient(c, sending)
             \/ /\ c \in sending
                /\ bExpired' = bExpired \union {c}
                /\ MsgSendingQueue' = sending /\ UNCHANGED bSocketClosed
  /\ UNCHANGED <<peerVars, observedEvents, phase>>

HandleEvent ==
  \E e \in observedEvents :
    EofEvent(e) \/ ReadEvent(e) \/ SendFails(e) \/ SendSome(e) \/ SendAll(e)

SendsAllTo(c) == \E e \in observedEvents : e.client = c /\ SendAll(e)

Next ==
  \/ \E c \in Client : PeerSends(c) \/ PeerCloses(c)
  \/ Kevent \/ BackToKevent \/ HandleEvent \/ ProcessNext

Spec == Init /\ [][Next]_vars

(****************************************************************************)
(* The thread runs: kevent() returns when an event is ready or messages are *)
(* pending, batches and the queue are finite, nothing blocks.  Peers that   *)
(* are sent something read it as long as they are there: send() takes the   *)
(* rest again and again.                                                    *)
(****************************************************************************)
Fairness ==
  /\ WF_vars(Kevent) /\ WF_vars(BackToKevent) /\ WF_vars(HandleEvent) /\ WF_vars(ProcessNext)
  /\ \A c \in Client : SF_vars(SendsAllTo(c))

FairSpec == Spec /\ Fairness

-----------------------------------------------------------------------------
(****************************************************************************)
(* Properties                                                               *)
(****************************************************************************)

\* Types and the limits of the state.
TypeOK ==
  /\ sent \in 0..SENT_MAX /\ unread \in [Client -> 0..SENT_MAX]
  /\ eof \subseteq Client
  /\ RecvMsgBlocks \in [Client -> 0..NUM_CLIENT_MSGBLOCK_RECV_IGNORE_THRESHOLD]
  /\ unscanned \subseteq Client
  /\ receivedClientMsgProcessQueue \in Seq(Client)
  /\ bExpired \subseteq Client /\ bSocketClosed \subseteq bExpired
  /\ MsgSendingQueue \subseteq Client
  /\ observedEvents \subseteq [client : Client, filter : {"READ", "WRITE"}, eof : BOOLEAN]
  /\ phase \in {"kevent", "events", "process"}

\* No lost wake-up: bytes that were received and never looked at have an entry of the
\* queue, whatever was handled, ignored, closed or processed in between.
UnscannedIsQueued ==
  unscanned \ bExpired \subseteq ToSet(receivedClientMsgProcessQueue)

\* The queue is bounded although it takes duplicates: kevent() reports a filter once, so
\* a batch adds each client once, and none is handled above the threshold.
QueueBounded ==
  Len(receivedClientMsgProcessQueue) <= pendingMsgWarningThreshold + Cardinality(Client)

\* An expired client that is still open has messages to send: nothing else would ever
\* lead to its close.
ExpiredHasReason == (bExpired \intersect Open) \subseteq MsgSendingQueue

\* kevent() returns events in every iteration although nothing gets done: READ of a
\* client with too many blocks, or EOF of an expired client, comes again and again.
Starved ==
  \E c \in Open :
    \/ unread[c] > 0 /\ RecvMsgBlocks[c] = NUM_CLIENT_MSGBLOCK_RECV_IGNORE_THRESHOLD
    \/ c \in eof \intersect bExpired

\* Queued messages are processed at last, unless the loop is starved in one of the two
\* ways.
PendingProcessed == receivedClientMsgProcessQueue # <<>> ~> phase = "process" \/ Starved

\* "... then close the socket after remaining messages are sent" (Server.hpp:210): a
\* client that quit is closed at last, if its peer stays to read them.
ExpiredIsClosed == \A c \in Client : c \in bExpired ~> c \in bSocketClosed \union eof

\* What a peer sent is read, unless the client quits before or the loop is starved.
InputIsRead == \A c \in Client : unread[c] > 0 ~> unread[c] = 0 \/ c \in bExpired \/ Starved

\* "Process the received messages from the clients when there is no observed event.
\* However, if there are more messages pending than it can handle, it will
\* exceptionally prioritize processing" (Server.cpp:155): one way or the other, messages
\* that are queued are processed.
AlwaysProcessed == receivedClientMsgProcessQueue # <<>> ~> phase = "process"

=============================================================================
