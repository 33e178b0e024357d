--------------------------- MODULE ReceiveLoopProofs ---------------------------
(***************************************************************************)
(* Proofs about ReceiveLoop: type correctness, no lost wake-up, the bound of *)
(* the processing queue, and that expired clients have messages to send.     *)
(*                                                                          *)
(* The bound of the queue rests on the batch: what is queued and what the    *)
(* READ events of the batch may still add are within it together, since a    *)
(* batch has at most one READ event for each client.                         *)
(***************************************************************************)
EXTENDS ReceiveLoop, FiniteSetTheorems, TLAPS

\* Clients with a READ event still to handle.
ReadClients == {c \in Client : \E e \in observedEvents : e.client = c /\ e.filter = "READ"}

UnreadIsSent == \A c \in Client : unread[c] <= sent

EventsAreUnique ==
  \A e, f \in observedEvents : e.client = f.client /\ e.filter = f.filter => e = f

ReadsHaveBytes ==
  \A e \in observedEvents : e.filter = "READ" /\ ~e.eof => unread[e.client] > 0

EventsInBatch == phase # "events" => observedEvents = {}

RoomForBatch ==
  Len(receivedClientMsgProcessQueue) + Cardinality(ReadClients)
    <= pendingMsgWarningThreshold + Cardinality(Client)

LoopInv ==
  /\ TypeOK /\ UnreadIsSent
  /\ EventsAreUnique /\ ReadsHaveBytes /\ EventsInBatch
  /\ UnscannedIsQueued /\ ExpiredHasReason /\ RoomForBatch

-----------------------------------------------------------------------------
\* A client is in the queue after it was appended, and so are all others.
LEMMA AppendToSet ==
  ASSUME NEW s \in Seq(Client), NEW c \in Client
  PROVE  /\ Append(s, c) \in Seq(Client) /\ Len(Append(s, c)) = Len(s) + 1
         /\ ToSet(Append(s, c)) = ToSet(s) \union {c}
<1>1. Append(s, c) \in Seq(Client)
  OBVIOUS
<1>2. \A i \in DOMAIN s : Append(s, c)[i] = s[i]
  OBVIOUS
<1>3. Len(Append(s, c)) = Len(s) + 1 /\ Append(s, c)[Len(s) + 1] = c
  OBVIOUS
<1> QED
  BY <1>1, <1>2, <1>3 DEF ToSet

\* Taking the first entry removes no other client from the queue.
LEMMA TailToSet ==
  ASSUME NEW s \in Seq(Client), s # <<>>
  PROVE  /\ Tail(s) \in Seq(Client) /\ Head(s) \in Client
         /\ Len(Tail(s)) = Len(s) - 1
         /\ ToSet(s) \ {Head(s)} \subseteq ToSet(Tail(s))
<1>1. Tail(s) \in Seq(Client) /\ Head(s) \in Client /\ Len(Tail(s)) = Len(s) - 1
  OBVIOUS
<1>2. ASSUME NEW i \in DOMAIN s, s[i] # Head(s)
      PROVE  i - 1 \in DOMAIN Tail(s) /\ Tail(s)[i - 1] = s[i]
  <2>1. i \in 2..Len(s)
    BY <1>2
  <2>2. i - 1 \in 1..Len(Tail(s))
    BY <1>1, <2>1
  <2> QED
    BY <2>1, <2>2
<1>3. ASSUME NEW x \in ToSet(s), x # Head(s)
      PROVE  x \in ToSet(Tail(s))
  <2>1. PICK i \in DOMAIN s : s[i] = x
    BY DEF ToSet
  <2>2. i - 1 \in DOMAIN Tail(s) /\ Tail(s)[i - 1] = x
    BY <1>2, <1>3, <2>1
  <2> QED
    BY <2>2 DEF ToSet
<1>4. ToSet(s) \ {Head(s)} \subseteq ToSet(Tail(s))
  BY <1>3, Zenon
<1> QED
  BY <1>1, <1>4, Zenon

-----------------------------------------------------------------------------
\* What the steps of the loop preserve of the types: no counter leaves its range.
LEMMA TypeStep ==
  ASSUME LoopInv, [Next]_vars
  PROVE  TypeOK' /\ UnreadIsSent'
<1> USE LimitAssumption DEF LoopInv, TypeOK, UnreadIsSent, peerVars, clientVars, Open
<1>1. ASSUME NEW c \in Client, PeerSends(c) PROVE TypeOK' /\ UnreadIsSent'
  <2>1. /\ sent < SENT_MAX /\ sent' = sent + 1
        /\ unread' = [unread EXCEPT ![c] = @ + 1]
        /\ UNCHANGED <<eof, RecvMsgBlocks, unscanned, receivedClientMsgProcessQueue, bExpired,
                       bSocketClosed, MsgSendingQueue, observedEvents, phase>>
    BY <1>1 DEF PeerSends
  <2>2. sent' \in 0..SENT_MAX
    BY <2>1
  <2>3. \A b \in Client : unread'[b] \in 0..SENT_MAX /\ unread'[b] <= sent'
    BY <2>1
  <2>4. unread' \in [Client -> 0..SENT_MAX] /\ UnreadIsSent'
    BY <2>1, <2>3
  <2> QED
    BY <2>1, <2>2, <2>4
<1>2. ASSUME NEW c \in Client, PeerCloses(c) PROVE TypeOK' /\ UnreadIsSent'
  BY <1>2 DEF PeerCloses
<1>3. CASE Kevent
  <2>1. ReadyEvents \subseteq [client : Client, filter : {"READ", "WRITE"}, eof : BOOLEAN]
    <3>1. \A c \in Client, f \in {"READ", "WRITE"} :
            Event(c, f) \in [client : Client, filter : {"READ", "WRITE"}, eof : BOOLEAN]
      BY DEF Event
    <3> QED
      BY <3>1 DEF ReadyEvents
  <2> QED
    BY <1>3, <2>1 DEF Kevent
<1>4. CASE BackToKevent
  BY <1>4 DEF BackToKevent
<1>5. ASSUME NEW e \in observedEvents, EofEvent(e) PROVE TypeOK' /\ UnreadIsSent'
  BY <1>5 DEF EofEvent, Take, forceDisconnectClient
<1>6. ASSUME NEW e \in observedEvents, ReadEvent(e) PROVE TypeOK' /\ UnreadIsSent'
  <2>1. e.client \in Client /\ unread[e.client] > 0
    BY <1>6 DEF ReadEvent, ReadWithLimit, Take, ReadsHaveBytes
  <2>2. CASE ~Receives(e.client, NUM_CLIENT_MSGBLOCK_RECV_IGNORE_THRESHOLD)
    BY <1>6, <2>2 DEF ReadEvent, ReadWithLimit, Take
  <2>3. CASE Receives(e.client, NUM_CLIENT_MSGBLOCK_RECV_IGNORE_THRESHOLD)
    <3>1. /\ RecvMsgBlocks[e.client] < NUM_CLIENT_MSGBLOCK_RECV_IGNORE_THRESHOLD
          /\ \E new \in {0, 1} :
               RecvMsgBlocks' = [RecvMsgBlocks EXCEPT ![e.client] = @ + new]
          /\ unread' = [unread EXCEPT ![e.client] = @ - 1]
          /\ unscanned' = unscanned \union {e.client}
          /\ receivedClientMsgProcessQueue' = Append(receivedClientMsgProcessQueue, e.client)
          /\ observedEvents' \subseteq observedEvents
          /\ UNCHANGED <<sent, eof, bExpired, bSocketClosed, MsgSendingQueue, phase>>
      BY <1>6, <2>3 DEF ReadEvent, ReadWithLimit, Receives, Take
    <3>2. receivedClientMsgProcessQueue' \in Seq(Client)
      BY <2>1, <3>1, AppendToSet
    <3>3. RecvMsgBlocks' \in [Client -> 0..NUM_CLIENT_MSGBLOCK_RECV_IGNORE_THRESHOLD]
      BY <2>1, <3>1
    <3>4. unread' \in [Client -> 0..SENT_MAX] /\ UnreadIsSent'
      BY <2>1, <3>1
    <3> QED
      BY <2>1, <3>1, <3>2, <3>3, <3>4
  <2> QED
    BY <2>2, <2>3
<1>7. ASSUME NEW e \in observedEvents, SendFails(e) PROVE TypeOK' /\ UnreadIsSent'
  BY <1>7 DEF SendFails, Take, forceDisconnectClient
<1>8. ASSUME NEW e \in observedEvents, SendSome(e) PROVE TypeOK' /\ UnreadIsSent'
  BY <1>8 DEF SendSome, Take
<1>9. ASSUME NEW e \in observedEvents, SendAll(e) PROVE TypeOK' /\ UnreadIsSent'
  BY <1>9 DEF SendAll, Take, forceDisconnectClient
<1>10. CASE ProcessNext
  <2> DEFINE c == Head(receivedClientMsgProcessQueue)
  <2>1. c \in Client /\ Tail(receivedClientMsgProcessQueue) \in Seq(Client)
    BY <1>10, TailToSet DEF ProcessNext
  <2>2. RecvMsgBlocks' \in [Client -> 0..NUM_CLIENT_MSGBLOCK_RECV_IGNORE_THRESHOLD]
    <3>1. \/ RecvMsgBlocks' = RecvMsgBlocks
          \/ \E kept \in {1, 2} : /\ kept <= RecvMsgBlocks[c]
                                  /\ RecvMsgBlocks' = [RecvMsgBlocks EXCEPT ![c] = kept]
      BY <1>10 DEF ProcessNext
    <3> QED
      BY <2>1, <3>1
  <2>3. /\ unscanned' \subseteq Client /\ MsgSendingQueue' \subseteq Client
        /\ bExpired' \subseteq Client /\ bSocketClosed' \subseteq bExpired'
    BY <1>10, <2>1 DEF ProcessNext, forceDisconnectClient
  <2>4. /\ receivedClientMsgProcessQueue' = Tail(receivedClientMsgProcessQueue)
        /\ UNCHANGED <<sent, unread, eof, observedEvents, phase>>
    BY <1>10 DEF ProcessNext
  <2> QED
    BY <2>1, <2>2, <2>3, <2>4
<1>11. CASE UNCHANGED vars
  BY <1>11 DEF vars
<1> QED
  BY <1>1, <1>2, <1>3, <1>4, <1>5, <1>6, <1>7, <1>8, <1>9, <1>10, <1>11
  DEF Next, HandleEvent

-----------------------------------------------------------------------------
\* What the steps preserve of the batch: one event for each filter, READ events only
\* for sockets with bytes, and room in the queue for all of them.
LEMMA BatchStep ==
  ASSUME LoopInv, [Next]_vars
  PROVE  EventsAreUnique' /\ ReadsHaveBytes' /\ EventsInBatch' /\ RoomForBatch'
<1> DEFINE Q == receivedClientMsgProcessQueue
           Goal == EventsAreUnique' /\ ReadsHaveBytes' /\ EventsInBatch' /\ RoomForBatch'
<1>a. /\ IsFiniteSet(ReadClients) /\ IsFiniteSet(ReadClients')
      /\ Cardinality(ReadClients) \in Nat /\ Cardinality(ReadClients') \in Nat
      /\ Cardinality(Client) \in Nat /\ Cardinality(ReadClients') <= Cardinality(Client)
  BY ClientAssumption, FS_Subset, FS_CardinalityType DEF ReadClients
<1>b. Q \in Seq(Client) /\ Len(Q) \in Nat /\ pendingMsgWarningThreshold \in Nat
  BY LimitAssumption DEF LoopInv, TypeOK
\* A step that takes an event of the batch, or none, and leaves queue and sockets alone.
<1>c. ASSUME observedEvents' \subseteq observedEvents, UNCHANGED <<unread, Q>>,
             UNCHANGED phase \/ observedEvents' = {}
      PROVE  Goal
  <2>1. ReadClients' \subseteq ReadClients
    BY <1>c DEF ReadClients
  <2>2. Cardinality(ReadClients') <= Cardinality(ReadClients)
    BY <1>a, <2>1, FS_Subset
  <2> QED
    BY <1>a, <1>b, <1>c, <2>2
    DEF LoopInv, EventsAreUnique, ReadsHaveBytes, EventsInBatch, RoomForBatch
<1>1. ASSUME NEW c \in Client, PeerSends(c) PROVE Goal
  <2>1. UNCHANGED <<observedEvents, Q, phase, ReadClients>>
    BY <1>1 DEF PeerSends, ReadClients
  <2>2. \A d \in Client : unread'[d] >= unread[d]
    BY <1>1 DEF PeerSends, LoopInv, TypeOK
  <2>3. \A e \in observedEvents : e.client \in Client
    BY DEF LoopInv, TypeOK
  <2>4. ReadsHaveBytes'
    BY <1>1, <2>1, <2>3 DEF PeerSends, LoopInv, TypeOK, ReadsHaveBytes
  <2> QED
    BY <2>1, <2>4 DEF LoopInv, EventsAreUnique, EventsInBatch, RoomForBatch
<1>2. ASSUME NEW c \in Client, PeerCloses(c) PROVE Goal
  BY <1>2, <1>c DEF PeerCloses
<1>3. CASE Kevent
  <2>1. CASE phase' = "process" /\ UNCHANGED observedEvents
    BY <1>3, <1>c, <2>1 DEF Kevent, peerVars, LoopInv, EventsInBatch
  <2>2. CASE ~TooManyPending /\ phase' = "events" /\ observedEvents' \subseteq ReadyEvents
    <3>1. EventsAreUnique'
      BY <2>2 DEF EventsAreUnique, ReadyEvents, Event
    <3>2. ReadsHaveBytes'
      <4> SUFFICES ASSUME NEW e \in observedEvents', e.filter = "READ", ~e.eof
                   PROVE  unread'[e.client] > 0
        BY DEF ReadsHaveBytes
      <4>1. PICK c \in Open : e = Event(c, "READ") /\ (unread[c] > 0 \/ c \in eof)
        BY <2>2 DEF ReadyEvents, Event
      <4>2. e.client = c /\ c \notin eof
        BY <4>1 DEF Event
      <4> QED
        BY <1>3, <4>1, <4>2 DEF Kevent, peerVars
    <3>3. RoomForBatch'
      BY <1>3, <2>2, <1>a, <1>b DEF Kevent, RoomForBatch, TooManyPending
    <3> QED
      BY <2>2, <3>1, <3>2, <3>3 DEF EventsInBatch
  <2> QED
    BY <1>3, <2>1, <2>2 DEF Kevent
<1>4. CASE BackToKevent
  BY <1>4, <1>c DEF BackToKevent, peerVars, LoopInv, EventsInBatch
<1>5. ASSUME NEW e \in observedEvents, EofEvent(e) PROVE Goal
  BY <1>5, <1>c DEF EofEvent, Take, peerVars
<1>6. ASSUME NEW e \in observedEvents, ReadEvent(e) PROVE Goal
  <2>1. /\ e.client \in Client /\ e.filter = "READ"
        /\ observedEvents' = observedEvents \ {e} /\ UNCHANGED phase /\ phase = "events"
    BY <1>6 DEF ReadEvent, ReadWithLimit, Take, LoopInv, TypeOK
  <2>2. CASE ~Receives(e.client, NUM_CLIENT_MSGBLOCK_RECV_IGNORE_THRESHOLD)
    BY <1>6, <1>c, <2>1, <2>2 DEF ReadEvent, ReadWithLimit
  <2>3. CASE Receives(e.client, NUM_CLIENT_MSGBLOCK_RECV_IGNORE_THRESHOLD)
    <3>1. Q' = Append(Q, e.client) /\ unread' = [unread EXCEPT ![e.client] = @ - 1]
      BY <1>6, <2>3 DEF ReadEvent, ReadWithLimit
    <3>2. ReadClients' = ReadClients \ {e.client} /\ e.client \in ReadClients
      BY <2>1 DEF ReadClients, LoopInv, EventsAreUnique
    <3>3. Cardinality(ReadClients') = Cardinality(ReadClients) - 1
      BY <1>a, <3>2, FS_RemoveElement
    <3>4. Len(Q') = Len(Q) + 1
      BY <1>b, <2>1, <3>1, AppendToSet
    <3>5. RoomForBatch'
      BY <1>a, <1>b, <3>3, <3>4 DEF LoopInv, RoomForBatch
    <3>6. ReadsHaveBytes'
      <4> SUFFICES ASSUME NEW f \in observedEvents', f.filter = "READ", ~f.eof
                   PROVE  unread'[f.client] > 0
        BY DEF ReadsHaveBytes
      <4>1. f \in observedEvents /\ f.client \in Client /\ f.client # e.client
        BY <2>1 DEF LoopInv, TypeOK, EventsAreUnique
      <4> QED
        BY <3>1, <4>1 DEF LoopInv, TypeOK, ReadsHaveBytes
    <3> QED
      BY <2>1, <3>5, <3>6 DEF LoopInv, EventsAreUnique, EventsInBatch
  <2> QED
    BY <2>2, <2>3
<1>7. ASSUME NEW e \in observedEvents, SendFails(e) PROVE Goal
  BY <1>7, <1>c DEF SendFails, Take, peerVars
<1>8. ASSUME NEW e \in observedEvents, SendSome(e) PROVE Goal
  BY <1>8, <1>c DEF SendSome, Take, peerVars
<1>9. ASSUME NEW e \in observedEvents, SendAll(e) PROVE Goal
  BY <1>9, <1>c DEF SendAll, Take, peerVars
<1>10. CASE ProcessNext
  <2>1. UNCHANGED <<observedEvents, unread, phase, ReadClients>>
    BY <1>10 DEF ProcessNext, peerVars, ReadClients
  <2>2. Len(Q') = Len(Q) - 1
    BY <1>10, <1>b, TailToSet DEF ProcessNext
  <2> QED
    BY <1>a, <1>b, <2>1, <2>2
    DEF LoopInv, EventsAreUnique, ReadsHaveBytes, EventsInBatch, RoomForBatch
<1>11. CASE UNCHANGED vars
  BY <1>11, <1>c DEF vars, peerVars
<1> QED
  BY <1>1, <1>2, <1>3, <1>4, <1>5, <1>6, <1>7, <1>8, <1>9, <1>10, <1>11
  DEF Next, HandleEvent

-----------------------------------------------------------------------------
\* No step forgets bytes that were received, or leaves an expired client without
\* messages open.
LEMMA ReasonStep ==
  ASSUME LoopInv, [Next]_vars
  PROVE  UnscannedIsQueued' /\ ExpiredHasReason'
<1> DEFINE Q == receivedClientMsgProcessQueue
           Goal == UnscannedIsQueued' /\ ExpiredHasReason'
<1> USE DEF LoopInv, UnscannedIsQueued, ExpiredHasReason, Open, clientVars
<1>1. ASSUME NEW c \in Client, PeerSends(c) \/ PeerCloses(c) PROVE Goal
  BY <1>1 DEF PeerSends, PeerCloses
<1>2. CASE Kevent \/ BackToKevent
  BY <1>2 DEF Kevent, BackToKevent
<1>3. ASSUME NEW e \in observedEvents, EofEvent(e) PROVE Goal
  BY <1>3 DEF EofEvent, forceDisconnectClient
<1>4. ASSUME NEW e \in observedEvents, ReadEvent(e) PROVE Goal
  <2>1. e.client \in Client /\ Q \in Seq(Client)
    BY DEF TypeOK
  <2>2. \/ UNCHANGED <<unscanned, Q>>
        \/ unscanned' = unscanned \union {e.client} /\ Q' = Append(Q, e.client)
    BY <1>4 DEF ReadEvent, ReadWithLimit
  <2>3. UNCHANGED <<bExpired, bSocketClosed, MsgSendingQueue>>
    BY <1>4 DEF ReadEvent, ReadWithLimit
  <2> QED
    BY <2>1, <2>2, <2>3, AppendToSet
<1>5. ASSUME NEW e \in observedEvents, SendFails(e) PROVE Goal
  BY <1>5 DEF SendFails, forceDisconnectClient
<1>6. ASSUME NEW e \in observedEvents, SendSome(e) PROVE Goal
  BY <1>6 DEF SendSome
<1>7. ASSUME NEW e \in observedEvents, SendAll(e) PROVE Goal
  BY <1>7 DEF SendAll, forceDisconnectClient
<1>8. CASE ProcessNext
  <2> DEFINE c == Head(Q)
  <2>1. /\ c \in Client /\ Q' = Tail(Q)
        /\ ToSet(Q) \ {c} \subseteq ToSet(Q')
    BY <1>8, TailToSet DEF ProcessNext, TypeOK
  <2>2. unscanned' \ bExpired' \subseteq (unscanned \ bExpired) \ {c}
    BY <1>8 DEF ProcessNext, forceDisconnectClient
  <2>3. ExpiredHasReason'
    BY <1>8 DEF ProcessNext, forceDisconnectClient
  <2> QED
    BY <2>1, <2>2, <2>3
<1>9. CASE UNCHANGED vars
  BY <1>9 DEF vars
<1> QED
  BY <1>1, <1>2, <1>3, <1>4, <1>5, <1>6, <1>7, <1>8, <1>9 DEF Next, HandleEvent

-----------------------------------------------------------------------------
\* The inductive invariant holds: of the initial state, and after every step.
LEMMA LoopInvHolds == Spec => []LoopInv
<1>1. Init => LoopInv
  <2> SUFFICES ASSUME Init PROVE LoopInv
    OBVIOUS
  <2>1. TypeOK /\ UnreadIsSent
    BY LimitAssumption DEF Init, TypeOK, UnreadIsSent
  <2>2. ReadClients = {} /\ Cardinality(ReadClients) = 0
    BY FS_EmptySet DEF Init, ReadClients
  <2>3. RoomForBatch
    BY <2>2, LimitAssumption, ClientAssumption, FS_CardinalityType DEF Init, RoomForBatch
  <2> QED
    BY <2>1, <2>3
    DEF Init, LoopInv, EventsAreUnique, ReadsHaveBytes, EventsInBatch, UnscannedIsQueued,
        ExpiredHasReason
<1>2. LoopInv /\ [Next]_vars => LoopInv'
  BY TypeStep, BatchStep, ReasonStep DEF LoopInv
<1> QED
  BY <1>1, <1>2, PTL DEF Spec

\* Type correctness: the blocks of a client never exceed the limit, and recv() is only
\* called for a socket that holds bytes.
THEOREM LoopTypeCorrect == Spec => []TypeOK
BY LoopInvHolds, PTL DEF LoopInv

\* No wake-up is lost: received bytes that nobody has looked at have a queue entry, for
\* any number of clients and any limits.
THEOREM UnscannedIsQueuedHolds == Spec => []UnscannedIsQueued
BY LoopInvHolds, PTL DEF LoopInv

\* The processing queue, with its duplicates, holds at most one entry for each client
\* beyond the threshold.
THEOREM QueueBoundedHolds == Spec => []QueueBounded
<1>1. LoopInv => QueueBounded
  <2> SUFFICES ASSUME LoopInv PROVE QueueBounded
    OBVIOUS
  <2>1. Cardinality(ReadClients) \in Nat
    BY ClientAssumption, FS_Subset, FS_CardinalityType DEF ReadClients
  <2>2. Cardinality(Client) \in Nat /\ Len(receivedClientMsgProcessQueue) \in Nat
    BY ClientAssumption, FS_CardinalityType DEF LoopInv, TypeOK
  <2> QED
    BY <2>1, <2>2, LimitAssumption DEF LoopInv, RoomForBatch, QueueBounded
<1> QED
  BY <1>1, LoopInvHolds, PTL

\* A client that has quit and is still open has messages to send.
THEOREM ExpiredHasReasonHolds == Spec => []ExpiredHasReason
BY LoopInvHolds, PTL DEF LoopInv

=============================================================================
