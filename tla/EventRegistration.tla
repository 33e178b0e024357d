-------------------------- MODULE EventRegistration --------------------------
(****************************************************************************)
(* How the server tells kqueue what to watch (Server.hpp:46-48): changes are*)
(* collected in mEventRegistrationQueue and handed to the next kevent().    *)
(* The module follows the queue, the filters kqueue holds, and the socket   *)
(* descriptors, which accept() reuses once they are closed.                 *)
(*                                                                          *)
(* A client is one accepted connection.  Of a batch of events and of the    *)
(* commands only their effect on descriptors, sending queues and            *)
(* registrations is kept: who receives a message is any set of clients that *)
(* kqueue already watches.  A closed client is destroyed when it leaves the *)
(* release queue (Server.tla follows the other owners).                     *)
(****************************************************************************)
EXTENDS SequencesExt

CONSTANTS
  Client,             \* connections that may reach the listen socket
  NoClient,           \* the udata of the listen socket
  KEVENT_OBSERVE_MAX  \* size of the array kevent() fills

ASSUME NoClientAssumption == NoClient \notin Client
ASSUME ClientAssumption   == IsFiniteSet(Client)
ASSUME ObserveAssumption  == KEVENT_OBSERVE_MAX \in Nat \ {0}

VARIABLES
  accepted,                 \* clients whose connection has been accepted
  bExpired,
  bSocketClosed,
  hSocket,                  \* [accepted -> descriptor]
  MsgSendingQueue,          \* clients with messages queued for them
  mEventRegistrationQueue,
  mClientReleaseQueue,
  filters,                  \* what kqueue watches
  observedEvents,           \* events of the last kevent() still to handle
  phase,                    \* "kevent", "events" or "process"
  status                    \* "running" or "aborted"

vars == <<accepted, bExpired, bSocketClosed, hSocket, MsgSendingQueue,
          mEventRegistrationQueue, mClientReleaseQueue, filters, observedEvents,
          phase, status>>

Descriptors == 1..Cardinality(Client)

Open      == accepted \ bSocketClosed
\* Clients that may have joined a channel: bytes of theirs were received.
Members   == {c \in Open \ bExpired : \E f \in filters : f.udata = c /\ f.filter = "READ"}
Destroyed == bSocketClosed \ mClientReleaseQueue
OpenFds   == {hSocket[c] : c \in Open}

\* The fields of a kevent_t that differ between the entries of the queue.
Entry(flags, filter, c) ==
  [ident |-> hSocket[c], filter |-> filter, flags |-> flags, udata |-> c]

ListenFilter == [ident |-> 0, filter |-> "READ", udata |-> NoClient]

\* An event is a watched filter with a flag.
Event(f, flag) == [ident |-> f.ident, filter |-> f.filter, udata |-> f.udata, flag |-> flag]
ListenEvent == Event(ListenFilter, "none")

Init ==
  /\ accepted = {} /\ bExpired = {} /\ bSocketClosed = {} /\ hSocket = <<>>
  /\ MsgSendingQueue = {}
  /\ mEventRegistrationQueue = <<>> /\ mClientReleaseQueue = {}
  /\ filters = {} /\ observedEvents = {}
  /\ phase = "kevent" /\ status = "running"

Running == status = "running"

-----------------------------------------------------------------------------
(****************************************************************************)
(* kevent(): the changes are applied in order.  A change that fails becomes *)
(* an EV_ERROR event with the udata of the change; only when none fails are *)
(* the ready events of the filters reported.                                *)
(****************************************************************************)
ApplyChange(acc, e) ==
  LET same == {f \in acc.filters : f.ident = e.ident /\ f.filter = e.filter} IN
  IF e.ident \notin OpenFds \/ (e.flags = "EV_DELETE" /\ same = {})
  THEN [acc EXCEPT !.errors = @ \union
          {Event(e, "EV_ERROR")}]
  ELSE [acc EXCEPT !.filters = (@ \ same) \union
          {f \in {[ident |-> e.ident, filter |-> e.filter, udata |-> e.udata]} :
             e.flags = "EV_ADD"}]

\* ... after the first n changes, and after all.
AppliedTo[n \in 0..Len(mEventRegistrationQueue)] ==
  IF n = 0 THEN [filters |-> filters, errors |-> {}]
           ELSE ApplyChange(AppliedTo[n - 1], mEventRegistrationQueue[n])

Applied == AppliedTo[Len(mEventRegistrationQueue)]

\* Any sockets may become ready, and any of the clients among them be closed by
\* their peers.  kqueue reports a filter once.
ReadyEvents(watched, k) ==
  UNION {{{Event(f, IF f \in eof THEN "EV_EOF" ELSE "none") : f \in ready} :
            eof \in SUBSET (ready \ {ListenFilter})} : ready \in kSubset(k, watched)}

\* The top of the loop: deferred clients are released, then kevent() is called.
\* No event, or too many messages waiting, starts the processing phase.
Kevent ==
  /\ Running /\ phase = "kevent"
  /\ mClientReleaseQueue' = {}
  /\ filters' = Applied.filters
  /\ mEventRegistrationQueue' = <<>>
  /\ \/ /\ Applied.errors # {}
        /\ observedEvents' = Applied.errors /\ phase' = "events"
     \/ /\ Applied.errors = {}
        /\ \E k \in 1..KEVENT_OBSERVE_MAX :
             observedEvents' \in ReadyEvents(Applied.filters \union
               {f \in {ListenFilter} : accepted # Client}, k)
        /\ phase' = "events"
     \/ /\ observedEvents' = {} /\ phase' = "process"
  /\ UNCHANGED <<accepted, bExpired, bSocketClosed, hSocket, MsgSendingQueue, status>>

BackToKevent ==
  /\ Running /\ phase # "kevent" /\ observedEvents = {}
  /\ phase' = "kevent"
  /\ UNCHANGED <<accepted, bExpired, bSocketClosed, hSocket, MsgSendingQueue,
                 mEventRegistrationQueue, mClientReleaseQueue, filters,
                 observedEvents, status>>

-----------------------------------------------------------------------------
(****************************************************************************)
(* Changes of the registration queue                                        *)
(****************************************************************************)

\* sendMsgToClient to each of receivers, in any order of the channel's members:
\* the first message in an empty sending queue enables the WRITE filter.
WithWriteAdded(queue, receivers) ==
  {queue \o [i \in DOMAIN order |-> Entry("EV_ADD", "WRITE", order[i])] :
     order \in SetToSeqs(receivers \ MsgSendingQueue)}

\* The loop of forceDisconnectClient over the indices of the queue: an entry for
\* the closed descriptor is replaced by the last one, which is not looked at.
\* (Mutant: entries are found by their
\* filter.)
MutantRemovesReads(queue, i, fd) ==
  IF i <= Len(queue) /\ queue[i].filter = "READ"
  THEN Front(ReplaceAt(queue, i, Last(queue)))
  ELSE queue

RemoveAtIndex(queue, i, fd) ==
  IF i <= Len(queue) /\ queue[i].ident = fd
  THEN Front(ReplaceAt(queue, i, Last(queue)))
  ELSE queue

RemoveEntries(queue, fd) ==
  LET Removed[i \in 0..Len(queue)] ==
        IF i = 0 THEN queue ELSE RemoveAtIndex(Removed[i - 1], i, fd)
  IN Removed[Len(queue)]

\* forceDisconnectClient(c), sending being MsgSendingQueue at the call.  A client
\* that is not expired yet is announced to members of its channels.  close()
\* removes the filters of the descriptor.
\* (Mutants: the client is not marked expired; it is released at once.)
MutantNotExpired(c, sending) ==
  /\ mEventRegistrationQueue' = RemoveEntries(mEventRegistrationQueue, hSocket[c])
  /\ MsgSendingQueue' = sending
  /\ bSocketClosed' = bSocketClosed \union {c}
  /\ filters' = {f \in filters : f.ident # hSocket[c]}
  /\ mClientReleaseQueue' = mClientReleaseQueue \union {c}
  /\ UNCHANGED <<accepted, hSocket, bExpired>>

MutantReleasesAtOnce(c, sending) ==
  /\ mEventRegistrationQueue' = RemoveEntries(mEventRegistrationQueue, hSocket[c])
  /\ MsgSendingQueue' = sending
  /\ bExpired' = bExpired \union {c}
  /\ bSocketClosed' = bSocketClosed \union {c}
  /\ filters' = {f \in filters : f.ident # hSocket[c]}
  /\ UNCHANGED <<accepted, hSocket, mClientReleaseQueue>>

forceDisconnectClient(c, sending) ==
  /\ \E receivers \in SUBSET (IF c \in bExpired THEN {} ELSE Members \ {c}) :
       /\ \E queue \in WithWriteAdded(mEventRegistrationQueue, receivers) :
            mEventRegistrationQueue' = RemoveEntries(queue, hSocket[c])
       /\ MsgSendingQueue' = sending \union receivers
  /\ bExpired' = bExpired \union {c}
  /\ bSocketClosed' = bSocketClosed \union {c}
  /\ filters' = {f \in filters : f.ident # hSocket[c]}
  /\ mClientReleaseQueue' = mClientReleaseQueue \union {c}
  /\ UNCHANGED <<accepted, hSocket>>

-----------------------------------------------------------------------------
(****************************************************************************)
(* Events                                                                   *)
(****************************************************************************)

Take(e) ==
  /\ Running /\ phase = "events"
  /\ e \in observedEvents
  /\ observedEvents' = observedEvents \ {e}
  /\ UNCHANGED phase

\* One after the other, the connections in order get the lowest descriptor that is free.
AreLowest(order, fd) ==
  \A i \in DOMAIN order : \A d \in Descriptors \ OpenFds :
    d < fd[order[i]] <=> \E j \in 1..i - 1 : fd[order[j]] = d

\* accept() until no connection waits; the READ filters are registered.
AcceptClients ==
  /\ Take(ListenEvent)
  /\ \E new \in SUBSET (Client \ accepted) :
       \E order \in SetToSeqs(new), fd \in Injection(new, Descriptors \ OpenFds) :
         /\ AreLowest(order, fd)
         /\ accepted' = accepted \union new
         /\ hSocket' = [c \in accepted' |-> IF c \in accepted THEN hSocket[c] ELSE fd[c]]
         /\ mEventRegistrationQueue' = mEventRegistrationQueue \o
              [i \in DOMAIN order |->
                 [ident |-> fd[order[i]], filter |-> "READ",
                  flags |-> "EV_ADD", udata |-> order[i]]]
  /\ UNCHANGED <<bExpired, bSocketClosed, MsgSendingQueue, mClientReleaseQueue,
                 filters, status>>

\* An error event, EOF, or a recv() or send() that fails.
DisconnectOnEvent(e) ==
  /\ Take(e)
  /\ \/ /\ e.flag # "none" \/ e.filter = "READ"
        /\ e.udata \in Open \ bExpired
     \/ /\ e.flag = "none" /\ e.filter = "WRITE"
        /\ e.udata \in Open \intersect MsgSendingQueue
  /\ forceDisconnectClient(e.udata, MsgSendingQueue)
  /\ UNCHANGED status

\* send() empties the queue: the WRITE filter is disabled, or the client, expired,
\* is disconnected.  (Mutants: the filter is disabled by every WRITE event; the
\* filter disabled is READ.)
MutantDisablesAlways(e) ==
  /\ Take(e) /\ e.flag = "none" /\ e.filter = "WRITE" /\ e.udata \in Open
  /\ MsgSendingQueue' \in {MsgSendingQueue, MsgSendingQueue \ {e.udata}}
  /\ mEventRegistrationQueue' =
       Append(mEventRegistrationQueue, Entry("EV_DELETE", "WRITE", e.udata))
  /\ UNCHANGED <<accepted, bExpired, bSocketClosed, hSocket, mClientReleaseQueue,
                 filters, status>>

MutantDisablesRead(e) ==
  /\ Take(e) /\ e.flag = "none" /\ e.filter = "WRITE"
  /\ e.udata \in Open \intersect MsgSendingQueue
  /\ MsgSendingQueue' = MsgSendingQueue \ {e.udata}
  /\ mEventRegistrationQueue' =
       Append(mEventRegistrationQueue, Entry("EV_DELETE", "READ", e.udata))
  /\ UNCHANGED <<accepted, bExpired, bSocketClosed, hSocket, mClientReleaseQueue,
                 filters, status>>

SendLast(e) ==
  /\ Take(e) /\ e.flag = "none" /\ e.filter = "WRITE"
  /\ e.udata \in Open \intersect MsgSendingQueue
  /\ UNCHANGED status
  /\ \/ /\ e.udata \notin bExpired
        /\ MsgSendingQueue' = MsgSendingQueue \ {e.udata}
        /\ mEventRegistrationQueue' =
             Append(mEventRegistrationQueue, Entry("EV_DELETE", "WRITE", e.udata))
        /\ UNCHANGED <<accepted, bExpired, bSocketClosed, hSocket,
                       mClientReleaseQueue, filters>>
     \/ /\ e.udata \in bExpired
        /\ forceDisconnectClient(e.udata, MsgSendingQueue \ {e.udata})

\* Events without effect on descriptors and registrations: bytes arrive, messages
\* remain queued, the client is expired or closed.  With a client already
\* destroyed the udata is a freed control block, and the process may die.
OtherEvent(e) ==
  /\ Take(e)
  /\ e.flag # "none" => e.udata \in bExpired
  /\ status' \in {"running"} \union (IF e.udata \in Destroyed THEN {"aborted"} ELSE {})
  /\ UNCHANGED <<accepted, bExpired, bSocketClosed, hSocket, MsgSendingQueue,
                 mEventRegistrationQueue, mClientReleaseQueue, filters>>

-----------------------------------------------------------------------------
(****************************************************************************)
(* Commands, in the processing phase                                        *)
(****************************************************************************)

\* A command sends messages to some clients ...
SendMessages ==
  /\ Running /\ phase = "process"
  /\ \E receivers \in SUBSET Members :
       /\ mEventRegistrationQueue' \in WithWriteAdded(mEventRegistrationQueue, receivers)
       /\ MsgSendingQueue' = MsgSendingQueue \union receivers
  /\ UNCHANGED <<accepted, bExpired, bSocketClosed, hSocket, mClientReleaseQueue,
                 filters, observedEvents, phase, status>>

\* ... and QUIT disconnects its client, at once or when its messages are sent.
QUIT(c) ==
  /\ Running /\ phase = "process"
  /\ c \in Members
  /\ \/ c \notin MsgSendingQueue /\ forceDisconnectClient(c, MsgSendingQueue)
     \/ /\ c \in MsgSendingQueue
        /\ bExpired' = bExpired \union {c}
        /\ \E receivers \in SUBSET (Members \ {c}) :
             /\ mEventRegistrationQueue' \in
                  WithWriteAdded(mEventRegistrationQueue, receivers)
             /\ MsgSendingQueue' = MsgSendingQueue \union receivers
        /\ UNCHANGED <<accepted, bSocketClosed, hSocket, mClientReleaseQueue, filters>>
  /\ UNCHANGED <<observedEvents, phase, status>>

Aborted == ~Running /\ UNCHANGED vars

Next ==
  \/ Kevent
  \/ BackToKevent
  \/ AcceptClients
  \/ \E e \in observedEvents \ {ListenEvent} :
       DisconnectOnEvent(e) \/ SendLast(e) \/ OtherEvent(e)
  \/ SendMessages
  \/ \E c \in Client : QUIT(c)
  \/ Aborted

Spec == Init /\ [][Next]_vars

-----------------------------------------------------------------------------
(****************************************************************************)
(* Properties                                                               *)
(****************************************************************************)

EntryType  == [ident : Descriptors, filter : {"READ", "WRITE"},
               flags : {"EV_ADD", "EV_DELETE"}, udata : Client]
FilterType == [ident : Descriptors, filter : {"READ", "WRITE"}, udata : Client]

\* Types of the queue, the filters and the events; flags of a client are set in the
\* order accepted, expired, closed, released.
TypeOK ==
  /\ accepted \subseteq Client /\ bExpired \subseteq accepted
  /\ bSocketClosed \subseteq bExpired /\ mClientReleaseQueue \subseteq bSocketClosed
  /\ MsgSendingQueue \subseteq accepted
  /\ hSocket \in [accepted -> Descriptors]
  /\ mEventRegistrationQueue \in Seq(EntryType)
  /\ filters \subseteq FilterType
  /\ observedEvents \subseteq {ListenEvent} \union
       [ident : Descriptors, filter : {"READ", "WRITE"}, udata : Client,
        flag : {"none", "EV_EOF", "EV_ERROR"}]
  /\ phase \in {"kevent", "events", "process"} /\ status \in {"running", "aborted"}

\* What kqueue watches for c once the queue is applied.
Watches(filter, c) ==
  [ident |-> hSocket[c], filter |-> filter, udata |-> c] \in Applied.filters

\* Input of every open client is watched, whatever was disconnected around it and
\* whoever had its descriptor before: it can always send something or be closed.
ReadWatched == Running => \A c \in Open : Watches("READ", c)

\* READ events reach their client: Assert(currClient->hSocket == currEvent.ident) holds,
\* the client a READ event carries still exists and has the descriptor that is ready.
ReadEventOwner ==
  \A e \in observedEvents \ {ListenEvent} :
    e.filter = "READ" => e.udata \notin Destroyed /\ hSocket[e.udata] = e.ident

\* No open client is disconnected because a registration of its own failed.
NoFalseError ==
  \A e \in observedEvents : e.flag = "EV_ERROR" => e.udata \notin Open

\* The WRITE filter a client needs is lost in one way only: another client is
\* disconnected whose entries are removed from among this one's.
LostByRemoval ==
  [][\A c \in Open :
       /\ Watches("WRITE", c)
       /\ c \in MsgSendingQueue'
       /\ c \notin bSocketClosed'
       /\ ~Watches("WRITE", c)'
       => \E d \in bSocketClosed' \ bSocketClosed :
            \E i \in DOMAIN mEventRegistrationQueue :
              mEventRegistrationQueue[i].ident = hSocket[d]
    ]_vars

\* "Enable the write event filter for the client socket": messages queued for an
\* open client are watched for.
WriteWatched == Running => \A c \in Open \intersect MsgSendingQueue : Watches("WRITE", c)

=============================================================================
