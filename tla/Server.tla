-------------------------------- MODULE Server --------------------------------
(***************************************************************************)
(* Server::eventLoop: one thread that waits in kevent(), handles the batch   *)
(* of events it returned, and, in an iteration without events, executes the  *)
(* messages received so far.  The clients and the kernel appear as the       *)
(* choices the loop meets: which sockets are ready, what recv(), send() and  *)
(* close() return, which command comes next.                                 *)
(*                                                                           *)
(* Bytes are not modelled.  A client in receivedClientMsgProcessQueue has    *)
(* any number of complete messages, each any command of Commands.  The queue *)
(* is a set: its entries are handled in every order, and a second entry of   *)
(* a client finds no message left.                                           *)
(***************************************************************************)
EXTENDS ClientCommands, FiniteSetsExt

Running == status = "running"

-----------------------------------------------------------------------------
(***************************************************************************)
(* The top of the loop: kevent()                                             *)
(***************************************************************************)

\* Events kqueue may report: every open socket can become readable or fail,
\* and is watched for writing while messages are queued for it.
Ready ==
  {e \in ClientEvents : /\ e.client \in accepted \ bSocketClosed
                        /\ e.kind = "WRITE" => e.client \in MsgSendingQueue}
  \union (IF accepted = Client THEN {} ELSE {ListenEvent})

KeventReturnsEvents ==
  /\ Running /\ phase = "kevent"
  /\ \E k \in 1..KEVENT_OBSERVE_MAX : \E batch \in kSubset(k, Ready) :
       observedEvents' = batch
  /\ phase' = "events"
  /\ UNCHANGED <<identityVars, lifeVars, MsgSendingQueue, Channels, channelVars,
                 listVars, receivedClientMsgProcessQueue, todo, curr, status>>

\* kevent() returns no event only with the zero timeout it is given while there
\* are messages to process.  Above 64 queued entries the loop also processes
\* first and drops the batch: its events are level-triggered and come again.
KeventReturnsNone ==
  /\ Running /\ phase = "kevent"
  /\ receivedClientMsgProcessQueue # {}
  /\ phase' = "process"
  /\ todo' = receivedClientMsgProcessQueue
  /\ UNCHANGED <<identityVars, lifeVars, MsgSendingQueue, Channels, channelVars,
                 listVars, receivedClientMsgProcessQueue, observedEvents, curr,
                 status>>

\* kevent() waits: no socket is open and no connection comes any more.  Nowhere
\* else does the loop wait, so a deadlock is an iteration that cannot finish.
KeventWaits ==
  /\ Running /\ phase = "kevent"
  /\ Ready = {} /\ receivedClientMsgProcessQueue = {}
  /\ UNCHANGED vars

\* kevent() fails, or an event of the batch is an error of the listen socket.
LoopFails ==
  /\ Running /\ phase \in {"kevent", "events"}
  /\ "kevent" \in CallsThatFail
  /\ destroyResources
  /\ UNCHANGED <<accepted, bExpired, identityVars, MsgSendingQueue, Channels,
                 channelVars>>

\* Every event is handled: the next iteration releases the deferred clients.
\* (Mutant: it does not.)
MutantNoRelease ==
  /\ Running /\ phase = "events" /\ observedEvents = {}
  /\ phase' = "kevent"
  /\ UNCHANGED <<identityVars, lifeVars, MsgSendingQueue, Channels, channelVars,
                 listVars, receivedClientMsgProcessQueue, observedEvents, todo, curr,
                 status>>

NextIteration ==
  /\ Running /\ phase = "events" /\ observedEvents = {}
  /\ mClientReleaseQueue' = {}
  /\ phase' = "kevent"
  /\ UNCHANGED <<identityVars, lifeVars, MsgSendingQueue, Channels, channelVars,
                 mUnregistedClients, mClients, receivedClientMsgProcessQueue,
                 observedEvents, todo, curr, status>>

-----------------------------------------------------------------------------
(***************************************************************************)
(* Events                                                                    *)
(***************************************************************************)

\* The loop takes e as its next event.
Take(e) ==
  /\ Running /\ phase = "events"
  /\ e \in observedEvents
  /\ observedEvents' = observedEvents \ {e}

\* The rest of the loop's own state during an event that goes well.
LoopGoesOn == UNCHANGED <<phase, todo, curr, status>>

SkipEvent ==
  UNCHANGED <<identityVars, lifeVars, MsgSendingQueue, Channels, channelVars,
              listVars, receivedClientMsgProcessQueue>>

\* forceDisconnectClient in the middle of a batch; its failure ends the loop.
DisconnectOnEvent(e) ==
  \/ /\ Take(e) /\ LoopGoesOn
     /\ CloseSucceeds(e.client, MsgSendingQueue)
     /\ UNCHANGED receivedClientMsgProcessQueue
  \/ /\ Running /\ phase = "events" /\ e \in observedEvents
     /\ CloseFails(e.client, MsgSendingQueue)
     /\ destroyResources
     /\ UNCHANGED <<accepted, identityVars, Channels, channelVars>>

\* accept() until it fails: the connections that are waiting, if they still are.
AcceptClients ==
  /\ Take(ListenEvent) /\ LoopGoesOn
  /\ \E new \in SUBSET (Client \ accepted) :
       /\ accepted' = accepted \union new
       /\ mUnregistedClients' = mUnregistedClients \union new
  /\ UNCHANGED <<identityVars, bExpired, bSocketClosed, MsgSendingQueue, Channels,
                 channelVars, mClients, mClientReleaseQueue,
                 receivedClientMsgProcessQueue>>

ErrorEvent(c) ==
  LET e == [client |-> c, kind |-> "EOF"] IN
  /\ c \in Live
  /\ \/ /\ c \in bSocketClosed \union bExpired
        /\ Take(e) /\ LoopGoesOn /\ SkipEvent
     \/ /\ c \notin bSocketClosed \union bExpired
        /\ DisconnectOnEvent(e)

\* recv() delivers bytes; or the event is ignored, as it is for a client that
\* is closed, expired, or has 8 message blocks waiting; or recv() fails.
ReadEvent(c) ==
  LET e == [client |-> c, kind |-> "READ"] IN
  /\ c \in Live
  /\ \/ Take(e) /\ LoopGoesOn /\ SkipEvent
     \/ /\ c \notin bSocketClosed \union bExpired
        /\ Take(e) /\ LoopGoesOn
        /\ receivedClientMsgProcessQueue' = receivedClientMsgProcessQueue \union {c}
        /\ UNCHANGED <<identityVars, lifeVars, MsgSendingQueue, Channels,
                       channelVars, listVars>>
     \/ /\ c \notin bSocketClosed \union bExpired
        /\ DisconnectOnEvent(e)

\* send() empties the queue.  An expired client has nothing to wait for any more
\* and is disconnected, whatever forceDisconnectClient returns.  (Mutant: it is
\* treated like any other client.)
MutantSendOnly(c) ==
  /\ Take([client |-> c, kind |-> "WRITE"]) /\ LoopGoesOn
  /\ MsgSendingQueue' = MsgSendingQueue \ {c}
  /\ UNCHANGED <<identityVars, lifeVars, Channels, channelVars, listVars,
                 receivedClientMsgProcessQueue>>

SendLast(c) ==
  LET e == [client |-> c, kind |-> "WRITE"] IN
  /\ Take(e) /\ LoopGoesOn
  /\ UNCHANGED receivedClientMsgProcessQueue
  /\ \/ /\ c \notin bExpired
        /\ MsgSendingQueue' = MsgSendingQueue \ {c}
        /\ UNCHANGED <<identityVars, lifeVars, Channels, channelVars, listVars>>
     \/ /\ c \in bExpired
        /\ \/ CloseSucceeds(c, MsgSendingQueue \ {c})
           \/ CloseFails(c, MsgSendingQueue \ {c}) /\ KeptOnCloseFailure

\* The event is skipped, send() leaves messages queued, or fails, or sends all.
WriteEvent(c) ==
  LET e == [client |-> c, kind |-> "WRITE"] IN
  /\ c \in Live
  /\ \/ Take(e) /\ LoopGoesOn /\ SkipEvent
     \/ /\ c \in MsgSendingQueue \ bSocketClosed
        /\ DisconnectOnEvent(e) \/ SendLast(c)

\* udata names a control block that has been destroyed: the event is skipped or
\* the process dies, on Assert(currClient != NULL) or on freed memory.
DestroyedClientEvent(e) ==
  /\ Take(e)
  /\ e.client \in Client \ Live
  /\ status' \in {"running", "aborted"}
  /\ SkipEvent
  /\ UNCHANGED <<phase, todo, curr>>

HandleEvent ==
  \/ AcceptClients
  \/ \E c \in Client : ErrorEvent(c) \/ ReadEvent(c) \/ WriteEvent(c)
  \/ \E e \in ClientEvents : DestroyedClientEvent(e)

-----------------------------------------------------------------------------
(***************************************************************************)
(* Processing the received messages                                          *)
(***************************************************************************)

\* The next entry of the queue whose client is not expired.
NextClient ==
  /\ Running /\ phase = "process"
  /\ curr' \in todo \ bExpired
  /\ todo' = todo \ {curr'}
  /\ UNCHANGED <<identityVars, lifeVars, MsgSendingQueue, Channels, channelVars,
                 listVars, receivedClientMsgProcessQueue, phase, observedEvents,
                 status>>

\* processClientMsg(client, msg): c is the client being processed.  (Mutant: the
\* messages after a QUIT are executed, too.)
MutantProcessesExpired(c) == Running /\ phase = "process" /\ curr = c
Processes(c) == Running /\ phase = "process" /\ curr = c /\ c \notin bExpired

RegistrationCommand(c) ==
  \/ "PASS" \in Commands /\ \E matches \in BOOLEAN : PASS(c, matches)
  \/ "USER" \in Commands /\ USER(c)
  \/ "NICK" \in Commands /\ \E nick \in Nick : <<c, nick>> \in Claims /\ NICK(c, nick)

ChannelCommand(c, ch) ==
  \/ "JOIN" \in Commands /\ \E key \in Key \union {NoKey} : JOIN(c, ch, key)
  \/ "PART" \in Commands /\ PART(c, ch)
  \/ "KICK" \in Commands /\ \E nick \in Nick : KICK(c, ch, nick)
  \/ "INVITE" \in Commands /\ \E nick \in Nick : INVITE(c, ch, nick)
  \/ "MODE" \in Commands /\ \E add \in BOOLEAN : MODE(c, ch, add)
  \/ "TOPIC" \in Commands /\ \E topic \in Topics : TOPIC(c, ch, topic)

\* Any command but SHUTDOWN; an unknown one, or one with arguments its handler
\* rejects, gets a reply.
Command(c) ==
  /\ Processes(c)
  /\ \/ RegistrationCommand(c)
     \/ \E ch \in Chan : ChannelCommand(c, ch)
     \/ "PRIVMSG" \in Commands /\ PRIVMSG(c)
     \/ "QUIT" \in Commands /\ QUIT(c)
     \/ "unknown" \in Commands /\ Reply(c)
  /\ UNCHANGED loopVars

\* SHUTDOWN makes processClientMsg, and so eventLoop, return an error.
ShutdownCommand(c) ==
  /\ Processes(c) /\ "SHUTDOWN" \in Commands
  /\ destroyResources
  /\ UNCHANGED <<accepted, bExpired, identityVars, MsgSendingQueue, Channels,
                 channelVars>>

\* The queue is cleared and the loop starts its next iteration.
EndProcessing ==
  /\ Running /\ phase = "process"
  /\ todo \subseteq bExpired
  /\ receivedClientMsgProcessQueue' = {}
  /\ todo' = {} /\ curr' = NoClient
  /\ phase' = "events"
  /\ UNCHANGED <<identityVars, lifeVars, MsgSendingQueue, Channels, channelVars,
                 listVars, observedEvents, status>>

\* Startup() has returned, or the process is gone.
Terminated == ~Running /\ UNCHANGED vars

Next ==
  \/ KeventReturnsEvents
  \/ KeventReturnsNone
  \/ KeventWaits
  \/ LoopFails
  \/ NextIteration
  \/ HandleEvent
  \/ NextClient
  \/ \E c \in Client : Command(c) \/ ShutdownCommand(c)
  \/ EndProcessing
  \/ Terminated

Spec == Init /\ [][Next]_vars

(***************************************************************************)
(* Fairness.  The thread runs: an iteration is finished once it has begun,   *)
(* a batch and a client's messages being finite.  kevent() is only bound to  *)
(* return when it is given the zero timeout.                                 *)
(***************************************************************************)
Fairness ==
  /\ WF_vars(HandleEvent)
  /\ WF_vars(NextIteration)
  /\ WF_vars(NextClient \/ EndProcessing)
  /\ WF_vars((KeventReturnsEvents \/ KeventReturnsNone)
             /\ receivedClientMsgProcessQueue # {})

FairSpec == Spec /\ Fairness

(***************************************************************************)
(* The peers read what they are sent: while messages for c are queued its    *)
(* socket becomes writable and send() takes all of them, again and again.    *)
(***************************************************************************)
PeersRead ==
  \A c \in Client :
    /\ SF_vars(KeventReturnsEvents /\ [client |-> c, kind |-> "WRITE"] \in observedEvents')
    /\ SF_vars(SendLast(c))

ReadingSpec == FairSpec /\ PeersRead

-----------------------------------------------------------------------------
(***************************************************************************)
(* Properties                                                                *)
(***************************************************************************)

NickMap == [Nick -> Client \union {NoClient}]

ClientTypeOK ==
  /\ accepted \subseteq Client /\ bRegistered \subseteq Client
  /\ bExpired \subseteq Client /\ bSocketClosed \subseteq Client
  /\ ServerPass \subseteq Client /\ Username \subseteq Client
  /\ MsgSendingQueue \subseteq Client
  /\ Nickname \in [Client -> Nick \union {NoNick}]
  /\ Channels \in [Client -> SUBSET Chan]

ChannelTypeOK ==
  /\ Clients \in [Chan -> NickMap]
  /\ Operators \in [Chan -> SUBSET Nick]
  /\ InvitedClients \in [Chan -> SUBSET Nick]
  /\ Settings \in [Chan -> ChannelSettings]

ListTypeOK ==
  /\ mUnregistedClients \subseteq Client
  /\ mClients \in NickMap
  /\ mClientReleaseQueue \subseteq Client
  /\ receivedClientMsgProcessQueue \subseteq Client

LoopTypeOK ==
  /\ phase \in {"kevent", "events", "process"}
  /\ observedEvents \subseteq ClientEvents \union {ListenEvent}
  /\ todo \subseteq Client
  /\ curr \in Client \union {NoClient}
  /\ status \in {"running", "stopped", "aborted"}

\* A registered client has a nickname: the commands that use it as a key of a map
\* are refused before.
RegisteredHasNick == \A c \in bRegistered : Nickname[c] # NoNick

\* Every variable holds a value of its type.  That no map has the empty nickname
\* as a key rests on registerClient refusing a client without one.
TypeOK ==
  ClientTypeOK /\ ChannelTypeOK /\ ListTypeOK /\ LoopTypeOK /\ RegisteredHasNick

\* mClients is a nickname directory: an entry leads to a registered client that
\* has this very nickname and whose socket is open (the erase() calls of NICK,
\* forceDisconnectClient and findClientGlobal never leave a stale entry).
NickLookup ==
  \A n \in Nick : mClients[n] # NoClient =>
    /\ Nickname[mClients[n]] = n
    /\ mClients[n] \in bRegistered \ bSocketClosed

\* A client waits in mUnregistedClients exactly until it is registered or closed:
\* the two removals by search (registerClient, forceDisconnectClient) never miss.
UnregisteredListed ==
  Running => mUnregistedClients = accepted \ (bRegistered \union bSocketClosed)

\* A client whose socket was closed during a batch of events stays allocated
\* while events of the batch still point to it through udata.
DeferredRelease ==
  \A e \in observedEvents :
    e.client \in bSocketClosed => e.client \in mClientReleaseQueue

\* Once expired, a client never comes back: no channel or directory entry is
\* made for it, no message is queued for it, its name and flags stay.
ExpiredStays ==
  \A c \in bExpired :
    /\ c \in bExpired'
    /\ Nickname'[c] = Nickname[c]
    /\ Channels'[c] \subseteq Channels[c]
    /\ c \in MsgSendingQueue' => c \in MsgSendingQueue
    /\ \A n \in Nick : mClients'[n] = c => mClients[n] = c
    /\ \A ch \in Chan, n \in Nick : Clients'[ch][n] = c => Clients[ch][n] = c

ExpiredIsFinal == [][ExpiredStays]_vars

\* "Do not release a client if the client's event is still exists in the kqueue":
\* a client whose socket is open and watched has not been destroyed.
OpenClientIsHeld == Running => accepted \ bSocketClosed \subseteq Live

\* What a client believes and what its channels record agree: each channel it
\* holds lists it under its current nickname.  (An expired client holds channels only
\* after a failed close(), and its nickname may be taken.)  Three clients can break it
\* where nicknames collide (run nick_collision), two cannot; without a collision it
\* holds for any number of them (MembershipProofs).
MembersListed ==
  \A c \in Live \ bExpired : \A ch \in Channels[c] : Clients[ch][Nickname[c]] = c

\* ... and each channel that still exists lists nobody but its members, under
\* their current nicknames.
ListedAreMembers ==
  \A ch \in Chan : ChannelExists(ch) =>
    \A n \in Nick : Clients[ch][n] # NoClient =>
      /\ ch \in Channels[Clients[ch][n]]
      /\ Nickname[Clients[ch][n]] = n

Members(ch) == {c \in Live \ bExpired : ch \in Channels[c]}

\* A client that enters a channel with a limit finds it within the limit
\* afterwards, whatever stale entries and renames the member count went through.
LimitRespected ==
  [][\A ch \in Chan :
       LET max == Settings[ch].MaxClients IN
       /\ Members(ch) # {}
       /\ max # 0
       /\ \E c \in Client : ch \in Channels'[c] \ Channels[c]
       => Cardinality(Members(ch)') <= max
    ]_vars

\* "Mark the client's bExpired flag [...], then close the socket after remaining
\* messages are sent": until then the client is not destroyed.
QuittingClientIsHeld == Running => bExpired \ bSocketClosed \subseteq Live

\* NICK updates the name in the channels: a member is listed under no other name.
ListedUnderOwnName ==
  \A ch \in Chan : ChannelExists(ch) =>
    \A n \in Nick : Clients[ch][n] \in Live => Nickname[Clients[ch][n]] = n

\* destroyResources closes the socket of every client that was accepted.
StopClosesSockets == status = "stopped" => accepted \subseteq bSocketClosed

\* A disconnected client is released: the deferral ends with the iteration.
DeferralEnds ==
  \A c \in Client : c \in mClientReleaseQueue ~> ~Running \/ c \notin mClientReleaseQueue

\* disconnectClient: a client that quits with messages pending is closed once its
\* peer has read them.
QuitCompletes ==
  \A c \in Client :
    c \in bExpired \intersect MsgSendingQueue ~> ~Running \/ c \in bSocketClosed

=============================================================================
