----------------------------- MODULE ServerState -----------------------------
(***************************************************************************)
(* The state of the IRC server (Server/Server.hpp) and of the objects it    *)
(* manages, ClientControlBlock and ChannelControlBlock, with the helper     *)
(* functions of Server.cpp that the event loop and the client commands      *)
(* call.                                                                    *)
(*                                                                          *)
(* A client is one accepted connection, i.e. one ClientControlBlock.  The   *)
(* flags and filled fields of a control block are kept as sets of clients:  *)
(* c \in bExpired is client->bExpired.  Reference counting is modelled by   *)
(* what it decides: an object exists while something holds a SharedPtr to   *)
(* it (Live, ChannelExists), and a WeakPtr to it can be locked exactly then *)
(***************************************************************************)
EXTENDS Naturals, FiniteSets

CONSTANTS
  Client,             \* connections that may reach the listen socket
  Nick,               \* nicknames in use
  Chan,               \* channel names
  Key,                \* channel keys
  Topics,             \* channel topics, NoTopic among them
  Limits,             \* valid arguments of MODE +l
  NoClient,           \* the NULL SharedPtr<ClientControlBlock>
  NoNick,             \* the empty nickname of a new control block
  NoKey,              \* the empty channel key
  NoTopic,            \* the empty topic
  Claims,             \* the nicknames each client may ask for with NICK
  Commands,           \* the commands the clients send
  Modes,              \* the mode letters they send with MODE
  CallsThatFail,      \* system calls of the server itself that may fail
  KEVENT_OBSERVE_MAX  \* size of the array kevent() fills

CommandNames == {"PASS", "NICK", "USER", "JOIN", "PART", "PRIVMSG", "MODE",
                 "TOPIC", "INVITE", "KICK", "QUIT", "SHUTDOWN", "unknown"}

ASSUME NoClientAssumption == NoClient \notin Client
ASSUME NoNickAssumption   == NoNick \notin Nick
ASSUME NoTopicAssumption  == NoTopic \in Topics
ASSUME LimitsAssumption   == Limits \subseteq Nat
ASSUME ClaimsAssumption   == Claims \subseteq Client \X Nick
ASSUME CommandsAssumption == Commands \subseteq CommandNames
ASSUME ModesAssumption    == Modes \subseteq {"o", "i", "t", "k", "l"}
ASSUME CallsAssumption    == CallsThatFail \subseteq {"close", "kevent"}
ASSUME ObserveAssumption  == KEVENT_OBSERVE_MAX \in Nat \ {0}

VARIABLES
  \* ClientControlBlock
  accepted,            \* clients whose control block has been created
  bRegistered,
  bExpired,
  bSocketClosed,
  ServerPass,          \* clients that gave the server's password
  Username,            \* clients that gave a user name and a real name
  Nickname,            \* [Client -> nickname or NoNick]
  MsgSendingQueue,     \* clients whose queue of messages to send is not empty
  Channels,            \* [Client -> the channels it holds]
  \* ChannelControlBlock: what the object of that name holds while it exists
  Clients,             \* [Chan -> [Nick -> client or NoClient]]
  Operators,           \* [Chan -> nicknames], the pointers are never read
  InvitedClients,      \* [Chan -> nicknames], likewise
  Settings,            \* [Chan -> modes and topic]
  \* Server
  mUnregistedClients,
  mClients,            \* [Nick -> client or NoClient]
  mClientReleaseQueue,
  \* locals of Server::eventLoop
  receivedClientMsgProcessQueue,  \* clients with received bytes to process
  phase,               \* what the loop does: "kevent", "events" or "process"
  observedEvents,      \* events of the last kevent() still to handle
  todo,                \* queue entries the process phase has not reached
  curr,                \* the client whose messages are being processed
  status               \* "running", "stopped" or "aborted"

identityVars  == <<bRegistered, ServerPass, Username, Nickname>>
lifeVars      == <<accepted, bExpired, bSocketClosed>>
channelVars   == <<Clients, Operators, InvitedClients, Settings>>
listVars      == <<mUnregistedClients, mClients, mClientReleaseQueue>>
loopVars      == <<receivedClientMsgProcessQueue, phase, observedEvents,
                   todo, curr, status>>
vars == <<identityVars, lifeVars, MsgSendingQueue, Channels, channelVars,
          listVars, loopVars>>

(***************************************************************************)
(* Events of kevent(), reduced to what the loop tells apart: a READ or      *)
(* WRITE filter of a client's socket, the same with EV_EOF or EV_ERROR set, *)
(* and a READ of the listen socket, which carries no client.                *)
(***************************************************************************)
ClientEvents == [client : Client, kind : {"READ", "WRITE", "EOF"}]
ListenEvent  == [client |-> NoClient, kind |-> "READ"]

ChannelSettings ==
  [bInviteOnly : BOOLEAN, bTopicProtected : BOOLEAN, bPrivate : BOOLEAN,
   Password : Key \union {NoKey}, MaxClients : Limits \union {0},
   Topic : Topics]

NewChannelSettings ==
  [bInviteOnly |-> FALSE, bTopicProtected |-> FALSE, bPrivate |-> FALSE,
   Password |-> NoKey, MaxClients |-> 0, Topic |-> NoTopic]

EmptyClients == [n \in Nick |-> NoClient]

Init ==
  /\ accepted = {} /\ bRegistered = {} /\ bExpired = {} /\ bSocketClosed = {}
  /\ ServerPass = {} /\ Username = {}
  /\ Nickname = [c \in Client |-> NoNick]
  /\ MsgSendingQueue = {}
  /\ Channels = [c \in Client |-> {}]
  /\ Clients = [ch \in Chan |-> EmptyClients]
  /\ Operators = [ch \in Chan |-> {}]
  /\ InvitedClients = [ch \in Chan |-> {}]
  /\ Settings = [ch \in Chan |-> NewChannelSettings]
  /\ mUnregistedClients = {} /\ mClients = EmptyClients
  /\ mClientReleaseQueue = {}
  /\ receivedClientMsgProcessQueue = {}
  /\ phase = "kevent" /\ observedEvents = {} /\ todo = {} /\ curr = NoClient
  /\ status = "running"

-----------------------------------------------------------------------------
(***************************************************************************)
(* Object lifetimes                                                         *)
(***************************************************************************)

\* Entries of a nickname map (mClients, channel->Clients) that hold a client.
Entries(map) == {map[n] : n \in Nick} \ {NoClient}

Erase(map, nick) == [n \in Nick |-> IF n = nick THEN NoClient ELSE map[n]]

\* The clients some SharedPtr holds, map being the contents of mClients.  The
\* reference count of a client outside this set has dropped to zero: its
\* control block is destroyed, and with it its socket number is forgotten.
HeldWith(map) == mUnregistedClients \union mClientReleaseQueue
                 \union receivedClientMsgProcessQueue \union Entries(map)
Live == HeldWith(mClients)

\* Only members hold a SharedPtr to a channel (client->Channels); mChannels and
\* the local variables of the handlers do not keep it.  findChannelGlobal()
\* finds it exactly while it exists.
ChannelExists(ch) == \E c \in Live : ch \in Channels[c]

-----------------------------------------------------------------------------
(***************************************************************************)
(* Helpers of Server.cpp and ChannelControlBlock.hpp                        *)
(***************************************************************************)

\* Server::findClientGlobal: the client found, NoClient for NULL ...  (Mutant: the
\* check of bExpired is missing.)
MutantFindsExpired(map, nick) == map[nick]

findClientGlobal(map, nick) ==
  IF map[nick] \in bExpired THEN NoClient ELSE map[nick]

\* ... and mClients after it, from which it erases an expired entry.
AfterFind(map, nick) ==
  IF map[nick] \in bExpired THEN Erase(map, nick) ELSE map

\* ChannelControlBlock::FindClient.  Its branch for an expired WeakPtr is dead,
\* WeakPtr::Expired() stays false after destruction; Lock() decides.
FindClient(ch, nick) ==
  IF Clients[ch][nick] \in Live THEN Clients[ch][nick] ELSE NoClient

IsOperator(ch, nick) == nick \in Operators[ch]

\* Recipients of sendMsgToChannel: those members' WeakPtr that still lock.
ChannelReceivers(members, live) == (Entries(members) \intersect live) \ bExpired

\* Recipients of sendMsgToConnectedChannels.
ConnectedReceivers(c) ==
  UNION {ChannelReceivers(Clients[ch], Live) : ch \in Channels[c]} \ {c}

\* sendMsgToClient, once for each client of a set.
Send(receivers) == MsgSendingQueue' = MsgSendingQueue \union (receivers \ bExpired)

\* joinClientToChannel and partClientFromChannel on channel->Clients.
WithMember(ch, nick, c) == [Clients EXCEPT ![ch][nick] = c]
WithoutMember(ch, nick) == [Clients EXCEPT ![ch] = Erase(@, nick)]

\* Mutant: the entry of channel->Clients is not erased.
MutantPartKeepsEntry(c, ch) ==
  /\ Operators' = [Operators EXCEPT ![ch] = @ \ {Nickname[c]}]
  /\ Channels'  = [Channels EXCEPT ![c] = @ \ {ch}]
  /\ UNCHANGED Clients

partClientFromChannel(c, ch) ==
  /\ Clients'   = WithoutMember(ch, Nickname[c])
  /\ Operators' = [Operators EXCEPT ![ch] = @ \ {Nickname[c]}]
  /\ Channels'  = [Channels EXCEPT ![c] = @ \ {ch}]

(***************************************************************************)
(* registerClient(client), called after the caller stored the argument of   *)
(* PASS, NICK or USER, with map the contents of mClients at the call.       *)
(***************************************************************************)
Complete(c) == c \in Username' /\ c \in ServerPass' /\ Nickname'[c] # NoNick

registerClient(c, map) ==
  IF Complete(c)
  THEN /\ Send({c})                       \* RPL_WELCOME or ERR_NICKNAMEINUSE
       /\ IF findClientGlobal(map, Nickname'[c]) # NoClient
          THEN /\ mClients' = map
               /\ UNCHANGED <<bRegistered, mUnregistedClients>>
          ELSE /\ bRegistered' = bRegistered \union {c}
               /\ mClients' = [map EXCEPT ![Nickname'[c]] = c]
               /\ mUnregistedClients' = mUnregistedClients \ {c}
  ELSE /\ mClients' = map
       /\ UNCHANGED <<bRegistered, mUnregistedClients, MsgSendingQueue>>

(***************************************************************************)
(* forceDisconnectClient(client) on an open socket.  The QUIT message goes  *)
(* out before close() is tried; when close() fails the client stays listed, *)
(* expired, with its socket open.  queue is MsgSendingQueue at the call.    *)
(***************************************************************************)
QuitNotice(c, queue) ==
  IF c \in bExpired THEN queue ELSE queue \union ConnectedReceivers(c)

CloseFails(c, queue) ==
  /\ "close" \in CallsThatFail
  /\ bExpired' = bExpired \union {c}
  /\ MsgSendingQueue' = QuitNotice(c, queue)

\* Mutants: one of the three lists is forgotten.
MutantKeepsName(c) ==
  /\ mUnregistedClients' = mUnregistedClients \ {c}
  /\ mClientReleaseQueue' = mClientReleaseQueue \union {c}
  /\ UNCHANGED mClients

MutantKeepsUnregistered(c) ==
  /\ mClients' = Erase(mClients, Nickname[c])
  /\ mClientReleaseQueue' = mClientReleaseQueue \union {c}
  /\ UNCHANGED mUnregistedClients

MutantReleasesAtOnce(c) ==
  /\ mUnregistedClients' = mUnregistedClients \ {c}
  /\ mClients' = Erase(mClients, Nickname[c])
  /\ UNCHANGED mClientReleaseQueue

\* The closed client leaves the lists, and its release is deferred.
Unlist(c) ==
  /\ mUnregistedClients' = mUnregistedClients \ {c}
  /\ mClients' = Erase(mClients, Nickname[c])
  /\ mClientReleaseQueue' = mClientReleaseQueue \union {c}

CloseSucceeds(c, queue) ==
  /\ bExpired' = bExpired \union {c}
  /\ MsgSendingQueue' = QuitNotice(c, queue)
  /\ bSocketClosed' = bSocketClosed \union {c}
  /\ Unlist(c)
  /\ Clients' = [ch \in Chan |-> IF ch \in Channels[c]
                                 THEN Erase(Clients[ch], Nickname[c])
                                 ELSE Clients[ch]]
  /\ Operators' = [ch \in Chan |-> IF ch \in Channels[c]
                                   THEN Operators[ch] \ {Nickname[c]}
                                   ELSE Operators[ch]]
  /\ Channels' = [Channels EXCEPT ![c] = {}]
  /\ UNCHANGED <<accepted, identityVars, InvitedClients, Settings>>

\* What forceDisconnectClient leaves alone when close() fails.
KeptOnCloseFailure ==
  UNCHANGED <<accepted, bSocketClosed, identityVars, Channels, channelVars,
              listVars>>

(***************************************************************************)
(* eventLoop() returns an error: its locals go, and destroyResources()      *)
(* closes the sockets of the listed clients and empties the lists.          *)
(* (Mutant: clients that are not registered are forgotten.)                 *)
(***************************************************************************)
MutantOnlyRegistered == Entries(mClients)
ListedClients == mUnregistedClients \union Entries(mClients)

destroyResources ==
  /\ bSocketClosed' = bSocketClosed \union ListedClients
  /\ mUnregistedClients' = {} /\ mClients' = EmptyClients
  /\ mClientReleaseQueue' = {}
  /\ receivedClientMsgProcessQueue' = {}
  /\ observedEvents' = {} /\ todo' = {} /\ curr' = NoClient
  /\ phase' = "kevent"
  /\ status' = "stopped"

=============================================================================
