---------------------------- MODULE ServerProofs ----------------------------
(***************************************************************************)
(* Proofs about Server for every value of its constants: types, the lookup *)
(* of nicknames, and a client's life: where it is listed between accept()  *)
(* and its release, and that what is expired stays so.                     *)
(***************************************************************************)
EXTENDS Server, TLAPS

-----------------------------------------------------------------------------
(***************************************************************************)
(* Types of the helper operators                                            *)
(***************************************************************************)

\* Erasing a nickname from a map gives a map.
LEMMA EraseType ==
  ASSUME NEW map \in NickMap, NEW nick
  PROVE  Erase(map, nick) \in NickMap
BY DEF NickMap, Erase

\* The clients a map leads to are clients.
LEMMA EntriesType ==
  ASSUME NEW map \in NickMap
  PROVE  Entries(map) \subseteq Client
BY DEF NickMap, Entries

\* findClientGlobal returns a client that is not expired, or NULL, and leaves a map.
LEMMA FindType ==
  ASSUME NEW map \in NickMap, NEW nick
  PROVE  /\ nick \in Nick => findClientGlobal(map, nick) \in Client \union {NoClient}
         /\ AfterFind(map, nick) \in NickMap
BY EraseType DEF NickMap, findClientGlobal, AfterFind

\* Only clients receive channel messages.
LEMMA ReceiversType ==
  ASSUME NEW map \in NickMap, NEW live
  PROVE  ChannelReceivers(map, live) \subseteq Client
BY EntriesType DEF ChannelReceivers

\* The QUIT message is queued for clients only.
LEMMA QuitNoticeType ==
  ASSUME ChannelTypeOK, ClientTypeOK, NEW c \in Client,
         NEW queue \in SUBSET Client
  PROVE  QuitNotice(c, queue) \subseteq Client
<1>1. \A ch \in Channels[c] : ChannelReceivers(Clients[ch], Live) \subseteq Client
  BY ReceiversType DEF ChannelTypeOK, ClientTypeOK
<1>2. ConnectedReceivers(c) \subseteq Client
  BY <1>1 DEF ConnectedReceivers
<1> QED
  BY <1>2 DEF QuitNotice

\* Sending to clients keeps the type of the sending queues.
LEMMA SendType ==
  ASSUME ClientTypeOK, NEW receivers \in SUBSET Client, Send(receivers)
  PROVE  MsgSendingQueue' \subseteq Client
BY DEF Send, ClientTypeOK

\* All clients that are alive are clients.
LEMMA LiveType ==
  ASSUME ListTypeOK
  PROVE  Live \subseteq Client
BY EntriesType DEF ListTypeOK, Live, HeldWith

\* FindClient returns a client or NULL.
LEMMA FindClientType ==
  ASSUME ListTypeOK, NEW ch, NEW nick
  PROVE  FindClient(ch, nick) \in Client \union {NoClient}
BY LiveType DEF FindClient

\* registerClient keeps the types and registers only a client with a nickname.
LEMMA RegisterType ==
  ASSUME TypeOK, NEW c \in Client, NEW map \in NickMap,
         Nickname' \in [Client -> Nick \union {NoNick}],
         \A d \in Client : d # c => Nickname'[d] = Nickname[d],
         c \notin bRegistered,
         registerClient(c, map)
  PROVE  /\ bRegistered' \subseteq Client
         /\ mClients' \in NickMap
         /\ mUnregistedClients' \subseteq Client
         /\ MsgSendingQueue' \subseteq Client
         /\ RegisteredHasNick'
<1> USE DEF TypeOK, ClientTypeOK, ListTypeOK, RegisteredHasNick
<1>1. CASE UNCHANGED <<bRegistered, mUnregistedClients, MsgSendingQueue>> /\ mClients' = map
  BY <1>1
<1>2. CASE /\ Send({c}) /\ mClients' = map
           /\ UNCHANGED <<bRegistered, mUnregistedClients>>
  BY <1>2, SendType
<1>3. CASE /\ Send({c}) /\ Nickname'[c] # NoNick
           /\ bRegistered' = bRegistered \union {c}
           /\ mClients' = [map EXCEPT ![Nickname'[c]] = c]
           /\ mUnregistedClients' = mUnregistedClients \ {c}
  <2>1. mClients' \in NickMap
    BY <1>3 DEF NickMap
  <2> QED
    BY <1>3, <2>1, SendType
<1> QED
  BY <1>1, <1>2, <1>3 DEF registerClient, Complete

\* forceDisconnectClient keeps the types, whether close() succeeds ...
LEMMA CloseSucceedsType ==
  ASSUME TypeOK, NEW c \in Client, NEW queue \in SUBSET Client,
         CloseSucceeds(c, queue), UNCHANGED receivedClientMsgProcessQueue
  PROVE  ClientTypeOK' /\ ChannelTypeOK' /\ ListTypeOK' /\ RegisteredHasNick'
<1> USE DEF TypeOK, CloseSucceeds, Unlist, identityVars
<1>1. ClientTypeOK' /\ RegisteredHasNick'
  BY QuitNoticeType DEF ClientTypeOK, RegisteredHasNick
<1>2. Clients' \in [Chan -> NickMap]
  BY EraseType DEF ChannelTypeOK
<1>3. ChannelTypeOK'
  BY <1>2 DEF ChannelTypeOK
<1>4. ListTypeOK'
  BY EraseType DEF ListTypeOK
<1> QED
  BY <1>1, <1>3, <1>4

\* ... or fails.
LEMMA CloseFailsType ==
  ASSUME TypeOK, NEW c \in Client, NEW queue \in SUBSET Client,
         CloseFails(c, queue)
  PROVE  bExpired' \subseteq Client /\ MsgSendingQueue' \subseteq Client
BY QuitNoticeType DEF TypeOK, ClientTypeOK, CloseFails

\* A part takes one name out of a channel.
LEMMA PartType ==
  ASSUME TypeOK, NEW c \in Client, NEW ch \in Chan, partClientFromChannel(c, ch)
  PROVE  /\ Clients' \in [Chan -> NickMap]
         /\ Operators' \in [Chan -> SUBSET Nick]
         /\ Channels' \in [Client -> SUBSET Chan]
<1> USE DEF TypeOK, ClientTypeOK, ChannelTypeOK, partClientFromChannel
<1>1. Clients' \in [Chan -> NickMap]
  BY EraseType DEF WithoutMember
<1> QED
  BY <1>1

-----------------------------------------------------------------------------
(***************************************************************************)
(* Type correctness: what a command and what a step of the loop preserve    *)
(***************************************************************************)

\* The part of TypeOK that commands can change.
DataTypeOK == ClientTypeOK /\ ChannelTypeOK /\ ListTypeOK /\ RegisteredHasNick

\* A reply changes a sending queue only.
LEMMA ReplyType ==
  ASSUME TypeOK, NEW c \in Client, Reply(c), UNCHANGED receivedClientMsgProcessQueue
  PROVE  DataTypeOK'
<1>1. MsgSendingQueue' \subseteq Client
  BY SendType DEF Reply, TypeOK
<1> QED
  BY <1>1 DEF Reply, TypeOK, DataTypeOK, ClientTypeOK, ChannelTypeOK, ListTypeOK,
       RegisteredHasNick, identityVars, lifeVars, channelVars, listVars

\* Registration commands.
LEMMA RegistrationType ==
  ASSUME TypeOK, NEW c \in Client, RegistrationCommand(c),
         UNCHANGED receivedClientMsgProcessQueue
  PROVE  DataTypeOK'
<1> USE DEF TypeOK, DataTypeOK, ClientTypeOK, ChannelTypeOK, ListTypeOK, lifeVars,
            channelVars
<1>1. ASSUME NEW matches \in BOOLEAN, PASS(c, matches)
      PROVE  DataTypeOK'
  <2>1. CASE Reply(c)
    BY <2>1, ReplyType
  <2>2. CASE c \notin bRegistered /\ registerClient(c, mClients)
             /\ UNCHANGED <<Username, Nickname>>
    BY <1>1, <2>2, RegisterType DEF PASS
  <2> QED
    BY <1>1, <2>1, <2>2 DEF PASS
<1>2. ASSUME USER(c)
      PROVE  DataTypeOK'
  <2>1. CASE Reply(c)
    BY <2>1, ReplyType
  <2>2. CASE c \notin bRegistered /\ registerClient(c, mClients)
             /\ UNCHANGED <<ServerPass, Nickname>>
    BY <1>2, <2>2, RegisterType DEF USER
  <2> QED
    BY <1>2, <2>1, <2>2 DEF USER
<1>3. ASSUME NEW nick \in Nick, NICK(c, nick)
      PROVE  DataTypeOK'
  <2>1. AfterFind(mClients, nick) \in NickMap
    BY FindType
  <2>2. CASE Reply(c)
    BY <2>2, ReplyType
  <2>3. CASE FirstNick(c, nick)
    BY <2>1, <2>3, RegisterType DEF FirstNick
  <2>4. CASE Rename(c, nick)
    <3>1. mClients' \in NickMap
      BY <2>1, <2>4, EraseType DEF Rename, RenamedInDirectory, RenamedInChannels, NickMap
    <3>2. Clients' \in [Chan -> NickMap]
      BY <2>4 DEF Rename, RenamedInDirectory, RenamedInChannels, NickMap
    <3>3. \A ch \in Channels[c] :
            ChannelReceivers(Clients'[ch], HeldWith(mClients')) \subseteq Client
      BY <3>2, ReceiversType
    <3>4. MsgSendingQueue' \subseteq Client
      <4> DEFINE told == UNION {ChannelReceivers(Clients'[ch], HeldWith(mClients')) :
                                  ch \in Channels[c]}
      <4>1. Send({c} \union told)
        BY <2>4 DEF Rename
      <4>2. {c} \union told \subseteq Client
        BY <3>3
      <4> HIDE DEF told
      <4> QED
        BY <4>1, <4>2, SendType
    <3>5. RegisteredHasNick'
      BY <2>4, NoNickAssumption DEF Rename, RenamedInDirectory, RenamedInChannels,
         RegisteredHasNick
    <3> QED
      BY <2>4, <3>1, <3>2, <3>4, <3>5 DEF Rename
  <2> QED
    BY <1>3, <2>2, <2>3, <2>4 DEF NICK
<1> QED
  BY <1>1, <1>2, <1>3 DEF RegistrationCommand

\* Commands about membership.
LEMMA JoinType ==
  ASSUME TypeOK, NEW c \in Client, NEW ch \in Chan, NEW key, JOIN(c, ch, key),
         UNCHANGED receivedClientMsgProcessQueue
  PROVE  DataTypeOK'
<1> USE DEF TypeOK, DataTypeOK, ClientTypeOK, ChannelTypeOK, ListTypeOK,
            RegisteredHasNick, lifeVars, channelVars, listVars, identityVars
<1>1. CASE Reply(c)
  BY <1>1, ReplyType
<1>2. CASE NoEffect
  BY <1>2 DEF NoEffect
<1>3. CASE c \in bRegistered /\ CreateChannel(c, ch)
  <2>1. Nickname[c] \in Nick
    BY <1>3
  <2>2. Clients' \in [Chan -> NickMap]
    BY <1>3, <2>1 DEF CreateChannel, EmptyClients, NickMap
  <2>3. Settings' \in [Chan -> ChannelSettings]
    BY <1>3, NoTopicAssumption DEF CreateChannel, NewChannelSettings, ChannelSettings
  <2>4. MsgSendingQueue' \subseteq Client
    BY <1>3, <2>2, ReceiversType DEF CreateChannel, AnnounceJoin, Send
  <2> QED
    BY <1>3, <2>1, <2>2, <2>3, <2>4 DEF CreateChannel
<1>4. CASE EnterChannel(c, ch)
  <2>1. Clients' \in [Chan -> NickMap]
    BY <1>4 DEF EnterChannel, WithMember, NickMap
  <2>2. MsgSendingQueue' \subseteq Client
    BY <1>4, <2>1, ReceiversType DEF EnterChannel, AnnounceJoin, Send
  <2> QED
    BY <1>4, <2>1, <2>2 DEF EnterChannel
<1> QED
  BY <1>1, <1>2, <1>3, <1>4 DEF JOIN

LEMMA PartCommandType ==
  ASSUME TypeOK, NEW c \in Client, NEW ch \in Chan, PART(c, ch),
         UNCHANGED receivedClientMsgProcessQueue
  PROVE  DataTypeOK'
<1> USE DEF TypeOK, DataTypeOK, ClientTypeOK, ChannelTypeOK, ListTypeOK,
            RegisteredHasNick, lifeVars, channelVars, listVars, identityVars
<1>1. CASE Reply(c)
  BY <1>1, ReplyType
<1>2. CASE ~Reply(c)
  <2>1. /\ Clients' \in [Chan -> NickMap]
        /\ Operators' \in [Chan -> SUBSET Nick]
        /\ Channels' \in [Client -> SUBSET Chan]
    BY <1>2, PartType DEF PART
  <2>2. MsgSendingQueue' \subseteq Client
    BY <1>2, <2>1, ReceiversType DEF PART, Send
  <2> QED
    BY <1>2, <2>1, <2>2 DEF PART
<1> QED
  BY <1>1, <1>2

LEMMA KickType ==
  ASSUME TypeOK, NEW c \in Client, NEW ch \in Chan, NEW nick \in Nick,
         KICK(c, ch, nick), UNCHANGED receivedClientMsgProcessQueue
  PROVE  DataTypeOK'
<1> USE DEF TypeOK, DataTypeOK, ClientTypeOK, ChannelTypeOK, ListTypeOK,
            RegisteredHasNick, lifeVars, channelVars, listVars, identityVars
<1> DEFINE target == findClientGlobal(mClients, nick)
<1>1. CASE Reply(c)
  BY <1>1, ReplyType
<1>2. CASE ~Reply(c)
  <2>1. target \in Client \union {NoClient} /\ mClients' \in NickMap
    BY <1>2, FindType DEF KICK
  <2>2. CASE target = NoClient \/ FindClient(ch, nick) = NoClient
    BY <1>2, <2>1, <2>2 DEF KICK, Send
  <2>3. CASE ~(target = NoClient \/ FindClient(ch, nick) = NoClient)
    <3>1. target \in Client
      BY <2>1, <2>3
    <3>2. /\ partClientFromChannel(target, ch)
          /\ Send({target} \union ChannelReceivers(Clients'[ch], Live))
      BY <1>2, <2>3 DEF KICK
    <3>3. /\ Clients' \in [Chan -> NickMap]
          /\ Operators' \in [Chan -> SUBSET Nick]
          /\ Channels' \in [Client -> SUBSET Chan]
      BY <3>1, <3>2, PartType
    <3>4. MsgSendingQueue' \subseteq Client
      BY <3>1, <3>2, <3>3, ReceiversType DEF Send
    <3> QED
      BY <1>2, <2>1, <3>3, <3>4 DEF KICK
  <2> QED
    BY <2>2, <2>3
<1> QED
  BY <1>1, <1>2

LEMMA InviteType ==
  ASSUME TypeOK, NEW c \in Client, NEW ch \in Chan, NEW nick \in Nick,
         INVITE(c, ch, nick), UNCHANGED receivedClientMsgProcessQueue, NickLookup
  PROVE  DataTypeOK'
<1> USE DEF TypeOK, DataTypeOK, ClientTypeOK, ChannelTypeOK, ListTypeOK,
            RegisteredHasNick, lifeVars, channelVars, listVars, identityVars
<1> DEFINE target == findClientGlobal(mClients, nick)
<1>1. CASE Reply(c)
  BY <1>1, ReplyType
<1>2. CASE ~Reply(c)
  <2>1. target \in Client \union {NoClient} /\ mClients' \in NickMap
    BY <1>2, FindType DEF INVITE
  <2>2. target # NoClient => target \in Client /\ Nickname[target] \in Nick
    BY <2>1 DEF NickLookup, findClientGlobal, NickMap
  <2>3. InvitedClients' \in [Chan -> SUBSET Nick] /\ MsgSendingQueue' \subseteq Client
    BY <1>2, <2>2 DEF INVITE, Send
  <2> QED
    BY <1>2, <2>1, <2>3 DEF INVITE
<1> QED
  BY <1>1, <1>2

\* Commands about settings.
LEMMA SettingsType ==
  ASSUME NEW old \in ChannelSettings, NEW letter \in Modes \ {"o"}, NEW add \in BOOLEAN,
         NEW new \in SettingsAfter(old, letter, add)
  PROVE  new \in ChannelSettings
<1> USE DEF ChannelSettings
<1>1. CASE letter = "i"
  BY <1>1 DEF SettingsAfter
<1>2. CASE letter = "t"
  BY <1>2 DEF SettingsAfter
<1>3. CASE letter = "k"
  <2>1. PICK k \in Key \union {NoKey} : new = [old EXCEPT !.bPrivate = add, !.Password = k]
    BY <1>3 DEF SettingsAfter
  <2> QED
    BY <2>1
<1>4. CASE letter = "l"
  <2>1. PICK l \in Limits \union {0} : new = [old EXCEPT !.MaxClients = l]
    BY <1>4 DEF SettingsAfter
  <2> QED
    BY <2>1
<1> QED
  BY <1>1, <1>2, <1>3, <1>4, ModesAssumption

LEMMA ModeType ==
  ASSUME TypeOK, NickLookup, NEW c \in Client, NEW ch \in Chan, NEW add \in BOOLEAN,
         MODE(c, ch, add), UNCHANGED receivedClientMsgProcessQueue
  PROVE  DataTypeOK'
<1> USE DEF TypeOK, DataTypeOK, ClientTypeOK, ChannelTypeOK, ListTypeOK,
            RegisteredHasNick, lifeVars, identityVars
<1>1. CASE Reply(c)
  BY <1>1, ReplyType
<1>2. CASE ~Reply(c)
  <2> DEFINE Frame == UNCHANGED <<identityVars, lifeVars, Channels, Clients, InvitedClients,
                                  mUnregistedClients, mClientReleaseQueue>>
  <2>1. Frame
    BY <1>2 DEF MODE
  <2>2. \A live : ChannelReceivers(Clients[ch], live) \subseteq Client
    BY ReceiversType
  <2>3. CASE ModeRefused(c, ch)
    BY <2>1, <2>2, <2>3 DEF ModeRefused, Send
  <2>4. ASSUME NEW nick \in Nick, ModeOperator(c, ch, add, nick)
        PROVE  DataTypeOK'
    <3> DEFINE target == findClientGlobal(mClients, nick)
    <3>1. target \in Client \union {NoClient} /\ mClients' \in NickMap
      BY <2>4, FindType DEF ModeOperator
    <3>2. target # NoClient => target \in Client /\ Nickname[target] \in Nick
      BY <3>1 DEF NickLookup, findClientGlobal, NickMap
    <3>3. Operators' \in [Chan -> SUBSET Nick]
      BY <2>4, <3>2 DEF ModeOperator
    <3>4. MsgSendingQueue' \subseteq Client
      BY <2>4, <2>2 DEF ModeOperator, Send
    <3> QED
      BY <2>1, <2>4, <3>1, <3>3, <3>4 DEF ModeOperator
  <2>5. CASE ModeSettings(c, ch, add)
    <3>1. PICK letter \in Modes \ {"o"} : \E new \in SettingsAfter(Settings[ch], letter, add) :
            Settings' = [Settings EXCEPT ![ch] = new]
      BY <2>5 DEF ModeSettings
    <3>2. PICK new \in SettingsAfter(Settings[ch], letter, add) :
            Settings' = [Settings EXCEPT ![ch] = new]
      BY <3>1
    <3>3. Settings' \in [Chan -> ChannelSettings]
      BY <3>2, SettingsType
    <3>4. MsgSendingQueue' \subseteq Client
      BY <2>5, <2>2 DEF ModeSettings, Send
    <3> QED
      BY <2>1, <2>5, <3>3, <3>4 DEF ModeSettings
  <2> QED
    BY <1>2, <2>3, <2>4, <2>5 DEF MODE
<1> QED
  BY <1>1, <1>2

LEMMA TopicType ==
  ASSUME TypeOK, NEW c \in Client, NEW ch \in Chan, NEW topic \in Topics,
         TOPIC(c, ch, topic), UNCHANGED receivedClientMsgProcessQueue
  PROVE  DataTypeOK'
<1> USE DEF TypeOK, DataTypeOK, ClientTypeOK, ChannelTypeOK, ListTypeOK,
            RegisteredHasNick, lifeVars, listVars, identityVars
<1>1. CASE Reply(c)
  BY <1>1, ReplyType
<1>2. CASE ~Reply(c)
  <2>1. Settings' \in [Chan -> ChannelSettings]
    BY <1>2 DEF TOPIC, ChannelSettings
  <2>2. MsgSendingQueue' \subseteq Client
    BY <1>2, ReceiversType DEF TOPIC, Send
  <2> QED
    BY <1>2, <2>1, <2>2 DEF TOPIC
<1> QED
  BY <1>1, <1>2

\* Messages and leaving.
LEMMA PrivmsgType ==
  ASSUME TypeOK, NEW c \in Client, PRIVMSG(c), UNCHANGED receivedClientMsgProcessQueue
  PROVE  DataTypeOK'
<1> USE DEF TypeOK, DataTypeOK, ClientTypeOK, ChannelTypeOK, ListTypeOK,
            RegisteredHasNick, lifeVars, channelVars, listVars, identityVars
<1>1. CASE Reply(c)
  BY <1>1, ReplyType
<1>2. ASSUME NEW ch \in Chan, MessageToChannel(c, ch), ~Reply(c)
      PROVE  DataTypeOK'
  <2>1. MsgSendingQueue' \subseteq Client
    BY <1>2, ReceiversType DEF MessageToChannel, Send
  <2> QED
    BY <1>2, <2>1 DEF MessageToChannel
<1>3. ASSUME NEW nick \in Nick, MessageToUser(c, nick), ~Reply(c)
      PROVE  DataTypeOK'
  <2>1. /\ findClientGlobal(mClients, nick) \in Client \union {NoClient}
        /\ mClients' \in NickMap
    BY <1>3, FindType DEF MessageToUser
  <2>2. MsgSendingQueue' \subseteq Client
    BY <1>3, <2>1 DEF MessageToUser, Send
  <2> QED
    BY <1>3, <2>1, <2>2 DEF MessageToUser
<1> QED
  BY <1>1, <1>2, <1>3 DEF PRIVMSG

LEMMA QuitType ==
  ASSUME TypeOK, NEW c \in Client, QUIT(c), UNCHANGED receivedClientMsgProcessQueue
  PROVE  DataTypeOK'
<1> USE DEF TypeOK
<1>1. MsgSendingQueue \in SUBSET Client
  BY DEF ClientTypeOK
<1>2. CASE DisconnectLater(c)
  BY <1>1, <1>2, QuitNoticeType
     DEF DisconnectLater, DataTypeOK, ClientTypeOK, ChannelTypeOK, ListTypeOK,
         RegisteredHasNick, channelVars, listVars, identityVars
<1>3. CASE CloseSucceeds(c, MsgSendingQueue)
  BY <1>1, <1>3, CloseSucceedsType DEF DataTypeOK
<1>4. CASE CloseFails(c, MsgSendingQueue) /\ KeptOnCloseFailure
  BY <1>1, <1>4, CloseFailsType
     DEF KeptOnCloseFailure, DataTypeOK, ClientTypeOK, ChannelTypeOK, ListTypeOK,
         RegisteredHasNick, channelVars, listVars, identityVars
<1> QED
  BY <1>2, <1>3, <1>4 DEF QUIT

\* Every command.
LEMMA CommandType ==
  ASSUME TypeOK, NickLookup, NEW c \in Client, Command(c)
  PROVE  TypeOK'
<1>1. UNCHANGED receivedClientMsgProcessQueue /\ LoopTypeOK'
  BY DEF Command, loopVars, TypeOK, LoopTypeOK
<1>2. DataTypeOK'
  BY <1>1, RegistrationType, JoinType, PartCommandType, KickType, InviteType, ModeType,
     TopicType, PrivmsgType, QuitType, ReplyType DEF Command, ChannelCommand
<1> QED
  BY <1>1, <1>2 DEF DataTypeOK, TypeOK

-----------------------------------------------------------------------------
(***************************************************************************)
(* Type correctness: the event loop                                         *)
(***************************************************************************)

\* destroyResources keeps the types of what it assigns.
LEMMA DestroyType ==
  ASSUME TypeOK, destroyResources
  PROVE  bSocketClosed' \subseteq Client /\ ListTypeOK' /\ LoopTypeOK'
<1>1. Entries(mClients) \subseteq Client
  BY EntriesType DEF TypeOK, ListTypeOK
<1> QED
  BY <1>1
     DEF TypeOK, ClientTypeOK, destroyResources, ListedClients, ListTypeOK, LoopTypeOK,
         EmptyClients, NickMap

\* A stop that leaves the clients' own data alone, but for expiry and QUIT messages.
LEMMA StopType ==
  ASSUME TypeOK, destroyResources, bExpired' \subseteq Client,
         MsgSendingQueue' \subseteq Client,
         UNCHANGED <<accepted, identityVars, Channels, channelVars>>
  PROVE  TypeOK'
BY DestroyType DEF TypeOK, ClientTypeOK, ChannelTypeOK, RegisteredHasNick,
     identityVars, channelVars

LEMMA TakeType ==
  ASSUME TypeOK, NEW e, Take(e), status' \in {"running", "aborted"},
         UNCHANGED <<phase, todo, curr>>
  PROVE  LoopTypeOK'
BY DEF TypeOK, LoopTypeOK, Take

LEMMA SkipType ==
  ASSUME TypeOK, SkipEvent
  PROVE  DataTypeOK'
BY DEF TypeOK, DataTypeOK, ClientTypeOK, ChannelTypeOK, ListTypeOK, RegisteredHasNick,
     SkipEvent, identityVars, lifeVars, channelVars, listVars

LEMMA DisconnectOnEventType ==
  ASSUME TypeOK, NEW e \in ClientEvents, DisconnectOnEvent(e)
  PROVE  TypeOK'
<1>1. e.client \in Client /\ MsgSendingQueue \in SUBSET Client
  BY DEF ClientEvents, TypeOK, ClientTypeOK
<1>2. CASE /\ Take(e) /\ LoopGoesOn
           /\ CloseSucceeds(e.client, MsgSendingQueue)
           /\ UNCHANGED receivedClientMsgProcessQueue
  BY <1>1, <1>2, CloseSucceedsType, TakeType DEF TypeOK, LoopGoesOn, Take, Running
<1>3. CASE /\ CloseFails(e.client, MsgSendingQueue)
           /\ destroyResources
           /\ UNCHANGED <<accepted, identityVars, Channels, channelVars>>
  BY <1>1, <1>3, CloseFailsType, StopType
<1> QED
  BY <1>2, <1>3 DEF DisconnectOnEvent

LEMMA HandleEventType ==
  ASSUME TypeOK, HandleEvent
  PROVE  TypeOK'
<1>1. \A e : Take(e) /\ LoopGoesOn => LoopTypeOK'
  BY TakeType DEF LoopGoesOn, Take, Running
<1>2. CASE AcceptClients
  BY <1>1, <1>2 DEF AcceptClients, TypeOK, ClientTypeOK, ChannelTypeOK, ListTypeOK,
       RegisteredHasNick, identityVars, channelVars
<1>3. ASSUME NEW c \in Client, ErrorEvent(c)
      PROVE  TypeOK'
  <2>1. [client |-> c, kind |-> "EOF"] \in ClientEvents
    BY DEF ClientEvents
  <2> QED
    BY <1>1, <1>3, <2>1, SkipType, DisconnectOnEventType DEF ErrorEvent, TypeOK,
       DataTypeOK
<1>4. ASSUME NEW c \in Client, ReadEvent(c)
      PROVE  TypeOK'
  <2> DEFINE e == [client |-> c, kind |-> "READ"]
  <2>1. e \in ClientEvents
    BY DEF ClientEvents
  <2>2. CASE Take(e) /\ LoopGoesOn /\ SkipEvent
    BY <1>1, <2>2, SkipType DEF TypeOK, DataTypeOK
  <2>3. CASE DisconnectOnEvent(e)
    BY <2>1, <2>3, DisconnectOnEventType
  <2>4. CASE /\ Take(e) /\ LoopGoesOn
             /\ receivedClientMsgProcessQueue' = receivedClientMsgProcessQueue \union {c}
             /\ UNCHANGED <<identityVars, lifeVars, MsgSendingQueue, Channels,
                            channelVars, listVars>>
    BY <1>1, <2>4 DEF TypeOK, ClientTypeOK, ChannelTypeOK, ListTypeOK, RegisteredHasNick,
         identityVars, lifeVars, channelVars, listVars
  <2> QED
    BY <1>4, <2>2, <2>3, <2>4 DEF ReadEvent
<1>5. ASSUME NEW c \in Client, SendLast(c)
      PROVE  TypeOK'
  <2>1. LoopTypeOK'
    BY <1>1, <1>5 DEF SendLast
  <2>2. MsgSendingQueue \ {c} \in SUBSET Client
    BY DEF TypeOK, ClientTypeOK
  <2>3. CASE /\ MsgSendingQueue' = MsgSendingQueue \ {c}
             /\ UNCHANGED <<identityVars, lifeVars, Channels, channelVars, listVars>>
    BY <1>5, <2>1, <2>3 DEF SendLast, TypeOK, ClientTypeOK, ChannelTypeOK, ListTypeOK,
         RegisteredHasNick, identityVars, lifeVars, channelVars, listVars
  <2>4. CASE CloseSucceeds(c, MsgSendingQueue \ {c})
    BY <1>5, <2>1, <2>2, <2>4, CloseSucceedsType DEF SendLast, TypeOK
  <2>5. CASE CloseFails(c, MsgSendingQueue \ {c}) /\ KeptOnCloseFailure
    BY <1>5, <2>1, <2>2, <2>5, CloseFailsType
       DEF SendLast, KeptOnCloseFailure, TypeOK, ClientTypeOK, ChannelTypeOK, ListTypeOK,
           RegisteredHasNick, identityVars, channelVars, listVars
  <2> QED
    BY <1>5, <2>3, <2>4, <2>5 DEF SendLast
<1>6. ASSUME NEW c \in Client, WriteEvent(c)
      PROVE  TypeOK'
  <2>1. [client |-> c, kind |-> "WRITE"] \in ClientEvents
    BY DEF ClientEvents
  <2> QED
    BY <1>1, <1>5, <1>6, <2>1, SkipType, DisconnectOnEventType
       DEF WriteEvent, TypeOK, DataTypeOK
<1>7. ASSUME NEW e \in ClientEvents, DestroyedClientEvent(e)
      PROVE  TypeOK'
  BY <1>7, SkipType, TakeType DEF DestroyedClientEvent, TypeOK, DataTypeOK
<1> QED
  BY <1>2, <1>3, <1>4, <1>6, <1>7 DEF HandleEvent

\* The actions of the loop outside of events and commands.
LEMMA LoopType ==
  ASSUME TypeOK,
         \/ KeventReturnsEvents \/ KeventReturnsNone \/ NextIteration \/ NextClient
         \/ EndProcessing \/ LoopFails \/ \E c \in Client : ShutdownCommand(c)
  PROVE  TypeOK'
<1> USE DEF TypeOK, ClientTypeOK, ChannelTypeOK, ListTypeOK, LoopTypeOK,
    RegisteredHasNick,
            identityVars, lifeVars, channelVars, listVars
<1>1. CASE KeventReturnsEvents
  <2>1. observedEvents' \subseteq Ready
    BY <1>1 DEF KeventReturnsEvents, kSubset
  <2> QED
    BY <1>1, <2>1 DEF KeventReturnsEvents, Ready
<1>2. CASE KeventReturnsNone
  BY <1>2 DEF KeventReturnsNone
<1>3. CASE NextIteration
  BY <1>3 DEF NextIteration
<1>4. CASE NextClient
  BY <1>4 DEF NextClient
<1>5. CASE EndProcessing
  BY <1>5 DEF EndProcessing
<1>6. CASE LoopFails
  BY <1>6, StopType DEF LoopFails
<1>7. ASSUME NEW c \in Client, ShutdownCommand(c)
      PROVE  TypeOK'
  BY <1>7, StopType DEF ShutdownCommand
<1> QED
  BY <1>1, <1>2, <1>3, <1>4, <1>5, <1>6, <1>7

\* The initial state has the types, whatever the constants.
LEMMA InitType == Init => TypeOK
BY NoTopicAssumption, LimitsAssumption
   DEF Init, TypeOK, ClientTypeOK, ChannelTypeOK, ListTypeOK, LoopTypeOK,
       RegisteredHasNick, NickMap, EmptyClients, ChannelSettings, NewChannelSettings

\* Every step keeps the types, given the directory: MODE +o and INVITE record the
\* nickname of a client found in mClients, which must not be empty.
LEMMA TypeStep == TypeOK /\ NickLookup /\ [Next]_vars => TypeOK'
<1> SUFFICES ASSUME TypeOK, NickLookup, [Next]_vars
             PROVE  TypeOK'
  OBVIOUS
<1>1. CASE KeventWaits \/ Terminated \/ UNCHANGED vars
  BY <1>1
     DEF KeventWaits, Terminated, vars, identityVars, lifeVars, channelVars, listVars,
         loopVars, TypeOK, ClientTypeOK, ChannelTypeOK, ListTypeOK, LoopTypeOK,
         RegisteredHasNick
<1>2. ASSUME NEW c \in Client, Command(c)
      PROVE  TypeOK'
  BY <1>2, CommandType
<1>3. CASE HandleEvent
  BY <1>3, HandleEventType
<1> QED
  BY <1>1, <1>2, <1>3, LoopType DEF Next

-----------------------------------------------------------------------------
(***************************************************************************)
(* The nickname directory                                                   *)
(***************************************************************************)

\* What NickLookup needs to be inductive: a client that executes a command is not
\* expired, hence not closed either, when it is registered.
ClosedAreExpired == Running => bSocketClosed \subseteq bExpired

DirectoryInv == TypeOK /\ NickLookup /\ ClosedAreExpired

\* The commands by which one client looks up another.
LookupCommands == {"PRIVMSG", "KICK", "INVITE", "MODE"}

\* A client that leaves may stay open for a while: to be sent the rest of its messages
\* after QUIT, or because close() failed.
MayLeaveOpen == "QUIT" \in Commands \/ "close" \in CallsThatFail

\* Steps that leave the clients' flags and names alone and at most erase an
\* expired entry of the directory, by a lookup.
LookupStep ==
  /\ UNCHANGED <<bRegistered, Nickname, bExpired, bSocketClosed>>
  /\ \/ mClients' = mClients
     \/ /\ Commands \intersect LookupCommands # {}
        /\ \E nick \in Nick : mClients' = AfterFind(mClients, nick)

\* Steps of an unregistered client that may give it a name, and may register it.
NamingStep(c) ==
  /\ Running /\ c = curr
  /\ c \notin bRegistered \union bExpired
  /\ \A d \in Client : d # c => Nickname'[d] = Nickname[d]
  /\ Nickname'[c] # Nickname[c] => <<c, Nickname'[c]>> \in Claims
  /\ UNCHANGED <<bExpired, bSocketClosed>>
  /\ \E map \in {mClients, AfterFind(mClients, Nickname'[c])} :
       \/ UNCHANGED bRegistered /\ mClients' = map
       \/ /\ bRegistered' = bRegistered \union {c}
          /\ Nickname'[c] # NoNick
          /\ findClientGlobal(map, Nickname'[c]) = NoClient
          /\ mClients' = [map EXCEPT ![Nickname'[c]] = c]

\* NICK by a registered client.
RenamingStep(c) ==
  /\ Running /\ c = curr
  /\ c \in bRegistered \ bExpired
  /\ UNCHANGED <<bRegistered, bExpired, bSocketClosed>>
  /\ \E nick \in Nick :
       /\ <<c, nick>> \in Claims
       /\ findClientGlobal(mClients, nick) = NoClient
       /\ Nickname' = [Nickname EXCEPT ![c] = nick]
       /\ mClients' = [Erase(AfterFind(mClients, nick), Nickname[c]) EXCEPT ![nick] = c]

\* An open client is marked expired, and perhaps closed and erased under its name.
LeavingStep(c) ==
  /\ Running
  /\ c \notin bSocketClosed
  /\ bExpired' = bExpired \union {c}
  /\ UNCHANGED <<bRegistered, Nickname>>
  /\ \/ MayLeaveOpen /\ UNCHANGED <<bSocketClosed, mClients>>
     \/ /\ bSocketClosed' = bSocketClosed \union {c}
        /\ mClients' = Erase(mClients, Nickname[c])

\* The directory is emptied and the loop ends, perhaps with one more client expired.
StoppingStep ==
  /\ UNCHANGED <<bRegistered, Nickname>>
  /\ mClients' = EmptyClients /\ status' = "stopped"
  /\ bExpired' = bExpired \/ \E c \in Client : bExpired' = bExpired \union {c}

DirectoryStep ==
  \/ LookupStep
  \/ \E c \in Client : NamingStep(c) \/ RenamingStep(c) \/ LeavingStep(c)
  \/ StoppingStep

\* registerClient is a naming step.
LEMMA RegisterStep ==
  ASSUME NEW c \in Client, Running, c = curr, c \notin bRegistered \union bExpired,
         NEW map \in {mClients, AfterFind(mClients, Nickname'[c])},
         \A d \in Client : d # c => Nickname'[d] = Nickname[d],
         Nickname'[c] # Nickname[c] => <<c, Nickname'[c]>> \in Claims,
         UNCHANGED <<bExpired, bSocketClosed>>,
         registerClient(c, map)
  PROVE  NamingStep(c)
BY DEF registerClient, Complete, NamingStep

LEMMA CommandStep ==
  ASSUME TypeOK, ClosedAreExpired, NEW c \in Client, Command(c)
  PROVE  DirectoryStep
<1> USE DEF lifeVars, identityVars, listVars
<1>1. Running /\ c = curr /\ c \notin bExpired
  BY DEF Command, Processes
<1>2. Reply(c) => LookupStep
  BY DEF Reply, LookupStep
<1>3. ASSUME NEW matches \in BOOLEAN, PASS(c, matches)
      PROVE  DirectoryStep
  BY <1>1, <1>2, <1>3, RegisterStep DEF PASS, DirectoryStep
<1>4. ASSUME USER(c)
      PROVE  DirectoryStep
  BY <1>1, <1>2, <1>4, RegisterStep DEF USER, DirectoryStep
<1>5. ASSUME NEW nick \in Nick, <<c, nick>> \in Claims, NICK(c, nick)
      PROVE  DirectoryStep
  <2>1. CASE FirstNick(c, nick)
    <3>1. Nickname'[c] = nick /\ \A d \in Client : d # c => Nickname'[d] = Nickname[d]
      BY <2>1 DEF FirstNick, TypeOK, ClientTypeOK
    <3> QED
      BY <1>1, <1>5, <2>1, <3>1, RegisterStep DEF FirstNick, DirectoryStep
  <2>2. CASE findClientGlobal(mClients, nick) = NoClient /\ Rename(c, nick)
    BY <1>1, <1>5, <2>2 DEF Rename, RenamedInDirectory, RenamedInChannels, RenamingStep,
       DirectoryStep
  <2> QED
    BY <1>2, <1>5, <2>1, <2>2 DEF NICK, DirectoryStep
<1>6. ASSUME NEW ch \in Chan, ChannelCommand(c, ch)
      PROVE  DirectoryStep
  <2>1. ASSUME NEW key, JOIN(c, ch, key)
        PROVE  LookupStep
    BY <1>2, <2>1 DEF JOIN, NoEffect, CreateChannel, EnterChannel, LookupStep
  <2>2. ASSUME PART(c, ch)
        PROVE  LookupStep
    BY <1>2, <2>2 DEF PART, LookupStep
  <2>3. ASSUME "KICK" \in Commands, NEW nick \in Nick, KICK(c, ch, nick)
        PROVE  LookupStep
    BY <1>2, <2>3 DEF KICK, LookupStep, LookupCommands
  <2>4. ASSUME "INVITE" \in Commands, NEW nick \in Nick, INVITE(c, ch, nick)
        PROVE  LookupStep
    BY <1>2, <2>4 DEF INVITE, LookupStep, LookupCommands
  <2>5. ASSUME "MODE" \in Commands, NEW add \in BOOLEAN, MODE(c, ch, add)
        PROVE  LookupStep
    BY <1>2, <2>5 DEF MODE, ModeRefused, ModeOperator, ModeSettings, LookupStep,
       LookupCommands
  <2>6. ASSUME NEW topic \in Topics, TOPIC(c, ch, topic)
        PROVE  LookupStep
    BY <1>2, <2>6 DEF TOPIC, LookupStep
  <2> QED
    BY <1>6, <2>1, <2>2, <2>3, <2>4, <2>5, <2>6 DEF ChannelCommand, DirectoryStep
<1>7. ASSUME "PRIVMSG" \in Commands, PRIVMSG(c)
      PROVE  DirectoryStep
  BY <1>2, <1>7 DEF PRIVMSG, MessageToChannel, MessageToUser, LookupStep, LookupCommands,
     DirectoryStep
<1>8. ASSUME "QUIT" \in Commands, QUIT(c)
      PROVE  DirectoryStep
  BY <1>1, <1>8
     DEF ClosedAreExpired, QUIT, DisconnectLater, CloseSucceeds, Unlist, CloseFails, KeptOnCloseFailure,
         LeavingStep, MayLeaveOpen, DirectoryStep
<1> QED
  BY <1>2, <1>3, <1>4, <1>5, <1>6, <1>7, <1>8
     DEF Command, RegistrationCommand, DirectoryStep

LEMMA EventStep ==
  ASSUME HandleEvent
  PROVE  DirectoryStep
<1> USE DEF lifeVars, identityVars, listVars
<1>1. SkipEvent => LookupStep
  BY DEF SkipEvent, LookupStep
<1>2. ASSUME NEW c \in Client \ bSocketClosed, NEW e, e.client = c, DisconnectOnEvent(e)
      PROVE  DirectoryStep
  BY <1>2
     DEF DisconnectOnEvent, Take, CloseSucceeds, Unlist, CloseFails, destroyResources,
         ListedClients, LeavingStep, MayLeaveOpen,
         StoppingStep, DirectoryStep
<1>3. CASE AcceptClients
  BY <1>3 DEF AcceptClients, LookupStep, DirectoryStep
<1>4. ASSUME NEW c \in Client, ErrorEvent(c) \/ ReadEvent(c)
      PROVE  DirectoryStep
  BY <1>1, <1>2, <1>4 DEF ErrorEvent, ReadEvent, LookupStep, DirectoryStep
<1>5. ASSUME NEW c \in Client, WriteEvent(c)
      PROVE  DirectoryStep
  <2>1. SendLast(c) /\ c \notin bSocketClosed => DirectoryStep
    BY DEF SendLast, Take, CloseSucceeds, Unlist, CloseFails, KeptOnCloseFailure, LookupStep,
         LeavingStep, MayLeaveOpen, DirectoryStep
  <2> QED
    BY <1>1, <1>2, <1>5, <2>1 DEF WriteEvent, DirectoryStep
<1>6. ASSUME NEW e \in ClientEvents, DestroyedClientEvent(e)
      PROVE  DirectoryStep
  BY <1>1, <1>6 DEF DestroyedClientEvent, DirectoryStep
<1> QED
  BY <1>3, <1>4, <1>5, <1>6 DEF HandleEvent

\* Every step of the server is one of the directory's kinds of steps.
LEMMA EveryStep ==
  ASSUME DirectoryInv, [Next]_vars
  PROVE  DirectoryStep
<1> USE DEF lifeVars, identityVars, listVars, vars
<1>1. CASE UNCHANGED vars
  BY <1>1 DEF LookupStep, DirectoryStep
<1>2. CASE \/ KeventReturnsEvents \/ KeventReturnsNone \/ KeventWaits \/ NextIteration
           \/ NextClient \/ EndProcessing \/ Terminated
  BY <1>2 DEF KeventReturnsEvents, KeventReturnsNone, KeventWaits, NextIteration,
       NextClient, EndProcessing, Terminated, LookupStep, DirectoryStep
<1>3. CASE LoopFails \/ \E c \in Client : ShutdownCommand(c)
  BY <1>3 DEF LoopFails, ShutdownCommand, destroyResources, ListedClients, StoppingStep,
     DirectoryStep
<1> QED
  BY <1>1, <1>2, <1>3, EventStep, CommandStep DEF Next, DirectoryInv

\* Looking up and erasing names never brings in a wrong entry.
LEMMA NickLookupStep ==
  ASSUME DirectoryInv, TypeOK', DirectoryStep
  PROVE  NickLookup'
<1> USE DEF DirectoryInv, TypeOK, ClientTypeOK, ListTypeOK, NickMap
<1>1. \A nick : \A n \in Nick :
        AfterFind(mClients, nick)[n] \in {NoClient, mClients[n]}
  BY DEF AfterFind, Erase
<1>2. CASE LookupStep
  BY <1>1, <1>2 DEF LookupStep, NickLookup
<1>3. ASSUME NEW c \in Client, NamingStep(c)
      PROVE  NickLookup'
  <2>1. PICK map \in {mClients, AfterFind(mClients, Nickname'[c])} :
          \/ UNCHANGED bRegistered /\ mClients' = map
          \/ /\ bRegistered' = bRegistered \union {c}
             /\ Nickname'[c] # NoNick
             /\ mClients' = [map EXCEPT ![Nickname'[c]] = c]
    BY <1>3 DEF NamingStep
  <2>2. \A n \in Nick : map[n] \in {NoClient, mClients[n]}
    BY <1>1
  <2>3. map \in NickMap
    <3>1. AfterFind(mClients, Nickname'[c]) \in NickMap
      BY FindType
    <3> QED
      BY <3>1
  <2>4. \A n \in Nick : map[n] # NoClient =>
          /\ Nickname'[map[n]] = n
          /\ map[n] \in bRegistered \ bSocketClosed'
    BY <1>3, <2>2 DEF NamingStep, NickLookup
  <2>5. c \notin bSocketClosed'
    BY <1>3 DEF NamingStep, ClosedAreExpired
  <2> QED
    BY <2>1, <2>3, <2>4, <2>5 DEF NickLookup
<1>4. ASSUME NEW c \in Client, RenamingStep(c)
      PROVE  NickLookup'
  <2>1. PICK nick \in Nick :
          /\ Nickname' = [Nickname EXCEPT ![c] = nick]
          /\ mClients' = [Erase(AfterFind(mClients, nick), Nickname[c]) EXCEPT ![nick] = c]
    BY <1>4 DEF RenamingStep
  <2>2. \A n \in Nick \ {nick} : mClients'[n] \in {NoClient, mClients[n]} /\ mClients'[n] # c
    BY <1>1, <2>1, NoClientAssumption DEF Erase, NickLookup
  <2>3. mClients'[nick] = c /\ c \in bRegistered \ bSocketClosed
    BY <1>4, <2>1 DEF RenamingStep, ClosedAreExpired, Erase
  <2> QED
    BY <1>4, <2>1, <2>2, <2>3 DEF RenamingStep, NickLookup
<1>5. ASSUME NEW c \in Client, LeavingStep(c)
      PROVE  NickLookup'
  BY <1>5 DEF LeavingStep, NickLookup, Erase
<1>6. CASE StoppingStep
  BY <1>6 DEF StoppingStep, NickLookup, EmptyClients
<1> QED
  BY <1>2, <1>3, <1>4, <1>5, <1>6 DEF DirectoryStep

\* A closed socket stays that of an expired client: only a disconnection closes one
\* while the loop runs, and no step takes the mark back.
LEMMA ClosedStep ==
  ASSUME DirectoryInv, DirectoryStep, Running' => Running
  PROVE  ClosedAreExpired'
BY DEF DirectoryInv, DirectoryStep, ClosedAreExpired, LookupStep, NamingStep,
       RenamingStep, LeavingStep, StoppingStep, Running

\* The loop never starts again.
LEMMA RunningStep ==
  ASSUME [Next]_vars, Running'
  PROVE  Running
<1> USE DEF Running, loopVars, vars
<1>1. ASSUME NEW e, DisconnectOnEvent(e)
      PROVE  Running
  BY <1>1 DEF DisconnectOnEvent, Take
<1>2. CASE HandleEvent
  BY <1>1, <1>2
     DEF HandleEvent, AcceptClients, ErrorEvent, ReadEvent, WriteEvent, SendLast,
         DestroyedClientEvent, Take
<1>3. ASSUME NEW c \in Client, Command(c) \/ ShutdownCommand(c)
      PROVE  Running
  BY <1>3 DEF Command, ShutdownCommand, Processes
<1> QED
  BY <1>2, <1>3 DEF Next, KeventReturnsEvents, KeventReturnsNone, KeventWaits, LoopFails,
       NextIteration, NextClient, EndProcessing, Terminated

LEMMA DirectoryInvHolds == Spec => []DirectoryInv
<1>1. Init => DirectoryInv
  BY InitType DEF Init, DirectoryInv, NickLookup, ClosedAreExpired, EmptyClients
<1>2. DirectoryInv /\ [Next]_vars => DirectoryInv'
  BY TypeStep, EveryStep, NickLookupStep, ClosedStep, RunningStep DEF DirectoryInv
<1> QED
  BY <1>1, <1>2, PTL DEF Spec

\* In every reachable state of the server every variable has its type; no nickname
\* map of the server or of a channel ever has the empty nickname as a key, since
\* registerClient refuses a client that has not given one (Server.cpp:836).
THEOREM TypeCorrect == Spec => []TypeOK
<1>1. DirectoryInv => TypeOK
  BY DEF DirectoryInv
<1> QED
  BY <1>1, DirectoryInvHolds, PTL

\* For any numbers of clients, nicknames and channels, any batch size and whichever
\* system calls fail: a name in mClients leads to a registered, open client of that
\* name.  NICK, registerClient, forceDisconnectClient and findClientGlobal, which
\* write the map without looking at each other, keep it so.
THEOREM NickLookupHolds == Spec => []NickLookup
<1>1. DirectoryInv => NickLookup
  BY DEF DirectoryInv
<1> QED
  BY <1>1, DirectoryInvHolds, PTL

-----------------------------------------------------------------------------
(***************************************************************************)
(* The lists of the server                                                  *)
(***************************************************************************)

\* Everything the loop works on was accepted once.
OnlyAccepted ==
  /\ bRegistered \union bSocketClosed \subseteq accepted
  /\ receivedClientMsgProcessQueue \union todo \subseteq accepted
  /\ curr \in accepted \union {NoClient}
  /\ \A e \in observedEvents : e.client \in accepted \union {NoClient}

ListsInv == DirectoryInv /\ OnlyAccepted /\ UnregisteredListed /\ DeferredRelease

\* What a step does to the lists when c registers, or is closed, or neither.
ListsKept == UNCHANGED <<bRegistered, bSocketClosed, mUnregistedClients, mClientReleaseQueue>>

ListsRegister(c) ==
  /\ bRegistered' = bRegistered \union {c}
  /\ mUnregistedClients' = mUnregistedClients \ {c}
  /\ UNCHANGED <<bSocketClosed, mClientReleaseQueue>>

ListsClose(c) ==
  /\ bSocketClosed' = bSocketClosed \union {c}
  /\ mUnregistedClients' = mUnregistedClients \ {c}
  /\ mClientReleaseQueue' = mClientReleaseQueue \union {c}
  /\ UNCHANGED bRegistered

ListsStep(c) == ListsKept \/ ListsRegister(c) \/ ListsClose(c)

LEMMA CommandLists ==
  ASSUME NEW c \in Client, Command(c)
  PROVE  UNCHANGED accepted /\ ListsStep(c)
<1> USE DEF identityVars, lifeVars, listVars, ListsStep, ListsKept, ListsRegister,
    ListsClose
<1> DEFINE Goal == UNCHANGED accepted /\ ListsStep(c)
<1>1. CASE RegistrationCommand(c)
  <2>1. \A matches \in BOOLEAN : PASS(c, matches) => Goal
    BY DEF PASS, Reply, registerClient, Complete
  <2>2. USER(c) => Goal
    BY DEF USER, Reply, registerClient, Complete
  <2>3. \A nick \in Nick : NICK(c, nick) => Goal
    BY DEF NICK, FirstNick, Rename, RenamedInDirectory, RenamedInChannels, Reply,
       registerClient, Complete
  <2> QED
    BY <1>1, <2>1, <2>2, <2>3 DEF RegistrationCommand
<1>2. ASSUME NEW ch \in Chan, ChannelCommand(c, ch)
      PROVE  Goal
  <2>1. \A key : JOIN(c, ch, key) => Goal
    BY DEF JOIN, Reply, NoEffect, CreateChannel, EnterChannel
  <2>2. \A nick : KICK(c, ch, nick) \/ INVITE(c, ch, nick) => Goal
    BY DEF KICK, INVITE, Reply
  <2>3. \A add : MODE(c, ch, add) => Goal
    BY DEF MODE, Reply
  <2>4. \A topic : PART(c, ch) \/ TOPIC(c, ch, topic) => Goal
    BY DEF PART, TOPIC, Reply
  <2> QED
    BY <1>2, <2>1, <2>2, <2>3, <2>4 DEF ChannelCommand
<1>3. CASE PRIVMSG(c)
  BY <1>3 DEF PRIVMSG, MessageToChannel, MessageToUser, Reply
<1>4. CASE QUIT(c)
  BY <1>4 DEF QUIT, DisconnectLater, CloseSucceeds, Unlist, CloseFails, KeptOnCloseFailure
<1>5. CASE Reply(c)
  BY <1>5 DEF Reply
<1> QED
  BY <1>1, <1>2, <1>3, <1>4, <1>5 DEF Command

\* A step on the lists of an accepted client, while the loop's own variables name
\* only accepted clients and no event is added, keeps the invariant.
LEMMA ListsStepInv ==
  ASSUME ListsInv, NEW c \in accepted, Running, ListsStep(c), UNCHANGED accepted,
         observedEvents' \subseteq observedEvents,
         receivedClientMsgProcessQueue' \subseteq receivedClientMsgProcessQueue \union {c},
         UNCHANGED <<todo, curr>>
  PROVE  OnlyAccepted' /\ UnregisteredListed' /\ DeferredRelease'
BY DEF ListsInv, OnlyAccepted, UnregisteredListed, DeferredRelease, ListsStep, ListsKept,
       ListsRegister, ListsClose

\* destroyResources closes accepted clients only.
LEMMA StopLists ==
  ASSUME ListsInv, Running, destroyResources, UNCHANGED <<accepted, bRegistered>>
  PROVE  OnlyAccepted' /\ UnregisteredListed' /\ DeferredRelease'
<1>1. Entries(mClients) \subseteq bRegistered
  BY DEF ListsInv, DirectoryInv, NickLookup, Entries
<1>2. mUnregistedClients \subseteq accepted
  BY DEF ListsInv, UnregisteredListed
<1> QED
  BY <1>1, <1>2 DEF ListsInv, OnlyAccepted, UnregisteredListed, DeferredRelease,
       destroyResources, ListedClients, Running

LEMMA EventLists ==
  ASSUME ListsInv, HandleEvent
  PROVE  OnlyAccepted' /\ UnregisteredListed' /\ DeferredRelease'
<1> USE DEF lifeVars, identityVars, listVars
<1> DEFINE Goal == OnlyAccepted' /\ UnregisteredListed' /\ DeferredRelease'
<1>1. ASSUME NEW e \in ClientEvents, e.client \in Client, e \in observedEvents
      PROVE  e.client \in accepted
  BY <1>1, NoClientAssumption DEF ListsInv, OnlyAccepted
<1>2. ASSUME NEW e \in ClientEvents, Take(e), SkipEvent, UNCHANGED <<todo, curr>>
      PROVE  Goal
  BY <1>2
     DEF Take, SkipEvent, ListsInv, OnlyAccepted, UnregisteredListed, DeferredRelease,
         Running
<1>3. ASSUME NEW e \in ClientEvents, DisconnectOnEvent(e)
      PROVE  Goal
  <2>1. e \in observedEvents /\ Running /\ e.client \in accepted
    BY <1>1, <1>3 DEF DisconnectOnEvent, Take, ClientEvents
  <2>2. CASE /\ Take(e) /\ LoopGoesOn
             /\ CloseSucceeds(e.client, MsgSendingQueue)
             /\ UNCHANGED receivedClientMsgProcessQueue
    BY <2>1, <2>2, ListsStepInv DEF Take, LoopGoesOn, CloseSucceeds, Unlist, ListsStep,
       ListsClose
  <2>3. CASE destroyResources /\ UNCHANGED <<accepted, identityVars>>
    BY <2>1, <2>3, StopLists
  <2> QED
    BY <1>3, <2>2, <2>3 DEF DisconnectOnEvent
<1>4. CASE AcceptClients
  <2>1. PICK new \in SUBSET (Client \ accepted) :
          /\ accepted' = accepted \union new
          /\ mUnregistedClients' = mUnregistedClients \union new
    BY <1>4 DEF AcceptClients
  <2> QED
    BY <1>4, <2>1 DEF AcceptClients, Take, LoopGoesOn, ListsInv, OnlyAccepted,
         UnregisteredListed, DeferredRelease, Running
<1>5. ASSUME NEW c \in Client, ErrorEvent(c)
      PROVE  Goal
  BY <1>2, <1>3, <1>5 DEF ErrorEvent, ClientEvents, LoopGoesOn
<1>6. ASSUME NEW c \in Client, ReadEvent(c)
      PROVE  Goal
  <2> DEFINE e == [client |-> c, kind |-> "READ"]
  <2>1. CASE /\ Take(e) /\ LoopGoesOn
             /\ receivedClientMsgProcessQueue' = receivedClientMsgProcessQueue \union {c}
             /\ UNCHANGED <<identityVars, lifeVars, listVars>>
    <3>1. e \in ClientEvents /\ e.client = c
      BY DEF ClientEvents
    <3>2. e \in observedEvents /\ Running
      BY <2>1 DEF Take
    <3> QED
      BY <1>1, <2>1, <3>1, <3>2, ListsStepInv DEF Take, LoopGoesOn, ListsStep, ListsKept
  <2> QED
    BY <1>2, <1>3, <1>6, <2>1 DEF ReadEvent, ClientEvents, LoopGoesOn
<1>7. ASSUME NEW c \in Client, WriteEvent(c)
      PROVE  Goal
  <2> DEFINE e == [client |-> c, kind |-> "WRITE"]
  <2>1. CASE SendLast(c)
    <3>1. e \in ClientEvents /\ e.client = c
      BY DEF ClientEvents
    <3>2. e \in observedEvents /\ Running
      BY <2>1 DEF SendLast, Take
    <3>3. UNCHANGED accepted /\ ListsStep(c)
      BY <2>1
         DEF SendLast, CloseSucceeds, Unlist, CloseFails, KeptOnCloseFailure, ListsStep,
             ListsKept, ListsClose
    <3> QED
      BY <1>1, <2>1, <3>1, <3>2, <3>3, ListsStepInv DEF SendLast, Take, LoopGoesOn
  <2> QED
    BY <1>2, <1>3, <1>7, <2>1 DEF WriteEvent, ClientEvents, LoopGoesOn
<1>8. ASSUME NEW e \in ClientEvents, DestroyedClientEvent(e)
      PROVE  Goal
  BY <1>2, <1>8 DEF DestroyedClientEvent
<1> QED
  BY <1>4, <1>5, <1>6, <1>7, <1>8 DEF HandleEvent

LEMMA ListsNext ==
  ASSUME ListsInv, [Next]_vars
  PROVE  OnlyAccepted' /\ UnregisteredListed' /\ DeferredRelease'
<1> USE DEF lifeVars, identityVars, listVars, loopVars, vars
<1> DEFINE Goal == OnlyAccepted' /\ UnregisteredListed' /\ DeferredRelease'
<1>1. CASE KeventWaits \/ Terminated \/ UNCHANGED vars
  BY <1>1 DEF KeventWaits, Terminated, ListsInv, OnlyAccepted, UnregisteredListed,
       DeferredRelease, Running
<1>2. CASE KeventReturnsEvents
  <2>1. observedEvents' \subseteq Ready
    BY <1>2 DEF KeventReturnsEvents, kSubset
  <2>2. \A e \in Ready : e.client \in (accepted \ bSocketClosed) \union {NoClient}
    BY DEF Ready, ListenEvent
  <2>3. NoClient \notin bSocketClosed
    BY NoClientAssumption DEF ListsInv, DirectoryInv, TypeOK, ClientTypeOK
  <2> QED
    BY <1>2, <2>1, <2>2, <2>3 DEF KeventReturnsEvents, ListsInv, OnlyAccepted,
         UnregisteredListed, DeferredRelease, Running
<1>3. CASE KeventReturnsNone \/ NextIteration \/ NextClient \/ EndProcessing
  BY <1>3 DEF KeventReturnsNone, NextIteration, NextClient, EndProcessing, ListsInv,
       OnlyAccepted, UnregisteredListed, DeferredRelease, Running
<1>4. CASE LoopFails \/ \E c \in Client : ShutdownCommand(c)
  BY <1>4, StopLists DEF LoopFails, ShutdownCommand, Processes
<1>5. ASSUME NEW c \in Client, Command(c)
      PROVE  Goal
  <2>1. c \in accepted /\ Running
    BY <1>5, NoClientAssumption DEF Command, Processes, ListsInv, OnlyAccepted
  <2> QED
    BY <1>5, <2>1, CommandLists, ListsStepInv DEF Command
<1> QED
  BY <1>1, <1>2, <1>3, <1>4, <1>5, EventLists DEF Next

LEMMA ListsInvHolds == Spec => []ListsInv
<1>1. Init => ListsInv
  BY InitType
     DEF Init, ListsInv, DirectoryInv, NickLookup, ClosedAreExpired, EmptyClients,
         OnlyAccepted, UnregisteredListed, DeferredRelease
<1>2. ListsInv /\ [Next]_vars => ListsInv'
  BY ListsNext, TypeStep, EveryStep, NickLookupStep, ClosedStep, RunningStep
     DEF ListsInv, DirectoryInv
<1> QED
  BY <1>1, <1>2, PTL DEF Spec

\* A client waits in mUnregistedClients from accept() to its registration or its
\* close, whichever comes first, and is never missed or left there: for any number
\* of clients and any order of registrations, disconnections and failed closes.
THEOREM UnregisteredListedHolds == Spec => []UnregisteredListed
<1>1. ListsInv => UnregisteredListed
  BY DEF ListsInv
<1> QED
  BY <1>1, ListsInvHolds, PTL

\* The release queue of the event loop (Server.cpp:135, 784) keeps a client that is
\* closed in the middle of a batch until no event of the batch points to it, for a
\* batch of any size.
THEOREM DeferredReleaseHolds == Spec => []DeferredRelease
<1>1. ListsInv => DeferredRelease
  BY DEF ListsInv
<1> QED
  BY <1>1, ListsInvHolds, PTL

-----------------------------------------------------------------------------
(***************************************************************************)
(* Expired clients                                                          *)
(***************************************************************************)

\* What the directory has to do with an expired client.
LEMMA DirectoryForgets ==
  ASSUME TypeOK, DirectoryStep, NEW d \in bExpired
  PROVE  /\ d \in bExpired' /\ Nickname'[d] = Nickname[d]
         /\ \A n \in Nick : mClients'[n] = d => mClients[n] = d
<1> USE NoClientAssumption DEF TypeOK, ClientTypeOK, ListTypeOK, NickMap
<1>1. d \in Client /\ d # NoClient
  OBVIOUS
<1>2. \A nick : \A n \in Nick :
        AfterFind(mClients, nick)[n] \in {NoClient, mClients[n]}
  BY DEF AfterFind, Erase
<1>3. CASE LookupStep
  BY <1>1, <1>2, <1>3 DEF LookupStep
<1>4. ASSUME NEW c \in Client, NamingStep(c)
      PROVE  /\ d \in bExpired' /\ Nickname'[d] = Nickname[d]
             /\ \A n \in Nick : mClients'[n] = d => mClients[n] = d
  <2>1. PICK map \in {mClients, AfterFind(mClients, Nickname'[c])} :
          mClients' = map \/ mClients' = [map EXCEPT ![Nickname'[c]] = c]
    BY <1>4 DEF NamingStep
  <2>2. \A n \in Nick : map[n] \in {NoClient, mClients[n]}
    BY <1>2
  <2>3. map \in NickMap
    <3>1. AfterFind(mClients, Nickname'[c]) \in NickMap
      BY FindType
    <3> QED
      BY <3>1
  <2>4. c # d
    BY <1>4 DEF NamingStep
  <2> QED
    BY <1>1, <1>4, <2>1, <2>2, <2>3, <2>4 DEF NamingStep
<1>5. ASSUME NEW c \in Client, RenamingStep(c)
      PROVE  /\ d \in bExpired' /\ Nickname'[d] = Nickname[d]
             /\ \A n \in Nick : mClients'[n] = d => mClients[n] = d
  <2>1. PICK nick \in Nick :
          /\ Nickname' = [Nickname EXCEPT ![c] = nick]
          /\ mClients' = [Erase(AfterFind(mClients, nick), Nickname[c]) EXCEPT ![nick] = c]
    BY <1>5 DEF RenamingStep
  <2>2. c # d
    BY <1>5 DEF RenamingStep
  <2> QED
    BY <1>1, <1>2, <1>5, <2>1, <2>2 DEF RenamingStep, Erase
<1>6. ASSUME NEW c \in Client, LeavingStep(c)
      PROVE  /\ d \in bExpired' /\ Nickname'[d] = Nickname[d]
             /\ \A n \in Nick : mClients'[n] = d => mClients[n] = d
  BY <1>1, <1>6 DEF LeavingStep, Erase
<1>7. CASE StoppingStep
  BY <1>1, <1>7 DEF StoppingStep, EmptyClients
<1> QED
  BY <1>3, <1>4, <1>5, <1>6, <1>7 DEF DirectoryStep

\* What the channels and the sending queues have to do with an expired client.
ChannelsForget(d) ==
  /\ Channels'[d] \subseteq Channels[d]
  /\ d \in MsgSendingQueue' => d \in MsgSendingQueue
  /\ \A ch \in Chan, n \in Nick : Clients'[ch][n] = d => Clients[ch][n] = d

\* A QUIT message is queued for no expired client.
LEMMA QuitNoticeForgets ==
  ASSUME NEW c, NEW queue \in SUBSET MsgSendingQueue, NEW d \in bExpired,
         d \in QuitNotice(c, queue)
  PROVE  d \in MsgSendingQueue
BY DEF QuitNotice, ConnectedReceivers, ChannelReceivers

LEMMA CloseForgets ==
  ASSUME TypeOK, NEW c \in Client, NEW queue \in SUBSET MsgSendingQueue, NEW d \in bExpired,
         \/ CloseSucceeds(c, queue)
         \/ CloseFails(c, queue) /\ UNCHANGED <<Channels, channelVars>>
  PROVE  ChannelsForget(d)
BY QuitNoticeForgets, NoClientAssumption
   DEF CloseSucceeds, Unlist, CloseFails, ChannelsForget, channelVars, Erase, TypeOK,
       ClientTypeOK, ChannelTypeOK

LEMMA ReplyForgets ==
  ASSUME NEW c, NEW d \in bExpired, Reply(c)
  PROVE  ChannelsForget(d)
BY DEF Reply, Send, ChannelsForget, channelVars

LEMMA PartForgets ==
  ASSUME TypeOK, NEW c \in Client, NEW ch \in Chan, NEW d \in bExpired,
         partClientFromChannel(c, ch), NEW receivers, Send(receivers)
  PROVE  ChannelsForget(d)
BY NoClientAssumption
   DEF partClientFromChannel, WithoutMember, Erase, Send, ChannelsForget, TypeOK,
       ClientTypeOK, ChannelTypeOK

LEMMA CommandForgets ==
  ASSUME TypeOK, NickLookup, NEW c \in Client, Command(c), NEW d \in bExpired
  PROVE  ChannelsForget(d)
<1> USE DEF channelVars
<1>1. c # d /\ d \in Client /\ d # NoClient
  BY NoClientAssumption DEF Command, Processes, TypeOK, ClientTypeOK
<1>2. CASE RegistrationCommand(c)
  <2>1. ASSUME NEW map, registerClient(c, map), UNCHANGED <<Channels, channelVars>>
        PROVE  ChannelsForget(d)
    BY <2>1 DEF registerClient, Complete, Send, ChannelsForget
  <2>2. ASSUME NEW nick \in Nick, Rename(c, nick)
        PROVE  ChannelsForget(d)
    BY <1>1, <2>2 DEF Rename, RenamedInDirectory, RenamedInChannels, Send,
       ChannelsForget, TypeOK, ChannelTypeOK, NickMap
  <2>3. \A matches \in BOOLEAN : PASS(c, matches) => ChannelsForget(d)
    BY <2>1, ReplyForgets DEF PASS
  <2>4. USER(c) => ChannelsForget(d)
    BY <2>1, ReplyForgets DEF USER
  <2>5. \A nick \in Nick : NICK(c, nick) => ChannelsForget(d)
    BY <2>1, <2>2, ReplyForgets DEF NICK, FirstNick
  <2> QED
    BY <1>2, <2>3, <2>4, <2>5 DEF RegistrationCommand
<1>3. ASSUME NEW ch \in Chan, ChannelCommand(c, ch)
      PROVE  ChannelsForget(d)
  <2>1. ASSUME NEW key, JOIN(c, ch, key)
        PROVE  ChannelsForget(d)
    <3>1. CASE CreateChannel(c, ch)
      BY <1>1, <3>1 DEF CreateChannel, AnnounceJoin, Send, ChannelsForget, EmptyClients,
           TypeOK, ClientTypeOK, ChannelTypeOK, NickMap
    <3>2. CASE EnterChannel(c, ch)
      BY <1>1, <3>2 DEF EnterChannel, AnnounceJoin, WithMember, Send, ChannelsForget,
           TypeOK, ClientTypeOK, ChannelTypeOK, NickMap
    <3>3. NoEffect => ChannelsForget(d)
      BY DEF NoEffect, ChannelsForget
    <3> QED
      BY <2>1, <3>1, <3>2, <3>3, ReplyForgets DEF JOIN
  <2>2. PART(c, ch) => ChannelsForget(d)
    BY ReplyForgets, PartForgets DEF PART
  <2>3. ASSUME NEW nick \in Nick, KICK(c, ch, nick)
        PROVE  ChannelsForget(d)
    <3> DEFINE target == findClientGlobal(mClients, nick)
    <3>1. CASE Send({c}) /\ UNCHANGED <<Channels, Clients>>
      BY <3>1 DEF Send, ChannelsForget
    <3>2. CASE /\ target # NoClient /\ partClientFromChannel(target, ch)
               /\ Send({target} \union ChannelReceivers(Clients'[ch], Live))
      <4>1. target \in Client
        BY <3>2 DEF findClientGlobal, TypeOK, ListTypeOK, NickMap
      <4> QED
        BY <3>2, <4>1, PartForgets
    <3> QED
      BY <2>3, <3>1, <3>2, ReplyForgets DEF KICK
  <2>4. \A nick \in Nick : INVITE(c, ch, nick) => ChannelsForget(d)
    BY ReplyForgets DEF INVITE, Send, ChannelsForget
  <2>5. \A add \in BOOLEAN : MODE(c, ch, add) => ChannelsForget(d)
    BY ReplyForgets DEF MODE, ModeRefused, ModeOperator, ModeSettings, Send,
       ChannelsForget
  <2>6. \A topic \in Topics : TOPIC(c, ch, topic) => ChannelsForget(d)
    BY ReplyForgets DEF TOPIC, Send, ChannelsForget
  <2> QED
    BY <1>3, <2>1, <2>2, <2>3, <2>4, <2>5, <2>6 DEF ChannelCommand
<1>4. CASE PRIVMSG(c)
  BY <1>4, ReplyForgets DEF PRIVMSG, MessageToChannel, MessageToUser, Send, ChannelsForget
<1>5. CASE QUIT(c)
  <2>1. DisconnectLater(c) => ChannelsForget(d)
    BY <1>1, QuitNoticeForgets DEF DisconnectLater, ChannelsForget, TypeOK, ClientTypeOK
  <2> QED
    BY <1>5, <2>1, CloseForgets DEF QUIT, KeptOnCloseFailure
<1> QED
  BY <1>2, <1>3, <1>4, <1>5, ReplyForgets DEF Command

LEMMA EventForgets ==
  ASSUME TypeOK, HandleEvent, NEW d \in bExpired
  PROVE  ChannelsForget(d)
<1> USE DEF channelVars
<1>1. UNCHANGED <<MsgSendingQueue, Channels, Clients>> => ChannelsForget(d)
  BY DEF ChannelsForget
<1>2. SkipEvent => ChannelsForget(d)
  BY <1>1 DEF SkipEvent
<1>3. ASSUME NEW e, e.client \in Client, DisconnectOnEvent(e)
      PROVE  ChannelsForget(d)
  BY <1>3, CloseForgets DEF DisconnectOnEvent
<1>4. ASSUME NEW c \in Client, SendLast(c)
      PROVE  ChannelsForget(d)
  <2>1. MsgSendingQueue \ {c} \in SUBSET MsgSendingQueue
    OBVIOUS
  <2>2. MsgSendingQueue' = MsgSendingQueue \ {c} /\ UNCHANGED <<Channels, channelVars>>
        => ChannelsForget(d)
    BY DEF ChannelsForget
  <2> QED
    BY <1>4, <2>1, <2>2, CloseForgets DEF SendLast, KeptOnCloseFailure
<1>5. ASSUME NEW c \in Client, ErrorEvent(c) \/ ReadEvent(c) \/ WriteEvent(c)
      PROVE  ChannelsForget(d)
  BY <1>1, <1>2, <1>3, <1>4, <1>5 DEF ErrorEvent, ReadEvent, WriteEvent
<1> QED
  BY <1>1, <1>2, <1>5 DEF HandleEvent, AcceptClients, DestroyedClientEvent

LEMMA ExpiredStep ==
  ASSUME DirectoryInv, [Next]_vars
  PROVE  ExpiredStays
<1> SUFFICES ASSUME NEW d \in bExpired
             PROVE  ChannelsForget(d)
  BY EveryStep, DirectoryForgets DEF DirectoryInv, ExpiredStays, ChannelsForget
<1>1. CASE HandleEvent \/ \E c \in Client : Command(c)
  BY <1>1, EventForgets, CommandForgets DEF DirectoryInv
<1>2. UNCHANGED <<MsgSendingQueue, Channels, Clients>> => ChannelsForget(d)
  BY DEF ChannelsForget
<1> QED
  BY <1>1, <1>2 DEF Next, KeventReturnsEvents, KeventReturnsNone, KeventWaits, LoopFails,
       NextIteration, NextClient, ShutdownCommand, EndProcessing, Terminated, vars,
       channelVars

\* A client that was marked expired, by QUIT or by a failed close(), takes part in
\* nothing any more: no later command of anybody joins it to a channel, renames it,
\* lists it or queues a message for it, however many clients and channels there are.
THEOREM ExpiredIsFinalHolds == Spec => ExpiredIsFinal
<1>1. DirectoryInv /\ [Next]_vars => [ExpiredStays]_vars
  BY ExpiredStep
<1> QED
  BY <1>1, DirectoryInvHolds, PTL DEF Spec, ExpiredIsFinal

=============================================================================
