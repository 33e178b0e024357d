---------------------------- MODULE ClientCommands ----------------------------
(***************************************************************************)
(* The client commands, one operator per file of Server/ClientCommand.      *)
(* Each is what Server::executeClientCommand_<COMMAND> does for client c,    *)
(* whose bExpired flag is known to be FALSE (processClientMsg returns early  *)
(* otherwise).  It leaves the variables of the event loop to its caller.     *)
(*                                                                          *)
(* Arguments come from the constants.  A command naming several channels or  *)
(* receivers, or several mode letters, is the sequence of the commands that  *)
(* name one each: the handlers loop over them without keeping state between. *)
(* Replies are modelled by whose sending queue they fill, not by their text. *)
(***************************************************************************)
EXTENDS ServerState

\* A numeric reply to c and nothing else.
Reply(c) ==
  /\ Send({c})
  /\ UNCHANGED <<identityVars, lifeVars, Channels, channelVars, listVars>>

\* The handler returns without any effect.
NoEffect ==
  UNCHANGED <<identityVars, lifeVars, MsgSendingQueue, Channels, channelVars,
              listVars>>

-----------------------------------------------------------------------------
(***************************************************************************)
(* Registration: PASS, USER, NICK                                           *)
(***************************************************************************)

\* PASS <password>: matches tells whether the argument is the server's password.
PASS(c, matches) ==
  \/ c \in bRegistered /\ Reply(c)
  \/ /\ c \notin bRegistered
     /\ ServerPass' = IF matches THEN ServerPass \union {c} ELSE ServerPass \ {c}
     /\ UNCHANGED <<Username, Nickname>>
     /\ registerClient(c, mClients)
     /\ UNCHANGED <<lifeVars, Channels, channelVars, mClientReleaseQueue>>

\* USER <username> <hostname> <servername> <realname>, with valid names.
USER(c) ==
  \/ c \in bRegistered /\ Reply(c)
  \/ /\ c \notin bRegistered
     /\ Username' = Username \union {c}
     /\ UNCHANGED <<ServerPass, Nickname>>
     /\ registerClient(c, mClients)
     /\ UNCHANGED <<lifeVars, Channels, channelVars, mClientReleaseQueue>>

\* NICK by a client that is not registered: keep the name and try to register.
FirstNick(c, nick) ==
  /\ c \notin bRegistered
  /\ Nickname' = [Nickname EXCEPT ![c] = nick]
  /\ UNCHANGED <<ServerPass, Username>>
  /\ registerClient(c, AfterFind(mClients, nick))
  /\ UNCHANGED <<lifeVars, Channels, channelVars, mClientReleaseQueue>>

\* mClients after NICK by a registered client.  (Mutant: the new entry is missing.)
MutantRenamedAway(c, nick) == Erase(Erase(mClients, nick), Nickname[c])
RenamedInDirectory(c, nick) ==
  [Erase(AfterFind(mClients, nick), Nickname[c]) EXCEPT ![nick] = c]

\* channel->Clients after it, for all channels: the entry of the new name is erased
\* and set again, that of the old name stays.  (Mutant: it is erased only.)
MutantErasedInChannels(c, nick) ==
  [ch \in Chan |-> IF ch \in Channels[c] THEN Erase(Clients[ch], nick) ELSE Clients[ch]]
RenamedInChannels(c, nick) ==
  [ch \in Chan |-> IF ch \in Channels[c] THEN [Clients[ch] EXCEPT ![nick] = c]
                                         ELSE Clients[ch]]

Rename(c, nick) ==
  /\ c \in bRegistered
  /\ Nickname' = [Nickname EXCEPT ![c] = nick]
  /\ mClients' = RenamedInDirectory(c, nick)
  /\ Clients' = RenamedInChannels(c, nick)
  /\ Send({c} \union UNION {ChannelReceivers(Clients'[ch], HeldWith(mClients')) :
                              ch \in Channels[c]})
  /\ UNCHANGED <<bRegistered, ServerPass, Username, lifeVars, Channels, Operators,
                 InvitedClients, Settings, mUnregistedClients, mClientReleaseQueue>>

NICK(c, nick) ==
  \/ findClientGlobal(mClients, nick) # NoClient /\ Reply(c)
  \/ /\ findClientGlobal(mClients, nick) = NoClient
     /\ FirstNick(c, nick) \/ Rename(c, nick)

-----------------------------------------------------------------------------
(***************************************************************************)
(* Membership: JOIN, PART, KICK, INVITE                                     *)
(***************************************************************************)

\* The JOIN message reaches every member, the new one included.
AnnounceJoin(ch) == Send(ChannelReceivers(Clients'[ch], Live))

\* JOIN of a channel that does not exist creates it, with c as its operator.
CreateChannel(c, ch) ==
  /\ Clients' = [Clients EXCEPT ![ch] = [EmptyClients EXCEPT ![Nickname[c]] = c]]
  /\ Operators' = [Operators EXCEPT ![ch] = {Nickname[c]}]
  /\ InvitedClients' = [InvitedClients EXCEPT ![ch] = {}]
  /\ Settings' = [Settings EXCEPT ![ch] = NewChannelSettings]
  /\ Channels' = [Channels EXCEPT ![c] = @ \union {ch}]
  /\ AnnounceJoin(ch)
  /\ UNCHANGED <<identityVars, lifeVars, listVars>>

BadKey(ch, key) == Settings[ch].bPrivate /\ Settings[ch].Password # key

\* Clients.size() counts every entry, also those of clients already destroyed.
\* (Mutant: off by one.)
MutantFullTooLate(ch) ==
  /\ Settings[ch].MaxClients # 0
  /\ Cardinality({n \in Nick : Clients[ch][n] # NoClient}) > Settings[ch].MaxClients

ChannelIsFull(ch) ==
  /\ Settings[ch].MaxClients # 0
  /\ Cardinality({n \in Nick : Clients[ch][n] # NoClient}) >= Settings[ch].MaxClients

NotInvited(c, ch) ==
  Settings[ch].bInviteOnly /\ Nickname[c] \notin InvitedClients[ch]

EnterChannel(c, ch) ==
  /\ InvitedClients' = IF Settings[ch].bInviteOnly
                       THEN [InvitedClients EXCEPT ![ch] = @ \ {Nickname[c]}]
                       ELSE InvitedClients
  /\ Clients' = WithMember(ch, Nickname[c], c)
  /\ Channels' = [Channels EXCEPT ![c] = @ \union {ch}]
  /\ AnnounceJoin(ch)
  /\ UNCHANGED <<identityVars, lifeVars, Operators, Settings, listVars>>

\* (Mutant: a client that is not registered may join.)
MutantJoinUnregistered(c, ch, key) ==
  \/ ~ChannelExists(ch) /\ CreateChannel(c, ch)
  \/ /\ ChannelExists(ch)
     /\ FindClient(ch, Nickname[c]) = NoClient /\ ~BadKey(ch, key)
     /\ EnterChannel(c, ch)

JOIN(c, ch, key) ==
  \/ c \notin bRegistered /\ Reply(c)
  \/ c \in bRegistered /\ ~ChannelExists(ch) /\ CreateChannel(c, ch)
  \/ /\ c \in bRegistered
     /\ ChannelExists(ch)
     /\ \/ FindClient(ch, Nickname[c]) # NoClient /\ NoEffect
        \/ /\ FindClient(ch, Nickname[c]) = NoClient
           /\ IF BadKey(ch, key) \/ ChannelIsFull(ch) \/ NotInvited(c, ch)
              THEN Reply(c)
              ELSE EnterChannel(c, ch)

\* c is a registered client whose nickname is listed in an existing channel.
OnChannel(c, ch) ==
  /\ c \in bRegistered
  /\ ChannelExists(ch)
  /\ FindClient(ch, Nickname[c]) # NoClient

PART(c, ch) ==
  \/ ~OnChannel(c, ch) /\ Reply(c)
  \/ /\ OnChannel(c, ch)
     /\ partClientFromChannel(c, ch)
     /\ Send({c} \union ChannelReceivers(Clients'[ch], Live))
     /\ UNCHANGED <<identityVars, lifeVars, InvitedClients, Settings, listVars>>

\* Commands of a channel operator on another client look that client up in
\* mClients, which may erase an entry, before anything else can be refused.
OperatorOnChannel(c, ch) == OnChannel(c, ch) /\ IsOperator(ch, Nickname[c])

KICK(c, ch, nick) ==
  \/ ~OperatorOnChannel(c, ch) /\ Reply(c)
  \/ /\ OperatorOnChannel(c, ch)
     /\ mClients' = AfterFind(mClients, nick)
     /\ LET target == findClientGlobal(mClients, nick)
        IN  IF target = NoClient \/ FindClient(ch, nick) = NoClient
            THEN Send({c}) /\ UNCHANGED <<Channels, Clients, Operators>>
            ELSE /\ partClientFromChannel(target, ch)
                 /\ Send({target} \union ChannelReceivers(Clients'[ch], Live))
     /\ UNCHANGED <<identityVars, lifeVars, InvitedClients, Settings,
                    mUnregistedClients, mClientReleaseQueue>>

INVITE(c, ch, nick) ==
  \/ ~OperatorOnChannel(c, ch) /\ Reply(c)
  \/ /\ OperatorOnChannel(c, ch)
     /\ mClients' = AfterFind(mClients, nick)
     /\ LET target == findClientGlobal(mClients, nick)
        IN  IF target = NoClient \/ FindClient(ch, Nickname[target]) # NoClient
            THEN Send({c}) /\ UNCHANGED InvitedClients
            ELSE IF Nickname[target] \in InvitedClients[ch]
            THEN UNCHANGED <<InvitedClients, MsgSendingQueue>>
            ELSE /\ InvitedClients' = [InvitedClients EXCEPT ![ch] =
                                         @ \union {Nickname[target]}]
                 /\ Send({c, target})
     /\ UNCHANGED <<identityVars, lifeVars, Channels, Clients, Operators, Settings,
                    mUnregistedClients, mClientReleaseQueue>>

-----------------------------------------------------------------------------
(***************************************************************************)
(* Channel settings: MODE, TOPIC                                            *)
(***************************************************************************)

\* A mode letter that is refused: no operator, no such nickname, no argument,
\* unknown letter.  The reply does not end the command: as after every MODE on a
\* channel, the members then receive the (possibly empty) list of changes.
ModeRefused(c, ch) ==
  /\ Send({c} \union ChannelReceivers(Clients[ch], Live))
  /\ UNCHANGED <<Operators, Settings, mClients>>

\* MODE <channel> +o|-o <nick>
ModeOperator(c, ch, add, nick) ==
  LET target == findClientGlobal(mClients, nick)
  IN  /\ IsOperator(ch, Nickname[c])
      /\ mClients' = AfterFind(mClients, nick)
      /\ IF target = NoClient
         THEN /\ UNCHANGED Operators
              /\ Send({c} \union ChannelReceivers(Clients[ch], HeldWith(mClients')))
         ELSE /\ Operators' = [Operators EXCEPT ![ch] =
                                 IF add THEN @ \union {Nickname[target]}
                                        ELSE @ \ {Nickname[target]}]
              /\ Send(ChannelReceivers(Clients[ch], Live))
      /\ UNCHANGED Settings

\* The settings after MODE <channel> +letter|-letter with a valid argument.
SettingsAfter(old, letter, add) ==
  CASE letter = "i" -> {[old EXCEPT !.bInviteOnly = add]}
    [] letter = "t" -> {[old EXCEPT !.bTopicProtected = add]}
    [] letter = "k" -> {[old EXCEPT !.bPrivate = add, !.Password = k] :
                          k \in IF add THEN Key \union {NoKey} ELSE {NoKey}}
    [] letter = "l" -> {[old EXCEPT !.MaxClients = l] :
                          l \in IF add THEN Limits ELSE {0}}

ModeSettings(c, ch, add) ==
  /\ IsOperator(ch, Nickname[c])
  /\ \E letter \in Modes \ {"o"} : \E new \in SettingsAfter(Settings[ch], letter, add) :
       Settings' = [Settings EXCEPT ![ch] = new]
  /\ Send(ChannelReceivers(Clients[ch], Live))
  /\ UNCHANGED <<mClients, Operators>>

MODE(c, ch, add) ==
  \/ ~(c \in bRegistered /\ ChannelExists(ch)) /\ Reply(c)
  \/ /\ c \in bRegistered /\ ChannelExists(ch)
     /\ \/ ModeRefused(c, ch)
        \/ "o" \in Modes /\ \E nick \in Nick : ModeOperator(c, ch, add, nick)
        \/ ModeSettings(c, ch, add)
     /\ UNCHANGED <<identityVars, lifeVars, Channels, Clients, InvitedClients,
                    mUnregistedClients, mClientReleaseQueue>>

\* TOPIC <channel> <topic>.  On a protected channel it is the operators that
\* the code refuses.
TopicRefused(c, ch) ==
  Settings[ch].bTopicProtected /\ IsOperator(ch, Nickname[c])

TOPIC(c, ch, topic) ==
  \/ /\ c \notin bRegistered \/ ch \notin Channels[c] \/ TopicRefused(c, ch)
     /\ Reply(c)
  \/ /\ c \in bRegistered /\ ch \in Channels[c] /\ ~TopicRefused(c, ch)
     /\ Settings' = [Settings EXCEPT ![ch].Topic = topic]
     /\ Send(ChannelReceivers(Clients[ch], Live))
     /\ UNCHANGED <<identityVars, lifeVars, Channels, Clients, Operators,
                    InvitedClients, listVars>>

-----------------------------------------------------------------------------
(***************************************************************************)
(* Messages and leaving: PRIVMSG, QUIT                                      *)
(***************************************************************************)

\* PRIVMSG <channel> <text>
MessageToChannel(c, ch) ==
  \/ ~OnChannel(c, ch) /\ Reply(c)
  \/ /\ OnChannel(c, ch)
     /\ Send(ChannelReceivers(Clients[ch], Live) \ {c})
     /\ UNCHANGED <<identityVars, lifeVars, Channels, channelVars, listVars>>

\* PRIVMSG <nickname> <text>
MessageToUser(c, nick) ==
  \/ c \notin bRegistered /\ Reply(c)
  \/ /\ c \in bRegistered
     /\ mClients' = AfterFind(mClients, nick)
     /\ LET user == findClientGlobal(mClients, nick)
        IN  Send({IF user = NoClient THEN c ELSE user})
     /\ UNCHANGED <<identityVars, lifeVars, Channels, channelVars,
                    mUnregistedClients, mClientReleaseQueue>>

PRIVMSG(c) ==
  \/ \E ch \in Chan : MessageToChannel(c, ch)
  \/ \E nick \in Nick : MessageToUser(c, nick)

\* disconnectClient(client) with messages still to send: the client is only
\* marked, it forgets its channels, and the channels keep their entries.
DisconnectLater(c) ==
  /\ c \in MsgSendingQueue
  /\ bExpired' = bExpired \union {c}
  /\ MsgSendingQueue' = QuitNotice(c, MsgSendingQueue)
  /\ Channels' = [Channels EXCEPT ![c] = {}]
  /\ UNCHANGED <<accepted, bSocketClosed, identityVars, channelVars, listVars>>

\* disconnectClient ignores the result of forceDisconnectClient.
QUIT(c) ==
  \/ DisconnectLater(c)
  \/ /\ c \notin MsgSendingQueue
     /\ \/ CloseSucceeds(c, MsgSendingQueue)
        \/ CloseFails(c, MsgSendingQueue) /\ KeptOnCloseFailure

=============================================================================
