-------------------------- MODULE DirectoryProofs ---------------------------
(***************************************************************************)
(* Proofs about who holds whom in Server.  mClients holds the control blocks*)
(* of the registered clients, and it is all that holds them between two    *)
(* iterations of the event loop; a client holds its channels               *)
(* (client->Channels), and they record it as a member (channel->Clients).  *)
(***************************************************************************)
EXTENDS ServerProofs, ServerDirectory, FiniteSetTheorems

\* No two open clients have the same nickname.  NICK refuses a name that is in use,
\* but a client that is not registered keeps the name it asked for, and another one
\* may be registered under it first: a disconnection then erases the other's entry
\* (run nick_collision).  The results of this module say that nothing else can.
DistinctNames ==
  \A c, d \in Client \ bSocketClosed :
    c # d /\ Nickname[c] = Nickname[d] => Nickname[c] = NoNick

-----------------------------------------------------------------------------
(***************************************************************************)
(* Registered clients are held by their entry in mClients                   *)
(***************************************************************************)

\* A registered client is found under its nickname until it is closed; once expired,
\* unless some command looks it up (run quit_lookup).
NamesHeld ==
  Running =>
    \A c \in bRegistered \ bSocketClosed :
      c \notin bExpired \/ Commands \intersect LookupCommands = {}
      => mClients[Nickname[c]] = c

\* Where clients only leave by a close() that succeeds, the expired ones are closed.
LeftAreClosed == Running /\ ~MayLeaveOpen => bExpired \subseteq bSocketClosed

HeldInv == ListsInv /\ NamesHeld /\ LeftAreClosed

\* A lookup erases nobody's entry but an expired client's.
LEMMA LookupHolds ==
  ASSUME HeldInv, LookupStep, Running
  PROVE  NamesHeld'
BY DEF HeldInv, ListsInv, DirectoryInv, TypeOK, ClientTypeOK, RegisteredHasNick, NamesHeld,
       LookupStep, AfterFind, Erase

\* The lookup of the name c asks for erases nobody's entry but that of a client of
\* this very name.
LEMMA FindOwnName ==
  ASSUME DirectoryInv, NEW n, NEW d \in bRegistered, mClients[Nickname[d]] = d,
         Nickname[d] # n, NEW map \in {mClients, AfterFind(mClients, n)}
  PROVE  map[Nickname[d]] = d
BY DEF DirectoryInv, TypeOK, ClientTypeOK, RegisteredHasNick, AfterFind, Erase

LEMMA NamingHolds ==
  ASSUME HeldInv, DistinctNames', NEW c \in Client, NamingStep(c)
  PROVE  NamesHeld'
<1> SUFFICES ASSUME Running', NEW d \in bRegistered' \ bSocketClosed',
                    d \notin bExpired \/ Commands \intersect LookupCommands = {}
             PROVE  mClients'[Nickname'[d]] = d
  BY DEF NamesHeld, NamingStep
<1> USE DEF HeldInv, ListsInv, DirectoryInv
<1> DEFINE n == Nickname'[c]
<1>1. PICK map \in {mClients, AfterFind(mClients, n)} :
        \/ UNCHANGED bRegistered /\ mClients' = map
        \/ /\ bRegistered' = bRegistered \union {c}
           /\ n # NoNick
           /\ mClients' = [map EXCEPT ![n] = c]
  BY DEF NamingStep
<1>2. map \in NickMap
  BY <1>1, FindType DEF TypeOK, ListTypeOK
<1>3. CASE d = c
  <2>1. c \notin bRegistered
    BY DEF NamingStep
  <2>2. n \in Nick
    BY <1>1, <1>3, <2>1, ClaimsAssumption DEF NamingStep, TypeOK, ClientTypeOK
  <2> QED
    BY <1>1, <1>2, <1>3, <2>1, <2>2 DEF NickMap
<1>4. CASE d # c
  <2>1. d \in bRegistered \ bSocketClosed /\ d \in Client
    BY <1>1, <1>4 DEF NamingStep, TypeOK, ClientTypeOK
  <2>2. Nickname'[d] = Nickname[d] /\ mClients[Nickname[d]] = d
    BY <1>4, <2>1 DEF NamingStep, NamesHeld
  <2>3. Nickname[d] \in Nick
    BY <2>1 DEF TypeOK, ClientTypeOK, RegisteredHasNick
  <2>4. c \in Client \ bSocketClosed'
    BY DEF NamingStep, ClosedAreExpired
  <2>5. Nickname[d] # n
    BY <1>4, <2>1, <2>2, <2>3, <2>4, NoNickAssumption DEF DistinctNames
  <2>6. map[Nickname[d]] = d
    BY <1>1, <2>1, <2>2, <2>5, FindOwnName
  <2> QED
    BY <1>1, <1>2, <2>2, <2>3, <2>5, <2>6 DEF NickMap
<1> QED
  BY <1>3, <1>4

LEMMA RenamingHolds ==
  ASSUME HeldInv, DistinctNames, DistinctNames', NEW c \in Client, RenamingStep(c)
  PROVE  NamesHeld'
<1> SUFFICES ASSUME Running', NEW d \in bRegistered \ bSocketClosed,
                    d \notin bExpired \/ Commands \intersect LookupCommands = {}
             PROVE  mClients'[Nickname'[d]] = d
  BY DEF NamesHeld, RenamingStep
<1> USE DEF HeldInv, ListsInv, DirectoryInv
<1>1. PICK nick \in Nick :
        /\ Nickname' = [Nickname EXCEPT ![c] = nick]
        /\ mClients' = [Erase(AfterFind(mClients, nick), Nickname[c]) EXCEPT ![nick] = c]
  BY DEF RenamingStep
<1>2. AfterFind(mClients, nick) \in NickMap
  BY FindType DEF TypeOK, ListTypeOK
<1>3. d \in Client /\ Nickname[d] \in Nick /\ Nickname \in [Client -> Nick \union {NoNick}]
  BY DEF TypeOK, ClientTypeOK, RegisteredHasNick
<1>4. \A n \in Nick : mClients'[n] = IF n = nick THEN c
                                     ELSE IF n = Nickname[c] THEN NoClient
                                     ELSE AfterFind(mClients, nick)[n]
  BY <1>1 DEF Erase
<1>5. CASE d = c
  BY <1>1, <1>3, <1>4, <1>5
<1>6. CASE d # c
  <2>1. Nickname'[d] = Nickname[d] /\ mClients[Nickname[d]] = d
    BY <1>1, <1>3, <1>6 DEF RenamingStep, NamesHeld, Running
  <2>2. c \in Client \ bSocketClosed /\ c \in Client \ bSocketClosed'
    BY DEF RenamingStep, ClosedAreExpired
  <2>3. Nickname[d] # Nickname[c]
    BY <1>3, <1>6, <2>2, NoNickAssumption DEF DistinctNames
  <2>4. Nickname'[c] = nick /\ d \in Client \ bSocketClosed'
    BY <1>1, <1>3 DEF RenamingStep
  <2>5. Nickname[d] # nick
    BY <1>3, <1>6, <2>1, <2>2, <2>4, NoNickAssumption DEF DistinctNames
  <2>6. AfterFind(mClients, nick)[Nickname[d]] = d
    BY <2>1, <2>5, FindOwnName
  <2> QED
    BY <1>3, <1>4, <2>1, <2>3, <2>5, <2>6
<1> QED
  BY <1>5, <1>6

LEMMA LeavingHolds ==
  ASSUME HeldInv, DistinctNames, NEW c \in Client, LeavingStep(c)
  PROVE  NamesHeld'
<1> SUFFICES ASSUME Running', NEW d \in bRegistered \ bSocketClosed',
                    d \notin bExpired' \/ Commands \intersect LookupCommands = {}
             PROVE  mClients'[Nickname[d]] = d
  BY DEF NamesHeld, LeavingStep
<1> USE DEF HeldInv, ListsInv, DirectoryInv
<1>1. d \in Client \ bSocketClosed /\ Nickname[d] \in Nick
  BY DEF LeavingStep, TypeOK, ClientTypeOK, RegisteredHasNick
<1>2. mClients[Nickname[d]] = d
  BY <1>1 DEF LeavingStep, NamesHeld
<1>3. CASE UNCHANGED mClients
  BY <1>2, <1>3
<1>4. CASE bSocketClosed' = bSocketClosed \union {c} /\ mClients' = Erase(mClients, Nickname[c])
  <2>1. d # c
    BY <1>4
  <2>2. Nickname[d] # Nickname[c]
    BY <1>1, <2>1, NoNickAssumption DEF DistinctNames, LeavingStep
  <2> QED
    BY <1>1, <1>2, <1>4, <2>2 DEF Erase
<1> QED
  BY <1>3, <1>4 DEF LeavingStep

LEMMA LeftAreClosedStep ==
  ASSUME HeldInv, DirectoryStep, Running
  PROVE  LeftAreClosed'
BY DEF HeldInv, DirectoryStep, LeftAreClosed, LookupStep, NamingStep, RenamingStep,
       LeavingStep, StoppingStep, Running

LEMMA HeldStep ==
  ASSUME HeldInv, DistinctNames, DistinctNames', [Next]_vars
  PROVE  NamesHeld' /\ LeftAreClosed'
<1>1. DirectoryStep
  BY EveryStep DEF HeldInv, ListsInv
<1>2. CASE ~Running'
  BY <1>2 DEF NamesHeld, LeftAreClosed
<1>3. CASE Running'
  <2>1. Running
    BY <1>3, RunningStep
  <2>2. StoppingStep => ~Running'
    BY DEF StoppingStep, Running
  <2> QED
    BY <1>1, <1>3, <2>1, <2>2, LookupHolds, NamingHolds, RenamingHolds, LeavingHolds,
       LeftAreClosedStep DEF DirectoryStep
<1> QED
  BY <1>2, <1>3

LEMMA HeldInvHolds == Spec /\ []DistinctNames => []HeldInv
<1>1. Init => NamesHeld /\ LeftAreClosed
  BY DEF Init, NamesHeld, LeftAreClosed
<1>2. /\ ListsInv /\ ListsInv' /\ NamesHeld /\ LeftAreClosed
      /\ DistinctNames /\ DistinctNames' /\ [Next]_vars
      => NamesHeld' /\ LeftAreClosed'
  BY HeldStep DEF HeldInv
<1>3. ListsInv /\ NamesHeld /\ LeftAreClosed => HeldInv
  BY DEF HeldInv
<1> QED
  BY <1>1, <1>2, <1>3, ListsInvHolds, PTL DEF Spec

\* A client that has not left is held: by mUnregistedClients or by its entry.
LEMMA Held ==
  ASSUME HeldInv, Running, NEW c \in accepted \ bSocketClosed,
         c \notin bExpired \/ Commands \intersect LookupCommands = {} \/ ~MayLeaveOpen
  PROVE  c \in ListedClients
<1> USE DEF HeldInv, ListsInv
<1>1. CASE c \in bRegistered
  <2>1. mClients[Nickname[c]] = c
    BY <1>1 DEF NamesHeld, LeftAreClosed
  <2>2. Nickname[c] \in Nick /\ c # NoClient
    BY <1>1, NoClientAssumption DEF DirectoryInv, TypeOK, ClientTypeOK, RegisteredHasNick
  <2> QED
    BY <2>1, <2>2 DEF ListedClients, Entries
<1>2. CASE c \notin bRegistered
  BY <1>2 DEF ListedClients, UnregisteredListed
<1> QED
  BY <1>1, <1>2

\* What the lists hold is not destroyed.
LEMMA ListedAreLive == ListedClients \subseteq Live
BY DEF ListedClients, Live, HeldWith

\* "Do not release a client if the client's event is still exists in the kqueue"
\* (Server.hpp:317): a client whose socket is open has not been destroyed, whatever
\* registers, renames itself or fails around it, if no two open clients share a
\* nickname, and if clients do not look each other up or do not leave while open.
THEOREM OpenClientIsHeldHolds ==
  ASSUME Commands \intersect LookupCommands = {} \/ ~MayLeaveOpen
  PROVE  Spec /\ []DistinctNames => []OpenClientIsHeld
<1>1. HeldInv => OpenClientIsHeld
  BY Held, ListedAreLive DEF OpenClientIsHeld
<1> QED
  BY <1>1, HeldInvHolds, PTL

\* The same without the last condition for the clients that have not left.
THEOREM StayingClientIsHeld ==
  Spec /\ []DistinctNames
  => [](Running => accepted \ (bSocketClosed \union bExpired) \subseteq Live)
<1>1. HeldInv => (Running => accepted \ (bSocketClosed \union bExpired) \subseteq Live)
  BY Held, ListedAreLive
<1> QED
  BY <1>1, HeldInvHolds, PTL

-----------------------------------------------------------------------------
(***************************************************************************)
(* The end of the loop                                                      *)
(***************************************************************************)

\* The server is stopped by destroyResources and by nothing else.
LEMMA StopStep ==
  ASSUME [Next]_vars, Running, status' = "stopped"
  PROVE  destroyResources /\ UNCHANGED <<accepted, bRegistered, Nickname>>
<1> USE DEF Running, identityVars
<1>1. ASSUME NEW e, DisconnectOnEvent(e)
      PROVE  destroyResources /\ UNCHANGED <<accepted, bRegistered, Nickname>>
  BY <1>1 DEF DisconnectOnEvent, LoopGoesOn
<1>2. CASE HandleEvent
  BY <1>1, <1>2
     DEF HandleEvent, AcceptClients, ErrorEvent, ReadEvent, WriteEvent, SendLast,
         DestroyedClientEvent, LoopGoesOn
<1>3. ASSUME NEW c \in Client, Command(c) \/ ShutdownCommand(c)
      PROVE  destroyResources /\ UNCHANGED <<accepted, bRegistered, Nickname>>
  BY <1>3 DEF Command, ShutdownCommand, loopVars
<1>4. ~ UNCHANGED status
  OBVIOUS
<1> QED
  BY <1>2, <1>3, <1>4 DEF Next, KeventReturnsEvents, KeventReturnsNone, KeventWaits,
       LoopFails, NextIteration, NextClient, EndProcessing, Terminated, vars, loopVars

\* Once the loop has ended nothing changes any more.
LEMMA StoppedStep ==
  ASSUME [Next]_vars, ~Running
  PROVE  UNCHANGED vars
<1>1. ASSUME NEW e, DisconnectOnEvent(e)
      PROVE  FALSE
  BY <1>1 DEF DisconnectOnEvent, Take
<1>2. CASE HandleEvent
  BY <1>1, <1>2
     DEF HandleEvent, AcceptClients, ErrorEvent, ReadEvent, WriteEvent, SendLast,
         DestroyedClientEvent, Take
<1> QED
  BY <1>2 DEF Next, KeventReturnsEvents, KeventReturnsNone, KeventWaits, LoopFails,
       NextIteration, NextClient, Command, ShutdownCommand, Processes, EndProcessing,
       Terminated

\* SHUTDOWN, a failed kevent() and a failed close() all close the socket of every
\* client accepted so far, registered or not: destroyResources (Server.cpp:960) finds
\* them in its two lists, under the same conditions.
THEOREM StopClosesSocketsHolds ==
  ASSUME Commands \intersect LookupCommands = {} \/ ~MayLeaveOpen
  PROVE  Spec /\ []DistinctNames => []StopClosesSockets
<1>1. Init => StopClosesSockets
  BY DEF Init, StopClosesSockets
<1>2. HeldInv /\ StopClosesSockets /\ [Next]_vars => StopClosesSockets'
  <2> SUFFICES ASSUME HeldInv, StopClosesSockets, [Next]_vars, status' = "stopped"
               PROVE  (accepted \subseteq bSocketClosed)'
    BY DEF StopClosesSockets
  <2>1. CASE Running
    <3>1. accepted \ bSocketClosed \subseteq ListedClients
      BY <2>1, Held
    <3>2. accepted' = accepted /\ bSocketClosed' = bSocketClosed \union ListedClients
      BY <2>1, StopStep DEF destroyResources
    <3> QED
      BY <3>1, <3>2
  <2>2. CASE ~Running
    BY <2>2, StoppedStep DEF StopClosesSockets, vars, lifeVars, loopVars
  <2> QED
    BY <2>1, <2>2
<1> QED
  BY <1>1, <1>2, HeldInvHolds, PTL DEF Spec

-----------------------------------------------------------------------------
(***************************************************************************)
(* The server implements the nickname directory                             *)
(***************************************************************************)

\* A lookup of n finds c.
Found(c, n) == mClients[n] = c /\ c \notin bExpired

\* Each client is found under one name at most, and the directory lists that name.
ListedNames ==
  \A c \in Client : /\ ListedName(c) \in Nick \union {NoNick}
                    /\ \A n \in Nick : ListedName(c) = n <=> Found(c, n)

LEMMA NamesAreFound == DirectoryInv => ListedNames
<1> SUFFICES ASSUME DirectoryInv, NEW c \in Client
             PROVE  /\ ListedName(c) \in Nick \union {NoNick}
                    /\ \A n \in Nick : ListedName(c) = n <=> Found(c, n)
  BY DEF ListedNames
<1> DEFINE names == {n \in Nick : findClientGlobal(mClients, n) = c}
<1>1. \A n \in Nick : n \in names <=> Found(c, n)
  BY NoClientAssumption DEF findClientGlobal, Found
<1>2. \A n \in names : Nickname[c] = n
  BY <1>1, NoClientAssumption DEF DirectoryInv, NickLookup, Found
<1>3. ListedName(c) = IF names = {} THEN NoNick ELSE CHOOSE n \in names : TRUE
  BY DEF ListedName
<1>4. names \subseteq Nick
  OBVIOUS
<1> HIDE DEF names
<1>5. CASE names = {}
  BY <1>1, <1>3, <1>5, NoNickAssumption
<1>6. CASE names # {}
  <2>1. (CHOOSE n \in names : TRUE) \in names
    BY <1>6
  <2> QED
    BY <1>1, <1>2, <1>3, <1>4, <1>6, <2>1
<1> QED
  BY <1>5, <1>6

LEMMA NamesAreFoundNext == DirectoryInv' => ListedNames'
BY NamesAreFound, PTL

\* A client that is found under the same names as before has the same name.
LEMMA SameName ==
  ASSUME ListedNames, ListedNames', NEW c \in Client,
         \A n \in Nick : Found(c, n)' <=> Found(c, n)
  PROVE  ListedName(c)' = ListedName(c)
BY NoNickAssumption DEF ListedNames

\* The name of every client but c stays.
OthersStay(c) == \A d \in Client \ {c} : \A n \in Nick : Found(d, n)' <=> Found(d, n)

DirName == [c \in Client |-> ListedName(c)]

LEMMA NameTaken ==
  ASSUME ListedNames, ListedNames', NEW c \in Client, NEW n \in Nick,
         OthersStay(c), Found(c, n)'
  PROVE  DirName' = [DirName EXCEPT ![c] = n]
<1>1. \A d \in Client \ {c} : ListedName(d)' = ListedName(d)
  BY SameName DEF OthersStay
<1>2. ListedName(c)' = n
  BY DEF ListedNames
<1> QED
  BY <1>1, <1>2 DEF DirName

LEMMA NameLeft ==
  ASSUME ListedNames, ListedNames', NEW c \in Client,
         OthersStay(c), c \in bExpired'
  PROVE  DirName' = [DirName EXCEPT ![c] = NoNick]
<1>1. \A d \in Client \ {c} : ListedName(d)' = ListedName(d)
  BY SameName DEF OthersStay
<1>2. ListedName(c)' = NoNick
  BY DEF ListedNames, Found
<1> QED
  BY <1>1, <1>2 DEF DirName

LEMMA NamesKept ==
  ASSUME ListedNames, ListedNames', \A d \in Client, n \in Nick : Found(d, n)' <=> Found(d, n)
  PROVE  DirName' = DirName
BY SameName DEF DirName

\* c takes the name n, c leaves, or the directory does not notice.
Takes(c, n) == /\ c \notin bExpired /\ DirName' = [DirName EXCEPT ![c] = n]
               /\ UNCHANGED bExpired
               /\ \A d \in Client : DirName[d] # n

Leaves(c) == /\ c \notin bExpired /\ DirName' = [DirName EXCEPT ![c] = NoNick]
             /\ bExpired' = bExpired \union {c}

Unnoticed == UNCHANGED <<DirName, bExpired>>

DirInv == DirectoryInv /\ ListedNames

\* A name for which a lookup finds nobody is free.
LEMMA FreeName ==
  ASSUME DirInv, NEW n \in Nick, findClientGlobal(mClients, n) = NoClient
  PROVE  /\ \A d \in Client : DirName[d] # n
         /\ \A d \in Client : ~Found(d, n)
BY NoClientAssumption DEF DirInv, ListedNames, Found, findClientGlobal, DirName

\* Erasing an expired client's entry changes no name.
LEMMA FindKeepsFound ==
  ASSUME NEW nick, NEW d \in Client \ bExpired, NEW n \in Nick
  PROVE  AfterFind(mClients, nick)[n] = d <=> mClients[n] = d
BY NoClientAssumption DEF AfterFind, Erase

LEMMA LookupUnnoticed ==
  ASSUME DirInv, ListedNames', LookupStep
  PROVE  Unnoticed
BY NamesKept, FindKeepsFound DEF DirInv, LookupStep, Found, Unnoticed

\* c is listed under n, and every other client is found as in map.
LEMMA EntryTakes ==
  ASSUME DirInv, ListedNames', NEW c \in Client \ bExpired, NEW n \in Nick, UNCHANGED bExpired,
         findClientGlobal(mClients, n) = NoClient, mClients'[n] = c,
         \A d \in Client \ (bExpired \union {c}), m \in Nick \ {n} :
           mClients'[m] = d <=> mClients[m] = d
  PROVE  Takes(c, n)
<1>1. Found(c, n)'
  BY DEF Found
<1>2. OthersStay(c)
  BY FreeName DEF OthersStay, Found
<1>3. DirName' = [DirName EXCEPT ![c] = n]
  BY <1>1, <1>2, NameTaken DEF DirInv
<1> QED
  BY <1>3, FreeName DEF Takes

LEMMA NamingRefines ==
  ASSUME DirInv, ListedNames', NEW c \in Client, NamingStep(c)
  PROVE  Unnoticed \/ \E n \in Nick : Takes(c, n)
<1>1. PICK map \in {mClients, AfterFind(mClients, Nickname'[c])} :
        \/ UNCHANGED bRegistered /\ mClients' = map
        \/ /\ bRegistered' = bRegistered \union {c}
           /\ Nickname'[c] # NoNick
           /\ findClientGlobal(map, Nickname'[c]) = NoClient
           /\ mClients' = [map EXCEPT ![Nickname'[c]] = c]
  BY DEF NamingStep
<1>2. map \in NickMap /\ mClients \in NickMap
  BY <1>1, FindType DEF DirInv, DirectoryInv, TypeOK, ListTypeOK
<1>3. \A d \in Client \ bExpired, m \in Nick : map[m] = d <=> mClients[m] = d
  BY <1>1, FindKeepsFound
<1>4. UNCHANGED bExpired /\ c \in Client \ bExpired
  BY DEF NamingStep
<1>5. CASE mClients' = map
  BY <1>3, <1>4, <1>5, NamesKept DEF DirInv, Found, Unnoticed
<1>6. CASE /\ Nickname'[c] # NoNick /\ findClientGlobal(map, Nickname'[c]) = NoClient
           /\ mClients' = [map EXCEPT ![Nickname'[c]] = c]
  <2>1. PICK n \in Nick : n = Nickname'[c]
    BY <1>6, ClaimsAssumption DEF NamingStep, DirInv, DirectoryInv, TypeOK, ClientTypeOK
  <2>2. findClientGlobal(mClients, n) = NoClient
    BY <1>1, <1>2, <1>6, <2>1, NoClientAssumption
       DEF findClientGlobal, AfterFind, Erase, NickMap
  <2>3. mClients'[n] = c /\ \A m \in Nick \ {n} : mClients'[m] = map[m]
    BY <1>2, <1>6, <2>1 DEF NickMap
  <2> QED
    BY <1>3, <1>4, <2>2, <2>3, EntryTakes
<1> QED
  BY <1>1, <1>5, <1>6

LEMMA RenamingRefines ==
  ASSUME DirInv, ListedNames', DistinctNames, NEW c \in Client, RenamingStep(c)
  PROVE  \E n \in Nick : Takes(c, n)
<1>1. PICK n \in Nick :
        /\ findClientGlobal(mClients, n) = NoClient
        /\ mClients' = [Erase(AfterFind(mClients, n), Nickname[c]) EXCEPT ![n] = c]
  BY DEF RenamingStep
<1>2. UNCHANGED bExpired /\ c \in Client \ bExpired /\ c \notin bSocketClosed
  BY DEF RenamingStep, DirInv, DirectoryInv, ClosedAreExpired
<1>3. \A m \in Nick : mClients'[m] = IF m = n THEN c
                                     ELSE IF m = Nickname[c] THEN NoClient
                                     ELSE AfterFind(mClients, n)[m]
  BY <1>1 DEF Erase
<1>4. \A d \in Client \ {c} : Nickname[c] \in Nick => mClients[Nickname[c]] # d
  BY <1>2, NoClientAssumption, NoNickAssumption
     DEF DirInv, DirectoryInv, NickLookup, DistinctNames
<1>5. \A d \in Client \ (bExpired \union {c}), m \in Nick \ {n} :
        mClients'[m] = d <=> mClients[m] = d
  <2> SUFFICES ASSUME NEW d \in Client \ (bExpired \union {c}), NEW m \in Nick \ {n}
               PROVE  mClients'[m] = d <=> mClients[m] = d
    OBVIOUS
  <2>1. CASE m = Nickname[c]
    BY <1>3, <1>4, <2>1, NoClientAssumption
  <2>2. CASE m # Nickname[c]
    BY <1>3, <2>2, FindKeepsFound
  <2> QED
    BY <2>1, <2>2
<1> QED
  BY <1>1, <1>2, <1>3, <1>5, EntryTakes

\* The entry a disconnection erases is that of the client itself.
LEMMA LeavingRefines ==
  ASSUME DirInv, ListedNames', DistinctNames, NEW c \in Client, LeavingStep(c)
  PROVE  Unnoticed \/ Leaves(c)
<1>1. bExpired' = bExpired \union {c} /\ c \notin bSocketClosed
  BY DEF LeavingStep
<1>2. \A d \in Client \ {c} : Nickname[c] \in Nick => mClients[Nickname[c]] # d
  BY <1>1, NoClientAssumption, NoNickAssumption
     DEF DirInv, DirectoryInv, NickLookup, DistinctNames
<1>3. \A d \in Client \ {c}, m \in Nick : mClients'[m] = d <=> mClients[m] = d
  BY <1>2, NoClientAssumption DEF LeavingStep, Erase
<1>4. CASE c \in bExpired
  <2>1. \A d \in Client, m \in Nick : Found(d, m)' <=> Found(d, m)
    BY <1>1, <1>3, <1>4 DEF Found
  <2> QED
    BY <1>1, <1>4, <2>1, NamesKept DEF DirInv, Unnoticed
<1>5. CASE c \notin bExpired
  <2>1. OthersStay(c)
    BY <1>1, <1>3 DEF OthersStay, Found
  <2> QED
    BY <1>1, <1>5, <2>1, NameLeft DEF DirInv, Leaves
<1> QED
  BY <1>4, <1>5

LEMMA RunningRefines ==
  ASSUME DirInv, ListedNames', DistinctNames, [Next]_vars, Running, status' # "stopped"
  PROVE  Unnoticed \/ \E c \in Client : Leaves(c) \/ \E n \in Nick : Takes(c, n)
<1>1. DirectoryStep /\ ~StoppingStep
  BY EveryStep DEF DirInv, StoppingStep
<1> QED
  BY <1>1, LookupUnnoticed, NamingRefines, RenamingRefines, LeavingRefines DEF DirectoryStep

LEMMA StopRefines ==
  ASSUME DirInv, ListedNames', [Next]_vars, Running, status' = "stopped"
  PROVE  /\ DirName' = [c \in Client |-> NoNick]
         /\ bExpired' = bExpired \/ \E c \in Client \ bExpired : bExpired' = bExpired \union {c}
<1>1. DirectoryStep
  BY EveryStep DEF DirInv
<1>2. mClients' = EmptyClients
  BY StopStep DEF destroyResources
<1>3. DirName' = [c \in Client |-> NoNick]
  <2>1. \A c \in Client : \A n \in Nick : ~Found(c, n)'
    BY <1>2, NoClientAssumption DEF EmptyClients, Found
  <2> QED
    BY <2>1 DEF ListedNames, DirName
<1>4. bExpired' = bExpired \/ \E c \in Client : bExpired' = bExpired \union {c}
  BY <1>1 DEF DirectoryStep, LookupStep, NamingStep, RenamingStep, LeavingStep, StoppingStep
<1> QED
  BY <1>3, <1>4

\* A step of the server is one of NickDirectory, or leaves all it shows unchanged.
LEMMA DirectoryRefines ==
  ASSUME DirInv, ListedNames', DistinctNames, [Next]_vars
  PROVE  [Directory!DirectoryNext]_(Directory!dvars)
<1> USE DEF DirName
<1>1. CASE ~Running
  <2>1. UNCHANGED <<DirName, bExpired, status>>
    <3>1. UNCHANGED <<mClients, bExpired, status>>
      BY <1>1, StoppedStep DEF vars, lifeVars, listVars, loopVars
    <3> QED
      BY <3>1, NamesKept DEF DirInv, Found
  <2> QED
    BY <2>1 DEF Directory!dvars
<1>2. CASE Running /\ status' # "stopped"
  <2>1. (status # "stopped") /\ (status' # "stopped")
    BY <1>2 DEF Running
  <2>2. CASE Unnoticed
    BY <2>1, <2>2 DEF Unnoticed, Directory!dvars
  <2>3. ASSUME NEW c \in Client, Leaves(c)
        PROVE  Directory!Leave(c)
    BY <2>1, <2>3 DEF Leaves, Directory!Leave
  <2>4. ASSUME NEW c \in Client, NEW n \in Nick, Takes(c, n)
        PROVE  Directory!TakeName(c, n)
    BY <2>1, <2>4 DEF Takes, Directory!TakeName, Directory!Free
  <2> QED
    BY <1>2, <2>2, <2>3, <2>4, RunningRefines DEF Directory!DirectoryNext
<1>3. CASE Running /\ status' = "stopped"
  <2>1. (status # "stopped") /\ ~(status' # "stopped")
    BY <1>3 DEF Running
  <2>2. Directory!CloseDirectory
    BY <1>3, <2>1, StopRefines DEF Directory!CloseDirectory
  <2> QED
    BY <2>2 DEF Directory!DirectoryNext
<1> QED
  BY <1>1, <1>2, <1>3

\* The directory the clients see, names found by findClientGlobal, behaves as
\* NickDirectory whatever the clients send and whichever calls fail: a client has at
\* most one name, takes only a free one, and loses it by NICK or by leaving only, if
\* no two open clients ever have the same nickname.
THEOREM ImplementsDirectoryHolds == Spec /\ []DistinctNames => ImplementsDirectory
<1>1. Init => Directory!DirectoryInit
  <2> SUFFICES ASSUME Init
               PROVE  Directory!DirectoryInit
    OBVIOUS
  <2>1. DirectoryInv
    BY InitType DEF Init, DirectoryInv, NickLookup, ClosedAreExpired, EmptyClients
  <2>2. ListedNames
    BY <2>1, NamesAreFound
  <2>3. DirName = [c \in Client |-> NoNick]
    BY <2>2, NoClientAssumption DEF Init, EmptyClients, ListedNames, Found, DirName
  <2>4. status # "stopped" /\ bExpired = {}
    BY DEF Init
  <2> QED
    BY <2>3, <2>4 DEF Directory!DirectoryInit, DirName
<1>2. /\ DirectoryInv /\ DirectoryInv' /\ DistinctNames /\ [Next]_vars
      => [Directory!DirectoryNext]_(Directory!dvars)
  BY DirectoryRefines, NamesAreFound, NamesAreFoundNext DEF DirInv
<1> QED
  BY <1>1, <1>2, DirectoryInvHolds, PTL DEF Spec, ImplementsDirectory, Directory!DirectorySpec

-----------------------------------------------------------------------------
(***************************************************************************)
(* Where no collision can happen                                            *)
(***************************************************************************)

\* No nickname is asked for by two clients.
OwnNames == \A c, d \in Client, n \in Nick : <<c, n>> \in Claims /\ <<d, n>> \in Claims => c = d

\* A client has a nickname it asked for.
NamesAsked == \A c \in Client : Nickname[c] # NoNick => <<c, Nickname[c]>> \in Claims

LEMMA NamesAskedStep ==
  ASSUME DirectoryInv, NamesAsked, [Next]_vars
  PROVE  NamesAsked'
<1>1. DirectoryStep
  BY EveryStep
<1>2. UNCHANGED Nickname => NamesAsked'
  BY DEF NamesAsked
<1>3. ASSUME NEW c \in Client, NamingStep(c)
      PROVE  NamesAsked'
  BY <1>3 DEF NamingStep, NamesAsked
<1>4. ASSUME NEW c \in Client, RenamingStep(c)
      PROVE  NamesAsked'
  BY <1>4 DEF RenamingStep, NamesAsked, DirectoryInv, TypeOK, ClientTypeOK
<1> QED
  BY <1>1, <1>2, <1>3, <1>4 DEF DirectoryStep, LookupStep, LeavingStep, StoppingStep

LEMMA NamesAskedHolds == Spec => []NamesAsked
<1>1. Init => NamesAsked
  BY DEF Init, NamesAsked
<1>2. DirectoryInv /\ NamesAsked /\ [Next]_vars => NamesAsked'
  BY NamesAskedStep
<1> QED
  BY <1>1, <1>2, DirectoryInvHolds, PTL DEF Spec

\* The condition of the theorems above holds, for example, when every client has
\* nicknames of its own to ask for, one or several.
THEOREM DistinctNamesHolds ==
  ASSUME OwnNames
  PROVE  Spec => []DistinctNames
<1>1. DirectoryInv /\ NamesAsked => DistinctNames
  BY DEF OwnNames, NamesAsked, DistinctNames, DirectoryInv, TypeOK, ClientTypeOK
<1> QED
  BY <1>1, DirectoryInvHolds, NamesAskedHolds, PTL

-----------------------------------------------------------------------------
(***************************************************************************)
(* The steps, as far as channels are concerned                              *)
(***************************************************************************)

\* Only registered clients hold channels, and the clients whose messages are being
\* processed are held by the loop's own queue.
MembersRegistered == \A c \in Client : Channels[c] # {} => c \in bRegistered

ProcessedAreQueued == todo \union ({curr} \ {NoClient}) \subseteq receivedClientMsgProcessQueue

MembershipInv == ListsInv /\ MembersRegistered /\ ProcessedAreQueued

NamesOfMembersStay == \A d \in bRegistered : Nickname'[d] = Nickname[d]

Untouched == UNCHANGED <<Channels, Clients>> /\ NamesOfMembersStay

Enters(c, ch) ==
  /\ c \in bRegistered \ bExpired
  /\ ChannelExists(ch)
  /\ FindClient(ch, Nickname[c]) = NoClient /\ ~ChannelIsFull(ch)
  /\ Clients' = WithMember(ch, Nickname[c], c)
  /\ Channels' = [Channels EXCEPT ![c] = @ \union {ch}]
  /\ UNCHANGED <<Nickname, bExpired>>

Creates(c, ch) ==
  /\ c \in bRegistered \ bExpired
  /\ ~ChannelExists(ch)
  /\ Clients' = [Clients EXCEPT ![ch] = [EmptyClients EXCEPT ![Nickname[c]] = c]]
  /\ Channels' = [Channels EXCEPT ![c] = @ \union {ch}]
  /\ UNCHANGED Nickname

Parts(c, ch) ==
  /\ c \notin bExpired
  /\ Clients' = WithoutMember(ch, Nickname[c])
  /\ Channels' = [Channels EXCEPT ![c] = @ \ {ch}]
  /\ UNCHANGED Nickname

Renames(c, nick) ==
  /\ c \in bRegistered \ bExpired
  /\ <<c, nick>> \in Claims
  /\ Nickname' = [Nickname EXCEPT ![c] = nick]
  /\ Clients' = RenamedInChannels(c, nick)
  /\ UNCHANGED <<Channels, bSocketClosed>>

\* QUIT with messages pending: the channels keep their entries.
Forgets(c) ==
  /\ "QUIT" \in Commands
  /\ c \in bExpired'
  /\ Channels' = [Channels EXCEPT ![c] = {}]
  /\ UNCHANGED <<Clients, Nickname>>

Closes(c) ==
  /\ c \notin bSocketClosed
  /\ c \in bExpired'
  /\ Clients' = [ch \in Chan |-> IF ch \in Channels[c] THEN Erase(Clients[ch], Nickname[c])
                                                       ELSE Clients[ch]]
  /\ Channels' = [Channels EXCEPT ![c] = {}]
  /\ UNCHANGED Nickname

MembershipStep ==
  \/ Untouched
  \/ \E c \in Client, ch \in Chan : Enters(c, ch) \/ Creates(c, ch) \/ Parts(c, ch)
  \/ \E c \in Client, nick \in Nick : Renames(c, nick)
  \/ \E c \in Client : Forgets(c) \/ Closes(c)

LEMMA CommandMembership ==
  ASSUME DirectoryInv, NEW c \in Client, Command(c)
  PROVE  MembershipStep
<1> USE DEF channelVars, identityVars, lifeVars
<1>1. c \in Client \ bExpired /\ c \notin bSocketClosed
  BY DEF Command, Processes, DirectoryInv, ClosedAreExpired
<1>2. Reply(c) \/ NoEffect => Untouched
  BY DEF Reply, NoEffect, Untouched, NamesOfMembersStay
<1>3. CASE RegistrationCommand(c)
  <2>1. \A matches \in BOOLEAN : PASS(c, matches) => Untouched
    BY <1>2 DEF PASS, Untouched, NamesOfMembersStay
  <2>2. USER(c) => Untouched
    BY <1>2 DEF USER, Untouched, NamesOfMembersStay
  <2>3. ASSUME NEW nick \in Nick, <<c, nick>> \in Claims, NICK(c, nick)
        PROVE  MembershipStep
    <3>1. FirstNick(c, nick) => Untouched
      BY DEF FirstNick, Untouched, NamesOfMembersStay, DirectoryInv, TypeOK, ClientTypeOK
    <3>2. Rename(c, nick) => Renames(c, nick)
      BY <1>1, <2>3 DEF Rename, Renames
    <3> QED
      BY <1>2, <2>3, <3>1, <3>2 DEF NICK, MembershipStep
  <2> QED
    BY <1>3, <2>1, <2>2, <2>3 DEF RegistrationCommand, MembershipStep
<1>4. ASSUME NEW ch \in Chan, ChannelCommand(c, ch)
      PROVE  MembershipStep
  <2>1. ASSUME NEW key, JOIN(c, ch, key)
        PROVE  MembershipStep
    <3>1. c \in bRegistered /\ ~ChannelExists(ch) /\ CreateChannel(c, ch) => Creates(c, ch)
      BY <1>1 DEF CreateChannel, Creates
    <3>2. c \in bRegistered /\ ChannelExists(ch) /\ FindClient(ch, Nickname[c]) = NoClient
          /\ ~ChannelIsFull(ch) /\ EnterChannel(c, ch) => Enters(c, ch)
      BY <1>1 DEF EnterChannel, Enters
    <3> QED
      BY <1>2, <2>1, <3>1, <3>2 DEF JOIN, MembershipStep
  <2>2. PART(c, ch) => MembershipStep
    BY <1>1, <1>2 DEF PART, partClientFromChannel, Parts, MembershipStep
  <2>3. ASSUME NEW nick \in Nick, KICK(c, ch, nick)
        PROVE  MembershipStep
    <3> DEFINE target == findClientGlobal(mClients, nick)
    <3>1. target # NoClient => target \in Client \ bExpired
      BY FindType DEF findClientGlobal, DirectoryInv, TypeOK, ListTypeOK
    <3>2. UNCHANGED <<Channels, Clients, Nickname>> => Untouched
      BY DEF Untouched, NamesOfMembersStay
    <3>3. target # NoClient /\ partClientFromChannel(target, ch) /\ UNCHANGED Nickname
          => Parts(target, ch)
      BY <3>1 DEF partClientFromChannel, Parts
    <3> HIDE DEF target
    <3>4. \/ Reply(c)
          \/ UNCHANGED <<Channels, Clients, Nickname>>
          \/ target # NoClient /\ partClientFromChannel(target, ch) /\ UNCHANGED Nickname
      BY <2>3 DEF KICK, target
    <3> QED
      BY <1>2, <3>1, <3>2, <3>3, <3>4 DEF MembershipStep
  <2>4. \A nick \in Nick : INVITE(c, ch, nick) => Untouched
    BY <1>2 DEF INVITE, Untouched, NamesOfMembersStay
  <2>5. \A add \in BOOLEAN : MODE(c, ch, add) => Untouched
    BY <1>2 DEF MODE, Untouched, NamesOfMembersStay
  <2>6. \A topic \in Topics : TOPIC(c, ch, topic) => Untouched
    BY <1>2 DEF TOPIC, Untouched, NamesOfMembersStay
  <2> QED
    BY <1>4, <2>1, <2>2, <2>3, <2>4, <2>5, <2>6 DEF ChannelCommand, MembershipStep
<1>5. PRIVMSG(c) => Untouched
  BY <1>2 DEF PRIVMSG, MessageToChannel, MessageToUser, Untouched, NamesOfMembersStay
<1>6. ASSUME "QUIT" \in Commands, QUIT(c)
      PROVE  MembershipStep
  <2>1. DisconnectLater(c) => Forgets(c)
    BY <1>6 DEF DisconnectLater, Forgets
  <2>2. CloseSucceeds(c, MsgSendingQueue) => Closes(c)
    BY <1>1 DEF CloseSucceeds, Closes
  <2>3. KeptOnCloseFailure => Untouched
    BY DEF KeptOnCloseFailure, Untouched, NamesOfMembersStay
  <2> QED
    BY <1>6, <2>1, <2>2, <2>3 DEF QUIT, MembershipStep
<1> QED
  BY <1>2, <1>3, <1>4, <1>5, <1>6 DEF Command, MembershipStep

LEMMA EventMembership ==
  ASSUME HandleEvent
  PROVE  MembershipStep
<1> USE DEF channelVars, identityVars, lifeVars
<1>1. UNCHANGED <<Channels, Clients, Nickname>> => Untouched
  BY DEF Untouched, NamesOfMembersStay
<1>2. ASSUME NEW c \in Client \ bSocketClosed, NEW queue, CloseSucceeds(c, queue)
      PROVE  MembershipStep
  BY <1>2 DEF CloseSucceeds, Closes, MembershipStep
<1>3. ASSUME NEW c \in Client \ bSocketClosed, NEW e, e.client = c, DisconnectOnEvent(e)
      PROVE  MembershipStep
  BY <1>1, <1>2, <1>3 DEF DisconnectOnEvent, MembershipStep
<1>4. ASSUME NEW c \in Client \ bSocketClosed, SendLast(c)
      PROVE  MembershipStep
  BY <1>1, <1>2, <1>4 DEF SendLast, KeptOnCloseFailure, MembershipStep
<1>5. SkipEvent => Untouched
  BY <1>1 DEF SkipEvent
<1>6. ASSUME NEW c \in Client, ErrorEvent(c) \/ ReadEvent(c) \/ WriteEvent(c)
      PROVE  MembershipStep
  BY <1>1, <1>3, <1>4, <1>5, <1>6 DEF ErrorEvent, ReadEvent, WriteEvent, MembershipStep
<1> QED
  BY <1>1, <1>5, <1>6 DEF HandleEvent, AcceptClients, DestroyedClientEvent, MembershipStep

LEMMA EveryMembershipStep ==
  ASSUME DirectoryInv, [Next]_vars
  PROVE  MembershipStep
<1> USE DEF channelVars, identityVars
<1>1. UNCHANGED <<Channels, Clients, Nickname>> => MembershipStep
  BY DEF Untouched, NamesOfMembersStay, MembershipStep
<1> QED
  BY <1>1, EventMembership, CommandMembership
     DEF Next, KeventReturnsEvents, KeventReturnsNone, KeventWaits, LoopFails, NextIteration,
         NextClient, ShutdownCommand, EndProcessing, Terminated, vars

-----------------------------------------------------------------------------
(***************************************************************************)
(* Nobody comes back                                                        *)
(***************************************************************************)

\* What a step adds to the three collections of the server and the loop that hold
\* clients beside mClients: new connections and clients that were alive.
HoldersStep ==
  /\ mUnregistedClients' \subseteq mUnregistedClients \union (accepted' \ accepted)
  /\ mClientReleaseQueue' \subseteq mClientReleaseQueue \union Live
  /\ receivedClientMsgProcessQueue' \subseteq receivedClientMsgProcessQueue \union Live
  /\ todo' \union ({curr'} \ {NoClient})
     \subseteq todo \union ({curr} \ {NoClient}) \union receivedClientMsgProcessQueue
  /\ \/ receivedClientMsgProcessQueue \subseteq receivedClientMsgProcessQueue'
     \/ todo' = {} /\ curr' = NoClient

LEMMA ListsHolders ==
  ASSUME NEW c \in Live, ListsStep(c), UNCHANGED <<receivedClientMsgProcessQueue, todo, curr>>
  PROVE  HoldersStep
BY DEF ListsStep, ListsKept, ListsRegister, ListsClose, HoldersStep

LEMMA EventHolders ==
  ASSUME HandleEvent
  PROVE  HoldersStep
<1> USE DEF identityVars, lifeVars, listVars
<1>1. ASSUME destroyResources
      PROVE  HoldersStep
  BY <1>1 DEF destroyResources, HoldersStep
<1>2. UNCHANGED <<listVars, receivedClientMsgProcessQueue, todo, curr>> => HoldersStep
  BY DEF HoldersStep
<1>3. ASSUME NEW c \in Live, NEW e, e.client = c, DisconnectOnEvent(e)
      PROVE  HoldersStep
  BY <1>1, <1>3, ListsHolders
     DEF DisconnectOnEvent, LoopGoesOn, CloseSucceeds, Unlist, ListsStep, ListsClose
<1>4. ASSUME NEW c \in Live, SendLast(c)
      PROVE  HoldersStep
  BY <1>2, <1>4, ListsHolders
     DEF SendLast, LoopGoesOn, CloseSucceeds, CloseFails, KeptOnCloseFailure, Unlist,
         ListsStep, ListsClose
<1>5. CASE AcceptClients
  <2>1. PICK new \in SUBSET (Client \ accepted) :
          /\ accepted' = accepted \union new
          /\ mUnregistedClients' = mUnregistedClients \union new
    BY <1>5 DEF AcceptClients
  <2> QED
    BY <1>5, <2>1 DEF AcceptClients, LoopGoesOn, HoldersStep
<1>6. ASSUME NEW c \in Client, ErrorEvent(c)
      PROVE  HoldersStep
  BY <1>2, <1>3, <1>6 DEF ErrorEvent, SkipEvent, LoopGoesOn
<1>7. ASSUME NEW c \in Client, ReadEvent(c)
      PROVE  HoldersStep
  <2>1. CASE /\ UNCHANGED <<listVars, todo, curr>>
             /\ receivedClientMsgProcessQueue' = receivedClientMsgProcessQueue \union {c}
    BY <1>7, <2>1 DEF ReadEvent, HoldersStep
  <2> QED
    BY <1>2, <1>3, <1>7, <2>1 DEF ReadEvent, SkipEvent, LoopGoesOn
<1>8. ASSUME NEW c \in Client, WriteEvent(c)
      PROVE  HoldersStep
  BY <1>2, <1>3, <1>4, <1>8 DEF WriteEvent, SkipEvent, LoopGoesOn
<1> QED
  BY <1>2, <1>5, <1>6, <1>7, <1>8 DEF HandleEvent, DestroyedClientEvent, SkipEvent

LEMMA EveryHoldersStep ==
  ASSUME MembershipInv, [Next]_vars
  PROVE  HoldersStep
<1> USE DEF listVars, lifeVars, loopVars, vars
<1>1. UNCHANGED <<listVars, receivedClientMsgProcessQueue, todo, curr>> => HoldersStep
  BY DEF HoldersStep
<1>2. destroyResources => HoldersStep
  BY DEF destroyResources, HoldersStep
<1>3. ASSUME NEW c \in Client, Command(c)
      PROVE  HoldersStep
  <2>1. c \in Live
    BY <1>3, NoClientAssumption DEF Command, Processes, MembershipInv, ProcessedAreQueued,
         Live, HeldWith
  <2> QED
    BY <1>3, <2>1, CommandLists, ListsHolders DEF Command
<1>4. CASE KeventReturnsNone \/ NextIteration \/ NextClient \/ EndProcessing
  BY <1>4 DEF KeventReturnsNone, NextIteration, NextClient, EndProcessing, HoldersStep
<1> QED
  BY <1>1, <1>2, <1>3, <1>4, EventHolders
     DEF Next, KeventReturnsEvents, KeventWaits, LoopFails, ShutdownCommand, Terminated

\* The entries a step adds to mClients are those of the client being processed.
LEMMA EntriesStep ==
  ASSUME DirectoryInv, DirectoryStep
  PROVE  Entries(mClients') \subseteq Entries(mClients) \union ({curr} \ {NoClient})
<1> USE DEF DirectoryInv, TypeOK, ListTypeOK
<1>1. \A nick : \A n \in Nick : AfterFind(mClients, nick)[n] \in {NoClient, mClients[n]}
  BY DEF AfterFind, Erase
<1>2. CASE LookupStep
  BY <1>1, <1>2 DEF LookupStep, Entries
<1>3. ASSUME NEW c \in Client, NamingStep(c)
      PROVE  Entries(mClients') \subseteq Entries(mClients) \union ({curr} \ {NoClient})
  <2>1. PICK map \in {mClients, AfterFind(mClients, Nickname'[c])} :
          mClients' = map \/ mClients' = [map EXCEPT ![Nickname'[c]] = c]
    BY <1>3 DEF NamingStep
  <2>2. map \in NickMap
    BY <2>1, FindType
  <2>3. \A n \in Nick : mClients'[n] \in {NoClient, mClients[n], c}
    BY <1>1, <2>1, <2>2 DEF NickMap
  <2> QED
    BY <1>3, <2>3, NoClientAssumption DEF NamingStep, Entries
<1>4. ASSUME NEW c \in Client, RenamingStep(c)
      PROVE  Entries(mClients') \subseteq Entries(mClients) \union ({curr} \ {NoClient})
  <2>1. \A n \in Nick : mClients'[n] \in {NoClient, mClients[n], c}
    BY <1>1, <1>4 DEF RenamingStep, Erase
  <2> QED
    BY <1>4, <2>1, NoClientAssumption DEF RenamingStep, Entries
<1>5. ASSUME NEW c \in Client, LeavingStep(c)
      PROVE  Entries(mClients') \subseteq Entries(mClients)
  BY <1>5 DEF LeavingStep, Erase, Entries
<1>6. CASE StoppingStep
  BY <1>6 DEF StoppingStep, EmptyClients, Entries
<1> QED
  BY <1>2, <1>3, <1>4, <1>5, <1>6 DEF DirectoryStep

\* A control block that was destroyed is never held again.
LEMMA NobodyComesBack ==
  ASSUME MembershipInv, [Next]_vars
  PROVE  Live' \subseteq Live \union (accepted' \ accepted)
<1>1. HoldersStep /\ Entries(mClients') \subseteq Entries(mClients) \union ({curr} \ {NoClient})
  BY EveryHoldersStep, EntriesStep, EveryStep DEF MembershipInv, ListsInv
<1>2. {curr} \ {NoClient} \subseteq Live
  BY DEF MembershipInv, ProcessedAreQueued, Live, HeldWith
<1>3. Entries(mClients)' = Entries(mClients')
  BY DEF Entries
<1> QED
  BY <1>1, <1>2, <1>3 DEF HoldersStep, Live, HeldWith

-----------------------------------------------------------------------------
(***************************************************************************)
(* The invariant                                                            *)
(***************************************************************************)

LEMMA MembersWereRegistered ==
  ASSUME MembershipInv, MembershipStep, NEW c \in Client, NEW ch \in Channels'[c]
  PROVE  c \in bRegistered
<1> USE DEF MembershipInv, ListsInv, DirectoryInv, TypeOK, ClientTypeOK
<1>1. CASE ch \in Channels[c]
  BY <1>1 DEF MembersRegistered
<1>2. CASE ch \notin Channels[c]
  BY <1>2 DEF MembershipStep, Untouched, Enters, Creates, Parts, Renames, Forgets, Closes
<1> QED
  BY <1>1, <1>2

LEMMA RegisteredStay ==
  ASSUME DirectoryStep
  PROVE  bRegistered \subseteq bRegistered'
BY DEF DirectoryStep, LookupStep, NamingStep, RenamingStep, LeavingStep, StoppingStep

LEMMA MembershipInvHolds == Spec => []MembershipInv
<1>1. Init => MembersRegistered /\ ProcessedAreQueued
  BY DEF Init, MembersRegistered, ProcessedAreQueued
<1>2. ListsInv /\ MembersRegistered /\ ProcessedAreQueued /\ [Next]_vars
      => MembersRegistered' /\ ProcessedAreQueued'
  <2> SUFFICES ASSUME MembershipInv, [Next]_vars
               PROVE  MembersRegistered' /\ ProcessedAreQueued'
    BY DEF MembershipInv
  <2>1. DirectoryInv
    BY DEF MembershipInv, ListsInv
  <2>2. MembersRegistered'
    BY <2>1, EveryMembershipStep, EveryStep, RegisteredStay, MembersWereRegistered
       DEF MembersRegistered
  <2>3. ProcessedAreQueued'
    BY EveryHoldersStep DEF HoldersStep, MembershipInv, ProcessedAreQueued
  <2> QED
    BY <2>2, <2>3
<1>3. ListsInv /\ MembersRegistered /\ ProcessedAreQueued => MembershipInv
  BY DEF MembershipInv
<1> QED
  BY <1>1, <1>2, <1>3, ListsInvHolds, PTL DEF Spec

-----------------------------------------------------------------------------
(***************************************************************************)
(* A member is listed by its channels                                       *)
(***************************************************************************)

\* A client that holds a channel and is alive after a step was alive before it.
LEMMA MembersWereLive ==
  ASSUME MembershipInv, [Next]_vars, NEW c \in Live', NEW ch \in Channels'[c]
  PROVE  c \in Live \intersect bRegistered
<1>1. c \in Client
  <2>1. TypeOK'
    BY TypeStep DEF MembershipInv, ListsInv, DirectoryInv
  <2> QED
    BY <2>1 DEF TypeOK, ListTypeOK, NickMap, Live, HeldWith, Entries
<1>2. c \in bRegistered
  BY <1>1, EveryMembershipStep, MembersWereRegistered DEF MembershipInv, ListsInv
<1>3. c \in accepted
  BY <1>2 DEF MembershipInv, ListsInv, OnlyAccepted
<1> QED
  BY <1>2, <1>3, NobodyComesBack

\* While the loop runs, two clients that have not left have different nicknames when
\* one of them is registered.
LEMMA NamesDiffer ==
  ASSUME DirectoryInv, DistinctNames, Running, NEW c \in bRegistered \ bExpired,
         NEW d \in Client \ bSocketClosed, c # d
  PROVE  Nickname[c] # Nickname[d]
BY DEF DirectoryInv, TypeOK, ClientTypeOK, RegisteredHasNick, ClosedAreExpired, DistinctNames

LEMMA MembersListedStep ==
  ASSUME MembershipInv, MembersListed, DistinctNames, DistinctNames', Running,
         MembershipStep, bExpired \subseteq bExpired',
         \A c \in Live' : \A ch \in Channels'[c] : c \in Live \intersect bRegistered
  PROVE  MembersListed'
<1> USE DEF MembershipInv, ListsInv, DirectoryInv
<1> SUFFICES ASSUME NEW c \in Live' \ bExpired', NEW ch \in Channels'[c]
             PROVE  Clients'[ch][Nickname'[c]] = c
  BY DEF MembersListed
<1>1. c \in (Live \intersect bRegistered) \ bExpired /\ c \in Client
  BY DEF TypeOK, ClientTypeOK
<1>2. ch \in Channels[c] => ch \in Chan /\ Clients[ch][Nickname[c]] = c
  BY <1>1 DEF MembersListed, TypeOK, ClientTypeOK
<1>3. /\ Channels \in [Client -> SUBSET Chan]
      /\ Clients \in [Chan -> NickMap]
      /\ Nickname \in [Client -> Nick \union {NoNick}]
      /\ Nickname[c] \in Nick
  BY <1>1 DEF TypeOK, ClientTypeOK, ChannelTypeOK, RegisteredHasNick
<1>4. \A d \in Client \ bSocketClosed : d # c => Nickname[d] # Nickname[c]
  BY <1>1, NamesDiffer
<1>5. bSocketClosed \subseteq bExpired
  BY DEF ClosedAreExpired
<1>6. CASE Untouched
  BY <1>1, <1>2, <1>6 DEF Untouched, NamesOfMembersStay
<1>7. ASSUME NEW d \in Client, NEW k \in Chan, Enters(d, k)
      PROVE  Clients'[ch][Nickname'[c]] = c
  <2>1. Nickname'[c] = Nickname[c]
    BY <1>7 DEF Enters
  <2>2. \A h \in Chan, n \in Nick :
          Clients'[h][n] = IF h = k /\ n = Nickname[d] THEN d ELSE Clients[h][n]
    BY <1>3, <1>7 DEF Enters, WithMember, NickMap
  <2>3. c # d => Nickname[d] # Nickname[c] /\ ch \in Channels[c]
    BY <1>3, <1>4, <1>5, <1>7 DEF Enters
  <2>4. c = d => ch = k \/ ch \in Channels[c]
    BY <1>3, <1>7 DEF Enters
  <2> QED
    BY <1>2, <1>3, <2>1, <2>2, <2>3, <2>4
<1>8. ASSUME NEW d \in Client, NEW k \in Chan, Creates(d, k)
      PROVE  Clients'[ch][Nickname'[c]] = c
  <2>1. Nickname'[c] = Nickname[c]
    BY <1>8 DEF Creates
  <2>2. k \notin Channels[c]
    BY <1>1, <1>8 DEF Creates, ChannelExists
  <2>3. CASE ch = k
    BY <1>3, <1>8, <2>1, <2>2, <2>3 DEF Creates, EmptyClients
  <2>4. CASE ch # k
    BY <1>2, <1>3, <1>8, <2>1, <2>4 DEF Creates
  <2> QED
    BY <2>3, <2>4
<1>9. ASSUME NEW d \in Client, NEW k \in Chan, Parts(d, k)
      PROVE  Clients'[ch][Nickname'[c]] = c
  <2>1. Nickname'[c] = Nickname[c] /\ ch \in Channels[c] /\ (c = d => ch # k)
    BY <1>3, <1>9 DEF Parts
  <2>2. c # d => Nickname[d] # Nickname[c]
    BY <1>4, <1>5, <1>9 DEF Parts
  <2>3. \A h \in Chan, n \in Nick :
          Clients'[h][n] = IF h = k /\ n = Nickname[d] THEN NoClient ELSE Clients[h][n]
    BY <1>3, <1>9 DEF Parts, WithoutMember, Erase
  <2> QED
    BY <1>2, <1>3, <2>1, <2>2, <2>3
<1>10. ASSUME NEW d \in Client, NEW nick \in Nick, Renames(d, nick)
       PROVE  Clients'[ch][Nickname'[c]] = c
  <2>1. ch \in Channels[c] /\ d \notin bSocketClosed /\ Nickname'[d] = nick
    BY <1>3, <1>5, <1>10 DEF Renames
  <2>2. \A h \in Chan, n \in Nick :
          Clients'[h][n] = IF h \in Channels[d] /\ n = nick THEN d ELSE Clients[h][n]
    BY <1>3, <1>10 DEF Renames, RenamedInChannels, NickMap
  <2>3. CASE c = d
    BY <1>2, <2>1, <2>2, <2>3
  <2>4. CASE c # d
    <3>1. Nickname'[c] = Nickname[c]
      BY <1>3, <1>10, <2>4 DEF Renames
    <3>2. Nickname[c] # nick
      BY <1>1, <1>3, <1>5, <1>10, <2>1, <2>4, <3>1, NoNickAssumption
         DEF DistinctNames, Renames
    <3> QED
      BY <1>2, <1>3, <2>1, <2>2, <3>1, <3>2
  <2> QED
    BY <2>3, <2>4
<1>11. ASSUME NEW d \in Client, Forgets(d)
       PROVE  Clients'[ch][Nickname'[c]] = c
  BY <1>2, <1>3, <1>11 DEF Forgets
<1>12. ASSUME NEW d \in Client, Closes(d)
       PROVE  Clients'[ch][Nickname'[c]] = c
  <2>1. c # d /\ Nickname'[c] = Nickname[c] /\ ch \in Channels[c]
    BY <1>3, <1>12 DEF Closes
  <2>2. Nickname[d] # Nickname[c]
    BY <1>4, <1>12, <2>1 DEF Closes
  <2> QED
    BY <1>2, <1>3, <1>12, <2>1, <2>2 DEF Closes, Erase
<1> QED
  BY <1>6, <1>7, <1>8, <1>9, <1>10, <1>11, <1>12 DEF MembershipStep

\* Whatever joins, parts, kicks, renames itself, quits, is disconnected or fails to be
\* closed, and whoever is looked up: a client that has not left is listed by every
\* channel it holds under its present nickname, so that it can part, speak, be kicked
\* and be counted, if no two open clients ever have the same nickname.
THEOREM MembersListedHolds == Spec /\ []DistinctNames => []MembersListed
<1>1. Init => MembersListed
  BY DEF Init, MembersListed, Live, HeldWith, Entries, EmptyClients
<1>2. /\ MembershipInv /\ DistinctNames /\ DistinctNames' /\ MembersListed /\ [Next]_vars
      => MembersListed'
  <2> SUFFICES ASSUME MembershipInv, DistinctNames, DistinctNames', MembersListed, [Next]_vars
               PROVE  MembersListed'
    OBVIOUS
  <2>1. DirectoryInv /\ TypeOK
    BY DEF MembershipInv, ListsInv, DirectoryInv
  <2>2. CASE ~Running
    BY <2>2, StoppedStep DEF MembersListed, vars, lifeVars, listVars, identityVars, loopVars,
       channelVars, Live, HeldWith, Entries
  <2>3. CASE Running
    <3>1. bExpired \subseteq bExpired'
      BY <2>1, EveryStep, DirectoryForgets
    <3> QED
      BY <2>1, <2>3, <3>1, EveryMembershipStep, MembersWereLive, MembersListedStep
  <2> QED
    BY <2>2, <2>3
<1> QED
  BY <1>1, <1>2, MembershipInvHolds, PTL DEF Spec

-----------------------------------------------------------------------------
(***************************************************************************)
(* A channel lists members only                                             *)
(***************************************************************************)

\* No client asks for more than one nickname: nobody renames itself (run nick_entries).
OneName == \A c \in Client, m, n \in Nick : <<c, m>> \in Claims /\ <<c, n>> \in Claims => m = n

\* An entry of an existing channel names a member by its own nickname.
EntryIsMember(ch, n) ==
  Clients[ch][n] # NoClient => /\ ch \in Channels[Clients[ch][n]]
                               /\ Nickname[Clients[ch][n]] = n

LEMMA ListedAreMembersStep ==
  ASSUME MembershipInv, NamesAsked, OneName, "QUIT" \notin Commands, MembershipStep,
         NEW ch \in Chan, NEW n \in Nick,
         ChannelExists(ch) => \A m \in Nick : EntryIsMember(ch, m),
         ChannelExists(ch) \/ \E c \in Client : Creates(c, ch)
  PROVE  EntryIsMember(ch, n)'
<1> USE DEF MembershipInv, ListsInv, DirectoryInv
<1>1. /\ Channels \in [Client -> SUBSET Chan]
      /\ Clients \in [Chan -> NickMap]
      /\ Nickname \in [Client -> Nick \union {NoNick}]
  BY DEF TypeOK, ClientTypeOK, ChannelTypeOK
<1>2. \A c \in Client : Channels[c] # {} => c \in bRegistered
  BY DEF MembersRegistered
<1>3. ASSUME NEW c \in Client, Creates(c, ch)
      PROVE  EntryIsMember(ch, n)'
  <2>1. Clients'[ch][n] # NoClient => Clients'[ch][n] = c /\ n = Nickname[c]
    BY <1>1, <1>3 DEF Creates, EmptyClients
  <2>2. ch \in Channels'[c] /\ Nickname' = Nickname
    BY <1>1, <1>3 DEF Creates
  <2> QED
    BY <2>1, <2>2 DEF EntryIsMember
<1>4. CASE ChannelExists(ch)
  <2> DEFINE d == Clients[ch][n]
  <2>1. d # NoClient => d \in Client /\ ch \in Channels[d] /\ Nickname[d] = n
    BY <1>1, <1>4 DEF EntryIsMember, NickMap
  <2>2. CASE Untouched
    BY <1>2, <2>1, <2>2 DEF Untouched, NamesOfMembersStay, EntryIsMember
  <2>3. ASSUME NEW c \in Client, NEW k \in Chan, Enters(c, k)
        PROVE  EntryIsMember(ch, n)'
    <3>1. Clients'[ch][n] = IF ch = k /\ n = Nickname[c] THEN c ELSE Clients[ch][n]
      BY <1>1, <2>3 DEF Enters, WithMember, NickMap
    <3>2. Nickname' = Nickname /\ k \in Channels'[c]
          /\ \A b \in Client : Channels[b] \subseteq Channels'[b]
      BY <1>1, <2>3 DEF Enters
    <3> QED
      BY <2>1, <3>1, <3>2 DEF EntryIsMember
  <2>4. ASSUME NEW c \in Client, NEW k \in Chan, Creates(c, k)
        PROVE  EntryIsMember(ch, n)'
    <3>1. CASE k = ch
      BY <1>3, <2>4, <3>1
    <3>2. CASE k # ch
      <4>1. Clients'[ch] = Clients[ch] /\ Nickname' = Nickname
            /\ \A b \in Client : Channels[b] \subseteq Channels'[b]
        BY <1>1, <2>4, <3>2 DEF Creates
      <4> QED
        BY <2>1, <4>1 DEF EntryIsMember
    <3> QED
      BY <3>1, <3>2
  <2>5. ASSUME NEW c \in Client, NEW k \in Chan, Parts(c, k)
        PROVE  EntryIsMember(ch, n)'
    <3>1. Clients'[ch][n] = IF ch = k /\ n = Nickname[c] THEN NoClient ELSE Clients[ch][n]
      BY <1>1, <2>5 DEF Parts, WithoutMember, Erase
    <3>2. Nickname' = Nickname
          /\ \A b \in Client : Channels'[b] = IF b = c THEN Channels[b] \ {k} ELSE Channels[b]
      BY <1>1, <2>5 DEF Parts
    <3> QED
      BY <2>1, <3>1, <3>2 DEF EntryIsMember
  <2>6. ASSUME NEW c \in Client, NEW nick \in Nick, Renames(c, nick)
        PROVE  EntryIsMember(ch, n)'
    <3>1. Clients'[ch][n] = IF ch \in Channels[c] /\ n = nick THEN c ELSE Clients[ch][n]
      BY <1>1, <2>6 DEF Renames, RenamedInChannels, NickMap
    <3>2. Nickname[c] = nick
      BY <1>1, <2>6 DEF Renames, NamesAsked, OneName, TypeOK, RegisteredHasNick
    <3>3. Nickname' = Nickname /\ Channels' = Channels
      BY <1>1, <2>6, <3>2 DEF Renames
    <3> QED
      BY <2>1, <3>1, <3>2, <3>3 DEF EntryIsMember
  <2>7. ASSUME NEW c \in Client, Closes(c)
        PROVE  EntryIsMember(ch, n)'
    <3>1. Clients'[ch][n] = IF ch \in Channels[c] /\ n = Nickname[c] THEN NoClient
                            ELSE Clients[ch][n]
      BY <2>7 DEF Closes, Erase
    <3>2. Nickname' = Nickname
          /\ \A b \in Client : Channels'[b] = IF b = c THEN {} ELSE Channels[b]
      BY <1>1, <2>7 DEF Closes
    <3> QED
      BY <2>1, <3>1, <3>2 DEF EntryIsMember
  <2> QED
    BY <2>2, <2>3, <2>4, <2>5, <2>6, <2>7 DEF MembershipStep, Forgets
<1> QED
  BY <1>3, <1>4

\* A channel exists after a step if it did before it or has been created by it.
LEMMA ChannelsThatExist ==
  ASSUME MembershipInv, [Next]_vars, MembershipStep, NEW ch \in Chan, ChannelExists(ch)'
  PROVE  ChannelExists(ch) \/ \E c \in Client : Creates(c, ch)
<1>1. PICK c \in Live' : ch \in Channels'[c]
  BY DEF ChannelExists
<1>2. c \in Live /\ c \in Client
  BY <1>1, MembersWereLive DEF MembershipInv, ListsInv, DirectoryInv, TypeOK, ClientTypeOK
<1>3. CASE ch \in Channels[c]
  BY <1>2, <1>3 DEF ChannelExists
<1>4. CASE ch \notin Channels[c]
  <2>1. Channels \in [Client -> SUBSET Chan]
    BY DEF MembershipInv, ListsInv, DirectoryInv, TypeOK, ClientTypeOK
  <2>2. ~Untouched /\ \A d \in Client : ~Forgets(d) /\ ~Closes(d)
    BY <1>1, <1>2, <1>4, <2>1 DEF Untouched, Forgets, Closes
  <2>3. \A d \in Client : /\ \A nick : ~Renames(d, nick)
                        /\ \A k : ~Parts(d, k)
    BY <1>1, <1>2, <1>4, <2>1 DEF Renames, Parts
  <2>4. \A d \in Client, k \in Chan : Enters(d, k) => ChannelExists(ch)
    BY <1>1, <1>2, <1>4, <2>1 DEF Enters
  <2>5. \A d \in Client, k \in Chan : Creates(d, k) => k = ch
    BY <1>1, <1>2, <1>4, <2>1 DEF Creates
  <2> QED
    BY <2>2, <2>3, <2>4, <2>5 DEF MembershipStep
<1> QED
  BY <1>3, <1>4

\* JOIN, PART, KICK, INVITE, MODE, TOPIC and every disconnection keep a channel's list
\* of members free of anybody else, for any number of clients and channels and though
\* clients are destroyed and channels created again, if clients keep the nickname they
\* have and leave without QUIT: the two exceptions are NICK by a member, which leaves
\* the old entry (NICK.cpp), and QUIT with messages pending, which leaves all of them.
THEOREM ListedAreMembersHolds ==
  ASSUME OneName, "QUIT" \notin Commands
  PROVE  Spec => []ListedAreMembers
<1>1. Init => ListedAreMembers
  BY DEF Init, ListedAreMembers, ChannelExists, Live, HeldWith, Entries, EmptyClients
<1>2. MembershipInv /\ NamesAsked /\ ListedAreMembers /\ [Next]_vars => ListedAreMembers'
  <2> SUFFICES ASSUME MembershipInv, NamesAsked, ListedAreMembers, [Next]_vars,
                      NEW ch \in Chan, ChannelExists(ch)', NEW n \in Nick
               PROVE  EntryIsMember(ch, n)'
    BY DEF ListedAreMembers, EntryIsMember
  <2>1. MembershipStep
    BY EveryMembershipStep DEF MembershipInv, ListsInv
  <2>2. ChannelExists(ch) => \A m \in Nick : EntryIsMember(ch, m)
    BY DEF ListedAreMembers, EntryIsMember
  <2> QED
    BY <2>1, <2>2, ChannelsThatExist, ListedAreMembersStep
<1> QED
  BY <1>1, <1>2, MembershipInvHolds, NamesAskedHolds, PTL DEF Spec

-----------------------------------------------------------------------------
(***************************************************************************)
(* The limit of a channel                                                   *)
(***************************************************************************)

\* Clients.size(): the nicknames under which a channel has an entry.
ListedNicks(ch) == {n \in Nick : Clients[ch][n] # NoClient}

\* The members of a channel are at most as many as its entries: each has its own.
LEMMA MembersCounted ==
  ASSUME MembershipInv, MembersListed, IsFiniteSet(Nick), NEW ch \in Chan
  PROVE  /\ IsFiniteSet(Members(ch)) /\ IsFiniteSet(ListedNicks(ch))
         /\ Cardinality(Members(ch)) <= Cardinality(ListedNicks(ch))
<1> DEFINE M == Members(ch)
           N == ListedNicks(ch)
           f == [c \in M |-> Nickname[c]]
<1>1. IsFiniteSet(N)
  BY FS_Subset DEF ListedNicks
<1>2. \A c \in M : Nickname[c] \in N /\ Clients[ch][Nickname[c]] = c
  <2> SUFFICES ASSUME NEW c \in M
               PROVE  Nickname[c] \in N /\ Clients[ch][Nickname[c]] = c
    OBVIOUS
  <2>1. c \in Client /\ c \in Live \ bExpired /\ ch \in Channels[c]
    BY LiveType DEF Members, MembershipInv, ListsInv, DirectoryInv, TypeOK
  <2>2. Nickname[c] \in Nick /\ c # NoClient
    BY <2>1, NoClientAssumption DEF MembershipInv, MembersRegistered, ListsInv, DirectoryInv,
       TypeOK, ClientTypeOK, RegisteredHasNick
  <2> QED
    BY <2>1, <2>2 DEF MembersListed, ListedNicks
<1> HIDE DEF M, N
<1>3. f \in Injection(M, N)
  BY <1>2 DEF Injection, IsInjective
<1> QED
  BY <1>1, <1>3, FS_Injection DEF M, N

\* The client that enters is one more member and no other comes in.
LEMMA OneMoreMember ==
  ASSUME MembershipInv, [Next]_vars, NEW c \in Client, NEW ch \in Chan, Enters(c, ch)
  PROVE  Members(ch)' \subseteq Members(ch) \union {c}
<1> SUFFICES ASSUME NEW d \in Members(ch)', d # c
             PROVE  d \in Members(ch)
  OBVIOUS
<1>1. d \in Live' \ bExpired' /\ ch \in Channels'[d]
  BY DEF Members
<1>2. d \in Live /\ d \in Client
  BY <1>1, MembersWereLive DEF MembershipInv, ListsInv, DirectoryInv, TypeOK, ClientTypeOK
<1>3. ch \in Channels[d] /\ d \notin bExpired
  BY <1>1, <1>2 DEF Enters, MembershipInv, ListsInv, DirectoryInv, TypeOK, ClientTypeOK
<1> QED
  BY <1>2, <1>3 DEF Members

LEMMA LimitStep ==
  ASSUME MembershipInv, MembersListed, IsFiniteSet(Nick), [Next]_vars, NEW ch \in Chan,
         Members(ch) # {}, Settings[ch].MaxClients # 0,
         NEW c \in Client, ch \in Channels'[c] \ Channels[c]
  PROVE  Cardinality(Members(ch)') <= Settings[ch].MaxClients
<1> USE DEF MembershipInv, ListsInv, DirectoryInv
<1> DEFINE max == Settings[ch].MaxClients
<1>1. Enters(c, ch)
  <2>1. /\ MembershipStep
        /\ Channels \in [Client -> SUBSET Chan]
    BY EveryMembershipStep DEF TypeOK, ClientTypeOK
  <2>2. ~Untouched /\ \A d \in Client : ~Forgets(d) /\ ~Closes(d)
    BY <2>1 DEF Untouched, Forgets, Closes
  <2>3. \A d \in Client : /\ \A nick : ~Renames(d, nick)
                          /\ \A k : ~Parts(d, k)
    BY <2>1 DEF Renames, Parts
  <2>4. \A d \in Client, k \in Chan : Enters(d, k) => d = c /\ k = ch
    BY <2>1 DEF Enters
  <2>5. \A d \in Client, k \in Chan : Creates(d, k) => k = ch
    BY <2>1 DEF Creates
  <2>6. ChannelExists(ch)
    BY DEF Members, ChannelExists
  <2>7. \A d \in Client, k \in Chan : ~Creates(d, k)
    BY <2>5, <2>6 DEF Creates
  <2> QED
    BY <2>1, <2>2, <2>3, <2>4, <2>7 DEF MembershipStep
<1>2. max \in Nat
  BY LimitsAssumption DEF TypeOK, ChannelTypeOK, ChannelSettings
<1>3. /\ IsFiniteSet(Members(ch)) /\ IsFiniteSet(ListedNicks(ch))
      /\ Cardinality(Members(ch)) <= Cardinality(ListedNicks(ch))
  BY MembersCounted
<1>4. ~(Cardinality(ListedNicks(ch)) >= max)
  BY <1>1 DEF Enters, ChannelIsFull, ListedNicks
<1>5. Members(ch)' \subseteq Members(ch) \union {c}
  BY <1>1, OneMoreMember
<1> HIDE DEF max
<1>6. /\ IsFiniteSet(Members(ch) \union {c})
      /\ Cardinality(Members(ch) \union {c}) <= Cardinality(Members(ch)) + 1
      /\ Cardinality(Members(ch)) \in Nat
  <2>1. /\ IsFiniteSet(Members(ch) \union {c})
        /\ Cardinality(Members(ch) \union {c})
           = IF c \in Members(ch) THEN Cardinality(Members(ch)) ELSE Cardinality(Members(ch)) + 1
    BY <1>3, FS_AddElement
  <2>2. Cardinality(Members(ch)) \in Nat
    BY <1>3, FS_CardinalityType
  <2> QED
    BY <2>1, <2>2
<1>7. /\ Cardinality(Members(ch)') <= Cardinality(Members(ch) \union {c})
      /\ Cardinality(Members(ch)') \in Nat
      /\ Cardinality(Members(ch) \union {c}) \in Nat
  <2>1. /\ IsFiniteSet(Members(ch)')
        /\ Cardinality(Members(ch)') <= Cardinality(Members(ch) \union {c})
    BY <1>5, <1>6, FS_Subset
  <2> QED
    BY <1>6, <2>1, FS_CardinalityType
<1>8. Cardinality(ListedNicks(ch)) \in Nat
  BY <1>3, FS_CardinalityType
<1>9. Cardinality(Members(ch)') <= max
  BY <1>2, <1>3, <1>4, <1>6, <1>7, <1>8
<1> QED
  BY <1>9 DEF max

\* MODE +l: a client that enters a channel finds it within its limit, for any limit and
\* any number of clients.  Clients.size() (JOIN.cpp) also counts entries of clients long
\* destroyed and of former names, which refuses too many; it never counts too few, since
\* every member has an entry of its own.
THEOREM LimitRespectedHolds ==
  ASSUME IsFiniteSet(Nick)
  PROVE  Spec /\ []DistinctNames => LimitRespected
<1>1. MembershipInv /\ MembersListed /\ [Next]_vars
      => [\A ch \in Chan :
            LET max == Settings[ch].MaxClients IN
            /\ Members(ch) # {}
            /\ max # 0
            /\ \E c \in Client : ch \in Channels'[c] \ Channels[c]
            => Cardinality(Members(ch)') <= max]_vars
  BY LimitStep
<1> QED
  BY <1>1, MembershipInvHolds, MembersListedHolds, PTL DEF Spec, LimitRespected

=============================================================================
