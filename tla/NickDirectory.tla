---------------------------- MODULE NickDirectory ----------------------------
(***************************************************************************)
(* What the nickname directory of the server ("Nickname to client map",     *)
(* Server.hpp) promises, without lists, flags, batches or lookups: a name    *)
(* belongs to at most one client at a time, a client keeps its name until it *)
(* renames itself or leaves, and a client that has left does not come back.  *)
(***************************************************************************)
CONSTANTS Client, Nick, NoNick

VARIABLES
  name,   \* [Client -> the name it owns, or NoNick]
  left,   \* clients that have left
  open    \* the directory serves

dvars == <<name, left, open>>

Free(n) == \A c \in Client : name[c] # n

DirectoryInit ==
  /\ name = [c \in Client |-> NoNick]
  /\ left = {}
  /\ open = TRUE

\* A client takes a free name, its first one or in exchange for its present one.
TakeName(c, n) ==
  /\ open /\ c \notin left /\ Free(n)
  /\ name' = [name EXCEPT ![c] = n]
  /\ UNCHANGED <<left, open>>

\* A client leaves, with or without a name, and its name is free again.
Leave(c) ==
  /\ open /\ c \notin left
  /\ name' = [name EXCEPT ![c] = NoNick]
  /\ left' = left \union {c}
  /\ UNCHANGED open

\* The directory closes, perhaps while one more client is leaving.
CloseDirectory ==
  /\ open /\ open' = FALSE
  /\ name' = [c \in Client |-> NoNick]
  /\ left' = left \/ \E c \in Client \ left : left' = left \union {c}

DirectoryNext ==
  \/ \E c \in Client, n \in Nick : TakeName(c, n)
  \/ \E c \in Client : Leave(c)
  \/ CloseDirectory

DirectorySpec == DirectoryInit /\ [][DirectoryNext]_dvars

=============================================================================
