---------------------------- MODULE ServerDirectory ----------------------------
(***************************************************************************)
(* The server implements NickDirectory: mClients read through                *)
(* findClientGlobal is the directory, bExpired the set of those who left.    *)
(***************************************************************************)
EXTENDS Server

\* The name under which a lookup finds c.
ListedName(c) ==
  LET names == {n \in Nick : findClientGlobal(mClients, n) = c}
  IN  IF names = {} THEN NoNick ELSE CHOOSE n \in names : TRUE

Directory == INSTANCE NickDirectory WITH
  name <- [c \in Client |-> ListedName(c)],
  left <- bExpired,
  open <- status # "stopped"

\* The nickname directory of the running server behaves as NickDirectory: no
\* registered client loses its name but by NICK or by its own disconnection.
ImplementsDirectory == Directory!DirectorySpec

=============================================================================
