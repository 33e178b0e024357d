------------------------------ MODULE MCChannels ------------------------------
(****************************************************************************)
(* Values of the constants of Server for runs with two clients c1 and c2: who *)
(* may ask for which nickname, and the commands of each run.                *)
(****************************************************************************)
EXTENDS ServerDirectory, TLC

CONSTANTS c1, c2, n1, n2, n3

\* One nickname each, and the exchange of the two clients with their names.
OneNickEach  == {<<c1, n1>>, <<c2, n2>>}
PairSymmetry == {(c1 :> c1 @@ c2 :> c2 @@ n1 :> n1 @@ n2 :> n2),
                 (c1 :> c2 @@ c2 :> c1 @@ n1 :> n2 @@ n2 :> n1)}

\* The first client may rename itself, the second one may not.
TwoNicksForFirst == {<<c1, n1>>, <<c1, n3>>, <<c2, n2>>}

\* Any client may ask for any nickname.
AnyClaims == Client \X Nick

Registering == {"PASS", "USER", "NICK"}
CommandsMembership ==
  Registering \union {"JOIN", "PART", "KICK", "INVITE", "MODE", "TOPIC"}
CommandsRename     == Registering \union {"JOIN", "PART", "MODE", "PRIVMSG", "QUIT"}
CommandsLifetime   == Registering \union {"QUIT", "SHUTDOWN", "unknown"}
CommandsQuit       == Registering \union {"JOIN", "PRIVMSG", "QUIT"}

=============================================================================
