------------------------------- MODULE MCMemory -------------------------------
(****************************************************************************)
(* The memory of the server for TLC: one run explores each of its parts     *)
(* alone; the other one stays as it is at the beginning.                    *)
(*                                                                          *)
(* The constants of SharedCount describe clients that hold a channel        *)
(* (client->Channels), a channel that refers to clients (channel->Clients), *)
(* variables of either kind, and mChannels.                                 *)
(****************************************************************************)
EXTENDS Memory, TLC

CONSTANTS
  k1, k2,                               \* clients
  ch,                                   \* a channel
  client1, client2, channel1, channel2, \* variables: SharedPtr
  channels1, channels2,                 \* Channels of k1 and k2: SharedPtr
  clients1, clients2,                   \* entries of Clients of ch: WeakPtr
  mChannels                             \* an entry of mChannels: WeakPtr

MCOwner ==
  channels1 :> k1 @@ channels2 :> k2 @@ clients1 :> ch @@ clients2 :> ch
  @@ [s \in {client1, client2, channel1, channel2, mChannels} |-> NoObject]

MCTargets ==
  [s \in {client1, client2, clients1, clients2} |-> {k1, k2}]
  @@ [s \in {channel1, channel2, channels1, channels2, mChannels} |-> {ch}]

=============================================================================
