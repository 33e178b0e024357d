------------------------------- MODULE Sending -------------------------------
(****************************************************************************)
(* Sending: a message becomes one block, shared by the sending queues of    *)
(* all its receivers, and leaves each of them in as many parts as send()    *)
(* takes (Server::sendMsgToClient and the WRITE event).                     *)
(*                                                                          *)
(* wire, texts and sent are history: the bytes a peer was sent, the texts   *)
(* the server meant to send it, and the blocks as they were when queued.    *)
(****************************************************************************)
EXTENDS MsgBlock

CONSTANTS
  Client,         \* receivers; none of them is expired
  Text,           \* texts of messages, sequences of bytes
  RECEIVERS_MAX,  \* bound on the receivers of one message
  MESSAGES_MAX    \* bound on the messages

ASSUME TextAssumption  == Text \subseteq Seq(Byte)
ASSUME BoundAssumption == RECEIVERS_MAX \in Nat /\ MESSAGES_MAX \in Nat

VARIABLES
  Msg,                 \* sequence of all blocks made so far, each its MsgLen bytes
  MsgSendingQueue,     \* [Client -> sequence of indices into Msg]
  SendMsgBlockCursor,  \* [Client -> offset into the first block of the queue]
  wire, texts, sent,
  sendingStatus        \* "running" or "corrupted" (a block written past its end)

sendingVars == <<Msg, MsgSendingQueue, SendMsgBlockCursor, wire, texts, sent, sendingStatus>>

SendingInit ==
  /\ Msg = <<>>
  /\ MsgSendingQueue = [c \in Client |-> <<>>]
  /\ SendMsgBlockCursor = [c \in Client |-> 0]
  /\ wire = [c \in Client |-> <<>>]
  /\ texts = [c \in Client |-> <<>>] /\ sent = [c \in Client |-> <<>>]
  /\ sendingStatus = "running"

SendingRuns == sendingStatus = "running"

-----------------------------------------------------------------------------
\* The test for a CR-LF at the end: it looks for a CR in the last place but one, and
\* for a LF in the last place, and is content with either of them.
SeemsTerminated(block) ==
  /\ Len(block) >= CRLF_LEN_2
  /\ block[Len(block) - 1] = "CR" \/ block[Len(block)] = "LF"

\* What one sendMsgToClient makes of the block.  (Mutants: the CR-LF is inserted
\* whatever the block ends with; room is left for one byte of it.)
MutantAlwaysInserts(block) ==
  (IF Len(block) >= MESSAGE_LEN_MAX
   THEN SubSeq(block, 1, MESSAGE_LEN_MAX - CRLF_LEN_2) ELSE block) \o CRLF

MutantLeavesOneByte(block) ==
  LET short == IF Len(block) >= MESSAGE_LEN_MAX
               THEN SubSeq(block, 1, MESSAGE_LEN_MAX - 1) ELSE block
  IN IF SeemsTerminated(short) THEN short ELSE short \o CRLF

Terminated(block) ==
  LET short == IF Len(block) >= MESSAGE_LEN_MAX
               THEN SubSeq(block, 1, MESSAGE_LEN_MAX - CRLF_LEN_2) ELSE block
  IN IF SeemsTerminated(short) THEN short ELSE short \o CRLF

\* One sendMsgToClient of the block that is Msg[Len(Msg) + 1].  state is a record of what
\* the calls for this block have changed so far.
SendMsgToClient(state, c, text) ==
  LET block == Terminated(state.block)
  IN [block  |-> block,
      queue  |-> [state.queue EXCEPT ![c] = Append(@, Len(Msg) + 1)],
      cursor |-> IF state.queue[c] = <<>> THEN [state.cursor EXCEPT ![c] = 0]
                 ELSE state.cursor,
      texts  |-> [state.texts EXCEPT ![c] = Append(@, text)],
      sent   |-> [state.sent EXCEPT ![c] = Append(@, block)],
      status |-> IF Len(block) <= MESSAGE_LEN_MAX THEN state.status ELSE "corrupted"]

\* The state after the calls for all receivers.
AfterCalls(text, receivers) ==
  LET calls[n \in 0..Len(receivers)] ==
        IF n = 0
        THEN [block |-> Truncated(text), queue |-> MsgSendingQueue,
              cursor |-> SendMsgBlockCursor, texts |-> texts, sent |-> sent,
              status |-> sendingStatus]
        ELSE SendMsgToClient(calls[n - 1], receivers[n], text)
  IN calls[Len(receivers)]

\* sendMsgToClient for the same block once per receiver: a client that shares two
\* channels with the sender is among the receivers twice.
SendMsg(text, receivers) ==
  LET after == AfterCalls(text, receivers)
  IN /\ SendingRuns /\ Len(Msg) < MESSAGES_MAX
     /\ Msg' = Append(Msg, after.block)
     /\ MsgSendingQueue' = after.queue
     /\ SendMsgBlockCursor' = after.cursor
     /\ texts' = after.texts
     /\ sent' = after.sent
     /\ sendingStatus' = after.status
     /\ UNCHANGED wire

\* A WRITE event: send() takes n of the remaining bytes of the first block.
WriteEvent(c, n) ==
  LET queue == MsgSendingQueue[c] IN
  /\ SendingRuns /\ queue # <<>>
  /\ LET block  == Msg[Head(queue)]
         cursor == SendMsgBlockCursor[c]
     IN /\ n <= Len(block) - cursor
        /\ wire' = [wire EXCEPT ![c] = @ \o SubSeq(block, cursor + 1, cursor + n)]
        /\ \/ /\ cursor + n < Len(block)
              /\ SendMsgBlockCursor' = [SendMsgBlockCursor EXCEPT ![c] = cursor + n]
              /\ UNCHANGED MsgSendingQueue
           \/ /\ cursor + n = Len(block)
              /\ SendMsgBlockCursor' = [SendMsgBlockCursor EXCEPT ![c] = 0]
              /\ MsgSendingQueue' = [MsgSendingQueue EXCEPT ![c] = Tail(@)]
  /\ UNCHANGED <<Msg, texts, sent, sendingStatus>>

SendingNext ==
  \/ \E text \in Text : \E k \in 1..RECEIVERS_MAX : \E receivers \in [1..k -> Client] :
       SendMsg(text, receivers)
  \/ \E c \in Client : \E n \in 1..MESSAGE_LEN_MAX : WriteEvent(c, n)

SendingSpec == SendingInit /\ [][SendingNext]_sendingVars

-----------------------------------------------------------------------------
(****************************************************************************)
(* Properties                                                               *)
(****************************************************************************)

\* Types; the queues hold blocks that exist, and an empty queue has no cursor.
SendingTypeOK ==
  /\ Msg \in Seq(Seq(Byte)) /\ Len(Msg) <= MESSAGES_MAX
  /\ MsgSendingQueue \in [Client -> Seq(DOMAIN Msg)]
  /\ SendMsgBlockCursor \in [Client -> 0..MESSAGE_LEN_MAX]
  /\ \A c \in Client : MsgSendingQueue[c] = <<>> => SendMsgBlockCursor[c] = 0
  /\ wire \in [Client -> Seq(Byte)]
  /\ texts \in [Client -> Seq(Text)] /\ sent \in [Client -> Seq(Seq(Byte))]
  /\ sendingStatus \in {"running", "corrupted"}

\* The bytes the queue of c still holds.
Remaining(c) ==
  LET all == FlattenSeq([i \in DOMAIN MsgSendingQueue[c] |-> Msg[MsgSendingQueue[c][i]]])
  IN SubSeq(all, SendMsgBlockCursor[c] + 1, Len(all))

\* Each peer is sent exactly the blocks queued for it, in order and as they were when
\* they were queued, although they are shared with queues that send at another pace
\* ("Do not modify the message block in the queue", ClientControlBlock.hpp:58).
WireIsQueue ==
  SendingRuns => \A c \in Client : wire[c] \o Remaining(c) = FlattenSeq(sent[c])

\* A text without a CR or LF of its own, or with just a CR-LF at its end, which fits
\* into a block.
Body(text)   == IF EndsWithCRLF(text) THEN SubSeq(text, 1, Len(text) - CRLF_LEN_2) ELSE text
Proper(text) == "CR" \notin ToSet(Body(text)) /\ "LF" \notin ToSet(Body(text))

\* A peer that splits what it receives at CR-LF gets the messages meant for it, one by
\* one, the long ones truncated, as long as their texts are proper.  Only a text one byte
\* shorter than a block is written behind its end.
Shown(text) ==
  IF Len(text) >= MESSAGE_LEN_MAX
  THEN SubSeq(Body(text), 1, MESSAGE_LEN_MAX - CRLF_LEN_2) ELSE Body(text)

FramedAsSent ==
  IF SendingRuns
  THEN \A c \in Client :
         (\A i \in DOMAIN texts[c] : Proper(texts[c][i])) =>
           Lines(wire[c] \o Remaining(c)) = [i \in DOMAIN texts[c] |-> Shown(texts[c][i])]
  ELSE \E c \in Client : \E i \in DOMAIN texts[c] : Len(texts[c][i]) = MESSAGE_LEN_MAX - 1

=============================================================================
