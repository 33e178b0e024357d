------------------------------- MODULE Framing -------------------------------
(****************************************************************************)
(* Receiving from one client: READ events fill message blocks with whatever *)
(* part of the stream has arrived, and the processing phase cuts the blocks *)
(* into messages (Server::separateMsgsFromClientRecvMsgs).                  *)
(*                                                                          *)
(* stream and delivered are history: every byte received so far, and every  *)
(* message handed to processClientMsg.                                      *)
(****************************************************************************)
EXTENDS MsgBlock

CONSTANTS
  NUM_CLIENT_MSGBLOCK_RECV_IGNORE_THRESHOLD,  \* blocks at which READ is ignored
  STREAM_MAX                                  \* bound on the bytes the peer sends

ASSUME ThresholdAssumption == NUM_CLIENT_MSGBLOCK_RECV_IGNORE_THRESHOLD \in Nat \ 0..2
ASSUME StreamAssumption    == STREAM_MAX \in Nat

VARIABLES
  stream,
  delivered,
  RecvMsgBlocks,       \* sequence of blocks, each the sequence of its MsgLen bytes
  RecvMsgBlockCursor,  \* offset into the first block
  queued,              \* entries of the client in receivedClientMsgProcessQueue
  processing,          \* whether the queue is being gone through
  framingStatus        \* "running", "aborted" (Assert) or "corrupted" (overflow)

framingVars == <<stream, delivered, RecvMsgBlocks, RecvMsgBlockCursor, queued, processing,
                 framingStatus>>

FramingInit ==
  /\ stream = <<>> /\ delivered = <<>>
  /\ RecvMsgBlocks = <<>> /\ RecvMsgBlockCursor = 0
  /\ queued = 0 /\ processing = FALSE
  /\ framingStatus = "running"

FramingRuns == framingStatus = "running"

-----------------------------------------------------------------------------
\* A READ event: recv() into what is left of the last block, or into a new one.
\* (Mutant: every recv() starts a new block.)
MutantNewBlocks ==
  /\ FramingRuns /\ ~processing
  /\ Len(RecvMsgBlocks) < NUM_CLIENT_MSGBLOCK_RECV_IGNORE_THRESHOLD
  /\ \E n \in 1..MESSAGE_LEN_MAX : \E bytes \in [1..n -> Byte] :
       /\ Len(stream) + n <= STREAM_MAX
       /\ RecvMsgBlocks' = Append(RecvMsgBlocks, bytes)
       /\ stream' = stream \o bytes
  /\ queued' = queued + 1
  /\ UNCHANGED <<delivered, RecvMsgBlockCursor, processing, framingStatus>>

Receive ==
  /\ FramingRuns /\ ~processing
  /\ Len(RecvMsgBlocks) < NUM_CLIENT_MSGBLOCK_RECV_IGNORE_THRESHOLD
  /\ LET fresh == RecvMsgBlocks = <<>> \/ Len(Last(RecvMsgBlocks)) = MESSAGE_LEN_MAX
         block == IF fresh THEN <<>> ELSE Last(RecvMsgBlocks)
     IN \E n \in 1..(MESSAGE_LEN_MAX - Len(block)) : \E bytes \in [1..n -> Byte] :
          /\ Len(stream) + n <= STREAM_MAX
          /\ RecvMsgBlocks' =
               Append(IF fresh THEN RecvMsgBlocks ELSE Front(RecvMsgBlocks), block \o bytes)
          /\ stream' = stream \o bytes
  /\ queued' = queued + 1
  /\ UNCHANGED <<delivered, RecvMsgBlockCursor, processing, framingStatus>>

-----------------------------------------------------------------------------
(****************************************************************************)
(* separateMsgsFromClientRecvMsgs.  All blocks but the last are full, so    *)
(* byte k of block b is byte Position(b, k) of all blocks.                  *)
(****************************************************************************)
Position(b, k) == (b - 1) * MESSAGE_LEN_MAX + k

\* The bytes the blocks hold.
Received ==
  IF RecvMsgBlocks = <<>> THEN 0 ELSE Position(Len(RecvMsgBlocks), Len(Last(RecvMsgBlocks)))

\* The scan goes on to the next byte.
NextByte(scan) ==
  IF scan.parseIdx + 1 < Len(RecvMsgBlocks[scan.block])
  THEN [scan EXCEPT !.parseIdx = @ + 1]
  ELSE [scan EXCEPT !.parseIdx = 0, !.block = @ + 1]

\* The scan of one byte.  Once a message has filled its block, bytes are skipped until
\* the next CR-LF.  (Mutants: the cursor is left on the last byte of the message; the
\* last character is not remembered while skipping.)
MutantCursorOnLF(scan) ==
  LET byte == RecvMsgBlocks[scan.block][scan.parseIdx + 1]
      msg  == Append(scan.msg, byte)
      next == NextByte(scan)
      done == [next EXCEPT !.msg = <<>>, !.skipping = FALSE, !.cursor = scan.parseIdx,
                           !.lastParsedBlock = scan.block - 1]
  IN IF EndsWithCRLF(msg)
     THEN [done EXCEPT !.out = Append(@, SubSeq(msg, 1, Len(msg) - CRLF_LEN_2))]
     ELSE [next EXCEPT !.msg = msg]

MutantForgetsCR(scan) ==
  LET byte == RecvMsgBlocks[scan.block][scan.parseIdx + 1]
      msg  == Append(scan.msg, byte)
      next == NextByte(scan)
      done == [next EXCEPT !.msg = <<>>, !.skipping = FALSE, !.cursor = scan.parseIdx + 1,
                           !.lastParsedBlock = scan.block - 1]
  IN CASE scan.skipping /\ scan.lastChar = "CR" /\ byte = "LF" -> done
       [] scan.skipping -> next
       [] ~scan.skipping /\ EndsWithCRLF(msg) ->
            [done EXCEPT !.out = Append(@, SubSeq(msg, 1, Len(msg) - CRLF_LEN_2))]
       [] ~scan.skipping /\ ~EndsWithCRLF(msg) ->
            [next EXCEPT !.msg = msg, !.lastChar = byte,
                         !.skipping = Len(msg) = MESSAGE_LEN_MAX]

ScanByte(scan) ==
  LET byte == RecvMsgBlocks[scan.block][scan.parseIdx + 1]
      msg  == Append(scan.msg, byte)
      next == NextByte(scan)
      done == [next EXCEPT !.msg = <<>>, !.skipping = FALSE, !.cursor = scan.parseIdx + 1,
                           !.lastParsedBlock = scan.block - 1]
  IN CASE scan.skipping /\ scan.lastChar = "CR" /\ byte = "LF" -> done
       [] scan.skipping /\ ~(scan.lastChar = "CR" /\ byte = "LF") ->
            [next EXCEPT !.lastChar = byte]
       [] ~scan.skipping /\ EndsWithCRLF(msg) ->
            [done EXCEPT !.out = Append(@, SubSeq(msg, 1, Len(msg) - CRLF_LEN_2))]
       [] ~scan.skipping /\ ~EndsWithCRLF(msg) ->
            [next EXCEPT !.msg = msg, !.lastChar = byte,
                         !.skipping = Len(msg) = MESSAGE_LEN_MAX]

ScanStart ==
  [block |-> 1, parseIdx |-> RecvMsgBlockCursor, msg |-> <<>>, out |-> <<>>,
   skipping |-> FALSE, lastChar |-> "x", cursor |-> RecvMsgBlockCursor,
   lastParsedBlock |-> 0]

\* The scan of all bytes behind the cursor.
Scan ==
  LET scans[n \in 0..(Received - RecvMsgBlockCursor)] ==
        IF n = 0 THEN ScanStart ELSE ScanByte(scans[n - 1])
  IN scans[Received - RecvMsgBlockCursor]

\* "Already processed all messages": the cursor is behind the first block.
NothingToSeparate ==
  RecvMsgBlocks = <<>> \/ RecvMsgBlockCursor >= Len(Head(RecvMsgBlocks))

\* When the end of a message that is too long has not arrived, the scan resumes at
\* offset 1 of the last block with a message block that is full already.
Overflows == Scan.skipping /\ Len(Last(RecvMsgBlocks)) > 1

\* processClientMsg asserts that a CR-LF fits behind the message and one byte more.
\* (Mutant: two bytes more.)
MutantFits(msg) == Len(msg) < MESSAGE_LEN_MAX - CRLF_LEN_2 - 1
Fits(msg) == Len(msg) < MESSAGE_LEN_MAX - CRLF_LEN_2

\* An entry of the queue is processed; no event is handled before the queue is done.
\* With two entries the second one finds the blocks as the first one left them.
Process ==
  /\ FramingRuns /\ queued > 0
  /\ queued' = queued - 1 /\ processing' = (queued > 1)
  /\ \/ /\ NothingToSeparate
        /\ UNCHANGED <<delivered, RecvMsgBlocks, RecvMsgBlockCursor, framingStatus>>
     \/ /\ ~NothingToSeparate /\ Overflows
        /\ framingStatus' = "corrupted"
        /\ UNCHANGED <<delivered, RecvMsgBlocks, RecvMsgBlockCursor>>
     \/ /\ ~NothingToSeparate /\ ~Overflows
        /\ delivered' = delivered \o Scan.out
        /\ RecvMsgBlocks' =
             SubSeq(RecvMsgBlocks, Scan.lastParsedBlock + 1, Len(RecvMsgBlocks))
        /\ RecvMsgBlockCursor' = Scan.cursor
        /\ framingStatus' = IF \A i \in DOMAIN Scan.out : Fits(Scan.out[i])
                            THEN "running" ELSE "aborted"
  /\ UNCHANGED stream

FramingNext == Receive \/ Process

FramingSpec == FramingInit /\ [][FramingNext]_framingVars

-----------------------------------------------------------------------------
(****************************************************************************)
(* Properties                                                               *)
(****************************************************************************)

\* Types; every block but the last is full and no block is empty.
FramingTypeOK ==
  /\ stream \in Seq(Byte) /\ Len(stream) <= STREAM_MAX
  /\ delivered \in Seq(Seq(Byte))
  /\ RecvMsgBlocks \in Seq(Seq(Byte))
  /\ Len(RecvMsgBlocks) <= NUM_CLIENT_MSGBLOCK_RECV_IGNORE_THRESHOLD
  /\ \A i \in DOMAIN RecvMsgBlocks :
       /\ Len(RecvMsgBlocks[i]) \in 1..MESSAGE_LEN_MAX
       /\ i < Len(RecvMsgBlocks) => Len(RecvMsgBlocks[i]) = MESSAGE_LEN_MAX
  /\ RecvMsgBlockCursor \in 0..MESSAGE_LEN_MAX
  /\ queued \in Nat /\ processing \in BOOLEAN
  /\ framingStatus \in {"running", "aborted", "corrupted"}

\* The messages of a stream: its lines, without those that fill more than a block.
Frames(bytes) == LinesBy(bytes, MESSAGE_LEN_MAX - CRLF_LEN_2)[Len(bytes)]

\* The bytes of the stream that have left the blocks, and those before the cursor.
Removed  == Len(stream) - Received
ParsedTo == Removed + RecvMsgBlockCursor

\* However the stream is cut into recv() calls and processing phases, the blocks hold the
\* end of the stream, and what is before the cursor has come out as exactly its messages,
\* once and in order.
CursorIsExact ==
  /\ \A b \in DOMAIN RecvMsgBlocks : \A k \in DOMAIN RecvMsgBlocks[b] :
       RecvMsgBlocks[b][k] = stream[Removed + Position(b, k)]
  /\ delivered = Frames(SubSeq(stream, 1, ParsedTo))

\* The cursor is at the end of a full first block: separation returns early from now on.
Stalled == RecvMsgBlockCursor = MESSAGE_LEN_MAX

\* No complete message stays behind once the queue is processed, unless the client
\* is stalled: a message came to its end exactly where a block did.
CompleteOrStalled ==
  FramingRuns /\ queued = 0 =>
    Stalled \/ Lines(SubSeq(stream, ParsedTo + 1, Len(stream))) = <<>>

\* The bytes behind the last complete line.
Unfinished == SubSeq(stream, LastEnd(stream, Len(stream)) + 1, Len(stream))

\* A peer whose messages are shorter than a block brings nothing down: a message that
\* just fills a block fails the assertion of processClientMsg, and one that has filled a
\* block and has not ended yet is written behind one, but no other message.
ShortMessagesAreSafe ==
  /\ framingStatus = "aborted" =>
       \E line \in ToSet(Lines(stream)) : Len(line) + CRLF_LEN_2 = MESSAGE_LEN_MAX
  /\ framingStatus = "corrupted" => Len(Unfinished) >= MESSAGE_LEN_MAX

=============================================================================
