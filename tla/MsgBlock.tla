------------------------------ MODULE MsgBlock ------------------------------
(****************************************************************************)
(* Message blocks (MsgBlock.hpp) and the framing of messages on the wire.   *)
(* Bytes are told apart as far as framing does: carriage return, line feed, *)
(* and any other byte.                                                      *)
(****************************************************************************)
EXTENDS SequencesExt

CONSTANT MESSAGE_LEN_MAX  \* size of a block in bytes

CRLF_LEN_2 == 2

ASSUME MessageLenAssumption == MESSAGE_LEN_MAX \in Nat /\ MESSAGE_LEN_MAX > CRLF_LEN_2

Byte == {"CR", "LF", "x"}
CRLF == <<"CR", "LF">>

EndsWithCRLF(text) ==
  Len(text) >= CRLF_LEN_2 /\ text[Len(text) - 1] = "CR" /\ text[Len(text)] = "LF"

\* Where the CR-LFs of a stream end, the last of them among its first n bytes, and the
\* line that ends at n, without its CR-LF.
Ends(stream)       == {n \in 2..Len(stream) : stream[n - 1] = "CR" /\ stream[n] = "LF"}
LastEnd(stream, n) == Max({0} \union {e \in Ends(stream) : e <= n})
LineAt(stream, n)  == SubSeq(stream, LastEnd(stream, n - 1) + 1, n - CRLF_LEN_2)

\* For each n, the complete lines among the first n bytes of a stream that are no longer
\* than longest.
LinesBy(stream, longest) ==
  LET lines[n \in 0..Len(stream)] ==
        IF n = 0 THEN <<>>
        ELSE IF n \in Ends(stream) /\ Len(LineAt(stream, n)) <= longest
             THEN Append(lines[n - 1], LineAt(stream, n))
             ELSE lines[n - 1]
  IN lines

Lines(stream) == LinesBy(stream, Len(stream))[Len(stream)]

\* What MsgBlock(str) keeps of a string.
Truncated(text) ==
  IF Len(text) >= MESSAGE_LEN_MAX
  THEN SubSeq(text, 1, MESSAGE_LEN_MAX - CRLF_LEN_2)
  ELSE text

=============================================================================
