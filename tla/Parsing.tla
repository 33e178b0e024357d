------------------------------- MODULE Parsing -------------------------------
(****************************************************************************)
(* Server::processClientMsg: a message, whose CR-LF is removed, is cut in   *)
(* place into a command and its arguments.  Tokens are positions of the     *)
(* message, as the code's tokens are pointers into its block; the text of a *)
(* token ends at the next NUL.  One action is one round of the outer loop.  *)
(****************************************************************************)
EXTENDS SequencesExt

CONSTANTS
  Char,        \* characters of messages, " " and ":" among them; a NUL in a message
               \* would stop the index for ever
  MSG_LEN_MAX  \* bound on the length of a message

Blank == " "
Nul   == "NUL"

ASSUME CharAssumption   == Nul \notin Char
ASSUME MsgLenAssumption == MSG_LEN_MAX \in Nat

VARIABLES
  received,  \* history: the message as it was received
  Message, i,
  msgCommandToken,  \* 0 stands for NULL
  msgArgTokens,
  bPrefixIgnored,
  parsed            \* the loop has ended

parsingVars ==
  <<received, Message, i, msgCommandToken, msgArgTokens, bPrefixIgnored, parsed>>

ParsingInit ==
  /\ received \in BoundedSeq(Char, MSG_LEN_MAX)
  /\ Message = received
  /\ i = 1
  /\ msgCommandToken = 0 /\ msgArgTokens = <<>>
  /\ bPrefixIgnored = FALSE
  /\ parsed = FALSE

MsgLen == Len(received)

-----------------------------------------------------------------------------
\* The first position from p on whose character is (is not) in chars, or MsgLen + 1.
FirstIn(chars, p) ==
  Min({q \in p..MsgLen : Message[q] \in chars} \union {MsgLen + 1})

FirstNotIn(chars, p) ==
  Min({q \in p..MsgLen : Message[q] \notin chars} \union {MsgLen + 1})

\* The start of the next word, and the message with the blanks before it set to NUL.
Word == FirstNotIn({Blank}, i)
BlanksCleared == [p \in 1..MsgLen |-> IF i <= p /\ p < Word THEN Nul ELSE Message[p]]

Parsing == ~parsed /\ i <= MsgLen

StartsPrefix == Message[Word] = ":" /\ msgArgTokens = <<>> /\ ~bPrefixIgnored
StartsTrail  == Message[Word] = ":" /\ msgArgTokens # <<>>

\* "Ignore the part of prefix", wherever it stands before the first argument.
\* (Mutant: any number of prefixes.)
MutantManyPrefixes ==
  /\ Parsing /\ Word <= MsgLen /\ StartsPrefix
  /\ Message' = BlanksCleared
  /\ i' = FirstIn({Blank}, Word) + 1
  /\ UNCHANGED <<received, msgCommandToken, msgArgTokens, bPrefixIgnored, parsed>>

IgnorePrefix ==
  /\ Parsing /\ Word <= MsgLen /\ StartsPrefix
  /\ Message' = BlanksCleared
  /\ i' = FirstIn({Blank}, Word) + 1
  /\ bPrefixIgnored' = TRUE
  /\ UNCHANGED <<received, msgCommandToken, msgArgTokens, parsed>>

\* "<Trail> token": the rest of the message.
TrailToken ==
  /\ Parsing /\ Word <= MsgLen /\ StartsTrail
  /\ Message' = [BlanksCleared EXCEPT ![Word] = Nul]
  /\ msgArgTokens' = Append(msgArgTokens, Word + 1)
  /\ parsed' = TRUE
  /\ UNCHANGED <<received, i, msgCommandToken, bPrefixIgnored>>

\* "Store the normal argument token", the first one as the command.  The loop goes on
\* with the character that ended the token.  (Mutant: with the token itself.)
Store(token) ==
  /\ msgCommandToken' = IF msgCommandToken = 0 THEN token ELSE msgCommandToken
  /\ msgArgTokens' = IF msgCommandToken = 0
                     THEN msgArgTokens ELSE Append(msgArgTokens, token)

MutantStays ==
  /\ Parsing /\ Word <= MsgLen /\ ~StartsPrefix /\ ~StartsTrail
  /\ Message' = BlanksCleared
  /\ Store(Word)
  /\ i' = Word
  /\ UNCHANGED <<received, bPrefixIgnored, parsed>>

NormalToken ==
  /\ Parsing /\ Word <= MsgLen /\ ~StartsPrefix /\ ~StartsTrail
  /\ Message' = BlanksCleared
  /\ Store(Word)
  /\ i' = FirstIn({Blank, Nul}, Word)
  /\ UNCHANGED <<received, bPrefixIgnored, parsed>>

\* Blanks at the end of the message.
OnlyBlanksLeft ==
  /\ Parsing /\ Word > MsgLen
  /\ Message' = BlanksCleared
  /\ i' = Word
  /\ UNCHANGED <<received, msgCommandToken, msgArgTokens, bPrefixIgnored, parsed>>

EndOfMessage ==
  /\ ~parsed /\ i > MsgLen
  /\ parsed' = TRUE
  /\ UNCHANGED <<received, Message, i, msgCommandToken, msgArgTokens, bPrefixIgnored>>

ParsingNext == IgnorePrefix \/ TrailToken \/ NormalToken \/ OnlyBlanksLeft \/ EndOfMessage

ParsingSpec == ParsingInit /\ [][ParsingNext]_parsingVars

-----------------------------------------------------------------------------
(****************************************************************************)
(* Properties                                                               *)
(****************************************************************************)

\* Types; only a prefix moves the index past the end of the message.
ParsingTypeOK ==
  /\ received \in Seq(Char) /\ Message \in Seq(Char \union {Nul}) /\ Len(Message) = MsgLen
  /\ i \in 1..(MsgLen + 2) /\ (i = MsgLen + 2 => bPrefixIgnored)
  /\ msgCommandToken \in 0..MsgLen /\ msgArgTokens \in Seq(1..(MsgLen + 1))
  /\ bPrefixIgnored \in BOOLEAN /\ parsed \in BOOLEAN

\* The text of a token, a C string.
TokenText(token) == SubSeq(Message, token, FirstIn({Nul}, token) - 1)

\* Where the words of a text start and end, and the text of a word.
StartsWord(text, p) == text[p] # Blank /\ (p = 1 \/ text[p - 1] = Blank)
WordEnd(text, p) == Min({q \in p..Len(text) : text[q] = Blank} \union {Len(text) + 1})
WordAt(text, p)  == SubSeq(text, p, WordEnd(text, p) - 1)

\* For each n, the words that start among the first n characters of a text, as positions.
WordsBy(text) ==
  LET words[n \in 0..Len(text)] ==
        IF n = 0 THEN <<>>
        ELSE IF StartsWord(text, n) THEN Append(words[n - 1], n) ELSE words[n - 1]
  IN words

\* The grammar of RFC 1459, [":" prefix] command {argument} [":" trailing], but for an
\* argument with a colon in the first place: such a word is a second chance for the
\* prefix, and if there was one before, an argument with a colon in it.
Unprefixed(text, words) ==
  LET colons == {n \in DOMAIN words : n <= 2 /\ text[words[n]] = ":"}
  IN IF colons = {} THEN words ELSE RemoveAt(words, Min(colons))

GrammarWords(text) == Unprefixed(text, WordsBy(text)[Len(text)])

\* The arguments among the words, up to the first one but the first with a colon, which
\* is the rest of the text.
GrammarArguments(text, words) ==
  LET args   == IF words = <<>> THEN <<>> ELSE Tail(words)
      colons == {n \in 2..Len(args) : text[args[n]] = ":"}
      middle == IF colons = {} THEN Len(args) ELSE Min(colons) - 1
  IN [n \in 1..middle |-> WordAt(text, args[n])]
     \o IF colons = {} THEN <<>>
        ELSE <<SubSeq(text, args[middle + 1] + 1, Len(text))>>

\* However many blanks a message has, and wherever its colons are, the tokens left in
\* the block are its words: the command, the arguments and the trailing argument.
ParsedAsGrammar ==
  parsed =>
    LET words == GrammarWords(received)
    IN /\ (msgCommandToken = 0) = (words = <<>>)
       /\ msgCommandToken # 0 => TokenText(msgCommandToken) = WordAt(received, Head(words))
       /\ [n \in DOMAIN msgArgTokens |-> TokenText(msgArgTokens[n])]
            = GrammarArguments(received, words)

\* Every round of the loop gets further in the message: the loop ends.
Advances == [][parsed' \/ i' > i]_parsingVars

=============================================================================
