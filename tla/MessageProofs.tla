--------------------------- MODULE MessageProofs ----------------------------
(***************************************************************************)
(* Proofs about what happens to a message: how it is parsed (Parsing), how *)
(* MODE carries out its letters (ModeChanges), how it reaches the wire     *)
(* (Sending) and whoever reads there (Framing), for every value of their   *)
(* constants.                                                              *)
(***************************************************************************)
EXTENDS Messages, FramingProofs, FiniteSetTheorems

\* A bounded sequence is a sequence.
LEMMA BoundedSequences ==
  ASSUME NEW S, NEW n \in Nat, NEW s \in BoundedSeq(S, n)
  PROVE  s \in Seq(S) /\ Len(s) \in Nat /\ Len(s) <= n
<1>1. PICK m \in 0..n : s \in [1..m -> S]
  BY DEF BoundedSeq, SeqOf
<1> QED
  BY <1>1

-----------------------------------------------------------------------------
(***************************************************************************)
(* Parsing.                                                                *)
(***************************************************************************)

\* Min(S) is the least element of a set of numbers.
LEMMA MinIsLeast ==
  ASSUME NEW S \in SUBSET Nat, S # {}
  PROVE  Min(S) \in S /\ \A n \in S : Min(S) <= n
<1>1. PICK m \in S : \A n \in S : ~(n < m)
  BY LeastElement
<1>2. \A n \in S : m <= n
  BY <1>1
<1> QED
  BY <1>1, <1>2 DEF Min

\* The part of the message the loop has not come to is as it was received.
Ahead == ~parsed => \A p \in i..MsgLen : Message[p] = received[p]

ParsingInv == ParsingTypeOK /\ Ahead

\* A search ends at the character it looks for, or behind the message.
LEMMA Searches ==
  ASSUME MsgLen \in Nat, NEW chars, NEW p \in 1..MsgLen + 1
  PROVE  /\ FirstIn(chars, p) \in p..MsgLen + 1
         /\ FirstIn(chars, p) <= MsgLen => Message[FirstIn(chars, p)] \in chars
         /\ FirstNotIn(chars, p) \in p..MsgLen + 1
         /\ FirstNotIn(chars, p) <= MsgLen => Message[FirstNotIn(chars, p)] \notin chars
         /\ \A q \in p..FirstNotIn(chars, p) - 1 : Message[q] \in chars
<1>1. /\ FirstIn(chars, p) \in p..MsgLen + 1
      /\ FirstIn(chars, p) <= MsgLen => Message[FirstIn(chars, p)] \in chars
  <2> DEFINE S == {q \in p..MsgLen : Message[q] \in chars} \union {MsgLen + 1}
  <2>1. S \in SUBSET Nat /\ S # {} /\ S \subseteq p..MsgLen + 1
    OBVIOUS
  <2>2. \A q \in S : q <= MsgLen => Message[q] \in chars
    OBVIOUS
  <2>3. FirstIn(chars, p) = Min(S)
    BY DEF FirstIn
  <2> HIDE DEF S
  <2> QED
    BY <2>1, <2>2, <2>3, MinIsLeast
<1>2. /\ FirstNotIn(chars, p) \in p..MsgLen + 1
      /\ FirstNotIn(chars, p) <= MsgLen => Message[FirstNotIn(chars, p)] \notin chars
      /\ \A q \in p..FirstNotIn(chars, p) - 1 : Message[q] \in chars
  <2> DEFINE S == {q \in p..MsgLen : Message[q] \notin chars} \union {MsgLen + 1}
  <2>1. S \in SUBSET Nat /\ S # {} /\ S \subseteq p..MsgLen + 1
    OBVIOUS
  <2>2. \A q \in S : q <= MsgLen => Message[q] \notin chars
    OBVIOUS
  <2>3. FirstNotIn(chars, p) = Min(S)
    BY DEF FirstNotIn
  <2>4. \A q \in p..MsgLen : q \notin S => Message[q] \in chars
    OBVIOUS
  <2> HIDE DEF S
  <2>5. Min(S) \in S /\ \A q \in S : Min(S) <= q
    BY <2>1, MinIsLeast
  <2>6. \A q \in p..Min(S) - 1 : q \in p..MsgLen /\ q \notin S
    <3> TAKE q \in p..Min(S) - 1
    <3>1. Min(S) \in p..MsgLen + 1
      BY <2>1, <2>5
    <3>2. q \in p..MsgLen /\ ~(Min(S) <= q)
      BY <3>1
    <3> QED
      BY <2>5, <3>2
  <2> QED
    BY <2>1, <2>2, <2>3, <2>4, <2>5, <2>6
<1> QED
  BY <1>1, <1>2

\* At the start the whole message is ahead.
LEMMA ParsingInvInit == ParsingInit => ParsingInv
<1> SUFFICES ASSUME ParsingInit
             PROVE  ParsingInv
  OBVIOUS
<1>1. received \in Seq(Char) /\ Len(received) \in Nat
  BY BoundedSequences, MsgLenAssumption DEF ParsingInit
<1>2. received \in Seq(Char \union {Nul})
  BY <1>1, SeqMonotonic
<1>3. Message = received /\ i = 1 /\ msgCommandToken = 0 /\ msgArgTokens = <<>>
      /\ bPrefixIgnored = FALSE /\ parsed = FALSE
  BY DEF ParsingInit
<1>4. i \in 1..MsgLen + 2 /\ i # MsgLen + 2 /\ msgCommandToken \in 0..MsgLen
  BY <1>1, <1>3 DEF MsgLen
<1>5. msgArgTokens \in Seq(1..MsgLen + 1)
  BY <1>3, EmptySeq
<1> QED
  BY <1>1, <1>2, <1>3, <1>4, <1>5 DEF ParsingInv, ParsingTypeOK, Ahead, MsgLen

\* A round of the loop: the next word is ahead, and the blanks before it become NUL.
LEMMA RoundStarts ==
  ASSUME ParsingInv, Parsing
  PROVE  /\ MsgLen \in Nat /\ i \in 1..MsgLen
         /\ Word \in i..MsgLen + 1
         /\ Word <= MsgLen => /\ Message[Word] # Blank
                              /\ Message[Word] = received[Word]
                              /\ Message[Word] # Nul
                              /\ FirstIn({Blank}, Word) \in Word + 1..MsgLen + 1
                              /\ FirstIn({Blank, Nul}, Word) \in Word + 1..MsgLen + 1
         /\ BlanksCleared \in Seq(Char \union {Nul}) /\ Len(BlanksCleared) = MsgLen
         /\ DOMAIN BlanksCleared = 1..MsgLen
         /\ \A p \in Word..MsgLen : BlanksCleared[p] = received[p]
<1>1. MsgLen \in Nat /\ i \in 1..MsgLen
  BY DEF ParsingInv, ParsingTypeOK, Parsing, MsgLen
<1>2. Word \in i..MsgLen + 1 /\ (Word <= MsgLen => Message[Word] # Blank)
  <2>1. i \in 1..MsgLen + 1
    BY <1>1
  <2> QED
    BY <1>1, <2>1, Searches DEF Word
<1>3. \A p \in Word..MsgLen : p \in i..MsgLen /\ Message[p] = received[p]
  BY <1>1, <1>2 DEF ParsingInv, Ahead, Parsing
<1>4. ASSUME Word <= MsgLen
      PROVE  /\ Message[Word] = received[Word]
             /\ Message[Word] # Nul
             /\ FirstIn({Blank}, Word) \in Word + 1..MsgLen + 1
             /\ FirstIn({Blank, Nul}, Word) \in Word + 1..MsgLen + 1
  <2>1. Word \in 1..MsgLen /\ Message[Word] = received[Word]
    BY <1>1, <1>2, <1>3, <1>4
  <2>2. received[Word] \in Char
    BY <2>1 DEF ParsingInv, ParsingTypeOK, MsgLen
  <2>3. Message[Word] # Nul
    BY <2>1, <2>2, CharAssumption
  <2>4. Word \in 1..MsgLen + 1
    BY <1>1, <2>1
  <2>5. /\ FirstIn({Blank}, Word) \in Word..MsgLen + 1
        /\ FirstIn({Blank}, Word) <= MsgLen => Message[FirstIn({Blank}, Word)] = Blank
    BY <1>1, <2>4, Searches
  <2>6. /\ FirstIn({Blank, Nul}, Word) \in Word..MsgLen + 1
        /\ FirstIn({Blank, Nul}, Word) <= MsgLen =>
             Message[FirstIn({Blank, Nul}, Word)] \in {Blank, Nul}
    BY <1>1, <2>4, Searches
  <2>7. FirstIn({Blank}, Word) # Word /\ FirstIn({Blank, Nul}, Word) # Word
    BY <1>2, <1>4, <2>3, <2>5, <2>6
  <2> QED
    BY <1>1, <2>1, <2>3, <2>5, <2>6, <2>7
<1>5. /\ BlanksCleared \in Seq(Char \union {Nul}) /\ Len(BlanksCleared) = MsgLen
      /\ DOMAIN BlanksCleared = 1..MsgLen
  <2>1. \A p \in 1..MsgLen : Message[p] \in Char \union {Nul}
    BY DEF ParsingInv, ParsingTypeOK
  <2>2. BlanksCleared \in [1..MsgLen -> Char \union {Nul}]
    BY <2>1 DEF BlanksCleared
  <2> QED
    BY <1>1, <2>2
<1>6. \A p \in Word..MsgLen : BlanksCleared[p] = received[p]
  BY <1>1, <1>2, <1>3 DEF BlanksCleared
<1> QED
  BY <1>1, <1>2, <1>4, <1>5, <1>6

\* The loop goes on at a later position, and everything from there on is as received.
LEMMA RoundsKeep ==
  ASSUME ParsingInv, Parsing, received' = received, Message' = BlanksCleared,
         i' \in Word..MsgLen + 2, i' > i, i' = MsgLen + 2 => bPrefixIgnored',
         msgCommandToken' \in 0..MsgLen, msgArgTokens' \in Seq(1..MsgLen + 1),
         bPrefixIgnored' \in BOOLEAN, parsed' = parsed
  PROVE  ParsingInv'
<1>1. MsgLen' = MsgLen
  BY DEF MsgLen
<1>2. i' \in 1..MsgLen + 2
  BY RoundStarts
<1>3. ParsingTypeOK'
  BY <1>1, <1>2, RoundStarts DEF ParsingInv, ParsingTypeOK
<1>4. Ahead'
  <2>1. \A p \in i'..MsgLen : p \in Word..MsgLen
    BY <1>2, RoundStarts
  <2> QED
    BY <1>1, <2>1, RoundStarts DEF Ahead
<1> QED
  BY <1>3, <1>4 DEF ParsingInv

\* Every round keeps the invariant, and gets further or ends the loop.
LEMMA ParsingInvNext ==
  ASSUME ParsingInv, [ParsingNext]_parsingVars
  PROVE  /\ ParsingInv'
         /\ parsed' \/ i' > i \/ UNCHANGED parsingVars
<1>1. CASE IgnorePrefix
  <2>1. Parsing /\ Word <= MsgLen /\ i' = FirstIn({Blank}, Word) + 1
    BY <1>1 DEF IgnorePrefix
  <2>2. i' \in Word..MsgLen + 2 /\ i' > i
    BY <2>1, RoundStarts
  <2> QED
    BY <1>1, <2>1, <2>2, RoundsKeep DEF IgnorePrefix, ParsingInv, ParsingTypeOK
<1>2. CASE TrailToken
  <2>1. Parsing /\ Word <= MsgLen /\ parsed' /\ received' = received /\ i' = i
    BY <1>2 DEF TrailToken
  <2>2. Message' \in Seq(Char \union {Nul}) /\ Len(Message') = MsgLen
    <3>1. Word \in 1..Len(BlanksCleared) /\ Nul \in Char \union {Nul}
      BY <2>1, RoundStarts
    <3> QED
      BY <1>2, <2>1, <3>1, RoundStarts, ExceptSeq DEF TrailToken
  <2>3. msgArgTokens' \in Seq(1..MsgLen + 1)
    <3>1. Word + 1 \in 1..MsgLen + 1
      BY <2>1, RoundStarts
    <3> QED
      BY <1>2, <3>1 DEF TrailToken, ParsingInv, ParsingTypeOK
  <2>4. MsgLen' = MsgLen
    BY <2>1 DEF MsgLen
  <2> QED
    BY <1>2, <2>1, <2>2, <2>3, <2>4 DEF TrailToken, ParsingInv, ParsingTypeOK, Ahead
<1>3. CASE NormalToken
  <2>1. Parsing /\ Word <= MsgLen /\ i' = FirstIn({Blank, Nul}, Word)
    BY <1>3 DEF NormalToken
  <2>2. i' \in Word..MsgLen + 2 /\ i' > i /\ i' # MsgLen + 2
    BY <2>1, RoundStarts
  <2>3. Word \in 1..MsgLen /\ Word \in 1..MsgLen + 1 /\ Word \in 0..MsgLen
    BY <2>1, RoundStarts
  <2>4. msgCommandToken' \in 0..MsgLen /\ msgArgTokens' \in Seq(1..MsgLen + 1)
    <3>1. /\ msgCommandToken' = IF msgCommandToken = 0 THEN Word ELSE msgCommandToken
          /\ msgArgTokens' = IF msgCommandToken = 0
                             THEN msgArgTokens ELSE Append(msgArgTokens, Word)
      BY <1>3 DEF NormalToken, Store
    <3>2. msgCommandToken \in 0..MsgLen /\ msgArgTokens \in Seq(1..MsgLen + 1)
      BY DEF ParsingInv, ParsingTypeOK
    <3>3. Append(msgArgTokens, Word) \in Seq(1..MsgLen + 1)
      BY <2>3, <3>2
    <3> QED
      BY <2>3, <3>1, <3>2, <3>3
  <2> QED
    BY <1>3, <2>1, <2>2, <2>4, RoundsKeep DEF NormalToken, ParsingInv, ParsingTypeOK
<1>4. CASE OnlyBlanksLeft
  <2>1. Parsing /\ Word > MsgLen /\ i' = Word
    BY <1>4 DEF OnlyBlanksLeft
  <2>2. i' \in Word..MsgLen + 2 /\ i' > i /\ i' # MsgLen + 2
    BY <2>1, RoundStarts
  <2> QED
    BY <1>4, <2>1, <2>2, RoundsKeep DEF OnlyBlanksLeft, ParsingInv, ParsingTypeOK
<1>5. CASE EndOfMessage
  BY <1>5 DEF EndOfMessage, ParsingInv, ParsingTypeOK, Ahead, MsgLen
<1>6. CASE UNCHANGED parsingVars
  BY <1>6 DEF parsingVars, ParsingInv, ParsingTypeOK, Ahead, MsgLen
<1> QED
  BY <1>1, <1>2, <1>3, <1>4, <1>5, <1>6 DEF ParsingNext

\* The tokens of processClientMsg are positions of the message, and only a prefix at the
\* end of a message moves the loop's index past its end.
THEOREM ParsingTypeCorrect == ParsingSpec => []ParsingTypeOK
<1>1. ParsingInv /\ [ParsingNext]_parsingVars => ParsingInv'
  BY ParsingInvNext
<1>2. ParsingInv => ParsingTypeOK
  BY DEF ParsingInv
<1> QED
  BY <1>1, <1>2, ParsingInvInit, PTL DEF ParsingSpec

\* Every round of the loop of processClientMsg gets further in the message, for messages
\* of any length: no round reads the blank or NUL the round before it ended at.
THEOREM AdvancesHolds == ParsingSpec => Advances
<1>1. ParsingInv /\ [ParsingNext]_parsingVars => ParsingInv'
  BY ParsingInvNext
<1>2. ParsingInv /\ [ParsingNext]_parsingVars => [parsed' \/ i' > i]_parsingVars
  BY ParsingInvNext
<1> QED
  BY <1>1, <1>2, ParsingInvInit, PTL DEF ParsingSpec, Advances

-----------------------------------------------------------------------------
(***************************************************************************)
(* The words of a text.                                                    *)
(***************************************************************************)

OneWordMore(text, n, words) == IF StartsWord(text, n) THEN Append(words, n) ELSE words

\* The recursive function of WordsBy exists.
LEMMA WordsAre ==
  ASSUME NEW S, NEW text \in Seq(S)
  PROVE  /\ WordsBy(text) \in [0..Len(text) -> Seq(1..Len(text))]
         /\ WordsBy(text)[0] = <<>>
         /\ \A n \in 1..Len(text) :
              WordsBy(text)[n] = OneWordMore(text, n, WordsBy(text)[n - 1])
<1> DEFINE N == Len(text)
           Q == Seq(1..N)
           F == [x \in (1..N) \X Q |-> OneWordMore(text, x[1], x[2])]
           Loop(g) == [n \in 0..N |-> IF n = 0 THEN <<>>
                                      ELSE IF StartsWord(text, n) THEN Append(g[n - 1], n)
                                           ELSE g[n - 1]]
           words == CHOOSE g : g = Loop(g)
<1>1. N \in Nat /\ <<>> \in Q
  OBVIOUS
<1>2. F \in [(1..N) \X Q -> Q]
  <2> HIDE DEF N
  <2>1. ASSUME NEW n \in 1..N, NEW q \in Q
        PROVE  OneWordMore(text, n, q) \in Q
    <3>1. Append(q, n) \in Q
      OBVIOUS
    <3> QED
      BY <3>1 DEF OneWordMore
  <2> HIDE DEF Q
  <2>2. \A x \in (1..N) \X Q : x[1] \in 1..N /\ x[2] \in Q
    OBVIOUS
  <2>3. \A x \in (1..N) \X Q : OneWordMore(text, x[1], x[2]) \in Q
    BY <2>1, <2>2
  <2> QED
    BY <2>3
<1>3. PICK f \in [0..N -> Q] : Runs(f, N, <<>>, F)
  <2> HIDE DEF F, N, Q
  <2> QED
    BY <1>1, <1>2, LoopExists
<1>4. f[0] = <<>> /\ \A n \in 1..N : f[n] = OneWordMore(text, n, f[n - 1])
  <2> HIDE DEF N, Q
  <2>1. f[0] = <<>>
    BY <1>3 DEF Runs
  <2>2. ASSUME NEW n \in 1..N
        PROVE  f[n] = OneWordMore(text, n, f[n - 1])
    <3>1. n - 1 \in 0..N
      BY <1>1
    <3>2. f[n - 1] \in Q
      BY <3>1, <1>3
    <3>3. f[n] = F[n, f[n - 1]]
      BY <1>3 DEF Runs
    <3>4. <<n, f[n - 1]>> \in (1..N) \X Q
      BY <3>2
    <3> QED
      BY <3>3, <3>4
  <2> QED
    BY <2>1, <2>2
<1> HIDE DEF N, Q
<1>5. \A n \in 0..N : n # 0 => n \in 1..N
  BY <1>1
<1>6. \A n \in 0..N : f[n] = IF n = 0 THEN <<>> ELSE OneWordMore(text, n, f[n - 1])
  BY <1>4, <1>5
<1>7. f = Loop(f)
  BY <1>6, Zenon DEF OneWordMore
<1>8. words = Loop(words)
  BY <1>7, Zenon
<1>9. WordsBy(text) = words
  BY Zenon DEF WordsBy, N
<1>10. \A n \in 0..N :
         words[n] = IF n = 0 THEN <<>> ELSE OneWordMore(text, n, words[n - 1])
  BY <1>8, Zenon DEF OneWordMore
<1> HIDE DEF words
<1>11. words = [n \in 0..N |-> words[n]]
  BY <1>8
<1>12. 0..N \subseteq {n \in 0..N : words[n] = f[n]}
  <2> DEFINE T == {n \in 0..N : words[n] = f[n]}
  <2>1. 0 \in T
    BY <1>1, <1>4, <1>10
  <2>2. ASSUME NEW n \in 0..N - 1, n \in T
        PROVE  n + 1 \in T
    <3>1. n + 1 \in 1..N /\ n + 1 \in 0..N /\ (n + 1) - 1 = n /\ n + 1 # 0
      BY <1>1
    <3>2. words[n + 1] = OneWordMore(text, n + 1, words[n])
      BY <1>10, <3>1
    <3>3. f[n + 1] = OneWordMore(text, n + 1, f[n])
      BY <1>4, <3>1
    <3> QED
      BY <2>2, <3>1, <3>2, <3>3
  <2> HIDE DEF T
  <2>3. 0..N \subseteq T
    BY <1>1, <2>1, <2>2, InductionUpTo
  <2> QED
    BY <2>3 DEF T
<1>13. \A n \in 0..N : words[n] = f[n] /\ f[n] \in Q
  BY <1>3, <1>12
<1>14. words \in [0..N -> Q]
  BY <1>11, <1>13
<1>15. \A n \in 1..N : n \in 0..N /\ n # 0
  BY <1>1
<1>16. \A n \in 1..N : words[n] = OneWordMore(text, n, words[n - 1])
  BY <1>10, <1>15
<1>17. words[0] = <<>>
  <2>1. 0 \in 0..N
    BY <1>1
  <2> QED
    BY <1>10, <2>1
<1> QED
  BY <1>9, <1>14, <1>16, <1>17 DEF N, Q

\* No words come between two words.
LEMMA WordsBetween ==
  ASSUME NEW S, NEW text \in Seq(S),
         NEW m \in Nat, NEW n \in Nat, m <= n, n <= Len(text),
         \A p \in m + 1..n : ~StartsWord(text, p)
  PROVE  WordsBy(text)[n] = WordsBy(text)[m]
<1> DEFINE f == WordsBy(text)
           T == {d \in 0..n - m : f[m + d] = f[m]}
<1>1. \A p \in 1..Len(text) : f[p] = OneWordMore(text, p, f[p - 1])
  BY WordsAre
<1>2. Len(text) \in Nat /\ n - m \in Nat
  OBVIOUS
<1> HIDE DEF f
<1>3. 0 \in T
  BY <1>2
<1>4. ASSUME NEW d \in 0..n - m - 1, d \in T
      PROVE  d + 1 \in T
  <2>1. /\ m + (d + 1) \in 1..Len(text) /\ m + (d + 1) \in m + 1..n
        /\ (m + (d + 1)) - 1 = m + d /\ d + 1 \in 0..n - m
    BY <1>2
  <2>2. f[m + (d + 1)] = OneWordMore(text, m + (d + 1), f[m + d])
    BY <1>1, <2>1
  <2>3. ~StartsWord(text, m + (d + 1))
    BY <2>1
  <2> QED
    BY <1>4, <2>1, <2>2, <2>3 DEF OneWordMore
<1> HIDE DEF T
<1>5. 0..n - m \subseteq T
  BY <1>2, <1>3, <1>4, InductionUpTo
<1>6. n - m \in T /\ m + (n - m) = n
  BY <1>2, <1>5
<1> QED
  BY <1>6 DEF T, f

\* A word ends at a blank, or with the text.
LEMMA WordEndIs ==
  ASSUME NEW S, NEW text \in Seq(S), NEW p \in 1..Len(text)
  PROVE  /\ WordEnd(text, p) \in p..Len(text) + 1
         /\ WordEnd(text, p) <= Len(text) => text[WordEnd(text, p)] = Blank
         /\ \A q \in p..WordEnd(text, p) - 1 : text[q] # Blank
<1> DEFINE N == Len(text)
           T == {q \in p..N : text[q] = Blank} \union {N + 1}
<1>1. N \in Nat
  OBVIOUS
<1> HIDE DEF N
<1>2. T \in SUBSET Nat /\ T # {} /\ T \subseteq p..N + 1
  BY <1>1 DEF N
<1>3. \A q \in T : q <= N => text[q] = Blank
  BY <1>1
<1>4. \A q \in p..N : q \notin T => text[q] # Blank
  OBVIOUS
<1>5. WordEnd(text, p) = Min(T)
  BY DEF WordEnd, N
<1> HIDE DEF T
<1>6. Min(T) \in T /\ \A q \in T : Min(T) <= q
  BY <1>2, MinIsLeast
<1>7. \A q \in p..Min(T) - 1 : q \in p..N /\ q \notin T
  <2> TAKE q \in p..Min(T) - 1
  <2>1. Min(T) \in p..N + 1
    BY <1>2, <1>6
  <2>2. q \in p..N /\ ~(Min(T) <= q)
    BY <1>1, <2>1
  <2> QED
    BY <1>6, <2>2
<1> QED
  BY <1>2, <1>3, <1>4, <1>5, <1>6, <1>7 DEF N

\* The word at p and the blank behind it start no other word.
LEMMA InsideWord ==
  ASSUME NEW S, NEW text \in Seq(S), NEW p \in 1..Len(text), NEW q \in p + 1..Len(text),
         q <= WordEnd(text, p)
  PROVE  ~StartsWord(text, q)
<1>1. /\ WordEnd(text, p) \in p..Len(text) + 1
      /\ WordEnd(text, p) <= Len(text) => text[WordEnd(text, p)] = Blank
      /\ \A r \in p..WordEnd(text, p) - 1 : text[r] # Blank
  BY WordEndIs
<1>2. q = WordEnd(text, p) \/ q - 1 \in p..WordEnd(text, p) - 1
  BY <1>1
<1>3. q = WordEnd(text, p) \/ (q # 1 /\ text[q - 1] # Blank)
  BY <1>1, <1>2
<1>4. q = WordEnd(text, p) => text[q] = Blank
  BY <1>1
<1> QED
  BY <1>3, <1>4 DEF StartsWord

\* The words that may be the prefix.
Colons(text, words) == {n \in DOMAIN words : n <= 2 /\ text[words[n]] = ":"}
HasPrefix(text, words) == Colons(text, words) # {}

\* An element leaves a sequence.
LEMMA Removes ==
  ASSUME NEW S, NEW s \in Seq(S), NEW m \in 1..Len(s)
  PROVE  /\ RemoveAt(s, m) \in Seq(S) /\ Len(RemoveAt(s, m)) = Len(s) - 1
         /\ \A k \in 1..Len(s) - 1 : RemoveAt(s, m)[k] = IF k < m THEN s[k] ELSE s[k + 1]
<1> DEFINE N == Len(s)
           a == SubSeq(s, 1, m - 1)
           b == SubSeq(s, m + 1, N)
<1>1. N \in Nat /\ m \in 1..N /\ \A k \in 1..N : s[k] \in S
  OBVIOUS
<1>2. /\ a \in Seq(S) /\ Len(a) = m - 1 /\ \A k \in 1..m - 1 : a[k] = s[k]
      /\ b \in Seq(S) /\ Len(b) = N - m /\ \A k \in 1..N - m : b[k] = s[m + k]
  <2>1. 1 \in Int /\ m - 1 \in Int /\ m + 1 \in Int /\ N \in Int
        /\ (\A k \in 1..m - 1 : s[k] \in S) /\ (\A k \in m + 1..N : s[k] \in S)
    BY <1>1
  <2> HIDE DEF N
  <2>2. /\ a \in Seq(S)
        /\ Len(a) = IF 1 <= m - 1 THEN m - 1 - 1 + 1 ELSE 0
        /\ \A k \in 1..m - 1 - 1 + 1 : a[k] = s[1 + k - 1]
    BY <2>1, SubSeqProperties
  <2>3. /\ b \in Seq(S)
        /\ Len(b) = IF m + 1 <= N THEN N - (m + 1) + 1 ELSE 0
        /\ \A k \in 1..N - (m + 1) + 1 : b[k] = s[(m + 1) + k - 1]
    BY <2>1, SubSeqProperties
  <2>4. /\ \A k \in 1..m - 1 : k \in 1..m - 1 - 1 + 1 /\ 1 + k - 1 = k
        /\ \A k \in 1..N - m : k \in 1..N - (m + 1) + 1 /\ (m + 1) + k - 1 = m + k
    BY <1>1
  <2>5. Len(a) = m - 1 /\ Len(b) = N - m
    BY <1>1, <2>2, <2>3
  <2> QED
    BY <2>2, <2>3, <2>4, <2>5
<1>3. RemoveAt(s, m) = a \o b
  BY DEF RemoveAt
<1> HIDE DEF a, b, N
<1>4. /\ a \o b \in Seq(S) /\ Len(a \o b) = Len(a) + Len(b)
      /\ \A k \in 1..Len(a) + Len(b) : (a \o b)[k] = IF k <= Len(a) THEN a[k] ELSE b[k - Len(a)]
  BY <1>2, ConcatProperties
<1>5. Len(a) + Len(b) = N - 1
  BY <1>1, <1>2
<1>6. ASSUME NEW k \in 1..N - 1
      PROVE  (a \o b)[k] = IF k < m THEN s[k] ELSE s[k + 1]
  <2>1. (a \o b)[k] = IF k <= m - 1 THEN a[k] ELSE b[k - (m - 1)]
    BY <1>2, <1>4, <1>5
  <2>2. CASE k < m
    <3>1. k <= m - 1 /\ k \in 1..m - 1
      BY <1>1, <2>2
    <3> QED
      BY <1>2, <2>1, <2>2, <3>1
  <2>3. CASE ~(k < m)
    <3>1. ~(k <= m - 1) /\ k - (m - 1) \in 1..N - m /\ m + (k - (m - 1)) = k + 1
      BY <1>1, <2>3
    <3> QED
      BY <1>2, <2>1, <2>3, <3>1
  <2> QED
    BY <2>2, <2>3
<1> QED
  BY <1>3, <1>4, <1>5, <1>6 DEF N

\* The words without the prefix are words, and all of them but one.
LEMMA UnprefixedIs ==
  ASSUME NEW S, NEW text, NEW words \in Seq(S)
  PROVE  /\ Unprefixed(text, words) \in Seq(S)
         /\ ~HasPrefix(text, words) => Unprefixed(text, words) = words
         /\ HasPrefix(text, words) =>
              /\ Len(words) \in Nat \ {0}
              /\ Len(Unprefixed(text, words)) = Len(words) - 1
              /\ Min(Colons(text, words)) \in 1..Len(words)
              /\ Min(Colons(text, words)) \in Colons(text, words)
              /\ \A n \in Colons(text, words) : Min(Colons(text, words)) <= n
              /\ Unprefixed(text, words) = RemoveAt(words, Min(Colons(text, words)))
<1> DEFINE m == Min(Colons(text, words))
<1>1. Unprefixed(text, words) = IF Colons(text, words) = {} THEN words
                                ELSE RemoveAt(words, m)
  BY DEF Unprefixed, Colons
<1>2. CASE ~HasPrefix(text, words)
  BY <1>1, <1>2 DEF HasPrefix
<1>3. CASE HasPrefix(text, words)
  <2>1. Colons(text, words) \in SUBSET Nat /\ Colons(text, words) \subseteq 1..Len(words)
    BY DEF Colons
  <2>2. m \in Colons(text, words) /\ \A n \in Colons(text, words) : m <= n
    BY <1>3, <2>1, MinIsLeast DEF HasPrefix
  <2> HIDE DEF m
  <2>3. m \in 1..Len(words)
    BY <2>1, <2>2
  <2>4. RemoveAt(words, m) \in Seq(S) /\ Len(RemoveAt(words, m)) = Len(words) - 1
    BY <2>3, Removes
  <2>5. Len(words) \in Nat \ {0}
    BY <2>3
  <2> QED
    BY <1>1, <1>3, <2>2, <2>3, <2>4, <2>5 DEF m, HasPrefix
<1> QED
  BY <1>2, <1>3

\* A word more is the prefix, or it is a word more without the prefix.
LEMMA OneMoreUnprefixed ==
  ASSUME NEW text, NEW words \in Seq(Nat), NEW p \in Nat
  PROVE  /\ HasPrefix(text, Append(words, p)) <=>
              HasPrefix(text, words) \/ (Len(words) < 2 /\ text[p] = ":")
         /\ Unprefixed(text, Append(words, p))
              = IF ~HasPrefix(text, words) /\ Len(words) < 2 /\ text[p] = ":"
                THEN words ELSE Append(Unprefixed(text, words), p)
<1> DEFINE N    == Len(words)
           all  == Append(words, p)
           more == N < 2 /\ text[p] = ":"
           u    == Unprefixed(text, words)
           m    == Min(Colons(text, words))
<1>1. /\ N \in Nat /\ DOMAIN words = 1..N /\ all \in Seq(Nat) /\ Len(all) = N + 1
      /\ DOMAIN all = 1..N + 1 /\ all[N + 1] = p /\ \A k \in 1..N : all[k] = words[k]
  OBVIOUS
<1> HIDE DEF all, N
<1>2. \A n : n \in Colons(text, all) <=> n \in Colons(text, words) \/ (more /\ n = N + 1)
  <2> TAKE n
  <2>1. n \in DOMAIN all <=> n \in DOMAIN words \/ n = N + 1
    BY <1>1
  <2>2. N + 1 <= 2 <=> N < 2
    BY <1>1
  <2>3. n \in DOMAIN words => n # N + 1
    BY <1>1
  <2> QED
    BY <1>1, <2>1, <2>2, <2>3 DEF Colons
<1>3. /\ u \in Seq(Nat)
      /\ ~HasPrefix(text, words) => u = words
      /\ HasPrefix(text, words) =>
           /\ N \in Nat \ {0} /\ Len(u) = N - 1 /\ m \in 1..N
           /\ m \in Colons(text, words) /\ \A n \in Colons(text, words) : m <= n
           /\ u = RemoveAt(words, m)
  BY UnprefixedIs DEF N
<1>4. /\ Unprefixed(text, all) \in Seq(Nat)
      /\ ~HasPrefix(text, all) => Unprefixed(text, all) = all
      /\ HasPrefix(text, all) =>
           /\ Min(Colons(text, all)) \in 1..N + 1
           /\ Min(Colons(text, all)) \in Colons(text, all)
           /\ \A n \in Colons(text, all) : Min(Colons(text, all)) <= n
           /\ Unprefixed(text, all) = RemoveAt(all, Min(Colons(text, all)))
  BY <1>1, UnprefixedIs
<1>5. HasPrefix(text, all) <=> HasPrefix(text, words) \/ more
  BY <1>2 DEF HasPrefix
<1>6. CASE HasPrefix(text, words)
  <2>1. Min(Colons(text, all)) = m
    <3> DEFINE k == Min(Colons(text, all))
    <3>1. /\ k \in 1..N + 1 /\ k \in Colons(text, all)
          /\ \A n \in Colons(text, all) : k <= n
      BY <1>4, <1>5, <1>6
    <3>2. /\ m \in 1..N /\ m \in Colons(text, words)
          /\ \A n \in Colons(text, words) : m <= n
      BY <1>3, <1>6
    <3> HIDE DEF k, m
    <3>3. k <= m
      BY <1>2, <3>1, <3>2
    <3>4. m <= k
      <4>1. k \in Colons(text, words) \/ k = N + 1
        BY <1>2, <3>1
      <4> QED
        BY <1>1, <3>1, <3>2, <4>1
    <3>5. k = m
      BY <1>1, <3>1, <3>2, <3>3, <3>4
    <3> QED
      BY <3>5 DEF k
  <2> HIDE DEF m
  <2>2. /\ Unprefixed(text, all) = RemoveAt(all, m) /\ u = RemoveAt(words, m)
        /\ m \in 1..N /\ m \in 1..N + 1
    BY <1>3, <1>4, <1>5, <1>6, <2>1
  <2>3. /\ RemoveAt(all, m) \in Seq(Nat) /\ Len(RemoveAt(all, m)) = N
        /\ \A k \in 1..N : RemoveAt(all, m)[k] = IF k < m THEN all[k] ELSE all[k + 1]
    <3>1. m \in 1..Len(all) /\ Len(all) - 1 = N
      BY <1>1, <2>2
    <3> QED
      BY <1>1, <3>1, Removes
  <2>4. /\ u \in Seq(Nat) /\ Len(u) = N - 1
        /\ \A k \in 1..N - 1 : u[k] = IF k < m THEN words[k] ELSE words[k + 1]
    BY <2>2, Removes DEF N
  <2> HIDE DEF u
  <2>5. /\ Append(u, p) \in Seq(Nat) /\ Len(Append(u, p)) = N
        /\ Append(u, p)[N] = p /\ \A k \in 1..N - 1 : Append(u, p)[k] = u[k]
    <3>1. (N - 1) + 1 = N
      BY <1>1
    <3>2. /\ Append(u, p) \in Seq(Nat) /\ Len(Append(u, p)) = Len(u) + 1
          /\ Append(u, p)[Len(u) + 1] = p /\ \A k \in 1..Len(u) : Append(u, p)[k] = u[k]
      BY <2>4
    <3> QED
      BY <2>4, <3>1, <3>2
  <2>6. ASSUME NEW k \in 1..N
        PROVE  RemoveAt(all, m)[k] = Append(u, p)[k]
    <3>1. RemoveAt(all, m)[k] = IF k < m THEN all[k] ELSE all[k + 1]
      BY <2>3
    <3>2. CASE k = N
      <4>1. ~(k < m) /\ k + 1 = N + 1
        BY <1>1, <2>2, <3>2
      <4> QED
        BY <1>1, <2>5, <3>1, <3>2, <4>1
    <3>3. CASE k # N
      <4>1. k \in 1..N - 1 /\ k \in 1..N /\ k + 1 \in 1..N
        BY <1>1, <3>3
      <4>2. Append(u, p)[k] = IF k < m THEN words[k] ELSE words[k + 1]
        BY <2>4, <2>5, <4>1
      <4> QED
        BY <1>1, <3>1, <4>1, <4>2
    <3> QED
      BY <3>2, <3>3
  <2>7. RemoveAt(all, m) = Append(u, p)
    BY <2>3, <2>5, <2>6, SeqEqual
  <2> QED
    BY <1>5, <1>6, <2>2, <2>7 DEF all, N, u
<1>7. CASE ~HasPrefix(text, words) /\ more
  <2>1. \A n : n \in Colons(text, all) <=> n = N + 1
    BY <1>2, <1>7 DEF HasPrefix
  <2>2. Unprefixed(text, all) = RemoveAt(all, N + 1)
    BY <1>4, <1>5, <1>7, <2>1
  <2>3. /\ RemoveAt(all, N + 1) \in Seq(Nat) /\ Len(RemoveAt(all, N + 1)) = N
        /\ \A k \in 1..N : RemoveAt(all, N + 1)[k] = IF k < N + 1 THEN all[k] ELSE all[k + 1]
    <3>1. N + 1 \in 1..Len(all) /\ Len(all) - 1 = N
      BY <1>1
    <3> QED
      BY <1>1, <3>1, Removes
  <2>4. \A k \in 1..N : RemoveAt(all, N + 1)[k] = words[k]
    <3>1. \A k \in 1..N : k < N + 1
      BY <1>1
    <3> QED
      BY <1>1, <2>3, <3>1
  <2>5. RemoveAt(all, N + 1) = words
    BY <2>3, <2>4, SeqEqual DEF N
  <2> QED
    BY <1>5, <1>7, <2>2, <2>5 DEF all, N
<1>8. CASE ~HasPrefix(text, words) /\ ~more
  BY <1>3, <1>4, <1>5, <1>8 DEF all, N
<1> QED
  BY <1>6, <1>7, <1>8

\* The words of a longer text begin with those of a shorter one, once the place of the
\* prefix is past.
LEMMA UnprefixedStay ==
  ASSUME NEW S, NEW text \in Seq(S), NEW m \in Nat, NEW n \in Nat, m <= n, n <= Len(text),
         Len(WordsBy(text)[m]) >= 2
  PROVE  /\ Unprefixed(text, WordsBy(text)[n]) \in Seq(1..Len(text))
         /\ Len(Unprefixed(text, WordsBy(text)[n])) >= Len(Unprefixed(text, WordsBy(text)[m]))
         /\ \A k \in 1..Len(Unprefixed(text, WordsBy(text)[m])) :
              Unprefixed(text, WordsBy(text)[n])[k] = Unprefixed(text, WordsBy(text)[m])[k]
<1> DEFINE f == WordsBy(text)
           u(x) == Unprefixed(text, f[x])
           b == u(m)
           Q == 1..Len(text)
           Good(x) == /\ f[x] \in Seq(Q) /\ Len(f[x]) >= 2
                      /\ u(x) \in Seq(Q) /\ Len(u(x)) >= Len(b)
                      /\ \A k \in 1..Len(b) : u(x)[k] = b[k]
           T == {d \in 0..n - m : Good(m + d)}
<1>1. f \in [0..Len(text) -> Seq(Q)]
      /\ \A x \in 1..Len(text) : f[x] = OneWordMore(text, x, f[x - 1])
  BY WordsAre
<1>2. n - m \in Nat /\ Len(text) \in Nat /\ m + 0 = m /\ 0 \in 0..n - m /\ m + (n - m) = n
      /\ m \in 0..Len(text) /\ n - m \in 0..n - m
  OBVIOUS
<1> HIDE DEF f, Q
<1>3. \A x \in 0..Len(text) : f[x] \in Seq(Q)
  BY <1>1
<1>4. \A x \in 0..Len(text) : u(x) \in Seq(Q)
  BY <1>3, UnprefixedIs
<1>5. 0 \in T
  <2>1. Len(f[m]) >= 2
    BY DEF f
  <2>2. f[m] \in Seq(Q) /\ u(m) \in Seq(Q)
    BY <1>2, <1>3, <1>4
  <2>3. Len(b) \in Nat
    BY <2>2
  <2> HIDE DEF u, b
  <2>4. Good(m)
    BY <2>1, <2>2, <2>3 DEF b
  <2> HIDE DEF Good
  <2> QED
    BY <1>2, <2>4
<1>6. ASSUME NEW d \in 0..n - m - 1, d \in T
      PROVE  d + 1 \in T
  <2> DEFINE x == m + d
             y == m + (d + 1)
  <2>1. y \in 1..Len(text) /\ y - 1 = x /\ d + 1 \in 0..n - m /\ y \in Q
    BY <1>2 DEF Q
  <2>2. Good(x)
    BY <1>6
  <2> HIDE DEF x, y
  <2>3. f[y] = OneWordMore(text, y, f[x])
    BY <1>1, <2>1
  <2>4. CASE ~StartsWord(text, y)
    <3>1. f[y] = f[x]
      BY <2>3, <2>4 DEF OneWordMore
    <3>2. Good(y)
      BY <2>2, <3>1
    <3> HIDE DEF Good
    <3> QED
      BY <2>1, <3>2 DEF y
  <2>5. CASE StartsWord(text, y)
    <3>1. f[y] = Append(f[x], y)
      BY <2>3, <2>5 DEF OneWordMore
    <3>2. f[x] \in Seq(Q) /\ ~(Len(f[x]) < 2)
      BY <2>2
    <3>3. u(y) = Append(u(x), y)
      <4>1. f[x] \in Seq(Nat) /\ y \in Nat
        <5>1. Seq(Q) \subseteq Seq(Nat)
          BY SeqMonotonic DEF Q
        <5> QED
          BY <2>1, <3>2, <5>1
      <4>2. Unprefixed(text, Append(f[x], y))
              = IF ~HasPrefix(text, f[x]) /\ Len(f[x]) < 2 /\ text[y] = ":"
                THEN f[x] ELSE Append(Unprefixed(text, f[x]), y)
        BY <4>1, OneMoreUnprefixed
      <4> QED
        BY <3>1, <3>2, <4>2
    <3>4. u(x) \in Seq(Q) /\ Len(u(x)) >= Len(b) /\ \A k \in 1..Len(b) : u(x)[k] = b[k]
      BY <2>2
    <3>5. b \in Seq(Q)
      BY <1>2, <1>4
    <3> HIDE DEF u, b
    <3>6. /\ Append(u(x), y) \in Seq(Q) /\ Len(Append(u(x), y)) = Len(u(x)) + 1
          /\ \A k \in 1..Len(u(x)) : Append(u(x), y)[k] = u(x)[k]
      BY <2>1, <3>4
    <3>7. \A k \in 1..Len(b) : k \in 1..Len(u(x))
      BY <3>4, <3>5
    <3>8. Len(u(x)) + 1 >= Len(b)
      BY <3>4, <3>5
    <3>9. f[y] \in Seq(Q) /\ Len(f[y]) >= 2
      BY <2>1, <3>1, <3>2
    <3>10. Good(y)
      BY <3>3, <3>4, <3>6, <3>7, <3>8, <3>9
    <3> HIDE DEF Good
    <3> QED
      BY <2>1, <3>10 DEF y
  <2> QED
    BY <2>4, <2>5
<1> HIDE DEF T
<1>7. 0..n - m \subseteq T
  BY <1>2, <1>5, <1>6, InductionUpTo
<1>8. Good(n)
  <2>1. n - m \in T
    BY <1>2, <1>7
  <2> HIDE DEF Good
  <2> QED
    BY <1>2, <2>1 DEF T
<1> QED
  BY <1>8 DEF f, Q

-----------------------------------------------------------------------------
(***************************************************************************)
(* The tokens are words.                                                   *)
(***************************************************************************)

\* The text of the token at p in a block of n characters.
TextAt(msg, n, p) ==
  SubSeq(msg, p, Min({q \in p..n : msg[q] \in {Nul}} \union {n + 1}) - 1)

\* A word that is still in the block, with a NUL behind it, is the token there.
LEMMA TokenIsWord ==
  ASSUME NEW text \in Seq(Char), NEW msg \in Seq(Char \union {Nul}), Len(msg) = Len(text),
         NEW p \in 1..Len(text),
         \A q \in p..WordEnd(text, p) - 1 : msg[q] = text[q],
         WordEnd(text, p) <= Len(text) => msg[WordEnd(text, p)] = Nul
  PROVE  TextAt(msg, Len(text), p) = WordAt(text, p)
<1> DEFINE N == Len(text)
           e == WordEnd(text, p)
           T == {q \in p..N : msg[q] \in {Nul}} \union {N + 1}
           a == SubSeq(msg, p, e - 1)
           b == SubSeq(text, p, e - 1)
<1>1. N \in Nat /\ e \in p..N + 1
  BY WordEndIs
<1>2. \A q \in 1..N : text[q] \in Char /\ msg[q] \in Char \union {Nul}
  OBVIOUS
<1>3. /\ \A q \in p..e - 1 : msg[q] = text[q]
      /\ e <= N => msg[e] = Nul
  OBVIOUS
<1> HIDE DEF N, e
<1>4. T \in SUBSET Nat /\ T # {} /\ T \subseteq p..N + 1
  BY <1>1 DEF N
<1>5. e \in T
  BY <1>1, <1>3 DEF N
<1>6. \A q \in T : e <= q
  <2> SUFFICES ASSUME NEW q \in T, q < e
               PROVE  FALSE
    BY <1>1, <1>4
  <2>1. q \in p..e - 1 /\ q \in 1..N /\ q # N + 1
    BY <1>1, <1>4 DEF N
  <2>2. msg[q] = Nul
    BY <2>1
  <2>3. msg[q] = text[q] /\ text[q] \in Char
    BY <1>2, <1>3, <2>1
  <2> QED
    BY <2>2, <2>3, CharAssumption
<1>7. Min(T) = e
  <2> HIDE DEF T
  <2>1. Min(T) \in T /\ \A q \in T : Min(T) <= q
    BY <1>4, MinIsLeast
  <2>2. Min(T) <= e /\ e <= Min(T) /\ Min(T) \in Nat
    BY <1>4, <1>5, <1>6, <2>1
  <2> QED
    BY <1>1, <2>2
<1>8. a = b
  <2>1. p \in Int /\ e - 1 \in Int /\ \A q \in p..e - 1 : q \in 1..N
    BY <1>1 DEF N
  <2>2. /\ \A q \in p..e - 1 : text[q] \in Char
        /\ \A q \in p..e - 1 : msg[q] \in Char \union {Nul}
    BY <1>2, <2>1
  <2>3. /\ a \in Seq(Char \union {Nul}) /\ Len(a) = IF p <= e - 1 THEN e - 1 - p + 1 ELSE 0
        /\ \A k \in 1..e - 1 - p + 1 : a[k] = msg[p + k - 1]
    BY <2>1, <2>2, SubSeqProperties
  <2>4. /\ b \in Seq(Char) /\ Len(b) = IF p <= e - 1 THEN e - 1 - p + 1 ELSE 0
        /\ \A k \in 1..e - 1 - p + 1 : b[k] = text[p + k - 1]
    BY <2>1, <2>2, SubSeqProperties
  <2>5. b \in Seq(Char \union {Nul})
    BY <2>4, SeqMonotonic
  <2> HIDE DEF a, b
  <2>6. \A k \in 1..Len(a) : k \in 1..e - 1 - p + 1 /\ p + k - 1 \in p..e - 1
    BY <2>1, <2>3
  <2>7. \A k \in 1..Len(a) : a[k] = b[k]
    BY <1>3, <2>3, <2>4, <2>6
  <2>8. Len(a) = Len(b)
    BY <2>3, <2>4
  <2> QED
    BY <2>3, <2>5, <2>7, <2>8, SeqEqual
<1>9. TextAt(msg, N, p) = SubSeq(msg, p, Min(T) - 1)
  BY DEF TextAt
<1> QED
  BY <1>7, <1>8, <1>9 DEF WordAt, N, e

\* The words the loop has come to, without the prefix.
Past     == IF i <= MsgLen THEN i - 1 ELSE MsgLen
PastWords == Unprefixed(received, WordsBy(received)[Past])

\* The word at p is in the block, and has been ended if the loop is past its end.
IntactIn(text, msg, at, p) ==
  /\ p \in 1..Len(text)
  /\ \A q \in p..WordEnd(text, p) - 1 : msg[q] = text[q]
  /\ WordEnd(text, p) <= at
  /\ WordEnd(text, p) < at /\ WordEnd(text, p) <= Len(text) => msg[WordEnd(text, p)] = Nul

Intact(p) == IntactIn(received, Message, i, p)

\* While the loop runs, the tokens are the words it has come to.
TokensAreWords ==
  /\ i = 1 \/ i > MsgLen \/ received[i - 1] = Blank \/ received[i] = Blank
  /\ bPrefixIgnored = HasPrefix(received, WordsBy(received)[Past])
  /\ IF PastWords = <<>> THEN msgCommandToken = 0 /\ msgArgTokens = <<>>
     ELSE msgCommandToken = Head(PastWords) /\ msgArgTokens = Tail(PastWords)
  /\ \A n \in 2..Len(msgArgTokens) : received[msgArgTokens[n]] # ":"
  /\ \A n \in DOMAIN PastWords : Intact(PastWords[n])

GrammarInv ==
  /\ ParsingInv
  /\ IF parsed THEN ParsedAsGrammar ELSE TokensAreWords

\* At the start there are no words and no tokens.
LEMMA GrammarInvInit == ParsingInit => GrammarInv
<1> SUFFICES ASSUME ParsingInit
             PROVE  GrammarInv
  OBVIOUS
<1>1. ParsingInv
  BY ParsingInvInit
<1>2. received \in Seq(Char) /\ MsgLen \in Nat /\ MsgLen = Len(received)
  BY <1>1 DEF ParsingInv, ParsingTypeOK, MsgLen
<1>3. i = 1 /\ msgCommandToken = 0 /\ msgArgTokens = <<>> /\ bPrefixIgnored = FALSE
      /\ parsed = FALSE
  BY DEF ParsingInit
<1>4. Past = 0
  BY <1>2, <1>3 DEF Past
<1>5. WordsBy(received)[Past] = <<>>
  BY <1>2, <1>4, WordsAre
<1>6. HasPrefix(received, <<>>) = FALSE
  BY DEF HasPrefix, Colons
<1>7. PastWords = <<>>
  <2>1. <<>> \in Seq(Nat)
    OBVIOUS
  <2>2. Unprefixed(received, <<>>) = <<>>
    BY <1>6, <2>1, UnprefixedIs
  <2> QED
    BY <1>5, <2>2 DEF PastWords
<1>8. bPrefixIgnored = HasPrefix(received, WordsBy(received)[Past])
  BY <1>3, <1>5, <1>6
<1>9. /\ \A n \in 2..Len(msgArgTokens) : received[msgArgTokens[n]] # ":"
      /\ \A n \in DOMAIN PastWords : Intact(PastWords[n])
  BY <1>3, <1>7
<1>10. TokensAreWords
  BY <1>3, <1>7, <1>8, <1>9 DEF TokensAreWords
<1> QED
  BY <1>1, <1>3, <1>10 DEF GrammarInv

\* The types of the words.
LEMMA PastWordsType ==
  ASSUME ParsingInv
  PROVE  /\ received \in Seq(Char) /\ MsgLen = Len(received) /\ MsgLen \in Nat
         /\ Past \in 0..MsgLen
         /\ WordsBy(received)[Past] \in Seq(1..MsgLen)
         /\ PastWords \in Seq(1..MsgLen)
<1>1. received \in Seq(Char) /\ MsgLen = Len(received) /\ MsgLen \in Nat /\ i \in 1..MsgLen + 2
  BY DEF ParsingInv, ParsingTypeOK, MsgLen
<1>2. Past \in 0..MsgLen
  BY <1>1 DEF Past
<1>3. WordsBy(received) \in [0..MsgLen -> Seq(1..MsgLen)]
  BY <1>1, WordsAre
<1>4. WordsBy(received)[Past] \in Seq(1..MsgLen)
  BY <1>2, <1>3
<1> QED
  BY <1>1, <1>2, <1>4, UnprefixedIs DEF PastWords

\* The round comes to the next word, and to no other.
LEMMA NextWord ==
  ASSUME ParsingInv, TokensAreWords, Parsing, Word <= MsgLen
  PROVE  /\ Word \in 1..MsgLen
         /\ WordEnd(received, Word) \in Word + 1..MsgLen + 1
         /\ FirstIn({Blank}, Word) = WordEnd(received, Word)
         /\ FirstIn({Blank, Nul}, Word) = WordEnd(received, Word)
         /\ \A n \in Word..MsgLen :
              n <= WordEnd(received, Word) =>
                WordsBy(received)[n] = Append(WordsBy(received)[Past], Word)
<1> DEFINE e == WordEnd(received, Word)
           f == WordsBy(received)
<1>1. /\ received \in Seq(Char) /\ MsgLen = Len(received) /\ MsgLen \in Nat
  BY PastWordsType
<1>2. /\ i \in 1..MsgLen /\ Word \in i..MsgLen
      /\ Message[Word] = received[Word] /\ Message[Word] # Blank
      /\ Past = i - 1
  BY RoundStarts DEF Past
<1>3. /\ e \in Word..MsgLen + 1
      /\ e <= MsgLen => received[e] = Blank
      /\ \A q \in Word..e - 1 : received[q] # Blank
  BY <1>1, <1>2, WordEndIs
<1> HIDE DEF e
<1>4. e # Word
  BY <1>2, <1>3
<1>5. \A q \in i..MsgLen : Message[q] = received[q]
  BY DEF ParsingInv, Ahead, Parsing
<1>6. \A q \in i..Word - 1 : received[q] = Blank
  <2>1. \A q \in i..Word - 1 : Message[q] = Blank
    <3>1. i \in 1..MsgLen + 1
      BY <1>1, <1>2
    <3> QED
      BY <1>1, <3>1, Searches DEF Word
  <2>2. \A q \in i..Word - 1 : q \in i..MsgLen
    BY <1>1, <1>2
  <2> QED
    BY <1>5, <2>1, <2>2
<1>7. \A q \in Word..MsgLen : received[q] # Nul /\ Message[q] = received[q]
  <2>1. \A q \in Word..MsgLen : q \in i..MsgLen /\ q \in 1..MsgLen
    BY <1>1, <1>2
  <2>2. \A q \in 1..MsgLen : received[q] \in Char
    BY <1>1
  <2> QED
    BY <1>5, <2>1, <2>2, CharAssumption
<1>8. FirstIn({Blank}, Word) = e /\ FirstIn({Blank, Nul}, Word) = e
  <2> DEFINE T == {q \in Word..MsgLen : received[q] = Blank} \union {MsgLen + 1}
  <2>1. e = Min(T)
    BY <1>1 DEF e, WordEnd
  <2>2. {q \in Word..MsgLen : Message[q] \in {Blank}} \union {MsgLen + 1} = T
    BY <1>7
  <2>3. {q \in Word..MsgLen : Message[q] \in {Blank, Nul}} \union {MsgLen + 1} = T
    BY <1>7
  <2> QED
    BY <2>1, <2>2, <2>3 DEF FirstIn
<1>9. StartsWord(received, Word)
  <2>1. CASE Word = i
    <3>1. i = 1 \/ i > MsgLen \/ received[i - 1] = Blank \/ received[i] = Blank
      BY DEF TokensAreWords
    <3> QED
      BY <1>1, <1>2, <2>1, <3>1 DEF StartsWord
  <2>2. CASE Word # i
    <3>1. Word - 1 \in i..Word - 1
      BY <1>1, <1>2, <2>2
    <3> QED
      BY <1>2, <1>6, <3>1 DEF StartsWord
  <2> QED
    BY <2>1, <2>2
<1>10. f[Word - 1] = f[Past]
  <2>1. /\ Past \in Nat /\ Word - 1 \in Nat /\ Past <= Word - 1 /\ Word - 1 <= Len(received)
        /\ Past + 1 = i
    BY <1>1, <1>2
  <2>2. \A q \in Past + 1..Word - 1 : ~StartsWord(received, q)
    BY <1>6, <2>1 DEF StartsWord
  <2> QED
    BY <1>1, <2>1, <2>2, WordsBetween
<1>11. f[Word] = Append(f[Past], Word)
  <2>1. Word \in 1..Len(received)
    BY <1>1, <1>2
  <2>2. f[Word] = OneWordMore(received, Word, f[Word - 1])
    BY <1>1, <2>1, WordsAre
  <2> QED
    BY <1>9, <1>10, <2>2 DEF OneWordMore
<1>12. ASSUME NEW n \in Word..MsgLen, n <= e
       PROVE  f[n] = Append(f[Past], Word)
  <2>1. /\ Word \in Nat /\ n \in Nat /\ Word <= n /\ n <= Len(received)
        /\ Word \in 1..Len(received)
    BY <1>1, <1>2
  <2>2. ASSUME NEW q \in Word + 1..n
        PROVE  ~StartsWord(received, q)
    <3>1. q \in Word + 1..Len(received) /\ q <= e
      BY <1>1, <1>2, <1>3, <1>12, <2>1
    <3> QED
      BY <1>1, <2>1, <3>1, InsideWord DEF e
  <2>3. f[n] = f[Word]
    BY <1>1, <2>1, <2>2, WordsBetween
  <2> QED
    BY <1>11, <2>3
<1> QED
  BY <1>1, <1>2, <1>3, <1>4, <1>8, <1>12 DEF e

\* A word that was ended, or ends at i, is in the block and ended after the blanks at i
\* have become NUL.
LEMMA WordsStay ==
  ASSUME ParsingInv, Parsing, NEW p, Intact(p)
  PROVE  /\ p \in 1..MsgLen /\ WordEnd(received, p) \in p..MsgLen + 1
         /\ WordEnd(received, p) <= i
         /\ \A q \in p..WordEnd(received, p) - 1 : BlanksCleared[q] = received[q] /\ q < i
         /\ WordEnd(received, p) <= MsgLen => BlanksCleared[WordEnd(received, p)] = Nul
<1> DEFINE e == WordEnd(received, p)
<1>1. /\ received \in Seq(Char) /\ MsgLen = Len(received) /\ MsgLen \in Nat
  BY PastWordsType
<1>2. i \in 1..MsgLen /\ Word \in i..MsgLen + 1 /\ (Word <= MsgLen => Message[Word] # Blank)
  <2>1. i \in 1..MsgLen /\ Word \in i..MsgLen + 1
    BY RoundStarts
  <2>2. Word <= MsgLen => Message[Word] # Blank
    BY RoundStarts
  <2> QED
    BY <2>1, <2>2
<1>3. p \in 1..MsgLen
  BY DEF Intact, IntactIn, MsgLen
<1>4. e \in p..MsgLen + 1 /\ (e <= MsgLen => received[e] = Blank)
  <2>1. p \in 1..Len(received)
    BY <1>1, <1>3
  <2> QED
    BY <1>1, <2>1, WordEndIs
<1>5. /\ \A q \in p..e - 1 : Message[q] = received[q]
      /\ e <= i
      /\ e < i /\ e <= MsgLen => Message[e] = Nul
  BY DEF Intact, IntactIn, MsgLen
<1> HIDE DEF e
<1>6. ASSUME NEW q \in p..e - 1
      PROVE  BlanksCleared[q] = received[q] /\ q < i
  <2>1. q \in 1..MsgLen /\ q < i /\ ~(i <= q)
    BY <1>1, <1>2, <1>3, <1>4, <1>5
  <2>2. BlanksCleared[q] = Message[q]
    BY <2>1 DEF BlanksCleared
  <2> QED
    BY <1>5, <2>1, <2>2
<1>7. ASSUME e <= MsgLen
      PROVE  BlanksCleared[e] = Nul
  <2>1. e \in 1..MsgLen
    BY <1>3, <1>4, <1>7
  <2>2. CASE e < i
    <3>1. ~(i <= e)
      BY <1>2, <2>1, <2>2
    <3> QED
      BY <1>5, <1>7, <2>1, <2>2, <3>1 DEF BlanksCleared
  <2>3. CASE e = i
    <3>1. Message[e] = received[e]
      BY <1>2, <2>1, <2>3 DEF ParsingInv, Ahead, Parsing
    <3>2. Word # e
      BY <1>2, <1>4, <1>7, <3>1
    <3>3. i <= e /\ e < Word
      BY <1>2, <2>1, <2>3, <3>2
    <3> QED
      BY <2>1, <3>3 DEF BlanksCleared
  <2> QED
    BY <1>2, <1>5, <2>1, <2>2, <2>3
<1> QED
  BY <1>3, <1>4, <1>5, <1>6, <1>7 DEF e

\* The next word stays in the block, too.
LEMMA WordAhead ==
  ASSUME ParsingInv, TokensAreWords, Parsing, Word <= MsgLen
  PROVE  \A q \in Word..WordEnd(received, Word) - 1 : BlanksCleared[q] = received[q]
<1>1. WordEnd(received, Word) \in Word + 1..MsgLen + 1 /\ Word \in 1..MsgLen /\ MsgLen \in Nat
  BY NextWord, PastWordsType
<1>2. \A q \in Word..MsgLen : BlanksCleared[q] = received[q]
  BY RoundStarts
<1>3. \A q \in Word..WordEnd(received, Word) - 1 : q \in Word..MsgLen
  BY <1>1
<1> QED
  BY <1>2, <1>3

\* A token more.
LEMMA TailOfMore ==
  ASSUME NEW S, NEW s \in Seq(S), NEW p \in S
  PROVE  /\ Append(s, p) \in Seq(S) /\ Append(s, p) # <<>>
         /\ DOMAIN Append(s, p) = 1..Len(s) + 1 /\ Len(s) \in Nat
         /\ Append(s, p)[Len(s) + 1] = p
         /\ \A k \in 1..Len(s) : Append(s, p)[k] = s[k]
         /\ s = <<>> => Head(Append(s, p)) = p /\ Tail(Append(s, p)) = <<>>
         /\ s # <<>> => /\ Head(Append(s, p)) = Head(s)
                        /\ Tail(Append(s, p)) = Append(Tail(s), p)
                        /\ Tail(s) \in Seq(S) /\ Len(Tail(s)) = Len(s) - 1
<1>1. /\ Append(s, p) \in Seq(S) /\ Append(s, p) # <<>>
      /\ DOMAIN Append(s, p) = 1..Len(s) + 1 /\ Len(s) \in Nat
      /\ Append(s, p)[Len(s) + 1] = p
      /\ \A k \in 1..Len(s) : Append(s, p)[k] = s[k]
      /\ Len(Append(s, p)) = Len(s) + 1
  OBVIOUS
<1>2. ASSUME s = <<>>
      PROVE  Head(Append(s, p)) = p /\ Tail(Append(s, p)) = <<>>
  <2>1. Append(s, p) = <<p>>
    BY <1>2
  <2> QED
    BY <2>1
<1>3. ASSUME s # <<>>
      PROVE  /\ Head(Append(s, p)) = Head(s)
             /\ Tail(Append(s, p)) = Append(Tail(s), p)
             /\ Tail(s) \in Seq(S) /\ Len(Tail(s)) = Len(s) - 1
  <2> DEFINE N == Len(s)
             a == Tail(Append(s, p))
             t == Tail(s)
  <2>1. N \in Nat \ {0} /\ Head(Append(s, p)) = Head(s)
    BY <1>3, <1>1
  <2>2. t \in Seq(S) /\ Len(t) = N - 1 /\ \A k \in 1..N - 1 : t[k] = s[k + 1]
    BY <1>3
  <2>3. a \in Seq(S) /\ Len(a) = N /\ \A k \in 1..N : a[k] = Append(s, p)[k + 1]
    BY <1>1
  <2> HIDE DEF t, a
  <2>4. /\ Append(t, p) \in Seq(S) /\ Len(Append(t, p)) = N
        /\ Append(t, p)[N] = p /\ \A k \in 1..N - 1 : Append(t, p)[k] = t[k]
    <3>1. /\ Append(t, p) \in Seq(S) /\ Len(Append(t, p)) = Len(t) + 1
          /\ Append(t, p)[Len(t) + 1] = p /\ \A k \in 1..Len(t) : Append(t, p)[k] = t[k]
      BY <2>2
    <3>2. (N - 1) + 1 = N
      BY <2>1
    <3> HIDE DEF N
    <3> QED
      BY <2>2, <3>1, <3>2
  <2> HIDE DEF N
  <2>5. ASSUME NEW k \in 1..N
        PROVE  a[k] = Append(t, p)[k]
    <3>1. CASE k = N
      BY <1>1, <2>3, <2>4, <3>1 DEF N
    <3>2. CASE k # N
      <4>1. k \in 1..N - 1 /\ k + 1 \in 1..N
        BY <2>1, <3>2
      <4>2. Append(s, p)[k + 1] = s[k + 1]
        BY <1>1, <4>1 DEF N
      <4> QED
        BY <2>2, <2>3, <2>4, <4>1, <4>2
    <3> QED
      BY <3>1, <3>2
  <2>6. a = Append(t, p)
    BY <2>3, <2>4, <2>5, SeqEqual
  <2> QED
    BY <2>1, <2>2, <2>6 DEF a, t, N
<1> QED
  BY <1>1, <1>2, <1>3

\* The word the round has come to is the prefix, or one more word behind it.
LEMMA WordCounts ==
  ASSUME ParsingInv, TokensAreWords, Parsing, Word <= MsgLen
  PROVE  LET words == Append(WordsBy(received)[Past], Word)
         IN /\ bPrefixIgnored \/ (msgArgTokens = <<>> /\ received[Word] = ":") <=>
                 HasPrefix(received, words)
            /\ Unprefixed(received, words)
                 = IF StartsPrefix THEN PastWords ELSE Append(PastWords, Word)
            /\ Len(PastWords) <= Len(WordsBy(received)[Past])
<1> DEFINE f == WordsBy(received)
           w == f[Past]
<1>1. /\ received \in Seq(Char) /\ MsgLen = Len(received) /\ MsgLen \in Nat
      /\ w \in Seq(1..MsgLen) /\ PastWords \in Seq(1..MsgLen)
  BY PastWordsType
<1>2. Word \in 1..MsgLen
  BY NextWord
<1> HIDE DEF f, w
<1>3. w \in Seq(Nat) /\ Word \in Nat /\ Len(w) \in Nat
  <2>1. Seq(1..MsgLen) \subseteq Seq(Nat)
    <3>1. 1..MsgLen \subseteq Nat
      BY <1>1
    <3> QED
      BY <3>1, SeqMonotonic
  <2> QED
    BY <1>1, <1>2, <2>1
<1>4. /\ HasPrefix(received, Append(w, Word)) <=>
           HasPrefix(received, w) \/ (Len(w) < 2 /\ received[Word] = ":")
      /\ Unprefixed(received, Append(w, Word))
           = IF ~HasPrefix(received, w) /\ Len(w) < 2 /\ received[Word] = ":"
             THEN w ELSE Append(Unprefixed(received, w), Word)
  BY <1>3, OneMoreUnprefixed
<1>5. bPrefixIgnored <=> HasPrefix(received, w)
  BY DEF TokensAreWords, f, w
<1>6. PastWords = Unprefixed(received, w)
  BY DEF PastWords, f, w
<1>7. ~HasPrefix(received, w) => PastWords = w
  BY <1>3, <1>6, UnprefixedIs
<1>8. ~HasPrefix(received, w) => (msgArgTokens = <<>> <=> Len(w) < 2)
  <2> SUFFICES ASSUME ~HasPrefix(received, w)
               PROVE  msgArgTokens = <<>> <=> Len(w) < 2
    OBVIOUS
  <2>1. IF w = <<>> THEN msgArgTokens = <<>> ELSE msgArgTokens = Tail(w)
    BY <1>7 DEF TokensAreWords
  <2>2. ASSUME w # <<>>
        PROVE  Tail(w) = <<>> <=> Len(w) < 2
    <3>1. Tail(w) \in Seq(Nat) /\ Len(Tail(w)) = Len(w) - 1
      BY <1>3, <2>2
    <3> DEFINE t == Tail(w)
               L == Len(w)
    <3>2. t \in Seq(Nat) /\ Len(t) = L - 1 /\ L \in Nat
      BY <1>3, <3>1
    <3> HIDE DEF t, L
    <3>3. t = <<>> <=> Len(t) = 0
      BY <3>2, EmptySeq
    <3>4. L # 0
      BY <1>3, <2>2, EmptySeq DEF L
    <3>5. t = <<>> <=> L < 2
      BY <3>2, <3>3, <3>4
    <3> QED
      BY <3>5 DEF t, L
  <2>3. w = <<>> => Len(w) < 2
    OBVIOUS
  <2> QED
    BY <2>1, <2>2, <2>3
<1>9. Message[Word] = received[Word]
  BY RoundStarts
<1>10. StartsPrefix <=> received[Word] = ":" /\ Len(w) < 2 /\ ~HasPrefix(received, w)
  BY <1>5, <1>8, <1>9 DEF StartsPrefix
<1>11. Len(PastWords) <= Len(w)
  <2>1. HasPrefix(received, w) => Len(PastWords) = Len(w) - 1
    BY <1>3, <1>6, UnprefixedIs
  <2> QED
    BY <1>3, <1>7, <2>1
<1> QED
  BY <1>4, <1>5, <1>6, <1>7, <1>8, <1>10, <1>11 DEF f, w

\* The round stores the word it has come to, or ignores it as the prefix.
LEMMA WordTaken ==
  ASSUME ParsingInv, TokensAreWords, Parsing, Word <= MsgLen,
         NEW k \in 0..1, i' = WordEnd(received, Word) + k, received' = received
  PROVE  /\ WordsBy(received)[Past'] = Append(WordsBy(received)[Past], Word)
         /\ bPrefixIgnored \/ (msgArgTokens = <<>> /\ received[Word] = ":") <=>
              HasPrefix(received, WordsBy(received)[Past'])
         /\ PastWords' = IF StartsPrefix THEN PastWords ELSE Append(PastWords, Word)
         /\ i' > MsgLen \/ received[i' - 1] = Blank \/ received[i'] = Blank
<1> DEFINE e == WordEnd(received, Word)
           f == WordsBy(received)
           w == f[Past]
<1>1. /\ received \in Seq(Char) /\ MsgLen = Len(received) /\ MsgLen \in Nat
      /\ w \in Seq(1..MsgLen) /\ PastWords \in Seq(1..MsgLen)
  BY PastWordsType
<1>2. /\ Word \in 1..MsgLen /\ e \in Word + 1..MsgLen + 1
      /\ \A n \in Word..MsgLen : n <= e => f[n] = Append(w, Word)
  BY NextWord
<1>3. e <= MsgLen => received[e] = Blank
  <2>1. Word \in 1..Len(received)
    BY <1>1, <1>2
  <2> QED
    BY <1>1, <2>1, WordEndIs
<1>4. Past' = IF i' <= MsgLen THEN i' - 1 ELSE MsgLen
  <2>1. MsgLen' = MsgLen
    BY DEF MsgLen
  <2> QED
    BY <2>1 DEF Past
<1> HIDE DEF e, f, w
<1>5. i' = e + k
  BY DEF e
<1>6. Past' \in Word..MsgLen /\ Past' <= e
  BY <1>1, <1>2, <1>4, <1>5
<1>7. f[Past'] = Append(w, Word)
  BY <1>2, <1>6
<1>8. /\ bPrefixIgnored \/ (msgArgTokens = <<>> /\ received[Word] = ":") <=>
           HasPrefix(received, Append(w, Word))
      /\ Unprefixed(received, Append(w, Word))
           = IF StartsPrefix THEN PastWords ELSE Append(PastWords, Word)
  BY WordCounts DEF f, w
<1>9. PastWords' = Unprefixed(received, f[Past'])
  BY DEF PastWords, f
<1>10. PastWords' = IF StartsPrefix THEN PastWords ELSE Append(PastWords, Word)
  BY <1>7, <1>8, <1>9
<1>11. i' > MsgLen \/ received[i' - 1] = Blank \/ received[i'] = Blank
  <2>1. e \in Nat /\ MsgLen \in Nat
    BY <1>1, <1>2
  <2>2. CASE k = 0
    <3>1. i' = e
      BY <1>5, <2>1, <2>2
    <3>2. e > MsgLen \/ e <= MsgLen
      BY <2>1
    <3> QED
      BY <1>3, <3>1, <3>2
  <2>3. CASE k = 1
    <3>1. i' = e + 1 /\ i' - 1 = e
      BY <1>5, <2>1, <2>3
    <3>2. e + 1 > MsgLen \/ e <= MsgLen
      BY <2>1
    <3> QED
      BY <1>3, <3>1, <3>2
  <2> QED
    BY <2>2, <2>3
<1>12. bPrefixIgnored \/ (msgArgTokens = <<>> /\ received[Word] = ":") <=>
         HasPrefix(received, f[Past'])
  BY <1>7, <1>8
<1> QED
  BY <1>7, <1>10, <1>11, <1>12 DEF f, w

\* A round that goes on: the words it has come to are in the block.
LEMMA RoundKeepsWords ==
  ASSUME ParsingInv, TokensAreWords, Parsing,
         received' = received, Message' = BlanksCleared, i' \in Nat, i' >= i,
         \/ PastWords' = PastWords
         \/ /\ Word <= MsgLen /\ i' = WordEnd(received, Word)
            /\ PastWords' = Append(PastWords, Word)
  PROVE  \A n \in DOMAIN PastWords' : IntactIn(received, Message', i', PastWords'[n])
<1>1. /\ MsgLen \in Nat /\ PastWords \in Seq(1..MsgLen) /\ MsgLen' = MsgLen
      /\ i \in 1..MsgLen /\ MsgLen = Len(received)
  BY PastWordsType, RoundStarts DEF MsgLen
<1>2. ASSUME NEW p, p \in 1..MsgLen,
             WordEnd(received, p) \in p..MsgLen + 1, WordEnd(received, p) <= i',
             \A q \in p..WordEnd(received, p) - 1 : BlanksCleared[q] = received[q],
             WordEnd(received, p) < i' /\ WordEnd(received, p) <= MsgLen =>
               BlanksCleared[WordEnd(received, p)] = Nul
      PROVE  IntactIn(received, Message', i', p)
  BY <1>1, <1>2 DEF IntactIn
<1>3. ASSUME NEW n \in DOMAIN PastWords
      PROVE  IntactIn(received, Message', i', PastWords[n])
  <2> DEFINE p == PastWords[n]
  <2>1. Intact(p)
    BY DEF TokensAreWords
  <2> HIDE DEF p
  <2>2. /\ p \in 1..MsgLen /\ WordEnd(received, p) \in p..MsgLen + 1
        /\ WordEnd(received, p) <= i
        /\ \A q \in p..WordEnd(received, p) - 1 : BlanksCleared[q] = received[q] /\ q < i
        /\ WordEnd(received, p) <= MsgLen => BlanksCleared[WordEnd(received, p)] = Nul
    BY <2>1, WordsStay
  <2>3. WordEnd(received, p) <= i'
    BY <1>1, <2>2
  <2>4. IntactIn(received, Message', i', p)
    BY <1>2, <2>2, <2>3
  <2> QED
    BY <2>4 DEF p
<1>4. CASE PastWords' = PastWords
  BY <1>3, <1>4
<1>5. CASE /\ Word <= MsgLen /\ i' = WordEnd(received, Word)
           /\ PastWords' = Append(PastWords, Word)
  <2>1. /\ Word \in 1..MsgLen /\ WordEnd(received, Word) \in Word..MsgLen + 1
        /\ WordEnd(received, Word) <= i'
        /\ ~(WordEnd(received, Word) < i')
    <3>1. Word \in 1..MsgLen /\ WordEnd(received, Word) \in Word + 1..MsgLen + 1
      BY <1>5, NextWord
    <3> HIDE DEF Word
    <3> QED
      BY <1>1, <1>5, <3>1
  <2>2. \A q \in Word..WordEnd(received, Word) - 1 : BlanksCleared[q] = received[q]
    BY <1>5, WordAhead
  <2>3. IntactIn(received, Message', i', Word)
    <3> DEFINE p == Word
    <3>1. p \in 1..MsgLen /\ WordEnd(received, p) \in p..MsgLen + 1
          /\ WordEnd(received, p) <= i' /\ ~(WordEnd(received, p) < i')
          /\ \A q \in p..WordEnd(received, p) - 1 : BlanksCleared[q] = received[q]
      BY <2>1, <2>2
    <3> HIDE DEF p
    <3>2. IntactIn(received, Message', i', p)
      BY <1>1, <3>1 DEF IntactIn
    <3> QED
      BY <3>2 DEF p
  <2>4. /\ DOMAIN Append(PastWords, Word) = 1..Len(PastWords) + 1
        /\ Len(PastWords) \in Nat /\ DOMAIN PastWords = 1..Len(PastWords)
        /\ Append(PastWords, Word)[Len(PastWords) + 1] = Word
        /\ \A n \in 1..Len(PastWords) : Append(PastWords, Word)[n] = PastWords[n]
    BY <1>1, <2>1
  <2>5. \A n \in DOMAIN PastWords' : n \in DOMAIN PastWords \/ n = Len(PastWords) + 1
    <3>1. PastWords' = Append(PastWords, Word)
      BY <1>5
    <3> DEFINE L == Len(PastWords)
    <3>2. L \in Nat /\ DOMAIN PastWords' = 1..L + 1 /\ DOMAIN PastWords = 1..L
      BY <2>4, <3>1
    <3> HIDE DEF L
    <3>3. \A n \in 1..L + 1 : n \in 1..L \/ n = L + 1
      BY <3>2
    <3> QED
      BY <3>2, <3>3 DEF L
  <2> QED
    BY <1>3, <1>5, <2>3, <2>4, <2>5
<1> QED
  BY <1>4, <1>5

-----------------------------------------------------------------------------
(***************************************************************************)
(* The tokens at the end are the arguments of the grammar.                 *)
(***************************************************************************)

\* The words behind the command.
Args(words) == IF words = <<>> THEN <<>> ELSE Tail(words)

\* Without a word with a colon among them, but the first, the arguments are the words.
LEMMA NoTrail ==
  ASSUME NEW text, NEW words \in Seq(Nat),
         \A n \in 2..Len(Args(words)) : text[Args(words)[n]] # ":"
  PROVE  GrammarArguments(text, words)
           = [n \in 1..Len(Args(words)) |-> WordAt(text, Args(words)[n])]
<1> DEFINE args   == Args(words)
           colons == {n \in 2..Len(args) : text[args[n]] = ":"}
           middle == IF colons = {} THEN Len(args) ELSE Min(colons) - 1
           first(k) == [n \in 1..k |-> WordAt(text, args[n])]
           S      == {WordAt(text, args[n]) : n \in 1..Len(args)}
<1>1. GrammarArguments(text, words)
        = first(middle) \o IF colons = {} THEN <<>>
                           ELSE <<SubSeq(text, args[middle + 1] + 1, Len(text))>>
  BY DEF GrammarArguments, Args
<1>2. colons = {}
  OBVIOUS
<1>3. middle = Len(args)
  BY <1>2
<1>4. Len(args) \in Nat
  BY DEF Args
<1>5. first(Len(args)) \in Seq(S)
  <2> DEFINE L == Len(args)
  <2> HIDE DEF args
  <2>1. first(L) \in [1..L -> S]
    OBVIOUS
  <2> HIDE DEF S, first
  <2> HIDE DEF L
  <2>2. L \in Nat
    BY <1>4 DEF L
  <2>3. first(L) \in Seq(S)
    BY <2>1, <2>2
  <2> QED
    BY <2>3 DEF L
<1>6. first(Len(args)) \o <<>> = first(Len(args))
  <2> HIDE DEF first, S
  <2> QED
    BY <1>5, ConcatEmptySeq
<1> HIDE DEF colons, middle
<1>7. GrammarArguments(text, words) = first(Len(args)) \o <<>>
  BY <1>1, <1>2, <1>3
<1> QED
  BY <1>6, <1>7

\* The first word with a colon among them, but the first, is the rest of the text.
LEMMA WithTrail ==
  ASSUME NEW text, NEW words \in Seq(Nat), NEW k \in 2..Len(Args(words)),
         text[Args(words)[k]] = ":",
         \A n \in 2..k - 1 : text[Args(words)[n]] # ":"
  PROVE  GrammarArguments(text, words)
           = [n \in 1..k - 1 |-> WordAt(text, Args(words)[n])]
             \o <<SubSeq(text, Args(words)[k] + 1, Len(text))>>
<1> DEFINE args   == Args(words)
           colons == {n \in 2..Len(args) : text[args[n]] = ":"}
           middle == IF colons = {} THEN Len(args) ELSE Min(colons) - 1
<1>1. GrammarArguments(text, words)
        = [n \in 1..middle |-> WordAt(text, args[n])]
          \o IF colons = {} THEN <<>>
             ELSE <<SubSeq(text, args[middle + 1] + 1, Len(text))>>
  BY DEF GrammarArguments, Args
<1>2. Len(args) \in Nat
  BY DEF Args
<1>3. k \in colons
  OBVIOUS
<1>4. Min(colons) = k
  <2>1. colons \in SUBSET Nat /\ colons # {} /\ colons \subseteq 2..Len(args)
    BY <1>3
  <2>2. \A n \in colons : n \notin 2..k - 1
    OBVIOUS
  <2> HIDE DEF colons
  <2>3. Min(colons) \in colons /\ \A n \in colons : Min(colons) <= n
    BY <2>1, MinIsLeast
  <2>4. Min(colons) <= k /\ Min(colons) \in 2..Len(args) /\ Min(colons) \notin 2..k - 1
    BY <1>3, <2>1, <2>2, <2>3
  <2> QED
    BY <1>2, <2>4
<1>5. middle = k - 1 /\ middle + 1 = k
  BY <1>3, <1>4
<1> HIDE DEF colons, middle
<1>6. colons # {}
  BY <1>3
<1> QED
  BY <1>1, <1>5, <1>6

\* The tokens of a command and of arguments, in a block, are those of a text's grammar.
ParsedIn(text, msg, command, args) ==
  /\ (command = 0) = (GrammarWords(text) = <<>>)
  /\ command # 0 =>
       TextAt(msg, Len(text), command) = WordAt(text, Head(GrammarWords(text)))
  /\ [n \in DOMAIN args |-> TextAt(msg, Len(text), args[n])]
       = GrammarArguments(text, GrammarWords(text))

LEMMA ArgsAre ==
  ASSUME NEW S, NEW words \in Seq(S)
  PROVE  /\ \A n \in DOMAIN words : words[n] \in S
         /\ Args(words) \in Seq(S) /\ Len(Args(words)) \in Nat
         /\ \A n \in 1..Len(Args(words)) :
              Args(words)[n] = words[n + 1] /\ n + 1 \in DOMAIN words
         /\ DOMAIN Args(words) = 1..Len(Args(words))
         /\ words # <<>> => /\ Args(words) = Tail(words) /\ Len(Args(words)) = Len(words) - 1
                            /\ Head(words) = words[1] /\ 1 \in DOMAIN words
<1>0. \A n \in DOMAIN words : words[n] \in S
  OBVIOUS
<1>1. CASE words = <<>>
  <2> DEFINE t == Args(words)
  <2>1. t = <<>>
    BY <1>1 DEF Args
  <2> HIDE DEF t
  <2>2. t \in Seq(S) /\ Len(t) = 0 /\ DOMAIN t = 1..Len(t) /\ 1..Len(t) = {}
    BY <2>1, EmptySeq
  <2> QED
    BY <1>0, <1>1, <2>2 DEF t
<1>2. CASE words # <<>>
  <2> DEFINE t == Args(words)
  <2>1. t = Tail(words)
    BY <1>2 DEF Args
  <2>2. /\ t \in Seq(S) /\ Len(t) = Len(words) - 1 /\ Len(words) \in Nat \ {0}
        /\ DOMAIN t = 1..Len(t) /\ DOMAIN words = 1..Len(words)
        /\ \A n \in 1..Len(words) - 1 : t[n] = words[n + 1]
        /\ Head(words) = words[1]
    BY <1>2, <2>1
  <2> HIDE DEF t
  <2>3. /\ Len(t) \in Nat /\ 1 \in DOMAIN words
        /\ \A n \in 1..Len(t) : t[n] = words[n + 1] /\ n + 1 \in DOMAIN words
    BY <2>2
  <2> QED
    BY <1>0, <1>2, <2>1, <2>2, <2>3 DEF t
<1> QED
  BY <1>1, <1>2

\* Behind the last word the loop ends with the tokens of the grammar.
LEMMA EndParses ==
  ASSUME ParsingInv, TokensAreWords, i > MsgLen
  PROVE  ParsedIn(received, Message, msgCommandToken, msgArgTokens)
<1> DEFINE words == GrammarWords(received)
<1>1. /\ received \in Seq(Char) /\ MsgLen = Len(received) /\ MsgLen \in Nat
      /\ PastWords \in Seq(1..MsgLen) /\ i \in Nat
      /\ Message \in Seq(Char \union {Nul}) /\ Len(Message) = Len(received)
  <2>1. i \in Nat /\ Message \in Seq(Char \union {Nul}) /\ Len(Message) = Len(received)
    <3>1. i \in 1..MsgLen + 2 /\ Len(Message) = MsgLen
      BY DEF ParsingInv, ParsingTypeOK
    <3>2. Message \in Seq(Char \union {Nul}) /\ MsgLen = Len(received) /\ MsgLen \in Nat
      BY PastWordsType DEF ParsingInv, ParsingTypeOK
    <3> QED
      BY <3>1, <3>2
  <2> QED
    BY <2>1, PastWordsType
<1>2. words = PastWords
  <2>1. Past = MsgLen
    BY <1>1 DEF Past
  <2> QED
    BY <1>1, <2>1 DEF PastWords, GrammarWords
<1> HIDE DEF words
<1>3. words \in Seq(1..MsgLen)
  BY <1>1, <1>2
<1>4. /\ \A n \in DOMAIN words : words[n] \in 1..MsgLen
      /\ DOMAIN Args(words) = 1..Len(Args(words)) /\ Len(Args(words)) \in Nat
      /\ \A n \in 1..Len(Args(words)) :
           Args(words)[n] = words[n + 1] /\ n + 1 \in DOMAIN words
      /\ words # <<>> => Args(words) = Tail(words) /\ Head(words) = words[1]
                         /\ 1 \in DOMAIN words
  BY <1>3, ArgsAre
<1>5. msgArgTokens = Args(words) /\ (words = <<>> => msgCommandToken = 0)
      /\ (words # <<>> => msgCommandToken = words[1])
  BY <1>2, <1>4 DEF TokensAreWords, Args
<1>6. \A n \in DOMAIN words : TextAt(Message, MsgLen, words[n]) = WordAt(received, words[n])
  <2> TAKE n \in DOMAIN words
  <2> DEFINE p == words[n]
  <2>1. IntactIn(received, Message, i, p)
    BY <1>2 DEF TokensAreWords, Intact
  <2> HIDE DEF p
  <2>2. /\ p \in 1..Len(received) /\ WordEnd(received, p) <= i
        /\ \A q \in p..WordEnd(received, p) - 1 : Message[q] = received[q]
        /\ WordEnd(received, p) < i /\ WordEnd(received, p) <= Len(received) =>
             Message[WordEnd(received, p)] = Nul
    BY <2>1 DEF IntactIn
  <2>3. WordEnd(received, p) \in Nat
    <3>1. WordEnd(received, p) \in p..Len(received) + 1
      BY <1>1, <2>2, WordEndIs
    <3> QED
      BY <1>1, <2>2, <3>1
  <2>4. WordEnd(received, p) <= Len(received) => WordEnd(received, p) < i
    BY <1>1, <2>3
  <2>5. WordEnd(received, p) <= Len(received) => Message[WordEnd(received, p)] = Nul
    BY <2>2, <2>4
  <2>6. TextAt(Message, Len(received), p) = WordAt(received, p)
    <3> HIDE DEF MsgLen, PastWords
    <3> QED
      BY <1>1, <2>2, <2>5, TokenIsWord
  <2> QED
    BY <1>1, <2>6 DEF p
<1>7. GrammarArguments(received, words)
        = [n \in 1..Len(Args(words)) |-> WordAt(received, Args(words)[n])]
  <2>1. words \in Seq(Nat)
    <3>1. 1..MsgLen \subseteq Nat
      BY <1>1
    <3> QED
      BY <1>3, <3>1, SeqMonotonic
  <2>2. \A n \in 2..Len(Args(words)) : received[Args(words)[n]] # ":"
    BY <1>5 DEF TokensAreWords
  <2> QED
    BY <2>1, <2>2, NoTrail
<1>8. [n \in DOMAIN msgArgTokens |-> TextAt(Message, MsgLen, msgArgTokens[n])]
        = GrammarArguments(received, words)
  <2>1. \A n \in 1..Len(Args(words)) :
          TextAt(Message, MsgLen, Args(words)[n]) = WordAt(received, Args(words)[n])
    BY <1>4, <1>6
  <2> QED
    BY <1>4, <1>5, <1>7, <2>1, Zenon
<1>9. words # <<>> => msgCommandToken # 0
      /\ TextAt(Message, MsgLen, msgCommandToken) = WordAt(received, Head(words))
  <2> SUFFICES ASSUME words # <<>>
               PROVE  msgCommandToken # 0
                      /\ TextAt(Message, MsgLen, msgCommandToken) = WordAt(received, Head(words))
    OBVIOUS
  <2>1. msgCommandToken = words[1] /\ Head(words) = words[1] /\ 1 \in DOMAIN words
    BY <1>4, <1>5
  <2>2. words[1] \in 1..MsgLen
    BY <1>4, <2>1
  <2>3. words[1] # 0
    BY <1>1, <2>2
  <2> QED
    BY <1>6, <2>1, <2>3
<1>10. (msgCommandToken = 0) = (words = <<>>)
  BY <1>5, <1>9
<1> QED
  BY <1>1, <1>5, <1>8, <1>9, <1>10 DEF ParsedIn, words

\* A part of the block in which nothing has changed is the rest of the text.
LEMMA RestOfText ==
  ASSUME NEW text \in Seq(Char), NEW msg \in Seq(Char \union {Nul}), Len(msg) = Len(text),
         NEW p \in 1..Len(text) + 1, \A q \in p..Len(text) : msg[q] = text[q]
  PROVE  TextAt(msg, Len(text), p) = SubSeq(text, p, Len(text))
<1> DEFINE N == Len(text)
           a == SubSeq(msg, p, N)
           b == SubSeq(text, p, N)
<1>1. N \in Nat /\ \A q \in p..N : q \in 1..N
  OBVIOUS
<1>2. \A q \in p..N : text[q] \in Char /\ msg[q] = text[q] /\ msg[q] \in Char \union {Nul}
  <2>1. \A q \in 1..N : text[q] \in Char
    OBVIOUS
  <2> QED
    BY <1>1, <2>1
<1>3. {q \in p..N : msg[q] \in {Nul}} \union {N + 1} = {N + 1}
  BY <1>2, CharAssumption
<1>4. Min({N + 1}) = N + 1
  <2>1. {N + 1} \in SUBSET Nat /\ {N + 1} # {}
    BY <1>1
  <2>2. Min({N + 1}) \in {N + 1}
    BY <2>1, MinIsLeast
  <2> QED
    BY <2>2
<1>5. TextAt(msg, N, p) = SubSeq(msg, p, (N + 1) - 1)
  BY <1>3, <1>4 DEF TextAt
<1>6. TextAt(msg, N, p) = a
  <2>1. (N + 1) - 1 = N
    BY <1>1
  <2> QED
    BY <1>5, <2>1
<1> HIDE DEF N
<1>7. p \in Int /\ N \in Int
  BY <1>1 DEF N
<1>8. /\ a \in Seq(Char \union {Nul}) /\ Len(a) = IF p <= N THEN N - p + 1 ELSE 0
      /\ \A k \in 1..N - p + 1 : a[k] = msg[p + k - 1]
  BY <1>2, <1>7, SubSeqProperties
<1>9. /\ b \in Seq(Char) /\ Len(b) = IF p <= N THEN N - p + 1 ELSE 0
      /\ \A k \in 1..N - p + 1 : b[k] = text[p + k - 1]
  BY <1>2, <1>7, SubSeqProperties
<1>10. b \in Seq(Char \union {Nul})
  BY <1>9, SeqMonotonic
<1> HIDE DEF a, b
<1>11. \A k \in 1..Len(a) : k \in 1..N - p + 1 /\ p + k - 1 \in p..N
  BY <1>7, <1>8
<1>12. \A k \in 1..Len(a) : a[k] = b[k]
  BY <1>2, <1>8, <1>9, <1>11
<1>13. Len(a) = Len(b)
  BY <1>8, <1>9
<1>14. a = b
  BY <1>8, <1>10, <1>12, <1>13, SeqEqual
<1> QED
  BY <1>6, <1>14 DEF N, b

\* A list of texts with one more text behind it.
LEMMA ArgumentAdded ==
  ASSUME NEW S, NEW a \in Seq(S), NEW z \in S, NEW g \in Seq(S),
         Len(g) = Len(a) + 1, g[Len(a) + 1] = z, \A n \in 1..Len(a) : g[n] = a[n]
  PROVE  g = a \o <<z>>
<1> DEFINE b == <<z>>
           L == Len(a)
<1>1. L \in Nat
  OBVIOUS
<1>2. b \in Seq(S) /\ Len(b) = 1 /\ b[1] = z
  OBVIOUS
<1> HIDE DEF b
<1>3. /\ a \o b \in Seq(S) /\ Len(a \o b) = Len(a) + Len(b)
      /\ \A k \in 1..Len(a) + Len(b) : (a \o b)[k] = IF k <= Len(a) THEN a[k] ELSE b[k - Len(a)]
  BY <1>2, ConcatProperties
<1>4. Len(g) = L + 1 /\ g[L + 1] = z /\ \A n \in 1..L : g[n] = a[n]
  OBVIOUS
<1>5. /\ Len(a \o b) = L + 1
      /\ \A k \in 1..L + 1 : (a \o b)[k] = IF k <= L THEN a[k] ELSE b[k - L]
  BY <1>2, <1>3
<1> HIDE DEF L
<1>6. ASSUME NEW n \in 1..L + 1
      PROVE  g[n] = (a \o b)[n]
  <2>1. CASE n <= L
    <3>1. n \in 1..L
      BY <1>1, <2>1
    <3> QED
      BY <1>4, <1>5, <2>1, <3>1
  <2>2. CASE ~(n <= L)
    <3>1. n = L + 1 /\ n - L = 1
      BY <1>1, <2>2
    <3> QED
      BY <1>2, <1>4, <1>5, <2>2, <3>1
  <2> QED
    BY <2>1, <2>2
<1>7. g = a \o b
  BY <1>3, <1>4, <1>5, <1>6, SeqEqual
<1> QED
  BY <1>7 DEF b

\* A trailing token is the last one of the grammar, whatever words it holds.
LEMMA TrailParses ==
  ASSUME ParsingInv, TokensAreWords, TrailToken
  PROVE  ParsedIn(received, Message', msgCommandToken', msgArgTokens')
<1> DEFINE held   == PastWords
           words  == GrammarWords(received)
           f      == WordsBy(received)
           L      == Len(msgArgTokens)
           all    == Append(msgArgTokens, Word + 1)
<1>1. /\ Parsing /\ Word <= MsgLen /\ StartsTrail /\ ~StartsPrefix
      /\ Message' = [BlanksCleared EXCEPT ![Word] = Nul]
      /\ msgArgTokens' = all /\ msgCommandToken' = msgCommandToken
  BY DEF TrailToken, StartsTrail, StartsPrefix
<1>2. /\ received \in Seq(Char) /\ MsgLen = Len(received) /\ MsgLen \in Nat
      /\ held \in Seq(1..MsgLen) /\ f[Past] \in Seq(1..MsgLen) /\ i \in 1..MsgLen
  BY <1>1, PastWordsType, RoundStarts
<1>3. Word \in 1..MsgLen /\ f[Word] = Append(f[Past], Word)
      /\ received[Word] = ":"
  <2>1. Word \in 1..MsgLen /\ WordEnd(received, Word) \in Word + 1..MsgLen + 1
    BY <1>1, NextWord
  <2>2. Word \in Word..MsgLen /\ Word <= WordEnd(received, Word)
    BY <1>2, <2>1
  <2>3. f[Word] = Append(f[Past], Word)
    BY <1>1, <2>2, NextWord
  <2> QED
    BY <1>1, <2>1, <2>3, RoundStarts DEF StartsTrail
<1>4. /\ held # <<>> /\ msgArgTokens = Tail(held) /\ msgArgTokens # <<>>
      /\ msgCommandToken = Head(held)
      /\ \A n \in 2..L : received[msgArgTokens[n]] # ":"
      /\ \A n \in DOMAIN held : IntactIn(received, Message, i, held[n])
  BY <1>1 DEF StartsTrail, TokensAreWords, Intact
<1>5. /\ \A n \in DOMAIN held : held[n] \in 1..MsgLen
      /\ msgArgTokens \in Seq(1..MsgLen) /\ L \in Nat /\ L = Len(held) - 1
      /\ Len(held) \in Nat /\ DOMAIN held = 1..Len(held)
      /\ \A n \in 1..L : msgArgTokens[n] = held[n + 1] /\ n + 1 \in DOMAIN held
      /\ Head(held) = held[1] /\ 1 \in DOMAIN held
      /\ DOMAIN msgArgTokens = 1..L
  <2>1. msgArgTokens = Args(held)
    BY <1>4 DEF Args
  <2>2. DOMAIN held = 1..Len(held) /\ Len(held) \in Nat
    BY <1>2
  <2> HIDE DEF held
  <2>3. /\ \A n \in DOMAIN held : held[n] \in 1..MsgLen
        /\ Args(held) \in Seq(1..MsgLen) /\ Len(Args(held)) \in Nat
        /\ \A n \in 1..Len(Args(held)) :
             Args(held)[n] = held[n + 1] /\ n + 1 \in DOMAIN held
        /\ DOMAIN Args(held) = 1..Len(Args(held))
        /\ Len(Args(held)) = Len(held) - 1
        /\ Head(held) = held[1] /\ 1 \in DOMAIN held
    BY <1>2, <1>4, ArgsAre
  <2> QED
    BY <2>1, <2>2, <2>3
<1>6. L \in Nat \ {0} /\ Len(held) = L + 1
  <2>1. L # 0
    BY <1>4, <1>5, EmptySeq
  <2> HIDE DEF L
  <2> QED
    BY <1>5, <2>1
<1>7. /\ Unprefixed(received, f[Word]) = Append(held, Word)
      /\ Len(f[Word]) >= 2
  <2>1. /\ Unprefixed(received, Append(f[Past], Word)) = Append(held, Word)
        /\ Len(held) <= Len(f[Past])
    BY <1>1, WordCounts
  <2>2. Len(f[Word]) = Len(f[Past]) + 1 /\ Len(f[Past]) \in Nat
    BY <1>2, <1>3
  <2> HIDE DEF held, f, L
  <2> QED
    BY <1>3, <1>6, <2>1, <2>2
<1>8. /\ words \in Seq(1..MsgLen) /\ Len(words) \in Nat /\ Len(words) >= L + 2
      /\ words[L + 2] = Word /\ \A n \in 1..L + 1 : words[n] = held[n]
      /\ DOMAIN words = 1..Len(words)
  <2> DEFINE more == Append(held, Word)
  <2>1. Word \in Nat /\ MsgLen \in Nat /\ Word <= MsgLen /\ MsgLen <= Len(received)
    BY <1>2, <1>3
  <2>2. /\ words \in Seq(1..Len(received)) /\ Len(words) >= Len(more)
        /\ \A n \in 1..Len(more) : words[n] = more[n]
    <3>1. words = Unprefixed(received, f[MsgLen])
      BY <1>2 DEF GrammarWords
    <3>2. /\ Unprefixed(received, f[MsgLen]) \in Seq(1..Len(received))
          /\ Len(Unprefixed(received, f[MsgLen])) >= Len(Unprefixed(received, f[Word]))
          /\ \A k \in 1..Len(Unprefixed(received, f[Word])) :
               Unprefixed(received, f[MsgLen])[k] = Unprefixed(received, f[Word])[k]
      <4> DEFINE p == Word
                 q == MsgLen
      <4>1. /\ received \in Seq(Char) /\ p \in Nat /\ q \in Nat /\ p <= q
            /\ q <= Len(received) /\ Len(WordsBy(received)[p]) >= 2
        BY <1>2, <1>7, <2>1
      <4> HIDE DEF p, q
      <4>2. /\ Unprefixed(received, WordsBy(received)[q]) \in Seq(1..Len(received))
            /\ Len(Unprefixed(received, WordsBy(received)[q]))
                 >= Len(Unprefixed(received, WordsBy(received)[p]))
            /\ \A k \in 1..Len(Unprefixed(received, WordsBy(received)[p])) :
                 Unprefixed(received, WordsBy(received)[q])[k]
                   = Unprefixed(received, WordsBy(received)[p])[k]
        BY <4>1, UnprefixedStay
      <4> QED
        BY <4>2 DEF p, q
    <3> QED
      BY <1>7, <3>1, <3>2
  <2>3. /\ Len(more) = Len(held) + 1 /\ more[Len(held) + 1] = Word
        /\ \A n \in 1..Len(held) : more[n] = held[n]
    BY <1>2, <1>3
  <2>4. (L + 1) + 1 = L + 2
    BY <1>5
  <2>5. Len(words) \in Nat /\ DOMAIN words = 1..Len(words)
    BY <2>2
  <2> HIDE DEF more, held, words, L
  <2>6. Len(more) = L + 2 /\ more[L + 2] = Word /\ \A n \in 1..L + 1 : more[n] = held[n]
    BY <1>6, <2>3, <2>4
  <2>7. L + 2 \in 1..L + 2 /\ \A n \in 1..L + 1 : n \in 1..L + 2
    BY <1>5
  <2> QED
    BY <1>2, <2>2, <2>5, <2>6, <2>7
<1>9. /\ words # <<>> /\ Head(words) = held[1]
      /\ Len(Args(words)) \in Nat /\ Len(Args(words)) = Len(words) - 1
      /\ L + 1 \in 2..Len(Args(words)) /\ Args(words)[L + 1] = Word
      /\ \A n \in 1..L : Args(words)[n] = msgArgTokens[n]
  <2>1. words # <<>>
    <3> HIDE DEF words, L
    <3> QED
      BY <1>5, <1>8, EmptySeq
  <2>2. /\ \A n \in 1..Len(Args(words)) : Args(words)[n] = words[n + 1]
        /\ Len(Args(words)) \in Nat /\ Len(Args(words)) = Len(words) - 1
        /\ Head(words) = words[1]
    <3> HIDE DEF words
    <3> QED
      BY <1>8, <2>1, ArgsAre
  <2> HIDE DEF words, held, L
  <2>3. L + 1 \in 2..Len(Args(words)) /\ L + 1 \in 1..Len(Args(words)) /\ (L + 1) + 1 = L + 2
        /\ 1 \in 1..L + 1
    BY <1>6, <1>8, <2>2
  <2>4. \A n \in 1..L : n \in 1..Len(Args(words)) /\ n + 1 \in 1..L + 1
    BY <1>6, <1>8, <2>2
  <2> QED
    BY <1>5, <1>8, <2>1, <2>2, <2>3, <2>4
<1>10. GrammarArguments(received, words)
         = [n \in 1..L |-> WordAt(received, Args(words)[n])]
           \o <<SubSeq(received, Word + 1, MsgLen)>>
  <2> DEFINE k == L + 1
  <2>1. words \in Seq(Nat)
    <3>1. 1..MsgLen \subseteq Nat
      BY <1>2
    <3> QED
      BY <1>8, <3>1, SeqMonotonic
  <2> HIDE DEF words, L
  <2>2. k - 1 = L /\ k \in 2..Len(Args(words)) /\ Args(words)[k] = Word
    BY <1>5, <1>9
  <2>3. \A n \in 2..k - 1 : received[Args(words)[n]] # ":"
    <3>1. \A n \in 2..k - 1 : n \in 1..L /\ n \in 2..L
      BY <1>5, <2>2
    <3> QED
      BY <1>4, <1>9, <3>1
  <2> HIDE DEF k
  <2>4. GrammarArguments(received, words)
          = [n \in 1..k - 1 |-> WordAt(received, Args(words)[n])]
            \o <<SubSeq(received, Args(words)[k] + 1, Len(received))>>
    BY <1>3, <2>1, <2>2, <2>3, WithTrail
  <2> QED
    BY <1>2, <2>2, <2>4
<1>11. /\ Message' \in Seq(Char \union {Nul}) /\ Len(Message') = Len(received)
       /\ Message'[Word] = Nul
       /\ \A q \in 1..MsgLen : q # Word => Message'[q] = BlanksCleared[q]
  <2>1. /\ BlanksCleared \in Seq(Char \union {Nul}) /\ Len(BlanksCleared) = MsgLen
        /\ DOMAIN BlanksCleared = 1..MsgLen
    BY <1>1, RoundStarts
  <2> HIDE DEF BlanksCleared, Word, MsgLen
  <2>2. Word \in 1..Len(BlanksCleared) /\ Nul \in Char \union {Nul}
    BY <1>3, <2>1
  <2>3. Message' \in Seq(Char \union {Nul}) /\ Len(Message') = Len(BlanksCleared)
    BY <1>1, <2>1, <2>2, ExceptSeq
  <2>4. Message'[Word] = Nul /\ \A q \in 1..MsgLen : q # Word => Message'[q] = BlanksCleared[q]
    BY <1>1, <1>3, <2>1
  <2> QED
    BY <1>2, <2>1, <2>3, <2>4
<1>12. \A n \in DOMAIN held : TextAt(Message', Len(received), held[n]) = WordAt(received, held[n])
  <2> TAKE n \in DOMAIN held
  <2> DEFINE p == held[n]
             e == WordEnd(received, p)
  <2>1. Intact(p)
    BY <1>4 DEF Intact
  <2> HIDE DEF p
  <2>2. /\ p \in 1..MsgLen /\ e \in p..MsgLen + 1 /\ e <= i
        /\ \A q \in p..e - 1 : BlanksCleared[q] = received[q] /\ q < i
        /\ e <= MsgLen => BlanksCleared[e] = Nul
    BY <1>1, <2>1, WordsStay
  <2>3. Word \in i..MsgLen + 1
    BY <1>1, RoundStarts
  <2> HIDE DEF e, Word, MsgLen, BlanksCleared
  <2>4. \A q \in p..e - 1 : q \in 1..MsgLen /\ q # Word
    BY <1>2, <2>2, <2>3
  <2>5. \A q \in p..e - 1 : Message'[q] = received[q]
    BY <1>11, <2>2, <2>4
  <2>6. e <= Len(received) => Message'[e] = Nul
    <3>1. e <= MsgLen => e \in 1..MsgLen
      BY <1>2, <2>2
    <3> QED
      BY <1>2, <1>11, <2>2, <3>1
  <2>7. p \in 1..Len(received)
    BY <1>2, <2>2
  <2>8. TextAt(Message', Len(received), p) = WordAt(received, p)
    BY <1>2, <1>11, <2>5, <2>6, <2>7, TokenIsWord DEF e
  <2> QED
    BY <2>8 DEF p
<1>13. TextAt(Message', Len(received), Word + 1) = SubSeq(received, Word + 1, MsgLen)
  <2>1. \A q \in Word..MsgLen : BlanksCleared[q] = received[q]
    BY <1>1, RoundStarts
  <2> HIDE DEF Word, MsgLen, BlanksCleared
  <2>2. \A q \in Word + 1..MsgLen : q \in Word..MsgLen /\ q \in 1..MsgLen /\ q # Word
    BY <1>2, <1>3
  <2>3. \A q \in Word + 1..Len(received) : Message'[q] = received[q]
    BY <1>2, <1>11, <2>1, <2>2
  <2>4. Word + 1 \in 1..Len(received) + 1
    BY <1>2, <1>3
  <2>5. TextAt(Message', Len(received), Word + 1) = SubSeq(received, Word + 1, Len(received))
    BY <1>2, <1>11, <2>3, <2>4, RestOfText
  <2> QED
    BY <1>2, <2>5
<1>14. [n \in DOMAIN all |-> TextAt(Message', Len(received), all[n])]
         = GrammarArguments(received, words)
  <2> DEFINE g == [n \in 1..L + 1 |-> TextAt(Message', Len(received), all[n])]
             w == [n \in 1..L |-> WordAt(received, Args(words)[n])]
             z == SubSeq(received, Word + 1, MsgLen)
  <2>1. /\ DOMAIN all = 1..L + 1 /\ all[L + 1] = Word + 1
        /\ \A n \in 1..L : all[n] = msgArgTokens[n]
    <3>1. Word + 1 \in Nat /\ msgArgTokens \in Seq(Nat)
      <4>1. 1..MsgLen \subseteq Nat
        BY <1>2
      <4> QED
        BY <1>2, <1>3, <1>5, <4>1, SeqMonotonic
    <3> QED
      BY <3>1, TailOfMore
  <2>2. g = [n \in 1..L + 1 |-> g[n]]
    OBVIOUS
  <2>3. g[L + 1] = z
    <3>1. L + 1 \in 1..L + 1
      BY <1>5
    <3>2. g[L + 1] = TextAt(Message', Len(received), all[L + 1])
      BY <3>1
    <3> QED
      BY <1>13, <2>1, <3>2
  <2>4. \A n \in 1..L : g[n] = w[n]
    <3> TAKE n \in 1..L
    <3>1. n \in 1..L + 1
      BY <1>5
    <3>2. g[n] = TextAt(Message', Len(received), msgArgTokens[n])
      BY <2>1, <3>1
    <3>3. w[n] = WordAt(received, msgArgTokens[n])
      BY <1>9
    <3> QED
      BY <1>5, <1>12, <3>2, <3>3
  <2>5. GrammarArguments(received, words) = w \o <<z>>
    BY <1>10
  <2>6. [n \in DOMAIN all |-> TextAt(Message', Len(received), all[n])] = g
    BY <2>1, Zenon
  <2> DEFINE S == {g[n] : n \in 1..L + 1}
  <2>7. DOMAIN w = 1..L /\ w = [n \in 1..L |-> w[n]]
    OBVIOUS
  <2> HIDE DEF g, w, z, L
  <2>8. L \in Nat /\ L + 1 \in 1..L + 1
    BY <1>5
  <2>9. g \in [1..L + 1 -> S] /\ z \in S
    BY <2>2, <2>3, <2>8
  <2>10. w \in [1..L -> S]
    <3>1. \A n \in 1..L : n \in 1..L + 1
      BY <2>8
    <3>2. \A n \in 1..L : w[n] \in S
      BY <2>4, <3>1
    <3> QED
      BY <2>7, <3>2
  <2> HIDE DEF S
  <2>11. g \in Seq(S) /\ w \in Seq(S) /\ Len(g) = L + 1 /\ Len(w) = L
    BY <2>8, <2>9, <2>10
  <2>12. Len(g) = Len(w) + 1 /\ g[Len(w) + 1] = z /\ \A n \in 1..Len(w) : g[n] = w[n]
    BY <2>3, <2>4, <2>11
  <2>13. g = w \o <<z>>
    BY <2>9, <2>11, <2>12, ArgumentAdded
  <2> QED
    BY <2>5, <2>6, <2>13
<1>15. msgCommandToken # 0
       /\ TextAt(Message', Len(received), msgCommandToken) = WordAt(received, Head(words))
  <2>1. msgCommandToken = held[1] /\ held[1] \in 1..MsgLen /\ 1 \in DOMAIN held
    BY <1>4, <1>5
  <2> HIDE DEF held, words, MsgLen
  <2>2. held[1] # 0
    BY <1>2, <2>1
  <2> QED
    BY <1>9, <1>12, <2>1, <2>2
<1> QED
  BY <1>1, <1>9, <1>14, <1>15 DEF ParsedIn, words

\* The words of what is ignored: nothing but the prefix.
LEMMA PrefixKeeps ==
  ASSUME ParsingInv, TokensAreWords, IgnorePrefix
  PROVE  TokensAreWords'
<1>1. /\ Parsing /\ Word <= MsgLen /\ StartsPrefix
      /\ received' = received /\ Message' = BlanksCleared
      /\ i' = FirstIn({Blank}, Word) + 1 /\ bPrefixIgnored' = TRUE
      /\ msgCommandToken' = msgCommandToken /\ msgArgTokens' = msgArgTokens
  BY DEF IgnorePrefix
<1>2. i' = WordEnd(received, Word) + 1
  BY <1>1, NextWord
<1>3. /\ bPrefixIgnored \/ (msgArgTokens = <<>> /\ received[Word] = ":") <=>
           HasPrefix(received, WordsBy(received)[Past'])
      /\ PastWords' = PastWords
      /\ i' > MsgLen \/ received[i' - 1] = Blank \/ received[i'] = Blank
  <2>1. 1 \in 0..1
    OBVIOUS
  <2> QED
    BY <1>1, <1>2, <2>1, WordTaken
<1>4. msgArgTokens = <<>> /\ received[Word] = ":"
  BY <1>1, RoundStarts DEF StartsPrefix
<1>5. bPrefixIgnored' = HasPrefix(received', WordsBy(received')[Past'])
  BY <1>1, <1>3, <1>4 DEF HasPrefix
<1>6. \A n \in DOMAIN PastWords' : IntactIn(received, Message', i', PastWords'[n])
  <2>1. i' \in Nat /\ i' >= i
    <3>1. WordEnd(received, Word) \in Word + 1..MsgLen + 1 /\ Word \in i..MsgLen + 1
          /\ i \in 1..MsgLen /\ MsgLen \in Nat
      BY <1>1, NextWord, RoundStarts
    <3> HIDE DEF Word, MsgLen
    <3> QED
      BY <1>2, <3>1
  <2> QED
    BY <1>1, <1>3, <2>1, RoundKeepsWords
<1>7. MsgLen' = MsgLen
  BY <1>1 DEF MsgLen
<1>8. i' = 1 \/ i' > MsgLen' \/ received'[i' - 1] = Blank \/ received'[i'] = Blank
  BY <1>1, <1>3, <1>7
<1>9. IF PastWords' = <<>> THEN msgCommandToken' = 0 /\ msgArgTokens' = <<>>
      ELSE msgCommandToken' = Head(PastWords') /\ msgArgTokens' = Tail(PastWords')
  BY <1>1, <1>3 DEF TokensAreWords
<1>10. \A n \in 2..Len(msgArgTokens') : received'[msgArgTokens'[n]] # ":"
  BY <1>1 DEF TokensAreWords
<1> QED
  BY <1>1, <1>5, <1>6, <1>8, <1>9, <1>10 DEF TokensAreWords, Intact

\* The word that is stored is the one the loop has come to.
LEMMA TokenKeeps ==
  ASSUME ParsingInv, TokensAreWords, NormalToken
  PROVE  TokensAreWords'
<1>1. /\ Parsing /\ Word <= MsgLen /\ ~StartsPrefix /\ ~StartsTrail
      /\ received' = received /\ Message' = BlanksCleared
      /\ i' = FirstIn({Blank, Nul}, Word) /\ bPrefixIgnored' = bPrefixIgnored
      /\ msgCommandToken' = IF msgCommandToken = 0 THEN Word ELSE msgCommandToken
      /\ msgArgTokens' = IF msgCommandToken = 0
                         THEN msgArgTokens ELSE Append(msgArgTokens, Word)
  BY DEF NormalToken, Store
<1>2. /\ received \in Seq(Char) /\ MsgLen = Len(received) /\ MsgLen \in Nat
      /\ PastWords \in Seq(1..MsgLen)
  BY PastWordsType
<1>3. /\ Word \in 1..MsgLen /\ Word \in i..MsgLen + 1 /\ i \in 1..MsgLen
      /\ Message[Word] = received[Word]
  BY <1>1, NextWord, RoundStarts
<1>4. i' = WordEnd(received, Word) /\ WordEnd(received, Word) \in Word + 1..MsgLen + 1
  BY <1>1, NextWord
<1>5. /\ bPrefixIgnored \/ (msgArgTokens = <<>> /\ received[Word] = ":") <=>
           HasPrefix(received, WordsBy(received)[Past'])
      /\ PastWords' = Append(PastWords, Word)
      /\ i' > MsgLen \/ received[i' - 1] = Blank \/ received[i'] = Blank
  <2>1. 0 \in 0..1 /\ i' = WordEnd(received, Word) + 0
    BY <1>2, <1>4
  <2> QED
    BY <1>1, <2>1, WordTaken
<1>6. bPrefixIgnored' = HasPrefix(received', WordsBy(received')[Past'])
  <2>1. bPrefixIgnored \in BOOLEAN
    BY DEF ParsingInv, ParsingTypeOK
  <2>2. ~bPrefixIgnored => ~(msgArgTokens = <<>> /\ received[Word] = ":")
    BY <1>1, <1>3 DEF StartsPrefix
  <2> QED
    BY <1>1, <1>5, <2>1, <2>2 DEF HasPrefix
<1>7. \A n \in DOMAIN PastWords' : IntactIn(received, Message', i', PastWords'[n])
  <2>1. i' \in Nat /\ i' >= i
    <3> HIDE DEF Word, MsgLen
    <3> QED
      BY <1>2, <1>3, <1>4
  <2> QED
    BY <1>1, <1>4, <1>5, <2>1, RoundKeepsWords
<1>8. MsgLen' = MsgLen
  BY <1>1 DEF MsgLen
<1>9. i' = 1 \/ i' > MsgLen' \/ received'[i' - 1] = Blank \/ received'[i'] = Blank
  BY <1>1, <1>5, <1>8
<1>10. /\ PastWords' # <<>>
       /\ msgCommandToken' = Head(PastWords') /\ msgArgTokens' = Tail(PastWords')
       /\ \A n \in 2..Len(msgArgTokens') : received'[msgArgTokens'[n]] # ":"
  <2> DEFINE s == PastWords
             more == Append(s, Word)
  <2>1. /\ more # <<>>
        /\ s = <<>> => Head(more) = Word /\ Tail(more) = <<>>
        /\ s # <<>> => /\ Head(more) = Head(s) /\ Tail(more) = Append(Tail(s), Word)
                       /\ Tail(s) \in Seq(1..MsgLen)
    <3>1. s \in Seq(1..MsgLen) /\ Word \in 1..MsgLen
      BY <1>2, <1>3
    <3> HIDE DEF s, Word, MsgLen
    <3> QED
      BY <3>1, TailOfMore
  <2>2. CASE s = <<>>
    <3>1. msgCommandToken = 0 /\ msgArgTokens = <<>>
      BY <2>2 DEF TokensAreWords
    <3>2. msgCommandToken' = Word /\ msgArgTokens' = <<>>
      BY <1>1, <3>1
    <3>3. \A n \in 2..Len(msgArgTokens') : received'[msgArgTokens'[n]] # ":"
      BY <3>2
    <3> HIDE DEF s, more
    <3>4. PastWords' = more
      BY <1>5 DEF more, s
    <3> QED
      BY <2>1, <2>2, <3>2, <3>3, <3>4
  <2>3. CASE s # <<>>
    <3>1. msgCommandToken = Head(s) /\ msgArgTokens = Tail(s)
      BY <2>3 DEF TokensAreWords
    <3>2. msgCommandToken # 0
      <4>1. Head(s) = s[1] /\ 1 \in DOMAIN s /\ \A n \in DOMAIN s : s[n] \in 1..MsgLen
        BY <1>2, <2>3, ArgsAre
      <4> HIDE DEF s
      <4> QED
        BY <1>2, <3>1, <4>1
    <3>3. msgCommandToken' = msgCommandToken /\ msgArgTokens' = Append(msgArgTokens, Word)
      BY <1>1, <3>2
    <3>4. \A n \in 2..Len(msgArgTokens') : received'[msgArgTokens'[n]] # ":"
      <4> DEFINE args == msgArgTokens
      <4>1. /\ Append(args, Word) \in Seq(1..MsgLen) /\ Len(args) \in Nat
            /\ Append(args, Word)[Len(args) + 1] = Word
            /\ Len(Append(args, Word)) = Len(args) + 1
            /\ \A n \in 1..Len(args) : Append(args, Word)[n] = args[n]
        BY <1>3, <2>1, <2>3, <3>1
      <4>2. \A n \in 2..Len(args) : received[args[n]] # ":"
        BY DEF TokensAreWords
      <4>3. Len(args) + 1 >= 2 => received[Word] # ":"
        <5>1. Len(args) + 1 >= 2 => args # <<>>
          BY EmptySeq
        <5> QED
          BY <1>1, <1>3, <5>1 DEF StartsTrail
      <4> DEFINE L == Len(args)
      <4>4. L \in Nat
        BY <4>1
      <4> HIDE DEF L
      <4>5. \A n \in 2..L + 1 : (n \in 2..L /\ n \in 1..L) \/ (n = L + 1 /\ L + 1 >= 2)
        BY <4>4
      <4>6. \A n \in 2..L + 1 : received[Append(args, Word)[n]] # ":"
        BY <4>1, <4>2, <4>3, <4>5 DEF L
      <4> QED
        BY <1>1, <3>3, <4>1, <4>6 DEF L
    <3> HIDE DEF s, more
    <3>5. PastWords' = more
      BY <1>5 DEF more, s
    <3> QED
      BY <2>1, <2>3, <3>1, <3>3, <3>4, <3>5
  <2> QED
    BY <2>2, <2>3
<1> QED
  BY <1>1, <1>6, <1>7, <1>9, <1>10 DEF TokensAreWords, Intact

\* The blanks at the end hold no words.
LEMMA BlanksKeep ==
  ASSUME ParsingInv, TokensAreWords, OnlyBlanksLeft
  PROVE  TokensAreWords'
<1>1. /\ Parsing /\ Word > MsgLen /\ received' = received /\ Message' = BlanksCleared
      /\ i' = Word /\ bPrefixIgnored' = bPrefixIgnored
      /\ msgCommandToken' = msgCommandToken /\ msgArgTokens' = msgArgTokens
  BY DEF OnlyBlanksLeft
<1>2. /\ received \in Seq(Char) /\ MsgLen = Len(received) /\ MsgLen \in Nat
      /\ i \in 1..MsgLen /\ Word \in i..MsgLen + 1
  BY <1>1, PastWordsType, RoundStarts
<1>3. Word = MsgLen + 1
  <2> HIDE DEF Word, MsgLen
  <2> QED
    BY <1>1, <1>2
<1>4. MsgLen' = MsgLen
  BY <1>1 DEF MsgLen
<1>5. Past = i - 1 /\ Past' = MsgLen
  <2> HIDE DEF Word, MsgLen
  <2> QED
    BY <1>1, <1>2, <1>3, <1>4 DEF Past
<1>6. \A q \in i..MsgLen : received[q] = Blank
  <2>1. \A q \in i..Word - 1 : Message[q] \in {Blank}
    <3>1. i \in 1..MsgLen + 1
      BY <1>2
    <3> QED
      BY <1>2, <3>1, Searches DEF Word
  <2>2. \A q \in i..MsgLen : Message[q] = received[q]
    BY <1>1 DEF ParsingInv, Ahead, Parsing
  <2>3. \A q \in i..MsgLen : q \in i..Word - 1
    BY <1>2, <1>3
  <2> QED
    BY <2>1, <2>2, <2>3
<1>7. WordsBy(received)[MsgLen] = WordsBy(received)[Past]
  <2>1. /\ Past \in Nat /\ MsgLen \in Nat /\ Past <= MsgLen /\ MsgLen <= Len(received)
        /\ Past + 1 = i
    BY <1>2, <1>5
  <2>2. \A q \in Past + 1..MsgLen : ~StartsWord(received, q)
    BY <1>6, <2>1 DEF StartsWord
  <2> HIDE DEF MsgLen, Past
  <2> QED
    BY <1>2, <2>1, <2>2, WordsBetween
<1>8. WordsBy(received')[Past'] = WordsBy(received)[Past]
  BY <1>1, <1>5, <1>7
<1>9. PastWords' = PastWords
  BY <1>1, <1>8 DEF PastWords
<1>10. \A n \in DOMAIN PastWords' : IntactIn(received, Message', i', PastWords'[n])
  <2>1. i' \in Nat /\ i' >= i
    <3> HIDE DEF Word, MsgLen
    <3> QED
      BY <1>1, <1>2
  <2> QED
    BY <1>1, <1>9, <2>1, RoundKeepsWords
<1>11. i' > MsgLen'
  BY <1>1, <1>4
<1> QED
  BY <1>1, <1>8, <1>9, <1>10, <1>11 DEF TokensAreWords, Intact

\* What ParsedAsGrammar says is what ParsedIn says of the block.
LEMMA GrammarIs ==
  /\ ParsedAsGrammar <=>
       (parsed => ParsedIn(received, Message, msgCommandToken, msgArgTokens))
  /\ ParsedAsGrammar' <=>
       (parsed' => ParsedIn(received', Message', msgCommandToken', msgArgTokens'))
<1>1. ParsedAsGrammar <=>
        (parsed => ParsedIn(received, Message, msgCommandToken, msgArgTokens))
  BY DEF ParsedAsGrammar, ParsedIn, TokenText, FirstIn, TextAt, MsgLen
<1>2. ParsedAsGrammar' <=>
        (parsed' => ParsedIn(received', Message', msgCommandToken', msgArgTokens'))
  BY DEF ParsedAsGrammar, ParsedIn, TokenText, FirstIn, TextAt, MsgLen
<1> QED
  BY <1>1, <1>2

LEMMA GrammarInvNext ==
  ASSUME GrammarInv, [ParsingNext]_parsingVars
  PROVE  GrammarInv'
<1>1. ParsingInv /\ ParsingInv' /\ (parsed => ParsedAsGrammar) /\ (~parsed => TokensAreWords)
  BY ParsingInvNext DEF GrammarInv
<1>2. ASSUME ~parsed, TokensAreWords', parsed' = parsed
      PROVE  GrammarInv'
  BY <1>1, <1>2 DEF GrammarInv
<1>3. CASE IgnorePrefix
  <2>1. ~parsed /\ parsed' = parsed
    BY <1>3 DEF IgnorePrefix, Parsing
  <2> QED
    BY <1>1, <1>2, <1>3, <2>1, PrefixKeeps
<1>4. CASE NormalToken
  <2>1. ~parsed /\ parsed' = parsed
    BY <1>4 DEF NormalToken, Parsing
  <2> QED
    BY <1>1, <1>2, <1>4, <2>1, TokenKeeps
<1>5. CASE OnlyBlanksLeft
  <2>1. ~parsed /\ parsed' = parsed
    BY <1>5 DEF OnlyBlanksLeft, Parsing
  <2> QED
    BY <1>1, <1>2, <1>5, <2>1, BlanksKeep
<1>6. CASE TrailToken
  <2>1. ~parsed /\ parsed' /\ received' = received
    BY <1>6 DEF TrailToken, Parsing
  <2>2. ParsedIn(received, Message', msgCommandToken', msgArgTokens')
    BY <1>1, <1>6, <2>1, TrailParses
  <2>3. ParsedAsGrammar'
    BY <2>1, <2>2, GrammarIs
  <2> QED
    BY <1>1, <2>1, <2>3 DEF GrammarInv
<1>7. CASE EndOfMessage
  <2>1. /\ ~parsed /\ parsed' /\ i > MsgLen /\ received' = received /\ Message' = Message
        /\ msgCommandToken' = msgCommandToken /\ msgArgTokens' = msgArgTokens
    BY <1>7 DEF EndOfMessage
  <2>2. ParsedIn(received, Message, msgCommandToken, msgArgTokens)
    BY <1>1, <2>1, EndParses
  <2>3. ParsedAsGrammar'
    BY <2>1, <2>2, GrammarIs
  <2> QED
    BY <1>1, <2>1, <2>3 DEF GrammarInv
<1>8. CASE UNCHANGED parsingVars
  <2>1. /\ received' = received /\ Message' = Message /\ i' = i /\ parsed' = parsed
        /\ msgCommandToken' = msgCommandToken /\ msgArgTokens' = msgArgTokens
        /\ bPrefixIgnored' = bPrefixIgnored
    BY <1>8 DEF parsingVars
  <2>2. TokensAreWords' <=> TokensAreWords
    <3>1. Past' = Past
      BY <2>1 DEF Past, MsgLen
    <3>2. PastWords' = PastWords
      BY <2>1, <3>1 DEF PastWords
    <3> QED
      BY <2>1, <3>1, <3>2 DEF TokensAreWords, Intact, MsgLen
  <2>3. ParsedAsGrammar' <=> ParsedAsGrammar
    BY <2>1, GrammarIs
  <2> QED
    BY <1>1, <2>1, <2>2, <2>3 DEF GrammarInv
<1> QED
  BY <1>3, <1>4, <1>5, <1>6, <1>7, <1>8 DEF ParsingNext

\* Whatever blanks and colons a message of any length has, processClientMsg leaves the
\* command, the arguments and the trailing argument of the grammar in its block.
THEOREM ParsedAsGrammarHolds == ParsingSpec => []ParsedAsGrammar
<1>1. GrammarInv /\ [ParsingNext]_parsingVars => GrammarInv'
  BY GrammarInvNext
<1>2. GrammarInv => ParsedAsGrammar
  BY DEF GrammarInv, ParsedAsGrammar
<1> QED
  BY <1>1, <1>2, GrammarInvInit, PTL DEF ParsingSpec

-----------------------------------------------------------------------------
(***************************************************************************)
(* MODE with several letters.                                              *)
(***************************************************************************)

ChannelType ==
  [Operators : SUBSET {Self, Other}, bInviteOnly : BOOLEAN,
   bTopicProtected : BOOLEAN, Password : Argument \union {NoKey},
   bPrivate : BOOLEAN, MaxClients : {Number, NoLimit}]

\* A letter with a valid argument, or without one where none is needed, leaves a
\* channel a channel.
LEMMA ChangedType ==
  ASSUME bAddMode \in BOOLEAN,
         NEW ch \in ChannelType, NEW mode, Known(mode),
         NEW arg \in Argument \union {NoKey},
         TakesArgument(mode) => arg \in Argument /\ Valid(mode, arg)
  PROVE  Changed(ch, mode, arg) \in ChannelType
<1>1. CASE mode = "o"
  BY <1>1 DEF Changed, ChannelType, TakesArgument, Valid
<1>2. CASE mode = "i"
  BY <1>2 DEF Changed, ChannelType
<1>3. CASE mode = "t"
  BY <1>3 DEF Changed, ChannelType
<1>4. CASE mode = "k"
  BY <1>4 DEF Changed, ChannelType
<1>5. CASE mode = "l"
  BY <1>5 DEF Changed, ChannelType, TakesArgument, Valid
<1> QED
  BY <1>1, <1>2, <1>3, <1>4, <1>5 DEF Known

\* A letter as a command of its own leaves a channel a channel.
LEMMA SingleType ==
  ASSUME bAddMode \in BOOLEAN, arguments \in Seq(Argument),
         NEW ch \in ChannelType, NEW n
  PROVE  Single(ch, n) \in ChannelType
<1> DEFINE mode == modeStr[n]
           arg  == IF RankOf(n) \in DOMAIN arguments THEN arguments[RankOf(n)] ELSE NoKey
<1>1. arg \in Argument \union {NoKey}
  OBVIOUS
<1>2. RankOf(n) \in DOMAIN arguments => arg \in Argument
  OBVIOUS
<1>3. CASE ~Known(mode) \/ Self \notin ch.Operators
  BY <1>3 DEF Single
<1>4. CASE Known(mode) /\ Self \in ch.Operators /\ ~TakesArgument(mode)
  <2>1. Single(ch, n) = Changed(ch, mode, NoKey)
    BY <1>4, Zenon DEF Single
  <2>2. Changed(ch, mode, NoKey) \in ChannelType
    BY <1>4, ChangedType
  <2> QED
    BY <2>1, <2>2
<1>5. CASE Known(mode) /\ Self \in ch.Operators /\ TakesArgument(mode)
  <2>1. CASE RankOf(n) \in DOMAIN arguments /\ Valid(mode, arg)
    <3>1. Single(ch, n) = Changed(ch, mode, arg)
      BY <1>5, <2>1, Zenon DEF Single
    <3> HIDE DEF arg, mode
    <3>2. Changed(ch, mode, arg) \in ChannelType
      BY <1>1, <1>2, <1>5, <2>1, ChangedType
    <3> QED
      BY <3>1, <3>2
  <2>2. CASE ~(RankOf(n) \in DOMAIN arguments /\ Valid(mode, arg))
    <3>1. Single(ch, n) = ch
      BY <1>5, <2>2, Zenon DEF Single
    <3> QED
      BY <3>1
  <2> QED
    BY <2>1, <2>2
<1> QED
  BY <1>3, <1>4, <1>5

\* The recursive function AfterSingles exists: it is the letters carried out one by one.
LEMMA SinglesApply ==
  ASSUME bAddMode \in BOOLEAN, arguments \in Seq(Argument), modeStr \in Seq(Letters),
         before \in ChannelType
  PROVE  /\ AfterSingles[0] = before
         /\ \A n \in 1..Len(modeStr) : AfterSingles[n] = Single(AfterSingles[n - 1], n)
<1> DEFINE N == Len(modeStr)
           F == [x \in (1..N) \X ChannelType |-> Single(x[2], x[1])]
           Loop(g) == [n \in 0..N |-> IF n = 0 THEN before ELSE Single(g[n - 1], n)]
<1>1. N \in Nat
  OBVIOUS
<1>2. F \in [(1..N) \X ChannelType -> ChannelType]
  <2> HIDE DEF N
  <2>1. \A x \in (1..N) \X ChannelType : x[2] \in ChannelType
    OBVIOUS
  <2>2. \A x \in (1..N) \X ChannelType : Single(x[2], x[1]) \in ChannelType
    BY <2>1, SingleType
  <2> QED
    BY <2>2
<1>3. PICK f \in [0..N -> ChannelType] : Runs(f, N, before, F)
  <2> HIDE DEF F, N
  <2> QED
    BY <1>1, <1>2, LoopExists
<1>4. f = Loop(f)
  <2> HIDE DEF N
  <2>1. \A n \in 1..N : f[n] = Single(f[n - 1], n)
    <3> TAKE n \in 1..N
    <3>1. n - 1 \in 0..N
      BY <1>1
    <3>2. f[n - 1] \in ChannelType
      BY <3>1, <1>3
    <3>3. f[n] = F[n, f[n - 1]]
      BY <1>3 DEF Runs
    <3>4. <<n, f[n - 1]>> \in (1..N) \X ChannelType
      BY <3>2
    <3> QED
      BY <3>3, <3>4
  <2>2. f[0] = before
    BY <1>3 DEF Runs
  <2>3. \A n \in 0..N : n # 0 => n \in 1..N
    BY <1>1
  <2> QED
    BY <2>1, <2>2, <2>3
<1>5. AfterSingles = Loop(AfterSingles)
  BY <1>4, Zenon DEF AfterSingles
<1> HIDE DEF N
<1>6. AfterSingles[0] = before
  BY <1>1, <1>5
<1>7. \A n \in 1..N : AfterSingles[n] = Single(AfterSingles[n - 1], n)
  <2> TAKE n \in 1..N
  <2>1. n \in 0..N /\ n # 0
    BY <1>1
  <2> QED
    BY <1>5, <2>1
<1> QED
  BY <1>6, <1>7 DEF N

\* The rank counts the letters that take an argument.
LEMMA RankCounts ==
  ASSUME NEW n \in Nat
  PROVE  /\ RankOf(0) = 0
         /\ RankOf(n) \in 0..n
         /\ TakesArgument(modeStr[n + 1]) => RankOf(n + 1) = RankOf(n) + 1
         /\ ~TakesArgument(modeStr[n + 1]) => RankOf(n + 1) = RankOf(n)
<1> DEFINE Takers(k) == {m \in 1..k : TakesArgument(modeStr[m])}
<1>1. RankOf(0) = 0
  <2>1. Takers(0) = {}
    OBVIOUS
  <2> QED
    BY <2>1, FS_EmptySet DEF RankOf
<1>2. IsFiniteSet(1..n) /\ Cardinality(1..n) = n
  BY FS_Interval
<1>3. IsFiniteSet(Takers(n)) /\ Cardinality(Takers(n)) \in 0..n
  <2>1. Takers(n) \subseteq 1..n
    OBVIOUS
  <2> HIDE DEF Takers
  <2>2. IsFiniteSet(Takers(n)) /\ Cardinality(Takers(n)) <= n
    BY <1>2, <2>1, FS_Subset
  <2>3. Cardinality(Takers(n)) \in Nat
    BY <2>2, FS_CardinalityType
  <2> QED
    BY <2>2, <2>3
<1>4. ASSUME TakesArgument(modeStr[n + 1])
      PROVE  RankOf(n + 1) = RankOf(n) + 1
  <2>1. Takers(n + 1) = Takers(n) \union {n + 1} /\ n + 1 \notin Takers(n)
    BY <1>4
  <2> HIDE DEF Takers
  <2>2. Cardinality(Takers(n) \union {n + 1}) = Cardinality(Takers(n)) + 1
    BY <1>3, <2>1, FS_AddElement
  <2> QED
    BY <2>1, <2>2 DEF RankOf, Takers
<1>5. ASSUME ~TakesArgument(modeStr[n + 1])
      PROVE  RankOf(n + 1) = RankOf(n)
  <2>1. Takers(n + 1) = Takers(n)
    BY <1>5
  <2> QED
    BY <2>1 DEF RankOf
<1> QED
  BY <1>1, <1>3, <1>4, <1>5 DEF RankOf

-----------------------------------------------------------------------------
\* While the client is an operator, the argument that is next is the one behind the
\* arguments of the letters so far, or there are none left.
IndexIsRank ==
  modesStatus = "running" /\ IsOperator =>
    modeIndex = (IF RankOf(letter - 1) < Len(arguments)
                 THEN RankOf(letter - 1) ELSE Len(arguments)) + 1

ModesInv == ModesTypeOK /\ IndexIsRank /\ SequenceOfSingles

\* Before the first letter nothing is changed.
LEMMA ModesInvInit == ModesInit => ModesInv
<1> SUFFICES ASSUME ModesInit
             PROVE  ModesInv
  OBVIOUS
<1>1. /\ modeStr \in Seq(Letters) /\ arguments \in Seq(Argument)
      /\ Len(modeStr) \in Nat /\ Len(arguments) \in Nat
  BY BoundedSequences, CommandAssumption DEF ModesInit
<1>2. before \in ChannelType /\ before \in Channels /\ channel = before
  BY DEF ModesInit, Channels, ChannelType
<1>3. ModesTypeOK
  BY <1>1, <1>2 DEF ModesInit, ModesTypeOK, ChannelType
<1>4. IndexIsRank
  BY <1>1, RankCounts DEF ModesInit, IndexIsRank
<1>5. SequenceOfSingles
  <2>1. AfterSingles[0] = before
    BY <1>1, <1>2, SinglesApply DEF ModesInit
  <2> QED
    BY <2>1 DEF SequenceOfSingles, ModesInit
<1> QED
  BY <1>3, <1>4, <1>5 DEF ModesInv

\* What the steps have in common: the letter that is next, and its rank.
LEMMA ReadingLetter ==
  ASSUME ModesInv, Reading
  PROVE  /\ letter \in 1..Len(modeStr) /\ letter - 1 \in Nat /\ (letter - 1) + 1 = letter
         /\ (letter + 1) - 1 = letter /\ Len(modeStr) \in Nat /\ Len(arguments) \in Nat
         /\ DOMAIN arguments = 1..Len(arguments)
         /\ channel \in ChannelType
         /\ channel = AfterSingles[letter - 1]
         /\ AfterSingles[letter] = Single(channel, letter)
         /\ RankOf(letter - 1) \in Nat
         /\ TakesArgument(Mode) => RankOf(letter) = RankOf(letter - 1) + 1
         /\ ~TakesArgument(Mode) => RankOf(letter) = RankOf(letter - 1)
<1>1. /\ letter \in 1..Len(modeStr) /\ letter - 1 \in Nat /\ (letter - 1) + 1 = letter
      /\ (letter + 1) - 1 = letter /\ Len(modeStr) \in Nat /\ Len(arguments) \in Nat
      /\ DOMAIN arguments = 1..Len(arguments)
  BY DEF ModesInv, ModesTypeOK, Reading
<1>2. before \in ChannelType /\ channel \in ChannelType
  BY DEF ModesInv, ModesTypeOK, ChannelType, Channels
<1>3. channel = AfterSingles[letter - 1]
  BY DEF ModesInv, SequenceOfSingles, Reading
<1>4. AfterSingles[letter] = Single(AfterSingles[letter - 1], letter)
  BY <1>1, <1>2, SinglesApply DEF ModesInv, ModesTypeOK
<1>5. /\ RankOf(letter - 1) \in 0..letter - 1
      /\ TakesArgument(Mode) => RankOf(letter) = RankOf(letter - 1) + 1
      /\ ~TakesArgument(Mode) => RankOf(letter) = RankOf(letter - 1)
  BY <1>1, RankCounts DEF Mode
<1>6. RankOf(letter - 1) \in Nat
  BY <1>1, <1>5
<1> QED
  BY <1>1, <1>2, <1>3, <1>4, <1>5, <1>6

\* The history and the command do not change; neither do the ranks.
LEMMA SameCommand ==
  ASSUME UNCHANGED <<bAddMode, modeStr, before, arguments>>
  PROVE  /\ \A n : RankOf(n)' = RankOf(n)
         /\ AfterSingles' = AfterSingles
<1>1. \A m : TakesArgument(m)' <=> TakesArgument(m)
  BY DEF TakesArgument
<1>2. \A n : RankOf(n)' = RankOf(n)
  BY <1>1 DEF RankOf, TakesArgument
<1>3. AfterSingles' = AfterSingles
  BY DEF AfterSingles, Single, RankOf, TakesArgument, Changed, Valid, Known
<1> QED
  BY <1>2, <1>3

\* Each letter keeps the invariant, whether it is refused, a flag or uses an argument.
LEMMA ModesInvNext == ModesInv /\ [ModesNext]_modesVars => ModesInv'
<1> SUFFICES ASSUME ModesInv, [ModesNext]_modesVars
             PROVE  ModesInv'
  OBVIOUS
<1>1. CASE Refuse
  <2>1. Reading /\ UNCHANGED <<bAddMode, modeStr, before, arguments>>
    BY <1>1 DEF Refuse
  <2>2. letter' = letter + 1 /\ UNCHANGED <<channel, modeIndex, changesStr, modesStatus>>
    BY <1>1 DEF Refuse
  <2>3. ModesTypeOK'
    BY <2>1, <2>2, ReadingLetter DEF ModesInv, ModesTypeOK
  <2>4. IndexIsRank'
    <3>1. CASE Known(Mode) /\ IsOperator
      <4>1. TakesArgument(Mode) /\ ArgumentMissing
        BY <1>1, <3>1 DEF Refuse
      <4>2. modeIndex = (IF RankOf(letter - 1) < Len(arguments)
                         THEN RankOf(letter - 1) ELSE Len(arguments)) + 1
        BY <2>1, <3>1 DEF ModesInv, IndexIsRank, Reading
      <4>3. modeIndex > Len(arguments)
        BY <4>1, <2>1, ReadingLetter DEF ArgumentMissing, ModesInv, ModesTypeOK
      <4>4. modeIndex = (IF RankOf(letter) < Len(arguments)
                         THEN RankOf(letter) ELSE Len(arguments)) + 1
        BY <4>1, <4>2, <4>3, <2>1, ReadingLetter
      <4> QED
        BY <4>4, <2>1, <2>2, ReadingLetter, SameCommand DEF IndexIsRank
    <3>2. CASE IsOperator /\ ~Known(Mode)
      <4>1. ~TakesArgument(Mode)
        BY <3>2 DEF TakesArgument, Known
      <4> QED
        BY <4>1, <3>2, <2>1, <2>2, ReadingLetter, SameCommand DEF ModesInv, IndexIsRank, Reading
    <3>3. CASE ~IsOperator
      BY <3>3, <2>2 DEF IndexIsRank, IsOperator
    <3> QED
      BY <3>1, <3>2, <3>3
  <2>5. Single(channel, letter) = channel
    <3>1. CASE ~Known(Mode) \/ Self \notin channel.Operators
      BY <3>1, Zenon DEF Single, Mode
    <3>2. CASE Known(Mode) /\ Self \in channel.Operators
      <4>1. TakesArgument(Mode) /\ ArgumentMissing /\ IsOperator
        BY <1>1, <3>2 DEF Refuse, IsOperator
      <4>2. RankOf(letter) \notin DOMAIN arguments
        <5>1. modeIndex > Len(arguments)
          BY <4>1, <2>1, ReadingLetter DEF ArgumentMissing, ModesInv, ModesTypeOK
        <5>2. modeIndex = (IF RankOf(letter - 1) < Len(arguments)
                           THEN RankOf(letter - 1) ELSE Len(arguments)) + 1
          BY <2>1, <4>1 DEF ModesInv, IndexIsRank, Reading
        <5> QED
          BY <5>1, <5>2, <4>1, <2>1, ReadingLetter
      <4> QED
        BY <3>2, <4>1, <4>2, Zenon DEF Single, Mode
    <3> QED
      BY <3>1, <3>2
  <2>6. SequenceOfSingles'
    BY <2>1, <2>2, <2>5, ReadingLetter, SameCommand DEF SequenceOfSingles, Reading
  <2> QED
    BY <2>3, <2>4, <2>6 DEF ModesInv
<1>2. CASE ChangeFlag
  <2>1. /\ Reading /\ Known(Mode) /\ IsOperator /\ ~TakesArgument(Mode)
        /\ UNCHANGED <<bAddMode, modeStr, before, arguments>>
    BY <1>2 DEF ChangeFlag, Accepted
  <2>2. /\ letter' = letter + 1 /\ UNCHANGED <<modeIndex, modesStatus>>
        /\ channel' = Changed(channel, Mode, NoKey)
        /\ changesStr' = Append(changesStr, Mode)
    BY <1>2 DEF ChangeFlag
  <2>3. channel' \in ChannelType
    BY <2>1, <2>2, ReadingLetter, ChangedType DEF ModesInv, ModesTypeOK
  <2>4. changesStr' \in Seq(Letters) /\ Len(changesStr') = Len(changesStr) + 1
        /\ Len(changesStr) \in Nat
    <3>1. Mode \in Letters /\ changesStr \in Seq(Letters)
      BY <2>1, ReadingLetter DEF ModesInv, ModesTypeOK, Mode
    <3> QED
      BY <2>2, <3>1
  <2>5. ModesTypeOK'
    <3>1. letter' \in 1..Len(modeStr) + 1 /\ Len(changesStr') < letter'
      BY <2>1, <2>2, <2>4, ReadingLetter DEF ModesInv, ModesTypeOK
    <3>2. modeIndex' \in 1..letter'
      BY <2>1, <2>2, ReadingLetter DEF ModesInv, ModesTypeOK
    <3> QED
      BY <2>1, <2>2, <2>3, <2>4, <3>1, <3>2 DEF ModesInv, ModesTypeOK, ChannelType
  <2>6. IndexIsRank'
    BY <2>1, <2>2, ReadingLetter, SameCommand DEF ModesInv, IndexIsRank, Reading
  <2>7. Single(channel, letter) = Changed(channel, Mode, NoKey)
    BY <2>1, Zenon DEF Single, Mode, IsOperator
  <2>8. SequenceOfSingles'
    BY <2>1, <2>2, <2>7, ReadingLetter, SameCommand DEF SequenceOfSingles, Reading
  <2> QED
    BY <2>5, <2>6, <2>8 DEF ModesInv
<1>3. CASE TakeArgument
  <2> DEFINE arg == arguments[modeIndex]
  <2>1. /\ Reading /\ Known(Mode) /\ IsOperator /\ TakesArgument(Mode)
        /\ modeIndex <= Len(arguments)
        /\ UNCHANGED <<bAddMode, modeStr, before, arguments>>
    BY <1>3 DEF TakeArgument, HasArgument, Accepted
  <2>2. /\ letter' = letter + 1 /\ modeIndex' = modeIndex + 1 /\ UNCHANGED modesStatus
        /\ Valid(Mode, arg) => /\ channel' = Changed(channel, Mode, arg)
                               /\ changesStr' = Append(changesStr, Mode)
        /\ ~Valid(Mode, arg) => UNCHANGED <<channel, changesStr>>
    BY <1>3 DEF TakeArgument
  <2>3. /\ modeIndex = RankOf(letter) /\ modeIndex \in DOMAIN arguments
        /\ RankOf(letter - 1) < Len(arguments) /\ arg \in Argument
    <3>1. modeIndex = (IF RankOf(letter - 1) < Len(arguments)
                       THEN RankOf(letter - 1) ELSE Len(arguments)) + 1
      BY <2>1 DEF ModesInv, IndexIsRank, Reading
    <3>2. modeIndex = RankOf(letter) /\ modeIndex \in DOMAIN arguments
          /\ RankOf(letter - 1) < Len(arguments)
      BY <3>1, <2>1, ReadingLetter
    <3> QED
      BY <3>2 DEF ModesInv, ModesTypeOK
  <2> HIDE DEF arg
  <2>4. channel' \in ChannelType
    BY <2>1, <2>2, <2>3, ReadingLetter, ChangedType DEF ModesInv, ModesTypeOK
  <2>5. changesStr' \in Seq(Letters) /\ Len(changesStr') <= Len(changesStr) + 1
        /\ Len(changesStr') \in Nat
    <3>1. Mode \in Letters /\ changesStr \in Seq(Letters)
      BY <2>1, ReadingLetter DEF ModesInv, ModesTypeOK, Mode
    <3> QED
      BY <2>2, <3>1
  <2>6. ModesTypeOK'
    BY <2>1, <2>2, <2>4, <2>5, ReadingLetter DEF ModesInv, ModesTypeOK, ChannelType
  <2>7. IndexIsRank'
    <3>1. modeIndex' = (IF RankOf(letter) < Len(arguments)
                        THEN RankOf(letter) ELSE Len(arguments)) + 1
      <4>1. /\ RankOf(letter) = RankOf(letter - 1) + 1 /\ RankOf(letter - 1) \in Nat
            /\ Len(arguments) \in Nat
        BY <2>1, ReadingLetter
      <4>2. RankOf(letter) <= Len(arguments) /\ RankOf(letter) \in Nat
        BY <4>1, <2>3
      <4>3. modeIndex' = RankOf(letter) + 1
        BY <2>2, <2>3
      <4> QED
        BY <4>1, <4>2, <4>3
    <3>2. (letter' - 1) = letter
      BY <2>1, <2>2, ReadingLetter
    <3> QED
      BY <2>1, <3>1, <3>2, SameCommand DEF IndexIsRank
  <2>8. Single(channel, letter) = channel'
    <3>1. Self \in channel.Operators
      BY <2>1 DEF IsOperator
    <3>2. CASE Valid(Mode, arg)
      BY <3>1, <3>2, <2>1, <2>2, <2>3, Zenon DEF Single, Mode, arg
    <3>3. CASE ~Valid(Mode, arg)
      BY <3>1, <3>3, <2>1, <2>2, <2>3, Zenon DEF Single, Mode, arg
    <3> QED
      BY <3>2, <3>3
  <2>9. SequenceOfSingles'
    BY <2>1, <2>2, <2>8, ReadingLetter, SameCommand DEF SequenceOfSingles, Reading
  <2> QED
    BY <2>6, <2>7, <2>9 DEF ModesInv
<1>4. CASE AccessBehindEnd
  <2>1. /\ Reading /\ Known(Mode) /\ IsOperator /\ TakesArgument(Mode) /\ ~ArgumentMissing
        /\ modeIndex > Len(arguments)
        /\ UNCHANGED <<bAddMode, modeStr, before, arguments>>
    BY <1>4 DEF AccessBehindEnd, Accepted
  <2>2. modesStatus' = "undefined" /\ UNCHANGED <<channel, letter, modeIndex, changesStr>>
    BY <1>4 DEF AccessBehindEnd
  <2>3. ModesTypeOK' /\ IndexIsRank'
    BY <2>1, <2>2 DEF ModesInv, ModesTypeOK, IndexIsRank
  <2>4. Mode = "o" /\ arguments # <<>>
    BY <2>1 DEF ArgumentMissing
  <2>5. Len(arguments) \in 1..RankOf(letter) - 1
    <3>1. modeIndex = (IF RankOf(letter - 1) < Len(arguments)
                       THEN RankOf(letter - 1) ELSE Len(arguments)) + 1
      BY <2>1 DEF ModesInv, IndexIsRank, Reading
    <3>2. RankOf(letter - 1) >= Len(arguments) /\ RankOf(letter) = RankOf(letter - 1) + 1
      BY <3>1, <2>1, ReadingLetter
    <3>3. Len(arguments) # 0
      BY <2>4 DEF ModesInv, ModesTypeOK
    <3> QED
      BY <3>2, <3>3, <2>1, ReadingLetter
  <2>6. SequenceOfSingles'
    BY <2>1, <2>2, <2>4, <2>5, SameCommand DEF SequenceOfSingles, Mode
  <2> QED
    BY <2>3, <2>6 DEF ModesInv
<1>5. CASE UNCHANGED modesVars
  <2>1. UNCHANGED <<bAddMode, modeStr, before, arguments>>
    BY <1>5 DEF modesVars
  <2> QED
    BY <1>5, <2>1, SameCommand
    DEF modesVars, ModesInv, ModesTypeOK, IndexIsRank, SequenceOfSingles, IsOperator, Mode
<1> QED
  BY <1>1, <1>2, <1>3, <1>4, <1>5 DEF ModesNext

\* executeClientCommand_MODE leaves the settings of a channel well-typed for any letters
\* and arguments, and no letter uses more than one argument.
THEOREM ModesTypeCorrect == ModesSpec => []ModesTypeOK
<1>1. ModesInv => ModesTypeOK
  BY DEF ModesInv
<1> QED
  BY <1>1, ModesInvInit, ModesInvNext, PTL DEF ModesSpec

\* For any letters and arguments a MODE command has the effect of its letters carried out
\* as commands of their own, until "o" reads behind the arguments.
THEOREM SequenceOfSinglesHolds == ModesSpec => []SequenceOfSingles
<1>1. ModesInv => SequenceOfSingles
  BY DEF ModesInv
<1> QED
  BY <1>1, ModesInvInit, ModesInvNext, PTL DEF ModesSpec

-----------------------------------------------------------------------------
(***************************************************************************)
(* Sending.  A stream is a sequence of bytes.                              *)
(***************************************************************************)

\* Flattening is the loop that appends one block after the other.
Flattening(s, f) ==
  /\ f \in [0..Len(s) -> Stream]
  /\ f[0] = <<>>
  /\ \A n \in 1..Len(s) : f[n] = f[n - 1] \o s[n]
  /\ FlattenSeq(s) = f[Len(s)]

\* Appending to a stream.
LEMMA Concat ==
  ASSUME NEW s \in Stream, NEW t \in Stream
  PROVE  s \o t \in Stream /\ Len(s \o t) = Len(s) + Len(t) /\ Len(s) \in Nat
         /\ Len(t) \in Nat
BY DEF Stream

\* Streams can be appended in either order.
LEMMA ConcatThree ==
  ASSUME NEW s \in Stream, NEW t \in Stream, NEW u \in Stream
  PROVE  (s \o t) \o u = s \o (t \o u)
BY ConcatAssociative DEF Stream

\* The recursive function of FlattenSeq exists.
LEMMA Flattens ==
  ASSUME NEW s \in Seq(Stream)
  PROVE  \E f : Flattening(s, f)
<1> DEFINE N == Len(s)
           F == [x \in (1..N) \X Stream |-> x[2] \o s[x[1]]]
           Loop(g) == [n \in 1..N |-> IF n = 1 THEN s[n] ELSE g[n - 1] \o s[n]]
           flatten == CHOOSE g : g = Loop(g)
<1>1. N \in Nat /\ <<>> \in Stream /\ \A n \in 1..N : s[n] \in Stream
  BY DEF Stream
<1>2. F \in [(1..N) \X Stream -> Stream]
  <2> HIDE DEF N
  <2>1. \A x \in (1..N) \X Stream : x[2] \in Stream /\ s[x[1]] \in Stream
    BY <1>1
  <2>2. \A x \in (1..N) \X Stream : x[2] \o s[x[1]] \in Stream
    BY <2>1, Concat
  <2> QED
    BY <2>2
<1>3. PICK f \in [0..N -> Stream] : Runs(f, N, <<>>, F)
  <2> HIDE DEF F, N
  <2> QED
    BY <1>1, <1>2, LoopExists
<1>4. f[0] = <<>> /\ \A n \in 1..N : f[n] = f[n - 1] \o s[n]
  <2> HIDE DEF N
  <2>1. f[0] = <<>>
    BY <1>3 DEF Runs
  <2>2. ASSUME NEW n \in 1..N
        PROVE  f[n] = f[n - 1] \o s[n]
    <3>1. n - 1 \in 0..N
      BY <1>1
    <3>2. f[n - 1] \in Stream
      BY <3>1, <1>3
    <3>3. f[n] = F[n, f[n - 1]]
      BY <1>3 DEF Runs
    <3>4. <<n, f[n - 1]>> \in (1..N) \X Stream
      BY <3>2
    <3> QED
      BY <3>3, <3>4
  <2> QED
    BY <2>1, <2>2
<1>5. FlattenSeq(s) = f[N]
  <2>1. CASE N = 0
    BY <2>1, <1>1, <1>4 DEF FlattenSeq
  <2>2. CASE N # 0
    <3> DEFINE g == [n \in 1..N |-> f[n]]
    <3>1. \A n \in 1..N : n - 1 \in 0..N /\ (n # 1 => n - 1 \in 1..N) /\ n \in 0..N
      BY <1>1
    <3>2. 1 \in 1..N /\ 1 - 1 = 0 /\ N \in 1..N
      BY <1>1, <2>2
    <3> HIDE DEF N
    <3>3. f[1] = s[1]
      <4>1. f[1] = <<>> \o s[1] /\ s[1] \in Stream
        BY <1>1, <1>4, <3>2
      <4> QED
        BY <4>1, ConcatEmptySeq DEF Stream
    <3>4. g = Loop(g)
      <4>1. \A n \in 1..N : g[n] = IF n = 1 THEN s[n] ELSE g[n - 1] \o s[n]
        BY <1>4, <3>1, <3>3
      <4> QED
        BY <4>1
    <3> HIDE DEF g
    <3>5. flatten = Loop(flatten)
      BY <3>4, Zenon
    <3>6. \A n \in 1..N : flatten[n] = IF n = 1 THEN s[n] ELSE flatten[n - 1] \o s[n]
      BY <3>5
    <3>7. FlattenSeq(s) = flatten[N]
      BY <2>2, Zenon DEF FlattenSeq, N
    <3> HIDE DEF flatten
    <3>8. 0..N \subseteq {n \in 0..N : n = 0 \/ flatten[n] = f[n]}
      <4> DEFINE T == {n \in 0..N : n = 0 \/ flatten[n] = f[n]}
      <4>1. 0 \in T
        BY <1>1
      <4>2. ASSUME NEW n \in 0..N - 1, n \in T
            PROVE  n + 1 \in T
        <5>1. n + 1 \in 1..N /\ n + 1 \in 0..N /\ (n + 1) - 1 = n
              /\ (n = 0 <=> n + 1 = 1)
          BY <1>1
        <5>2. flatten[n + 1] = IF n + 1 = 1 THEN s[n + 1] ELSE flatten[n] \o s[n + 1]
          BY <5>1, <3>6
        <5>3. f[n + 1] = f[n] \o s[n + 1]
          BY <5>1, <1>4
        <5> QED
          BY <4>2, <5>1, <5>2, <5>3, <3>3
      <4> HIDE DEF T
      <4>3. 0..N \subseteq T
        BY <1>1, <4>1, <4>2, InductionUpTo
      <4> QED
        BY <4>3 DEF T
    <3> QED
      BY <2>2, <3>1, <3>2, <3>7, <3>8
  <2> QED
    BY <2>1, <2>2
<1> QED
  BY <1>3, <1>4, <1>5 DEF Flattening

\* Flattening blocks gives a stream.
LEMMA FlattenType ==
  ASSUME NEW s \in Seq(Stream)
  PROVE  FlattenSeq(s) \in Stream
<1>1. PICK f : Flattening(s, f)
  BY Flattens
<1>2. Len(s) \in 0..Len(s)
  OBVIOUS
<1> QED
  BY <1>1, <1>2 DEF Flattening

\* No blocks, no bytes.
LEMMA FlattenEmpty == FlattenSeq(<<>>) = <<>>
BY DEF FlattenSeq

\* A block more in a queue is a block more to send.
LEMMA FlattenAppend ==
  ASSUME NEW s \in Seq(Stream), NEW x \in Stream
  PROVE  FlattenSeq(Append(s, x)) = FlattenSeq(s) \o x
<1> DEFINE N == Len(s)
           t == Append(s, x)
<1>1. /\ N \in Nat /\ t \in Seq(Stream) /\ Len(t) = N + 1 /\ t[N + 1] = x
      /\ \A n \in 1..N : t[n] = s[n]
  OBVIOUS
<1>2. PICK f : Flattening(s, f)
  BY Flattens
<1> HIDE DEF t
<1>3. PICK g : Flattening(t, g)
  BY <1>1, Flattens
<1>4. 0..N \subseteq {n \in 0..N : f[n] = g[n]}
  <2> DEFINE T == {n \in 0..N : f[n] = g[n]}
  <2>1. 0 \in T
    BY <1>1, <1>2, <1>3 DEF Flattening
  <2>2. ASSUME NEW n \in 0..N - 1, n \in T
        PROVE  n + 1 \in T
    <3>1. n + 1 \in 1..N /\ n + 1 \in 1..N + 1 /\ n + 1 \in 0..N /\ (n + 1) - 1 = n
      BY <1>1
    <3>2. f[n + 1] = f[n] \o s[n + 1]
      BY <1>2, <3>1 DEF Flattening
    <3>3. g[n + 1] = g[n] \o t[n + 1]
      BY <1>1, <1>3, <3>1 DEF Flattening
    <3> QED
      BY <1>1, <2>2, <3>1, <3>2, <3>3
  <2> HIDE DEF T, N
  <2>3. 0..N \subseteq T
    BY <1>1, <2>1, <2>2, InductionUpTo
  <2> QED
    BY <2>3 DEF T
<1>5. f[N] = g[N] /\ N + 1 \in 1..N + 1 /\ (N + 1) - 1 = N
  BY <1>1, <1>4
<1>6. g[N + 1] = g[N] \o x
  BY <1>1, <1>3, <1>5 DEF Flattening
<1> QED
  BY <1>1, <1>2, <1>3, <1>5, <1>6 DEF Flattening, t

\* The first block of a queue is the first to be sent.
LEMMA FlattenHead ==
  ASSUME NEW s \in Seq(Stream), s # <<>>
  PROVE  FlattenSeq(s) = Head(s) \o FlattenSeq(Tail(s))
<1> DEFINE N == Len(s) - 1
           t == Tail(s)
           h == Head(s)
<1>1. /\ N \in Nat /\ Len(s) = N + 1 /\ t \in Seq(Stream) /\ Len(t) = N
      /\ h = s[1] /\ h \in Stream
      /\ \A n \in 1..N : t[n] = s[n + 1] /\ t[n] \in Stream
  OBVIOUS
<1>2. PICK f : Flattening(s, f)
  BY Flattens
<1> HIDE DEF t, h, N
<1>3. PICK g : Flattening(t, g)
  BY <1>1, Flattens
<1>4. 0..N \subseteq {n \in 0..N : f[n + 1] = h \o g[n]}
  <2> DEFINE T == {n \in 0..N : f[n + 1] = h \o g[n]}
  <2>1. 0 \in T
    <3>1. f[1] = f[0] \o s[1] /\ f[0] = <<>> /\ g[0] = <<>>
      <4>1. 1 \in 1..Len(s) /\ 1 - 1 = 0
        BY <1>1
      <4> QED
        BY <1>2, <1>3, <4>1 DEF Flattening
    <3>2. <<>> \o h = h \o <<>>
      BY <1>1, ConcatEmptySeq DEF Stream
    <3>3. 0 + 1 = 1 /\ 0 \in 0..N
      BY <1>1
    <3> QED
      BY <1>1, <3>1, <3>2, <3>3
  <2>2. ASSUME NEW n \in 0..N - 1, n \in T
        PROVE  n + 1 \in T
    <3>1. /\ n + 1 \in 1..N /\ n + 1 \in 0..N /\ (n + 1) - 1 = n /\ n \in 0..N
          /\ (n + 1) + 1 \in 1..N + 1 /\ ((n + 1) + 1) - 1 = n + 1
      BY <1>1
    <3>2. f[(n + 1) + 1] = f[n + 1] \o s[(n + 1) + 1]
      BY <1>1, <1>2, <3>1 DEF Flattening
    <3>3. g[n + 1] = g[n] \o t[n + 1] /\ g[n] \in Stream
      BY <1>1, <1>3, <3>1 DEF Flattening
    <3>4. s[(n + 1) + 1] = t[n + 1] /\ t[n + 1] \in Stream
      BY <1>1, <3>1
    <3>5. (h \o g[n]) \o t[n + 1] = h \o (g[n] \o t[n + 1])
      <4>1. h \in Stream /\ g[n] \in Stream /\ t[n + 1] \in Stream
        BY <1>1, <3>3, <3>4
      <4> QED
        BY <4>1, ConcatThree
    <3> QED
      BY <2>2, <3>1, <3>2, <3>3, <3>4, <3>5
  <2> HIDE DEF T
  <2>3. 0..N \subseteq T
    BY <1>1, <2>1, <2>2, InductionUpTo
  <2> QED
    BY <2>3 DEF T
<1>5. f[N + 1] = h \o g[N]
  <2>1. N \in 0..N
    BY <1>1
  <2> QED
    BY <1>4, <2>1
<1> QED
  BY <1>1, <1>2, <1>3, <1>5 DEF Flattening, t, h

\* What is behind position k of a stream when another one is appended to it.
LEMMA SuffixOfConcat ==
  ASSUME NEW a \in Stream, NEW b \in Stream, NEW k \in 0..Len(a)
  PROVE  SubSeq(a \o b, k + 1, Len(a \o b)) = SubSeq(a, k + 1, Len(a)) \o b
<1> DEFINE m == Len(a)
           n == Len(b)
           l == SubSeq(a \o b, k + 1, m + n)
           u == SubSeq(a, k + 1, m)
<1>1. /\ m \in Nat /\ n \in Nat /\ k \in Nat /\ k <= m
      /\ a \o b \in Stream /\ Len(a \o b) = m + n
      /\ \A j \in 1..m + n : (a \o b)[j] = IF j <= m THEN a[j] ELSE b[j - m]
  BY ConcatProperties DEF Stream
<1>2. /\ u \in Stream /\ Len(u) = m - k
      /\ \A j \in 1..m - k : u[j] = a[k + j]
  BY <1>1 DEF Stream
<1>3. /\ l \in Stream /\ Len(l) = m + n - k
      /\ \A j \in 1..m + n - k : l[j] = (a \o b)[k + j]
  <2> DEFINE s == a \o b
  <2>1. s \in Stream /\ Len(s) = m + n
    BY <1>1
  <2>2. k + 1 \in Int /\ m + n \in Int /\ \A j \in k + 1..m + n : j \in 1..m + n
    BY <1>1
  <2>3. \A j \in 1..m + n : s[j] \in Byte
    BY <2>1 DEF Stream
  <2> HIDE DEF s, m, n
  <2>4. /\ SubSeq(s, k + 1, m + n) \in Stream
        /\ Len(SubSeq(s, k + 1, m + n)) =
             IF k + 1 <= m + n THEN (m + n) - (k + 1) + 1 ELSE 0
        /\ \A j \in 1..(m + n) - (k + 1) + 1 :
             SubSeq(s, k + 1, m + n)[j] = s[(k + 1) + j - 1]
    BY <2>2, <2>3, SubSeqProperties DEF Stream
  <2>5. /\ (m + n) - (k + 1) + 1 = m + n - k
        /\ ~(k + 1 <= m + n) => m + n - k = 0
        /\ \A j \in 1..m + n - k : (k + 1) + j - 1 = k + j
    BY <1>1
  <2> QED
    BY <2>4, <2>5 DEF l, s
<1> HIDE DEF l, u
<1>4. /\ u \o b \in Stream /\ Len(u \o b) = m + n - k
      /\ \A j \in 1..m + n - k : (u \o b)[j] = IF j <= m - k THEN u[j] ELSE b[j - (m - k)]
  <2>1. /\ u \o b \in Stream /\ Len(u \o b) = Len(u) + Len(b)
        /\ \A j \in 1..Len(u) + Len(b) :
             (u \o b)[j] = IF j <= Len(u) THEN u[j] ELSE b[j - Len(u)]
    BY <1>2, ConcatProperties DEF Stream
  <2>2. Len(u) = m - k /\ Len(b) = n /\ Len(u) + Len(b) = m + n - k
    <3> HIDE DEF m
    <3> QED
      BY <1>1, <1>2
  <2> HIDE DEF m, n
  <2> QED
    BY <2>1, <2>2
<1> HIDE DEF m, n
<1>5. ASSUME NEW j \in 1..m + n - k
      PROVE  l[j] = (u \o b)[j]
  <2>1. k + j \in 1..m + n /\ (k + j <= m <=> j <= m - k) /\ (k + j) - m = j - (m - k)
        /\ (j <= m - k => j \in 1..m - k)
    BY <1>1
  <2> QED
    BY <1>1, <1>2, <1>3, <1>4, <2>1
<1>6. l = u \o b
  BY <1>3, <1>4, <1>5, SeqEqual DEF Stream
<1> QED
  BY <1>1, <1>6 DEF l, u, m, n

-----------------------------------------------------------------------------
\* The blocks a queue holds, and the bytes of them behind the cursor.
Blocks(msgs, q)    == [j \in DOMAIN q |-> msgs[q[j]]]
Rest(msgs, q, cur) == LET all == FlattenSeq(Blocks(msgs, q)) IN SubSeq(all, cur + 1, Len(all))

\* The blocks of a queue are the blocks its entries name.
LEMMA BlocksType ==
  ASSUME NEW msgs \in Seq(Stream), NEW q \in Seq(DOMAIN msgs)
  PROVE  /\ Blocks(msgs, q) \in Seq(Stream) /\ Len(Blocks(msgs, q)) = Len(q)
         /\ \A j \in 1..Len(q) : Blocks(msgs, q)[j] = msgs[q[j]]
<1>1. /\ Len(q) \in Nat /\ DOMAIN q = 1..Len(q)
      /\ \A j \in 1..Len(q) : q[j] \in DOMAIN msgs /\ msgs[q[j]] \in Stream
  OBVIOUS
<1>2. Blocks(msgs, q) \in [1..Len(q) -> Stream]
  BY <1>1 DEF Blocks
<1>3. Blocks(msgs, q) \in Seq(Stream) /\ Len(Blocks(msgs, q)) = Len(q)
  BY <1>1, <1>2
<1> QED
  BY <1>1, <1>3 DEF Blocks

\* An empty queue has nothing to send.
LEMMA RestEmpty == \A msgs : Rest(msgs, <<>>, 0) = <<>>
<1> SUFFICES ASSUME NEW msgs PROVE Rest(msgs, <<>>, 0) = <<>>
  OBVIOUS
<1>1. Blocks(msgs, <<>>) = <<>>
  BY DEF Blocks
<1>2. FlattenSeq(Blocks(msgs, <<>>)) = <<>>
  BY <1>1, FlattenEmpty
<1> QED
  BY <1>2, SubSeqEmpty DEF Rest

\* Blocks that the queue does not hold do not matter.
LEMMA RestSame ==
  ASSUME NEW msgs \in Seq(Stream), NEW others \in Seq(Stream), NEW q \in Seq(DOMAIN msgs),
         DOMAIN msgs \subseteq DOMAIN others, \A j \in DOMAIN msgs : msgs[j] = others[j],
         NEW cur
  PROVE  Rest(msgs, q, cur) = Rest(others, q, cur)
<1>1. \A j \in DOMAIN q : q[j] \in DOMAIN msgs
  OBVIOUS
<1>2. Blocks(msgs, q) = Blocks(others, q)
  BY <1>1 DEF Blocks
<1> QED
  BY <1>2 DEF Rest

\* A block that is queued is sent after the others.
LEMMA RestAppend ==
  ASSUME NEW msgs \in Seq(Stream), NEW q \in Seq(DOMAIN msgs), NEW m \in DOMAIN msgs,
         NEW cur \in Nat, cur <= Len(FlattenSeq(Blocks(msgs, q)))
  PROVE  Rest(msgs, Append(q, m), cur) = Rest(msgs, q, cur) \o msgs[m]
<1>1. Blocks(msgs, q) \in Seq(Stream) /\ msgs[m] \in Stream
  BY BlocksType
<1>2. Blocks(msgs, Append(q, m)) = Append(Blocks(msgs, q), msgs[m])
  <2>1. /\ Append(q, m) \in Seq(DOMAIN msgs) /\ Len(Append(q, m)) = Len(q) + 1
        /\ Append(q, m)[Len(q) + 1] = m /\ Len(q) \in Nat
        /\ \A j \in 1..Len(q) : Append(q, m)[j] = q[j]
    OBVIOUS
  <2>2. /\ Blocks(msgs, Append(q, m)) \in Seq(Stream)
        /\ Len(Blocks(msgs, Append(q, m))) = Len(q) + 1
        /\ \A j \in 1..Len(q) + 1 : Blocks(msgs, Append(q, m))[j] = msgs[Append(q, m)[j]]
    <3> DEFINE p == Append(q, m)
    <3>1. p \in Seq(DOMAIN msgs) /\ Len(p) = Len(q) + 1
      BY <2>1
    <3> HIDE DEF p
    <3>2. Blocks(msgs, p) \in Seq(Stream) /\ Len(Blocks(msgs, p)) = Len(p)
          /\ \A j \in 1..Len(p) : Blocks(msgs, p)[j] = msgs[p[j]]
      BY <3>1, BlocksType
    <3> QED
      BY <3>1, <3>2 DEF p
  <2>3. /\ Len(Blocks(msgs, q)) = Len(q)
        /\ \A j \in 1..Len(q) : Blocks(msgs, q)[j] = msgs[q[j]]
    BY BlocksType
  <2>4. /\ Append(Blocks(msgs, q), msgs[m]) \in Seq(Stream)
        /\ Len(Append(Blocks(msgs, q), msgs[m])) = Len(q) + 1
        /\ Append(Blocks(msgs, q), msgs[m])[Len(q) + 1] = msgs[m]
        /\ \A j \in 1..Len(q) : Append(Blocks(msgs, q), msgs[m])[j] = Blocks(msgs, q)[j]
    BY <1>1, <2>3, AppendProperties
  <2>5. \A j \in 1..Len(q) + 1 : j = Len(q) + 1 \/ j \in 1..Len(q)
    BY <2>1
  <2>6. \A j \in 1..Len(q) + 1 :
          Blocks(msgs, Append(q, m))[j] = Append(Blocks(msgs, q), msgs[m])[j]
    BY <2>1, <2>2, <2>3, <2>4, <2>5
  <2> QED
    BY <2>2, <2>4, <2>6, SeqEqual
<1> DEFINE all == FlattenSeq(Blocks(msgs, q))
<1>3. FlattenSeq(Blocks(msgs, Append(q, m))) = all \o msgs[m]
  BY <1>1, <1>2, FlattenAppend
<1>4. all \in Stream /\ cur \in 0..Len(all)
  <2>1. all \in Stream
    BY <1>1, FlattenType
  <2>2. Len(all) \in Nat
    BY <2>1 DEF Stream
  <2> QED
    BY <2>1, <2>2
<1> HIDE DEF all
<1>5. SubSeq(all \o msgs[m], cur + 1, Len(all \o msgs[m]))
        = SubSeq(all, cur + 1, Len(all)) \o msgs[m]
  BY <1>1, <1>4, SuffixOfConcat
<1> QED
  BY <1>3, <1>5 DEF Rest, all

\* The first block of a queue: what is behind the cursor is sent in parts, and then comes
\* what the rest of the queue holds.
LEMMA RestOfFirst ==
  ASSUME NEW msgs \in Seq(Stream), NEW q \in Seq(DOMAIN msgs), q # <<>>,
         NEW cur \in 0..Len(msgs[Head(q)])
  PROVE  LET block == msgs[Head(q)]
         IN  /\ block \in Stream
             /\ Tail(q) \in Seq(DOMAIN msgs)
             /\ FlattenSeq(Blocks(msgs, Tail(q))) \in Stream
             /\ Rest(msgs, q, cur)
                  = SubSeq(block, cur + 1, Len(block)) \o FlattenSeq(Blocks(msgs, Tail(q)))
             /\ cur <= Len(FlattenSeq(Blocks(msgs, q)))
<1> DEFINE block == msgs[Head(q)]
           tail  == FlattenSeq(Blocks(msgs, Tail(q)))
<1>1. /\ Tail(q) \in Seq(DOMAIN msgs) /\ Len(Tail(q)) = Len(q) - 1
      /\ Head(q) = q[1] /\ Head(q) \in DOMAIN msgs /\ Len(q) \in Nat /\ Len(q) > 0
      /\ \A j \in 1..Len(q) - 1 : Tail(q)[j] = q[j + 1]
  OBVIOUS
<1>2. /\ Blocks(msgs, q) \in Seq(Stream) /\ Len(Blocks(msgs, q)) = Len(q)
      /\ \A j \in 1..Len(q) : Blocks(msgs, q)[j] = msgs[q[j]]
  BY BlocksType
<1>3. /\ Blocks(msgs, Tail(q)) \in Seq(Stream) /\ Len(Blocks(msgs, Tail(q))) = Len(q) - 1
      /\ \A j \in 1..Len(q) - 1 : Blocks(msgs, Tail(q))[j] = msgs[Tail(q)[j]]
  BY <1>1, BlocksType
<1>4. Blocks(msgs, q) # <<>>
  BY <1>1, <1>2
<1>5. Head(Blocks(msgs, q)) = block /\ block \in Stream
  <2>1. 1 \in 1..Len(q)
    BY <1>1
  <2> QED
    BY <1>1, <1>2, <1>4, <2>1
<1>6. Tail(Blocks(msgs, q)) = Blocks(msgs, Tail(q))
  <2>1. /\ Tail(Blocks(msgs, q)) \in Seq(Stream) /\ Len(Tail(Blocks(msgs, q))) = Len(q) - 1
        /\ \A j \in 1..Len(q) - 1 : Tail(Blocks(msgs, q))[j] = Blocks(msgs, q)[j + 1]
    BY <1>2, <1>4, HeadTailProperties
  <2>2. \A j \in 1..Len(q) - 1 : j + 1 \in 1..Len(q)
    BY <1>1
  <2>3. \A j \in 1..Len(q) - 1 : Tail(Blocks(msgs, q))[j] = Blocks(msgs, Tail(q))[j]
    BY <1>1, <1>2, <1>3, <2>1, <2>2
  <2> QED
    BY <1>3, <2>1, <2>3, SeqEqual
<1>7. FlattenSeq(Blocks(msgs, q)) = block \o tail
  BY <1>2, <1>4, <1>5, <1>6, FlattenHead
<1>8. tail \in Stream
  BY <1>3, FlattenType
<1> HIDE DEF block, tail
<1>9. SubSeq(block \o tail, cur + 1, Len(block \o tail))
        = SubSeq(block, cur + 1, Len(block)) \o tail
  BY <1>5, <1>8, SuffixOfConcat DEF block
<1>10. cur <= Len(block \o tail)
  BY <1>5, <1>8, Concat DEF block
<1> QED
  BY <1>1, <1>5, <1>7, <1>8, <1>9, <1>10 DEF Rest, block, tail

\* send() takes n bytes of the first block; when they are the last ones, the block goes.
LEMMA RestAdvances ==
  ASSUME NEW msgs \in Seq(Stream), NEW q \in Seq(DOMAIN msgs), q # <<>>,
         NEW cur \in 0..Len(msgs[Head(q)]), NEW n \in Nat, cur + n <= Len(msgs[Head(q)])
  PROVE  /\ Rest(msgs, q, cur) = SubSeq(msgs[Head(q)], cur + 1, cur + n)
                                   \o Rest(msgs, q, cur + n)
         /\ cur + n = Len(msgs[Head(q)]) => Rest(msgs, q, cur + n) = Rest(msgs, Tail(q), 0)
         /\ SubSeq(msgs[Head(q)], cur + 1, cur + n) \in Stream
         /\ Rest(msgs, q, cur + n) \in Stream
<1> DEFINE block == msgs[Head(q)]
           tail  == FlattenSeq(Blocks(msgs, Tail(q)))
           next  == cur + n
<1>1. /\ block \in Stream /\ tail \in Stream
      /\ Rest(msgs, q, cur) = SubSeq(block, cur + 1, Len(block)) \o tail
  BY RestOfFirst
<1>2. Len(block) \in Nat
  BY <1>1 DEF Stream
<1>3. next \in 0..Len(block)
  BY <1>2
<1>4. Rest(msgs, q, next) = SubSeq(block, next + 1, Len(block)) \o tail
  <2> HIDE DEF next
  <2> QED
    BY <1>3, RestOfFirst
<1> HIDE DEF block, tail
<1> DEFINE part  == SubSeq(block, cur + 1, next)
           later == SubSeq(block, next + 1, Len(block))
<1>5. part \in Stream /\ later \in Stream
  <2>1. \A j \in 1..Len(block) : block[j] \in Byte
    BY <1>1 DEF Stream
  <2>2. next \in Int /\ next + 1 \in Int /\ cur + 1 \in Int /\ Len(block) \in Int
    BY <1>2
  <2>3. \A j \in cur + 1..next : j \in 1..Len(block)
    BY <1>2, <1>3
  <2>4. \A j \in next + 1..Len(block) : j \in 1..Len(block)
    BY <1>2, <1>3
  <2> HIDE DEF next
  <2> QED
    BY <2>1, <2>2, <2>3, <2>4, SubSeqProperties DEF Stream
<1>6. SubSeq(block, cur + 1, Len(block)) = part \o later
  <2>1. cur + 1 \in 1..Len(block) + 1 /\ next \in (cur + 1) - 1..Len(block)
        /\ Len(block) \in next..Len(block)
    BY <1>2, <1>3 DEF block
  <2> HIDE DEF next
  <2> QED
    BY <1>1, <2>1, ConcatAdjacentSubSeq DEF Stream
<1>7. next = Len(block) => later = <<>>
  BY <1>2, SubSeqEmpty
<1> HIDE DEF part, later
<1>8. Rest(msgs, q, cur) = part \o Rest(msgs, q, next)
  <2>1. Rest(msgs, q, next) = later \o tail
    BY <1>4 DEF later
  <2>2. (part \o later) \o tail = part \o (later \o tail)
    BY <1>1, <1>5, ConcatThree
  <2> HIDE DEF next
  <2> QED
    BY <1>1, <1>6, <2>1, <2>2
<1>9. ASSUME next = Len(block)
      PROVE  Rest(msgs, q, next) = Rest(msgs, Tail(q), 0)
  <2>1. <<>> \o tail = tail /\ SubSeq(tail, 1, Len(tail)) = tail
    BY <1>1, ConcatEmptySeq, SubSeqFull DEF Stream
  <2>2. Rest(msgs, Tail(q), 0) = SubSeq(tail, 1, Len(tail))
    BY DEF Rest, tail
  <2>3. Rest(msgs, q, next) = <<>> \o tail
    BY <1>4, <1>7, <1>9 DEF later
  <2> QED
    BY <2>1, <2>2, <2>3
<1>10. Rest(msgs, q, next) \in Stream
  <2>1. later \o tail \in Stream
    BY <1>1, <1>5, Concat
  <2> QED
    BY <1>4, <2>1 DEF later
<1> QED
  BY <1>5, <1>8, <1>9, <1>10 DEF block, part

\* What is left to send is a stream.
LEMMA RestType ==
  ASSUME NEW msgs \in Seq(Stream), NEW q \in Seq(DOMAIN msgs), NEW cur \in Nat
  PROVE  Rest(msgs, q, cur) \in Stream
<1> DEFINE all == FlattenSeq(Blocks(msgs, q))
<1>1. all \in Stream
  BY BlocksType, FlattenType
<1> HIDE DEF all
<1>2. SubSeq(all, cur + 1, Len(all)) \in Stream
  BY <1>1 DEF Stream
<1> QED
  BY <1>2 DEF Rest, all

-----------------------------------------------------------------------------
\* A block that is made of a text fits.
LEMMA TruncatedType ==
  ASSUME NEW text \in Text
  PROVE  Truncated(text) \in Stream /\ Len(Truncated(text)) <= MESSAGE_LEN_MAX
<1>1. text \in Stream /\ Len(text) \in Nat
  BY TextAssumption DEF Stream
<1>2. /\ MESSAGE_LEN_MAX - CRLF_LEN_2 \in Nat
      /\ MESSAGE_LEN_MAX - CRLF_LEN_2 <= MESSAGE_LEN_MAX
      /\ MESSAGE_LEN_MAX \in Nat
  BY MessageLenAssumption DEF CRLF_LEN_2
<1>3. CASE Len(text) >= MESSAGE_LEN_MAX
  <2> DEFINE short == SubSeq(text, 1, MESSAGE_LEN_MAX - CRLF_LEN_2)
  <2>1. \A j \in 1..MESSAGE_LEN_MAX - CRLF_LEN_2 : j \in 1..Len(text)
    BY <1>1, <1>2, <1>3
  <2>2. short \in Stream /\ Len(short) = MESSAGE_LEN_MAX - CRLF_LEN_2
    BY <1>1, <1>2, <2>1 DEF Stream
  <2> QED
    BY <1>2, <1>3, <2>2 DEF Truncated
<1>4. CASE ~(Len(text) >= MESSAGE_LEN_MAX)
  BY <1>1, <1>2, <1>4 DEF Truncated
<1> QED
  BY <1>3, <1>4

\* What is left of a block before the CR-LF is inserted.
Short(block) ==
  IF Len(block) >= MESSAGE_LEN_MAX
  THEN SubSeq(block, 1, MESSAGE_LEN_MAX - CRLF_LEN_2) ELSE block

\* There is room behind a block that was cut.
LEMMA ShortType ==
  ASSUME NEW block \in Stream
  PROVE  /\ Short(block) \in Stream /\ Len(Short(block)) \in Nat
         /\ Len(Short(block)) < MESSAGE_LEN_MAX
         /\ Len(block) < MESSAGE_LEN_MAX => Short(block) = block
<1>1. /\ MESSAGE_LEN_MAX - CRLF_LEN_2 \in Nat
      /\ MESSAGE_LEN_MAX - CRLF_LEN_2 < MESSAGE_LEN_MAX
      /\ MESSAGE_LEN_MAX \in Nat /\ Len(block) \in Nat
  BY MessageLenAssumption DEF CRLF_LEN_2, Stream
<1>2. CASE Len(block) >= MESSAGE_LEN_MAX
  <2>1. \A j \in 1..MESSAGE_LEN_MAX - CRLF_LEN_2 : j \in 1..Len(block)
    BY <1>1, <1>2
  <2>2. /\ SubSeq(block, 1, MESSAGE_LEN_MAX - CRLF_LEN_2) \in Stream
        /\ Len(SubSeq(block, 1, MESSAGE_LEN_MAX - CRLF_LEN_2)) = MESSAGE_LEN_MAX - CRLF_LEN_2
    BY <1>1, <2>1 DEF Stream
  <2> QED
    BY <1>1, <1>2, <2>2 DEF Short
<1>3. CASE ~(Len(block) >= MESSAGE_LEN_MAX)
  BY <1>1, <1>3 DEF Short
<1> QED
  BY <1>2, <1>3

\* The two steps of a call: cutting the block, and inserting the CR-LF.
LEMMA TerminatedIs ==
  ASSUME NEW block
  PROVE  Terminated(block) = IF SeemsTerminated(Short(block)) THEN Short(block)
                             ELSE Short(block) \o CRLF
BY DEF Terminated, Short

\* A CR-LF is a stream of two bytes.
LEMMA CRLFType == CRLF \in Stream /\ Len(CRLF) = CRLF_LEN_2 /\ CRLF[2] = "LF"
BY DEF CRLF, Stream, Byte, CRLF_LEN_2

\* A block that is not written past its end is the same after a second call.
LEMMA TerminatedTwice ==
  ASSUME NEW block \in Stream
  PROVE  /\ Terminated(block) \in Stream /\ Len(Terminated(block)) \in Nat
         /\ Len(Terminated(block)) <= MESSAGE_LEN_MAX =>
              Terminated(Terminated(block)) = Terminated(block)
<1> DEFINE short == Short(block)
           ended == short \o CRLF
<1>1. short \in Stream /\ Len(short) \in Nat /\ Len(short) < MESSAGE_LEN_MAX
  BY ShortType
<1>2. MESSAGE_LEN_MAX \in Nat /\ CRLF_LEN_2 = 2
  BY MessageLenAssumption DEF CRLF_LEN_2
<1>3. CASE SeemsTerminated(short)
  <2>1. Terminated(block) = short
    BY <1>3, TerminatedIs
  <2> HIDE DEF short
  <2>2. Short(short) = short
    BY <1>1, ShortType
  <2>3. Terminated(short) = short
    BY <1>3, <2>2, TerminatedIs DEF short
  <2> QED
    BY <1>1, <2>1, <2>3
<1>4. CASE ~SeemsTerminated(short)
  <2>1. Terminated(block) = ended
    BY <1>4, TerminatedIs
  <2> HIDE DEF short
  <2>2. /\ ended \in Stream /\ Len(ended) = Len(short) + 2
        /\ \A j \in 1..Len(short) + 2 :
             ended[j] = IF j <= Len(short) THEN short[j] ELSE CRLF[j - Len(short)]
    <3>1. /\ ended \in Stream /\ Len(ended) = Len(short) + Len(CRLF)
          /\ \A j \in 1..Len(short) + Len(CRLF) :
               ended[j] = IF j <= Len(short) THEN short[j] ELSE CRLF[j - Len(short)]
      BY <1>1, CRLFType, ConcatProperties DEF Stream
    <3>2. Len(CRLF) = 2
      BY <1>2, CRLFType
    <3> HIDE DEF ended
    <3> QED
      BY <3>1, <3>2
  <2>3. ended[Len(ended)] = "LF" /\ Len(ended) >= CRLF_LEN_2
    <3>1. /\ Len(short) + 2 \in 1..Len(short) + 2 /\ ~(Len(short) + 2 <= Len(short))
          /\ (Len(short) + 2) - Len(short) = 2
      BY <1>1
    <3> QED
      BY <1>1, <1>2, <2>2, <3>1, CRLFType
  <2>4. CASE Len(ended) < MESSAGE_LEN_MAX
    <3> HIDE DEF ended
    <3>1. Short(ended) = ended
      BY <2>2, <2>4, ShortType
    <3>2. SeemsTerminated(ended)
      BY <2>3 DEF SeemsTerminated
    <3>3. Terminated(ended) = ended
      BY <3>1, <3>2, TerminatedIs
    <3> QED
      BY <1>1, <2>1, <2>2, <3>3
  <2>5. CASE Len(ended) = MESSAGE_LEN_MAX
    <3>1. Len(short) = MESSAGE_LEN_MAX - CRLF_LEN_2
      BY <1>1, <1>2, <2>2, <2>5
    <3>2. Short(ended) = short
      <4> DEFINE u == SubSeq(ended, 1, Len(short))
      <4>1. Short(ended) = u
        <5>1. Len(ended) >= MESSAGE_LEN_MAX
          BY <1>2, <2>5
        <5> HIDE DEF ended
        <5> QED
          BY <5>1, <3>1 DEF Short
      <4>2. u \in Stream /\ Len(u) = Len(short)
            /\ \A j \in 1..Len(short) : u[j] = ended[j]
        <5>1. Len(short) \in Nat /\ \A j \in 1..Len(short) : j \in 1..Len(ended)
          BY <1>1, <2>2
        <5> HIDE DEF ended
        <5> QED
          BY <2>2, <5>1 DEF Stream
      <4>3. \A j \in 1..Len(short) : ended[j] = short[j]
        <5>1. \A j \in 1..Len(short) : j \in 1..Len(short) + 2 /\ j <= Len(short)
          BY <1>1
        <5> HIDE DEF ended
        <5> QED
          BY <2>2, <5>1
      <4> HIDE DEF u, ended
      <4>4. u = short
        BY <1>1, <4>2, <4>3, SeqEqual DEF Stream
      <4> QED
        BY <4>1, <4>4
    <3>3. Terminated(ended) = ended
      BY <1>4, <3>2, TerminatedIs
    <3> QED
      BY <1>1, <2>1, <2>2, <3>3
  <2>6. Len(ended) \in Nat
    BY <1>1, <2>2
  <2> HIDE DEF ended
  <2> QED
    BY <1>2, <2>1, <2>2, <2>4, <2>5, <2>6
<1> QED
  BY <1>3, <1>4

-----------------------------------------------------------------------------
(***************************************************************************)
(* The calls of sendMsgToClient for one block.                             *)
(***************************************************************************)

CallState ==
  [block  : Stream,
   queue  : [Client -> Seq(1..Len(Msg) + 1)],
   cursor : [Client -> 0..MESSAGE_LEN_MAX],
   texts  : [Client -> Seq(Text)],
   sent   : [Client -> Seq(Stream)],
   status : {"running", "corrupted"}]

BeforeCalls(text) ==
  [block |-> Truncated(text), queue |-> MsgSendingQueue,
   cursor |-> SendMsgBlockCursor, texts |-> texts, sent |-> sent,
   status |-> sendingStatus]

\* A call keeps the types.
LEMMA CallType ==
  ASSUME Len(Msg) \in Nat,
         NEW st \in CallState, NEW c \in Client, NEW text \in Text
  PROVE  SendMsgToClient(st, c, text) \in CallState
<1> DEFINE block == Terminated(st.block)
<1>1. /\ st.block \in Stream
      /\ st.queue \in [Client -> Seq(1..Len(Msg) + 1)]
      /\ st.cursor \in [Client -> 0..MESSAGE_LEN_MAX]
      /\ st.texts \in [Client -> Seq(Text)]
      /\ st.sent \in [Client -> Seq(Stream)]
      /\ st.status \in {"running", "corrupted"}
  BY DEF CallState
<1>2. block \in Stream
  BY <1>1, TerminatedTwice
<1> HIDE DEF block
<1>3. [st.queue EXCEPT ![c] = Append(@, Len(Msg) + 1)] \in [Client -> Seq(1..Len(Msg) + 1)]
  <2>1. Len(Msg) + 1 \in 1..Len(Msg) + 1
    OBVIOUS
  <2>2. Append(st.queue[c], Len(Msg) + 1) \in Seq(1..Len(Msg) + 1)
    BY <1>1, <2>1
  <2> QED
    BY <1>1, <2>2
<1>4. [st.cursor EXCEPT ![c] = 0] \in [Client -> 0..MESSAGE_LEN_MAX]
  BY <1>1, MessageLenAssumption
<1>5. [st.texts EXCEPT ![c] = Append(@, text)] \in [Client -> Seq(Text)]
  BY <1>1
<1>6. [st.sent EXCEPT ![c] = Append(@, block)] \in [Client -> Seq(Stream)]
  BY <1>1, <1>2
<1> QED
  BY <1>1, <1>2, <1>3, <1>4, <1>5, <1>6 DEF SendMsgToClient, CallState, block

\* The loop over the receivers.
Calls(text, receivers, f) ==
  /\ f \in [0..Len(receivers) -> CallState]
  /\ f[0] = BeforeCalls(text)
  /\ \A n \in 1..Len(receivers) : f[n] = SendMsgToClient(f[n - 1], receivers[n], text)
  /\ AfterCalls(text, receivers) = f[Len(receivers)]

\* The recursive function of AfterCalls exists.
LEMMA CallsExist ==
  ASSUME SendingTypeOK, NEW text \in Text, NEW receivers \in Seq(Client)
  PROVE  \E f : Calls(text, receivers, f)
<1> DEFINE N == Len(receivers)
           base == BeforeCalls(text)
           F == [x \in (1..N) \X CallState |-> SendMsgToClient(x[2], receivers[x[1]], text)]
           Loop(g) == [n \in 0..N |-> IF n = 0 THEN base
                                      ELSE SendMsgToClient(g[n - 1], receivers[n], text)]
           calls == CHOOSE g : g = Loop(g)
<1>1. N \in Nat /\ \A n \in 1..N : receivers[n] \in Client
  OBVIOUS
<1>2. Len(Msg) \in Nat /\ DOMAIN Msg = 1..Len(Msg)
  BY DEF SendingTypeOK
<1>3. base \in CallState
  <2>1. MsgSendingQueue \in [Client -> Seq(1..Len(Msg) + 1)]
    <3>1. DOMAIN Msg \subseteq 1..Len(Msg) + 1
      BY <1>2
    <3>2. ASSUME NEW c \in Client
          PROVE  MsgSendingQueue[c] \in Seq(1..Len(Msg) + 1)
      <4>1. MsgSendingQueue[c] \in Seq(DOMAIN Msg)
        BY DEF SendingTypeOK
      <4> QED
        BY <3>1, <4>1, SeqMonotonic
    <3> QED
      BY <3>2 DEF SendingTypeOK
  <2> QED
    BY <2>1, TruncatedType DEF BeforeCalls, CallState, SendingTypeOK, Stream
<1>4. F \in [(1..N) \X CallState -> CallState]
  <2> HIDE DEF N
  <2>1. \A x \in (1..N) \X CallState : x[2] \in CallState /\ receivers[x[1]] \in Client
    BY <1>1
  <2>2. \A x \in (1..N) \X CallState :
          SendMsgToClient(x[2], receivers[x[1]], text) \in CallState
    BY <1>2, <2>1, CallType
  <2> QED
    BY <2>2
<1>5. PICK f \in [0..N -> CallState] : Runs(f, N, base, F)
  <2> HIDE DEF F, N, base
  <2> QED
    BY <1>1, <1>3, <1>4, LoopExists
<1>6. f[0] = base /\ \A n \in 1..N : f[n] = SendMsgToClient(f[n - 1], receivers[n], text)
  <2> HIDE DEF N, base
  <2>1. f[0] = base
    BY <1>5 DEF Runs
  <2>2. ASSUME NEW n \in 1..N
        PROVE  f[n] = SendMsgToClient(f[n - 1], receivers[n], text)
    <3>1. n - 1 \in 0..N
      BY <1>1
    <3>2. f[n - 1] \in CallState
      BY <3>1, <1>5
    <3>3. f[n] = F[n, f[n - 1]]
      BY <1>5 DEF Runs
    <3>4. <<n, f[n - 1]>> \in (1..N) \X CallState
      BY <3>2
    <3> QED
      BY <3>3, <3>4
  <2> QED
    BY <2>1, <2>2
<1>7. f = Loop(f)
  <2> HIDE DEF N, base
  <2>1. \A n \in 0..N : n # 0 => n \in 1..N
    BY <1>1
  <2> QED
    BY <1>6, <2>1
<1>8. calls = Loop(calls)
  <2> HIDE DEF N, base
  <2> QED
    BY <1>7, Zenon
<1>9. AfterCalls(text, receivers) = calls[N]
  BY Zenon DEF AfterCalls, BeforeCalls
<1> HIDE DEF calls, N, base
<1>10. 0..N \subseteq {n \in 0..N : calls[n] = f[n]}
  <2> DEFINE T == {n \in 0..N : calls[n] = f[n]}
  <2>1. 0 \in T
    BY <1>1, <1>6, <1>8
  <2>2. ASSUME NEW n \in 0..N - 1, n \in T
        PROVE  n + 1 \in T
    <3>1. n + 1 \in 1..N /\ n + 1 \in 0..N /\ (n + 1) - 1 = n /\ n + 1 # 0
      BY <1>1
    <3>2. calls[n + 1] = SendMsgToClient(calls[n], receivers[n + 1], text)
      BY <1>8, <3>1
    <3>3. f[n + 1] = SendMsgToClient(f[n], receivers[n + 1], text)
      BY <1>6, <3>1
    <3> QED
      BY <2>2, <3>1, <3>2, <3>3
  <2> HIDE DEF T
  <2>3. 0..N \subseteq T
    BY <1>1, <2>1, <2>2, InductionUpTo
  <2> QED
    BY <2>3 DEF T
<1>11. calls[N] = f[N]
  <2>1. N \in 0..N
    BY <1>1
  <2> QED
    BY <1>10, <2>1
<1> QED
  BY <1>5, <1>6, <1>9, <1>11 DEF Calls, N, base

\* A queue, the wire and the texts of one client belong together.
GoodQueue(st, c) ==
  LET msgs == Append(Msg, st.block)
  IN /\ wire[c] \o Rest(msgs, st.queue[c], st.cursor[c]) = FlattenSeq(st.sent[c])
     /\ st.queue[c] # <<>> => st.cursor[c] <= Len(msgs[Head(st.queue[c])])

\* The block does not change any more once a queue holds it.
GoodBlock(st) ==
  /\ Len(st.block) <= MESSAGE_LEN_MAX
  /\ \/ Terminated(st.block) = st.block
     \/ \A c \in Client : st.queue[c] \in Seq(DOMAIN Msg)

GoodCalls(st) ==
  /\ \A c \in Client : st.queue[c] = <<>> => st.cursor[c] = 0
  /\ st.status = "running" => GoodBlock(st) /\ \A c \in Client : GoodQueue(st, c)

SendingInv ==
  /\ SendingTypeOK
  /\ SendingRuns => /\ \A k \in DOMAIN Msg : Len(Msg[k]) <= MESSAGE_LEN_MAX
                    /\ \A c \in Client :
                         MsgSendingQueue[c] # <<>> =>
                           SendMsgBlockCursor[c] <= Len(Msg[Head(MsgSendingQueue[c])])
  /\ WireIsQueue

\* What the queue of a client still holds, by its state alone.
LEMMA RemainingIs ==
  ASSUME NEW c \in Client
  PROVE  Remaining(c) = Rest(Msg, MsgSendingQueue[c], SendMsgBlockCursor[c])
BY Zenon DEF Remaining, Rest, Blocks

\* One block more.
LEMMA OneMore ==
  ASSUME Msg \in Seq(Stream), NEW block \in Stream
  PROVE  /\ Append(Msg, block) \in Seq(Stream) /\ Len(Msg) \in Nat
         /\ Len(Append(Msg, block)) = Len(Msg) + 1
         /\ DOMAIN Append(Msg, block) = 1..Len(Msg) + 1
         /\ DOMAIN Msg = 1..Len(Msg) /\ DOMAIN Msg \subseteq DOMAIN Append(Msg, block)
         /\ Append(Msg, block)[Len(Msg) + 1] = block
         /\ \A k \in DOMAIN Msg : Append(Msg, block)[k] = Msg[k]
OBVIOUS

\* The first entry of a queue is an entry.
LEMMA HeadOfQueue ==
  ASSUME NEW S, NEW q \in Seq(S), q # <<>>
  PROVE  Head(q) \in S
OBVIOUS

\* A call puts the block behind what is queued for its receiver, and changes the block
\* only if no queue holds it yet.
LEMMA CallKeeps ==
  ASSUME SendingTypeOK, NEW st \in CallState, GoodCalls(st),
         NEW d \in Client, NEW text \in Text
  PROVE  GoodCalls(SendMsgToClient(st, d, text))
<1> DEFINE next  == SendMsgToClient(st, d, text)
           block == Terminated(st.block)
           m     == Len(Msg) + 1
           msgs  == Append(Msg, st.block)
           later == Append(Msg, block)
<1>1. /\ st.block \in Stream /\ st.queue \in [Client -> Seq(1..m)]
      /\ st.cursor \in [Client -> 0..MESSAGE_LEN_MAX]
      /\ st.sent \in [Client -> Seq(Stream)]
      /\ st.status \in {"running", "corrupted"}
  BY DEF CallState
<1>2. Msg \in Seq(Stream) /\ wire \in [Client -> Stream]
  BY DEF SendingTypeOK, Stream
<1>3. block \in Stream /\ Len(block) \in Nat
  BY <1>1, TerminatedTwice
<1>4. /\ msgs \in Seq(Stream) /\ later \in Seq(Stream)
      /\ DOMAIN msgs = 1..m /\ DOMAIN later = 1..m
      /\ DOMAIN Msg \subseteq 1..m /\ m \in 1..m
      /\ later[m] = block
      /\ \A k \in DOMAIN Msg : msgs[k] = Msg[k] /\ later[k] = Msg[k]
  <2> HIDE DEF block
  <2>1. m \in 1..m
    BY <1>2
  <2> QED
    BY <1>1, <1>2, <1>3, <2>1, OneMore
<1>5. /\ next.block = block
      /\ next.queue = [st.queue EXCEPT ![d] = Append(@, m)]
      /\ next.cursor = IF st.queue[d] = <<>> THEN [st.cursor EXCEPT ![d] = 0] ELSE st.cursor
      /\ next.sent = [st.sent EXCEPT ![d] = Append(@, block)]
      /\ next.status = IF Len(block) <= MESSAGE_LEN_MAX THEN st.status ELSE "corrupted"
  BY DEF SendMsgToClient
<1> HIDE DEF next
<1>6. next.cursor = st.cursor
  <2>1. st.queue[d] = <<>> => st.cursor[d] = 0
    BY DEF GoodCalls
  <2> HIDE DEF block, m
  <2> QED
    BY <1>1, <1>5, <2>1
<1> HIDE DEF block, msgs, later, m
<1>7. next.queue[d] = Append(st.queue[d], m) /\ next.sent[d] = Append(st.sent[d], block)
      /\ \A c \in Client \ {d} : next.queue[c] = st.queue[c] /\ next.sent[c] = st.sent[c]
  BY <1>1, <1>5
<1>8. next.queue[d] # <<>>
  <2>1. st.queue[d] \in Seq(1..m)
    BY <1>1
  <2> QED
    BY <1>4, <1>7, <2>1, AppendProperties
<1>9. \A c \in Client : next.queue[c] = <<>> => next.cursor[c] = 0
  <2> TAKE c \in Client
  <2>1. st.queue[c] = <<>> => st.cursor[c] = 0
    BY DEF GoodCalls
  <2>2. CASE c = d
    BY <2>2, <1>8
  <2>3. CASE c # d
    BY <2>1, <2>3, <1>6, <1>7
  <2> QED
    BY <2>2, <2>3
<1>10. ASSUME next.status = "running"
       PROVE  GoodBlock(next) /\ \A c \in Client : GoodQueue(next, c)
  <2>1. st.status = "running" /\ Len(block) <= MESSAGE_LEN_MAX
    BY <1>5, <1>10
  <2>2. GoodBlock(st) /\ \A c \in Client : GoodQueue(st, c)
    BY <2>1 DEF GoodCalls
  <2>3. Terminated(block) = block
    BY <1>1, <2>1, TerminatedTwice DEF block
  <2>4. GoodBlock(next)
    BY <1>5, <2>1, <2>3 DEF GoodBlock
  <2>5. ASSUME NEW c \in Client
        PROVE  /\ st.queue[c] \in Seq(1..m) /\ st.cursor[c] \in Nat
               /\ Rest(later, st.queue[c], st.cursor[c]) = Rest(msgs, st.queue[c], st.cursor[c])
               /\ st.queue[c] # <<>> => st.cursor[c] <= Len(later[Head(st.queue[c])])
    <3>1. st.queue[c] \in Seq(1..m) /\ st.cursor[c] \in Nat
      BY <1>1
    <3>2. st.queue[c] # <<>> => st.cursor[c] <= Len(msgs[Head(st.queue[c])])
      BY <2>2 DEF GoodQueue, msgs
    <3>3. CASE Terminated(st.block) = st.block
      BY <3>1, <3>2, <3>3 DEF msgs, later, block
    <3>4. CASE st.queue[c] \in Seq(DOMAIN Msg)
      <4>1. Rest(Msg, st.queue[c], st.cursor[c]) = Rest(msgs, st.queue[c], st.cursor[c])
        BY <1>2, <1>4, <3>4, RestSame
      <4>2. Rest(Msg, st.queue[c], st.cursor[c]) = Rest(later, st.queue[c], st.cursor[c])
        BY <1>2, <1>4, <3>4, RestSame
      <4>3. st.queue[c] # <<>> => later[Head(st.queue[c])] = msgs[Head(st.queue[c])]
        BY <1>4, <3>4, HeadOfQueue
      <4> QED
        BY <3>1, <3>2, <4>1, <4>2, <4>3
    <3> QED
      BY <2>2, <3>3, <3>4 DEF GoodBlock
  <2>6. ASSUME NEW c \in Client
        PROVE  wire[c] \o Rest(later, st.queue[c], st.cursor[c]) = FlattenSeq(st.sent[c])
    BY <2>2, <2>5 DEF GoodQueue, msgs
  <2>7. ASSUME NEW c \in Client, c # d
        PROVE  GoodQueue(next, c)
    BY <1>5, <1>6, <1>7, <2>5, <2>6, <2>7 DEF GoodQueue, later
  <2>8. GoodQueue(next, d)
    <3> DEFINE q   == st.queue[d]
               cur == st.cursor[d]
    <3>1. q \in Seq(DOMAIN later) /\ cur \in Nat
      BY <1>4, <2>5
    <3>2. cur <= Len(FlattenSeq(Blocks(later, q)))
      <4>1. CASE q = <<>>
        <5>1. cur = 0
          BY <4>1 DEF GoodCalls
        <5>2. FlattenSeq(Blocks(later, q)) \in Stream
          BY <1>4, <3>1, BlocksType, FlattenType
        <5> QED
          BY <5>1, <5>2 DEF Stream
      <4>2. CASE q # <<>>
        <5>1. cur <= Len(later[Head(q)])
          BY <2>5, <4>2
        <5>2. Len(later[Head(q)]) \in Nat
          <6>1. later[Head(q)] \in Stream
            BY <1>4, <3>1, <4>2, HeadOfQueue
          <6> QED
            BY <6>1 DEF Stream
        <5>3. cur \in 0..Len(later[Head(q)])
          BY <3>1, <5>1, <5>2
        <5> QED
          BY <1>4, <3>1, <4>2, <5>3, RestOfFirst
      <4> QED
        BY <4>1, <4>2
    <3>3. Rest(later, Append(q, m), cur) = Rest(later, q, cur) \o block
      <4> HIDE DEF q, cur
      <4> QED
        BY <1>4, <3>1, <3>2, RestAppend
    <3>4. FlattenSeq(Append(st.sent[d], block)) = FlattenSeq(st.sent[d]) \o block
      <4>1. st.sent[d] \in Seq(Stream)
        BY <1>1
      <4> QED
        BY <1>3, <4>1, FlattenAppend
    <3>5. wire[d] \in Stream /\ Rest(later, q, cur) \in Stream
      BY <1>2, <1>4, <3>1, RestType
    <3>6. (wire[d] \o Rest(later, q, cur)) \o block = wire[d] \o (Rest(later, q, cur) \o block)
      BY <1>3, <3>5, ConcatThree
    <3>7. wire[d] \o Rest(later, Append(q, m), cur) = FlattenSeq(next.sent[d])
      BY <1>7, <2>6, <3>3, <3>4, <3>6
    <3>8. cur <= Len(later[Head(Append(q, m))])
      <4>1. CASE q = <<>>
        <5>1. cur = 0
          BY <4>1 DEF GoodCalls
        <5>2. Head(Append(q, m)) = m
          BY <4>1
        <5> QED
          BY <1>3, <1>4, <5>1, <5>2
      <4>2. CASE q # <<>>
        <5>1. Head(Append(q, m)) = Head(q)
          BY <3>1, <4>2
        <5> QED
          BY <2>5, <4>2, <5>1
      <4> QED
        BY <4>1, <4>2
    <3> QED
      BY <1>5, <1>6, <1>7, <3>7, <3>8 DEF GoodQueue, later
  <2> QED
    BY <2>4, <2>7, <2>8
<1> QED
  BY <1>9, <1>10 DEF GoodCalls, next

\* Nothing is queued and nothing is sent.
LEMMA SendingInvInit == SendingInit => SendingInv
<1> SUFFICES ASSUME SendingInit
             PROVE  SendingInv
  OBVIOUS
<1>1. /\ Msg = <<>> /\ MsgSendingQueue = [c \in Client |-> <<>>]
      /\ SendMsgBlockCursor = [c \in Client |-> 0]
      /\ wire = [c \in Client |-> <<>>]
      /\ texts = [c \in Client |-> <<>>] /\ sent = [c \in Client |-> <<>>]
      /\ sendingStatus = "running"
  BY DEF SendingInit
<1>2. SendingTypeOK
  BY <1>1, MessageLenAssumption, BoundAssumption DEF SendingTypeOK
<1>3. WireIsQueue
  <2>1. ASSUME NEW c \in Client
        PROVE  wire[c] \o Remaining(c) = FlattenSeq(sent[c])
    <3>1. MsgSendingQueue[c] = <<>> /\ SendMsgBlockCursor[c] = 0 /\ wire[c] = <<>>
          /\ sent[c] = <<>>
      BY <1>1
    <3>2. Remaining(c) = <<>>
      BY <3>1, RemainingIs, RestEmpty
    <3>3. <<>> \o <<>> = <<>>
      OBVIOUS
    <3> QED
      BY <3>1, <3>2, <3>3, FlattenEmpty
  <2> QED
    BY <2>1 DEF WireIsQueue
<1> QED
  BY <1>1, <1>2, <1>3 DEF SendingInv

\* Before the first call no queue holds the block.
LEMMA GoodBefore ==
  ASSUME SendingInv, SendingRuns, NEW text \in Text
  PROVE  GoodCalls(BeforeCalls(text))
<1> DEFINE st    == BeforeCalls(text)
           block == Truncated(text)
<1>1. /\ st.block = block /\ st.queue = MsgSendingQueue /\ st.cursor = SendMsgBlockCursor
      /\ st.sent = sent
  BY DEF BeforeCalls
<1> HIDE DEF st
<1>2. block \in Stream /\ Len(block) <= MESSAGE_LEN_MAX
  BY TruncatedType
<1> HIDE DEF block
<1>3. Msg \in Seq(Stream) /\ \A c \in Client : MsgSendingQueue[c] \in Seq(DOMAIN Msg)
  BY DEF SendingInv, SendingTypeOK, Stream
<1>4. /\ Append(Msg, block) \in Seq(Stream) /\ DOMAIN Msg \subseteq DOMAIN Append(Msg, block)
      /\ \A k \in DOMAIN Msg : Append(Msg, block)[k] = Msg[k]
  BY <1>2, <1>3, OneMore
<1>5. \A c \in Client : st.queue[c] = <<>> => st.cursor[c] = 0
  BY <1>1 DEF SendingInv, SendingTypeOK
<1>6. GoodBlock(st)
  BY <1>1, <1>2, <1>3 DEF GoodBlock
<1>7. ASSUME NEW c \in Client
      PROVE  GoodQueue(st, c)
  <2>1. Rest(Msg, MsgSendingQueue[c], SendMsgBlockCursor[c])
          = Rest(Append(Msg, block), MsgSendingQueue[c], SendMsgBlockCursor[c])
    BY <1>3, <1>4, RestSame
  <2>2. wire[c] \o Remaining(c) = FlattenSeq(sent[c])
    BY DEF SendingInv, WireIsQueue
  <2>3. MsgSendingQueue[c] # <<>> =>
          SendMsgBlockCursor[c] <= Len(Append(Msg, block)[Head(MsgSendingQueue[c])])
    BY <1>3, <1>4, HeadOfQueue DEF SendingInv
  <2> QED
    BY <1>1, <2>1, <2>2, <2>3, RemainingIs DEF GoodQueue
<1> QED
  BY <1>5, <1>6, <1>7 DEF GoodCalls, st

\* Nor do the calls for all receivers disturb a queue.
LEMMA GoodAfter ==
  ASSUME SendingInv, SendingRuns, NEW text \in Text, NEW receivers \in Seq(Client)
  PROVE  AfterCalls(text, receivers) \in CallState /\ GoodCalls(AfterCalls(text, receivers))
<1> DEFINE N == Len(receivers)
<1>1. SendingTypeOK
  BY DEF SendingInv
<1>2. N \in Nat /\ \A n \in 1..N : receivers[n] \in Client
  OBVIOUS
<1>3. PICK f : Calls(text, receivers, f)
  BY <1>1, CallsExist
<1>4. 0..N \subseteq {n \in 0..N : GoodCalls(f[n])}
  <2> DEFINE T == {n \in 0..N : GoodCalls(f[n])}
  <2>1. 0 \in T
    BY <1>2, <1>3, GoodBefore DEF Calls
  <2>2. ASSUME NEW n \in 0..N - 1, n \in T
        PROVE  n + 1 \in T
    <3>1. n + 1 \in 1..N /\ n + 1 \in 0..N /\ (n + 1) - 1 = n /\ n \in 0..N
      BY <1>2
    <3>2. f[n] \in CallState /\ f[n + 1] = SendMsgToClient(f[n], receivers[n + 1], text)
      BY <1>3, <3>1 DEF Calls
    <3>3. GoodCalls(f[n]) /\ receivers[n + 1] \in Client
      BY <1>2, <2>2, <3>1
    <3>4. GoodCalls(f[n + 1])
      BY <1>1, <3>2, <3>3, CallKeeps
    <3> QED
      BY <3>1, <3>4
  <2> HIDE DEF T, N
  <2>3. 0..N \subseteq T
    BY <1>2, <2>1, <2>2, InductionUpTo
  <2> QED
    BY <2>3 DEF T
<1>5. N \in 0..N
  BY <1>2
<1> QED
  BY <1>3, <1>4, <1>5 DEF Calls

\* A message for any receivers keeps the invariant.
LEMMA SendMsgKeeps ==
  ASSUME SendingInv, NEW text \in Text, NEW receivers \in Seq(Client),
         SendMsg(text, receivers)
  PROVE  SendingInv'
<1> DEFINE st == AfterCalls(text, receivers)
<1>1. /\ SendingRuns /\ Len(Msg) < MESSAGES_MAX
      /\ Msg' = Append(Msg, st.block) /\ MsgSendingQueue' = st.queue
      /\ SendMsgBlockCursor' = st.cursor /\ texts' = st.texts /\ sent' = st.sent
      /\ sendingStatus' = st.status /\ wire' = wire
  BY DEF SendMsg
<1>2. st \in CallState /\ GoodCalls(st)
  BY <1>1, GoodAfter
<1> HIDE DEF st
<1>3. Msg \in Seq(Stream) /\ st.block \in Stream
  BY <1>2 DEF SendingInv, SendingTypeOK, CallState, Stream
<1>4. /\ Msg' \in Seq(Stream) /\ Len(Msg') = Len(Msg) + 1 /\ Len(Msg) \in Nat
      /\ DOMAIN Msg' = 1..Len(Msg) + 1 /\ DOMAIN Msg = 1..Len(Msg)
      /\ Msg'[Len(Msg) + 1] = st.block
      /\ \A k \in DOMAIN Msg : Msg'[k] = Msg[k]
  BY <1>1, <1>3, OneMore
<1>5. SendingTypeOK'
  <2>1. Len(Msg') <= MESSAGES_MAX
    BY <1>1, <1>4, BoundAssumption
  <2>2. /\ MsgSendingQueue' \in [Client -> Seq(DOMAIN Msg')]
        /\ SendMsgBlockCursor' \in [Client -> 0..MESSAGE_LEN_MAX]
        /\ texts' \in [Client -> Seq(Text)] /\ sent' \in [Client -> Seq(Stream)]
        /\ sendingStatus' \in {"running", "corrupted"}
    BY <1>1, <1>2, <1>4 DEF CallState
  <2>3. \A c \in Client : MsgSendingQueue'[c] = <<>> => SendMsgBlockCursor'[c] = 0
    BY <1>1, <1>2 DEF GoodCalls
  <2>4. wire' \in [Client -> Stream]
    BY <1>1 DEF SendingInv, SendingTypeOK, Stream
  <2> QED
    BY <1>4, <2>1, <2>2, <2>3, <2>4 DEF SendingTypeOK, Stream
<1>6. ASSUME SendingRuns'
      PROVE  /\ \A k \in DOMAIN Msg' : Len(Msg'[k]) <= MESSAGE_LEN_MAX
             /\ \A c \in Client :
                  /\ MsgSendingQueue'[c] # <<>> =>
                       SendMsgBlockCursor'[c] <= Len(Msg'[Head(MsgSendingQueue'[c])])
                  /\ wire'[c] \o Remaining(c)' = FlattenSeq(sent'[c])
  <2>1. st.status = "running"
    BY <1>1, <1>6 DEF SendingRuns
  <2>2. GoodBlock(st) /\ \A c \in Client : GoodQueue(st, c)
    BY <1>2, <2>1 DEF GoodCalls
  <2>3. \A k \in DOMAIN Msg' : Len(Msg'[k]) <= MESSAGE_LEN_MAX
    <3>1. \A k \in DOMAIN Msg' : k \in DOMAIN Msg \/ k = Len(Msg) + 1
      BY <1>4
    <3> QED
      BY <1>1, <1>4, <2>2, <3>1 DEF GoodBlock, SendingInv
  <2>4. ASSUME NEW c \in Client
        PROVE  /\ MsgSendingQueue'[c] # <<>> =>
                    SendMsgBlockCursor'[c] <= Len(Msg'[Head(MsgSendingQueue'[c])])
               /\ wire'[c] \o Remaining(c)' = FlattenSeq(sent'[c])
    <3>1. Remaining(c)' = Rest(Msg', MsgSendingQueue'[c], SendMsgBlockCursor'[c])
      BY Zenon DEF Remaining, Rest, Blocks
    <3>2. GoodQueue(st, c)
      BY <2>2
    <3> QED
      BY <1>1, <3>1, <3>2 DEF GoodQueue
  <2> QED
    BY <2>3, <2>4
<1> QED
  BY <1>5, <1>6 DEF SendingInv, WireIsQueue

\* A WRITE event moves bytes from the queue of one client to the wire.
LEMMA WriteEventKeeps ==
  ASSUME SendingInv, NEW c \in Client, NEW n \in 1..MESSAGE_LEN_MAX, WriteEvent(c, n)
  PROVE  SendingInv'
<1> DEFINE q     == MsgSendingQueue[c]
           block == Msg[Head(q)]
           cur   == SendMsgBlockCursor[c]
           part  == SubSeq(block, cur + 1, cur + n)
<1>1. /\ SendingRuns /\ q # <<>> /\ n <= Len(block) - cur
      /\ wire' = [wire EXCEPT ![c] = @ \o part]
      /\ \/ /\ cur + n < Len(block)
            /\ SendMsgBlockCursor' = [SendMsgBlockCursor EXCEPT ![c] = cur + n]
            /\ MsgSendingQueue' = MsgSendingQueue
         \/ /\ cur + n = Len(block)
            /\ SendMsgBlockCursor' = [SendMsgBlockCursor EXCEPT ![c] = 0]
            /\ MsgSendingQueue' = [MsgSendingQueue EXCEPT ![c] = Tail(@)]
      /\ UNCHANGED <<Msg, texts, sent, sendingStatus>>
  BY DEF WriteEvent
<1>2. /\ Msg \in Seq(Stream) /\ wire \in [Client -> Stream]
      /\ MsgSendingQueue \in [Client -> Seq(DOMAIN Msg)] /\ q \in Seq(DOMAIN Msg)
      /\ SendMsgBlockCursor \in [Client -> 0..MESSAGE_LEN_MAX]
      /\ MESSAGE_LEN_MAX \in Nat
  BY MessageLenAssumption DEF SendingInv, SendingTypeOK, Stream
<1> HIDE DEF q
<1>3. Head(q) \in DOMAIN Msg /\ block \in Stream /\ Len(block) \in Nat
      /\ Len(block) <= MESSAGE_LEN_MAX /\ Tail(q) \in Seq(DOMAIN Msg)
  <2>1. Head(q) \in DOMAIN Msg /\ Tail(q) \in Seq(DOMAIN Msg)
    BY <1>1, <1>2, HeadOfQueue, HeadTailProperties
  <2>2. Msg[Head(q)] \in Stream
    BY <1>2, <2>1
  <2> QED
    BY <1>1, <2>1, <2>2 DEF SendingInv, Stream
<1>4. cur \in 0..Len(block) /\ n \in Nat /\ cur + n <= Len(block) /\ cur \in Nat
      /\ cur + n \in 0..MESSAGE_LEN_MAX
  <2>1. cur \in Nat
    BY <1>2
  <2> HIDE DEF cur, block
  <2> QED
    BY <1>1, <1>2, <1>3, <2>1
<1>5. /\ Rest(Msg, q, cur) = part \o Rest(Msg, q, cur + n)
      /\ cur + n = Len(block) => Rest(Msg, q, cur + n) = Rest(Msg, Tail(q), 0)
      /\ part \in Stream /\ Rest(Msg, q, cur + n) \in Stream
  <2> HIDE DEF cur
  <2> QED
    BY <1>1, <1>2, <1>4, RestAdvances
<1> HIDE DEF part, cur, block
<1>6. ASSUME NEW d \in Client, d # c
      PROVE  /\ MsgSendingQueue'[d] = MsgSendingQueue[d] /\ wire'[d] = wire[d]
             /\ SendMsgBlockCursor'[d] = SendMsgBlockCursor[d]
  BY <1>1, <1>2, <1>6
<1>7. /\ wire'[c] = wire[c] \o part
      /\ \/ /\ cur + n < Len(block)
            /\ SendMsgBlockCursor'[c] = cur + n /\ MsgSendingQueue'[c] = q
         \/ /\ cur + n = Len(block)
            /\ SendMsgBlockCursor'[c] = 0 /\ MsgSendingQueue'[c] = Tail(q)
  BY <1>1, <1>2 DEF q
<1>8. /\ Rest(Msg, MsgSendingQueue'[c], SendMsgBlockCursor'[c]) = Rest(Msg, q, cur + n)
      /\ MsgSendingQueue'[c] = <<>> => SendMsgBlockCursor'[c] = 0
      /\ MsgSendingQueue'[c] # <<>> =>
           SendMsgBlockCursor'[c] <= Len(Msg[Head(MsgSendingQueue'[c])])
  <2>1. CASE cur + n < Len(block) /\ SendMsgBlockCursor'[c] = cur + n
             /\ MsgSendingQueue'[c] = q
    BY <2>1, <1>1, <1>3, <1>4 DEF block
  <2>2. CASE cur + n = Len(block) /\ SendMsgBlockCursor'[c] = 0
             /\ MsgSendingQueue'[c] = Tail(q)
    <3>1. ASSUME Tail(q) # <<>>
          PROVE  Msg[Head(Tail(q))] \in Stream
      <4>1. Head(Tail(q)) \in DOMAIN Msg
        BY <1>3, <3>1, HeadOfQueue
      <4>2. \A k \in DOMAIN Msg : Msg[k] \in Stream
        BY <1>2
      <4> QED
        BY <4>1, <4>2, Zenon
    <3>2. Tail(q) # <<>> => Len(Msg[Head(Tail(q))]) \in Nat
      BY <3>1 DEF Stream
    <3> QED
      BY <2>2, <1>5, <3>2
  <2> QED
    BY <1>7, <2>1, <2>2
<1>9. SendingTypeOK'
  <2>1. MsgSendingQueue' \in [Client -> Seq(DOMAIN Msg)]
    BY <1>1, <1>2, <1>3 DEF q
  <2>2. SendMsgBlockCursor' \in [Client -> 0..MESSAGE_LEN_MAX]
    <3>1. 0 \in 0..MESSAGE_LEN_MAX
      BY <1>2
    <3>2. \A k \in 0..MESSAGE_LEN_MAX :
            [SendMsgBlockCursor EXCEPT ![c] = k] \in [Client -> 0..MESSAGE_LEN_MAX]
      BY <1>2
    <3> QED
      BY <1>1, <1>4, <3>1, <3>2
  <2>3. wire' \in [Client -> Stream]
    <3>1. wire[c] \o part \in Stream
      BY <1>2, <1>5, Concat
    <3> QED
      BY <1>1, <1>2, <3>1
  <2>4. \A d \in Client : MsgSendingQueue'[d] = <<>> => SendMsgBlockCursor'[d] = 0
    BY <1>6, <1>8 DEF SendingInv, SendingTypeOK
  <2> QED
    BY <1>1, <2>1, <2>2, <2>3, <2>4 DEF SendingInv, SendingTypeOK, Stream
<1>10. ASSUME NEW d \in Client
       PROVE  /\ MsgSendingQueue'[d] # <<>> =>
                   SendMsgBlockCursor'[d] <= Len(Msg'[Head(MsgSendingQueue'[d])])
              /\ wire'[d] \o Remaining(d)' = FlattenSeq(sent'[d])
  <2>1. Remaining(d)' = Rest(Msg, MsgSendingQueue'[d], SendMsgBlockCursor'[d])
    <3>1. Remaining(d)' = Rest(Msg', MsgSendingQueue'[d], SendMsgBlockCursor'[d])
      BY Zenon DEF Remaining, Rest, Blocks
    <3> QED
      BY <1>1, <3>1
  <2>2. wire[d] \o Rest(Msg, MsgSendingQueue[d], SendMsgBlockCursor[d]) = FlattenSeq(sent[d])
    BY <1>1, RemainingIs DEF SendingInv, WireIsQueue
  <2>3. CASE d # c
    BY <1>1, <1>6, <2>1, <2>2, <2>3 DEF SendingInv
  <2>4. CASE d = c
    <3>1. wire[c] \in Stream
      BY <1>2
    <3>2. (wire[c] \o part) \o Rest(Msg, q, cur + n) = wire[c] \o (part \o Rest(Msg, q, cur + n))
      BY <1>5, <3>1, ConcatThree
    <3>3. wire[c] \o (part \o Rest(Msg, q, cur + n)) = FlattenSeq(sent[c])
      BY <1>5, <2>2, <2>4 DEF q, cur
    <3> QED
      BY <1>1, <1>7, <1>8, <2>1, <2>4, <3>2, <3>3
  <2> QED
    BY <2>3, <2>4
<1> QED
  BY <1>1, <1>9, <1>10 DEF SendingInv, WireIsQueue

\* Every step keeps the invariant.
LEMMA SendingInvNext == SendingInv /\ [SendingNext]_sendingVars => SendingInv'
<1> SUFFICES ASSUME SendingInv, [SendingNext]_sendingVars
             PROVE  SendingInv'
  OBVIOUS
<1>1. ASSUME NEW text \in Text, NEW k \in 1..RECEIVERS_MAX, NEW receivers \in [1..k -> Client],
             SendMsg(text, receivers)
      PROVE  SendingInv'
  <2>1. receivers \in Seq(Client)
    BY BoundAssumption
  <2> QED
    BY <1>1, <2>1, SendMsgKeeps
<1>2. ASSUME NEW c \in Client, NEW n \in 1..MESSAGE_LEN_MAX, WriteEvent(c, n)
      PROVE  SendingInv'
  BY <1>2, WriteEventKeeps
<1>3. CASE UNCHANGED sendingVars
  BY <1>3 DEF sendingVars, SendingInv, SendingTypeOK, SendingRuns, WireIsQueue, Remaining
<1> QED
  BY <1>1, <1>2, <1>3 DEF SendingNext

\* The types of the sending queues and of the blocks they share.
THEOREM SendingTypeCorrect == SendingSpec => []SendingTypeOK
<1>1. SendingInv => SendingTypeOK
  BY DEF SendingInv
<1> QED
  BY <1>1, SendingInvInit, SendingInvNext, PTL DEF SendingSpec

\* Each peer is sent exactly the blocks queued for it, in order and as they were when
\* they were queued.
THEOREM WireIsQueueHolds == SendingSpec => []WireIsQueue
<1>1. SendingInv => WireIsQueue
  BY DEF SendingInv
<1> QED
  BY <1>1, SendingInvInit, SendingInvNext, PTL DEF SendingSpec

-----------------------------------------------------------------------------
(***************************************************************************)
(* The lines that a receiver cuts what it is sent into.                    *)
(***************************************************************************)

\* A stream without a CR or LF, and a stream with nothing behind its last end.
Clean(s) == \A k \in 1..Len(s) : s[k] # "CR" /\ s[k] # "LF"
Ended(s) == s = <<>> \/ Len(s) \in Ends(s)

\* All lines are no longer than the stream.
LEMMA LinesWhole ==
  ASSUME NEW s \in Stream, NEW longest \in Nat, Len(s) <= longest
  PROVE  LinesBy(s, longest)[Len(s)] = Lines(s)
<1> DEFINE N == Len(s)
           f == LinesBy(s, longest)
           g == LinesBy(s, N)
           T == {n \in 0..N : f[n] = g[n]}
<1>1. N \in Nat
  BY DEF Stream
<1>2. f[0] = <<>> /\ \A n \in 1..N : f[n] = OneByteMore(s, longest, n, f[n - 1])
  BY LinesAre
<1>3. g[0] = <<>> /\ \A n \in 1..N : g[n] = OneByteMore(s, N, n, g[n - 1])
  BY LinesAre
<1>4. ASSUME NEW n \in Ends(s)
      PROVE  Len(LineAt(s, n)) <= N /\ Len(LineAt(s, n)) <= longest
  <2>1. /\ n \in 2..N /\ LastEnd(s, n - 1) \in 0..n - 2
        /\ Len(LineAt(s, n)) = n - CRLF_LEN_2 - LastEnd(s, n - 1)
    BY LineAtType
  <2> DEFINE e == LastEnd(s, n - 1)
             l == Len(LineAt(s, n))
  <2> HIDE DEF e, l
  <2>2. n \in 2..N /\ e \in 0..n - 2 /\ l = n - 2 - e
    BY <2>1 DEF CRLF_LEN_2, e, l
  <2>3. l <= N /\ l <= longest
    BY <1>1, <2>2
  <2> QED
    BY <2>3 DEF l
<1>5. Lines(s) = g[N]
  BY DEF Lines
<1> HIDE DEF f, g, N
<1>6. 0 \in T
  BY <1>1, <1>2, <1>3
<1>7. ASSUME NEW n \in 0..N - 1, n \in T
      PROVE  n + 1 \in T
  <2>1. n + 1 \in 1..N /\ n + 1 \in 0..N /\ (n + 1) - 1 = n
    BY <1>1
  <2>2. f[n + 1] = OneByteMore(s, longest, n + 1, f[n])
    BY <1>2, <2>1
  <2>3. g[n + 1] = OneByteMore(s, N, n + 1, g[n])
    BY <1>3, <2>1
  <2> QED
    BY <1>4, <1>7, <2>1, <2>2, <2>3 DEF OneByteMore
<1> HIDE DEF T
<1>8. 0..N \subseteq T
  BY <1>1, <1>6, <1>7, InductionUpTo
<1>9. N \in T
  BY <1>1, <1>8
<1> QED
  BY <1>5, <1>9 DEF T, f, N

\* A message without CR and LF, and a CR-LF, are one line more.
LEMMA OneLineMore ==
  ASSUME NEW s \in Stream, Ended(s), NEW b \in Stream, Clean(b)
  PROVE  Ended(s \o (b \o CRLF)) /\ Lines(s \o (b \o CRLF)) = Append(Lines(s), b)
<1> DEFINE m   == Len(s)
           l   == Len(b)
           msg == b \o CRLF
           t   == s \o msg
           n   == m + l + 2
<1>1. m \in Nat /\ l \in Nat /\ CRLF_LEN_2 = 2
  BY DEF Stream, CRLF_LEN_2
<1>2. CRLF \in Stream /\ Len(CRLF) = 2 /\ CRLF[1] = "CR" /\ CRLF[2] = "LF"
  BY CRLFType DEF CRLF, CRLF_LEN_2
<1>3. /\ msg \in Stream /\ Len(msg) = l + 2
      /\ \A k \in 1..l + 2 : msg[k] = IF k <= l THEN b[k] ELSE CRLF[k - l]
  <2>1. /\ msg \in Stream /\ Len(msg) = l + Len(CRLF)
        /\ \A k \in 1..l + Len(CRLF) : msg[k] = IF k <= l THEN b[k] ELSE CRLF[k - l]
    BY <1>2, ConcatProperties DEF Stream
  <2> HIDE DEF msg, l
  <2> QED
    BY <1>2, <2>1
<1> HIDE DEF msg
<1>4. /\ t \in Stream /\ Len(t) = m + Len(msg)
      /\ \A k \in 1..m + Len(msg) : t[k] = IF k <= m THEN s[k] ELSE msg[k - m]
  <2>1. msg \in Seq(Byte) /\ s \in Seq(Byte)
    BY <1>3 DEF Stream
  <2> QED
    BY <2>1, ConcatProperties DEF Stream
<1> HIDE DEF t, m, l
<1>5. Len(t) = n /\ n \in Nat /\ m <= n
  BY <1>1, <1>3, <1>4
<1>6. \A k \in 1..m : t[k] = s[k]
  <2>1. \A k \in 1..m : k \in 1..m + Len(msg) /\ k <= m
    BY <1>1, <1>3
  <2> QED
    BY <1>4, <2>1
<1>7. \A k \in 1..l : t[m + k] = b[k]
  <2>1. \A k \in 1..l : /\ m + k \in 1..m + Len(msg) /\ ~(m + k <= m) /\ (m + k) - m = k
                        /\ k \in 1..l + 2 /\ k <= l
    BY <1>1, <1>3
  <2> QED
    BY <1>3, <1>4, <2>1
<1>8. t[n - 1] = "CR" /\ t[n] = "LF"
  <2>1. /\ n - 1 \in 1..m + Len(msg) /\ ~(n - 1 <= m) /\ (n - 1) - m = l + 1
        /\ n \in 1..m + Len(msg) /\ ~(n <= m) /\ n - m = l + 2
        /\ l + 1 \in 1..l + 2 /\ ~(l + 1 <= l) /\ (l + 1) - l = 1
        /\ l + 2 \in 1..l + 2 /\ ~(l + 2 <= l) /\ (l + 2) - l = 2
    BY <1>1, <1>3
  <2>2. t[n - 1] = msg[l + 1] /\ t[n] = msg[l + 2]
    BY <1>4, <2>1
  <2>3. msg[l + 1] = CRLF[1] /\ msg[l + 2] = CRLF[2]
    BY <1>3, <2>1
  <2> QED
    BY <1>2, <2>2, <2>3
<1>9. n \in Ends(t)
  BY <1>1, <1>5, <1>8 DEF Ends
<1>10. \A k \in m + 1..n - 1 : k \notin Ends(t)
  <2> SUFFICES ASSUME NEW k \in m + 1..n - 1
               PROVE  t[k] # "LF"
    BY DEF Ends
  <2>1. CASE k = n - 1
    BY <1>8, <2>1
  <2>2. CASE k # n - 1
    <3>1. k - m \in 1..l /\ m + (k - m) = k
      BY <1>1, <2>2
    <3>2. t[k] = b[k - m]
      BY <1>7, <3>1
    <3>3. b[k - m] # "LF"
      BY <3>1 DEF Clean, l
    <3> QED
      BY <3>2, <3>3
  <2> QED
    BY <2>1, <2>2
<1>11. m = 0 \/ m \in Ends(t)
  <2>1. s = <<>> => m = 0
    BY DEF m
  <2>2. ASSUME m \in Ends(s)
        PROVE  m \in Ends(t)
    <3>1. m \in 2..m /\ s[m - 1] = "CR" /\ s[m] = "LF"
      BY <2>2 DEF Ends, m
    <3>2. m \in 2..n /\ m - 1 \in 1..m /\ m \in 1..m
      BY <1>1, <1>5, <3>1
    <3>3. t[m - 1] = "CR" /\ t[m] = "LF"
      BY <1>6, <3>1, <3>2
    <3> QED
      BY <1>5, <3>2, <3>3 DEF Ends
  <2> QED
    BY <2>1, <2>2 DEF Ended, m
<1>12. LastEnd(t, n - 1) = m
  <2>1. n - 1 \in Nat /\ m \in 0..n - 1
    BY <1>1
  <2>2. \A e \in Ends(t) : e \in Nat
    BY <1>4 DEF Ends, Stream
  <2>3. \A e \in Ends(t) : e <= n - 1 => e <= m
    <3> TAKE e \in Ends(t)
    <3>1. e \in Nat /\ e \notin m + 1..n - 1
      BY <1>10, <2>2
    <3> QED
      BY <1>1, <3>1
  <2> HIDE DEF n
  <2> QED
    BY <1>4, <1>11, <2>1, <2>3, LastEndOnly
<1>13. LineAt(t, n) = b
  <2> DEFINE u == SubSeq(t, m + 1, m + l)
  <2>1. m + l \in Nat /\ m <= m + l /\ m + l <= Len(t) /\ (m + l) - m = l /\ n - 2 = m + l
    BY <1>1, <1>5
  <2>2. u \in Stream /\ Len(u) = l /\ \A k \in 1..l : u[k] = t[m + k]
    <3>1. /\ u \in Stream /\ Len(u) = (m + l) - m
          /\ \A k \in 1..(m + l) - m : u[k] = t[m + k]
      BY <1>1, <1>4, <2>1, PartOfStream
    <3> HIDE DEF u
    <3> QED
      BY <2>1, <3>1
  <2>3. LineAt(t, n) = u
    <3> HIDE DEF n
    <3> QED
      BY <1>1, <1>12, <2>1 DEF LineAt
  <2> HIDE DEF u
  <2>4. Len(u) = Len(b) /\ \A k \in 1..Len(u) : u[k] = b[k]
    BY <1>7, <2>2 DEF l
  <2>5. u = b
    BY <2>2, <2>4, SeqEqual DEF Stream
  <2> QED
    BY <2>3, <2>5
<1> DEFINE f == LinesBy(t, n)
<1>14. /\ f \in [0..n -> Seq(Stream)]
       /\ \A k \in 1..n : f[k] = OneByteMore(t, n, k, f[k - 1])
  <2> HIDE DEF n
  <2> QED
    BY <1>4, <1>5, LinesAre
<1>15. f[m] = Lines(s)
  <2>1. LinesBy(t, n)[m] = LinesBy(s, n)[m]
    <3>1. m \in Nat /\ m <= Len(t) /\ m <= Len(s)
      BY <1>1, <1>5 DEF m
    <3> HIDE DEF n
    <3> QED
      BY <1>4, <1>6, <3>1, LinesAgree
  <2>2. LinesBy(s, n)[Len(s)] = Lines(s)
    <3> HIDE DEF n
    <3> QED
      BY <1>5, LinesWhole DEF m
  <2> QED
    BY <2>1, <2>2 DEF m
<1>16. f[n - 1] = f[m]
  <2>1. n - 1 \in Nat /\ m <= n - 1 /\ n - 1 <= Len(t)
    BY <1>1, <1>5
  <2> HIDE DEF n
  <2> QED
    BY <1>1, <1>4, <1>10, <2>1, LinesBetween
<1>17. f[n] = Append(f[n - 1], b)
  <2>1. n \in 1..n /\ l <= n
    BY <1>1
  <2>2. f[n] = OneByteMore(t, n, n, f[n - 1])
    BY <1>14, <2>1
  <2> HIDE DEF f, n
  <2> QED
    BY <1>9, <1>13, <2>1, <2>2 DEF OneByteMore, l
<1>18. Lines(t) = f[n]
  BY <1>5 DEF Lines
<1> HIDE DEF f, n
<1>19. Ended(t) /\ Lines(t) = Append(Lines(s), b)
  BY <1>5, <1>9, <1>15, <1>16, <1>17, <1>18 DEF Ended
<1> QED
  BY <1>19 DEF t, msg

\* The characters of a stream.
LEMMA CleanIs ==
  ASSUME NEW s \in Stream
  PROVE  Clean(s) <=> "CR" \notin ToSet(s) /\ "LF" \notin ToSet(s)
BY DEF Clean, ToSet, Stream

\* A part of a text of known length.
LEMMA StartOfStream ==
  ASSUME NEW s \in Stream, NEW n \in Nat, n <= Len(s)
  PROVE  /\ SubSeq(s, 1, n) \in Stream /\ Len(SubSeq(s, 1, n)) = n
         /\ \A k \in 1..n : SubSeq(s, 1, n)[k] = s[k]
<1>1. 0 \in Nat /\ 0 <= n /\ 0 + 1 = 1 /\ n - 0 = n /\ \A k \in 1..n : 0 + k = k
  OBVIOUS
<1>2. /\ SubSeq(s, 0 + 1, n) \in Stream
      /\ Len(SubSeq(s, 0 + 1, n)) = n - 0
      /\ \A k \in 1..n - 0 : SubSeq(s, 0 + 1, n)[k] = s[0 + k]
  BY <1>1, PartOfStream
<1> QED
  BY <1>1, <1>2

\* The text without its CR-LF.
LEMMA BodyType ==
  ASSUME NEW text \in Stream
  PROVE  /\ Body(text) \in Stream /\ Len(Body(text)) \in Nat
         /\ Len(Body(text)) <= Len(text) /\ Len(text) <= Len(Body(text)) + CRLF_LEN_2
         /\ \A k \in 1..Len(Body(text)) : Body(text)[k] = text[k]
         /\ EndsWithCRLF(text) => Len(text) = Len(Body(text)) + CRLF_LEN_2
         /\ ~EndsWithCRLF(text) => Body(text) = text
<1>1. Len(text) \in Nat /\ CRLF_LEN_2 = 2
  BY DEF Stream, CRLF_LEN_2
<1>2. CASE EndsWithCRLF(text)
  <2>1. Len(text) - CRLF_LEN_2 \in Nat /\ Len(text) - CRLF_LEN_2 <= Len(text)
    BY <1>1, <1>2 DEF EndsWithCRLF
  <2>2. /\ SubSeq(text, 1, Len(text) - CRLF_LEN_2) \in Stream
        /\ Len(SubSeq(text, 1, Len(text) - CRLF_LEN_2)) = Len(text) - CRLF_LEN_2
        /\ \A k \in 1..Len(text) - CRLF_LEN_2 :
             SubSeq(text, 1, Len(text) - CRLF_LEN_2)[k] = text[k]
    BY <2>1, StartOfStream
  <2>3. Body(text) = SubSeq(text, 1, Len(text) - CRLF_LEN_2)
    BY <1>2 DEF Body
  <2> QED
    BY <1>1, <1>2, <2>1, <2>2, <2>3
<1>3. CASE ~EndsWithCRLF(text)
  BY <1>1, <1>3 DEF Body
<1> QED
  BY <1>2, <1>3

\* A stream without CR and LF is not taken to be terminated.
LEMMA CleanIsOpen ==
  ASSUME NEW s \in Stream, Clean(s)
  PROVE  ~SeemsTerminated(s)
<1>1. Len(s) \in Nat
  BY DEF Stream
<1>2. Len(s) >= 2 => Len(s) - 1 \in 1..Len(s) /\ Len(s) \in 1..Len(s)
  BY <1>1
<1> QED
  BY <1>2 DEF Clean, SeemsTerminated, CRLF_LEN_2

\* What is shown of a proper text has no CR or LF.
LEMMA ShownType ==
  ASSUME NEW text \in Stream, Proper(text)
  PROVE  Shown(text) \in Stream /\ Clean(Shown(text))
<1>1. /\ Body(text) \in Stream /\ Len(Body(text)) \in Nat
      /\ Len(text) <= Len(Body(text)) + CRLF_LEN_2 /\ Len(text) \in Nat
  BY BodyType DEF Stream
<1>2. Clean(Body(text))
  BY <1>1, CleanIs DEF Proper
<1>3. CASE Len(text) >= MESSAGE_LEN_MAX
  <2> DEFINE n == MESSAGE_LEN_MAX - CRLF_LEN_2
  <2>1. n \in Nat /\ n <= Len(Body(text))
    BY <1>1, <1>3, MessageLenAssumption DEF CRLF_LEN_2
  <2>2. Shown(text) = SubSeq(Body(text), 1, n)
    BY <1>3 DEF Shown
  <2> HIDE DEF n
  <2>3. /\ SubSeq(Body(text), 1, n) \in Stream /\ Len(SubSeq(Body(text), 1, n)) = n
        /\ \A k \in 1..n : SubSeq(Body(text), 1, n)[k] = Body(text)[k]
    BY <1>1, <2>1, StartOfStream
  <2>4. \A k \in 1..n : k \in 1..Len(Body(text))
    BY <1>1, <2>1
  <2> QED
    BY <1>2, <2>2, <2>3, <2>4 DEF Clean
<1>4. CASE ~(Len(text) >= MESSAGE_LEN_MAX)
  BY <1>1, <1>2, <1>4 DEF Shown
<1> QED
  BY <1>3, <1>4

\* A proper text is sent as what is shown of it and a CR-LF.
LEMMA SentAsShown ==
  ASSUME NEW text \in Stream, Proper(text)
  PROVE  Terminated(Truncated(text)) = Shown(text) \o CRLF
<1> DEFINE body == Body(text)
           n    == MESSAGE_LEN_MAX - CRLF_LEN_2
<1>1. /\ body \in Stream /\ Len(body) \in Nat /\ Len(text) \in Nat
      /\ Len(body) <= Len(text) /\ Len(text) <= Len(body) + CRLF_LEN_2
      /\ \A k \in 1..Len(body) : body[k] = text[k]
      /\ EndsWithCRLF(text) => Len(text) = Len(body) + CRLF_LEN_2
      /\ ~EndsWithCRLF(text) => body = text
  BY BodyType DEF Stream
<1>2. n \in Nat /\ n < MESSAGE_LEN_MAX /\ MESSAGE_LEN_MAX \in Nat /\ CRLF_LEN_2 = 2
  BY MessageLenAssumption DEF CRLF_LEN_2
<1>3. Shown(text) \in Stream /\ Clean(Shown(text))
  BY ShownType
<1>4. CASE Len(text) >= MESSAGE_LEN_MAX
  <2> DEFINE a == SubSeq(text, 1, n)
             b == SubSeq(body, 1, n)
  <2>1. Truncated(text) = a /\ Shown(text) = b
    BY <1>4 DEF Truncated, Shown
  <2>2. n <= Len(text) /\ n <= Len(body)
    BY <1>1, <1>2, <1>4
  <2> HIDE DEF n, body
  <2>3. a \in Stream /\ Len(a) = n /\ \A k \in 1..n : a[k] = text[k]
    BY <1>2, <2>2, StartOfStream
  <2>4. b \in Stream /\ Len(b) = n /\ \A k \in 1..n : b[k] = body[k]
    BY <1>1, <1>2, <2>2, StartOfStream
  <2>5. \A k \in 1..n : k \in 1..Len(body)
    BY <1>1, <1>2, <2>2
  <2> HIDE DEF a, b
  <2>6. \A k \in 1..Len(a) : a[k] = b[k]
    BY <1>1, <2>3, <2>4, <2>5
  <2>7. a = b
    BY <2>3, <2>4, <2>6, SeqEqual DEF Stream
  <2>8. Short(a) = a
    BY <1>2, <2>3, ShortType
  <2>9. ~SeemsTerminated(a)
    BY <1>3, <2>1, <2>7, CleanIsOpen
  <2> QED
    BY <2>1, <2>7, <2>8, <2>9, TerminatedIs
<1>5. CASE ~(Len(text) >= MESSAGE_LEN_MAX)
  <2>1. Truncated(text) = text /\ Shown(text) = body
    BY <1>5 DEF Truncated, Shown
  <2>2. Short(text) = text
    BY <1>1, <1>2, <1>5, ShortType
  <2>3. CASE EndsWithCRLF(text)
    <3>1. SeemsTerminated(text)
      BY <2>3 DEF SeemsTerminated, EndsWithCRLF
    <3>2. Terminated(text) = text
      BY <2>2, <3>1, TerminatedIs
    <3> DEFINE t == body \o CRLF
               l == Len(body)
    <3>3. CRLF \in Seq(Byte) /\ Len(CRLF) = 2 /\ CRLF[1] = "CR" /\ CRLF[2] = "LF"
      BY CRLFType DEF CRLF, CRLF_LEN_2, Stream
    <3>4. body \in Seq(Byte) /\ text \in Seq(Byte) /\ l \in Nat
      BY <1>1 DEF Stream
    <3>5. Len(text) = l + 2 /\ text[l + 1] = "CR" /\ text[l + 2] = "LF"
      <4>1. Len(text) = l + 2
        BY <1>1, <1>2, <2>3
      <4>2. Len(text) - 1 = l + 1
        BY <3>4, <4>1
      <4> QED
        BY <2>3, <4>1, <4>2 DEF EndsWithCRLF
    <3> HIDE DEF body
    <3>6. /\ t \in Seq(Byte) /\ Len(t) = l + Len(CRLF)
          /\ \A k \in 1..l + Len(CRLF) : t[k] = IF k <= l THEN body[k] ELSE CRLF[k - l]
      BY <3>3, <3>4, ConcatProperties
    <3>7. \A k \in 1..l : body[k] = text[k]
      BY <1>1
    <3> HIDE DEF t, l
    <3>8. ASSUME NEW k \in 1..Len(text)
          PROVE  text[k] = t[k]
      <4>1. k \in 1..l + 2
        BY <3>5
      <4>2. t[k] = IF k <= l THEN body[k] ELSE CRLF[k - l]
        BY <3>3, <3>6, <4>1
      <4>3. CASE k <= l
        <5>1. k \in 1..l
          BY <3>4, <4>1, <4>3
        <5> QED
          BY <3>7, <4>2, <4>3, <5>1
      <4>4. CASE k = l + 1
        <5>1. ~(k <= l) /\ k - l = 1
          BY <3>4, <4>4
        <5> QED
          BY <3>3, <3>5, <4>2, <4>4, <5>1
      <4>5. CASE k = l + 2
        <5>1. ~(k <= l) /\ k - l = 2
          BY <3>4, <4>5
        <5> QED
          BY <3>3, <3>5, <4>2, <4>5, <5>1
      <4>6. k <= l \/ k = l + 1 \/ k = l + 2
        BY <3>4, <4>1
      <4> QED
        BY <4>3, <4>4, <4>5, <4>6
    <3>9. Len(text) = Len(t)
      BY <3>3, <3>5, <3>6
    <3>10. text = t
      BY <3>4, <3>6, <3>8, <3>9, SeqEqual
    <3> QED
      BY <2>1, <3>2, <3>10 DEF t
  <2>4. CASE ~EndsWithCRLF(text)
    <3>1. body = text /\ Clean(text)
      BY <1>1, <1>3, <2>1, <2>4
    <3>2. ~SeemsTerminated(text)
      BY <3>1, CleanIsOpen
    <3> QED
      BY <2>1, <2>2, <3>1, <3>2, TerminatedIs
  <2> QED
    BY <2>3, <2>4
<1> QED
  BY <1>4, <1>5

\* Only a text one byte shorter than a block becomes a block that is too long.
LEMMA TooLong ==
  ASSUME NEW text \in Text, Len(Terminated(Truncated(text))) > MESSAGE_LEN_MAX
  PROVE  Len(text) = MESSAGE_LEN_MAX - 1
<1> DEFINE block == Truncated(text)
<1>1. block \in Stream /\ Len(block) \in Nat /\ Len(text) \in Nat
      /\ MESSAGE_LEN_MAX \in Nat /\ CRLF_LEN_2 = 2
  BY TruncatedType, TextAssumption, MessageLenAssumption DEF Stream, CRLF_LEN_2
<1>2. Len(text) >= MESSAGE_LEN_MAX => Len(block) = MESSAGE_LEN_MAX - 2
  <2> SUFFICES ASSUME Len(text) >= MESSAGE_LEN_MAX
               PROVE  Len(block) = MESSAGE_LEN_MAX - 2
    OBVIOUS
  <2>1. MESSAGE_LEN_MAX - CRLF_LEN_2 \in Nat /\ MESSAGE_LEN_MAX - CRLF_LEN_2 <= Len(text)
    BY <1>1, MessageLenAssumption
  <2>2. text \in Stream
    BY TextAssumption DEF Stream
  <2>3. Len(SubSeq(text, 1, MESSAGE_LEN_MAX - CRLF_LEN_2)) = MESSAGE_LEN_MAX - CRLF_LEN_2
    BY <2>1, <2>2, StartOfStream
  <2> QED
    BY <1>1, <2>3 DEF Truncated
<1>3. Len(text) < MESSAGE_LEN_MAX => block = text
  BY <1>1 DEF Truncated
<1> HIDE DEF block
<1>4. Len(block) < MESSAGE_LEN_MAX
  BY <1>1, <1>2, <1>3
<1>5. Short(block) = block
  BY <1>1, <1>4, ShortType
<1>6. Terminated(block) = block \/ Terminated(block) = block \o CRLF
  BY <1>5, TerminatedIs
<1>7. Len(block \o CRLF) = Len(block) + 2
  BY <1>1, CRLFType, Concat
<1>8. Len(Terminated(block)) > MESSAGE_LEN_MAX
  BY DEF block
<1>9. Len(block) + 2 > MESSAGE_LEN_MAX
  BY <1>1, <1>4, <1>6, <1>7, <1>8
<1> QED
  BY <1>1, <1>2, <1>3, <1>4, <1>9

-----------------------------------------------------------------------------
(***************************************************************************)
(* What the texts queued for a client, and the blocks, say of its lines.   *)
(***************************************************************************)
LinesShow(ts, blocks) ==
  (\A j \in DOMAIN ts : Proper(ts[j])) =>
    /\ Ended(FlattenSeq(blocks))
    /\ Lines(FlattenSeq(blocks)) = [j \in DOMAIN ts |-> Shown(ts[j])]
    /\ \A j \in DOMAIN ts : Len(Shown(ts[j])) <= Longest

OneIsTooLong(ts) == \E j \in DOMAIN ts : Len(ts[j]) = MESSAGE_LEN_MAX - 1

ShownCalls(st, text) ==
  IF st.status = "running"
  THEN /\ Terminated(st.block) = Terminated(Truncated(text))
       /\ \A c \in Client : LinesShow(st.texts[c], st.sent[c])
  ELSE \E c \in Client : OneIsTooLong(st.texts[c])

ShownInv ==
  /\ SendingInv
  /\ IF SendingRuns THEN \A c \in Client : LinesShow(texts[c], sent[c])
     ELSE \E c \in Client : OneIsTooLong(texts[c])

\* One text more.
LEMMA OneTextMore ==
  ASSUME NEW ts \in Seq(Text), NEW text \in Text
  PROVE  /\ DOMAIN ts = 1..Len(ts) /\ Len(ts) \in Nat
         /\ DOMAIN Append(ts, text) = 1..Len(ts) + 1
         /\ Append(ts, text)[Len(ts) + 1] = text
         /\ \A j \in 1..Len(ts) : Append(ts, text)[j] = ts[j]
OBVIOUS

\* A text and its block are one line more.
LEMMA LinesShowMore ==
  ASSUME NEW ts \in Seq(Text), NEW blocks \in Seq(Stream), NEW text \in Text,
         LinesShow(ts, blocks), Len(Terminated(Truncated(text))) <= MESSAGE_LEN_MAX
  PROVE  LinesShow(Append(ts, text), Append(blocks, Terminated(Truncated(text))))
<1> DEFINE all   == Append(ts, text)
           N     == Len(ts)
           block == Terminated(Truncated(text))
           s     == FlattenSeq(blocks)
           old   == [j \in DOMAIN ts |-> Shown(ts[j])]
           new   == [j \in DOMAIN all |-> Shown(all[j])]
<1>1. SUFFICES ASSUME \A j \in DOMAIN all : Proper(all[j])
               PROVE  /\ Ended(FlattenSeq(Append(blocks, block)))
                      /\ Lines(FlattenSeq(Append(blocks, block))) = new
                      /\ \A j \in DOMAIN all : Len(Shown(all[j])) <= Longest
  BY DEF LinesShow
<1>2. /\ DOMAIN ts = 1..N /\ N \in Nat /\ DOMAIN all = 1..N + 1
      /\ all[N + 1] = text /\ \A j \in 1..N : all[j] = ts[j]
  BY OneTextMore
<1>3. text \in Stream /\ Truncated(text) \in Stream
  BY TruncatedType, TextAssumption DEF Stream
<1>4. block \in Stream
  BY <1>3, TerminatedTwice
<1>5. s \in Stream
  BY FlattenType
<1>6. FlattenSeq(Append(blocks, block)) = s \o block
  BY <1>4, FlattenAppend
<1>7. Len(block) <= MESSAGE_LEN_MAX
  OBVIOUS
<1> HIDE DEF all, N
<1>8. N + 1 \in 1..N + 1 /\ \A j \in 1..N : j \in 1..N + 1
  BY <1>2
<1>9. Proper(text) /\ \A j \in DOMAIN ts : Proper(ts[j])
  BY <1>1, <1>2, <1>8
<1>10. block = Shown(text) \o CRLF /\ Shown(text) \in Stream /\ Clean(Shown(text))
  BY <1>3, <1>9, SentAsShown, ShownType
<1>11. Ended(s) /\ Lines(s) = old
  BY <1>9 DEF LinesShow
<1> HIDE DEF s, block
<1>12. Ended(s \o block) /\ Lines(s \o block) = Append(old, Shown(text))
  BY <1>5, <1>10, <1>11, OneLineMore
<1>13. \A j \in 1..N : ts[j] \in Stream /\ Proper(ts[j])
  <2>1. \A j \in 1..N : ts[j] \in Text
    BY <1>2 DEF N
  <2> QED
    BY <1>2, <1>9, <2>1, TextAssumption DEF Stream
<1>14. \A j \in 1..N : old[j] = Shown(ts[j]) /\ Shown(ts[j]) \in Stream
  BY <1>2, <1>13, ShownType
<1>15. DOMAIN old = 1..N /\ old = [j \in 1..N |-> old[j]]
  BY <1>2
<1> HIDE DEF old
<1>16. old \in Seq(Stream) /\ Len(old) = N
  <2>1. \A j \in 1..N : old[j] \in Stream
    BY <1>14
  <2>2. old \in [1..N -> Stream]
    BY <1>15, <2>1
  <2> QED
    BY <1>2, <2>2
<1>17. /\ Append(old, Shown(text)) \in Seq(Stream)
       /\ Len(Append(old, Shown(text))) = N + 1
       /\ Append(old, Shown(text))[N + 1] = Shown(text)
       /\ \A j \in 1..N : Append(old, Shown(text))[j] = old[j]
  BY <1>10, <1>16
<1>18. \A j \in 1..N + 1 : new[j] = Append(old, Shown(text))[j]
  <2> TAKE j \in 1..N + 1
  <2>1. new[j] = Shown(all[j])
    BY <1>2
  <2>2. CASE j = N + 1
    BY <1>2, <1>17, <2>1, <2>2
  <2>3. CASE j # N + 1
    <3>1. j \in 1..N
      BY <1>2, <2>3
    <3> HIDE DEF new
    <3> QED
      BY <1>2, <1>14, <1>17, <2>1, <3>1
  <2> QED
    BY <2>2, <2>3
<1>19. DOMAIN new = 1..N + 1 /\ new = [j \in 1..N + 1 |-> new[j]]
  BY <1>2
<1> HIDE DEF new
<1>20. new = Append(old, Shown(text))
  <2> DEFINE q == Append(old, Shown(text))
  <2>1. q \in Seq(Stream) /\ Len(q) = N + 1 /\ \A j \in 1..N + 1 : new[j] = q[j]
    BY <1>17, <1>18
  <2> HIDE DEF q
  <2>2. \A j \in 1..N + 1 : q[j] \in Stream
    BY <2>1
  <2>3. new \in [1..N + 1 -> Stream]
    BY <1>19, <2>1, <2>2
  <2>4. N + 1 \in Nat
    BY <1>2
  <2>5. new \in Seq(Stream) /\ Len(new) = N + 1
    BY <2>3, <2>4
  <2>6. new = q
    BY <2>1, <2>5, SeqEqual
  <2> QED
    BY <2>6 DEF q
<1>21. \A j \in DOMAIN all : Len(Shown(all[j])) <= Longest
  <2>1. Len(Shown(text)) <= Longest
    <3> DEFINE line == Shown(text)
    <3>1. block = line \o CRLF /\ line \in Stream
      BY <1>10
    <3>2. CRLF \in Stream /\ Len(CRLF) = 2
      BY CRLFType DEF CRLF, CRLF_LEN_2
    <3> HIDE DEF line
    <3>3. Len(line \o CRLF) = Len(line) + Len(CRLF) /\ Len(line) \in Nat
      <4>1. line \in Seq(Byte) /\ CRLF \in Seq(Byte)
        BY <3>1, <3>2 DEF Stream
      <4> QED
        BY ONLY <4>1
    <3>4. Len(line) <= MESSAGE_LEN_MAX - 2
      BY <1>7, <3>1, <3>2, <3>3, MessageLenAssumption
    <3> QED
      BY <3>4 DEF line, Longest, CRLF_LEN_2
  <2>2. \A j \in 1..N : Len(Shown(ts[j])) <= Longest
    BY <1>2, <1>9 DEF LinesShow
  <2> QED
    BY <1>2, <2>1, <2>2
<1> QED
  BY <1>6, <1>12, <1>20, <1>21

\* A text that is too long stays among the texts.
LEMMA TooLongStays ==
  ASSUME NEW ts \in Seq(Text), NEW text \in Text,
         OneIsTooLong(ts) \/ Len(text) = MESSAGE_LEN_MAX - 1
  PROVE  OneIsTooLong(Append(ts, text))
<1>1. /\ DOMAIN ts = 1..Len(ts) /\ Len(ts) \in Nat
      /\ DOMAIN Append(ts, text) = 1..Len(ts) + 1
      /\ Append(ts, text)[Len(ts) + 1] = text
      /\ \A j \in 1..Len(ts) : Append(ts, text)[j] = ts[j]
  BY OneTextMore
<1>2. Len(ts) + 1 \in 1..Len(ts) + 1 /\ \A j \in 1..Len(ts) : j \in 1..Len(ts) + 1
  BY <1>1
<1> QED
  BY <1>1, <1>2 DEF OneIsTooLong

\* A call makes the same block of a text as the first one did.
LEMMA CallShows ==
  ASSUME NEW text \in Text, NEW st \in CallState, ShownCalls(st, text), NEW d \in Client
  PROVE  ShownCalls(SendMsgToClient(st, d, text), text)
<1> DEFINE next  == SendMsgToClient(st, d, text)
           block == Terminated(st.block)
<1>1. /\ st.block \in Stream /\ st.texts \in [Client -> Seq(Text)]
      /\ st.sent \in [Client -> Seq(Stream)] /\ st.status \in {"running", "corrupted"}
  BY DEF CallState
<1>2. /\ next.block = block
      /\ next.texts = [st.texts EXCEPT ![d] = Append(@, text)]
      /\ next.sent = [st.sent EXCEPT ![d] = Append(@, block)]
      /\ next.status = IF Len(block) <= MESSAGE_LEN_MAX THEN st.status ELSE "corrupted"
  BY DEF SendMsgToClient
<1>3. /\ block \in Stream /\ Len(block) \in Nat
      /\ Len(block) <= MESSAGE_LEN_MAX => Terminated(block) = block
  BY <1>1, TerminatedTwice
<1> HIDE DEF next, block
<1>4. next.texts[d] = Append(st.texts[d], text) /\ next.sent[d] = Append(st.sent[d], block)
      /\ \A c \in Client \ {d} : next.texts[c] = st.texts[c] /\ next.sent[c] = st.sent[c]
  BY <1>1, <1>2
<1>5. \A c \in Client : st.texts[c] \in Seq(Text) /\ st.sent[c] \in Seq(Stream)
  BY <1>1
<1>6. CASE st.status = "running" /\ Len(block) <= MESSAGE_LEN_MAX
  <2>1. block = Terminated(Truncated(text)) /\ \A c \in Client : LinesShow(st.texts[c], st.sent[c])
    BY <1>6 DEF ShownCalls, block
  <2>2. next.status = "running" /\ Terminated(next.block) = Terminated(Truncated(text))
    <3>1. next.status = st.status
      BY <1>2, <1>6
    <3>2. Terminated(block) = block
      BY <1>3, <1>6
    <3> QED
      BY <1>2, <1>6, <2>1, <3>1, <3>2
  <2>3. LinesShow(next.texts[d], next.sent[d])
    BY <1>4, <1>5, <1>6, <2>1, LinesShowMore
  <2>4. \A c \in Client : LinesShow(next.texts[c], next.sent[c])
    BY <1>4, <2>1, <2>3
  <2> QED
    BY <2>2, <2>4 DEF ShownCalls, next
<1>7. CASE ~(st.status = "running" /\ Len(block) <= MESSAGE_LEN_MAX)
  <2>1. next.status # "running"
    BY <1>1, <1>2, <1>7
  <2>2. \E c \in Client : OneIsTooLong(next.texts[c])
    <3>1. CASE st.status # "running"
      <4>1. PICK c \in Client : OneIsTooLong(st.texts[c])
        BY <3>1 DEF ShownCalls
      <4>2. OneIsTooLong(next.texts[c])
        BY <1>4, <1>5, <4>1, TooLongStays
      <4> QED
        BY <4>2
    <3>2. CASE st.status = "running"
      <4>1. block = Terminated(Truncated(text)) /\ ~(Len(block) <= MESSAGE_LEN_MAX)
        BY <1>7, <3>2 DEF ShownCalls, block
      <4>2. Len(Terminated(Truncated(text))) > MESSAGE_LEN_MAX
        BY <1>3, <4>1, MessageLenAssumption
      <4>3. Len(text) = MESSAGE_LEN_MAX - 1
        BY <4>2, TooLong
      <4>4. OneIsTooLong(next.texts[d])
        BY <1>4, <1>5, <4>3, TooLongStays
      <4> QED
        BY <4>4
    <3> QED
      BY <3>1, <3>2
  <2> QED
    BY <2>1, <2>2 DEF ShownCalls, next
<1> QED
  BY <1>6, <1>7

\* The calls for all receivers make the same block of it.
LEMMA CallsShow ==
  ASSUME ShownInv, SendingRuns, NEW text \in Text, NEW receivers \in Seq(Client)
  PROVE  ShownCalls(AfterCalls(text, receivers), text)
<1> DEFINE N == Len(receivers)
<1>1. SendingTypeOK
  BY DEF ShownInv, SendingInv
<1>2. N \in Nat /\ \A n \in 1..N : receivers[n] \in Client
  OBVIOUS
<1>3. PICK f : Calls(text, receivers, f)
  BY <1>1, CallsExist
<1>4. ShownCalls(BeforeCalls(text), text)
  BY DEF ShownInv, SendingRuns, BeforeCalls, ShownCalls
<1>5. 0..N \subseteq {n \in 0..N : ShownCalls(f[n], text)}
  <2> DEFINE T == {n \in 0..N : ShownCalls(f[n], text)}
  <2>1. 0 \in T
    BY <1>2, <1>3, <1>4 DEF Calls
  <2>2. ASSUME NEW n \in 0..N - 1, n \in T
        PROVE  n + 1 \in T
    <3>1. n + 1 \in 1..N /\ n + 1 \in 0..N /\ (n + 1) - 1 = n /\ n \in 0..N
      BY <1>2
    <3>2. f[n] \in CallState /\ f[n + 1] = SendMsgToClient(f[n], receivers[n + 1], text)
      BY <1>3, <3>1 DEF Calls
    <3>3. ShownCalls(f[n], text) /\ receivers[n + 1] \in Client
      BY <1>2, <2>2, <3>1
    <3>4. ShownCalls(f[n + 1], text)
      BY <3>2, <3>3, CallShows
    <3> QED
      BY <3>1, <3>4
  <2> HIDE DEF T, N
  <2>3. 0..N \subseteq T
    BY <1>2, <2>1, <2>2, InductionUpTo
  <2> QED
    BY <2>3 DEF T
<1>6. N \in 0..N
  BY <1>2
<1> QED
  BY <1>3, <1>5, <1>6 DEF Calls

\* Nothing has been sent, which is no line.
LEMMA ShownInvInit == SendingInit => ShownInv
<1> SUFFICES ASSUME SendingInit
             PROVE  ShownInv
  OBVIOUS
<1>1. SendingInv /\ SendingRuns
  BY SendingInvInit DEF SendingInit, SendingRuns
<1>2. ASSUME NEW c \in Client
      PROVE  LinesShow(texts[c], sent[c])
  <2>1. texts[c] = <<>> /\ sent[c] = <<>>
    BY DEF SendingInit
  <2>2. FlattenSeq(sent[c]) = <<>>
    BY <2>1, FlattenEmpty
  <2>3. <<>> \in Stream /\ Len(<<>>) = 0
    BY DEF Stream
  <2>4. Lines(<<>>) = <<>>
    BY <2>3, LinesAre DEF Lines
  <2>5. [j \in DOMAIN texts[c] |-> Shown(texts[c][j])] = <<>> /\ DOMAIN texts[c] = {}
    BY <2>1
  <2> QED
    BY <2>2, <2>4, <2>5 DEF LinesShow, Ended
<1> QED
  BY <1>1, <1>2 DEF ShownInv

\* Every step keeps the invariant.
LEMMA ShownInvNext == ShownInv /\ [SendingNext]_sendingVars => ShownInv'
<1> SUFFICES ASSUME ShownInv, [SendingNext]_sendingVars
             PROVE  ShownInv'
  OBVIOUS
<1>1. SendingInv'
  BY SendingInvNext DEF ShownInv
<1>2. ASSUME NEW text \in Text, NEW k \in 1..RECEIVERS_MAX, NEW receivers \in [1..k -> Client],
             SendMsg(text, receivers)
      PROVE  ShownInv'
  <2> DEFINE st == AfterCalls(text, receivers)
  <2>1. receivers \in Seq(Client)
    BY BoundAssumption
  <2>2. SendingRuns /\ texts' = st.texts /\ sent' = st.sent /\ sendingStatus' = st.status
    BY <1>2 DEF SendMsg
  <2>3. ShownCalls(st, text)
    BY <2>1, <2>2, CallsShow
  <2> HIDE DEF st
  <2> QED
    BY <1>1, <2>2, <2>3 DEF ShownInv, ShownCalls, SendingRuns
<1>3. ASSUME UNCHANGED <<texts, sent, sendingStatus>>
      PROVE  ShownInv'
  BY <1>1, <1>3 DEF ShownInv, SendingRuns
<1>4. ASSUME NEW c \in Client, NEW n \in 1..MESSAGE_LEN_MAX, WriteEvent(c, n)
      PROVE  ShownInv'
  BY <1>3, <1>4 DEF WriteEvent
<1>5. CASE UNCHANGED sendingVars
  BY <1>3, <1>5 DEF sendingVars
<1> QED
  BY <1>2, <1>4, <1>5 DEF SendingNext

\* A peer that splits what it receives at CR-LF gets the messages meant for it, one by
\* one, the long ones truncated, as long as their texts are proper; and only a text one
\* byte shorter than a block is written behind its end.
THEOREM FramedAsSentHolds == SendingSpec => []FramedAsSent
<1>1. ShownInv => FramedAsSent
  <2> SUFFICES ASSUME ShownInv
               PROVE  FramedAsSent
    OBVIOUS
  <2>1. SendingRuns => \A c \in Client : wire[c] \o Remaining(c) = FlattenSeq(sent[c])
    BY DEF ShownInv, SendingInv, WireIsQueue
  <2> QED
    BY <2>1 DEF ShownInv, FramedAsSent, LinesShow, OneIsTooLong
<1> QED
  BY <1>1, ShownInvInit, ShownInvNext, PTL DEF SendingSpec

-----------------------------------------------------------------------------
(***************************************************************************)
(* A connection: what one client is sent (Sending) reaches a reader that   *)
(* cuts it into messages as the server does (Framing).  The reader gets    *)
(* the bytes in order; how many at a time is up to it.                     *)
(***************************************************************************)

Connected(c) == IsPrefix(stream, wire[c])

\* The messages the server meant to send to c.
MeantFor(c)  == [j \in DOMAIN texts[c] |-> Shown(texts[c][j])]
AllProper(c) == \A j \in DOMAIN texts[c] : Proper(texts[c][j])

\* Everything sent has arrived, and the reader has gone through it.
AllRead(c) == Remaining(c) = <<>> /\ stream = wire[c] /\ queued = 0

\* The reader gets the messages meant for it, each of them once and in order, none is
\* dropped for its length, none written behind a block, and in the end none is left.
DeliveredAsMeant(c) ==
  /\ IsPrefix(delivered, MeantFor(c))
  /\ AllRead(c) /\ FramingRuns /\ ~Stalled => delivered = MeantFor(c)
  /\ framingStatus # "corrupted"

\* A prefix has the elements of what it is a prefix of.
LEMMA PrefixByElements ==
  ASSUME NEW S, NEW s \in Seq(S), NEW t \in Seq(S), IsPrefix(s, t)
  PROVE  /\ Len(s) \in Nat /\ Len(t) \in Nat /\ Len(s) <= Len(t)
         /\ DOMAIN s = 1..Len(s) /\ DOMAIN t = 1..Len(t)
         /\ \A k \in 1..Len(s) : k \in DOMAIN t /\ t[k] = s[k]
<1>1. Len(s) \in Nat /\ Len(t) \in Nat /\ Len(s) <= Len(t)
  BY DEF IsPrefix
<1>2. SubSeq(s, 1, Len(s)) = SubSeq(t, 1, Len(s))
  BY DEF IsPrefix
<1>3. \A k \in 1..Len(s) : SubSeq(s, 1, Len(s))[k] = s[k] /\ SubSeq(t, 1, Len(s))[k] = t[k]
  BY <1>1
<1> QED
  BY <1>1, <1>2, <1>3

\* A sequence whose elements are the first ones of another is a prefix of it.
LEMMA PrefixFromElements ==
  ASSUME NEW S, NEW s \in Seq(S), NEW t \in Seq(S), Len(s) <= Len(t),
         \A k \in 1..Len(s) : t[k] = s[k]
  PROVE  IsPrefix(s, t)
<1> DEFINE u == SubSeq(s, 1, Len(s))
           v == SubSeq(t, 1, Len(s))
<1>1. Len(s) \in Nat /\ Len(t) \in Nat
  OBVIOUS
<1>2. u \in Seq(S) /\ Len(u) = Len(s) /\ \A k \in 1..Len(s) : u[k] = s[k]
  BY <1>1
<1>3. v \in Seq(S) /\ Len(v) = Len(s) /\ \A k \in 1..Len(s) : v[k] = t[k]
  BY <1>1
<1> HIDE DEF u, v
<1>4. u = v
  <2>1. \A k \in 1..Len(u) : u[k] = v[k]
    BY <1>2, <1>3
  <2> QED
    BY <1>2, <1>3, <2>1, SeqEqual
<1> QED
  BY <1>1, <1>4 DEF IsPrefix, u, v

LEMMA PrefixIsReflexive ==
  ASSUME NEW S, NEW s \in Seq(S)
  PROVE  IsPrefix(s, s)
BY DEF IsPrefix

\* What is a prefix of a sequence is one of a longer sequence.
LEMMA PrefixOfLonger ==
  ASSUME NEW S, NEW s \in Seq(S), NEW t \in Seq(S), NEW x \in S, IsPrefix(s, t)
  PROVE  IsPrefix(s, Append(t, x))
<1>1. /\ Len(s) \in Nat /\ Len(t) \in Nat /\ Len(s) <= Len(t)
      /\ \A k \in 1..Len(s) : k \in DOMAIN t /\ t[k] = s[k]
  BY PrefixByElements
<1> DEFINE u == Append(t, x)
<1>2. u \in Seq(S) /\ Len(u) = Len(t) + 1 /\ \A k \in 1..Len(t) : u[k] = t[k]
  OBVIOUS
<1> HIDE DEF u
<1>3. Len(s) <= Len(u) /\ \A k \in 1..Len(s) : u[k] = s[k]
  BY <1>1, <1>2
<1>4. IsPrefix(s, u)
  BY <1>2, <1>3, PrefixFromElements
<1> QED
  BY <1>4 DEF u

\* The lines of the first bytes are the first lines.
LEMMA LinesGrow ==
  ASSUME NEW s \in Stream, NEW longest, NEW n \in 0..Len(s)
  PROVE  IsPrefix(LinesBy(s, longest)[n], LinesBy(s, longest)[Len(s)])
<1> DEFINE N == Len(s)
           f == LinesBy(s, longest)
           T == {d \in 0..N - n : IsPrefix(f[n], f[n + d])}
<1>1. N \in Nat /\ n \in 0..N
  BY DEF Stream
<1>2. f \in [0..N -> Seq(Stream)] /\ \A k \in 1..N : f[k] = OneByteMore(s, longest, k, f[k - 1])
  BY LinesAre
<1> HIDE DEF f, N
<1>3. f[n] \in Seq(Stream)
  BY <1>1, <1>2
<1>4. 0 \in T
  <2>1. 0 \in 0..N - n /\ n + 0 = n
    BY <1>1
  <2> QED
    BY <1>3, <2>1, PrefixIsReflexive
<1>5. ASSUME NEW d \in 0..(N - n) - 1, d \in T
      PROVE  d + 1 \in T
  <2>1. /\ d + 1 \in 0..N - n /\ n + (d + 1) \in 1..N /\ (n + (d + 1)) - 1 = n + d
        /\ n + d \in 0..N
    BY <1>1
  <2>2. f[n + (d + 1)] = OneByteMore(s, longest, n + (d + 1), f[n + d])
    BY <1>2, <2>1
  <2>3. f[n + d] \in Seq(Stream)
    BY <1>2, <2>1
  <2>4. CASE f[n + (d + 1)] = f[n + d]
    BY <1>5, <2>1, <2>4
  <2>5. CASE n + (d + 1) \in Ends(s) /\ f[n + (d + 1)] = Append(f[n + d], LineAt(s, n + (d + 1)))
    <3>1. LineAt(s, n + (d + 1)) \in Stream
      BY <2>5, LineAtType
    <3>2. IsPrefix(f[n], f[n + (d + 1)])
      BY <1>3, <1>5, <2>3, <2>5, <3>1, PrefixOfLonger
    <3> QED
      BY <2>1, <3>2
  <2> QED
    BY <2>2, <2>4, <2>5 DEF OneByteMore
<1> HIDE DEF T
<1>6. N - n \in Nat /\ n + (N - n) = N
  BY <1>1
<1>7. 0..N - n \subseteq T
  BY <1>4, <1>5, <1>6, InductionUpTo
<1>8. N - n \in T
  BY <1>6, <1>7
<1> QED
  BY <1>6, <1>8 DEF T, f, N

\* Every end has its line.
LEMMA EveryLineIsThere ==
  ASSUME NEW s \in Stream, NEW n \in Ends(s)
  PROVE  \E k \in DOMAIN Lines(s) : Lines(s)[k] = LineAt(s, n)
<1> DEFINE N    == Len(s)
           f    == LinesBy(s, N)
           line == LineAt(s, n)
<1>1. /\ n \in 2..N /\ LastEnd(s, n - 1) \in 0..n - 2 /\ line \in Stream
      /\ Len(line) = n - CRLF_LEN_2 - LastEnd(s, n - 1)
  BY LineAtType
<1>2. N \in Nat
  BY DEF Stream
<1>3. f \in [0..N -> Seq(Stream)] /\ \A k \in 1..N : f[k] = OneByteMore(s, N, k, f[k - 1])
  BY LinesAre
<1>4. IsPrefix(f[n], f[N])
  <2>1. n \in 0..N
    BY <1>1, <1>2
  <2> QED
    BY <2>1, LinesGrow
<1>5. Lines(s) = f[N]
  BY DEF Lines
<1> HIDE DEF f, line, N
<1>6. Len(line) <= N
  <2> DEFINE e == LastEnd(s, n - 1)
  <2> HIDE DEF e
  <2>1. Len(line) = n - 2 - e /\ e \in 0..n - 2
    BY <1>1 DEF e, CRLF_LEN_2
  <2> QED
    BY <1>1, <1>2, <2>1
<1>7. /\ n \in 1..N /\ n - 1 \in 0..N /\ n \in 0..N /\ N \in 0..N
  BY <1>1, <1>2
<1>8. f[n] = Append(f[n - 1], line)
  BY <1>3, <1>6, <1>7 DEF OneByteMore, line
<1> DEFINE old == f[n - 1]
           new == f[n]
           all == f[N]
<1>9. old \in Seq(Stream) /\ new \in Seq(Stream) /\ all \in Seq(Stream)
  BY <1>3, <1>7
<1>10. new = Append(old, line) /\ IsPrefix(new, all)
  BY <1>4, <1>8
<1> HIDE DEF old, new, all
<1>11. Len(new) \in 1..Len(new) /\ new[Len(new)] = line
  BY <1>1, <1>9, <1>10
<1>12. Len(new) \in DOMAIN all /\ all[Len(new)] = new[Len(new)]
  BY <1>9, <1>10, <1>11, PrefixByElements
<1> QED
  BY <1>5, <1>11, <1>12 DEF all, line

\* A bound that no line exceeds leaves none out.
LEMMA LinesFit ==
  ASSUME NEW s \in Stream, NEW longest \in Int,
         \A k \in DOMAIN Lines(s) : Len(Lines(s)[k]) <= longest
  PROVE  LinesBy(s, longest)[Len(s)] = Lines(s)
<1> DEFINE N == Len(s)
           f == LinesBy(s, longest)
           g == LinesBy(s, N)
           T == {n \in 0..N : f[n] = g[n]}
<1>1. N \in Nat
  BY DEF Stream
<1>2. f[0] = <<>> /\ \A n \in 1..N : f[n] = OneByteMore(s, longest, n, f[n - 1])
  BY LinesAre
<1>3. g[0] = <<>> /\ \A n \in 1..N : g[n] = OneByteMore(s, N, n, g[n - 1])
  BY LinesAre
<1>4. ASSUME NEW n \in Ends(s)
      PROVE  Len(LineAt(s, n)) <= N /\ Len(LineAt(s, n)) <= longest
  <2>1. PICK k \in DOMAIN Lines(s) : Lines(s)[k] = LineAt(s, n)
    BY EveryLineIsThere
  <2>2. Len(LineAt(s, n)) <= longest
    BY <2>1
  <2>3. /\ n \in 2..N /\ LastEnd(s, n - 1) \in 0..n - 2
        /\ Len(LineAt(s, n)) = n - CRLF_LEN_2 - LastEnd(s, n - 1)
    BY LineAtType
  <2> DEFINE e == LastEnd(s, n - 1)
             l == Len(LineAt(s, n))
  <2> HIDE DEF e, l
  <2>4. n \in 2..N /\ e \in 0..n - 2 /\ l = n - 2 - e
    BY <2>3 DEF CRLF_LEN_2, e, l
  <2>5. l <= N
    BY <1>1, <2>4
  <2> QED
    BY <2>2, <2>5 DEF l
<1>5. Lines(s) = g[N]
  BY DEF Lines
<1> HIDE DEF f, g, N
<1>6. 0 \in T
  BY <1>1, <1>2, <1>3
<1>7. ASSUME NEW n \in 0..N - 1, n \in T
      PROVE  n + 1 \in T
  <2>1. n + 1 \in 1..N /\ n + 1 \in 0..N /\ (n + 1) - 1 = n
    BY <1>1
  <2>2. f[n + 1] = OneByteMore(s, longest, n + 1, f[n])
    BY <1>2, <2>1
  <2>3. g[n + 1] = OneByteMore(s, N, n + 1, g[n])
    BY <1>3, <2>1
  <2> QED
    BY <1>4, <1>7, <2>1, <2>2, <2>3 DEF OneByteMore
<1> HIDE DEF T
<1>8. 0..N \subseteq T
  BY <1>1, <1>6, <1>7, InductionUpTo
<1>9. N \in T
  BY <1>1, <1>8
<1> QED
  BY <1>5, <1>9 DEF T, f, N

\* What a queue still holds is a stream.
LEMMA RemainingType ==
  ASSUME SendingTypeOK, NEW c \in Client
  PROVE  Remaining(c) \in Stream
<1> DEFINE all == FlattenSeq(Blocks(Msg, MsgSendingQueue[c]))
           cur == SendMsgBlockCursor[c]
<1>1. Msg \in Seq(Stream) /\ MsgSendingQueue[c] \in Seq(DOMAIN Msg) /\ cur \in Nat
  BY DEF SendingTypeOK, Stream
<1>2. all \in Stream
  BY <1>1, BlocksType, FlattenType
<1>3. Remaining(c) = SubSeq(all, cur + 1, Len(all))
  BY RemainingIs DEF Rest
<1> HIDE DEF all, cur
<1>4. Len(all) \in Nat /\ Len(all) <= Len(all)
  BY <1>2 DEF Stream
<1>5. CASE cur <= Len(all)
  BY <1>1, <1>2, <1>3, <1>4, <1>5, PartOfStream
<1>6. CASE ~(cur <= Len(all))
  <2>1. cur + 1 > Len(all) /\ cur + 1 \in Nat
    BY <1>1, <1>4, <1>6
  <2>2. SubSeq(all, cur + 1, Len(all)) = <<>>
    BY <1>2, <1>4, <2>1 DEF Stream
  <2>3. <<>> \in Stream
    BY DEF Stream
  <2> QED
    BY <1>3, <2>2, <2>3
<1> QED
  BY <1>5, <1>6

\* What the reader has received is the beginning of what c has been sent, whose lines are
\* the messages meant for c, none longer than a block holds.
LEMMA ConnectionFacts ==
  ASSUME FramingInv, ShownInv, SendingRuns, NEW c \in Client, AllProper(c), Connected(c),
         NEW all, all = FlattenSeq(sent[c])
  PROVE  /\ all = wire[c] \o Remaining(c) /\ all \in Stream /\ Len(all) \in Nat
         /\ Ended(all) /\ Lines(all) = MeantFor(c)
         /\ LinesBy(all, Longest)[Len(all)] = Lines(all)
         /\ \A n \in Ends(all) : Len(LineAt(all, n)) <= Longest
         /\ stream \in Stream /\ Len(stream) \in Nat /\ Len(stream) <= Len(all)
         /\ \A k \in 1..Len(stream) : stream[k] = all[k]
<1>1. SendingTypeOK /\ WireIsQueue /\ LinesShow(texts[c], sent[c])
  BY DEF ShownInv, SendingInv
<1>2. all = wire[c] \o Remaining(c)
  BY <1>1 DEF WireIsQueue
<1>3. sent[c] \in Seq(Stream) /\ wire[c] \in Stream
  BY <1>1 DEF SendingTypeOK, Stream
<1>4. all \in Stream /\ Len(all) \in Nat
  <2>1. all \in Stream
    BY <1>3, FlattenType
  <2> QED
    BY <2>1 DEF Stream
<1>5. /\ Ended(all) /\ Lines(all) = MeantFor(c)
      /\ \A j \in DOMAIN texts[c] : Len(Shown(texts[c][j])) <= Longest
  BY <1>1 DEF AllProper, LinesShow, MeantFor
<1>6. \A k \in DOMAIN Lines(all) : Len(Lines(all)[k]) <= Longest
  BY <1>5 DEF MeantFor
<1>7. Longest \in Int
  BY MessageLenAssumption DEF Longest, CRLF_LEN_2
<1>8. LinesBy(all, Longest)[Len(all)] = Lines(all)
  BY <1>4, <1>6, <1>7, LinesFit
<1>9. ASSUME NEW n \in Ends(all)
      PROVE  Len(LineAt(all, n)) <= Longest
  <2>1. PICK k \in DOMAIN Lines(all) : Lines(all)[k] = LineAt(all, n)
    BY <1>4, EveryLineIsThere
  <2> QED
    BY <1>6, <2>1
<1>10. stream \in Stream /\ Len(stream) \in Nat
  BY BlockFacts DEF FramingInv
<1>11. /\ Len(stream) <= Len(wire[c]) /\ Len(wire[c]) \in Nat
       /\ \A k \in 1..Len(stream) : wire[c][k] = stream[k]
  BY <1>3, <1>10, PrefixByElements DEF Connected, Stream
<1>12. Remaining(c) \in Stream
  BY <1>1, RemainingType
<1>13. /\ Len(all) = Len(wire[c]) + Len(Remaining(c)) /\ Len(Remaining(c)) \in Nat
       /\ \A k \in 1..Len(wire[c]) : all[k] = wire[c][k]
  <2> DEFINE w == wire[c]
             r == Remaining(c)
  <2>1. w \in Seq(Byte) /\ r \in Seq(Byte) /\ all = w \o r
    BY <1>2, <1>3, <1>12 DEF Stream
  <2> HIDE DEF w, r
  <2>2. /\ Len(all) = Len(w) + Len(r) /\ Len(r) \in Nat /\ \A k \in 1..Len(w) : all[k] = w[k]
    BY ONLY <2>1
  <2> QED
    BY <2>2 DEF w, r
<1>14. Len(stream) <= Len(all) /\ \A k \in 1..Len(stream) : stream[k] = all[k]
  <2>1. \A k \in 1..Len(stream) : k \in 1..Len(wire[c])
    BY <1>10, <1>11
  <2> QED
    BY <1>10, <1>11, <1>13, <2>1
<1> QED
  BY <1>2, <1>4, <1>5, <1>8, <1>9, <1>10, <1>14

\* What has been delivered are the first of the messages.
LEMMA DeliveredInOrder ==
  ASSUME FramingInv, ShownInv, SendingRuns, NEW c \in Client, AllProper(c), Connected(c)
  PROVE  IsPrefix(delivered, MeantFor(c))
<1> DEFINE all == FlattenSeq(sent[c])
           p   == ParsedTo
<1>1. /\ all \in Stream /\ Len(all) \in Nat
      /\ Lines(all) = MeantFor(c) /\ LinesBy(all, Longest)[Len(all)] = Lines(all)
      /\ stream \in Stream /\ Len(stream) \in Nat /\ Len(stream) <= Len(all)
      /\ \A k \in 1..Len(stream) : stream[k] = all[k]
  BY ConnectionFacts
<1>2. p \in 0..Len(stream) /\ delivered = LinesBy(stream, Longest)[p]
  BY BlockFacts DEF FramingInv
<1> HIDE DEF all, p
<1>3. /\ p \in Nat /\ p <= Len(stream) /\ p <= Len(all) /\ p \in 0..Len(all)
      /\ \A k \in 1..p : stream[k] = all[k]
  BY <1>1, <1>2
<1>4. LinesBy(stream, Longest)[p] = LinesBy(all, Longest)[p]
  BY <1>1, <1>3, LinesAgree
<1>5. IsPrefix(LinesBy(all, Longest)[p], LinesBy(all, Longest)[Len(all)])
  BY <1>1, <1>3, LinesGrow
<1> QED
  BY <1>1, <1>2, <1>4, <1>5

\* A stream that ends with a line has been cut up to its end, if no lines are left behind
\* the line it has been cut up to.
LEMMA NoneLeftIsAll ==
  ASSUME NEW s \in Stream, Ended(s), NEW p \in 0..Len(s), p = 0 \/ p \in Ends(s),
         Lines(SubSeq(s, p + 1, Len(s))) = <<>>
  PROVE  p = Len(s)
<1> DEFINE N    == Len(s)
           rest == SubSeq(s, p + 1, N)
<1>1. N \in Nat /\ p \in 0..N /\ p \in Nat /\ p <= N
  BY DEF Stream
<1>2. SUFFICES ASSUME p # N
               PROVE  FALSE
  OBVIOUS
<1>3. N \in Ends(s)
  BY <1>1, <1>2 DEF Ended
<1>4. N \in 2..N /\ s[N - 1] = "CR" /\ s[N] = "LF"
  BY <1>3 DEF Ends
<1>5. p # N - 1
  <2>1. p \in Ends(s) => s[p] = "LF"
    BY DEF Ends
  <2> QED
    BY <1>1, <1>4, <2>1
<1>6. rest \in Stream /\ Len(rest) = N - p /\ \A k \in 1..N - p : rest[k] = s[p + k]
  BY <1>1, PartOfStream
<1> HIDE DEF rest, N
<1>7. /\ N - p \in 2..N - p /\ (N - p) - 1 \in 1..N - p /\ N - p \in 1..N - p
      /\ p + ((N - p) - 1) = N - 1 /\ p + (N - p) = N
  BY <1>1, <1>2, <1>4, <1>5
<1>8. rest[(N - p) - 1] = "CR" /\ rest[N - p] = "LF"
  BY <1>4, <1>6, <1>7
<1>9. N - p \in Ends(rest)
  BY <1>6, <1>7, <1>8 DEF Ends
<1>10. PICK k \in DOMAIN Lines(rest) : TRUE
  BY <1>6, <1>9, EveryLineIsThere
<1>11. Lines(rest) = <<>>
  BY DEF rest, N
<1> QED
  BY <1>10, <1>11

\* When all has arrived and been gone through, all has been delivered.
LEMMA DeliveredAtLast ==
  ASSUME FramingInv, ShownInv, SendingRuns, NEW c \in Client, AllProper(c), Connected(c),
         AllRead(c), FramingRuns, ~Stalled
  PROVE  delivered = MeantFor(c)
<1> DEFINE all == FlattenSeq(sent[c])
           p   == ParsedTo
<1>1. /\ all = wire[c] \o Remaining(c) /\ all \in Stream /\ Ended(all)
      /\ Lines(all) = MeantFor(c) /\ LinesBy(all, Longest)[Len(all)] = Lines(all)
      /\ stream \in Stream
  BY ConnectionFacts
<1>2. /\ p \in 0..Len(stream) /\ delivered = LinesBy(stream, Longest)[p]
      /\ p = 0 \/ p \in Ends(stream)
  <2>1. p = 0 \/ p \in Ends(stream)
    BY DEF FramingInv, BlocksInv, CursorBehindLine
  <2> QED
    BY <2>1, BlockFacts DEF FramingInv
<1>3. Lines(SubSeq(stream, p + 1, Len(stream))) = <<>>
  BY DEF FramingInv, CompleteOrStalled, AllRead
<1> HIDE DEF all, p
<1>4. all = stream
  BY <1>1 DEF AllRead, Stream
<1>5. p = Len(stream)
  BY <1>1, <1>2, <1>3, <1>4, NoneLeftIsAll
<1> QED
  BY <1>1, <1>2, <1>4, <1>5

\* No message fills the reader's block before its end has arrived.
LEMMA NeverOverflows ==
  ASSUME FramingInv, ShownInv, SendingRuns, NEW c \in Client, AllProper(c), Connected(c)
  PROVE  framingStatus # "corrupted"
<1> DEFINE all == FlattenSeq(sent[c])
           m   == Len(stream)
           N   == Len(all)
           e   == LastEnd(stream, m)
<1>1. /\ all \in Stream /\ N \in Nat /\ Ended(all)
      /\ \A n \in Ends(all) : Len(LineAt(all, n)) <= Longest
      /\ stream \in Stream /\ m \in Nat /\ m <= N
      /\ \A k \in 1..m : stream[k] = all[k]
  BY ConnectionFacts
<1>2. SUFFICES ASSUME Len(Unfinished) >= MESSAGE_LEN_MAX
               PROVE  FALSE
  BY DEF FramingInv, ShortMessagesAreSafe
<1>3. /\ e \in 0..m /\ (e = 0 \/ e \in Ends(stream))
      /\ \A x \in Ends(stream) : x <= m => x <= e
  BY <1>1, LastEndIs
<1>4. Len(Unfinished) = m - e
  <2>1. e \in Nat /\ e <= m /\ m <= Len(stream)
    BY <1>1, <1>3
  <2>2. Len(SubSeq(stream, e + 1, m)) = m - e
    <3> HIDE DEF e
    <3> QED
      BY <1>1, <2>1, PartOfStream
  <2> QED
    BY <2>2 DEF Unfinished
<1>5. ASSUME NEW x \in 0..m
      PROVE  x \in Ends(stream) <=> x \in Ends(all)
  <2>1. x \in 2..m => x - 1 \in 1..m /\ x \in 1..m /\ x \in 2..N
    BY <1>1
  <2>2. x \in 2..N => x \in 2..m
    BY <1>1
  <2> QED
    BY <1>1, <2>1, <2>2 DEF Ends
<1> HIDE DEF all, m, N, e
<1>6. MESSAGE_LEN_MAX \in Nat /\ MESSAGE_LEN_MAX > 2 /\ Longest = MESSAGE_LEN_MAX - 2
  BY MessageLenAssumption DEF Longest, CRLF_LEN_2
<1>7. m - e >= MESSAGE_LEN_MAX /\ m > e /\ m \in 0..m
  BY <1>1, <1>2, <1>3, <1>4, <1>6
<1>8. m \notin Ends(stream)
  BY <1>1, <1>3, <1>7
<1>9. N \in Ends(all) /\ N > m
  <2>1. N # 0
    BY <1>1, <1>3, <1>7
  <2>2. N \in Ends(all)
    BY <1>1, <2>1 DEF Ended, N
  <2>3. N # m
    BY <1>5, <1>7, <1>8, <2>2
  <2> QED
    BY <1>1, <2>2, <2>3
<1> DEFINE after == {x \in Ends(all) : x > m}
<1>10. after \in SUBSET Nat /\ after # {}
  <2>1. \A x \in Ends(all) : x \in Nat
    BY <1>1 DEF Ends, N
  <2> QED
    BY <1>9, <2>1
<1>11. PICK n \in after : \A x \in after : ~(x < n)
  BY <1>10, LeastElement
<1>12. n \in Ends(all) /\ n \in Nat /\ n > m /\ n - 1 \in Nat /\ e \in 0..n - 1
  BY <1>1, <1>3, <1>10, <1>11
<1>13. LastEnd(all, n - 1) = e
  <2>1. e = 0 \/ e \in Ends(all)
    BY <1>3, <1>5
  <2>2. ASSUME NEW x \in Ends(all), x <= n - 1
        PROVE  x <= e
    <3>1. x \in Nat
      BY <1>1 DEF Ends, N
    <3>2. ~(x > m)
      BY <1>11, <1>12, <2>2, <3>1
    <3>3. x \in 0..m
      BY <1>1, <3>1, <3>2
    <3>4. x \in Ends(stream) /\ x <= m
      BY <1>5, <3>3
    <3> QED
      BY <1>3, <3>4
  <2> QED
    BY <1>1, <1>12, <2>1, <2>2, LastEndOnly
<1>14. Len(LineAt(all, n)) = n - 2 - e
  BY <1>1, <1>12, <1>13, LineAtType DEF CRLF_LEN_2
<1>15. Len(LineAt(all, n)) <= Longest
  BY <1>1, <1>12
<1> QED
  BY <1>1, <1>3, <1>6, <1>7, <1>12, <1>14, <1>15

\* Whatever the server sends to a client, in whatever parts it leaves the queue and is
\* received: a reader that cuts it as the server itself cuts what it receives gets the
\* messages meant for the client, one by one and in order, as long as their texts are
\* proper; none is too long for it, and when all bytes have arrived and been processed
\* none is missing, unless the reader is stalled at the end of a full block.
THEOREM DeliveredAsMeantHolds ==
  ASSUME NEW c \in Client
  PROVE  FramingSpec /\ SendingSpec =>
           [](SendingRuns /\ AllProper(c) /\ Connected(c) => DeliveredAsMeant(c))
<1>1. FramingInv /\ ShownInv =>
        (SendingRuns /\ AllProper(c) /\ Connected(c) => DeliveredAsMeant(c))
  BY DeliveredInOrder, DeliveredAtLast, NeverOverflows DEF DeliveredAsMeant
<1>2. SendingSpec => []ShownInv
  BY ShownInvInit, ShownInvNext, PTL DEF SendingSpec
<1> QED
  BY <1>1, <1>2, FramingInvHolds, PTL

-----------------------------------------------------------------------------
(***************************************************************************)
(* All stations of a message.                                              *)
(***************************************************************************)

\* The stations do not disturb each other: a step of one is no step of the others, so that
\* together they have every property that is proved of one.
THEOREM MessagesAreTheirStations ==
  MessagesSpec => FramingSpec /\ ParsingSpec /\ ModesSpec /\ SendingSpec
<1>1. MessagesInit => FramingInit /\ ParsingInit /\ ModesInit /\ SendingInit
  BY DEF MessagesInit
<1>2. [MessagesNext]_<<station, framingVars, parsingVars, modesVars, sendingVars>> =>
        /\ [FramingNext]_framingVars /\ [ParsingNext]_parsingVars
        /\ [ModesNext]_modesVars /\ [SendingNext]_sendingVars
  BY DEF MessagesNext
<1> QED
  BY <1>1, <1>2, PTL DEF MessagesSpec, FramingSpec, ParsingSpec, ModesSpec, SendingSpec

\* Every state of the messages has the types of all stations.
THEOREM MessagesTypeCorrect == MessagesSpec => []MessagesTypeOK
<1>1. FramingTypeOK /\ ParsingTypeOK /\ ModesTypeOK /\ SendingTypeOK => MessagesTypeOK
  BY DEF MessagesTypeOK
<1> QED
  BY <1>1, MessagesAreTheirStations, FramingTypeCorrect, ParsingTypeCorrect,
     ModesTypeCorrect, SendingTypeCorrect, PTL

=============================================================================
