---------------------------- MODULE FramingProofs ----------------------------
(***************************************************************************)
(* Proofs about the lines of a stream of bytes, and about how a client's   *)
(* blocks are cut into messages (Framing), for every size of the blocks.   *)
(***************************************************************************)
EXTENDS Framing, LoopLemmas, SequenceTheorems

Stream == Seq(Byte)

-----------------------------------------------------------------------------
(***************************************************************************)
(* The lines of a stream.                                                  *)
(***************************************************************************)

\* Max(S) is the greatest element of a set of numbers.
LEMMA MaxIsGreatest ==
  ASSUME NEW n \in Nat, NEW S \in SUBSET (0..n), S # {}
  PROVE  Max(S) \in S /\ \A k \in S : k <= Max(S)
<1>1. PICK m \in S : \A k \in S : ~(m < k)
  BY GreatestElement
<1>2. \A k \in S : m >= k
  BY <1>1
<1>3. Max(S) \in S /\ \A k \in S : Max(S) >= k
  BY <1>1, <1>2, Zenon DEF Max
<1> QED
  BY <1>3

\* The last end among the first n bytes.
LEMMA LastEndIs ==
  ASSUME NEW s \in Stream, NEW n \in Nat
  PROVE  /\ LastEnd(s, n) \in 0..n
         /\ LastEnd(s, n) = 0 \/ LastEnd(s, n) \in Ends(s)
         /\ \A e \in Ends(s) : e <= n => e <= LastEnd(s, n)
<1> DEFINE S == {0} \union {e \in Ends(s) : e <= n}
<1>1. \A e \in Ends(s) : e \in Nat
  BY DEF Ends, Stream
<1>2. S \in SUBSET (0..n) /\ S # {} /\ \A e \in S : e = 0 \/ e \in Ends(s)
  BY <1>1
<1>3. \A e \in Ends(s) : e <= n => e \in S
  OBVIOUS
<1>4. LastEnd(s, n) = Max(S)
  BY DEF LastEnd
<1> HIDE DEF S
<1>5. Max(S) \in S /\ \A e \in S : e <= Max(S)
  BY <1>2, MaxIsGreatest
<1> QED
  BY <1>2, <1>3, <1>4, <1>5

\* What is the last end is told by its three properties.
LEMMA LastEndOnly ==
  ASSUME NEW s \in Stream, NEW n \in Nat, NEW m \in 0..n,
         m = 0 \/ m \in Ends(s),
         \A e \in Ends(s) : e <= n => e <= m
  PROVE  LastEnd(s, n) = m
<1>1. /\ LastEnd(s, n) \in 0..n
      /\ LastEnd(s, n) = 0 \/ LastEnd(s, n) \in Ends(s)
      /\ \A e \in Ends(s) : e <= n => e <= LastEnd(s, n)
  BY LastEndIs
<1> QED
  BY <1>1

\* One byte more is an end, or it changes nothing.
LEMMA LastEndStep ==
  ASSUME NEW s \in Stream, NEW n \in Nat
  PROVE  LastEnd(s, n + 1) = IF n + 1 \in Ends(s) THEN n + 1 ELSE LastEnd(s, n)
<1>1. \A e \in Ends(s) : e \in Nat
  BY DEF Ends, Stream
<1>2. /\ LastEnd(s, n) \in 0..n
      /\ LastEnd(s, n) = 0 \/ LastEnd(s, n) \in Ends(s)
      /\ \A e \in Ends(s) : e <= n => e <= LastEnd(s, n)
  BY LastEndIs
<1>3. CASE n + 1 \in Ends(s)
  <2>1. \A e \in Ends(s) : e <= n + 1 => e <= n + 1
    OBVIOUS
  <2> QED
    BY <1>3, <2>1, LastEndOnly
<1>4. CASE n + 1 \notin Ends(s)
  <2>1. \A e \in Ends(s) : e <= n + 1 => e <= LastEnd(s, n)
    BY <1>1, <1>2, <1>4
  <2>2. LastEnd(s, n) \in 0..n + 1
    BY <1>2
  <2> HIDE DEF Stream
  <2> QED
    BY <1>2, <1>4, <2>1, <2>2, LastEndOnly
<1> QED
  BY <1>3, <1>4

\* A line is part of the stream.
LEMMA LineAtType ==
  ASSUME NEW s \in Stream, NEW n \in Ends(s)
  PROVE  /\ n \in 2..Len(s) /\ LastEnd(s, n - 1) \in 0..n - 2
         /\ LineAt(s, n) \in Stream
         /\ Len(LineAt(s, n)) = n - CRLF_LEN_2 - LastEnd(s, n - 1)
<1> DEFINE e == LastEnd(s, n - 1)
<1>1. Len(s) \in Nat /\ n \in 2..Len(s) /\ n - 1 \in Nat /\ s[n - 1] = "CR"
      /\ s[n] = "LF" /\ \A k \in 1..Len(s) : s[k] \in Byte
  BY DEF Ends, Stream
<1>2. e \in 0..n - 1 /\ (e = 0 \/ e \in Ends(s))
  BY <1>1, LastEndIs
<1>3. e # n - 1
  <2>1. ASSUME e \in Ends(s)
        PROVE  s[e] = "LF"
    BY <2>1 DEF Ends
  <2> HIDE DEF e
  <2> QED
    BY <1>1, <1>2, <2>1
<1> HIDE DEF e
<1>4. e \in 0..n - 2
  BY <1>1, <1>2, <1>3
<1>5. e + 1 \in Int /\ n - CRLF_LEN_2 \in Int
      /\ \A k \in e + 1..n - CRLF_LEN_2 : s[k] \in Byte
  BY <1>1, <1>4 DEF CRLF_LEN_2
<1>6. /\ SubSeq(s, e + 1, n - CRLF_LEN_2) \in Seq(Byte)
      /\ Len(SubSeq(s, e + 1, n - CRLF_LEN_2))
           = IF e + 1 <= n - CRLF_LEN_2 THEN n - CRLF_LEN_2 - (e + 1) + 1 ELSE 0
  BY <1>5, SubSeqProperties
<1>7. LineAt(s, n) = SubSeq(s, e + 1, n - CRLF_LEN_2)
  BY DEF LineAt, e
<1>8. Len(LineAt(s, n)) = n - CRLF_LEN_2 - e
  BY <1>1, <1>4, <1>6, <1>7 DEF CRLF_LEN_2
<1> QED
  BY <1>1, <1>4, <1>6, <1>7, <1>8 DEF Stream, e

\* The lines of the first n bytes.
OneByteMore(s, longest, n, lines) ==
  IF n \in Ends(s) /\ Len(LineAt(s, n)) <= longest
  THEN Append(lines, LineAt(s, n)) ELSE lines

\* The recursive function of LinesBy exists.
LEMMA LinesAre ==
  ASSUME NEW s \in Stream, NEW longest
  PROVE  /\ LinesBy(s, longest) \in [0..Len(s) -> Seq(Stream)]
         /\ LinesBy(s, longest)[0] = <<>>
         /\ \A n \in 1..Len(s) :
              LinesBy(s, longest)[n] = OneByteMore(s, longest, n, LinesBy(s, longest)[n - 1])
<1> DEFINE N == Len(s)
           F == [x \in (1..N) \X Seq(Stream) |-> OneByteMore(s, longest, x[1], x[2])]
           Loop(g) == [n \in 0..N |-> IF n = 0 THEN <<>>
                                      ELSE IF n \in Ends(s) /\ Len(LineAt(s, n)) <= longest
                                           THEN Append(g[n - 1], LineAt(s, n))
                                           ELSE g[n - 1]]
           lines == CHOOSE g : g = Loop(g)
<1>1. N \in Nat /\ <<>> \in Seq(Stream)
  BY DEF Stream
<1>2. F \in [(1..N) \X Seq(Stream) -> Seq(Stream)]
  <2> HIDE DEF N
  <2>1. ASSUME NEW n \in 1..N, NEW q \in Seq(Stream)
        PROVE  OneByteMore(s, longest, n, q) \in Seq(Stream)
    <3>1. CASE n \in Ends(s)
      <4>1. LineAt(s, n) \in Stream
        BY <3>1, LineAtType
      <4>2. Append(q, LineAt(s, n)) \in Seq(Stream)
        BY <4>1
      <4> QED
        BY <4>2 DEF OneByteMore
    <3>2. CASE n \notin Ends(s)
      BY <3>2 DEF OneByteMore
    <3> QED
      BY <3>1, <3>2
  <2>2. \A x \in (1..N) \X Seq(Stream) : x[1] \in 1..N /\ x[2] \in Seq(Stream)
    OBVIOUS
  <2>3. \A x \in (1..N) \X Seq(Stream) : OneByteMore(s, longest, x[1], x[2]) \in Seq(Stream)
    BY <2>1, <2>2
  <2> QED
    BY <2>3
<1>3. PICK f \in [0..N -> Seq(Stream)] : Runs(f, N, <<>>, F)
  <2> HIDE DEF F, N
  <2> QED
    BY <1>1, <1>2, LoopExists
<1>4. f[0] = <<>> /\ \A n \in 1..N : f[n] = OneByteMore(s, longest, n, f[n - 1])
  <2> HIDE DEF N
  <2>1. f[0] = <<>>
    BY <1>3 DEF Runs
  <2>2. ASSUME NEW n \in 1..N
        PROVE  f[n] = OneByteMore(s, longest, n, f[n - 1])
    <3>1. n - 1 \in 0..N
      BY <1>1
    <3>2. f[n - 1] \in Seq(Stream)
      BY <3>1, <1>3
    <3>3. f[n] = F[n, f[n - 1]]
      BY <1>3 DEF Runs
    <3>4. <<n, f[n - 1]>> \in (1..N) \X Seq(Stream)
      BY <3>2
    <3> QED
      BY <3>3, <3>4
  <2> QED
    BY <2>1, <2>2
<1> HIDE DEF N
<1>5. \A n \in 0..N : n # 0 => n \in 1..N
  BY <1>1
<1>6. \A n \in 0..N : f[n] = IF n = 0 THEN <<>> ELSE OneByteMore(s, longest, n, f[n - 1])
  BY <1>4, <1>5
<1>7. f = Loop(f)
  BY <1>6, Zenon DEF OneByteMore
<1>8. lines = Loop(lines)
  BY <1>7, Zenon
<1>9. LinesBy(s, longest) = lines
  BY Zenon DEF LinesBy, N
<1>10. \A n \in 0..N :
         lines[n] = IF n = 0 THEN <<>> ELSE OneByteMore(s, longest, n, lines[n - 1])
  BY <1>8, Zenon DEF OneByteMore
<1> HIDE DEF lines
<1>11. lines = [n \in 0..N |-> lines[n]]
  BY <1>8
<1>12. 0..N \subseteq {n \in 0..N : lines[n] = f[n]}
  <2> DEFINE T == {n \in 0..N : lines[n] = f[n]}
  <2>1. 0 \in T
    BY <1>1, <1>4, <1>10
  <2>2. ASSUME NEW n \in 0..N - 1, n \in T
        PROVE  n + 1 \in T
    <3>1. n + 1 \in 1..N /\ n + 1 \in 0..N /\ (n + 1) - 1 = n /\ n + 1 # 0
      BY <1>1
    <3>2. lines[n + 1] = OneByteMore(s, longest, n + 1, lines[n])
      BY <1>10, <3>1
    <3>3. f[n + 1] = OneByteMore(s, longest, n + 1, f[n])
      BY <1>4, <3>1
    <3> QED
      BY <2>2, <3>1, <3>2, <3>3
  <2> HIDE DEF T
  <2>3. 0..N \subseteq T
    BY <1>1, <2>1, <2>2, InductionUpTo
  <2> QED
    BY <2>3 DEF T
<1>13. \A n \in 0..N : lines[n] = f[n] /\ f[n] \in Seq(Stream)
  BY <1>3, <1>12
<1>14. lines \in [0..N -> Seq(Stream)]
  BY <1>11, <1>13
<1>15. \A n \in 1..N : n \in 0..N /\ n # 0
  BY <1>1
<1>16. \A n \in 1..N : lines[n] = OneByteMore(s, longest, n, lines[n - 1])
  BY <1>10, <1>15
<1>17. lines[0] = <<>>
  BY <1>1, <1>10
<1> QED
  BY <1>9, <1>14, <1>16, <1>17 DEF N

\* A part of a stream is a stream.
LEMMA PartOfStream ==
  ASSUME NEW s \in Stream, NEW m \in Nat, NEW n \in Nat, m <= n, n <= Len(s)
  PROVE  /\ SubSeq(s, m + 1, n) \in Stream
         /\ Len(SubSeq(s, m + 1, n)) = n - m
         /\ \A k \in 1..n - m : SubSeq(s, m + 1, n)[k] = s[m + k]
<1>1. Len(s) \in Nat /\ \A k \in 1..Len(s) : s[k] \in Byte
  BY DEF Stream
<1>2. m + 1 \in Int /\ n \in Int /\ \A k \in m + 1..n : s[k] \in Byte
  BY <1>1
<1>3. /\ SubSeq(s, m + 1, n) \in Seq(Byte)
      /\ Len(SubSeq(s, m + 1, n)) = IF m + 1 <= n THEN n - (m + 1) + 1 ELSE 0
      /\ \A k \in 1..n - (m + 1) + 1 : SubSeq(s, m + 1, n)[k] = s[(m + 1) + k - 1]
  BY <1>2, SubSeqProperties
<1>4. n - (m + 1) + 1 = n - m /\ \A k \in 1..n - m : (m + 1) + k - 1 = m + k
  OBVIOUS
<1>5. Len(SubSeq(s, m + 1, n)) = n - m
  BY <1>3
<1> QED
  BY <1>3, <1>4, <1>5 DEF Stream

\* Streams that start alike have the same lines there.
LEMMA LinesAgree ==
  ASSUME NEW s \in Stream, NEW t \in Stream, NEW longest,
         NEW p \in Nat, p <= Len(s), p <= Len(t),
         \A k \in 1..p : s[k] = t[k]
  PROVE  LinesBy(s, longest)[p] = LinesBy(t, longest)[p]
<1>1. /\ Len(s) \in Nat /\ Len(t) \in Nat
      /\ \A k \in 1..Len(s) : s[k] \in Byte
      /\ \A k \in 1..Len(t) : t[k] \in Byte
  BY DEF Stream
<1>2. \A n \in 1..p : n \in Ends(s) <=> n \in Ends(t)
  <2> TAKE n \in 1..p
  <2>1. n > 1 => n - 1 \in 1..p
    OBVIOUS
  <2>2. s[n] = t[n] /\ (n > 1 => s[n - 1] = t[n - 1])
    BY <2>1
  <2> QED
    BY <1>1, <2>2 DEF Ends
<1>3. ASSUME NEW n \in 0..p
      PROVE  LastEnd(s, n) = LastEnd(t, n)
  <2>1. /\ LastEnd(t, n) \in 0..n
        /\ LastEnd(t, n) = 0 \/ LastEnd(t, n) \in Ends(t)
        /\ \A e \in Ends(t) : e <= n => e <= LastEnd(t, n)
    <3>1. n \in Nat
      OBVIOUS
    <3> QED
      BY <3>1, LastEndIs
  <2>2. LastEnd(t, n) = 0 \/ LastEnd(t, n) \in Ends(s)
    BY <1>2, <2>1
  <2>3. \A e \in Ends(s) : e \in 1..Len(s)
    BY <1>1 DEF Ends
  <2>4. \A e \in Ends(s) : e <= n => e <= LastEnd(t, n)
    BY <1>2, <2>1, <2>3
  <2> QED
    BY <2>1, <2>2, <2>4, LastEndOnly
<1>4. ASSUME NEW n \in 1..p, n \in Ends(s)
      PROVE  LineAt(s, n) = LineAt(t, n)
  <2> DEFINE e == LastEnd(s, n - 1)
             a == SubSeq(s, e + 1, n - CRLF_LEN_2)
             b == SubSeq(t, e + 1, n - CRLF_LEN_2)
  <2>1. n - 1 \in 0..p /\ n \in Ends(t)
    BY <1>2, <1>4
  <2>2. n \in 2..Len(s) /\ e \in 0..n - 2
    BY <1>4, LineAtType
  <2>3. LastEnd(t, n - 1) = e
    BY <1>3, <2>1
  <2> HIDE DEF e
  <2>4. n - CRLF_LEN_2 \in Nat /\ e \in Nat /\ e <= n - CRLF_LEN_2 /\ n - CRLF_LEN_2 <= p
    BY <2>2 DEF CRLF_LEN_2
  <2>5. n - CRLF_LEN_2 <= Len(s) /\ n - CRLF_LEN_2 <= Len(t)
    BY <1>1, <2>4
  <2>6. /\ a \in Stream /\ Len(a) = n - CRLF_LEN_2 - e
        /\ \A k \in 1..n - CRLF_LEN_2 - e : a[k] = s[e + k]
    BY <2>4, <2>5, PartOfStream
  <2>7. /\ b \in Stream /\ Len(b) = n - CRLF_LEN_2 - e
        /\ \A k \in 1..n - CRLF_LEN_2 - e : b[k] = t[e + k]
    BY <2>4, <2>5, PartOfStream
  <2>8. \A k \in 1..n - CRLF_LEN_2 - e : e + k \in 1..p
    BY <2>4
  <2> HIDE DEF a, b
  <2>9. \A k \in 1..Len(a) : a[k] = b[k]
    BY <2>6, <2>7, <2>8
  <2>10. a = b
    BY <2>6, <2>7, <2>9, SeqEqual DEF Stream
  <2> QED
    BY <2>3, <2>10 DEF LineAt, a, b, e
<1> DEFINE f == LinesBy(s, longest)
           g == LinesBy(t, longest)
           T == {n \in 0..p : f[n] = g[n]}
<1>5. f[0] = <<>> /\ \A n \in 1..Len(s) : f[n] = OneByteMore(s, longest, n, f[n - 1])
  BY LinesAre
<1>6. g[0] = <<>> /\ \A n \in 1..Len(t) : g[n] = OneByteMore(t, longest, n, g[n - 1])
  BY LinesAre
<1> HIDE DEF f, g
<1>7. 0 \in T
  BY <1>5, <1>6
<1>8. ASSUME NEW n \in 0..p - 1, n \in T
      PROVE  n + 1 \in T
  <2>1. n + 1 \in 1..p /\ n + 1 \in 0..p /\ (n + 1) - 1 = n
        /\ n + 1 \in 1..Len(s) /\ n + 1 \in 1..Len(t)
    BY <1>1
  <2>2. f[n + 1] = OneByteMore(s, longest, n + 1, f[n])
    BY <1>5, <2>1
  <2>3. g[n + 1] = OneByteMore(t, longest, n + 1, g[n])
    BY <1>6, <2>1
  <2>4. OneByteMore(s, longest, n + 1, f[n]) = OneByteMore(t, longest, n + 1, f[n])
    <3>1. n + 1 \in Ends(s) <=> n + 1 \in Ends(t)
      BY <1>2, <2>1
    <3>2. n + 1 \in Ends(s) => LineAt(s, n + 1) = LineAt(t, n + 1)
      BY <1>4, <2>1
    <3> QED
      BY <3>1, <3>2 DEF OneByteMore
  <2> QED
    BY <1>8, <2>1, <2>2, <2>3, <2>4
<1> HIDE DEF T
<1>9. 0..p \subseteq T
  BY <1>7, <1>8, InductionUpTo
<1> QED
  BY <1>9 DEF T, f, g

\* No lines come out between two ends.
LEMMA LinesBetween ==
  ASSUME NEW s \in Stream, NEW longest,
         NEW m \in Nat, NEW n \in Nat, m <= n, n <= Len(s),
         \A k \in m + 1..n : k \notin Ends(s)
  PROVE  LinesBy(s, longest)[n] = LinesBy(s, longest)[m]
<1> DEFINE f == LinesBy(s, longest)
           T == {d \in 0..n - m : f[m + d] = f[m]}
<1>1. \A k \in 1..Len(s) : f[k] = OneByteMore(s, longest, k, f[k - 1])
  BY LinesAre
<1>2. Len(s) \in Nat /\ n - m \in Nat
  BY DEF Stream
<1> HIDE DEF f
<1>3. 0 \in T
  BY <1>2
<1>4. ASSUME NEW d \in 0..n - m - 1, d \in T
      PROVE  d + 1 \in T
  <2>1. /\ m + (d + 1) \in 1..Len(s) /\ m + (d + 1) \in m + 1..n
        /\ (m + (d + 1)) - 1 = m + d /\ d + 1 \in 0..n - m
    BY <1>2
  <2>2. f[m + (d + 1)] = OneByteMore(s, longest, m + (d + 1), f[m + d])
    BY <1>1, <2>1
  <2>3. m + (d + 1) \notin Ends(s)
    BY <2>1
  <2> QED
    BY <1>4, <2>1, <2>2, <2>3 DEF OneByteMore
<1> HIDE DEF T
<1>5. 0..n - m \subseteq T
  BY <1>2, <1>3, <1>4, InductionUpTo
<1>6. n - m \in T /\ m + (n - m) = n
  BY <1>2, <1>5
<1> QED
  BY <1>6 DEF T, f

\* Lines stay, the longer ones are left out, and none are longer than the stream.
LEMMA LinesStay ==
  ASSUME NEW s \in Stream, NEW longest \in Int,
         NEW n \in Nat, n <= Len(s),
         NEW j \in DOMAIN LinesBy(s, longest)[n]
  PROVE  /\ LinesBy(s, longest)[n][j] \in Stream
         /\ Len(LinesBy(s, longest)[n][j]) <= longest
         /\ \E k \in DOMAIN Lines(s) : LinesBy(s, longest)[n][j] = Lines(s)[k]
<1> DEFINE line == LinesBy(s, longest)[n][j]
           f == LinesBy(s, longest)
           g == LinesBy(s, Len(s))
           Among(d, x) == \E k \in DOMAIN x[d] : line = x[d][k]
           T == {d \in 0..Len(s) : Among(d, f) => /\ line \in Stream /\ Len(line) <= longest
                                                 /\ Among(d, g)}
           U == {d \in 0..Len(s) - n : Among(n, g) => Among(n + d, g)}
<1>1. Len(s) \in Nat
  BY DEF Stream
<1>2. f \in [0..Len(s) -> Seq(Stream)] /\ f[0] = <<>>
      /\ \A k \in 1..Len(s) : f[k] = OneByteMore(s, longest, k, f[k - 1])
  BY LinesAre
<1>3. g \in [0..Len(s) -> Seq(Stream)] /\ g[0] = <<>>
      /\ \A k \in 1..Len(s) : g[k] = OneByteMore(s, Len(s), k, g[k - 1])
  BY LinesAre
<1>4. Among(n, f)
  OBVIOUS
<1>5. Lines(s) = g[Len(s)]
  BY DEF Lines
<1> HIDE DEF f, g, line
<1>6. \A q \in Seq(Stream) :
        /\ Len(q) \in Nat /\ DOMAIN q = 1..Len(q)
        /\ \A x : /\ DOMAIN Append(q, x) = 1..Len(q) + 1
                 /\ Append(q, x)[Len(q) + 1] = x
                 /\ \A k \in 1..Len(q) : Append(q, x)[k] = q[k]
  OBVIOUS
<1>7. ASSUME NEW d \in 1..Len(s)
      PROVE  /\ Among(d - 1, g) => Among(d, g)
             /\ Among(d, f) => \/ Among(d - 1, f)
                               \/ /\ d \in Ends(s) /\ line = LineAt(s, d)
                                  /\ Len(line) <= longest
             /\ d \in Ends(s) /\ line = LineAt(s, d) => Among(d, g)
  <2>1. d - 1 \in 0..Len(s)
    BY <1>1
  <2>2. f[d - 1] \in Seq(Stream) /\ g[d - 1] \in Seq(Stream)
    BY <1>2, <1>3, <2>1
  <2>3. f[d] = OneByteMore(s, longest, d, f[d - 1])
        /\ g[d] = OneByteMore(s, Len(s), d, g[d - 1])
    BY <1>2, <1>3
  <2> DEFINE a == f[d - 1]
             b == g[d - 1]
             x == LineAt(s, d)
  <2>4. CASE d \in Ends(s)
    <3>1. Len(x) <= Len(s)
      <4>1. d \in 2..Len(s) /\ LastEnd(s, d - 1) \in 0..d - 2
            /\ Len(LineAt(s, d)) = d - CRLF_LEN_2 - LastEnd(s, d - 1)
        BY <2>4, LineAtType
      <4> QED
        BY <1>1, <4>1 DEF CRLF_LEN_2
    <3>2. g[d] = Append(b, x)
      BY <2>3, <2>4, <3>1 DEF OneByteMore
    <3>3. f[d] = IF Len(x) <= longest THEN Append(a, x) ELSE a
      BY <2>3, <2>4 DEF OneByteMore
    <3> HIDE DEF x
    <3>4. Among(d - 1, g) => Among(d, g)
      <4>1. \A k \in DOMAIN b : k \in DOMAIN g[d] /\ g[d][k] = b[k]
        BY <1>6, <2>2, <3>2
      <4> QED
        BY <4>1
    <3>5. line = x => Among(d, g)
      <4>1. Len(b) + 1 \in DOMAIN g[d] /\ g[d][Len(b) + 1] = x
        BY <1>6, <2>2, <3>2
      <4> QED
        BY <4>1
    <3>6. ASSUME Among(d, f), Len(x) <= longest
          PROVE  Among(d - 1, f) \/ line = x
      BY <1>6, <2>2, <3>3, <3>6
    <3> QED
      BY <2>4, <3>3, <3>4, <3>5, <3>6 DEF x
  <2>5. CASE d \notin Ends(s)
    BY <2>3, <2>5 DEF OneByteMore
  <2> QED
    BY <2>4, <2>5
<1> HIDE DEF Among
<1>8. 0 \in T
  <2>1. ~Among(0, f)
    BY <1>2 DEF Among
  <2> QED
    BY <1>1, <2>1
<1>9. ASSUME NEW d \in 0..Len(s) - 1, d \in T
      PROVE  d + 1 \in T
  <2>1. d + 1 \in 1..Len(s) /\ d + 1 \in 0..Len(s) /\ (d + 1) - 1 = d
    BY <1>1
  <2>2. d + 1 \in Ends(s) => LineAt(s, d + 1) \in Stream
    BY LineAtType
  <2>3. /\ Among(d, g) => Among(d + 1, g)
        /\ Among(d + 1, f) => \/ Among(d, f)
                              \/ /\ d + 1 \in Ends(s) /\ line = LineAt(s, d + 1)
                                 /\ Len(line) <= longest
        /\ d + 1 \in Ends(s) /\ line = LineAt(s, d + 1) => Among(d + 1, g)
    BY <1>7, <2>1
  <2> QED
    BY <1>9, <2>1, <2>2, <2>3
<1>10. 0..Len(s) \subseteq T
  <2> HIDE DEF T
  <2> QED
    BY <1>1, <1>8, <1>9, InductionUpTo
<1>11. line \in Stream /\ Len(line) <= longest /\ Among(n, g)
  <2>1. n \in T
    BY <1>1, <1>10
  <2> QED
    BY <1>4, <2>1
<1>12. Len(s) - n \in Nat /\ 0 \in U
  BY <1>1
<1>13. ASSUME NEW d \in 0..Len(s) - n - 1, d \in U
       PROVE  d + 1 \in U
  <2>1. n + (d + 1) \in 1..Len(s) /\ d + 1 \in 0..Len(s) - n /\ (n + (d + 1)) - 1 = n + d
    BY <1>1
  <2>2. Among(n + d, g) => Among(n + (d + 1), g)
    BY <1>7, <2>1
  <2> QED
    BY <1>13, <2>1, <2>2
<1>14. 0..Len(s) - n \subseteq U
  <2> HIDE DEF U
  <2> QED
    BY <1>12, <1>13, InductionUpTo
<1>15. Among(Len(s), g)
  <2>1. Len(s) - n \in 0..Len(s) - n /\ n + (Len(s) - n) = Len(s)
    BY <1>1, <1>12
  <2>2. Len(s) - n \in U
    BY <1>14, <2>1
  <2> QED
    BY <1>11, <2>1, <2>2
<1> QED
  BY <1>5, <1>11, <1>15 DEF Among, line

-----------------------------------------------------------------------------
(***************************************************************************)
(* The scan of the blocks.                                                 *)
(***************************************************************************)

\* Positions count the bytes of the blocks one by one.
LEMMA Positions ==
  /\ MESSAGE_LEN_MAX \in Nat /\ MESSAGE_LEN_MAX > CRLF_LEN_2 /\ CRLF_LEN_2 = 2
  /\ \A b, k \in Int : /\ Position(b, k) \in Int
                       /\ Position(b, k) = Position(b, 0) + k
                       /\ Position(b + 1, 0) = Position(b, MESSAGE_LEN_MAX)
  /\ \A k \in Int : Position(1, k) = k
<1>1. MESSAGE_LEN_MAX \in Nat /\ MESSAGE_LEN_MAX > CRLF_LEN_2 /\ CRLF_LEN_2 = 2
  BY MessageLenAssumption DEF CRLF_LEN_2
<1>2. ASSUME NEW b \in Int, NEW k \in Int
      PROVE  /\ Position(b, k) \in Int
             /\ Position(b, k) = Position(b, 0) + k
             /\ Position(b + 1, 0) = Position(b, MESSAGE_LEN_MAX)
  BY <1>1 DEF Position
<1>3. ASSUME NEW k \in Int
      PROVE  Position(1, k) = k
  BY <1>1 DEF Position
<1> QED
  BY <1>1, <1>2, <1>3

\* Without the first l blocks every byte moves by the same distance.
LEMMA PositionShift ==
  ASSUME NEW l \in Nat
  PROVE  /\ Position(l + 1, 0) \in Nat
         /\ \A b, k \in Int : Position(b + l, k) = Position(b, k) + Position(l + 1, 0)
<1>1. MESSAGE_LEN_MAX \in Nat
  BY Positions
<1>2. Position(l + 1, 0) = l * MESSAGE_LEN_MAX /\ l * MESSAGE_LEN_MAX \in Nat
  BY <1>1 DEF Position
<1>3. ASSUME NEW b \in Int, NEW k \in Int
      PROVE  Position(b + l, k) = Position(b, k) + Position(l + 1, 0)
  <2>1. (b + l - 1) * MESSAGE_LEN_MAX = (b - 1) * MESSAGE_LEN_MAX + l * MESSAGE_LEN_MAX
    BY <1>1
  <2>2. (b - 1) * MESSAGE_LEN_MAX \in Int
    BY <1>1
  <2> QED
    BY <1>2, <2>1, <2>2 DEF Position
<1> QED
  BY <1>2, <1>3

\* What holds whenever separateMsgsFromClientRecvMsgs is called, and after it.
InStream ==
  \A b \in DOMAIN RecvMsgBlocks : \A k \in DOMAIN RecvMsgBlocks[b] :
    Removed + Position(b, k) \in 1..Len(stream)

CursorInBlock ==
  /\ RecvMsgBlocks = <<>> => RecvMsgBlockCursor = 0
  /\ RecvMsgBlocks # <<>> => RecvMsgBlockCursor <= Len(RecvMsgBlocks[1])

CursorBehindLine == ParsedTo = 0 \/ ParsedTo \in Ends(stream)

BlocksInv ==
  /\ FramingTypeOK /\ InStream /\ CursorIsExact /\ CursorInBlock /\ CursorBehindLine

Longest == MESSAGE_LEN_MAX - CRLF_LEN_2

\* The invariant in the terms of the proofs.
LEMMA BlockFacts ==
  ASSUME BlocksInv
  PROVE  /\ stream \in Stream /\ Len(stream) \in Nat
         /\ \A k \in 1..Len(stream) : stream[k] \in Byte
         /\ delivered \in Seq(Stream)
         /\ RecvMsgBlocks \in Seq(Stream) /\ Len(RecvMsgBlocks) \in Nat
         /\ DOMAIN RecvMsgBlocks = 1..Len(RecvMsgBlocks)
         /\ \A b \in 1..Len(RecvMsgBlocks) :
              /\ RecvMsgBlocks[b] \in Stream /\ Len(RecvMsgBlocks[b]) \in 1..MESSAGE_LEN_MAX
              /\ DOMAIN RecvMsgBlocks[b] = 1..Len(RecvMsgBlocks[b])
              /\ b < Len(RecvMsgBlocks) => Len(RecvMsgBlocks[b]) = MESSAGE_LEN_MAX
         /\ RecvMsgBlockCursor \in Nat
         /\ Received \in Int /\ Removed \in Int
         /\ ParsedTo \in 0..Len(stream) /\ LastEnd(stream, ParsedTo) = ParsedTo
         /\ delivered = LinesBy(stream, Longest)[ParsedTo]
<1>1. /\ stream \in Stream /\ Len(stream) \in Nat
      /\ \A k \in 1..Len(stream) : stream[k] \in Byte
      /\ delivered \in Seq(Stream)
      /\ RecvMsgBlocks \in Seq(Stream) /\ Len(RecvMsgBlocks) \in Nat
      /\ DOMAIN RecvMsgBlocks = 1..Len(RecvMsgBlocks)
      /\ RecvMsgBlockCursor \in Nat
  <2>1. stream \in Seq(Byte) /\ delivered \in Seq(Seq(Byte)) /\ RecvMsgBlocks \in Seq(Seq(Byte))
        /\ RecvMsgBlockCursor \in Nat
    BY Positions DEF BlocksInv, FramingTypeOK
  <2>2. Len(stream) \in Nat /\ \A k \in 1..Len(stream) : stream[k] \in Byte
    BY <2>1
  <2>3. Len(RecvMsgBlocks) \in Nat /\ DOMAIN RecvMsgBlocks = 1..Len(RecvMsgBlocks)
    BY <2>1
  <2> QED
    BY <2>1, <2>2, <2>3 DEF Stream
<1>2. ASSUME NEW b \in 1..Len(RecvMsgBlocks)
      PROVE  /\ RecvMsgBlocks[b] \in Stream /\ Len(RecvMsgBlocks[b]) \in 1..MESSAGE_LEN_MAX
             /\ DOMAIN RecvMsgBlocks[b] = 1..Len(RecvMsgBlocks[b])
             /\ b < Len(RecvMsgBlocks) => Len(RecvMsgBlocks[b]) = MESSAGE_LEN_MAX
  <2>1. RecvMsgBlocks[b] \in Stream
    BY <1>1
  <2>2. DOMAIN RecvMsgBlocks[b] = 1..Len(RecvMsgBlocks[b])
    BY <2>1 DEF Stream
  <2> QED
    BY <1>1, <2>1, <2>2 DEF BlocksInv, FramingTypeOK
<1>3. Received \in Int
  <2>1. CASE RecvMsgBlocks = <<>>
    BY <2>1 DEF Received
  <2>2. CASE RecvMsgBlocks # <<>>
    <3>1. Len(RecvMsgBlocks) \in 1..Len(RecvMsgBlocks)
      BY <1>1, <2>2
    <3>2. Len(RecvMsgBlocks[Len(RecvMsgBlocks)]) \in Int /\ Len(RecvMsgBlocks) \in Int
      BY <1>2, <3>1, Positions
    <3> QED
      BY <2>2, <3>2, Positions DEF Received, Last
  <2> QED
    BY <2>1, <2>2
<1>4. Removed \in Int
  BY <1>1, <1>3 DEF Removed
<1>5. ParsedTo \in 0..Len(stream)
  <2>1. \A e \in Ends(stream) : e \in 0..Len(stream)
    BY <1>1 DEF Ends
  <2> QED
    BY <1>1, <2>1 DEF BlocksInv, CursorBehindLine
<1>6. LastEnd(stream, ParsedTo) = ParsedTo
  <2>1. ParsedTo \in Nat /\ ParsedTo \in 0..ParsedTo
    BY <1>5
  <2>2. \A e \in Ends(stream) : e <= ParsedTo => e <= ParsedTo
    OBVIOUS
  <2> QED
    BY <1>1, <2>1, <2>2, LastEndOnly DEF BlocksInv, CursorBehindLine
<1>7. delivered = LinesBy(stream, Longest)[ParsedTo]
  <2> DEFINE past == SubSeq(stream, 1, ParsedTo)
  <2>1. past = SubSeq(stream, 0 + 1, ParsedTo) /\ ParsedTo \in Nat /\ 0 \in Nat
        /\ 0 <= ParsedTo /\ ParsedTo <= Len(stream) /\ ParsedTo - 0 = ParsedTo
    BY <1>5
  <2>2. /\ past \in Stream /\ Len(past) = ParsedTo
        /\ \A k \in 1..ParsedTo : past[k] = stream[0 + k]
    BY <1>1, <2>1, PartOfStream
  <2>3. \A k \in 1..ParsedTo : 0 + k = k
    OBVIOUS
  <2>4. \A k \in 1..ParsedTo : past[k] = stream[k]
    BY <2>2, <2>3
  <2>5. delivered = LinesBy(past, Longest)[ParsedTo]
    BY <2>2 DEF BlocksInv, CursorIsExact, Frames, Longest
  <2> HIDE DEF past
  <2>6. LinesBy(past, Longest)[ParsedTo] = LinesBy(stream, Longest)[ParsedTo]
    <3>1. past \in Stream /\ stream \in Stream /\ ParsedTo \in Nat
          /\ ParsedTo <= Len(past) /\ ParsedTo <= Len(stream)
      BY <1>1, <2>1, <2>2
    <3> QED
      BY <2>4, <3>1, LinesAgree
  <2> QED
    BY <2>5, <2>6
<1> QED
  BY <1>1, <1>2, <1>3, <1>4, <1>5, <1>6, <1>7

\* The state of the scan after n bytes.
ScanState ==
  [block : Nat, parseIdx : Nat, msg : Stream, out : Seq(Stream), skipping : BOOLEAN,
   lastChar : Byte, cursor : Nat, lastParsedBlock : Nat]

\* The next byte is at parseIdx of block.
AtByte(scan, n) ==
  n < Received - RecvMsgBlockCursor =>
    /\ scan.block \in 1..Len(RecvMsgBlocks)
    /\ scan.parseIdx < Len(RecvMsgBlocks[scan.block])
    /\ Position(scan.block, scan.parseIdx) = RecvMsgBlockCursor + n

\* cursor and lastParsedBlock stand for the last end of a line.
AtEnd(scan, e) ==
  /\ scan.lastParsedBlock \in 0..Len(RecvMsgBlocks) - 1
  /\ scan.cursor <= Len(RecvMsgBlocks[scan.lastParsedBlock + 1])
  /\ Removed + Position(scan.lastParsedBlock + 1, scan.cursor) = e

\* The bytes behind it are in msg, unless they are being skipped.
InMsg(scan, e, p) ==
  /\ ~scan.skipping => p - e < MESSAGE_LEN_MAX /\ scan.msg = SubSeq(stream, e + 1, p)
  /\ scan.skipping => p - e >= MESSAGE_LEN_MAX /\ scan.lastChar = stream[p]

ScanGood(scan, n) ==
  /\ scan \in ScanState
  /\ AtByte(scan, n)
  /\ AtEnd(scan, LastEnd(stream, ParsedTo + n))
  /\ InMsg(scan, LastEnd(stream, ParsedTo + n), ParsedTo + n)
  /\ delivered \o scan.out = LinesBy(stream, Longest)[ParsedTo + n]

\* The scan starts behind the cursor.
LEMMA ScanStarts ==
  ASSUME BlocksInv, ~NothingToSeparate
  PROVE  ScanGood(ScanStart, 0)
<1> USE BlockFacts
<1>1. /\ RecvMsgBlocks # <<>> /\ 1 \in 1..Len(RecvMsgBlocks) /\ Len(RecvMsgBlocks) - 1 \in Nat
      /\ RecvMsgBlockCursor < Len(RecvMsgBlocks[1])
  <2>1. RecvMsgBlocks # <<>> /\ Head(RecvMsgBlocks) = RecvMsgBlocks[1]
    BY DEF NothingToSeparate
  <2>2. 1 \in 1..Len(RecvMsgBlocks) /\ Len(RecvMsgBlocks) - 1 \in Nat
    BY <2>1
  <2>3. Len(RecvMsgBlocks[1]) \in Nat
    BY <2>2
  <2> QED
    BY <2>1, <2>2, <2>3 DEF NothingToSeparate
<1>2. ScanStart \in ScanState
  BY EmptySeq DEF ScanStart, ScanState, Byte, Stream
<1>3. AtByte(ScanStart, 0)
  BY <1>1, Positions DEF AtByte, ScanStart
<1>4. AtEnd(ScanStart, ParsedTo)
  <2>1. 0 \in 0..Len(RecvMsgBlocks) - 1 /\ 0 + 1 = 1
    BY <1>1
  <2>2. Len(RecvMsgBlocks[1]) \in Nat
    BY <1>1
  <2>3. Position(1, RecvMsgBlockCursor) = RecvMsgBlockCursor
    BY Positions
  <2> QED
    BY <1>1, <2>1, <2>2, <2>3 DEF AtEnd, ScanStart, ParsedTo
<1>5. InMsg(ScanStart, ParsedTo, ParsedTo)
  <2>1. SubSeq(stream, ParsedTo + 1, ParsedTo) = <<>>
    BY SubSeqEmpty
  <2>2. ScanStart.skipping = FALSE /\ ScanStart.msg = <<>>
    BY DEF ScanStart
  <2>3. ParsedTo - ParsedTo < MESSAGE_LEN_MAX
    BY Positions
  <2> QED
    BY <2>1, <2>2, <2>3 DEF InMsg
<1>6. delivered \o ScanStart.out = delivered
  BY ConcatEmptySeq DEF ScanStart
<1>7. ParsedTo + 0 = ParsedTo
  OBVIOUS
<1> QED
  BY <1>2, <1>3, <1>4, <1>5, <1>6, <1>7 DEF ScanGood

\* The byte at parseIdx is the next one of the stream, and the scan can go on behind it.
LEMMA ScanAtByte ==
  ASSUME BlocksInv, ~NothingToSeparate,
         NEW n \in Nat, n < Received - RecvMsgBlockCursor,
         NEW scan, ScanGood(scan, n)
  PROVE  /\ ParsedTo + n + 1 \in 1..Len(stream)
         /\ scan.block \in 1..Len(RecvMsgBlocks)
         /\ scan.parseIdx + 1 \in 1..Len(RecvMsgBlocks[scan.block])
         /\ RecvMsgBlocks[scan.block][scan.parseIdx + 1] = stream[ParsedTo + n + 1]
         /\ Removed + Position(scan.block, scan.parseIdx + 1) = ParsedTo + n + 1
         /\ NextByte(scan) \in ScanState /\ AtByte(NextByte(scan), n + 1)
         /\ NextByte(scan).msg = scan.msg /\ NextByte(scan).out = scan.out
         /\ NextByte(scan).skipping = scan.skipping /\ NextByte(scan).lastChar = scan.lastChar
         /\ NextByte(scan).cursor = scan.cursor
         /\ NextByte(scan).lastParsedBlock = scan.lastParsedBlock
<1> DEFINE b == scan.block
           k == scan.parseIdx
           next == NextByte(scan)
<1>1. /\ b \in 1..Len(RecvMsgBlocks) /\ k < Len(RecvMsgBlocks[b])
      /\ Position(b, k) = RecvMsgBlockCursor + n /\ scan \in ScanState
  BY DEF ScanGood, AtByte
<1>2. k \in Nat /\ b \in Nat
  BY <1>1 DEF ScanState
<1>9. /\ next \in ScanState
      /\ next.msg = scan.msg /\ next.out = scan.out
      /\ next.skipping = scan.skipping /\ next.lastChar = scan.lastChar
      /\ next.cursor = scan.cursor /\ next.lastParsedBlock = scan.lastParsedBlock
      /\ k + 1 < Len(RecvMsgBlocks[b]) => next.block = b /\ next.parseIdx = k + 1
      /\ ~(k + 1 < Len(RecvMsgBlocks[b])) => next.block = b + 1 /\ next.parseIdx = 0
  <2>1. k + 1 \in Nat /\ b + 1 \in Nat /\ 0 \in Nat
    BY <1>2
  <2>2. CASE k + 1 < Len(RecvMsgBlocks[b])
    <3>1. next = [scan EXCEPT !.parseIdx = k + 1]
      BY <2>2 DEF NextByte
    <3> HIDE DEF next
    <3> QED
      BY <1>1, <2>1, <2>2, <3>1 DEF ScanState
  <2>3. CASE ~(k + 1 < Len(RecvMsgBlocks[b]))
    <3>1. next = [scan EXCEPT !.parseIdx = 0, !.block = b + 1]
      BY <2>3 DEF NextByte
    <3> HIDE DEF next
    <3> QED
      BY <1>1, <2>1, <2>3, <3>1 DEF ScanState
  <2> QED
    BY <2>2, <2>3
<1> HIDE DEF b, k, next
<1>3. /\ Len(RecvMsgBlocks) \in Nat /\ DOMAIN RecvMsgBlocks = 1..Len(RecvMsgBlocks)
      /\ Len(RecvMsgBlocks[b]) \in 1..MESSAGE_LEN_MAX
      /\ DOMAIN RecvMsgBlocks[b] = 1..Len(RecvMsgBlocks[b])
      /\ b < Len(RecvMsgBlocks) => Len(RecvMsgBlocks[b]) = MESSAGE_LEN_MAX
      /\ Removed \in Int /\ RecvMsgBlockCursor \in Nat
      /\ Len(RecvMsgBlocks[b]) \in Nat
  <2>1. Len(RecvMsgBlocks[b]) \in 1..MESSAGE_LEN_MAX
    BY <1>1, BlockFacts
  <2> QED
    BY <1>1, <2>1, BlockFacts, Positions
<1>4. k + 1 \in 1..Len(RecvMsgBlocks[b])
  BY <1>1, <1>2, <1>3
<1>5. Position(b, k + 1) = Position(b, k) + 1 /\ Position(b, k) \in Int
  <2>1. b \in Int /\ k \in Int /\ k + 1 \in Int
    BY <1>2
  <2>2. MESSAGE_LEN_MAX \in Int /\ (b - 1) * MESSAGE_LEN_MAX \in Int
    BY <2>1, Positions
  <2> QED
    BY <2>1, <2>2 DEF Position
<1>6. Removed + Position(b, k + 1) = ParsedTo + n + 1
  BY <1>1, <1>3, <1>5 DEF ParsedTo
<1>7. ParsedTo + n + 1 \in 1..Len(stream)
  BY <1>1, <1>3, <1>4, <1>6 DEF BlocksInv, InStream
<1>8. RecvMsgBlocks[b][k + 1] = stream[ParsedTo + n + 1]
  BY <1>1, <1>3, <1>4, <1>6 DEF BlocksInv, CursorIsExact
<1>10. AtByte(next, n + 1)
  <2> SUFFICES ASSUME n + 1 < Received - RecvMsgBlockCursor
               PROVE  /\ next.block \in 1..Len(RecvMsgBlocks)
                      /\ next.parseIdx < Len(RecvMsgBlocks[next.block])
                      /\ Position(next.block, next.parseIdx) = RecvMsgBlockCursor + (n + 1)
    BY DEF AtByte
  <2>1. CASE k + 1 < Len(RecvMsgBlocks[b])
    BY <1>1, <1>3, <1>5, <1>9, <2>1
  <2>2. CASE ~(k + 1 < Len(RecvMsgBlocks[b]))
    <3>1. k + 1 = Len(RecvMsgBlocks[b])
      BY <1>2, <1>3, <1>4, <2>2
    <3>2. b # Len(RecvMsgBlocks)
      <4>1. SUFFICES ASSUME b = Len(RecvMsgBlocks)
                     PROVE  FALSE
        OBVIOUS
      <4>2. RecvMsgBlocks # <<>>
        BY DEF NothingToSeparate
      <4>3. Received = Position(b, k + 1)
        BY <3>1, <4>1, <4>2 DEF Received, Last
      <4> QED
        BY <1>1, <1>3, <1>5, <4>3
    <3>3. b + 1 \in 1..Len(RecvMsgBlocks) /\ Len(RecvMsgBlocks[b]) = MESSAGE_LEN_MAX
      <4>1. b < Len(RecvMsgBlocks)
        <5>1. b \in 1..Len(RecvMsgBlocks) /\ Len(RecvMsgBlocks) \in Nat
              /\ b # Len(RecvMsgBlocks)
          BY <1>1, <1>3, <3>2
        <5> QED
          BY ONLY <5>1
      <4>2. b + 1 \in 1..Len(RecvMsgBlocks)
        BY <1>2, <1>3, <4>1
      <4> QED
        BY <1>3, <4>1, <4>2
    <3>4. Len(RecvMsgBlocks[b + 1]) \in 1..MESSAGE_LEN_MAX
      BY <3>3, BlockFacts
    <3>5. Position(b + 1, 0) = Position(b, k + 1)
      <4>1. b \in Int /\ MESSAGE_LEN_MAX \in Int
        BY <1>2, Positions
      <4>2. Position(b + 1, 0) = Position(b, MESSAGE_LEN_MAX)
        BY <4>1, Positions
      <4> QED
        BY <3>1, <3>3, <4>2
    <3>6. 0 < Len(RecvMsgBlocks[b + 1])
      <4>1. MESSAGE_LEN_MAX \in Nat
        BY Positions
      <4> QED
        BY <3>4, <4>1
    <3> QED
      BY <1>1, <1>3, <1>5, <1>9, <2>2, <3>3, <3>5, <3>6
  <2> QED
    BY <2>1, <2>2
<1> QED
  BY <1>1, <1>4, <1>6, <1>7, <1>8, <1>9, <1>10 DEF b, k, next

LEMMA ConcatOfAppend ==
  ASSUME NEW S, NEW s \in Seq(S), NEW t \in Seq(S), NEW x \in S
  PROVE  s \o Append(t, x) = Append(s \o t, x)
<1>1. <<x>> \in Seq(S) /\ s \o t \in Seq(S)
  OBVIOUS
<1>2. (s \o t) \o <<x>> = s \o (t \o <<x>>)
  BY <1>1, ConcatAssociative
<1>3. Append(t, x) = t \o <<x>> /\ Append(s \o t, x) = (s \o t) \o <<x>>
  BY <1>1, AppendIsConcat
<1> QED
  BY <1>2, <1>3

\* The scan of one byte keeps the invariant of the scan.
LEMMA ScanKeeps ==
  ASSUME BlocksInv, ~NothingToSeparate,
         NEW n \in Nat, n < Received - RecvMsgBlockCursor,
         NEW scan, ScanGood(scan, n)
  PROVE  ScanGood(ScanByte(scan), n + 1)
<1> DEFINE q == ParsedTo + n
           p == q + 1
           e == LastEnd(stream, q)
           byte == RecvMsgBlocks[scan.block][scan.parseIdx + 1]
           msg  == Append(scan.msg, byte)
           next == NextByte(scan)
           r    == ScanByte(scan)
           L    == LinesBy(stream, Longest)
<1>1. /\ stream \in Stream /\ Len(stream) \in Nat /\ ParsedTo \in Nat
      /\ \A k \in 1..Len(stream) : stream[k] \in Byte
      /\ delivered \in Seq(Stream) /\ Len(RecvMsgBlocks) \in Nat
  BY BlockFacts
<1>2. /\ p \in 1..Len(stream) /\ byte = stream[p]
      /\ scan.block \in 1..Len(RecvMsgBlocks)
      /\ scan.parseIdx + 1 \in 1..Len(RecvMsgBlocks[scan.block])
      /\ Removed + Position(scan.block, scan.parseIdx + 1) = p
      /\ next \in ScanState /\ AtByte(next, n + 1)
      /\ next.msg = scan.msg /\ next.out = scan.out
      /\ next.skipping = scan.skipping /\ next.lastChar = scan.lastChar
      /\ next.cursor = scan.cursor /\ next.lastParsedBlock = scan.lastParsedBlock
  BY ScanAtByte
<1>3. q \in Nat /\ p \in Nat /\ p - 1 = q /\ ParsedTo + (n + 1) = p
  BY <1>1
<1>4. /\ scan \in ScanState /\ AtEnd(scan, e) /\ InMsg(scan, e, q)
      /\ delivered \o scan.out = L[q]
  BY DEF ScanGood
<1>5. e \in 0..q /\ (e = 0 \/ e \in Ends(stream)) /\ \A k \in Ends(stream) : k <= q => k <= e
  BY <1>1, <1>3, LastEndIs
<1>6. LastEnd(stream, p) = IF p \in Ends(stream) THEN p ELSE e
  BY <1>1, <1>3, LastEndStep
<1>7. L[p] = OneByteMore(stream, Longest, p, L[q])
  BY <1>1, <1>2, <1>3, LinesAre
<1>8. p \in Ends(stream) <=> p >= 2 /\ stream[q] = "CR" /\ stream[p] = "LF"
  BY <1>1, <1>2, <1>3 DEF Ends
<1>9. LineAt(stream, p) = SubSeq(stream, e + 1, p - CRLF_LEN_2)
  BY <1>3 DEF LineAt
<1>10. /\ scan.msg \in Stream /\ scan.out \in Seq(Stream) /\ byte \in Byte
       /\ scan.block \in Nat /\ scan.parseIdx \in Nat /\ scan.skipping \in BOOLEAN
       /\ scan.parseIdx + 1 \in Nat /\ scan.block - 1 \in Nat /\ <<>> \in Stream
  <2>1. /\ scan.msg \in Stream /\ scan.out \in Seq(Stream)
        /\ scan.block \in Nat /\ scan.parseIdx \in Nat /\ scan.skipping \in BOOLEAN
    BY <1>4 DEF ScanState
  <2>2. scan.block >= 1 /\ byte \in Byte
    BY <1>1, <1>2
  <2> QED
    BY <2>1, <2>2 DEF Stream
<1>0. MESSAGE_LEN_MAX \in Nat /\ MESSAGE_LEN_MAX > 2 /\ CRLF_LEN_2 = 2
  BY Positions
<1> HIDE DEF q, p, e, byte, next, L
<1>11. ASSUME NEW x, x.lastParsedBlock = scan.block - 1, x.cursor = scan.parseIdx + 1
       PROVE  AtEnd(x, p)
  <2>1. scan.block - 1 \in 0..Len(RecvMsgBlocks) - 1 /\ (scan.block - 1) + 1 = scan.block
    BY <1>1, <1>2, <1>10
  <2>2. scan.parseIdx + 1 <= Len(RecvMsgBlocks[scan.block])
    BY <1>2
  <2> QED
    BY <1>2, <1>11, <2>1, <2>2 DEF AtEnd
<1>12. ASSUME NEW x, x.lastParsedBlock = scan.lastParsedBlock, x.cursor = scan.cursor
       PROVE  AtEnd(x, e)
  BY <1>4, <1>12 DEF AtEnd
<1>13. ASSUME NEW x, x.block = next.block, x.parseIdx = next.parseIdx
       PROVE  AtByte(x, n + 1)
  BY <1>2, <1>13 DEF AtByte
<1>14. SubSeq(stream, p + 1, p) = <<>>
  BY <1>3, SubSeqEmpty
<1>15. SUFFICES /\ r \in ScanState /\ AtByte(r, n + 1)
                /\ AtEnd(r, LastEnd(stream, p)) /\ InMsg(r, LastEnd(stream, p), p)
                /\ delivered \o r.out = L[p]
  BY <1>3 DEF ScanGood, L
<1>16. CASE scan.skipping
  <2>1. q - e >= MESSAGE_LEN_MAX /\ scan.lastChar = stream[q]
    BY <1>4, <1>16 DEF InMsg
  <2>2. CASE scan.lastChar = "CR" /\ byte = "LF"
    <3>1. p \in Ends(stream)
      BY <1>0, <1>2, <1>3, <1>5, <1>8, <2>1, <2>2
    <3>2. r = [next EXCEPT !.msg = <<>>, !.skipping = FALSE, !.cursor = scan.parseIdx + 1,
                           !.lastParsedBlock = scan.block - 1]
      BY <1>16, <2>2 DEF ScanByte, byte, next
    <3>3. /\ r \in ScanState /\ r.msg = <<>> /\ r.skipping = FALSE
          /\ r.cursor = scan.parseIdx + 1 /\ r.lastParsedBlock = scan.block - 1
          /\ r.block = next.block /\ r.parseIdx = next.parseIdx /\ r.out = scan.out
      BY <1>2, <1>10, <3>2 DEF ScanState
    <3>4. LastEnd(stream, p) = p
      BY <1>6, <3>1
    <3>5. L[p] = L[q]
      <4>1. Len(LineAt(stream, p)) = p - CRLF_LEN_2 - e
        BY <1>1, <1>3, <3>1, LineAtType DEF e
      <4>2. ~(Len(LineAt(stream, p)) <= Longest)
        BY <1>0, <1>3, <1>5, <2>1, <4>1 DEF Longest
      <4> QED
        BY <1>7, <4>2 DEF OneByteMore
    <3> HIDE DEF r
    <3>6. InMsg(r, p, p)
      BY <1>0, <1>3, <1>14, <3>3 DEF InMsg
    <3> QED
      BY <1>4, <1>11, <1>13, <3>3, <3>4, <3>5, <3>6
  <2>3. CASE ~(scan.lastChar = "CR" /\ byte = "LF")
    <3>1. p \notin Ends(stream)
      BY <1>2, <1>8, <2>1, <2>3
    <3>2. r = [next EXCEPT !.lastChar = byte]
      BY <1>16, <2>3 DEF ScanByte, byte, next
    <3>3. /\ r \in ScanState /\ r.skipping = scan.skipping /\ r.lastChar = byte
          /\ r.cursor = scan.cursor /\ r.lastParsedBlock = scan.lastParsedBlock
          /\ r.block = next.block /\ r.parseIdx = next.parseIdx /\ r.out = scan.out
      BY <1>2, <1>10, <3>2 DEF ScanState
    <3>4. LastEnd(stream, p) = e /\ L[p] = L[q]
      BY <1>6, <1>7, <3>1 DEF OneByteMore
    <3> HIDE DEF r
    <3>5. p - e >= MESSAGE_LEN_MAX
      BY <1>0, <1>3, <1>5, <2>1
    <3>6. InMsg(r, e, p)
      BY <1>2, <1>16, <3>3, <3>5 DEF InMsg
    <3> QED
      BY <1>4, <1>12, <1>13, <3>3, <3>4, <3>6
  <2> QED
    BY <2>2, <2>3
<1>17. CASE ~scan.skipping
  <2>1. q - e < MESSAGE_LEN_MAX /\ scan.msg = SubSeq(stream, e + 1, q)
    BY <1>4, <1>17 DEF InMsg
  <2>2. /\ msg = SubSeq(stream, e + 1, p) /\ msg \in Stream /\ Len(msg) = p - e
        /\ \A k \in 1..p - e : msg[k] = stream[e + k]
    <3>1. e \in Nat /\ e <= q /\ q <= Len(stream) /\ e <= p /\ p <= Len(stream)
          /\ p - e = (q - e) + 1
      BY <1>2, <1>3, <1>5
    <3>2. /\ scan.msg \in Stream /\ Len(scan.msg) = q - e
          /\ \A k \in 1..q - e : scan.msg[k] = stream[e + k]
      <4>1. /\ SubSeq(stream, e + 1, q) \in Stream /\ Len(SubSeq(stream, e + 1, q)) = q - e
            /\ \A k \in 1..q - e : SubSeq(stream, e + 1, q)[k] = stream[e + k]
        BY ONLY <1>1, <1>3, <3>1, PartOfStream
      <4> QED
        BY <2>1, <4>1
    <3>3. /\ SubSeq(stream, e + 1, p) \in Stream /\ Len(SubSeq(stream, e + 1, p)) = p - e
          /\ \A k \in 1..p - e : SubSeq(stream, e + 1, p)[k] = stream[e + k]
      BY ONLY <1>1, <1>3, <3>1, PartOfStream
    <3>4. /\ msg \in Stream /\ Len(msg) = p - e
          /\ \A k \in 1..q - e : msg[k] = scan.msg[k]
          /\ msg[p - e] = byte
      <4>1. /\ Append(scan.msg, byte) \in Seq(Byte) /\ Len(Append(scan.msg, byte)) = q - e + 1
            /\ \A k \in 1..q - e : Append(scan.msg, byte)[k] = scan.msg[k]
            /\ Append(scan.msg, byte)[q - e + 1] = byte
        BY <1>10, <3>2 DEF Stream
      <4> QED
        BY <3>1, <4>1 DEF Stream
    <3> HIDE DEF msg
    <3>5. ASSUME NEW k \in 1..p - e
          PROVE  msg[k] = stream[e + k]
      <4>1. CASE k \in 1..q - e
        BY <3>2, <3>4, <4>1
      <4>2. CASE k = p - e
        <5>1. e + k = p
          BY <1>3, <1>5, <4>2
        <5> QED
          BY <1>2, <3>4, <4>2, <5>1
      <4>3. k \in 1..q - e \/ k = p - e
        BY <1>3, <1>5
      <4> QED
        BY <4>1, <4>2, <4>3
    <3>6. \A k \in 1..Len(msg) : msg[k] = SubSeq(stream, e + 1, p)[k]
      BY <3>3, <3>4, <3>5
    <3>7. msg = SubSeq(stream, e + 1, p)
      BY <3>3, <3>4, <3>6, SeqEqual DEF Stream
    <3> QED
      BY <3>4, <3>5, <3>7
  <2>3. EndsWithCRLF(msg) <=> p \in Ends(stream)
    <3>1. p - e \in Nat /\ p - e >= 1
      BY <1>3, <1>5
    <3>2. CASE p - e >= 2
      <4>1. p - e - 1 \in 1..p - e /\ p - e \in 1..p - e /\ e + (p - e - 1) = q
            /\ e + (p - e) = p
        BY <1>3, <1>5, <3>2
      <4>2. msg[Len(msg) - 1] = stream[q] /\ msg[Len(msg)] = stream[p]
        BY <2>2, <4>1
      <4>3. p >= 2
        BY <1>3, <1>5, <3>2
      <4> HIDE DEF msg
      <4> QED
        BY <1>0, <1>8, <2>2, <3>2, <4>2, <4>3 DEF EndsWithCRLF
    <3>3. CASE ~(p - e >= 2)
      <4>1. e = q
        BY <1>3, <1>5, <3>1, <3>3
      <4>2. ASSUME e \in Ends(stream)
            PROVE  stream[q] = "LF"
        BY <4>1, <4>2 DEF Ends
      <4>3. e = 0 => ~(p >= 2)
        BY <1>3, <4>1
      <4>4. p \notin Ends(stream)
        BY <1>5, <1>8, <4>2, <4>3
      <4> HIDE DEF msg
      <4> QED
        BY <1>0, <2>2, <3>3, <4>4 DEF EndsWithCRLF
    <3> QED
      BY <3>2, <3>3
  <2>4. CASE EndsWithCRLF(msg)
    <3> DEFINE line == SubSeq(msg, 1, Len(msg) - CRLF_LEN_2)
    <3>1. p \in Ends(stream) /\ LastEnd(stream, p) = p
      BY <1>6, <2>3, <2>4
    <3>2. r = [next EXCEPT !.msg = <<>>, !.skipping = FALSE, !.cursor = scan.parseIdx + 1,
                           !.lastParsedBlock = scan.block - 1, !.out = Append(@, line)]
      BY <1>17, <2>4 DEF ScanByte, byte, next
    <3>3. line = LineAt(stream, p) /\ line \in Stream /\ Len(line) <= Longest
      <4>1. LineAt(stream, p) \in Stream /\ Len(LineAt(stream, p)) = p - CRLF_LEN_2 - e
            /\ p \in 2..Len(stream) /\ e \in 0..p - 2
        BY <1>1, <1>3, <3>1, LineAtType DEF e
      <4> DEFINE m == p - CRLF_LEN_2
      <4>2. m \in Nat /\ e <= m /\ m <= Len(stream) /\ m <= p /\ 0 <= m - e /\ m - e <= Len(msg)
            /\ m - e \in Nat /\ e \in Nat /\ Len(msg) - CRLF_LEN_2 = m - e
        BY <1>0, <1>1, <2>2, <4>1
      <4>3. \A k \in 1..m - e : LineAt(stream, p)[k] = stream[e + k]
        BY <1>1, <1>9, <4>2, PartOfStream
      <4> HIDE DEF m, msg
      <4>4. /\ SubSeq(msg, 0 + 1, m - e) \in Stream
            /\ Len(SubSeq(msg, 0 + 1, m - e)) = (m - e) - 0
            /\ \A k \in 1..(m - e) - 0 : SubSeq(msg, 0 + 1, m - e)[k] = msg[0 + k]
        <5>1. msg \in Stream /\ 0 \in Nat /\ m - e \in Nat /\ 0 <= m - e /\ m - e <= Len(msg)
          BY <2>2, <4>2
        <5> QED
          BY ONLY <5>1, PartOfStream
      <4>5. line = SubSeq(msg, 0 + 1, m - e)
        BY <4>2
      <4>6. line \in Stream /\ Len(line) = m - e /\ \A k \in 1..m - e : line[k] = msg[k]
        <5>1. (m - e) - 0 = m - e /\ \A k \in 1..m - e : 0 + k = k
          BY <4>2
        <5> QED
          BY <4>4, <4>5, <5>1
      <4>7. \A k \in 1..m - e : k \in 1..p - e
        BY <1>3, <4>2
      <4> HIDE DEF line
      <4>8. \A k \in 1..m - e : line[k] = LineAt(stream, p)[k]
        BY <2>2, <4>3, <4>6, <4>7
      <4>9. Len(LineAt(stream, p)) = m - e
        BY <4>1 DEF m
      <4>10. line = LineAt(stream, p)
        BY <4>1, <4>6, <4>8, <4>9, SeqEqual DEF Stream
      <4>11. m - e <= Longest
        BY <1>0, <1>3, <1>5, <2>1 DEF m, Longest
      <4> QED
        BY <4>6, <4>10, <4>11
    <3> HIDE DEF line, msg
    <3>4. /\ r \in ScanState /\ r.msg = <<>> /\ r.skipping = FALSE
          /\ r.cursor = scan.parseIdx + 1 /\ r.lastParsedBlock = scan.block - 1
          /\ r.block = next.block /\ r.parseIdx = next.parseIdx
          /\ r.out = Append(scan.out, line)
      <4>1. Append(scan.out, line) \in Seq(Stream)
        BY <1>10, <3>3
      <4>2. r = [next EXCEPT !.msg = <<>>, !.skipping = FALSE, !.cursor = scan.parseIdx + 1,
                             !.lastParsedBlock = scan.block - 1,
                             !.out = Append(scan.out, line)]
        BY <1>2, <3>2
      <4> HIDE DEF r
      <4> DEFINE out == Append(scan.out, line)
      <4> HIDE DEF out
      <4> QED
        BY <1>2, <1>10, <4>1, <4>2 DEF ScanState
    <3>5. L[p] = Append(L[q], line)
      BY <1>7, <3>1, <3>3 DEF OneByteMore
    <3>6. delivered \o Append(scan.out, line) = Append(delivered \o scan.out, line)
      <4>1. delivered \in Seq(Stream) /\ scan.out \in Seq(Stream) /\ line \in Stream
        BY <1>1, <1>10, <3>3
      <4> QED
        BY ONLY <4>1, ConcatOfAppend
    <3> HIDE DEF r
    <3>7. InMsg(r, p, p)
      BY <1>0, <1>3, <1>14, <3>4 DEF InMsg
    <3> QED
      BY <1>4, <1>11, <1>13, <3>1, <3>4, <3>5, <3>6, <3>7
  <2>5. CASE ~EndsWithCRLF(msg)
    <3>1. p \notin Ends(stream)
      BY <2>3, <2>5
    <3>2. LastEnd(stream, p) = e /\ L[p] = L[q]
      BY <1>6, <1>7, <3>1 DEF OneByteMore
    <3>3. r = [next EXCEPT !.msg = msg, !.lastChar = byte,
                           !.skipping = Len(msg) = MESSAGE_LEN_MAX]
      BY <1>17, <2>5 DEF ScanByte, byte, next
    <3> HIDE DEF msg
    <3>4. /\ r \in ScanState /\ r.msg = msg /\ r.lastChar = byte
          /\ r.skipping <=> Len(msg) = MESSAGE_LEN_MAX
          /\ r.cursor = scan.cursor /\ r.lastParsedBlock = scan.lastParsedBlock
          /\ r.block = next.block /\ r.parseIdx = next.parseIdx /\ r.out = scan.out
      BY <1>2, <1>10, <2>2, <3>3 DEF ScanState
    <3> HIDE DEF r
    <3>5. r.skipping => p - e >= MESSAGE_LEN_MAX
      BY <1>0, <1>3, <1>5, <2>2, <3>4
    <3>6. ~r.skipping => p - e < MESSAGE_LEN_MAX
      BY <1>0, <1>3, <1>5, <2>1, <2>2, <3>4
    <3>7. InMsg(r, e, p)
      BY <1>2, <2>2, <3>4, <3>5, <3>6 DEF InMsg
    <3> QED
      BY <1>4, <1>12, <1>13, <3>2, <3>4, <3>7
  <2> QED
    BY <2>4, <2>5
<1> QED
  BY <1>10, <1>16, <1>17

\* The whole scan: the recursive function of Scan exists, and keeps the invariant.
LEMMA ScanHolds ==
  ASSUME BlocksInv, ~NothingToSeparate
  PROVE  /\ Received - RecvMsgBlockCursor \in Nat
         /\ ScanGood(Scan, Received - RecvMsgBlockCursor)
<1> DEFINE N == Received - RecvMsgBlockCursor
           F == [x \in (1..N) \X ScanState |->
                   IF ScanByte(x[2]) \in ScanState THEN ScanByte(x[2]) ELSE x[2]]
           Loop(g) == [n \in 0..N |-> IF n = 0 THEN ScanStart ELSE ScanByte(g[n - 1])]
           scans == CHOOSE g : g = Loop(g)
<1>1. N \in Nat
  <2>1. Received \in Int /\ RecvMsgBlockCursor \in Nat /\ Len(stream) \in Nat
        /\ ParsedTo \in 0..Len(stream) /\ ParsedTo = (Len(stream) - Received) + RecvMsgBlockCursor
    BY BlockFacts DEF ParsedTo, Removed
  <2> QED
    BY <2>1
<1>2. ScanGood(ScanStart, 0) /\ ScanStart \in ScanState
  BY ScanStarts DEF ScanGood
<1>3. ASSUME NEW n \in 0..N - 1, NEW scan, ScanGood(scan, n)
      PROVE  ScanGood(ScanByte(scan), n + 1) /\ ScanByte(scan) \in ScanState
  <2>1. n \in Nat /\ n < N
    BY <1>1
  <2>2. ScanGood(ScanByte(scan), n + 1)
    BY <1>3, <2>1, ScanKeeps
  <2> QED
    BY <2>2 DEF ScanGood
<1> HIDE DEF N
<1>4. F \in [(1..N) \X ScanState -> ScanState]
  <2>1. \A x \in (1..N) \X ScanState :
          (IF ScanByte(x[2]) \in ScanState THEN ScanByte(x[2]) ELSE x[2]) \in ScanState
    OBVIOUS
  <2> QED
    BY <2>1
<1>5. PICK f \in [0..N -> ScanState] : Runs(f, N, ScanStart, F)
  <2> HIDE DEF F
  <2> QED
    BY <1>1, <1>2, <1>4, LoopExists
<1>6. ASSUME NEW n \in 0..N - 1, ScanGood(f[n], n)
      PROVE  f[n + 1] = ScanByte(f[n])
  <2>1. n + 1 \in 1..N /\ (n + 1) - 1 = n /\ n \in 0..N
    BY <1>1
  <2>2. f[n + 1] = F[n + 1, f[n]]
    BY <1>5, <2>1 DEF Runs
  <2>3. f[n] \in ScanState
    BY <1>5, <2>1
  <2>4. ScanByte(f[n]) \in ScanState
    BY <1>3, <1>6
  <2>5. <<n + 1, f[n]>> \in (1..N) \X ScanState
    BY <2>1, <2>3
  <2> QED
    BY <2>2, <2>4, <2>5
<1>7. \A n \in 0..N : ScanGood(f[n], n)
  <2> DEFINE T == {n \in 0..N : ScanGood(f[n], n)}
  <2>1. 0 \in T
    <3>1. 0 \in 0..N
      BY <1>1
    <3>2. f[0] = ScanStart
      BY <1>5 DEF Runs
    <3> QED
      BY <1>2, <3>1, <3>2
  <2>2. ASSUME NEW n \in 0..N - 1, n \in T
        PROVE  n + 1 \in T
    <3>1. n + 1 \in 0..N
      BY <1>1
    <3> QED
      BY <1>3, <1>6, <2>2, <3>1
  <2> HIDE DEF T
  <2>3. 0..N \subseteq T
    BY <1>1, <2>1, <2>2, InductionUpTo
  <2> QED
    BY <2>3 DEF T
<1>8. f = Loop(f)
  <2>1. f[0] = ScanStart
    BY <1>5 DEF Runs
  <2>2. ASSUME NEW n \in 0..N, n # 0
        PROVE  f[n] = ScanByte(f[n - 1])
    <3>1. n - 1 \in 0..N - 1 /\ n - 1 \in 0..N /\ (n - 1) + 1 = n
      BY <1>1, <2>2
    <3>2. ScanGood(f[n - 1], n - 1)
      BY <1>7, <3>1
    <3>3. f[(n - 1) + 1] = ScanByte(f[n - 1])
      BY <1>6, <3>1, <3>2
    <3> QED
      BY <3>1, <3>3
  <2> QED
    BY <2>1, <2>2
<1>9. scans = Loop(scans)
  BY <1>8, Zenon
<1>10. Scan = scans[N]
  BY Zenon DEF Scan, N
<1> HIDE DEF scans
<1>11. \A n \in 0..N : scans[n] = IF n = 0 THEN ScanStart ELSE ScanByte(scans[n - 1])
  BY <1>9
<1>12. \A n \in 0..N : ScanGood(scans[n], n)
  <2> DEFINE T == {n \in 0..N : ScanGood(scans[n], n)}
  <2>1. 0 \in T
    <3>1. 0 \in 0..N
      BY <1>1
    <3>2. scans[0] = ScanStart
      BY <1>11, <3>1
    <3> QED
      BY <1>2, <3>1, <3>2
  <2>2. ASSUME NEW n \in 0..N - 1, n \in T
        PROVE  n + 1 \in T
    <3>1. n + 1 \in 0..N /\ n + 1 # 0 /\ (n + 1) - 1 = n
      BY <1>1
    <3>2. scans[n + 1] = ScanByte(scans[n])
      BY <1>11, <3>1
    <3> QED
      BY <1>3, <2>2, <3>1, <3>2
  <2> HIDE DEF T
  <2>3. 0..N \subseteq T
    BY <1>1, <2>1, <2>2, InductionUpTo
  <2> QED
    BY <2>3 DEF T
<1> QED
  BY <1>1, <1>10, <1>12 DEF N

\* What the scan of all bytes gives.
LEMMA ScanGives ==
  ASSUME BlocksInv, ~NothingToSeparate
  PROVE  /\ Scan \in ScanState
         /\ AtEnd(Scan, LastEnd(stream, Len(stream)))
         /\ delivered \o Scan.out = LinesBy(stream, Longest)[Len(stream)]
         /\ Scan.skipping => Len(stream) - LastEnd(stream, Len(stream)) >= MESSAGE_LEN_MAX
<1>1. ParsedTo + (Received - RecvMsgBlockCursor) = Len(stream)
  <2>1. Received \in Int /\ RecvMsgBlockCursor \in Nat /\ Len(stream) \in Nat
    BY BlockFacts
  <2> QED
    BY <2>1 DEF ParsedTo, Removed
<1>2. ScanGood(Scan, Received - RecvMsgBlockCursor)
  BY ScanHolds
<1> QED
  BY <1>1, <1>2 DEF ScanGood, InMsg

-----------------------------------------------------------------------------
(***************************************************************************)
(* Receiving and separating keep the invariant.                            *)
(***************************************************************************)

\* At the start there are no blocks.
LEMMA BlocksInvInit == FramingInit => BlocksInv /\ CompleteOrStalled /\ ShortMessagesAreSafe
<1> SUFFICES ASSUME FramingInit
             PROVE  BlocksInv /\ CompleteOrStalled /\ ShortMessagesAreSafe
  OBVIOUS
<1>1. /\ stream = <<>> /\ delivered = <<>> /\ RecvMsgBlocks = <<>>
      /\ RecvMsgBlockCursor = 0 /\ queued = 0 /\ processing = FALSE
      /\ framingStatus = "running" /\ Len(stream) = 0 /\ DOMAIN RecvMsgBlocks = {}
      /\ stream \in Stream
  BY EmptySeq DEF FramingInit, Stream
<1>2. Received = 0 /\ Removed = 0 /\ ParsedTo = 0
  BY <1>1 DEF Received, Removed, ParsedTo
<1>3. FramingTypeOK
  <2>1. NUM_CLIENT_MSGBLOCK_RECV_IGNORE_THRESHOLD \in Nat /\ STREAM_MAX \in Nat
        /\ MESSAGE_LEN_MAX \in Nat
    BY ThresholdAssumption, StreamAssumption, Positions
  <2> QED
    <3>1. <<>> \in Seq(Byte) /\ <<>> \in Seq(Seq(Byte)) /\ Len(<<>>) = 0
      BY EmptySeq
    <3>2. 0 \in 0..MESSAGE_LEN_MAX /\ 0 \in Nat /\ FALSE \in BOOLEAN
      BY <2>1
    <3>3. \A b \in DOMAIN RecvMsgBlocks : FALSE
      BY <1>1
    <3>4. Len(stream) <= STREAM_MAX /\ Len(RecvMsgBlocks) <= NUM_CLIENT_MSGBLOCK_RECV_IGNORE_THRESHOLD
      BY <1>1, <2>1, <3>1
    <3> QED
      BY <1>1, <3>1, <3>2, <3>3, <3>4, Zenon DEF FramingTypeOK
<1>4. SubSeq(stream, 1, 0) = stream /\ SubSeq(stream, 0 + 1, Len(stream)) = stream
  BY <1>1, SubSeqEmpty
<1>5. LinesBy(stream, Longest)[0] = <<>> /\ Lines(stream) = <<>>
  BY <1>1, LinesAre DEF Lines
<1>6. CursorIsExact
  BY <1>1, <1>2, <1>4, <1>5 DEF CursorIsExact, Frames, Longest
<1>7. CompleteOrStalled
  BY <1>2, <1>4, <1>5 DEF CompleteOrStalled
<1> QED
  BY <1>1, <1>2, <1>3, <1>6, <1>7
  DEF BlocksInv, InStream, CursorInBlock, CursorBehindLine, ShortMessagesAreSafe

\* The messages before the cursor stay what they are when the stream grows.
LEMMA FramesOfPast ==
  ASSUME NEW s \in Stream, NEW n \in Nat, n <= Len(s)
  PROVE  Frames(SubSeq(s, 1, n)) = LinesBy(s, Longest)[n]
<1> DEFINE past == SubSeq(s, 1, n)
<1>1. past = SubSeq(s, 0 + 1, n) /\ 0 \in Nat /\ 0 <= n /\ n - 0 = n
      /\ \A k \in 1..n : 0 + k = k
  OBVIOUS
<1>2. /\ past \in Stream /\ Len(past) = n
      /\ \A k \in 1..n : past[k] = s[0 + k]
  BY <1>1, PartOfStream
<1>3. n <= Len(past) /\ \A k \in 1..n : past[k] = s[k]
  BY <1>1, <1>2
<1> HIDE DEF past
<1>4. LinesBy(past, Longest)[n] = LinesBy(s, Longest)[n]
  BY <1>2, <1>3, LinesAgree
<1> QED
  BY <1>2, <1>4 DEF Frames, Longest, past

\* The bytes of a recv() go behind those of the blocks.
LEMMA ReceiveKeeps == BlocksInv /\ Receive => BlocksInv'
<1> SUFFICES ASSUME BlocksInv, Receive
             PROVE  BlocksInv'
  OBVIOUS
<1> DEFINE N == Len(RecvMsgBlocks)
           M == MESSAGE_LEN_MAX
           fresh == RecvMsgBlocks = <<>> \/ Len(Last(RecvMsgBlocks)) = M
           block == IF fresh THEN <<>> ELSE Last(RecvMsgBlocks)
           before == IF fresh THEN RecvMsgBlocks ELSE Front(RecvMsgBlocks)
<1>0. PICK n \in 1..(M - Len(block)) : \E bytes \in [1..n -> Byte] :
        /\ Len(stream) + n <= STREAM_MAX
        /\ RecvMsgBlocks' = Append(before, block \o bytes)
        /\ stream' = stream \o bytes
  BY DEF Receive
<1>1. PICK bytes \in [1..n -> Byte] :
        /\ Len(stream) + n <= STREAM_MAX
        /\ RecvMsgBlocks' = Append(before, block \o bytes)
        /\ stream' = stream \o bytes
  BY <1>0
<1>2. /\ stream \in Stream /\ Len(stream) \in Nat
      /\ delivered \in Seq(Stream) /\ RecvMsgBlocks \in Seq(Stream) /\ N \in Nat
      /\ DOMAIN RecvMsgBlocks = 1..N
      /\ \A b \in 1..N :
           /\ RecvMsgBlocks[b] \in Stream /\ Len(RecvMsgBlocks[b]) \in 1..M
           /\ DOMAIN RecvMsgBlocks[b] = 1..Len(RecvMsgBlocks[b])
           /\ b < N => Len(RecvMsgBlocks[b]) = M
      /\ RecvMsgBlockCursor \in Nat /\ Received \in Int /\ Removed \in Int
      /\ ParsedTo \in 0..Len(stream)
      /\ delivered = LinesBy(stream, Longest)[ParsedTo]
  BY BlockFacts
<1>3. M \in Nat /\ M > 2
  BY Positions
<1>4. /\ delivered' = delivered /\ RecvMsgBlockCursor' = RecvMsgBlockCursor
      /\ queued' = queued + 1 /\ processing' = processing /\ framingStatus' = framingStatus
      /\ N < NUM_CLIENT_MSGBLOCK_RECV_IGNORE_THRESHOLD
  BY DEF Receive
\* The block that is filled is block B of the new queue, with room for n bytes more.
<1> DEFINE B == Len(before) + 1
<1>5. /\ block \in Stream /\ Len(block) \in Nat /\ before \in Seq(Stream)
      /\ B \in 1..N + 1 /\ B > 0 /\ Len(before) = B - 1
      /\ \A b \in 1..B - 1 : before[b] = RecvMsgBlocks[b] /\ Len(RecvMsgBlocks[b]) = M
      /\ Position(B, Len(block)) = Received /\ Position(B, 0) \in Int
      /\ (B = N + 1 /\ block = <<>>) \/ (B = N /\ B >= 1 /\ block = RecvMsgBlocks[B])
  <2>1. CASE RecvMsgBlocks = <<>>
    <3>1. block = <<>> /\ before = <<>> /\ N = 0 /\ Len(block) = 0 /\ B = 1
      BY <2>1
    <3>2. Received = 0 /\ Position(1, 0) = 0
      BY <2>1, Positions DEF Received
    <3> HIDE DEF block, before, B, fresh
    <3> QED
      BY <1>2, <3>1, <3>2, EmptySeq DEF Stream
  <2>2. CASE RecvMsgBlocks # <<>> /\ Len(Last(RecvMsgBlocks)) = M
    <3>1. block = <<>> /\ before = RecvMsgBlocks /\ B = N + 1 /\ Len(block) = 0
      BY <2>2
    <3>2. Received = Position(N, M)
      BY <2>2 DEF Received, Last
    <3>3. N \in Int /\ Position(N + 1, 0) = Position(N, M) /\ Position(N + 1, 0) \in Int
      BY <1>2, <1>3 DEF Position
    <3>4. \A b \in 1..N : Len(RecvMsgBlocks[b]) = M
      <4>1. ASSUME NEW b \in 1..N
            PROVE  Len(RecvMsgBlocks[b]) = M
        <5>1. b < N \/ b = N
          <6>1. N \in Nat
            BY <1>2
          <6> HIDE DEF N
          <6> QED
            BY <6>1
        <5> QED
          BY <1>2, <2>2, <5>1 DEF Last
      <4> QED
        BY <4>1
    <3>5. (N + 1) - 1 = N /\ N + 1 \in 1..N + 1 /\ N + 1 > 0 /\ <<>> \in Stream
      BY <1>2, EmptySeq DEF Stream
    <3> HIDE DEF block, before, B, fresh, N
    <3> QED
      BY <1>2, <3>1, <3>2, <3>3, <3>4, <3>5
  <2>3. CASE ~fresh
    <3>1. block = RecvMsgBlocks[N] /\ before = SubSeq(RecvMsgBlocks, 1, N - 1)
      BY <2>3 DEF Last, Front
    <3>2. N >= 1 /\ N \in 1..N
      BY <1>2, <2>3
    <3>3. /\ before \in Seq(Stream) /\ Len(before) = N - 1
          /\ \A b \in 1..N - 1 : before[b] = RecvMsgBlocks[b]
      <4>1. 1 \in Int /\ N - 1 \in Int /\ \A b \in 1..N - 1 : RecvMsgBlocks[b] \in Stream
        BY <1>2, <3>2
      <4>2. /\ SubSeq(RecvMsgBlocks, 1, N - 1) \in Seq(Stream)
            /\ Len(SubSeq(RecvMsgBlocks, 1, N - 1)) = IF 1 <= N - 1 THEN N - 1 - 1 + 1 ELSE 0
            /\ \A b \in 1..N - 1 - 1 + 1 :
                 SubSeq(RecvMsgBlocks, 1, N - 1)[b] = RecvMsgBlocks[1 + b - 1]
        BY <4>1, SubSeqProperties
      <4>3. N - 1 - 1 + 1 = N - 1 /\ \A b \in 1..N - 1 : 1 + b - 1 = b
        BY <1>2
      <4>4. (IF 1 <= N - 1 THEN N - 1 - 1 + 1 ELSE 0) = N - 1
        BY <1>2, <3>2
      <4> HIDE DEF before, N
      <4> QED
        BY <3>1, <4>2, <4>3, <4>4
    <3>4. B = N
      <4>1. N \in Nat /\ Len(before) = N - 1 /\ B = Len(before) + 1
        BY <1>2, <3>3
      <4> HIDE DEF B, N, before
      <4> QED
        BY <4>1
    <3>5. Received = Position(N, Len(block))
      BY <2>3, <3>1 DEF Received, Last
    <3>6. block \in Stream /\ Len(block) \in Nat
      BY <1>2, <1>3, <3>1, <3>2 DEF Stream
    <3>7. \A b \in 1..N - 1 : b \in 1..N /\ b < N
      BY <1>2
    <3>8. Position(N, 0) \in Int /\ N \in 1..N + 1 /\ N > 0
      BY <1>2, <1>3, <3>2 DEF Position
    <3> HIDE DEF block, before, B, fresh, N
    <3> QED
      BY <1>2, <3>1, <3>2, <3>3, <3>4, <3>5, <3>6, <3>7, <3>8
  <2> QED
    BY <2>1, <2>2, <2>3
<1>6. n \in Nat /\ n >= 1 /\ Len(block) + n <= M
  BY <1>3, <1>5
<1> HIDE DEF B, block, before, fresh
<1>18. /\ B \in Nat /\ B >= 1 /\ B <= N + 1 /\ N \in Nat /\ Len(block) \in Nat
       /\ n \in Nat /\ n >= 1 /\ M \in Nat /\ Len(stream) \in Nat
  <2>1. N \in Nat /\ B \in 1..N + 1 /\ Len(block) \in Nat /\ Len(stream) \in Nat
    BY <1>2, <1>5
  <2> HIDE DEF N, M
  <2> QED
    BY <1>3, <1>6, <2>1
<1>7. /\ bytes \in Stream /\ Len(bytes) = n
      /\ stream' \in Stream /\ Len(stream') = Len(stream) + n
      /\ \A k \in 1..Len(stream) : stream'[k] = stream[k]
      /\ \A k \in 1..n : stream'[Len(stream) + k] = bytes[k]
  <2>1. bytes \in Seq(Byte) /\ Len(bytes) = n
    BY <1>6
  <2>2. /\ stream \o bytes \in Seq(Byte) /\ Len(stream \o bytes) = Len(stream) + n
        /\ \A k \in 1..Len(stream) + n :
             (stream \o bytes)[k] = IF k <= Len(stream) THEN stream[k]
                                    ELSE bytes[k - Len(stream)]
    BY <1>2, <2>1, ConcatProperties DEF Stream
  <2>3. /\ \A k \in 1..Len(stream) : k \in 1..Len(stream) + n /\ k <= Len(stream)
        /\ \A k \in 1..n : /\ Len(stream) + k \in 1..Len(stream) + n
                           /\ ~(Len(stream) + k <= Len(stream))
                           /\ (Len(stream) + k) - Len(stream) = k
    BY <1>2, <1>6
  <2> QED
    BY <1>1, <2>1, <2>2, <2>3 DEF Stream
<1> DEFINE filled == block \o bytes
<1>8. /\ filled \in Stream /\ Len(filled) = Len(block) + n
      /\ \A k \in 1..Len(block) : filled[k] = block[k]
      /\ \A k \in Len(block) + 1..Len(block) + n : filled[k] = bytes[k - Len(block)]
  <2>1. /\ block \o bytes \in Seq(Byte) /\ Len(block \o bytes) = Len(block) + n
        /\ \A k \in 1..Len(block) + n :
             (block \o bytes)[k] = IF k <= Len(block) THEN block[k] ELSE bytes[k - Len(block)]
    <3>1. block \in Seq(Byte) /\ bytes \in Seq(Byte) /\ Len(bytes) = n
      BY <1>5, <1>7 DEF Stream
    <3> QED
      BY ONLY <3>1, ConcatProperties
  <2>2. /\ \A k \in 1..Len(block) : k \in 1..Len(block) + n /\ k <= Len(block)
        /\ \A k \in Len(block) + 1..Len(block) + n : /\ k \in 1..Len(block) + n
                                                     /\ ~(k <= Len(block))
    BY <1>5, <1>6
  <2> QED
    BY <2>1, <2>2 DEF Stream
<1> HIDE DEF filled
<1>9. /\ RecvMsgBlocks' \in Seq(Stream) /\ Len(RecvMsgBlocks') = B
      /\ \A b \in 1..B - 1 : RecvMsgBlocks'[b] = RecvMsgBlocks[b]
      /\ RecvMsgBlocks'[B] = filled
  <2>1. RecvMsgBlocks' = Append(before, filled)
    BY <1>1 DEF filled
  <2>2. /\ Append(before, filled) \in Seq(Stream) /\ Len(Append(before, filled)) = B - 1 + 1
        /\ \A b \in 1..B - 1 : Append(before, filled)[b] = before[b]
        /\ Append(before, filled)[B - 1 + 1] = filled
    BY <1>5, <1>8
  <2>3. B - 1 + 1 = B
    <3>1. B \in Int
      BY <1>18
    <3> QED
      BY <3>1
  <2> QED
    BY <1>5, <2>1, <2>2, <2>3
<1>10. \A b \in 1..B - 1 : b \in 1..N /\ b < N + 1 /\ b # B
  <2> HIDE DEF N, M
  <2> QED
    BY <1>18
<1>11. /\ Received' = Received + n /\ Removed' = Removed /\ ParsedTo' = ParsedTo
  <2>1. RecvMsgBlocks' # <<>> /\ Len(RecvMsgBlocks'[Len(RecvMsgBlocks')]) = Len(block) + n
    <3>1. Len(RecvMsgBlocks') # 0
      BY <1>5, <1>9
    <3> QED
      BY <1>8, <1>9, <3>1
  <2>2. Received' = Position(B, Len(block) + n)
    BY <1>9, <2>1 DEF Received, Last
  <2>3. Position(B, Len(block) + n) = Position(B, Len(block)) + n
    <3>1. B \in Int /\ Len(block) \in Int /\ n \in Int /\ M \in Int /\ (B - 1) * M \in Int
      BY <1>18
    <3> QED
      BY <3>1 DEF Position
  <2>4. Received' = Received + n
    BY <1>5, <2>2, <2>3
  <2>5. Removed' = Removed
    BY <1>2, <1>6, <1>7, <2>4 DEF Removed
  <2> QED
    BY <1>4, <2>4, <2>5 DEF ParsedTo
\* Where the bytes of the block that is filled are in the stream.
<1>12. ASSUME NEW k \in 1..Len(block) + n
       PROVE  /\ Removed + Position(B, k) \in 1..Len(stream')
              /\ filled[k] = stream'[Removed + Position(B, k)]
  <2>1. CASE k \in 1..Len(block)
    <3>1. block = RecvMsgBlocks[B] /\ B \in 1..N /\ B \in DOMAIN RecvMsgBlocks
          /\ k \in DOMAIN RecvMsgBlocks[B]
      <4>1. block # <<>>
        BY <1>5, <2>1
      <4>2. B = N /\ B >= 1 /\ block = RecvMsgBlocks[B]
        BY <1>5, <4>1
      <4>3. B \in 1..N
        BY <1>2, <4>2
      <4> QED
        BY <1>2, <2>1, <4>2, <4>3
    <3>2. Removed + Position(B, k) \in 1..Len(stream)
      BY <3>1 DEF BlocksInv, InStream
    <3>3. RecvMsgBlocks[B][k] = stream[Removed + Position(B, k)]
      BY <3>1 DEF BlocksInv, CursorIsExact
    <3>4. Removed + Position(B, k) \in 1..Len(stream')
      BY <1>2, <1>6, <1>7, <3>2
    <3> QED
      BY <1>7, <1>8, <2>1, <3>1, <3>2, <3>3, <3>4
  <2>2. CASE k \in Len(block) + 1..Len(block) + n
    <3> DEFINE j == k - Len(block)
    <3>1. j \in 1..n /\ k \in Int /\ k = Len(block) + j
      BY <1>5, <1>6, <2>2
    <3>2. Removed + Position(B, k) = Len(stream) + j
      <4>1. B \in Int /\ Len(block) \in Int /\ k \in Int /\ M \in Int /\ (B - 1) * M \in Int
            /\ j \in Int
        BY <1>18, <3>1
      <4> HIDE DEF j
      <4>2. Position(B, k) = Position(B, Len(block)) + j
        BY <3>1, <4>1 DEF Position
      <4> QED
        <5>1. Position(B, Len(block)) = Received /\ Received \in Int
              /\ Removed = Len(stream) - Received
          BY <1>2, <1>5 DEF Removed
        <5> QED
          BY <1>18, <4>1, <4>2, <5>1
    <3>3. filled[k] = bytes[j]
      BY <1>8, <2>2
    <3> HIDE DEF j
    <3>4. Len(stream) + j \in 1..Len(stream')
      BY <1>2, <1>6, <1>7, <3>1
    <3> QED
      BY <1>7, <3>1, <3>2, <3>3, <3>4
  <2>3. k \in 1..Len(block) \/ k \in Len(block) + 1..Len(block) + n
    BY <1>5, <1>6
  <2> QED
    BY <2>1, <2>2, <2>3
<1>13. /\ DOMAIN RecvMsgBlocks' = 1..B /\ DOMAIN filled = 1..Len(block) + n
       /\ \A b \in 1..B : b \in 1..B - 1 \/ b = B
  <2>1. DOMAIN filled = 1..Len(filled)
    BY <1>8 DEF Stream
  <2>2. DOMAIN RecvMsgBlocks' = 1..B
    BY <1>9
  <2>3. \A b \in 1..B : b \in 1..B - 1 \/ b = B
    BY <1>18
  <2> QED
    BY <1>8, <2>1, <2>2, <2>3
<1>14. (InStream /\ CursorIsExact)'
  <2>1. ASSUME NEW b \in 1..B, NEW k \in DOMAIN RecvMsgBlocks'[b]
        PROVE  /\ Removed + Position(b, k) \in 1..Len(stream')
               /\ RecvMsgBlocks'[b][k] = stream'[Removed + Position(b, k)]
    <3>1. CASE b \in 1..B - 1
      <4>1. RecvMsgBlocks'[b] = RecvMsgBlocks[b] /\ b \in DOMAIN RecvMsgBlocks
            /\ k \in DOMAIN RecvMsgBlocks[b]
        BY <1>2, <1>9, <1>10, <2>1, <3>1
      <4>2. Removed + Position(b, k) \in 1..Len(stream)
        BY <4>1 DEF BlocksInv, InStream
      <4>3. RecvMsgBlocks[b][k] = stream[Removed + Position(b, k)]
        BY <4>1 DEF BlocksInv, CursorIsExact
      <4>4. Removed + Position(b, k) \in 1..Len(stream')
        BY <1>2, <1>6, <1>7, <4>2
      <4> QED
        BY <1>7, <4>1, <4>2, <4>3, <4>4
    <3>2. CASE b = B
      BY <1>9, <1>12, <1>13, <2>1, <3>2
    <3> QED
      BY <1>13, <3>1, <3>2
  <2>2. delivered' = Frames(SubSeq(stream', 1, ParsedTo))
    <3>1. ParsedTo \in Nat /\ ParsedTo <= Len(stream) /\ ParsedTo <= Len(stream')
          /\ \A k \in 1..ParsedTo : stream[k] = stream'[k]
      BY <1>2, <1>6, <1>7
    <3>2. Frames(SubSeq(stream', 1, ParsedTo)) = LinesBy(stream', Longest)[ParsedTo]
      BY <1>7, <3>1, FramesOfPast
    <3>3. stream \in Stream /\ stream' \in Stream
      BY <1>2, <1>7
    <3>4. LinesBy(stream, Longest)[ParsedTo] = LinesBy(stream', Longest)[ParsedTo]
      BY <3>1, <3>3, LinesAgree
    <3> QED
      BY <1>2, <1>4, <3>2, <3>4
  <2> QED
    BY <1>11, <1>13, <2>1, <2>2 DEF InStream, CursorIsExact
<1>15. FramingTypeOK'
  <2>1. STREAM_MAX \in Nat /\ NUM_CLIENT_MSGBLOCK_RECV_IGNORE_THRESHOLD \in Nat
    BY StreamAssumption, ThresholdAssumption
  <2>2. Len(stream') <= STREAM_MAX
    BY <1>1, <1>7
  <2>3. B <= NUM_CLIENT_MSGBLOCK_RECV_IGNORE_THRESHOLD
    BY <1>4, <1>18, <2>1
  <2>4. ASSUME NEW b \in 1..B
        PROVE  /\ Len(RecvMsgBlocks'[b]) \in 1..M
               /\ b < B => Len(RecvMsgBlocks'[b]) = M
    <3>1. CASE b \in 1..B - 1
      <4>1. RecvMsgBlocks'[b] = RecvMsgBlocks[b] /\ Len(RecvMsgBlocks[b]) = M
        BY <1>5, <1>9, <3>1
      <4> QED
        BY <1>3, <4>1
    <3>2. CASE b = B
      <4>1. Len(RecvMsgBlocks'[b]) = Len(block) + n /\ ~(b < B)
        BY <1>5, <1>8, <1>9, <3>2
      <4> QED
        BY <1>6, <1>18, <4>1
    <3> QED
      BY <1>13, <3>1, <3>2
  <2>5. queued' \in Nat /\ processing' \in BOOLEAN
        /\ framingStatus' \in {"running", "aborted", "corrupted"}
        /\ RecvMsgBlockCursor' \in 0..M /\ delivered' \in Seq(Seq(Byte))
    BY <1>4 DEF BlocksInv, FramingTypeOK
  <2>6. stream' \in Seq(Byte) /\ RecvMsgBlocks' \in Seq(Seq(Byte))
    BY <1>7, <1>9 DEF Stream
  <2> QED
    BY <1>9, <1>13, <2>2, <2>3, <2>4, <2>5, <2>6 DEF FramingTypeOK
<1>16. CursorInBlock'
  <2>1. RecvMsgBlocks' # <<>>
    BY <1>5, <1>9
  <2>2. CASE RecvMsgBlocks = <<>>
    <3>1. RecvMsgBlockCursor = 0
      BY <2>2 DEF BlocksInv, CursorInBlock
    <3>2. Len(RecvMsgBlocks'[1]) >= 0
      <4>1. 1 \in 1..B
        BY <1>18
      <4>2. Len(RecvMsgBlocks'[1]) \in 1..M
        BY <1>9, <1>13, <1>15, <4>1 DEF FramingTypeOK
      <4> QED
        BY <1>3, <4>2
    <3> QED
      BY <1>4, <2>1, <3>1, <3>2 DEF CursorInBlock
  <2>3. CASE RecvMsgBlocks # <<>>
    <3>1. RecvMsgBlockCursor <= Len(RecvMsgBlocks[1])
      BY <2>3 DEF BlocksInv, CursorInBlock
    <3>2. 1 \in 1..N /\ Len(RecvMsgBlocks[1]) \in Nat
      BY <1>2, <1>3, <2>3
    <3>3. Len(RecvMsgBlocks'[1]) \in Nat /\ Len(RecvMsgBlocks'[1]) >= Len(RecvMsgBlocks[1])
      <4>1. CASE 1 \in 1..B - 1
        BY <1>9, <3>2, <4>1
      <4>2. CASE B = 1
        <5>1. block = RecvMsgBlocks[1]
          BY <1>2, <1>5, <3>2, <4>2
        <5> QED
          BY <1>5, <1>6, <1>8, <1>9, <4>2, <5>1
      <4>3. 1 \in 1..B - 1 \/ B = 1
        BY <1>18
      <4> QED
        BY <4>1, <4>2, <4>3
    <3> QED
      BY <1>2, <1>4, <2>1, <3>1, <3>2, <3>3 DEF CursorInBlock
  <2> QED
    BY <2>2, <2>3
<1>17. CursorBehindLine'
  <2>1. CASE ParsedTo = 0
    BY <1>11, <2>1 DEF CursorBehindLine
  <2>2. CASE ParsedTo \in Ends(stream)
    <3>1. ParsedTo \in 2..Len(stream) /\ stream[ParsedTo - 1] = "CR" /\ stream[ParsedTo] = "LF"
      BY <2>2 DEF Ends
    <3>2. ParsedTo - 1 \in 1..Len(stream) /\ ParsedTo \in 1..Len(stream)
          /\ ParsedTo \in 2..Len(stream')
      BY <1>2, <1>6, <1>7, <3>1
    <3>3. ParsedTo \in Ends(stream')
      BY <1>7, <3>1, <3>2 DEF Ends
    <3> QED
      BY <1>11, <3>3 DEF CursorBehindLine
  <2> QED
    BY <2>1, <2>2 DEF BlocksInv, CursorBehindLine
<1> QED
  BY <1>14, <1>15, <1>16, <1>17 DEF BlocksInv

\* Behind the last end there are no lines.
LEMMA NoLinesBehind ==
  ASSUME NEW s \in Stream, NEW n \in Nat, n <= Len(s),
         \A e \in Ends(s) : e <= n
  PROVE  Lines(SubSeq(s, n + 1, Len(s))) = <<>>
<1> DEFINE t == SubSeq(s, n + 1, Len(s))
<1>1. Len(s) \in Nat /\ Len(s) <= Len(s)
  BY DEF Stream
<1>2. /\ t \in Stream /\ Len(t) = Len(s) - n
      /\ \A k \in 1..Len(s) - n : t[k] = s[n + k]
  BY <1>1, PartOfStream
<1> HIDE DEF t
<1>3. ASSUME NEW e \in Ends(t)
      PROVE  FALSE
  <2>1. e \in 2..Len(s) - n /\ t[e - 1] = "CR" /\ t[e] = "LF"
    BY <1>2 DEF Ends
  <2>2. e - 1 \in 1..Len(s) - n /\ e \in 1..Len(s) - n /\ n + (e - 1) = (n + e) - 1
        /\ n + e \in 2..Len(s)
    BY <1>1, <2>1
  <2>3. s[(n + e) - 1] = "CR" /\ s[n + e] = "LF"
    BY <1>2, <2>1, <2>2
  <2>4. n + e \in Ends(s)
    BY <2>2, <2>3 DEF Ends
  <2> QED
    BY <2>1, <2>4
<1>4. Len(t) \in Nat /\ 0 \in Nat /\ 0 <= Len(t) /\ Len(t) <= Len(t)
      /\ \A k \in 0 + 1..Len(t) : k \notin Ends(t)
  BY <1>1, <1>2, <1>3
<1>5. LinesBy(t, Len(t))[Len(t)] = LinesBy(t, Len(t))[0]
  BY <1>2, <1>4, LinesBetween
<1>6. LinesBy(t, Len(t))[0] = <<>>
  BY <1>2, LinesAre
<1> QED
  BY <1>5, <1>6 DEF Lines, t

\* Separation leaves the blocks from the one on in which the last message ended.
LEMMA SeparateKeeps ==
  ASSUME BlocksInv, ~NothingToSeparate,
         stream' = stream, queued' \in Nat, processing' \in BOOLEAN,
         framingStatus' \in {"running", "aborted", "corrupted"},
         delivered' = delivered \o Scan.out,
         RecvMsgBlocks' = SubSeq(RecvMsgBlocks, Scan.lastParsedBlock + 1, Len(RecvMsgBlocks)),
         RecvMsgBlockCursor' = Scan.cursor
  PROVE  BlocksInv' /\ ParsedTo' = LastEnd(stream, Len(stream))
<1> DEFINE N == Len(RecvMsgBlocks)
           l == Scan.lastParsedBlock
           c == Scan.cursor
           e == LastEnd(stream, Len(stream))
           D == Position(l + 1, 0)
<1>1. /\ stream \in Stream /\ Len(stream) \in Nat
      /\ delivered \in Seq(Stream) /\ RecvMsgBlocks \in Seq(Stream) /\ N \in Nat
      /\ DOMAIN RecvMsgBlocks = 1..N
      /\ \A b \in 1..N :
           /\ RecvMsgBlocks[b] \in Stream /\ Len(RecvMsgBlocks[b]) \in 1..MESSAGE_LEN_MAX
           /\ DOMAIN RecvMsgBlocks[b] = 1..Len(RecvMsgBlocks[b])
           /\ b < N => Len(RecvMsgBlocks[b]) = MESSAGE_LEN_MAX
      /\ Received \in Int /\ Removed \in Int
  BY BlockFacts
<1>2. /\ Scan \in ScanState /\ AtEnd(Scan, e)
      /\ delivered \o Scan.out = LinesBy(stream, Longest)[Len(stream)]
  BY ScanGives
<1>3. /\ c \in Nat /\ l \in Nat /\ l \in 0..N - 1 /\ Scan.out \in Seq(Stream)
      /\ c <= Len(RecvMsgBlocks[l + 1])
      /\ Removed + Position(l + 1, c) = e
  BY <1>2 DEF ScanState, AtEnd
<1>4. /\ e \in 0..Len(stream) /\ (e = 0 \/ e \in Ends(stream))
      /\ \A k \in Ends(stream) : k <= Len(stream) => k <= e
  BY <1>1, LastEndIs
<1>5. RecvMsgBlocks' = SubSeq(RecvMsgBlocks, l + 1, N) /\ RecvMsgBlockCursor' = c
  OBVIOUS
<1> HIDE DEF l, c, e
<1>6. /\ D \in Nat /\ \A b, k \in Int : Position(b + l, k) = Position(b, k) + D
  BY <1>3, PositionShift
<1>7. Position(l + 1, c) = D + c
  BY <1>3, Positions
<1> HIDE DEF D
<1>8. N - l \in Nat /\ N - l >= 1 /\ l < N /\ l + 1 \in 1..N /\ (N - l) + l = N
  <2>1. N \in Nat
    BY <1>1
  <2> HIDE DEF N
  <2> QED
    BY <1>3, <2>1
<1>9. /\ RecvMsgBlocks' \in Seq(Stream) /\ Len(RecvMsgBlocks') = N - l
      /\ \A b \in 1..N - l : RecvMsgBlocks'[b] = RecvMsgBlocks[b + l]
  <2>1. l + 1 \in Int /\ N \in Int /\ \A b \in l + 1..N : RecvMsgBlocks[b] \in Stream
    BY <1>1, <1>3
  <2>2. /\ SubSeq(RecvMsgBlocks, l + 1, N) \in Seq(Stream)
        /\ Len(SubSeq(RecvMsgBlocks, l + 1, N)) = IF l + 1 <= N THEN N - (l + 1) + 1 ELSE 0
        /\ \A b \in 1..N - (l + 1) + 1 :
             SubSeq(RecvMsgBlocks, l + 1, N)[b] = RecvMsgBlocks[(l + 1) + b - 1]
    BY <2>1, SubSeqProperties
  <2>3. N - (l + 1) + 1 = N - l /\ l + 1 <= N /\ \A b \in 1..N - l : (l + 1) + b - 1 = b + l
    BY <1>1, <1>3
  <2> HIDE DEF N
  <2> QED
    BY <1>5, <2>2, <2>3
<1>10. /\ DOMAIN RecvMsgBlocks' = 1..N - l
       /\ \A b \in 1..N - l : b + l \in 1..N /\ b \in Int /\ (b < N - l => b + l < N)
  <2>1. DOMAIN RecvMsgBlocks' = 1..N - l
    BY <1>9
  <2>2. N \in Nat
    BY <1>1
  <2> HIDE DEF N
  <2> QED
    BY <1>3, <2>1, <2>2
<1>11. Received = Received' + D /\ Received' \in Int
  <2>1. /\ Len(RecvMsgBlocks[N]) \in Int /\ N - l \in Int /\ N \in 1..N
    BY <1>1, <1>8, Positions
  <2>2. Received = Position(N, Len(RecvMsgBlocks[N]))
    <3>1. RecvMsgBlocks # <<>>
      BY <1>1, <1>8
    <3> QED
      BY <3>1 DEF Received, Last
  <2>3. Received' = Position(N - l, Len(RecvMsgBlocks[N]))
    <3>1. RecvMsgBlocks' # <<>>
      BY <1>8, <1>9
    <3>2. Received' = Position(Len(RecvMsgBlocks'), Len(RecvMsgBlocks'[Len(RecvMsgBlocks')]))
      BY <3>1 DEF Received, Last
    <3>3. N - l \in 1..N - l
      BY <1>8
    <3>4. RecvMsgBlocks'[N - l] = RecvMsgBlocks[N]
      BY <1>8, <1>9, <3>3
    <3> QED
      BY <1>9, <3>2, <3>4
  <2>4. Position((N - l) + l, Len(RecvMsgBlocks[N])) = Position(N - l, Len(RecvMsgBlocks[N])) + D
    BY <1>6, <2>1
  <2>5. Position(N - l, Len(RecvMsgBlocks[N])) \in Int
    BY <2>1, Positions
  <2> HIDE DEF N
  <2> QED
    BY <1>8, <2>2, <2>3, <2>4, <2>5
<1>12. Removed' = Removed + D
  <2>1. Removed = Len(stream) - Received /\ Removed' = Len(stream) - Received'
    BY DEF Removed
  <2>2. D \in Int /\ Len(stream) \in Int /\ Received' \in Int /\ Received = Received' + D
    BY <1>1, <1>6, <1>11
  <2> QED
    BY ONLY <2>1, <2>2
<1>13. ParsedTo' = e
  <2>1. ParsedTo' = Removed' + c
    BY <1>5 DEF ParsedTo
  <2> QED
    BY <1>1, <1>3, <1>6, <1>7, <1>12, <2>1
<1>14. ASSUME NEW b \in 1..N - l, NEW k \in DOMAIN RecvMsgBlocks'[b]
       PROVE  /\ Removed' + Position(b, k) \in 1..Len(stream)
              /\ RecvMsgBlocks'[b][k] = stream[Removed' + Position(b, k)]
  <2>1. /\ RecvMsgBlocks'[b] = RecvMsgBlocks[b + l] /\ b + l \in DOMAIN RecvMsgBlocks
        /\ k \in DOMAIN RecvMsgBlocks[b + l] /\ b \in Int
    BY <1>1, <1>9, <1>10, <1>14
  <2>2. k \in Int
    <3>1. DOMAIN RecvMsgBlocks[b + l] = 1..Len(RecvMsgBlocks[b + l])
      BY <1>1, <1>10
    <3> QED
      BY <2>1, <3>1
  <2>3. Position(b + l, k) = Position(b, k) + D /\ Position(b, k) \in Int
    BY <1>6, <2>1, <2>2, Positions
  <2>4. Removed' + Position(b, k) = Removed + Position(b + l, k)
    BY <1>1, <1>6, <1>12, <2>3
  <2>5. Removed + Position(b + l, k) \in 1..Len(stream)
    BY <2>1 DEF BlocksInv, InStream
  <2>6. RecvMsgBlocks[b + l][k] = stream[Removed + Position(b + l, k)]
    BY <2>1 DEF BlocksInv, CursorIsExact
  <2> QED
    BY <2>1, <2>4, <2>5, <2>6
<1>15. delivered' = Frames(SubSeq(stream, 1, e))
  <2>1. e \in Nat /\ e <= Len(stream) /\ Len(stream) <= Len(stream)
        /\ \A k \in e + 1..Len(stream) : k \notin Ends(stream)
    <3>1. \A k \in e + 1..Len(stream) : k <= Len(stream) /\ ~(k <= e)
      BY <1>1, <1>4
    <3> QED
      BY <1>1, <1>4, <3>1
  <2>2. LinesBy(stream, Longest)[Len(stream)] = LinesBy(stream, Longest)[e]
    <3>1. stream \in Stream /\ Len(stream) \in Nat
      BY <1>1
    <3> QED
      BY ONLY <2>1, <3>1, LinesBetween
  <2>3. Frames(SubSeq(stream, 1, e)) = LinesBy(stream, Longest)[e]
    BY <1>1, <2>1, FramesOfPast
  <2> QED
    BY <1>2, <2>2, <2>3
<1>16. (InStream /\ CursorIsExact)'
  BY <1>10, <1>13, <1>14, <1>15 DEF InStream, CursorIsExact
<1>17. FramingTypeOK'
  <2>1. ASSUME NEW b \in 1..N - l
        PROVE  /\ Len(RecvMsgBlocks'[b]) \in 1..MESSAGE_LEN_MAX
               /\ b < N - l => Len(RecvMsgBlocks'[b]) = MESSAGE_LEN_MAX
    BY <1>1, <1>9, <1>10
  <2>2. N - l <= NUM_CLIENT_MSGBLOCK_RECV_IGNORE_THRESHOLD
    <3>1. N <= NUM_CLIENT_MSGBLOCK_RECV_IGNORE_THRESHOLD
          /\ NUM_CLIENT_MSGBLOCK_RECV_IGNORE_THRESHOLD \in Nat /\ N \in Nat
      BY <1>1, ThresholdAssumption DEF BlocksInv, FramingTypeOK
    <3> HIDE DEF N
    <3> QED
      BY <1>3, <3>1
  <2>3. c \in 0..MESSAGE_LEN_MAX
    <3>1. Len(RecvMsgBlocks[l + 1]) \in 1..MESSAGE_LEN_MAX
      BY <1>1, <1>8
    <3>2. MESSAGE_LEN_MAX \in Nat
      BY Positions
    <3> QED
      BY <1>3, <3>1, <3>2
  <2>4. delivered' \in Seq(Seq(Byte))
    BY <1>1, <1>3, ConcatProperties DEF Stream
  <2>5. stream \in Seq(Byte) /\ Len(stream) <= STREAM_MAX
    BY DEF BlocksInv, FramingTypeOK
  <2>6. RecvMsgBlocks' \in Seq(Seq(Byte))
    BY <1>9 DEF Stream
  <2> QED
    BY <1>5, <1>9, <1>10, <2>1, <2>2, <2>3, <2>4, <2>5, <2>6 DEF FramingTypeOK
<1>18. CursorInBlock'
  <2>1. RecvMsgBlocks' # <<>>
    BY <1>8, <1>9
  <2>2. 1 \in 1..N - l
    BY <1>8
  <2>3. RecvMsgBlocks'[1] = RecvMsgBlocks[1 + l] /\ 1 + l = l + 1
    BY <1>3, <1>9, <2>2
  <2> QED
    BY <1>3, <1>5, <2>1, <2>3 DEF CursorInBlock
<1>19. CursorBehindLine'
  BY <1>4, <1>13 DEF CursorBehindLine
<1> QED
  BY <1>13, <1>16, <1>17, <1>18, <1>19 DEF BlocksInv, e

\* The queue has been gone through, or an entry less is in it.
LEMMA ProcessKeeps ==
  BlocksInv /\ Process => (BlocksInv /\ CompleteOrStalled /\ ShortMessagesAreSafe)'
<1> SUFFICES ASSUME BlocksInv, Process
             PROVE  (BlocksInv /\ CompleteOrStalled /\ ShortMessagesAreSafe)'
  OBVIOUS
<1> DEFINE e == LastEnd(stream, Len(stream))
<1>1. /\ stream \in Stream /\ Len(stream) \in Nat
      /\ delivered \in Seq(Stream) /\ Len(RecvMsgBlocks) \in Nat
      /\ \A b \in 1..Len(RecvMsgBlocks) :
           /\ Len(RecvMsgBlocks[b]) \in 1..MESSAGE_LEN_MAX
           /\ b < Len(RecvMsgBlocks) => Len(RecvMsgBlocks[b]) = MESSAGE_LEN_MAX
      /\ RecvMsgBlockCursor \in Nat /\ Received \in Int /\ Removed \in Int
  BY BlockFacts
<1>2. /\ queued' \in Nat /\ processing' \in BOOLEAN /\ stream' = stream
      /\ framingStatus = "running"
  BY DEF Process, FramingRuns, BlocksInv, FramingTypeOK
<1>3. MESSAGE_LEN_MAX \in Nat /\ MESSAGE_LEN_MAX > 2 /\ CRLF_LEN_2 = 2
  BY Positions
<1>4. e \in 0..Len(stream) /\ \A k \in Ends(stream) : k <= Len(stream) => k <= e
  BY <1>1, LastEndIs
<1>5. \A k \in Ends(stream) : k <= e
  <2>1. \A k \in Ends(stream) : k <= Len(stream)
    BY <1>1 DEF Ends
  <2> QED
    BY <1>4, <2>1
<1> HIDE DEF e
<1>6. ASSUME UNCHANGED <<delivered, RecvMsgBlocks, RecvMsgBlockCursor>>,
             framingStatus' \in {"running", "corrupted"}
      PROVE  BlocksInv' /\ ParsedTo' = ParsedTo
  <2>1. Received' = Received /\ Removed' = Removed /\ ParsedTo' = ParsedTo
    BY <1>2, <1>6 DEF Received, Removed, ParsedTo
  <2>2. (InStream /\ CursorIsExact /\ CursorInBlock /\ CursorBehindLine)'
    BY <1>2, <1>6, <2>1
    DEF BlocksInv, InStream, CursorIsExact, CursorInBlock, CursorBehindLine
  <2>3. FramingTypeOK'
    BY <1>2, <1>6 DEF BlocksInv, FramingTypeOK
  <2> QED
    BY <2>1, <2>2, <2>3 DEF BlocksInv
<1>7. CASE NothingToSeparate /\ UNCHANGED <<delivered, RecvMsgBlocks, RecvMsgBlockCursor,
                                            framingStatus>>
  <2>1. BlocksInv' /\ ParsedTo' = ParsedTo
    BY <1>2, <1>6, <1>7
  <2>2. ShortMessagesAreSafe'
    BY <1>2, <1>7 DEF ShortMessagesAreSafe
  <2>3. RecvMsgBlockCursor = MESSAGE_LEN_MAX \/ ParsedTo = Len(stream)
    <3>1. CASE RecvMsgBlocks = <<>>
      <4>1. RecvMsgBlockCursor = 0 /\ Received = 0
        BY <3>1 DEF BlocksInv, CursorInBlock, Received
      <4> QED
        BY <1>1, <4>1 DEF ParsedTo, Removed
    <3>2. CASE RecvMsgBlocks # <<>>
      <4>1. 1 \in 1..Len(RecvMsgBlocks) /\ Head(RecvMsgBlocks) = RecvMsgBlocks[1]
        BY <1>1, <3>2
      <4>2. Len(RecvMsgBlocks[1]) \in 1..MESSAGE_LEN_MAX
            /\ (1 < Len(RecvMsgBlocks) => Len(RecvMsgBlocks[1]) = MESSAGE_LEN_MAX)
        BY <1>1, <4>1
      <4>3. RecvMsgBlockCursor = Len(RecvMsgBlocks[1])
        <5>1. RecvMsgBlockCursor >= Len(RecvMsgBlocks[1])
              /\ RecvMsgBlockCursor <= Len(RecvMsgBlocks[1])
          BY <1>7, <3>2, <4>1 DEF NothingToSeparate, BlocksInv, CursorInBlock
        <5> QED
          BY <1>1, <1>3, <4>2, <5>1
      <4>4. CASE 1 < Len(RecvMsgBlocks)
        BY <4>2, <4>3, <4>4
      <4>5. CASE ~(1 < Len(RecvMsgBlocks))
        <5>1. Len(RecvMsgBlocks) = 1
          <6> DEFINE N == Len(RecvMsgBlocks)
          <6>1. N \in Nat /\ 1 \in 1..N /\ ~(1 < N)
            BY <1>1, <4>1, <4>5
          <6> HIDE DEF N
          <6>2. N = 1
            BY <6>1
          <6> QED
            BY <6>2 DEF N
        <5>2. Received = Len(RecvMsgBlocks[1])
          <6>1. Received = Position(1, Len(RecvMsgBlocks[1]))
            BY <3>2, <5>1 DEF Received, Last
          <6>2. Len(RecvMsgBlocks[1]) \in Int
            BY <1>3, <4>2
          <6> QED
            BY <6>1, <6>2, Positions
        <5> QED
          BY <1>1, <4>3, <5>2 DEF ParsedTo, Removed
      <4> QED
        BY <4>4, <4>5
    <3> QED
      BY <3>1, <3>2
  <2>4. CompleteOrStalled'
    <3>1. CASE RecvMsgBlockCursor = MESSAGE_LEN_MAX
      BY <1>7, <3>1 DEF CompleteOrStalled, Stalled
    <3>2. CASE ParsedTo = Len(stream)
      <4>1. \A k \in Ends(stream) : k <= Len(stream)
        BY <1>1 DEF Ends
      <4>2. Lines(SubSeq(stream, Len(stream) + 1, Len(stream))) = <<>>
        BY <1>1, <4>1, NoLinesBehind
      <4> QED
        BY <1>2, <2>1, <3>2, <4>2 DEF CompleteOrStalled
    <3> QED
      BY <2>3, <3>1, <3>2
  <2> QED
    BY <2>1, <2>2, <2>4
<1>8. CASE /\ ~NothingToSeparate /\ Overflows /\ framingStatus' = "corrupted"
           /\ UNCHANGED <<delivered, RecvMsgBlocks, RecvMsgBlockCursor>>
  <2>1. BlocksInv'
    BY <1>2, <1>6, <1>8
  <2>2. CompleteOrStalled'
    BY <1>8 DEF CompleteOrStalled, FramingRuns
  <2>3. Len(Unfinished') >= MESSAGE_LEN_MAX
    <3>1. Len(stream) - e >= MESSAGE_LEN_MAX
      BY <1>8, ScanGives DEF Overflows, e
    <3>2. e \in Nat /\ e <= Len(stream) /\ Len(stream) <= Len(stream)
      BY <1>1, <1>4
    <3>3. Len(SubSeq(stream, e + 1, Len(stream))) = Len(stream) - e
      BY <1>1, <3>2, PartOfStream
    <3>4. Unfinished' = SubSeq(stream, e + 1, Len(stream))
      BY <1>2 DEF Unfinished, e
    <3> QED
      BY <3>1, <3>3, <3>4
  <2>4. ShortMessagesAreSafe'
    BY <1>8, <2>3 DEF ShortMessagesAreSafe
  <2> QED
    BY <2>1, <2>2, <2>4
<1>9. CASE /\ ~NothingToSeparate /\ ~Overflows
           /\ delivered' = delivered \o Scan.out
           /\ RecvMsgBlocks' =
                SubSeq(RecvMsgBlocks, Scan.lastParsedBlock + 1, Len(RecvMsgBlocks))
           /\ RecvMsgBlockCursor' = Scan.cursor
           /\ framingStatus' = IF \A i \in DOMAIN Scan.out : Fits(Scan.out[i])
                               THEN "running" ELSE "aborted"
  <2>1. framingStatus' \in {"running", "aborted"}
    BY <1>9
  <2>2. BlocksInv' /\ ParsedTo' = e
    BY <1>2, <1>9, <2>1, SeparateKeeps DEF e
  <2>3. CompleteOrStalled'
    <3>1. e \in Nat /\ e <= Len(stream)
      BY <1>1, <1>4
    <3>2. Lines(SubSeq(stream, e + 1, Len(stream))) = <<>>
      BY <1>1, <1>5, <3>1, NoLinesBehind
    <3> QED
      BY <1>2, <2>2, <3>2 DEF CompleteOrStalled
  <2>4. ASSUME framingStatus' = "aborted"
        PROVE  \E line \in ToSet(Lines(stream)) : Len(line) + CRLF_LEN_2 = MESSAGE_LEN_MAX
    <3>1. PICK k \in DOMAIN Scan.out : ~Fits(Scan.out[k])
      BY <1>9, <2>4
    <3> DEFINE line == Scan.out[k]
               all == delivered \o Scan.out
    <3>2. Scan.out \in Seq(Stream) /\ all = LinesBy(stream, Longest)[Len(stream)]
      BY <1>9, ScanGives DEF ScanState
    <3>3. Len(delivered) + k \in DOMAIN all /\ all[Len(delivered) + k] = line
      <4>1. /\ Len(delivered) \in Nat /\ Len(Scan.out) \in Nat /\ k \in 1..Len(Scan.out)
        BY <1>1, <3>2
      <4>2. /\ all \in Seq(Stream) /\ Len(all) = Len(delivered) + Len(Scan.out)
            /\ \A j \in 1..Len(delivered) + Len(Scan.out) :
                 all[j] = IF j <= Len(delivered) THEN delivered[j]
                          ELSE Scan.out[j - Len(delivered)]
        BY <1>1, <3>2, ConcatProperties
      <4>3. Len(delivered) + k \in 1..Len(delivered) + Len(Scan.out)
            /\ ~(Len(delivered) + k <= Len(delivered))
            /\ (Len(delivered) + k) - Len(delivered) = k
        BY <4>1
      <4> HIDE DEF all
      <4> QED
        BY <4>2, <4>3
    <3> HIDE DEF all
    <3>4. PICK j \in DOMAIN LinesBy(stream, Longest)[Len(stream)] :
            line = LinesBy(stream, Longest)[Len(stream)][j]
      BY <3>2, <3>3
    <3> HIDE DEF line
    <3>5. Longest \in Int /\ Longest + CRLF_LEN_2 = MESSAGE_LEN_MAX
          /\ Len(stream) <= Len(stream)
      BY <1>1, <1>3 DEF Longest
    <3>6. /\ line \in Stream /\ Len(line) <= Longest
          /\ \E i \in DOMAIN Lines(stream) : line = Lines(stream)[i]
      <4>1. stream \in Stream /\ Len(stream) \in Nat
        BY <1>1
      <4> QED
        BY <3>4, <3>5, <4>1, LinesStay
    <3>7. line \in ToSet(Lines(stream))
      BY <3>6 DEF ToSet
    <3>8. ~(Len(line) < MESSAGE_LEN_MAX - CRLF_LEN_2)
      BY <3>1 DEF Fits, line
    <3>9. Len(line) + CRLF_LEN_2 = MESSAGE_LEN_MAX
      <4>1. Len(line) \in Nat
        BY <3>6 DEF Stream
      <4> QED
        BY <1>3, <3>5, <3>6, <3>8, <4>1
    <3> QED
      BY <3>7, <3>9
  <2>5. ShortMessagesAreSafe'
    BY <1>2, <2>1, <2>4 DEF ShortMessagesAreSafe
  <2> QED
    BY <2>2, <2>3, <2>5
<1> QED
  BY <1>7, <1>8, <1>9 DEF Process

\* The inductive invariant.
FramingInv == BlocksInv /\ CompleteOrStalled /\ ShortMessagesAreSafe

LEMMA FramingInvNext == FramingInv /\ [FramingNext]_framingVars => FramingInv'
<1> SUFFICES ASSUME FramingInv, [FramingNext]_framingVars
             PROVE  FramingInv'
  OBVIOUS
<1>1. CASE Receive
  <2>1. BlocksInv'
    BY <1>1, ReceiveKeeps DEF FramingInv
  <2>2. queued' # 0 /\ framingStatus' = "running"
    BY <1>1 DEF Receive, FramingRuns, FramingInv, BlocksInv, FramingTypeOK
  <2>3. CompleteOrStalled' /\ ShortMessagesAreSafe'
    BY <2>2 DEF CompleteOrStalled, ShortMessagesAreSafe
  <2> QED
    BY <2>1, <2>3 DEF FramingInv
<1>2. CASE Process
  BY <1>2, ProcessKeeps DEF FramingInv
<1>3. CASE UNCHANGED framingVars
  <2>1. Received' = Received /\ Removed' = Removed /\ ParsedTo' = ParsedTo
        /\ Unfinished' = Unfinished
    BY <1>3 DEF framingVars, Received, Removed, ParsedTo, Unfinished
  <2>2. BlocksInv'
    BY <1>3, <2>1 DEF framingVars, FramingInv, BlocksInv, FramingTypeOK, InStream, CursorIsExact,
                      CursorInBlock, CursorBehindLine
  <2>3. CompleteOrStalled' /\ ShortMessagesAreSafe'
    BY <1>3, <2>1 DEF framingVars, FramingInv, CompleteOrStalled, ShortMessagesAreSafe,
                      FramingRuns, Stalled
  <2> QED
    BY <2>2, <2>3 DEF FramingInv
<1> QED
  BY <1>1, <1>2, <1>3 DEF FramingNext

LEMMA FramingInvHolds == FramingSpec => []FramingInv
<1>1. FramingInit => FramingInv
  BY BlocksInvInit DEF FramingInv
<1> QED
  BY <1>1, FramingInvNext, PTL DEF FramingSpec

\* Every state of receiving has the types, and all blocks but the last are full: bytes are
\* put behind the last block, or into a new one when it is full.
THEOREM FramingTypeCorrect == FramingSpec => []FramingTypeOK
<1>1. FramingInv => FramingTypeOK
  BY DEF FramingInv, BlocksInv
<1> QED
  BY <1>1, FramingInvHolds, PTL

\* However the stream arrives, the blocks hold its end, and what is before the cursor has
\* come out of separateMsgsFromClientRecvMsgs as exactly its messages.
THEOREM CursorIsExactHolds == FramingSpec => []CursorIsExact
<1>1. FramingInv => CursorIsExact
  BY DEF FramingInv, BlocksInv
<1> QED
  BY <1>1, FramingInvHolds, PTL

\* After the processing of the queue no complete message is left in the blocks, unless the
\* cursor is at the end of a full block.
THEOREM CompleteOrStalledHolds == FramingSpec => []CompleteOrStalled
<1>1. FramingInv => CompleteOrStalled
  BY DEF FramingInv
<1> QED
  BY <1>1, FramingInvHolds, PTL

\* The assertion of processClientMsg fails only for a message that just fills a block, and
\* a block is written past its end only behind a message that fills one.
THEOREM ShortMessagesAreSafeHolds == FramingSpec => []ShortMessagesAreSafe
<1>1. FramingInv => ShortMessagesAreSafe
  BY DEF FramingInv
<1> QED
  BY <1>1, FramingInvHolds, PTL

=============================================================================
