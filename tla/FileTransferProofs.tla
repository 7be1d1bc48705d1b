------------------------- MODULE FileTransferProofs -------------------------
(***************************************************************************)
(* Files arrive whole and progress is honest, for any number of files of   *)
(* any size, any segment and any threshold.                                *)
(***************************************************************************)
EXTENDS FileTransfer, SequenceTheorems, TLAPS

------------------------------------------------------------------------------
(* The inductive invariant.                                                *)

Piece == [is : {"open", "chunk", "reset"}, from : Nat, to : Nat]

\* The pieces of s follow each other, from one byte of the file up to another.
Chain(s, first, end) ==
  /\ s = <<>> => first = end
  /\ s # <<>> => s[1].from = first /\ s[Len(s)].to = end
  /\ \A i \in 1..Len(s) : s[i].from <= s[i].to
  /\ \A i \in 1..(Len(s) - 1) : s[i].to = s[i + 1].from
  /\ \A i, j \in 1..Len(s) : i < j => s[i].to <= s[j].from

\* The bytes that have left the buffer of the sender, and those that the
\* receiver has had.
Gone(t) == IF buffer[t] = <<>> THEN sentSize[t] ELSE buffer[t][1].from
Got(t) == IF recv[t].dc = "closed" THEN Size[t] ELSE recv[t].bytes

Shape ==
  /\ broken \in BOOLEAN
  /\ chat \in Seq(Transfers) /\ acks \in Seq(Transfers)
  /\ data \in [Transfers -> Seq(Piece)] /\ back \in [Transfers -> Seq(Piece)]
  /\ buffer \in [Transfers -> Seq(Piece)] /\ low \in [Transfers -> BOOLEAN]
  /\ sentSize \in [Transfers -> Nat] /\ confirmed \in [Transfers -> Nat]
  /\ send \in [Transfers -> [at : {"none", "opening", "acking", "rejected", "sending"},
                             dc : ChannelStates]]
  /\ sent \in [Transfers -> [acked : BOOLEAN, at : {"none", "loading", "done", "failed"}]]
  /\ recv \in [Transfers -> [dc : {"none", "open", "closed"}, bytes : Nat]]
  /\ message \in [Transfers -> [at : {"none", "loading", "done", "failed"}, bytes : Nat]]

\* A message is told once, before the receiver has it, and acknowledged after.
Told ==
  /\ broken => chat = <<>> /\ acks = <<>>
  /\ \A i, j \in 1..Len(chat) : chat[i] = chat[j] => i = j
  /\ \A i \in 1..Len(chat) : /\ message[chat[i]].at = "none"
                             /\ send[chat[i]].at \in {"acking", "rejected"}
  /\ \A i \in 1..Len(acks) : message[acks[i]].at # "none"

\* Nothing of a file is sent before its message has been acknowledged.
Asked(t) ==
  /\ send[t].at \in {"none", "opening"} \/ send[t].dc \notin {"none", "connecting"}
  /\ send[t].at \in {"none", "opening"} => message[t].at = "none"
  /\ send[t].at = "sending" \/ sent[t].acked => message[t].at # "none"
  /\ send[t].at # "sending" =>
       /\ sentSize[t] = 0 /\ confirmed[t] = 0 /\ buffer[t] = <<>> /\ ~low[t]
       /\ send[t].dc \notin {"closing", "resetting"}
       /\ send[t].dc = "closed" => broken

Pieces(t) ==
  /\ \A i \in 1..Len(data[t]) : data[t][i] \in Chunks(t) \cup {Open, Reset(t)}
  /\ \A i \in 1..Len(back[t]) : back[t][i] \in Chunks(t) \cup {Open, Reset(t)}
  /\ \A i \in 1..Len(buffer[t]) : buffer[t][i] \in Chunks(t)

\* The buffer ends where the sender is in the file; the sender closes the
\* channel when all of the file has been confirmed.
Buffered(t) ==
  /\ sentSize[t] <= Size[t] /\ BufferedAmount(t) <= Threshold + 1
  /\ Chain(buffer[t], Gone(t), sentSize[t]) \/ (broken /\ send[t].dc = "closed")
  /\ send[t].dc \in {"closing", "resetting"} \/ (send[t].dc = "closed" /\ ~broken) =>
       sentSize[t] = Size[t] /\ confirmed[t] = Size[t]
  /\ send[t].dc = "resetting" \/ (send[t].dc = "closed" /\ ~broken) => buffer[t] = <<>>

\* What is on its way are the bytes from those the receiver has had up to those
\* that have left the buffer, and back from those that have been confirmed up to
\* those the receiver has had.
Carried(t) ==
  /\ confirmed[t] <= Size[t] /\ recv[t].bytes <= sentSize[t]
  /\ recv[t].dc # "closed" => confirmed[t] <= recv[t].bytes
  /\ broken => data[t] = <<>> /\ back[t] = <<>>
  /\ ~broken => Chain(back[t], confirmed[t], Got(t))
  /\ ~broken /\ recv[t].dc # "closed" => Chain(data[t], recv[t].bytes, Gone(t))

\* The channel is closed once, after all of the file.
ClosedOnce(t) ==
  /\ \A i \in 1..Len(data[t]) :
       data[t][i].is = "reset" => i = Len(data[t]) /\ send[t].dc = "resetting"
  /\ \A i \in 1..Len(back[t]) : back[t][i].is = "reset" => recv[t].dc = "closed"
  /\ recv[t].dc = "closed" /\ ~broken =>
       /\ data[t] = <<>> /\ send[t].dc \in {"resetting", "closed"}
       /\ message[t] = [at |-> "done", bytes |-> Size[t]]
  /\ message[t].at \in {"done", "failed"} => recv[t].dc = "closed"
  /\ recv[t].dc = "closed" /\ message[t].at # "none" =>
       message[t].at # "loading" /\ confirmed[t] <= message[t].bytes
  /\ message[t].bytes <= sentSize[t]

Local(t) == Pieces(t) /\ Asked(t) /\ Buffered(t) /\ Carried(t) /\ ClosedOnce(t)

Inductive == Shape /\ Told /\ \A t \in Transfers : Local(t)

------------------------------------------------------------------------------
(* Pieces that follow each other.                                          *)

LEMMA NoPieces == ASSUME NEW s \in Seq(Piece) PROVE s = <<>> <=> Len(s) = 0
OBVIOUS

LEMMA ChainEmpty == ASSUME NEW a \in Nat PROVE Chain(<<>>, a, a)
BY DEF Chain

LEMMA ChainBounds ==
  ASSUME NEW s \in Seq(Piece), NEW a \in Nat, NEW b \in Nat, Chain(s, a, b)
  PROVE  /\ a <= b
         /\ \A i \in 1..Len(s) : a <= s[i].from /\ s[i].to <= b
<1>1. CASE s = <<>>
  BY <1>1 DEF Chain
<1>2. CASE s # <<>>
  <2>1. /\ Len(s) \in Nat \ {0} /\ s[1].from = a /\ s[Len(s)].to = b
        /\ \A i \in 1..Len(s) : s[i] \in Piece /\ s[i].from <= s[i].to
    BY <1>2 DEF Chain
  <2>2. \A i \in 1..Len(s) : s[i].from \in Nat /\ s[i].to \in Nat
    BY <2>1 DEF Piece
  <2>3. \A i, j \in 1..Len(s) : i < j => s[i].to <= s[j].from
    BY DEF Chain
  <2>4. ASSUME NEW i \in 1..Len(s) PROVE a <= s[i].from /\ s[i].to <= b
    BY <2>1, <2>2, <2>3, SMTT(30)
  <2>5. QED
    BY <2>1, <2>2, <2>4
<1>3. QED
  BY <1>1, <1>2

LEMMA ChainAppend ==
  ASSUME NEW s \in Seq(Piece), NEW a \in Nat, NEW b \in Nat, Chain(s, a, b),
         NEW p \in Piece, p.from = b, b <= p.to
  PROVE  Append(s, p) \in Seq(Piece) /\ Chain(Append(s, p), a, p.to)
<1> DEFINE q == Append(s, p)
<1>1. /\ q \in Seq(Piece) /\ Len(q) = Len(s) + 1 /\ q[Len(q)] = p /\ q # <<>>
      /\ \A i \in 1..Len(s) : q[i] = s[i]
  OBVIOUS
<1>2. Len(s) \in Nat /\ (s = <<>> <=> Len(s) = 0)
  OBVIOUS
<1>3. q[1].from = a
  BY <1>1, <1>2 DEF Chain
<1>4. \A i \in 1..Len(q) : q[i].from <= q[i].to
  BY <1>1, <1>2 DEF Chain, Piece
<1>5. \A i \in 1..(Len(q) - 1) : q[i].to = q[i + 1].from
  <2> TAKE i \in 1..(Len(q) - 1)
  <2>1. CASE i = Len(s)
    BY <1>1, <1>2, <2>1 DEF Chain
  <2>2. CASE i < Len(s)
    BY <1>1, <1>2, <2>2 DEF Chain
  <2>3. QED
    BY <1>1, <1>2, <2>1, <2>2
<1>6. \A i, j \in 1..Len(q) : i < j => q[i].to <= q[j].from
  <2>1. \A i \in 1..Len(s) : s[i].to <= b
    BY ChainBounds
  <2>2. \A i, j \in 1..Len(s) : i < j => s[i].to <= s[j].from
    BY DEF Chain
  <2>3. QED
    BY <1>1, <1>2, <2>1, <2>2
<1>7. QED
  BY <1>1, <1>3, <1>4, <1>5, <1>6 DEF Chain

LEMMA ChainTail ==
  ASSUME NEW s \in Seq(Piece), NEW a \in Nat, NEW b \in Nat, Chain(s, a, b), s # <<>>
  PROVE  /\ Tail(s) \in Seq(Piece) /\ Head(s) \in Piece /\ Head(s) = s[1]
         /\ Head(s).from = a /\ a <= Head(s).to /\ Head(s).to <= b
         /\ Chain(Tail(s), Head(s).to, b)
<1> DEFINE q == Tail(s)
<1>1. /\ q \in Seq(Piece) /\ Len(s) \in Nat \ {0} /\ Len(q) = Len(s) - 1
      /\ \A i \in 1..Len(q) : q[i] = s[i + 1]
      /\ q = <<>> <=> Len(s) = 1
  <2>1. q \in Seq(Piece) /\ Len(s) \in Nat \ {0} /\ Len(q) = Len(s) - 1
    OBVIOUS
  <2>2. \A i \in 1..Len(q) : q[i] = s[i + 1]
    BY <2>1
  <2>3. q = <<>> <=> Len(q) = 0
    BY <2>1, NoPieces, Zenon
  <2>4. QED
    BY <2>1, <2>2, <2>3
<1>2. Head(s) = s[1] /\ s[1] \in Piece
  BY <1>1
<1>3. Head(s).from = a /\ a <= Head(s).to /\ Head(s).to <= b
  BY <1>1, <1>2, ChainBounds DEF Chain
<1>4. q = <<>> => Head(s).to = b
  BY <1>1, <1>2 DEF Chain
<1>5. q # <<>> => q[1].from = Head(s).to /\ q[Len(q)].to = b
  BY <1>1, <1>2 DEF Chain
<1>6. \A i \in 1..Len(q) : q[i].from <= q[i].to
  BY <1>1 DEF Chain
<1>7. \A i \in 1..(Len(q) - 1) : q[i].to = q[i + 1].from
  BY <1>1 DEF Chain
<1>8. \A i, j \in 1..Len(q) : i < j => q[i].to <= q[j].from
  BY <1>1 DEF Chain
<1>9. QED
  BY <1>1, <1>2, <1>3, <1>4, <1>5, <1>6, <1>7, <1>8 DEF Chain

LEMMA ChainConcat ==
  ASSUME NEW s \in Seq(Piece), NEW u \in Seq(Piece), NEW a \in Nat, NEW b \in Nat, NEW c \in Nat,
         Chain(s, a, b), Chain(u, b, c)
  PROVE  s \o u \in Seq(Piece) /\ Chain(s \o u, a, c)
<1> DEFINE q == s \o u
           n == Len(s)
<1>1. /\ q \in Seq(Piece) /\ n \in Nat /\ Len(u) \in Nat /\ Len(q) = n + Len(u)
      /\ \A i \in 1..n : q[i] = s[i]
      /\ \A i \in (n + 1)..Len(q) : q[i] = u[i - n]
      /\ s = <<>> <=> n = 0
      /\ u = <<>> <=> Len(u) = 0
      /\ q = <<>> <=> Len(q) = 0
  OBVIOUS
<1> HIDE DEF q, n
<1>2. q = <<>> => a = c
  BY <1>1 DEF Chain, n
<1>3. q # <<>> => q[1].from = a
  <2>1. CASE s = <<>>
    BY <1>1, <2>1 DEF Chain, n
  <2>2. CASE s # <<>>
    BY <1>1, <2>2 DEF Chain, n
  <2>3. QED
    BY <2>1, <2>2
<1>4. q # <<>> => q[Len(q)].to = c
  <2>1. CASE u = <<>>
    BY <1>1, <2>1 DEF Chain, n
  <2>2. CASE u # <<>>
    BY <1>1, <2>2, SMTT(30) DEF Chain
  <2>3. QED
    BY <2>1, <2>2
<1>5. \A i \in 1..Len(q) : q[i].from <= q[i].to
  <2>1. /\ \A i \in 1..n : s[i].from <= s[i].to
        /\ \A i \in 1..Len(u) : u[i].from <= u[i].to
    BY DEF Chain, n
  <2>2. ASSUME NEW i \in (n + 1)..Len(q) PROVE q[i].from <= q[i].to
    <3>1. i - n \in 1..Len(u) /\ q[i] = u[i - n]
      BY <1>1
    <3>2. QED
      BY <2>1, <3>1
  <2>3. \A i \in 1..n : q[i].from <= q[i].to
    BY <1>1, <2>1
  <2>4. QED
    BY <1>1, <2>2, <2>3
<1>6. \A i \in 1..(Len(q) - 1) : q[i].to = q[i + 1].from
  <2> TAKE i \in 1..(Len(q) - 1)
  <2>1. CASE i < n
    BY <1>1, <2>1 DEF Chain, n
  <2>2. CASE i = n
    BY <1>1, <2>2, SMTT(30) DEF Chain, n
  <2>3. CASE i > n
    <3>1. i - n \in 1..(Len(u) - 1) /\ i + 1 \in (n + 1)..Len(q) /\ i \in (n + 1)..Len(q)
          /\ (i + 1) - n = (i - n) + 1
      BY <1>1, <2>3
    <3>2. q[i] = u[i - n] /\ q[i + 1] = u[(i - n) + 1]
      BY <1>1, <3>1
    <3>3. QED
      BY <3>1, <3>2 DEF Chain
  <2>4. QED
    BY <1>1, <2>1, <2>2, <2>3
<1>7. \A i, j \in 1..Len(q) : i < j => q[i].to <= q[j].from
  <2>1. /\ \A i \in 1..n : s[i].to \in Nat /\ s[i].to <= b
        /\ \A i \in 1..Len(u) : u[i].from \in Nat /\ b <= u[i].from
    <3>1. /\ \A i \in 1..Len(s) : s[i].to <= b
          /\ \A i \in 1..Len(u) : b <= u[i].from
      BY ChainBounds
    <3>2. /\ \A i \in 1..Len(s) : s[i] \in Piece
          /\ \A i \in 1..Len(u) : u[i] \in Piece
      OBVIOUS
    <3>3. QED
      BY <3>1, <3>2 DEF n, Piece
  <2>2. \A i, j \in 1..n : i < j => s[i].to <= s[j].from
    BY DEF Chain, n
  <2>3. \A i, j \in 1..Len(u) : i < j => u[i].to <= u[j].from
    BY DEF Chain
  <2> TAKE i, j \in 1..Len(q)
  <2> HAVE i < j
  <2>4. CASE j <= n
    BY <1>1, <2>2, <2>4, SMTT(30)
  <2>5. CASE i > n
    <3>1. i - n \in 1..Len(u) /\ j - n \in 1..Len(u) /\ i - n < j - n
      BY <1>1, <2>5
    <3>2. q[i] = u[i - n] /\ q[j] = u[j - n]
      BY <1>1, <2>5
    <3>3. QED
      BY <2>3, <3>1, <3>2
  <2>6. CASE i <= n /\ j > n
    <3>1. i \in 1..n /\ j - n \in 1..Len(u) /\ q[i] = s[i] /\ q[j] = u[j - n]
      BY <1>1, <2>6
    <3>2. QED
      BY <2>1, <3>1, SMTT(30)
  <2>7. QED
    BY <1>1, <2>4, <2>5, <2>6
<1>8. QED
  BY <1>1, <1>2, <1>3, <1>4, <1>5, <1>6, <1>7 DEF Chain, q

------------------------------------------------------------------------------
(* The loop of doSendChunks.                                               *)

LEMMA MinOfTwo ==
  ASSUME NEW a \in Int, NEW b \in Int
  PROVE  Min({a, b}) = IF a <= b THEN a ELSE b
BY DEF Min

LEMMA MinOfThree ==
  ASSUME NEW a \in Int, NEW b \in Int, NEW c \in Int
  PROVE  Min({a, b, c}) = Min({a, Min({b, c})})
BY DEF Min

\* So many segments are n bytes.
LEMMA Segments ==
  ASSUME NEW n \in Nat, NEW k \in Nat, k = (n + Segment - 1) \div Segment
  PROVE  /\ k = 0 <=> n = 0
         /\ n <= k * Segment
         /\ \A i \in 1..k : (i - 1) * Segment \in Nat /\ (i - 1) * Segment < n
         /\ \A i \in 1..(k - 1) : i * Segment < n
<1>1. Segment \in Nat \ {0}
  BY LimitsAssumption
<1>2. n + Segment - 1 \in Nat /\ k * Segment <= n + Segment - 1 /\ n + Segment - 1 < k * Segment + Segment
  BY <1>1
<1>3. n <= k * Segment /\ (k - 1) * Segment < n
  BY <1>1, <1>2
<1>4. ASSUME NEW i \in 0..(k - 1) PROVE i * Segment \in Nat /\ i * Segment < n
  <2>1. i * Segment <= (k - 1) * Segment
    BY <1>1
  <2>2. QED
    BY <1>1, <1>3, <2>1
<1>5. k = 0 <=> n = 0
  BY <1>1, <1>2
<1>6. QED
  BY <1>3, <1>4, <1>5

\* Each slice but the last is a segment.
CutBySegment(s, offset, limit) ==
  \A k \in 1..Len(s) : /\ s[k].is = "chunk" /\ Bytes(s[k]) \in 1..Segment
                       /\ s[k].from = offset + (k - 1) * Segment
                       /\ s[k].to = Min({offset + k * Segment, limit})

\* What is sent of a file from offset up to limit.
Sends(s, offset, limit, size, free) ==
  /\ limit \in Nat /\ offset <= limit /\ limit <= size /\ limit <= offset + free + 1
  /\ s \in Seq(Piece) /\ Chain(s, offset, limit)
  /\ s = <<>> <=> limit = offset
  /\ CutBySegment(s, offset, limit)

LEMMA SlicesFollow ==
  ASSUME NEW offset \in Nat, NEW size \in Nat, offset <= size, NEW free \in Int, free >= -1,
         NEW s, s = Slices(offset, size, free), NEW limit, limit = Limit(offset, size, free)
  PROVE  Sends(s, offset, limit, size, free)
<1>1. Segment \in Nat \ {0}
  BY LimitsAssumption
<1>2. /\ limit \in Nat /\ offset <= limit /\ limit <= size /\ limit <= offset + free + 1
  BY MinOfTwo DEF Limit
<1> DEFINE n == (limit - offset + Segment - 1) \div Segment
           m == limit - offset
<1>3. m \in Nat /\ n \in Nat /\ n = (m + Segment - 1) \div Segment
  BY <1>1, <1>2
<1>4. /\ n = 0 <=> m = 0
      /\ m <= n * Segment
      /\ \A i \in 1..n : (i - 1) * Segment \in Nat /\ (i - 1) * Segment < m
      /\ \A i \in 1..(n - 1) : i * Segment < m
  BY <1>3, Segments
<1>5. s = [k \in 1..n |-> Slice(offset + (k - 1) * Segment, Min({offset + k * Segment, limit}))]
  BY DEF Slices
<1> HIDE DEF n
<1>6. ASSUME NEW k \in 1..n
      PROVE  /\ s[k] = Slice(offset + (k - 1) * Segment, Min({offset + k * Segment, limit}))
             /\ s[k].is = "chunk"
             /\ s[k].from = offset + (k - 1) * Segment
             /\ s[k].to = Min({offset + k * Segment, limit})
             /\ s[k] \in Piece /\ s[k].from <= s[k].to /\ s[k].to - s[k].from \in 1..Segment
             /\ k < n => s[k].to = offset + k * Segment
             /\ k = n => s[k].to = limit
  <2>1. /\ s[k] = Slice(offset + (k - 1) * Segment, Min({offset + k * Segment, limit}))
        /\ s[k].is = "chunk"
        /\ s[k].from = offset + (k - 1) * Segment
        /\ s[k].to = Min({offset + k * Segment, limit})
    BY <1>5 DEF Slice
  <2>2. k \in Nat /\ (k - 1) * Segment \in Nat /\ (k - 1) * Segment < m
        /\ k * Segment = (k - 1) * Segment + Segment
    BY <1>1, <1>3, <1>4
  <2>3. s[k].to = IF offset + k * Segment <= limit THEN offset + k * Segment ELSE limit
    BY <1>1, <1>2, <2>1, <2>2, MinOfTwo
  <2>4. k < n => k * Segment < m
    BY <1>3, <1>4
  <2>5. k = n => m <= k * Segment
    BY <1>4
  <2> HIDE DEF m
  <2>6. limit = offset + m
    BY <1>2 DEF m
  <2>7. k * Segment \in Int
    BY <1>1, <2>2
  <2> DEFINE e == k * Segment
  <2>8. e \in Int /\ (k < n => e < m) /\ (k = n => m <= e)
         /\ s[k].to = IF offset + e <= limit THEN offset + e ELSE limit
    BY <2>3, <2>4, <2>5, <2>7
  <2> HIDE DEF e
  <2>9. (k < n => s[k].to = offset + e) /\ (k = n => s[k].to = limit)
    BY <1>2, <1>3, <2>6, <2>8
  <2>10. k < n => s[k].to = offset + k * Segment
    BY <2>9 DEF e
  <2>11. k = n => s[k].to = limit
    BY <2>9
  <2>12. k < n \/ k = n
    BY <1>3
  <2>13. s[k].to - s[k].from \in 1..Segment
    <3>1. (k - 1) * Segment + Segment \in Int /\ s[k].to \in Nat /\ m \in Nat
      BY <1>1, <1>2, <1>3, <2>2, <2>3
    <3>2. s[k].to > s[k].from /\ s[k].to <= s[k].from + Segment
      BY <1>1, <1>2, <2>1, <2>2, <2>3, <2>6, <3>1
    <3>3. QED
      BY <1>1, <2>1, <2>2, <3>1, <3>2
  <2>14. s[k] \in Piece /\ s[k].from <= s[k].to
    <3>1. s[k].from \in Nat /\ s[k].to \in Nat
      BY <1>1, <1>2, <2>1, <2>2, <2>3
    <3>2. s[k] = [is |-> "chunk", from |-> s[k].from, to |-> s[k].to]
      BY <2>1 DEF Slice
    <3>3. s[k] \in Piece
      <4>1. [is |-> "chunk", from |-> s[k].from, to |-> s[k].to] \in Piece
        BY <3>1 DEF Piece
      <4>2. QED
        BY <3>2, <4>1, Zenon
    <3>4. QED
      BY <1>1, <2>13, <3>1, <3>3
  <2>15. QED
    BY <2>1, <2>10, <2>11, <2>13, <2>14
<1> HIDE DEF m
<1>7. s \in Seq(Piece) /\ Len(s) = n /\ (s = <<>> <=> n = 0)
  <2>1. \A k \in 1..n : s[k] \in Piece
    BY <1>6
  <2>2. DOMAIN s = 1..n /\ s = [k \in 1..n |-> s[k]]
    BY <1>5
  <2>3. s \in [1..n -> Piece]
    BY <2>1, <2>2
  <2>4. QED
    BY <1>3, <2>2, <2>3
<1>8. s = <<>> <=> limit = offset
  BY <1>2, <1>4, <1>7 DEF m
<1>9. Chain(s, offset, limit)
  <2>1. s # <<>> => s[1].from = offset /\ s[Len(s)].to = limit
    <3>1. n >= 1 => s[1].from = offset + (1 - 1) * Segment /\ s[n].to = limit
      <4>1. n >= 1 => 1 \in 1..n /\ n \in 1..n
        BY <1>3
      <4>2. QED
        BY <1>6, <4>1, Zenon
    <3>2. (1 - 1) * Segment = 0
      BY <1>1
    <3>3. QED
      BY <1>3, <1>7, <3>1, <3>2
  <2>2. \A k \in 1..n : s[k].from <= s[k].to
    BY <1>6
  <2>3. \A k \in 1..(n - 1) : s[k].to = s[k + 1].from
    <3> TAKE k \in 1..(n - 1)
    <3>1. k \in 1..n /\ k + 1 \in 1..n /\ k < n /\ (k + 1) - 1 = k
      BY <1>3
    <3>2. s[k].to = offset + k * Segment
      BY <1>6, <3>1
    <3>3. s[k + 1].from = offset + ((k + 1) - 1) * Segment
      BY <1>6, <3>1
    <3>4. QED
      BY <3>1, <3>2, <3>3
  <2>4. ASSUME NEW i \in 1..n, NEW j \in 1..n, i < j
        PROVE  s[i].to <= s[j].from
    <3>1. s[i].to = offset + i * Segment /\ s[j].from = offset + (j - 1) * Segment
      <4>1. i < n
        BY <1>3, <2>4
      <4>2. QED
        BY <1>6, <4>1
    <3>2. i * Segment <= (j - 1) * Segment
      BY <1>1, <1>3, <2>4
    <3>3. QED
      BY <1>1, <1>3, <3>1, <3>2
  <2>5. QED
    BY <1>7, <1>8, <2>1, <2>2, <2>3, <2>4 DEF Chain
<1>10. \A k \in 1..n : Bytes(s[k]) \in 1..Segment
  BY <1>6 DEF Bytes
<1>11. CutBySegment(s, offset, limit)
  BY <1>6, <1>7, <1>10 DEF CutBySegment
<1>12. QED
  BY <1>2, <1>7, <1>8, <1>9, <1>11 DEF Sends

\* Slices is what the loop does: a round goes on from where the last one ended,
\* with the free space less what has been taken of it, takes what doSendChunk
\* takes, and after the last there is no free space or nothing left of the file
\* (page.tsx:1231-1265).
THEOREM SlicesAsTheLoop ==
  ASSUME NEW offset \in Nat, NEW size \in Nat, offset <= size, NEW free \in Int, free >= -1,
         NEW s, s = Slices(offset, size, free)
  PROVE  LET From(k) == IF k = 1 THEN offset ELSE s[k - 1].to
             freeSpace(k) == free - (From(k) - offset)
         IN  /\ \A k \in 1..Len(s) :
                  /\ freeSpace(k) >= 0
                  /\ s[k].from = From(k) /\ From(k) < s[k].to
                  /\ s[k].to = Min({From(k) + Segment, size, From(k) + freeSpace(k) + 1})
             /\ From(Len(s) + 1) = size \/ freeSpace(Len(s) + 1) < 0
<1>1. PICK limit : limit = Limit(offset, size, free)
  OBVIOUS
<1> DEFINE From(k) == IF k = 1 THEN offset ELSE s[k - 1].to
           freeSpace(k) == free - (From(k) - offset)
<1>2. Segment \in Nat \ {0}
  BY LimitsAssumption
<1>3. /\ limit \in Nat /\ offset <= limit /\ limit <= size
      /\ s \in Seq(Piece) /\ Chain(s, offset, limit)
      /\ s = <<>> <=> limit = offset
      /\ CutBySegment(s, offset, limit)
  <2>1. Sends(s, offset, limit, size, free)
    BY <1>1, SlicesFollow
  <2>2. QED
    BY <2>1 DEF Sends
<1>4. limit = IF size <= offset + free + 1 THEN size ELSE offset + free + 1
  BY <1>1, MinOfTwo DEF Limit
<1>5. ASSUME NEW k \in 1..Len(s)
      PROVE  /\ freeSpace(k) >= 0
             /\ s[k].from = From(k) /\ From(k) < s[k].to
             /\ s[k].to = Min({From(k) + Segment, size, From(k) + freeSpace(k) + 1})
  <2>1. Len(s) \in Nat /\ s # <<>> /\ k \in Nat \ {0} /\ s[k] \in Piece
    BY <1>3, NoPieces
  <2>2. s[k].from \in Nat /\ s[k].to \in Nat /\ s[k].from < s[k].to /\ s[k].to <= limit
    <3>1. s[k].from \in Nat /\ s[k].to \in Nat
      BY <2>1 DEF Piece
    <3>2. s[k].to <= limit
      BY <1>3, ChainBounds
    <3>3. s[k].to - s[k].from \in 1..Segment
      BY <1>3 DEF Bytes, CutBySegment
    <3>4. QED
      BY <1>2, <3>1, <3>2, <3>3
  <2>3. s[k].from = From(k)
    <3>1. CASE k = 1
      BY <1>3, <2>1, <3>1 DEF Chain
    <3>2. CASE k # 1
      <4>1. k - 1 \in 1..(Len(s) - 1) /\ (k - 1) + 1 = k
        BY <2>1, <3>2
      <4>2. QED
        BY <1>3, <3>2, <4>1 DEF Chain
    <3>3. QED
      BY <3>1, <3>2
  <2>4. freeSpace(k) = free - (s[k].from - offset) /\ freeSpace(k) >= 0
    BY <1>3, <1>4, <2>2, <2>3
  <2>5. s[k].to = Min({s[k].from + Segment, limit})
    <3>1. offset + k * Segment = s[k].from + Segment
      <4>1. s[k].from = offset + (k - 1) * Segment
        BY <1>3 DEF CutBySegment
      <4>2. (k - 1) * Segment \in Int /\ k * Segment = (k - 1) * Segment + Segment
        BY <1>2, <2>1
      <4>3. QED
        BY <1>2, <4>1, <4>2
    <3>2. QED
      BY <1>3, <3>1 DEF CutBySegment
  <2> HIDE DEF freeSpace, From
  <2>6. PICK x, e : x = s[k].from + Segment /\ e = s[k].from + freeSpace(k) + 1
    OBVIOUS
  <2>7. x \in Int /\ e \in Int /\ e = offset + free + 1
    <3>1. x \in Int
      BY <1>2, <2>2, <2>6
    <3>2. PICK f, g : f = freeSpace(k) /\ g = s[k].from
      OBVIOUS
    <3>3. e = g + f + 1 /\ f = free - (g - offset) /\ g \in Nat
      BY <2>2, <2>4, <2>6, <3>2
    <3>4. QED
      BY <3>1, <3>3
  <2>8. Min({size, e}) = limit
    <3>1. Min({size, e}) = IF size <= e THEN size ELSE e
      BY <2>7, MinOfTwo
    <3>2. QED
      BY <1>4, <2>7, <3>1
  <2>9. Min({x, size, e}) = Min({x, limit})
    BY <2>7, <2>8, MinOfThree
  <2>10. QED
    BY <2>2, <2>3, <2>4, <2>5, <2>6, <2>9
<1>6. From(Len(s) + 1) = limit
  <2>1. Len(s) \in Nat /\ (s = <<>> <=> Len(s) = 0)
    BY <1>3, NoPieces
  <2>2. QED
    BY <1>3, <2>1 DEF Chain
<1>7. limit = size \/ free - (limit - offset) < 0
  BY <1>4
<1>8. QED
  BY <1>5, <1>6, <1>7

------------------------------------------------------------------------------
(* Other files.                                                            *)

\* What is said of a file stays true when a step is about another one.
LEMMA OtherFile ==
  ASSUME NEW t \in Transfers, Local(t), broken' = broken,
         data'[t] = data[t], back'[t] = back[t], buffer'[t] = buffer[t], low'[t] = low[t],
         sentSize'[t] = sentSize[t], confirmed'[t] = confirmed[t], send'[t] = send[t],
         sent'[t] = sent[t], recv'[t] = recv[t], message'[t] = message[t]
  PROVE  Local(t)'
<1>1. Chunks(t)' = Chunks(t) /\ Gone(t)' = Gone(t) /\ Got(t)' = Got(t)
      /\ BufferedAmount(t)' = BufferedAmount(t) /\ Reset(t)' = Reset(t)
  BY DEF Chunks, Gone, Got, BufferedAmount, Reset
<1>2. Pieces(t)'
  BY <1>1 DEF Local, Pieces
<1>3. Asked(t)'
  BY DEF Local, Asked
<1>4. Buffered(t)'
  BY <1>1 DEF Local, Buffered, Chain
<1>5. Carried(t)'
  BY <1>1 DEF Local, Carried, Chain
<1>6. ClosedOnce(t)'
  BY DEF Local, ClosedOnce
<1>7. QED
  BY <1>2, <1>3, <1>4, <1>5, <1>6 DEF Local

------------------------------------------------------------------------------
(* Sending chunks.                                                         *)

LEMMA SendsChunks ==
  ASSUME Shape, NEW t \in Transfers, Pieces(t), Buffered(t), SendChunks(t),
         send[t].dc \notin {"none", "connecting"},
         broken' = broken, send'[t].dc = send[t].dc, confirmed'[t] = confirmed[t]
  PROVE  /\ buffer' \in [Transfers -> Seq(Piece)] /\ sentSize' \in [Transfers -> Nat]
         /\ \A u \in Transfers \ {t} : buffer'[u] = buffer[u] /\ sentSize'[u] = sentSize[u]
         /\ sentSize[t] <= sentSize'[t]
         /\ ~broken => Gone(t)' = Gone(t)
         /\ \A i \in 1..Len(buffer'[t]) : buffer'[t][i] \in Chunks(t)
         /\ Buffered(t)'
<1>1. PICK b, offset, size, amount, first, free, s, limit :
        /\ b = buffer[t] /\ offset = sentSize[t] /\ size = Size[t]
        /\ amount = BufferedAmount(t) /\ first = Gone(t)
        /\ free = Threshold - amount /\ s = Slices(offset, size, free)
        /\ limit = Limit(offset, size, free)
  OBVIOUS
<1>2. Segment \in Nat \ {0} /\ Threshold \in Nat /\ size \in Nat
  BY <1>1, LimitsAssumption, SizeAssumption
<1>3. /\ b \in Seq(Piece) /\ offset \in Nat /\ offset <= size
      /\ buffer \in [Transfers -> Seq(Piece)] /\ sentSize \in [Transfers -> Nat]
  BY <1>1 DEF Shape, Buffered
<1>4. b # <<>> => /\ b[1] \in Piece /\ b[Len(b)] \in Piece /\ Len(b) \in Nat \ {0}
                  /\ amount = b[Len(b)].to - b[1].from /\ first = b[1].from
  <2>1. b # <<>> => Len(b) \in Nat \ {0}
    BY <1>3, NoPieces
  <2>2. QED
    BY <1>1, <1>3, <2>1 DEF BufferedAmount, Gone
<1>5. b = <<>> => amount = 0 /\ first = offset
  BY <1>1 DEF BufferedAmount, Gone
<1>6. amount \in Int /\ amount <= Threshold + 1 /\ first \in Nat
  <2>1. amount \in Int /\ first \in Nat
    BY <1>3, <1>4, <1>5 DEF Piece
  <2>2. QED
    BY <1>1, <2>1 DEF Buffered
<1>7. free \in Int /\ free >= -1
  BY <1>1, <1>2, <1>6
<1>8. Sends(s, offset, limit, size, free)
  BY <1>1, <1>2, <1>3, <1>7, SlicesFollow
<1>9. limit \in Nat /\ offset <= limit /\ limit <= size /\ limit <= offset + free + 1
  BY <1>8 DEF Sends
<1>10. /\ s \in Seq(Piece) /\ (s = <<>> <=> limit = offset)
  BY <1>8 DEF Sends
<1>11. Chain(s, offset, limit) /\ CutBySegment(s, offset, limit)
  BY <1>8 DEF Sends
<1>12. \A k \in 1..Len(s) : s[k] \in Chunks(t)
  <2> TAKE k \in 1..Len(s)
  <2>1. s[k] \in Piece
    BY <1>10
  <2>2. s[k] \in Piece /\ s[k].is = "chunk" /\ Bytes(s[k]) \in 1..Segment
    BY <1>11, <2>1 DEF CutBySegment
  <2>3. offset <= s[k].from /\ s[k].to <= limit /\ s[k].from <= s[k].to
    BY <1>3, <1>9, <1>10, <1>11, ChainBounds DEF Chain
  <2>4. s[k].from \in 0..Size[t] /\ s[k].to \in 0..Size[t]
    BY <1>1, <1>2, <1>3, <1>9, <2>2, <2>3 DEF Piece
  <2>5. s[k] \in [is : {"chunk"}, from : 0..Size[t], to : 0..Size[t]]
    BY <2>2, <2>4 DEF Piece
  <2>6. QED
    BY <2>2, <2>5 DEF Chunks
<1>13. /\ buffer' = IF send[t].dc = "open" THEN [buffer EXCEPT ![t] = b \o s] ELSE buffer
       /\ sentSize' = IF s = <<>> THEN sentSize
                      ELSE [sentSize EXCEPT ![t] = s[IF send[t].dc = "open" THEN Len(s) ELSE 1].to]
  BY <1>1 DEF SendChunks
<1>14. s # <<>> => /\ s[Len(s)].to = limit /\ s[1] \in Piece /\ offset <= s[1].to /\ s[1].to <= limit
  <2>1. s # <<>> => Len(s) \in Nat \ {0} /\ 1 \in 1..Len(s)
    BY <1>10, NoPieces
  <2>2. s # <<>> => s[1].from = offset /\ s[1].from <= s[1].to /\ s[1].to <= limit
    BY <1>3, <1>9, <1>10, <1>11, <2>1, ChainBounds DEF Chain
  <2>3. s # <<>> => s[1] \in Piece
    BY <1>10, <2>1
  <2>4. QED
    BY <1>11, <2>2, <2>3 DEF Chain, Piece
<1>15. \A u \in Transfers \ {t} : buffer'[u] = buffer[u] /\ sentSize'[u] = sentSize[u]
  BY <1>3, <1>13
<1>16. PICK gone, amount2 : gone = Gone(t)' /\ amount2 = BufferedAmount(t)'
  OBVIOUS
<1>17. amount2 = IF buffer'[t] = <<>> THEN 0
                 ELSE buffer'[t][Len(buffer'[t])].to - buffer'[t][1].from
  BY <1>16 DEF BufferedAmount
<1>18. gone = IF buffer'[t] = <<>> THEN sentSize'[t] ELSE buffer'[t][1].from
  BY <1>16 DEF Gone
<1>19. CASE send[t].dc = "open"
  <2>1. Chain(b, first, offset)
    BY <1>1, <1>19 DEF Buffered
  <2>2. sentSize' \in [Transfers -> Nat] /\ sentSize'[t] = limit
    BY <1>1, <1>3, <1>9, <1>10, <1>13, <1>14, <1>19
  <2>3. b \o s \in Seq(Piece) /\ Chain(b \o s, first, limit)
    BY <1>3, <1>6, <1>9, <1>10, <1>11, <2>1, ChainConcat
  <2>4. buffer' \in [Transfers -> Seq(Piece)] /\ buffer'[t] = b \o s
    BY <1>3, <1>13, <1>19, <2>3
  <2>5. gone = first
    BY <1>18, <2>2, <2>3, <2>4 DEF Chain
  <2>6. amount2 <= Threshold + 1
    <3>1. CASE b \o s = <<>>
      BY <1>2, <1>17, <2>4, <3>1
    <3>2. CASE b \o s # <<>>
      <4>1. amount2 = limit - first
        BY <1>17, <2>3, <2>4, <3>2 DEF Chain
      <4>2. amount = offset - first
        BY <1>3, <1>4, <1>5, <2>1 DEF Chain
      <4>3. QED
        <5>1. free = Threshold - amount
          BY <1>1
        <5>2. QED
          BY <1>2, <1>3, <1>6, <1>7, <1>9, <4>1, <4>2, <5>1
    <3>3. QED
      BY <3>1, <3>2
  <2>7. \A i \in 1..Len(buffer'[t]) : buffer'[t][i] \in Chunks(t)
    <3>1. \A i \in 1..Len(b) : b[i] \in Chunks(t)
      BY <1>1 DEF Pieces
    <3>2. QED
      BY <1>3, <1>10, <1>12, <2>4, <3>1
  <2>8. Buffered(t)'
    BY <1>1, <1>9, <1>16, <1>19, <2>2, <2>3, <2>4, <2>5, <2>6 DEF Buffered
  <2>9. QED
    BY <1>1, <1>9, <1>15, <1>16, <2>2, <2>4, <2>5, <2>7, <2>8
<1>20. CASE send[t].dc # "open"
  <2>1. buffer' = buffer
    BY <1>13, <1>20
  <2>2. /\ sentSize' \in [Transfers -> Nat]
        /\ sentSize[t] <= sentSize'[t] /\ sentSize'[t] <= Size[t]
    <3>1. s # <<>> => s[1].to \in Nat
      BY <1>14 DEF Piece
    <3>2. sentSize'[t] = IF s = <<>> THEN offset ELSE s[1].to
      BY <1>1, <1>3, <1>13, <1>20
    <3>3. sentSize' \in [Transfers -> Nat]
      BY <1>3, <1>13, <1>20, <3>1
    <3>4. QED
      BY <1>1, <1>2, <1>3, <1>9, <1>14, <3>1, <3>2, <3>3
  <2>3. ~(broken /\ send[t].dc = "closed") => sentSize' = sentSize
    <3>1. send[t].dc \in ChannelStates
      BY DEF Shape
    <3>2. ~(broken /\ send[t].dc = "closed") => sentSize[t] = Size[t]
      BY <1>20, <3>1 DEF Buffered, ChannelStates, Shape
    <3>3. QED
      BY <1>1, <1>3, <1>9, <1>10, <1>13, <3>2
  <2>4. BufferedAmount(t)' = amount
    BY <1>1, <2>1 DEF BufferedAmount
  <2>5. ~(broken /\ send[t].dc = "closed") => Gone(t)' = Gone(t)
    BY <2>1, <2>3 DEF Gone
  <2>6. Buffered(t)'
    <3>1. CASE broken /\ send[t].dc = "closed"
      BY <1>1, <1>6, <2>2, <2>4, <3>1 DEF Buffered
    <3>2. CASE ~(broken /\ send[t].dc = "closed")
      BY <1>1, <1>6, <2>1, <2>2, <2>3, <2>4, <2>5, <3>2 DEF Buffered, Chain
    <3>3. QED
      BY <3>1, <3>2
  <2>7. QED
    BY <1>3, <1>15, <2>1, <2>2, <2>5, <2>6 DEF Pieces
<1>21. QED
  BY <1>19, <1>20

------------------------------------------------------------------------------
(* The sequences' ends.                                                    *)

LEMMA TailItems ==
  ASSUME NEW S, NEW s \in Seq(S), s # <<>>
  PROVE  /\ Tail(s) \in Seq(S) /\ Head(s) \in S /\ Head(s) = s[1] /\ Len(s) \in Nat \ {0}
         /\ Len(Tail(s)) = Len(s) - 1
         /\ \A i \in 1..Len(Tail(s)) : i + 1 \in 1..Len(s) /\ Tail(s)[i] = s[i + 1]
<1>1. Len(s) \in Nat \ {0}
  OBVIOUS
<1>2. Tail(s) \in Seq(S) /\ Head(s) = s[1] /\ s[1] \in S /\ Len(Tail(s)) = Len(s) - 1
  BY <1>1
<1>3. \A i \in 1..Len(Tail(s)) : i + 1 \in 1..Len(s) /\ Tail(s)[i] = s[i + 1]
  BY <1>1, <1>2
<1>4. QED
  BY <1>1, <1>2, <1>3

LEMMA AppendItems ==
  ASSUME NEW S, NEW s \in Seq(S), NEW p \in S
  PROVE  /\ Append(s, p) \in Seq(S) /\ Len(s) \in Nat /\ Len(Append(s, p)) = Len(s) + 1
         /\ \A i \in 1..Len(Append(s, p)) : \/ i \in 1..Len(s) /\ Append(s, p)[i] = s[i]
                                            \/ i = Len(s) + 1 /\ Append(s, p)[i] = p
OBVIOUS

\* The next piece that the receiver gets, and the next size that the sender does.
LEMMA NextPiece ==
  ASSUME Shape, NEW t \in Transfers, Local(t), data[t] # <<>>, NEW p, p = Head(data[t])
  PROVE  /\ ~broken /\ recv[t].dc # "closed"
         /\ p \in Piece /\ p = data[t][1] /\ p \in Chunks(t) \cup {Open, Reset(t)}
         /\ p.from = recv[t].bytes /\ p.from <= p.to /\ p.to <= Gone(t)
         /\ Gone(t) \in Nat /\ Gone(t) <= sentSize[t]
         /\ Tail(data[t]) \in Seq(Piece) /\ Chain(Tail(data[t]), p.to, Gone(t))
<1>1. ~broken /\ recv[t].dc # "closed"
  BY DEF Local, Carried, ClosedOnce
<1>2. /\ data[t] \in Seq(Piece) /\ buffer[t] \in Seq(Piece) /\ sentSize[t] \in Nat
      /\ recv[t].bytes \in Nat
  BY DEF Shape
<1>3. Gone(t) \in Nat /\ Gone(t) <= sentSize[t]
  <2>1. Gone(t) \in Nat
    <3>1. buffer[t] # <<>> => buffer[t][1] \in Piece
      BY <1>2
    <3>2. QED
      BY <1>2, <3>1 DEF Gone, Piece
  <2>2. Chain(buffer[t], Gone(t), sentSize[t])
    BY <1>1 DEF Local, Buffered
  <2>3. QED
    BY <1>2, <2>1, <2>2, ChainBounds
<1>4. Chain(data[t], recv[t].bytes, Gone(t))
  BY <1>1 DEF Local, Carried
<1>5. PICK g, b, s : g = Gone(t) /\ b = recv[t].bytes /\ s = data[t]
  OBVIOUS
<1>6. /\ Tail(s) \in Seq(Piece) /\ p \in Piece /\ p = s[1]
      /\ p.from = b /\ b <= p.to /\ p.to <= g
      /\ Chain(Tail(s), p.to, g)
  BY <1>2, <1>3, <1>4, <1>5, ChainTail
<1>7. p \in Chunks(t) \cup {Open, Reset(t)}
  <2>1. 1 \in 1..Len(s)
    BY <1>2, <1>5, NoPieces
  <2>2. QED
    BY <1>5, <1>6, <2>1 DEF Local, Pieces
<1>8. QED
  BY <1>1, <1>3, <1>5, <1>6, <1>7

LEMMA NextSize ==
  ASSUME Shape, NEW t \in Transfers, Local(t), back[t] # <<>>, NEW p, p = Head(back[t])
  PROVE  /\ ~broken
         /\ p \in Piece /\ p = back[t][1] /\ p \in Chunks(t) \cup {Open, Reset(t)}
         /\ p.from = confirmed[t] /\ p.from <= p.to /\ p.to <= Got(t)
         /\ Got(t) \in Nat /\ Got(t) <= Size[t]
         /\ Tail(back[t]) \in Seq(Piece) /\ Chain(Tail(back[t]), p.to, Got(t))
<1>1. ~broken
  BY DEF Local, Carried
<1>2. /\ back[t] \in Seq(Piece) /\ confirmed[t] \in Nat /\ recv[t].bytes \in Nat /\ sentSize[t] \in Nat
      /\ Size[t] \in Nat
  BY SizeAssumption DEF Shape
<1>3. Got(t) \in Nat /\ Got(t) <= Size[t]
  BY <1>2 DEF Got, Local, Carried, Buffered
<1>4. Chain(back[t], confirmed[t], Got(t))
  BY <1>1 DEF Local, Carried
<1>5. PICK g, b, s : g = Got(t) /\ b = confirmed[t] /\ s = back[t]
  OBVIOUS
<1>6. /\ Tail(s) \in Seq(Piece) /\ p \in Piece /\ p = s[1]
      /\ p.from = b /\ b <= p.to /\ p.to <= g
      /\ Chain(Tail(s), p.to, g)
  BY <1>2, <1>3, <1>4, <1>5, ChainTail
<1>7. p \in Chunks(t) \cup {Open, Reset(t)}
  <2>1. 1 \in 1..Len(s)
    BY <1>2, <1>5, NoPieces
  <2>2. QED
    BY <1>5, <1>6, <2>1 DEF Local, Pieces
<1>8. QED
  BY <1>1, <1>3, <1>5, <1>6, <1>7

------------------------------------------------------------------------------
(* The messages.                                                           *)

LEMMA ToldKept ==
  ASSUME Shape, Told, chat' = chat, acks' = acks, broken' = broken,
         \A t \in Transfers : message'[t].at = "none" <=> message[t].at = "none",
         \A t \in Transfers : send[t].at \in {"acking", "rejected"} =>
                                send'[t].at \in {"acking", "rejected"}
  PROVE  Told'
<1>1. \A i \in 1..Len(chat) : chat[i] \in Transfers
  BY DEF Shape
<1>2. \A i \in 1..Len(acks) : acks[i] \in Transfers
  BY DEF Shape
<1>3. QED
  BY <1>1, <1>2 DEF Told

LEMMA OthersKept ==
  ASSUME Inductive, NEW t \in Transfers, broken' = broken,
         \A u \in Transfers \ {t} :
           /\ data'[u] = data[u] /\ back'[u] = back[u] /\ buffer'[u] = buffer[u] /\ low'[u] = low[u]
           /\ sentSize'[u] = sentSize[u] /\ confirmed'[u] = confirmed[u] /\ send'[u] = send[u]
           /\ sent'[u] = sent[u] /\ recv'[u] = recv[u] /\ message'[u] = message[u],
         Shape', Told', Local(t)'
  PROVE  Inductive'
<1>1. \A u \in Transfers \ {t} : Local(u)'
  BY OtherFile DEF Inductive
<1>2. \A u \in Transfers : Local(u)'
  BY <1>1
<1>3. QED
  BY <1>2 DEF Inductive

LEMMA InitInductive == Init => Inductive
<1> SUFFICES ASSUME Init PROVE Inductive
  OBVIOUS
<1>1. Shape
  <2>1. broken \in BOOLEAN /\ chat \in Seq(Transfers) /\ acks \in Seq(Transfers)
    <3>1. broken = FALSE /\ chat = <<>> /\ acks = <<>>
      BY DEF Init
    <3>2. broken \in BOOLEAN
      BY <3>1, Zenon
    <3>3. <<>> \in Seq(Transfers)
      OBVIOUS
    <3>4. QED
      BY <3>1, <3>2, <3>3, Zenon
  <2>2. low \in [Transfers -> BOOLEAN]
    <3>1. low = [t \in Transfers |-> FALSE]
      BY DEF Init
    <3>2. QED
      BY <3>1, Zenon
  <2>3. /\ data \in [Transfers -> Seq(Piece)] /\ back \in [Transfers -> Seq(Piece)]
        /\ buffer \in [Transfers -> Seq(Piece)]
    <3>1. <<>> \in Seq(Piece)
      OBVIOUS
    <3>2. QED
      BY <3>1 DEF Init
  <2>4. sentSize \in [Transfers -> Nat] /\ confirmed \in [Transfers -> Nat]
    BY DEF Init
  <2>5. send \in [Transfers -> [at : {"none", "opening", "acking", "rejected", "sending"},
                                dc : ChannelStates]]
    BY DEF Init, ChannelStates
  <2>6. sent \in [Transfers -> [acked : BOOLEAN, at : {"none", "loading", "done", "failed"}]]
    BY DEF Init
  <2>7. recv \in [Transfers -> [dc : {"none", "open", "closed"}, bytes : Nat]]
    BY DEF Init
  <2>8. message \in [Transfers -> [at : {"none", "loading", "done", "failed"}, bytes : Nat]]
    BY DEF Init, NoFile
  <2>9. QED
    BY <2>1, <2>3, <2>4, <2>5, <2>6, <2>7, <2>8, <2>2 DEF Shape
<1>2. Told
  BY DEF Init, Told
<1>3. ASSUME NEW t \in Transfers PROVE Local(t)
  <2>1. /\ broken = FALSE /\ data[t] = <<>> /\ back[t] = <<>> /\ buffer[t] = <<>> /\ low[t] = FALSE
        /\ sentSize[t] = 0 /\ confirmed[t] = 0 /\ send[t] = [at |-> "none", dc |-> "none"]
        /\ sent[t] = [acked |-> FALSE, at |-> "none"] /\ recv[t] = [dc |-> "none", bytes |-> 0]
        /\ message[t] = [at |-> "none", bytes |-> 0]
    BY <1>3 DEF Init, NoFile
  <2>2. Pieces(t) /\ Asked(t) /\ ClosedOnce(t)
    BY <2>1 DEF Pieces, Asked, ClosedOnce
  <2>3. Size[t] \in Nat /\ Threshold \in Nat
    BY SizeAssumption, LimitsAssumption
  <2>4. Gone(t) = 0 /\ Got(t) = 0 /\ BufferedAmount(t) = 0
    BY <2>1 DEF Gone, Got, BufferedAmount
  <2>5. Buffered(t) /\ Carried(t)
    BY <2>1, <2>3, <2>4, ChainEmpty DEF Buffered, Carried
  <2>6. QED
    BY <2>2, <2>5 DEF Local
<1>4. QED
  BY <1>1, <1>2, <1>3 DEF Inductive

------------------------------------------------------------------------------
(* The steps of the sender.                                                *)

\* What the shape says of one file.
LEMMA Shapes ==
  ASSUME Shape, NEW t \in Transfers
  PROVE  /\ data[t] \in Seq(Piece) /\ back[t] \in Seq(Piece) /\ buffer[t] \in Seq(Piece)
         /\ low[t] \in BOOLEAN /\ sentSize[t] \in Nat /\ confirmed[t] \in Nat
         /\ send[t] \in [at : {"none", "opening", "acking", "rejected", "sending"},
                         dc : ChannelStates]
         /\ recv[t] \in [dc : {"none", "open", "closed"}, bytes : Nat]
         /\ message[t] \in [at : {"none", "loading", "done", "failed"}, bytes : Nat]
         /\ Size[t] \in Nat
BY SizeAssumption DEF Shape

SentShape == [Transfers -> [acked : BOOLEAN, at : {"none", "loading", "done", "failed"}]]
SendShape == [Transfers -> [at : {"none", "opening", "acking", "rejected", "sending"},
                            dc : ChannelStates]]

LEMMA SentShown ==
  ASSUME NEW f \in SentShape, NEW t \in Transfers, NEW x \in {"none", "loading", "done", "failed"}
  PROVE  [f EXCEPT ![t].at = x] \in SentShape /\ [f EXCEPT ![t].acked = TRUE] \in SentShape
<1> DEFINE R == [acked : BOOLEAN, at : {"none", "loading", "done", "failed"}]
<1>1. f \in [Transfers -> R] /\ f[t] \in R
  BY Zenon DEF SentShape
<1>2. [f[t] EXCEPT !.at = x] \in R /\ [f[t] EXCEPT !.acked = TRUE] \in R
  BY <1>1
<1> HIDE DEF R
<1>3. QED
  BY <1>1, <1>2 DEF SentShape, R

LEMMA SendGoes ==
  ASSUME NEW f \in SendShape, NEW t \in Transfers,
         NEW x \in {"none", "opening", "acking", "rejected", "sending"}, NEW y \in ChannelStates
  PROVE  [f EXCEPT ![t].at = x] \in SendShape /\ [f EXCEPT ![t].dc = y] \in SendShape
<1> DEFINE R == [at : {"none", "opening", "acking", "rejected", "sending"}, dc : ChannelStates]
<1>1. f \in [Transfers -> R] /\ f[t] \in R
  BY Zenon DEF SendShape
<1>2. [f[t] EXCEPT !.at = x] \in R /\ [f[t] EXCEPT !.dc = y] \in R
  BY <1>1
<1> HIDE DEF R
<1>3. QED
  BY <1>1, <1>2 DEF SendShape, R

LEMMA Transmits ==
  ASSUME Inductive, NEW t \in Transfers, Transmit(t)
  PROVE  Inductive'
<1>1. Shape /\ Told /\ Local(t)
  BY DEF Inductive
<1>2. /\ ~broken /\ broken' = broken /\ send[t].at = "none"
      /\ send' = [send EXCEPT ![t] = [at |-> "opening", dc |-> "connecting"]]
      /\ data' = [data EXCEPT ![t] = <<Open>>]
      /\ UNCHANGED <<chat, acks, back, buffer, low, sentSize, confirmed, sent, recv, message>>
  BY DEF Transmit, receiver
<1>3. Open \in Piece /\ <<Open>> \in Seq(Piece)
  BY DEF Open, Piece
<1>4. Shape'
  <2>1. [at |-> "opening", dc |-> "connecting"]
          \in [at : {"none", "opening", "acking", "rejected", "sending"}, dc : ChannelStates]
    BY DEF ChannelStates
  <2>2. QED
    BY <1>1, <1>2, <1>3, <2>1 DEF Shape
<1>5. /\ send'[t] = [at |-> "opening", dc |-> "connecting"] /\ data'[t] = <<Open>>
      /\ \A u \in Transfers \ {t} : send'[u] = send[u] /\ data'[u] = data[u]
  BY <1>1, <1>2 DEF Shape
<1>6. Told'
  BY <1>1, <1>2, <1>5, ToldKept
<1>7. /\ message[t].at = "none" /\ sentSize[t] = 0 /\ confirmed[t] = 0 /\ buffer[t] = <<>> /\ ~low[t]
      /\ ~sent[t].acked /\ send[t].dc \notin {"closing", "resetting", "closed"}
      /\ recv[t].dc # "closed" /\ recv[t].bytes = 0
  BY <1>1, <1>2, Shapes DEF Local, Asked, ClosedOnce, Carried
<1>8. Gone(t)' = 0 /\ Gone(t) = 0 /\ Got(t)' = Got(t) /\ BufferedAmount(t)' = BufferedAmount(t)
  BY <1>2, <1>7 DEF Gone, Got, BufferedAmount
<1>9. Local(t)'
  <2>1. Pieces(t)'
    BY <1>1, <1>2, <1>5 DEF Local, Pieces, Chunks, Reset
  <2>2. Asked(t)'
    BY <1>1, <1>2, <1>5, <1>7 DEF Local, Asked
  <2>3. Buffered(t)'
    BY <1>1, <1>2, <1>5, <1>7, <1>8 DEF Local, Buffered
  <2>4. Carried(t)'
    <3>1. Chain(<<Open>>, 0, 0)
      BY DEF Chain, Open
    <3>2. QED
      BY <1>1, <1>2, <1>5, <1>7, <1>8, <3>1 DEF Local, Carried
  <2>5. ClosedOnce(t)'
    BY <1>1, <1>2, <1>5, <1>7 DEF Local, ClosedOnce, Open
  <2>6. QED
    BY <2>1, <2>2, <2>3, <2>4, <2>5 DEF Local
<1>10. QED
  BY <1>2, <1>4, <1>5, <1>6, <1>9, OthersKept

LEMMA Opens ==
  ASSUME Inductive, NEW t \in Transfers, Opened(t)
  PROVE  Inductive'
<1>1. Shape /\ Told /\ Local(t)
  BY DEF Inductive
<1>2. /\ broken' = broken /\ send[t].at = "opening" /\ send[t].dc = "connecting"
      /\ send' = [send EXCEPT ![t] = [at |-> "acking", dc |-> "open"]]
      /\ sent' = [sent EXCEPT ![t].at = "loading"]
      /\ chat' = IF broken THEN chat ELSE Append(chat, t)
      /\ UNCHANGED <<data, acks, back, buffer, low, sentSize, confirmed, recv, message>>
  BY DEF Opened, receiver
<1>3. Shape'
  <2>1. [at |-> "acking", dc |-> "open"]
          \in [at : {"none", "opening", "acking", "rejected", "sending"}, dc : ChannelStates]
    BY DEF ChannelStates
  <2>2. chat' \in Seq(Transfers)
    BY <1>1, <1>2 DEF Shape
  <2>3. sent' \in [Transfers -> [acked : BOOLEAN, at : {"none", "loading", "done", "failed"}]]
    BY <1>1, <1>2, SentShown DEF Shape, SentShape
  <2>4. QED
    BY <1>1, <1>2, <2>1, <2>2, <2>3 DEF Shape
<1>4. /\ send'[t] = [at |-> "acking", dc |-> "open"] /\ sent'[t].acked = sent[t].acked
      /\ \A u \in Transfers \ {t} : send'[u] = send[u] /\ sent'[u] = sent[u]
  BY <1>1, <1>2 DEF Shape
<1>5. message[t].at = "none"
  BY <1>1, <1>2 DEF Local, Asked
<1>6. Told'
  <2>1. CASE broken
    BY <1>1, <1>2, <1>4, <2>1, ToldKept
  <2>2. CASE ~broken
    <3>1. /\ chat \in Seq(Transfers) /\ acks \in Seq(Transfers) /\ chat' = Append(chat, t)
          /\ acks' = acks
      BY <1>1, <1>2, <2>2 DEF Shape
    <3>2. /\ Len(chat) \in Nat /\ Len(chat') = Len(chat) + 1
          /\ \A i \in 1..Len(chat') : \/ i \in 1..Len(chat) /\ chat'[i] = chat[i]
                                      \/ i = Len(chat) + 1 /\ chat'[i] = t
      BY <3>1, AppendItems
    <3>3. \A i \in 1..Len(chat) : /\ chat[i] \in Transfers /\ chat[i] # t
                                  /\ send'[chat[i]].at \in {"acking", "rejected"}
      BY <1>1, <1>2, <1>4, <3>1 DEF Told
    <3>4. \A i, j \in 1..Len(chat') : chat'[i] = chat'[j] => i = j
      BY <1>1, <3>2, <3>3 DEF Told
    <3>5. \A i \in 1..Len(chat') : /\ message'[chat'[i]].at = "none"
                                   /\ send'[chat'[i]].at \in {"acking", "rejected"}
      BY <1>1, <1>2, <1>4, <1>5, <3>2, <3>3 DEF Told
    <3>6. QED
      BY <1>1, <1>2, <2>2, <3>1, <3>4, <3>5 DEF Told
  <2>3. QED
    BY <2>1, <2>2
<1>7. Gone(t)' = Gone(t) /\ Got(t)' = Got(t) /\ BufferedAmount(t)' = BufferedAmount(t)
  BY <1>2 DEF Gone, Got, BufferedAmount
<1>8. Local(t)'
  <2>1. Pieces(t)'
    BY <1>1, <1>2 DEF Local, Pieces, Chunks, Reset
  <2>2. Asked(t)'
    BY <1>1, <1>2, <1>4 DEF Local, Asked
  <2>3. Buffered(t)'
    BY <1>1, <1>2, <1>4, <1>7 DEF Local, Buffered
  <2>4. Carried(t)'
    BY <1>1, <1>2, <1>7 DEF Local, Carried
  <2>5. ClosedOnce(t)'
    BY <1>1, <1>2, <1>4 DEF Local, ClosedOnce
  <2>6. QED
    BY <2>1, <2>2, <2>3, <2>4, <2>5 DEF Local
<1>9. QED
  BY <1>2, <1>3, <1>4, <1>6, <1>8, OthersKept

LEMMA TimesOut ==
  ASSUME Inductive, NEW t \in Transfers, AckTimeout(t)
  PROVE  Inductive'
<1>1. Shape /\ Told /\ Local(t)
  BY DEF Inductive
<1>2. /\ broken' = broken /\ send[t].at = "acking" /\ send' = [send EXCEPT ![t].at = "rejected"]
      /\ UNCHANGED <<chat, acks, data, back, buffer, low, sentSize, confirmed, sent, recv, message>>
  BY DEF AckTimeout, receiver, wire
<1>3. Shape'
  <2>1. send' \in SendShape
    <3>1. "rejected" \in {"none", "opening", "acking", "rejected", "sending"} /\ "none" \in ChannelStates
      BY DEF ChannelStates
    <3>2. send \in SendShape
      BY <1>1 DEF Shape, SendShape
    <3>3. QED
      BY <1>2, <3>1, <3>2, SendGoes
  <2>2. QED
    BY <1>1, <1>2, <2>1 DEF Shape, SendShape
<1>4. /\ send'[t].at = "rejected" /\ send'[t].dc = send[t].dc
      /\ \A u \in Transfers \ {t} : send'[u] = send[u]
  BY <1>1, <1>2 DEF Shape
<1>5. Told'
  BY <1>1, <1>2, <1>4, ToldKept
<1>6. Gone(t)' = Gone(t) /\ Got(t)' = Got(t) /\ BufferedAmount(t)' = BufferedAmount(t)
  BY <1>2 DEF Gone, Got, BufferedAmount
<1>7. Local(t)'
  <2>1. Pieces(t)'
    BY <1>1, <1>2 DEF Local, Pieces, Chunks, Reset
  <2>2. Asked(t)'
    BY <1>1, <1>2, <1>4 DEF Local, Asked
  <2>3. Buffered(t)'
    BY <1>1, <1>2, <1>4, <1>6 DEF Local, Buffered
  <2>4. Carried(t)'
    BY <1>1, <1>2, <1>6 DEF Local, Carried
  <2>5. ClosedOnce(t)'
    BY <1>1, <1>2, <1>4 DEF Local, ClosedOnce
  <2>6. QED
    BY <2>1, <2>2, <2>3, <2>4, <2>5 DEF Local
<1>8. QED
  BY <1>2, <1>3, <1>4, <1>5, <1>7, OthersKept

\* The end of a step that sends chunks of a file.
LEMMA AfterChunks ==
  ASSUME Shape, NEW t \in Transfers, Local(t), SendChunks(t),
         send[t].dc \notin {"none", "connecting"}, send'[t].dc = send[t].dc,
         send'[t].at = "sending", message[t].at # "none", broken' = broken,
         data'[t] = data[t], back'[t] = back[t], confirmed'[t] = confirmed[t],
         recv'[t] = recv[t], message'[t] = message[t]
  PROVE  /\ buffer' \in [Transfers -> Seq(Piece)] /\ sentSize' \in [Transfers -> Nat]
         /\ \A u \in Transfers \ {t} : buffer'[u] = buffer[u] /\ sentSize'[u] = sentSize[u]
         /\ Local(t)'
<1>1. /\ buffer' \in [Transfers -> Seq(Piece)] /\ sentSize' \in [Transfers -> Nat]
      /\ \A u \in Transfers \ {t} : buffer'[u] = buffer[u] /\ sentSize'[u] = sentSize[u]
      /\ sentSize[t] <= sentSize'[t]
      /\ ~broken => Gone(t)' = Gone(t)
      /\ \A i \in 1..Len(buffer'[t]) : buffer'[t][i] \in Chunks(t)
      /\ Buffered(t)'
  BY SendsChunks DEF Local
<1>2. Got(t)' = Got(t)
  BY DEF Got
<1>3. Pieces(t)'
  BY <1>1 DEF Local, Pieces, Chunks, Reset
<1>4. Asked(t)'
  BY DEF Local, Asked
<1>5. Carried(t)'
  <2>1. recv[t].bytes \in Nat /\ sentSize[t] \in Nat /\ sentSize'[t] \in Nat
    BY <1>1, Shapes
  <2>2. CASE broken
    BY <1>1, <1>2, <2>1, <2>2 DEF Local, Carried
  <2>3. CASE ~broken
    BY <1>1, <1>2, <2>1, <2>3 DEF Local, Carried
  <2>4. QED
    BY <2>2, <2>3
<1>6. ClosedOnce(t)'
  <2>1. message[t].bytes <= sentSize'[t]
    <3>1. /\ message[t].bytes \in Nat /\ message[t].bytes <= sentSize[t]
          /\ sentSize[t] \in Nat /\ sentSize'[t] \in Nat
      BY <1>1, Shapes DEF Local, ClosedOnce
    <3>2. QED
      BY <1>1, <3>1
  <2>2. QED
    BY <2>1 DEF Local, ClosedOnce
<1>7. QED
  BY <1>1, <1>3, <1>4, <1>5, <1>6 DEF Local

LEMMA Acknowledges ==
  ASSUME Inductive, Acknowledged
  PROVE  Inductive'
<1>1. PICK t : t = Head(acks)
  OBVIOUS
<1>2. /\ acks # <<>> /\ acks' = Tail(acks) /\ sent' = [sent EXCEPT ![t].acked = TRUE]
      /\ IF send[t].at = "acking"
         THEN send' = [send EXCEPT ![t].at = "sending"] /\ SendChunks(t)
         ELSE UNCHANGED <<send, buffer, sentSize>>
      /\ UNCHANGED <<broken, chat, data, back, low, confirmed, recv, message>>
  BY <1>1 DEF Acknowledged, receiver
<1>3. Shape /\ Told
  BY DEF Inductive
<1>4. /\ t \in Transfers /\ acks' \in Seq(Transfers) /\ message[t].at # "none" /\ ~broken
      /\ \A i \in 1..Len(acks') : message[acks'[i]].at # "none"
  <2>1. acks \in Seq(Transfers)
    BY <1>3 DEF Shape
  <2>2. /\ t \in Transfers /\ acks' \in Seq(Transfers) /\ t = acks[1] /\ 1 \in 1..Len(acks)
        /\ \A i \in 1..Len(acks') : i + 1 \in 1..Len(acks) /\ acks'[i] = acks[i + 1]
    BY <1>1, <1>2, <2>1, TailItems
  <2>3. QED
    BY <1>2, <1>3, <2>2 DEF Told
<1>5. Local(t)
  BY <1>4 DEF Inductive
<1>6. sent' \in SentShape /\ \A u \in Transfers \ {t} : sent'[u] = sent[u]
  <2>1. sent \in SentShape /\ "none" \in {"none", "loading", "done", "failed"}
    BY <1>3 DEF Shape, SentShape
  <2>2. sent' \in SentShape
    BY <1>2, <1>4, <2>1, SentShown
  <2>3. \A u \in Transfers \ {t} : sent'[u] = sent[u]
    BY <1>2, <2>1 DEF SentShape
  <2>4. QED
    BY <2>2, <2>3
<1>7. CASE send[t].at = "acking"
  <2>1. send' = [send EXCEPT ![t].at = "sending"] /\ SendChunks(t)
    BY <1>2, <1>7
  <2>2. send' \in SendShape
    <3>1. "sending" \in {"none", "opening", "acking", "rejected", "sending"} /\ "none" \in ChannelStates
      BY DEF ChannelStates
    <3>2. QED
      BY <1>3, <1>4, <2>1, <3>1, SendGoes DEF Shape, SendShape
  <2>3. /\ send'[t].at = "sending" /\ send'[t].dc = send[t].dc
        /\ \A u \in Transfers \ {t} : send'[u] = send[u]
    BY <1>3, <1>4, <2>1 DEF Shape
  <2>4. send[t].dc \notin {"none", "connecting"}
    BY <1>5, <1>7 DEF Local, Asked
  <2>5. /\ buffer' \in [Transfers -> Seq(Piece)] /\ sentSize' \in [Transfers -> Nat]
        /\ \A u \in Transfers \ {t} : buffer'[u] = buffer[u] /\ sentSize'[u] = sentSize[u]
        /\ Local(t)'
    BY <1>2, <1>3, <1>4, <1>5, <2>1, <2>3, <2>4, AfterChunks
  <2>6. Shape'
    BY <1>2, <1>3, <1>4, <1>6, <2>2, <2>5 DEF Shape, SentShape, SendShape
  <2>7. Told'
    <3>1. \A i \in 1..Len(chat) : chat[i] \in Transfers /\ chat[i] # t
      <4>1. \A i \in 1..Len(chat) : chat[i] \in Transfers
        BY <1>3 DEF Shape
      <4>2. \A i \in 1..Len(chat) : message[chat[i]].at = "none"
        BY <1>3 DEF Told
      <4>3. QED
        BY <1>4, <4>1, <4>2
    <3>2. QED
      BY <1>2, <1>3, <1>4, <2>3, <3>1 DEF Told
  <2>8. QED
    BY <1>2, <1>4, <1>6, <2>3, <2>5, <2>6, <2>7, OthersKept
<1>8. CASE send[t].at # "acking"
  <2>1. UNCHANGED <<send, buffer, sentSize>>
    BY <1>2, <1>8
  <2>2. Shape'
    BY <1>2, <1>3, <1>4, <1>6, <2>1 DEF Shape, SentShape
  <2>3. Told'
    BY <1>2, <1>3, <1>4, <2>1 DEF Told
  <2>4. Gone(t)' = Gone(t) /\ Got(t)' = Got(t) /\ BufferedAmount(t)' = BufferedAmount(t)
    BY <1>2, <2>1 DEF Gone, Got, BufferedAmount
  <2>5. Local(t)'
    <3>1. Pieces(t)'
      BY <1>2, <1>5, <2>1 DEF Local, Pieces, Chunks, Reset
    <3>2. Asked(t)'
      BY <1>2, <1>4, <1>5, <2>1 DEF Local, Asked
    <3>3. Buffered(t)'
      BY <1>2, <1>5, <2>1, <2>4 DEF Local, Buffered
    <3>4. Carried(t)'
      BY <1>2, <1>5, <2>1, <2>4 DEF Local, Carried
    <3>5. ClosedOnce(t)'
      BY <1>2, <1>5, <2>1 DEF Local, ClosedOnce
    <3>6. QED
      BY <3>1, <3>2, <3>3, <3>4, <3>5 DEF Local
  <2>6. QED
    BY <1>2, <1>4, <1>6, <2>1, <2>2, <2>3, <2>5, OthersKept
<1>9. QED
  BY <1>7, <1>8

LEMMA FiresLow ==
  ASSUME Inductive, NEW t \in Transfers, BufferedAmountLow(t)
  PROVE  Inductive'
<1>1. Shape /\ Told /\ Local(t)
  BY DEF Inductive
<1>2. /\ low[t] /\ low' = [low EXCEPT ![t] = FALSE] /\ SendChunks(t)
      /\ UNCHANGED <<broken, chat, acks, data, back, send, confirmed, sent, recv, message>>
  BY DEF BufferedAmountLow, receiver, wire
<1>3. send[t].at = "sending" /\ message[t].at # "none" /\ send[t].dc \notin {"none", "connecting"}
  BY <1>1, <1>2 DEF Local, Asked
<1>4. /\ buffer' \in [Transfers -> Seq(Piece)] /\ sentSize' \in [Transfers -> Nat]
      /\ \A u \in Transfers \ {t} : buffer'[u] = buffer[u] /\ sentSize'[u] = sentSize[u]
      /\ Local(t)'
  BY <1>1, <1>2, <1>3, AfterChunks
<1>5. low' \in [Transfers -> BOOLEAN] /\ \A u \in Transfers \ {t} : low'[u] = low[u]
  <2>1. low \in [Transfers -> BOOLEAN]
    BY <1>1 DEF Shape
  <2>2. QED
    BY <1>2, <2>1
<1>6. Shape'
  BY <1>1, <1>2, <1>4, <1>5 DEF Shape
<1>7. Told'
  BY <1>1, <1>2, ToldKept
<1>8. QED
  BY <1>2, <1>4, <1>5, <1>6, <1>7, OthersKept

LEMMA Confirms ==
  ASSUME Inductive, NEW t \in Transfers, Feedback(t)
  PROVE  Inductive'
<1>1. Shape /\ Told /\ Local(t)
  BY DEF Inductive
<1>2. PICK p : p = Head(back[t])
  OBVIOUS
<1>3. /\ send[t].dc = "open" /\ back[t] # <<>> /\ p.is # "reset"
      /\ back' = [back EXCEPT ![t] = Tail(@)]
      /\ IF send[t].at = "sending"
         THEN /\ confirmed' = [confirmed EXCEPT ![t] = @ + (p.to - p.from)]
              /\ send' = IF confirmed'[t] >= Size[t] THEN [send EXCEPT ![t].dc = "closing"] ELSE send
         ELSE UNCHANGED <<confirmed, send>>
      /\ UNCHANGED <<broken, chat, acks, data, buffer, low, sentSize, sent, recv, message>>
  BY <1>2 DEF Feedback, receiver, Bytes
<1>4. /\ ~broken /\ p \in Piece /\ p.from = confirmed[t] /\ p.from <= p.to /\ p.to <= Got(t)
      /\ Got(t) \in Nat /\ Got(t) <= Size[t]
      /\ Tail(back[t]) \in Seq(Piece) /\ Chain(Tail(back[t]), p.to, Got(t))
  BY <1>1, <1>2, <1>3, NextSize
<1>5. /\ confirmed[t] \in Nat /\ sentSize[t] \in Nat /\ recv[t].bytes \in Nat /\ Size[t] \in Nat
      /\ p.from \in Nat /\ p.to \in Nat /\ send \in SendShape
  BY <1>1, <1>4, Shapes DEF Piece, Shape, SendShape
<1>6. recv[t].dc # "closed" /\ Got(t) = recv[t].bytes /\ recv[t].bytes <= sentSize[t]
      /\ sentSize[t] <= Size[t]
  BY <1>1, <1>3, <1>4 DEF Local, ClosedOnce, Carried, Buffered, Got
<1>7. confirmed'[t] = p.to
  <2>1. CASE send[t].at = "sending"
    <3>1. confirmed'[t] = confirmed[t] + (p.to - p.from)
      BY <1>1, <1>3, <2>1 DEF Shape
    <3>2. QED
      BY <1>4, <1>5, <3>1
  <2>2. CASE send[t].at # "sending"
    <3>1. confirmed[t] = 0 /\ sentSize[t] = 0
      BY <1>1, <2>2 DEF Local, Asked
    <3>2. QED
      BY <1>3, <1>4, <1>5, <1>6, <2>2, <3>1
  <2>3. QED
    BY <2>1, <2>2
<1>8. confirmed' \in [Transfers -> Nat] /\ \A u \in Transfers \ {t} : confirmed'[u] = confirmed[u]
  <2>1. confirmed \in [Transfers -> Nat]
    BY <1>1 DEF Shape
  <2>2. confirmed' = confirmed \/ confirmed' = [confirmed EXCEPT ![t] = @ + (p.to - p.from)]
    BY <1>3
  <2>3. \A u \in Transfers \ {t} : confirmed'[u] = confirmed[u]
    BY <2>1, <2>2
  <2>4. confirmed[t] + (p.to - p.from) \in Nat
    BY <1>4, <1>5
  <2>5. QED
    BY <2>1, <2>2, <2>3, <2>4
<1>9. /\ back' \in [Transfers -> Seq(Piece)] /\ back'[t] = Tail(back[t])
      /\ \A u \in Transfers \ {t} : back'[u] = back[u]
  BY <1>1, <1>3, <1>4 DEF Shape
<1>10. /\ send' \in SendShape /\ send'[t].at = send[t].at
       /\ send'[t].dc = "open" \/ (send'[t].dc = "closing" /\ send[t].at = "sending" /\ confirmed'[t] >= Size[t])
       /\ \A u \in Transfers \ {t} : send'[u] = send[u]
  <2>1. "none" \in {"none", "opening", "acking", "rejected", "sending"} /\ "closing" \in ChannelStates
    BY DEF ChannelStates
  <2>2. send' = send \/ (send' = [send EXCEPT ![t].dc = "closing"] /\ send[t].at = "sending"
                           /\ confirmed'[t] >= Size[t])
    BY <1>3
  <2>3. [send EXCEPT ![t].dc = "closing"] \in SendShape
    BY <1>5, <2>1, SendGoes
  <2>4. QED
    BY <1>3, <1>5, <2>2, <2>3 DEF SendShape
<1>11. Shape'
  BY <1>1, <1>3, <1>8, <1>9, <1>10 DEF Shape, SendShape
<1>12. Told'
  <2>1. \A u \in Transfers : send'[u].at = send[u].at
    BY <1>10
  <2>2. QED
    BY <1>1, <1>3, <2>1, ToldKept
<1>13. Gone(t)' = Gone(t) /\ Got(t)' = Got(t) /\ BufferedAmount(t)' = BufferedAmount(t)
  BY <1>3 DEF Gone, Got, BufferedAmount
<1>14. \A i \in 1..Len(back'[t]) : i + 1 \in 1..Len(back[t]) /\ back'[t][i] = back[t][i + 1]
  BY <1>1, <1>3, <1>9, TailItems, Shapes
<1>15. Local(t)'
  <2>1. Pieces(t)'
    BY <1>1, <1>3, <1>14 DEF Local, Pieces, Chunks, Reset
  <2>2. Asked(t)'
    BY <1>1, <1>3, <1>4, <1>5, <1>6, <1>7, <1>10 DEF Local, Asked
  <2>3. Buffered(t)'
    BY <1>1, <1>3, <1>4, <1>5, <1>6, <1>7, <1>10, <1>13 DEF Local, Buffered
  <2>4. Carried(t)'
    BY <1>1, <1>3, <1>4, <1>5, <1>6, <1>7, <1>9, <1>13 DEF Local, Carried
  <2>5. ClosedOnce(t)'
    BY <1>1, <1>3, <1>4, <1>6, <1>10, <1>14 DEF Local, ClosedOnce
  <2>6. QED
    BY <2>1, <2>2, <2>3, <2>4, <2>5 DEF Local
<1>16. QED
  BY <1>3, <1>8, <1>9, <1>10, <1>11, <1>12, <1>15, OthersKept

------------------------------------------------------------------------------
(* The steps of the receiver.                                              *)

LEMMA Receives ==
  ASSUME Inductive, Receive
  PROVE  Inductive'
<1>1. PICK t : t = Head(chat)
  OBVIOUS
<1>2. /\ chat # <<>> /\ chat' = Tail(chat) /\ message' = [message EXCEPT ![t].at = "loading"]
      /\ acks' = Append(acks, t)
      /\ UNCHANGED <<broken, data, back, send, buffer, low, sentSize, confirmed, sent, recv>>
  BY <1>1 DEF Receive, sender
<1>3. Shape /\ Told
  BY DEF Inductive
<1>4. chat \in Seq(Transfers) /\ acks \in Seq(Transfers)
  BY <1>3 DEF Shape
<1>5. /\ t \in Transfers /\ chat' \in Seq(Transfers) /\ Len(chat) \in Nat \ {0} /\ t = chat[1]
      /\ Len(chat') = Len(chat) - 1
      /\ \A i \in 1..Len(chat') : i + 1 \in 1..Len(chat) /\ chat'[i] = chat[i + 1]
  BY <1>1, <1>2, <1>4, TailItems
<1>6. /\ acks' \in Seq(Transfers)
      /\ \A i \in 1..Len(acks') : (i \in 1..Len(acks) /\ acks'[i] = acks[i]) \/ acks'[i] = t
  BY <1>2, <1>4, <1>5, AppendItems
<1>7. Local(t)
  BY <1>5 DEF Inductive
<1>8. ~broken /\ message[t].at = "none" /\ send[t].at \in {"acking", "rejected"}
  BY <1>2, <1>3, <1>5 DEF Told
<1>9. /\ message' \in [Transfers -> [at : {"none", "loading", "done", "failed"}, bytes : Nat]]
      /\ message'[t].at = "loading"
      /\ \A u \in Transfers \ {t} : message'[u] = message[u]
  <2>1. message \in [Transfers -> [at : {"none", "loading", "done", "failed"}, bytes : Nat]]
    BY <1>3 DEF Shape
  <2>2. QED
    BY <1>2, <1>5, <2>1
<1>10. Shape'
  BY <1>2, <1>3, <1>5, <1>6, <1>9 DEF Shape
<1>11. Told'
  <2>1. \A i, j \in 1..Len(chat') : chat'[i] = chat'[j] => i = j
    <3> TAKE i, j \in 1..Len(chat')
    <3> HAVE chat'[i] = chat'[j]
    <3>1. i + 1 \in 1..Len(chat) /\ j + 1 \in 1..Len(chat) /\ chat[i + 1] = chat[j + 1]
      BY <1>5
    <3>2. QED
      BY <1>3, <3>1 DEF Told
  <2>2. ASSUME NEW i \in 1..Len(chat')
        PROVE  message'[chat'[i]].at = "none" /\ send'[chat'[i]].at \in {"acking", "rejected"}
    <3>1. i + 1 \in 1..Len(chat) /\ i + 1 # 1 /\ 1 \in 1..Len(chat) /\ chat'[i] = chat[i + 1]
      BY <1>5
    <3>2. chat[i + 1] # t /\ chat[i + 1] \in Transfers
      BY <1>3, <1>4, <1>5, <3>1 DEF Told
    <3>3. QED
      BY <1>2, <1>3, <1>9, <3>1, <3>2 DEF Told
  <2>3. ASSUME NEW i \in 1..Len(acks')
        PROVE  message'[acks'[i]].at # "none"
    <3>1. CASE acks'[i] = t
      BY <1>9, <3>1
    <3>2. CASE i \in 1..Len(acks) /\ acks'[i] = acks[i]
      <4>1. acks[i] \in Transfers /\ message[acks[i]].at # "none"
        BY <1>3, <1>4, <3>2 DEF Told
      <4>2. QED
        BY <1>9, <3>2, <4>1
    <3>3. QED
      BY <1>6, <3>1, <3>2
  <2>4. QED
    BY <1>2, <1>8, <2>1, <2>2, <2>3 DEF Told
<1>12. Gone(t)' = Gone(t) /\ Got(t)' = Got(t) /\ BufferedAmount(t)' = BufferedAmount(t)
  BY <1>2 DEF Gone, Got, BufferedAmount
<1>13. recv[t].dc # "closed"
  BY <1>7, <1>8 DEF Local, ClosedOnce
<1>14. Local(t)'
  <2>1. Pieces(t)'
    BY <1>2, <1>7 DEF Local, Pieces, Chunks, Reset
  <2>2. Asked(t)'
    BY <1>2, <1>7, <1>8, <1>9 DEF Local, Asked
  <2>3. Buffered(t)'
    BY <1>2, <1>7, <1>12 DEF Local, Buffered
  <2>4. Carried(t)'
    BY <1>2, <1>7, <1>12 DEF Local, Carried
  <2>5. ClosedOnce(t)'
    BY <1>2, <1>7, <1>9, <1>13 DEF Local, ClosedOnce
  <2>6. QED
    BY <2>1, <2>2, <2>3, <2>4, <2>5 DEF Local
<1>15. QED
  BY <1>2, <1>5, <1>9, <1>10, <1>11, <1>14, OthersKept

\* The receiver takes a piece, and sends its size back.
LEMMA TakesPiece ==
  ASSUME Inductive, NEW t \in Transfers, data[t] # <<>>, NEW p, p = Head(data[t]), p.is # "reset",
         data' = [data EXCEPT ![t] = Tail(@)], back' = [back EXCEPT ![t] = Append(@, p)],
         recv' \in [Transfers -> [dc : {"none", "open", "closed"}, bytes : Nat]],
         recv'[t].dc \in {recv[t].dc, "open"}, recv'[t].bytes = p.to,
         \A u \in Transfers \ {t} : recv'[u] = recv[u],
         UNCHANGED <<broken, chat, acks, send, buffer, low, sentSize, confirmed, sent, message>>
  PROVE  Inductive'
<1>1. Shape /\ Told /\ Local(t)
  BY DEF Inductive
<1>2. /\ ~broken /\ recv[t].dc # "closed" /\ p \in Piece
      /\ p \in Chunks(t) \cup {Open, Reset(t)}
      /\ p.from = recv[t].bytes /\ p.from <= p.to /\ p.to <= Gone(t)
      /\ Gone(t) \in Nat /\ Gone(t) <= sentSize[t]
      /\ Tail(data[t]) \in Seq(Piece) /\ Chain(Tail(data[t]), p.to, Gone(t))
  BY <1>1, NextPiece
<1>3. /\ data[t] \in Seq(Piece) /\ back[t] \in Seq(Piece) /\ confirmed[t] \in Nat
      /\ sentSize[t] \in Nat /\ recv[t].bytes \in Nat /\ p.from \in Nat /\ p.to \in Nat
  BY <1>1, <1>2, Shapes DEF Piece
<1>4. /\ data' \in [Transfers -> Seq(Piece)] /\ data'[t] = Tail(data[t])
      /\ \A u \in Transfers \ {t} : data'[u] = data[u]
  BY <1>1, <1>2 DEF Shape
<1>5. Append(back[t], p) \in Seq(Piece)
  BY <1>2, <1>3
<1>6. /\ back' \in [Transfers -> Seq(Piece)] /\ back'[t] = Append(back[t], p)
      /\ \A u \in Transfers \ {t} : back'[u] = back[u]
  BY <1>1, <1>5 DEF Shape
<1>7. Shape'
  BY <1>1, <1>4, <1>6 DEF Shape
<1>8. Told'
  BY <1>1, ToldKept
<1>9. Gone(t)' = Gone(t) /\ BufferedAmount(t)' = BufferedAmount(t)
  BY DEF Gone, BufferedAmount
<1>10. recv'[t].dc # "closed" /\ Got(t) = recv[t].bytes /\ Got(t)' = p.to
  BY <1>2 DEF Got
<1>11. /\ Len(data[t]) \in Nat \ {0} /\ Len(data'[t]) = Len(data[t]) - 1
       /\ \A i \in 1..Len(data'[t]) : i + 1 \in 1..Len(data[t]) /\ data'[t][i] = data[t][i + 1]
  BY <1>3, <1>4, TailItems
<1>12. \A i \in 1..Len(back'[t]) :
         (i \in 1..Len(back[t]) /\ back'[t][i] = back[t][i]) \/ back'[t][i] = p
  BY <1>2, <1>3, <1>6, AppendItems
<1>13. Chain(back'[t], confirmed[t], p.to)
  <2>1. Chain(back[t], confirmed[t], p.from)
    BY <1>1, <1>2, <1>10 DEF Local, Carried
  <2>2. QED
    BY <1>2, <1>3, <1>6, <2>1, ChainAppend
<1>14. Local(t)'
  <2>1. Pieces(t)'
    <3>1. Chunks(t)' = Chunks(t) /\ Reset(t)' = Reset(t)
      BY DEF Chunks, Reset
    <3>2. QED
      BY <1>1, <1>2, <1>11, <1>12, <3>1 DEF Local, Pieces
  <2>2. Asked(t)'
    BY <1>1 DEF Local, Asked
  <2>3. Buffered(t)'
    BY <1>1, <1>9 DEF Local, Buffered
  <2>4. Carried(t)'
    <3>1. confirmed[t] <= p.to
      BY <1>1, <1>2, <1>3 DEF Local, Carried
    <3>2. QED
      BY <1>1, <1>2, <1>3, <1>4, <1>9, <1>10, <1>13, <3>1 DEF Local, Carried
  <2>5. ClosedOnce(t)'
    <3>1. \A i \in 1..Len(data'[t]) :
            data'[t][i].is = "reset" => i = Len(data'[t]) /\ send'[t].dc = "resetting"
      BY <1>1, <1>11 DEF Local, ClosedOnce
    <3>2. \A i \in 1..Len(back'[t]) : back'[t][i].is = "reset" => FALSE
      BY <1>1, <1>2, <1>12 DEF Local, ClosedOnce
    <3>3. QED
      BY <1>1, <1>2, <1>10, <3>1, <3>2 DEF Local, ClosedOnce
  <2>6. QED
    BY <2>1, <2>2, <2>3, <2>4, <2>5 DEF Local
<1>15. QED
  BY <1>4, <1>6, <1>7, <1>8, <1>14, OthersKept

LEMMA Announces ==
  ASSUME Inductive, NEW t \in Transfers, Announced(t)
  PROVE  Inductive'
<1>1. PICK p : p = Head(data[t])
  OBVIOUS
<1>2. /\ data[t] # <<>> /\ p.is = "open"
      /\ data' = [data EXCEPT ![t] = Tail(@)]
      /\ recv' = [recv EXCEPT ![t] = [dc |-> "open", bytes |-> 0]]
      /\ back' = [back EXCEPT ![t] = Append(@, Open)]
      /\ UNCHANGED <<broken, chat, acks, send, buffer, low, sentSize, confirmed, sent, message>>
  BY <1>1 DEF Announced, sender
<1>3. p \in Chunks(t) \cup {Open, Reset(t)}
  BY <1>1, <1>2, NextPiece DEF Inductive
<1>4. p = Open
  BY <1>2, <1>3 DEF Chunks, Open, Reset
<1>5. recv' \in [Transfers -> [dc : {"none", "open", "closed"}, bytes : Nat]]
  BY <1>2 DEF Inductive, Shape
<1>6. /\ recv'[t].dc = "open" /\ recv'[t].bytes = 0
      /\ \A u \in Transfers \ {t} : recv'[u] = recv[u]
  BY <1>2 DEF Inductive, Shape
<1>7. p.to = 0
  BY <1>4 DEF Open
<1>8. QED
  BY <1>1, <1>2, <1>4, <1>5, <1>6, <1>7, TakesPiece

LEMMA TakesChunk ==
  ASSUME Inductive, NEW t \in Transfers, ReceiveChunk(t)
  PROVE  Inductive'
<1>1. PICK p : p = Head(data[t])
  OBVIOUS
<1>2. /\ data[t] # <<>> /\ p.is = "chunk"
      /\ data' = [data EXCEPT ![t] = Tail(@)]
      /\ recv' = [recv EXCEPT ![t].bytes = @ + (p.to - p.from)]
      /\ back' = [back EXCEPT ![t] = Append(@, p)]
      /\ UNCHANGED <<broken, chat, acks, send, buffer, low, sentSize, confirmed, sent, message>>
  BY <1>1 DEF ReceiveChunk, sender, Bytes
<1>3. p \in Piece /\ p.from = recv[t].bytes /\ p.from <= p.to
  BY <1>1, <1>2, NextPiece DEF Inductive
<1>4. recv[t].bytes + (p.to - p.from) = p.to /\ p.to \in Nat
  BY <1>3 DEF Piece
<1>5. recv \in [Transfers -> [dc : {"none", "open", "closed"}, bytes : Nat]]
  BY DEF Inductive, Shape
<1>6. recv' = [recv EXCEPT ![t].bytes = p.to]
  BY <1>2, <1>4, <1>5
<1>7. /\ recv' \in [Transfers -> [dc : {"none", "open", "closed"}, bytes : Nat]]
      /\ recv'[t].dc = recv[t].dc /\ recv'[t].bytes = p.to
      /\ \A u \in Transfers \ {t} : recv'[u] = recv[u]
  BY <1>4, <1>5, <1>6
<1>8. QED
  BY <1>1, <1>2, <1>7, TakesPiece

------------------------------------------------------------------------------
(* The steps of the network.                                               *)

LEMMA Drains ==
  ASSUME Inductive, NEW t \in Transfers, Drain(t)
  PROVE  Inductive'
<1>1. Shape /\ Told /\ Local(t)
  BY DEF Inductive
<1>2. PICK p, b, g, z : p = Head(buffer[t]) /\ b = buffer[t] /\ g = Gone(t) /\ z = sentSize[t]
  OBVIOUS
<1>3. /\ ~broken /\ b # <<>>
      /\ buffer' = [buffer EXCEPT ![t] = Tail(@)]
      /\ data' = [data EXCEPT ![t] = Append(@, p)]
      /\ low' = [low EXCEPT ![t] =
                   @ \/ (BufferedAmount(t) > Threshold /\ BufferedAmount(t)' <= Threshold)]
      /\ UNCHANGED <<broken, chat, acks, back, send, sentSize, confirmed, sent, recv, message>>
  BY <1>2 DEF Drain, receiver
<1>4. /\ data[t] \in Seq(Piece) /\ b \in Seq(Piece) /\ z \in Nat /\ recv[t].bytes \in Nat
      /\ Len(b) \in Nat \ {0} /\ b[1] \in Piece
  <2>1. data[t] \in Seq(Piece) /\ b \in Seq(Piece) /\ z \in Nat /\ recv[t].bytes \in Nat
    BY <1>1, <1>2, Shapes
  <2>2. QED
    BY <1>3, <2>1, TailItems
<1>5. g = b[1].from /\ g \in Nat /\ Chain(b, g, z)
  BY <1>1, <1>2, <1>3, <1>4 DEF Gone, Piece, Local, Buffered
<1>6. /\ Tail(b) \in Seq(Piece) /\ p \in Piece /\ p = b[1] /\ p.from = g /\ p.from <= p.to /\ p.to <= z
      /\ Chain(Tail(b), p.to, z)
  BY <1>2, <1>3, <1>4, <1>5, ChainTail
<1>7. p.from \in Nat /\ p.to \in Nat /\ p \in Chunks(t) /\ p.is = "chunk"
  <2>1. p \in Chunks(t)
    BY <1>1, <1>2, <1>4, <1>6 DEF Local, Pieces
  <2>2. QED
    BY <1>6, <2>1 DEF Piece, Chunks
<1>8. /\ buffer' \in [Transfers -> Seq(Piece)] /\ buffer'[t] = Tail(b)
      /\ \A u \in Transfers \ {t} : buffer'[u] = buffer[u]
  BY <1>1, <1>2, <1>3, <1>6 DEF Shape
<1>9. Append(data[t], p) \in Seq(Piece)
  BY <1>4, <1>6
<1>10. /\ data' \in [Transfers -> Seq(Piece)] /\ data'[t] = Append(data[t], p)
       /\ \A u \in Transfers \ {t} : data'[u] = data[u]
  BY <1>1, <1>3, <1>9 DEF Shape
<1>11. low' \in [Transfers -> BOOLEAN] /\ \A u \in Transfers \ {t} : low'[u] = low[u]
  <2>1. low \in [Transfers -> BOOLEAN]
    BY <1>1 DEF Shape
  <2>2. PICK x \in BOOLEAN : low' = [low EXCEPT ![t] = x]
    BY <1>3, <2>1
  <2>3. QED
    BY <2>1, <2>2
<1>12. Shape'
  BY <1>1, <1>3, <1>8, <1>10, <1>11 DEF Shape
<1>13. Told'
  BY <1>1, <1>3, ToldKept
<1>14. Gone(t)' = p.to /\ Got(t)' = Got(t)
  BY <1>2, <1>3, <1>6, <1>8 DEF Gone, Got, Chain
<1>15. BufferedAmount(t)' <= Threshold + 1
  <2>1. PICK n : n = BufferedAmount(t)'
    OBVIOUS
  <2>2. n = IF Tail(b) = <<>> THEN 0 ELSE Tail(b)[Len(Tail(b))].to - Tail(b)[1].from
    BY <1>8, <2>1 DEF BufferedAmount
  <2>3. n = IF Tail(b) = <<>> THEN 0 ELSE z - p.to
    BY <1>6, <2>2 DEF Chain
  <2>4. z - g <= Threshold + 1
    BY <1>1, <1>2, <1>3, <1>5 DEF Local, Buffered, BufferedAmount, Chain
  <2>5. QED
    BY <1>4, <1>5, <1>6, <1>7, <2>1, <2>3, <2>4, LimitsAssumption, SMTT(30)
<1>16. /\ send[t].at = "sending" /\ send[t].dc # "resetting" /\ send[t].dc # "closed"
       /\ recv[t].dc # "closed"
  BY <1>1, <1>2, <1>3 DEF Local, Asked, Buffered, ClosedOnce
<1>17. /\ \A i \in 1..Len(data'[t]) :
            (i \in 1..Len(data[t]) /\ data'[t][i] = data[t][i]) \/ data'[t][i] = p
       /\ \A i \in 1..Len(buffer'[t]) : i + 1 \in 1..Len(b) /\ buffer'[t][i] = b[i + 1]
  <2>1. \A i \in 1..Len(data'[t]) :
          (i \in 1..Len(data[t]) /\ data'[t][i] = data[t][i]) \/ data'[t][i] = p
    BY <1>4, <1>6, <1>10, AppendItems
  <2>2. \A i \in 1..Len(buffer'[t]) : i + 1 \in 1..Len(b) /\ buffer'[t][i] = b[i + 1]
    <3>1. \A i \in 1..Len(Tail(b)) : i + 1 \in 1..Len(b) /\ Tail(b)[i] = b[i + 1]
      BY <1>3, <1>4, TailItems
    <3>2. QED
      BY <1>8, <3>1, Zenon
  <2>3. QED
    BY <2>1, <2>2
<1>18. Local(t)'
  <2>1. Pieces(t)'
    <3>1. Chunks(t)' = Chunks(t) /\ Reset(t)' = Reset(t)
      BY DEF Chunks, Reset
    <3>2. QED
      BY <1>1, <1>2, <1>3, <1>7, <1>17, <3>1 DEF Local, Pieces
  <2>2. Asked(t)'
    BY <1>1, <1>3, <1>16 DEF Local, Asked
  <2>3. Buffered(t)'
    BY <1>1, <1>2, <1>3, <1>6, <1>8, <1>14, <1>15, <1>16 DEF Local, Buffered
  <2>4. Carried(t)'
    <3>1. Chain(data[t], recv[t].bytes, p.from)
      BY <1>1, <1>2, <1>3, <1>6, <1>16 DEF Local, Carried
    <3>2. Chain(data'[t], recv[t].bytes, p.to)
      BY <1>4, <1>6, <1>7, <1>10, <3>1, ChainAppend
    <3>3. QED
      BY <1>1, <1>3, <1>14, <3>2 DEF Local, Carried
  <2>5. ClosedOnce(t)'
    BY <1>1, <1>3, <1>7, <1>16, <1>17 DEF Local, ClosedOnce
  <2>6. QED
    BY <2>1, <2>2, <2>3, <2>4, <2>5 DEF Local
<1>19. QED
  BY <1>3, <1>8, <1>10, <1>11, <1>12, <1>13, <1>18, OthersKept

LEMMA SendsReset ==
  ASSUME Inductive, NEW t \in Transfers, SendReset(t)
  PROVE  Inductive'
<1>1. Shape /\ Told /\ Local(t)
  BY DEF Inductive
<1>2. PICK p : p = Reset(t)
  OBVIOUS
<1>3. /\ ~broken /\ send[t].dc = "closing" /\ buffer[t] = <<>>
      /\ send' = [send EXCEPT ![t].dc = "resetting"]
      /\ data' = [data EXCEPT ![t] = Append(@, p)]
      /\ UNCHANGED <<broken, chat, acks, back, buffer, low, sentSize, confirmed, sent, recv, message>>
  BY <1>2 DEF SendReset, receiver
<1>4. /\ data[t] \in Seq(Piece) /\ Size[t] \in Nat /\ recv[t].bytes \in Nat
      /\ p \in Piece /\ p.is = "reset" /\ p.from = Size[t] /\ p.to = Size[t]
  <2>1. data[t] \in Seq(Piece) /\ Size[t] \in Nat /\ recv[t].bytes \in Nat
    BY <1>1, Shapes
  <2>2. QED
    BY <1>2, <2>1 DEF Reset, Piece
<1>5. /\ data' \in [Transfers -> Seq(Piece)] /\ data'[t] = Append(data[t], p)
      /\ \A u \in Transfers \ {t} : data'[u] = data[u]
  <2>1. Append(data[t], p) \in Seq(Piece)
    BY <1>4
  <2>2. QED
    BY <1>1, <1>3, <2>1 DEF Shape
<1>6. /\ send' \in SendShape /\ send'[t].at = send[t].at /\ send'[t].dc = "resetting"
      /\ \A u \in Transfers \ {t} : send'[u] = send[u]
  <2>1. "none" \in {"none", "opening", "acking", "rejected", "sending"} /\ "resetting" \in ChannelStates
    BY DEF ChannelStates
  <2>2. send \in SendShape
    BY <1>1 DEF Shape, SendShape
  <2>3. send' \in SendShape
    BY <1>3, <2>1, <2>2, SendGoes
  <2>4. QED
    BY <1>3, <2>2, <2>3 DEF SendShape
<1>7. Shape'
  BY <1>1, <1>3, <1>5, <1>6 DEF Shape, SendShape
<1>8. Told'
  <2>1. \A u \in Transfers : send'[u].at = send[u].at
    BY <1>6
  <2>2. QED
    BY <1>1, <1>3, <2>1, ToldKept
<1>9. Gone(t)' = Gone(t) /\ Got(t)' = Got(t) /\ BufferedAmount(t)' = BufferedAmount(t)
  BY <1>3 DEF Gone, Got, BufferedAmount
<1>10. /\ send[t].at = "sending" /\ sentSize[t] = Size[t] /\ confirmed[t] = Size[t] /\ Gone(t) = Size[t]
       /\ recv[t].dc # "closed"
  BY <1>1, <1>3 DEF Local, Asked, Buffered, ClosedOnce, Gone
<1>11. /\ Len(data[t]) \in Nat /\ Len(data'[t]) = Len(data[t]) + 1
       /\ \A i \in 1..Len(data'[t]) : \/ i \in 1..Len(data[t]) /\ data'[t][i] = data[t][i]
                                      \/ i = Len(data[t]) + 1 /\ data'[t][i] = p
  BY <1>4, <1>5, AppendItems
<1>12. Local(t)'
  <2>1. Pieces(t)'
    <3>1. Chunks(t)' = Chunks(t) /\ Reset(t)' = p
      BY <1>2 DEF Chunks, Reset
    <3>2. QED
      BY <1>1, <1>2, <1>3, <1>11, <3>1 DEF Local, Pieces
  <2>2. Asked(t)'
    BY <1>1, <1>3, <1>6, <1>10 DEF Local, Asked
  <2>3. Buffered(t)'
    BY <1>1, <1>3, <1>6, <1>9, <1>10 DEF Local, Buffered
  <2>4. Carried(t)'
    <3>1. Chain(data[t], recv[t].bytes, p.from)
      BY <1>1, <1>3, <1>4, <1>10 DEF Local, Carried
    <3>2. Chain(data'[t], recv[t].bytes, p.to)
      BY <1>4, <1>5, <3>1, ChainAppend
    <3>3. QED
      BY <1>1, <1>3, <1>4, <1>9, <1>10, <3>2 DEF Local, Carried
  <2>5. ClosedOnce(t)'
    BY <1>1, <1>3, <1>6, <1>10, <1>11 DEF Local, ClosedOnce
  <2>6. QED
    BY <2>1, <2>2, <2>3, <2>4, <2>5 DEF Local
<1>13. QED
  BY <1>3, <1>5, <1>6, <1>7, <1>8, <1>12, OthersKept

LEMMA TakesReset ==
  ASSUME Inductive, NEW t \in Transfers, ReceiveReset(t)
  PROVE  Inductive'
<1>1. Shape /\ Told /\ Local(t)
  BY DEF Inductive
<1>2. PICK p : p = Head(data[t])
  OBVIOUS
<1>3. /\ data[t] # <<>> /\ p.is = "reset"
      /\ data' = [data EXCEPT ![t] = Tail(@)]
      /\ back' = [back EXCEPT ![t] = Append(@, Reset(t))]
      /\ recv' = [recv EXCEPT ![t] = [dc |-> "closed", bytes |-> 0]]
      /\ message' = IF message[t].at = "loading"
                    THEN [message EXCEPT ![t] = [at |-> "done", bytes |-> recv[t].bytes]] ELSE message
      /\ UNCHANGED <<broken, chat, acks, send, buffer, low, sentSize, confirmed, sent>>
  BY <1>2 DEF ReceiveReset, ReceiverCloses, sender
<1>4. /\ ~broken /\ recv[t].dc # "closed" /\ p \in Piece /\ p = data[t][1]
      /\ p \in Chunks(t) \cup {Open, Reset(t)} /\ p.from = recv[t].bytes
  BY <1>1, <1>2, <1>3, NextPiece
<1>5. /\ data[t] \in Seq(Piece) /\ back[t] \in Seq(Piece) /\ confirmed[t] \in Nat /\ Size[t] \in Nat
      /\ sentSize[t] \in Nat
  BY <1>1, Shapes
<1>6. p = Reset(t) /\ p.from = Size[t] /\ p.to = Size[t] /\ recv[t].bytes = Size[t]
  BY <1>3, <1>4 DEF Chunks, Open, Reset
<1>7. /\ Len(data[t]) \in Nat \ {0} /\ Len(Tail(data[t])) = Len(data[t]) - 1
      /\ Tail(data[t]) \in Seq(Piece)
  BY <1>3, <1>5, TailItems
<1>8. Len(data[t]) = 1 /\ send[t].dc = "resetting" /\ Tail(data[t]) = <<>>
  <2>1. 1 \in 1..Len(data[t])
    BY <1>7
  <2>2. Len(data[t]) = 1 /\ send[t].dc = "resetting"
    BY <1>1, <1>3, <1>4, <2>1 DEF Local, ClosedOnce
  <2>3. Len(Tail(data[t])) = 0
    BY <1>7, <2>2
  <2>4. QED
    BY <1>7, <2>2, <2>3, NoPieces, Zenon
<1>9. send[t].at = "sending" /\ message[t].at = "loading"
  <2>1. send[t].at = "sending" /\ message[t].at # "none"
    BY <1>1, <1>8 DEF Local, Asked
  <2>2. message[t].at \in {"none", "loading", "done", "failed"}
    BY <1>1, Shapes
  <2>3. QED
    BY <1>1, <1>4, <2>1, <2>2 DEF Local, ClosedOnce
<1>10. /\ message' \in [Transfers -> [at : {"none", "loading", "done", "failed"}, bytes : Nat]]
       /\ message'[t] = [at |-> "done", bytes |-> Size[t]]
       /\ \A u \in Transfers \ {t} : message'[u] = message[u]
  <2>1. message \in [Transfers -> [at : {"none", "loading", "done", "failed"}, bytes : Nat]]
    BY <1>1 DEF Shape
  <2>2. message' = [message EXCEPT ![t] = [at |-> "done", bytes |-> Size[t]]]
    BY <1>3, <1>6, <1>9
  <2>3. QED
    BY <1>5, <2>1, <2>2
<1>11. /\ recv' \in [Transfers -> [dc : {"none", "open", "closed"}, bytes : Nat]]
       /\ recv'[t] = [dc |-> "closed", bytes |-> 0]
       /\ \A u \in Transfers \ {t} : recv'[u] = recv[u]
  BY <1>1, <1>3 DEF Shape
<1>12. /\ data' \in [Transfers -> Seq(Piece)] /\ data'[t] = <<>>
       /\ \A u \in Transfers \ {t} : data'[u] = data[u]
  BY <1>1, <1>3, <1>7, <1>8 DEF Shape
<1>13. /\ back' \in [Transfers -> Seq(Piece)] /\ back'[t] = Append(back[t], p)
       /\ \A u \in Transfers \ {t} : back'[u] = back[u]
  <2>1. Append(back[t], p) \in Seq(Piece)
    BY <1>4, <1>5
  <2>2. QED
    BY <1>1, <1>3, <1>6, <2>1 DEF Shape
<1>14. Shape'
  BY <1>1, <1>3, <1>10, <1>11, <1>12, <1>13 DEF Shape
<1>15. Told'
  <2>1. \A u \in Transfers : message'[u].at = "none" <=> message[u].at = "none"
    BY <1>9, <1>10
  <2>2. QED
    BY <1>1, <1>3, <2>1, ToldKept
<1>16. /\ Gone(t)' = Gone(t) /\ BufferedAmount(t)' = BufferedAmount(t)
       /\ Got(t) = Size[t] /\ Got(t)' = Size[t]
  BY <1>3, <1>4, <1>6, <1>11 DEF Gone, Got, BufferedAmount
<1>17. \A i \in 1..Len(back'[t]) :
         (i \in 1..Len(back[t]) /\ back'[t][i] = back[t][i]) \/ back'[t][i] = p
  BY <1>4, <1>5, <1>13, AppendItems
<1>18. Local(t)'
  <2>1. Pieces(t)'
    <3>1. Chunks(t)' = Chunks(t) /\ Reset(t)' = p
      BY <1>6 DEF Chunks, Reset
    <3>2. QED
      BY <1>1, <1>3, <1>6, <1>12, <1>17, <3>1 DEF Local, Pieces
  <2>2. Asked(t)'
    BY <1>1, <1>3, <1>9, <1>10 DEF Local, Asked
  <2>3. Buffered(t)'
    BY <1>1, <1>3, <1>16 DEF Local, Buffered
  <2>4. Carried(t)'
    <3>1. Chain(back'[t], confirmed[t], Size[t])
      <4>1. Chain(back[t], confirmed[t], p.from)
        BY <1>1, <1>4, <1>6, <1>16 DEF Local, Carried
      <4>2. QED
        BY <1>4, <1>5, <1>6, <1>13, <4>1, ChainAppend
    <3>2. QED
      BY <1>1, <1>3, <1>4, <1>5, <1>11, <1>16, <3>1 DEF Local, Carried
  <2>5. ClosedOnce(t)'
    <3>1. message'[t].bytes <= sentSize[t] /\ confirmed[t] <= message'[t].bytes
      BY <1>1, <1>6, <1>10 DEF Local, Carried
    <3>2. /\ sentSize'[t] = sentSize[t] /\ confirmed'[t] = confirmed[t] /\ message'[t].at = "done"
          /\ send' = send
      BY <1>3, <1>10
    <3>3. /\ recv'[t].dc = "closed" /\ data'[t] = <<>> /\ Len(data'[t]) = 0
          /\ send[t].dc = "resetting" /\ message'[t] = [at |-> "done", bytes |-> Size[t]]
      BY <1>8, <1>10, <1>11, <1>12
    <3>4. QED
      BY <3>1, <3>2, <3>3 DEF ClosedOnce
  <2>6. QED
    BY <2>1, <2>2, <2>3, <2>4, <2>5 DEF Local
<1>19. QED
  BY <1>3, <1>10, <1>11, <1>12, <1>13, <1>14, <1>15, <1>18, OthersKept

LEMMA HearsReset ==
  ASSUME Inductive, NEW t \in Transfers, ResetAnswered(t)
  PROVE  Inductive'
<1>1. Shape /\ Told /\ Local(t)
  BY DEF Inductive
<1>2. PICK p : p = Head(back[t])
  OBVIOUS
<1>3. /\ send[t].dc = "resetting" /\ back[t] # <<>>
      /\ back' = [back EXCEPT ![t] = Tail(@)]
      /\ IF p.is = "reset"
         THEN /\ send' = [send EXCEPT ![t].dc = "closed"]
              /\ sent' = sent \/ sent' = [sent EXCEPT ![t].at = "done"]
         ELSE UNCHANGED <<send, sent>>
      /\ UNCHANGED <<broken, chat, acks, data, buffer, low, sentSize, confirmed, recv, message>>
  BY <1>2 DEF ResetAnswered, SenderCloses, receiver
<1>4. /\ ~broken /\ p \in Piece /\ p = back[t][1]
      /\ p.from = confirmed[t] /\ p.from <= p.to /\ p.to <= Got(t)
      /\ Got(t) \in Nat /\ Got(t) <= Size[t]
      /\ Tail(back[t]) \in Seq(Piece) /\ Chain(Tail(back[t]), p.to, Got(t))
  BY <1>1, <1>2, <1>3, NextSize
<1>5. /\ back[t] \in Seq(Piece) /\ confirmed[t] \in Nat /\ Size[t] \in Nat
      /\ p.from \in Nat /\ p.to \in Nat
  BY <1>1, <1>4, Shapes DEF Piece
<1>6. /\ send[t].at = "sending" /\ sentSize[t] = Size[t] /\ confirmed[t] = Size[t] /\ buffer[t] = <<>>
      /\ message[t].at # "none"
  BY <1>1, <1>3 DEF Local, Asked, Buffered
<1>7. p.to = confirmed[t]
  BY <1>4, <1>5, <1>6
<1>8. /\ back' \in [Transfers -> Seq(Piece)] /\ back'[t] = Tail(back[t])
      /\ \A u \in Transfers \ {t} : back'[u] = back[u]
  BY <1>1, <1>3, <1>4 DEF Shape
<1>9. /\ Len(back[t]) \in Nat \ {0}
      /\ \A i \in 1..Len(back'[t]) : i + 1 \in 1..Len(back[t]) /\ back'[t][i] = back[t][i + 1]
  BY <1>3, <1>5, <1>8, TailItems
<1>10. send' = send \/ send' = [send EXCEPT ![t].dc = "closed"]
  BY <1>3
<1>11. p.is = "reset" => recv[t].dc = "closed" /\ data[t] = <<>>
  <2>1. 1 \in 1..Len(back[t])
    BY <1>9
  <2>2. QED
    BY <1>1, <1>4, <2>1 DEF Local, ClosedOnce
<1>12. /\ send' \in SendShape /\ send'[t].at = "sending"
       /\ send'[t].dc = "resetting" \/ (send'[t].dc = "closed" /\ p.is = "reset")
       /\ \A u \in Transfers \ {t} : send'[u] = send[u]
  <2>1. "none" \in {"none", "opening", "acking", "rejected", "sending"} /\ "closed" \in ChannelStates
    BY DEF ChannelStates
  <2>2. send \in SendShape
    BY <1>1 DEF Shape, SendShape
  <2>3. send' \in SendShape
    <3>1. [send EXCEPT ![t].dc = "closed"] \in SendShape
      BY <2>1, <2>2, SendGoes
    <3>2. QED
      BY <1>10, <2>2, <3>1, Zenon
  <2>4. send' = send \/ (send' = [send EXCEPT ![t].dc = "closed"] /\ p.is = "reset")
    BY <1>3
  <2>5. QED
    BY <1>3, <1>6, <2>2, <2>3, <2>4 DEF SendShape
<1>13. /\ sent' \in SentShape /\ sent'[t].acked = sent[t].acked
       /\ \A u \in Transfers \ {t} : sent'[u] = sent[u]
  <2>1. sent \in SentShape /\ "done" \in {"none", "loading", "done", "failed"}
    BY <1>1 DEF Shape, SentShape
  <2>2. sent' = sent \/ sent' = [sent EXCEPT ![t].at = "done"]
    BY <1>3
  <2>3. sent' \in SentShape
    BY <2>1, <2>2, SentShown
  <2>4. QED
    BY <2>1, <2>2, <2>3 DEF SentShape
<1>14. Shape'
  BY <1>1, <1>3, <1>8, <1>12, <1>13 DEF Shape, SendShape, SentShape
<1>15. Told'
  <2>1. \A u \in Transfers : send'[u].at = send[u].at
    BY <1>6, <1>12
  <2>2. QED
    BY <1>1, <1>3, <2>1, ToldKept
<1>16. Gone(t)' = Gone(t) /\ Got(t)' = Got(t) /\ BufferedAmount(t)' = BufferedAmount(t)
  BY <1>3 DEF Gone, Got, BufferedAmount
<1>17. Local(t)'
  <2>1. Pieces(t)'
    BY <1>1, <1>3, <1>9 DEF Local, Pieces, Chunks, Reset
  <2>2. Asked(t)'
    BY <1>1, <1>3, <1>6, <1>12, <1>13 DEF Local, Asked
  <2>3. Buffered(t)'
    BY <1>1, <1>3, <1>4, <1>6, <1>12, <1>16 DEF Local, Buffered
  <2>4. Carried(t)'
    BY <1>1, <1>3, <1>4, <1>7, <1>8, <1>16 DEF Local, Carried
  <2>5. ClosedOnce(t)'
    <3>1. \A i \in 1..Len(data'[t]) :
            data'[t][i].is = "reset" => i = Len(data'[t]) /\ send'[t].dc = "resetting"
      <4>1. CASE p.is = "reset"
        BY <1>3, <1>11, <4>1
      <4>2. CASE p.is # "reset"
        BY <1>1, <1>3, <1>12, <4>2 DEF Local, ClosedOnce
      <4>3. QED
        BY <4>1, <4>2
    <3>2. \A i \in 1..Len(back'[t]) : back'[t][i].is = "reset" => recv'[t].dc = "closed"
      BY <1>1, <1>3, <1>9 DEF Local, ClosedOnce
    <3>3. QED
      BY <1>1, <1>3, <1>12, <3>1, <3>2 DEF Local, ClosedOnce
  <2>6. QED
    BY <2>1, <2>2, <2>3, <2>4, <2>5 DEF Local
<1>18. QED
  BY <1>3, <1>8, <1>12, <1>13, <1>14, <1>15, <1>17, OthersKept

LEMMA Breaks ==
  ASSUME Inductive, Break
  PROVE  Inductive'
<1>1. Shape /\ Told
  BY DEF Inductive
<1>2. /\ ~broken /\ broken' = TRUE /\ chat' = <<>> /\ acks' = <<>>
      /\ data' = [t \in Transfers |-> <<>>] /\ back' = [t \in Transfers |-> <<>>]
      /\ UNCHANGED <<send, buffer, low, sentSize, confirmed, sent, recv, message>>
  BY DEF Break, sender, receiver
<1>3. Shape'
  <2>1. <<>> \in Seq(Piece) /\ <<>> \in Seq(Transfers)
    OBVIOUS
  <2>2. data' \in [Transfers -> Seq(Piece)] /\ back' \in [Transfers -> Seq(Piece)]
    BY <1>2, <2>1
  <2>3. broken' \in BOOLEAN
    BY <1>2, Zenon
  <2>4. QED
    BY <1>1, <1>2, <2>1, <2>2, <2>3 DEF Shape
<1>4. Told'
  BY <1>2 DEF Told
<1>5. ASSUME NEW t \in Transfers PROVE Local(t)'
  <2>1. Local(t) /\ data'[t] = <<>> /\ back'[t] = <<>>
    BY <1>2 DEF Inductive
  <2>2. Gone(t)' = Gone(t) /\ BufferedAmount(t)' = BufferedAmount(t)
    BY <1>2 DEF Gone, BufferedAmount
  <2>3. Pieces(t)'
    BY <1>2, <2>1 DEF Local, Pieces, Chunks, Reset
  <2>4. Asked(t)'
    BY <1>2, <2>1 DEF Local, Asked
  <2>5. Buffered(t)'
    BY <1>2, <2>1, <2>2 DEF Local, Buffered
  <2>6. Carried(t)'
    BY <1>2, <2>1 DEF Local, Carried
  <2>7. ClosedOnce(t)'
    BY <1>2, <2>1 DEF Local, ClosedOnce
  <2>8. QED
    BY <2>3, <2>4, <2>5, <2>6, <2>7 DEF Local
<1>6. QED
  BY <1>3, <1>4, <1>5 DEF Inductive

LEMMA SenderLearns ==
  ASSUME Inductive, NEW t \in Transfers, SenderLoses(t)
  PROVE  Inductive'
<1>1. Shape /\ Told /\ Local(t)
  BY DEF Inductive
<1>2. /\ broken /\ send' = [send EXCEPT ![t].dc = "closed"]
      /\ \E x \in {"failed", "done"} : sent' = sent \/ sent' = [sent EXCEPT ![t].at = x]
      /\ UNCHANGED <<broken, chat, acks, data, back, buffer, low, sentSize, confirmed, recv, message>>
  BY DEF SenderLoses, SenderCloses, receiver, wire
<1>3. /\ send' \in SendShape /\ send'[t].at = send[t].at /\ send'[t].dc = "closed"
      /\ \A u \in Transfers \ {t} : send'[u] = send[u]
  <2>1. "none" \in {"none", "opening", "acking", "rejected", "sending"} /\ "closed" \in ChannelStates
    BY DEF ChannelStates
  <2>2. send \in SendShape
    BY <1>1 DEF Shape, SendShape
  <2>3. send' \in SendShape
    BY <1>2, <2>1, <2>2, SendGoes
  <2>4. QED
    BY <1>2, <2>2, <2>3 DEF SendShape
<1>4. /\ sent' \in SentShape /\ sent'[t].acked = sent[t].acked
      /\ \A u \in Transfers \ {t} : sent'[u] = sent[u]
  <2>1. PICK x \in {"failed", "done"} : sent' = sent \/ sent' = [sent EXCEPT ![t].at = x]
    BY <1>2
  <2>2. sent \in SentShape /\ x \in {"none", "loading", "done", "failed"}
    BY <1>1 DEF Shape, SentShape
  <2>3. [sent EXCEPT ![t].at = x] \in SentShape
    BY <2>2, SentShown
  <2>4. sent' \in SentShape
    BY <2>1, <2>2, <2>3, Zenon
  <2>5. QED
    BY <2>1, <2>2, <2>4 DEF SentShape
<1>5. Shape'
  BY <1>1, <1>2, <1>3, <1>4 DEF Shape, SendShape, SentShape
<1>6. Told'
  <2>1. \A u \in Transfers : send'[u].at = send[u].at
    BY <1>3
  <2>2. QED
    BY <1>1, <1>2, <2>1, ToldKept
<1>7. BufferedAmount(t)' = BufferedAmount(t)
  BY <1>2 DEF BufferedAmount
<1>8. Local(t)'
  <2>1. Pieces(t)'
    BY <1>1, <1>2 DEF Local, Pieces, Chunks, Reset
  <2>2. Asked(t)'
    BY <1>1, <1>2, <1>3, <1>4 DEF Local, Asked
  <2>3. Buffered(t)'
    BY <1>1, <1>2, <1>3, <1>7 DEF Local, Buffered
  <2>4. Carried(t)'
    BY <1>1, <1>2 DEF Local, Carried
  <2>5. ClosedOnce(t)'
    BY <1>1, <1>2 DEF Local, ClosedOnce, Carried
  <2>6. QED
    BY <2>1, <2>2, <2>3, <2>4, <2>5 DEF Local
<1>9. QED
  BY <1>2, <1>3, <1>4, <1>5, <1>6, <1>8, OthersKept

LEMMA ReceiverLearns ==
  ASSUME Inductive, NEW t \in Transfers, ReceiverLoses(t)
  PROVE  Inductive'
<1>1. Shape /\ Told /\ Local(t)
  BY DEF Inductive
<1>2. /\ broken /\ recv' = [recv EXCEPT ![t] = [dc |-> "closed", bytes |-> 0]]
      /\ \E x \in {"failed", "done"} :
           message' = IF message[t].at = "loading"
                      THEN [message EXCEPT ![t] = [at |-> x, bytes |-> recv[t].bytes]] ELSE message
      /\ UNCHANGED <<broken, chat, acks, data, back, send, buffer, low, sentSize, confirmed, sent>>
  BY DEF ReceiverLoses, ReceiverCloses, sender, wire
<1>3. /\ recv' \in [Transfers -> [dc : {"none", "open", "closed"}, bytes : Nat]]
      /\ recv'[t] = [dc |-> "closed", bytes |-> 0]
      /\ \A u \in Transfers \ {t} : recv'[u] = recv[u]
  BY <1>1, <1>2 DEF Shape
<1>4. /\ message' \in [Transfers -> [at : {"none", "loading", "done", "failed"}, bytes : Nat]]
      /\ message'[t].at = "none" <=> message[t].at = "none"
      /\ \/ message'[t] = message[t] /\ message[t].at # "loading"
         \/ message'[t].at \in {"failed", "done"} /\ message'[t].bytes = recv[t].bytes
      /\ \A u \in Transfers \ {t} : message'[u] = message[u]
  <2>1. message \in [Transfers -> [at : {"none", "loading", "done", "failed"}, bytes : Nat]]
    BY <1>1 DEF Shape
  <2>2. recv[t].bytes \in Nat
    BY <1>1, Shapes
  <2>3. PICK x \in {"failed", "done"} :
          message' = IF message[t].at = "loading"
                     THEN [message EXCEPT ![t] = [at |-> x, bytes |-> recv[t].bytes]] ELSE message
    BY <1>2
  <2>4. QED
    BY <2>1, <2>2, <2>3
<1>5. Shape'
  BY <1>1, <1>2, <1>3, <1>4 DEF Shape
<1>6. Told'
  <2>1. \A u \in Transfers : message'[u].at = "none" <=> message[u].at = "none"
    BY <1>4
  <2>2. QED
    BY <1>1, <1>2, <2>1, ToldKept
<1>7. Gone(t)' = Gone(t) /\ BufferedAmount(t)' = BufferedAmount(t)
  BY <1>2 DEF Gone, BufferedAmount
<1>8. Local(t)'
  <2>1. Pieces(t)'
    BY <1>1, <1>2 DEF Local, Pieces, Chunks, Reset
  <2>2. Asked(t)'
    BY <1>1, <1>2, <1>4 DEF Local, Asked
  <2>3. Buffered(t)'
    BY <1>1, <1>2, <1>7 DEF Local, Buffered
  <2>4. Carried(t)'
    <3>1. sentSize[t] \in Nat
      BY <1>1, Shapes
    <3>2. QED
      BY <1>1, <1>2, <1>3, <3>1 DEF Local, Carried
  <2>5. ClosedOnce(t)'
    <3>1. recv[t].dc = "open"
      BY DEF ReceiverLoses
    <3>2. message[t].at # "none" => message'[t].at # "loading" /\ confirmed[t] <= message'[t].bytes
      BY <1>1, <1>4, <3>1, Shapes DEF Local, ClosedOnce, Carried
    <3>3. message'[t].bytes <= sentSize[t]
      BY <1>1, <1>4 DEF Local, ClosedOnce, Carried
    <3>4. QED
      BY <1>1, <1>2, <1>3, <1>4, <3>2, <3>3 DEF Local, ClosedOnce, Carried
  <2>6. QED
    BY <2>1, <2>2, <2>3, <2>4, <2>5 DEF Local
<1>9. QED
  BY <1>2, <1>3, <1>4, <1>5, <1>6, <1>8, OthersKept

------------------------------------------------------------------------------
(* The theorems.                                                           *)

LEMMA NextInductive == Inductive /\ [Next]_vars => Inductive'
<1> SUFFICES ASSUME Inductive, [Next]_vars PROVE Inductive'
  OBVIOUS
<1>1. ASSUME NEW t \in Transfers, Transmit(t) PROVE Inductive'
  BY <1>1, Transmits
<1>2. ASSUME NEW t \in Transfers, Step(t) PROVE Inductive'
  BY <1>2, Opens, TimesOut, FiresLow, Confirms, Announces, TakesChunk, Drains, SendsReset,
     TakesReset, HearsReset, SenderLearns, ReceiverLearns DEF Step
<1>3. CASE Receive \/ Acknowledged \/ Break
  BY <1>3, Receives, Acknowledges, Breaks
<1>4. CASE UNCHANGED vars
  <2>1. Shape'
    BY <1>4 DEF Inductive, Shape, vars
  <2>2. Told'
    BY <1>4 DEF Inductive, Told, vars
  <2>3. \A t \in Transfers : Local(t)'
    BY <1>4, OtherFile DEF Inductive, vars
  <2>4. QED
    BY <2>1, <2>2, <2>3 DEF Inductive
<1>5. QED
  BY <1>1, <1>2, <1>3, <1>4 DEF Next

\* The invariant that the others follow from: what is in the buffer, on its way
\* and on its way back is, piece after piece, what has been sent of the file and
\* not been confirmed (page.tsx:1182-1270).
THEOREM Invariance == Spec => []Inductive
BY InitInductive, NextInductive, PTL DEF Spec

\* Type correctness; the buffer of a channel is above its threshold by the byte
\* that brings bufferedamountlow at most, of any file and any segment
\* (page.tsx:1231-1265).
THEOREM TypeCorrect == Spec => []TypeOK
<1>1. Inductive => TypeOK
  <2> SUFFICES ASSUME Inductive PROVE TypeOK
    OBVIOUS
  <2>1. Shape
    BY DEF Inductive
  <2>2. ASSUME NEW t \in Transfers
        PROVE  /\ data[t] \in Seq(Chunks(t) \cup {Open, Reset(t)})
               /\ back[t] \in Seq(Chunks(t) \cup {Open, Reset(t)})
               /\ buffer[t] \in Seq(Chunks(t)) /\ BufferedAmount(t) <= Threshold + 1
               /\ sentSize[t] \in 0..Size[t]
               /\ confirmed[t] \in 0..Size[t]
    <3>1. Local(t) /\ Size[t] \in Nat /\ sentSize[t] \in Nat /\ confirmed[t] \in Nat
      BY <2>1, Shapes DEF Inductive
    <3>2. data[t] \in Seq(Piece) /\ back[t] \in Seq(Piece) /\ buffer[t] \in Seq(Piece)
      BY <2>1, Shapes
    <3>3. \A S, Q : \A s \in Seq(S) : (\A i \in 1..Len(s) : s[i] \in Q) => s \in Seq(Q)
      OBVIOUS
    <3>4. data[t] \in Seq(Chunks(t) \cup {Open, Reset(t)})
      BY <3>1, <3>2, <3>3 DEF Local, Pieces
    <3>5. back[t] \in Seq(Chunks(t) \cup {Open, Reset(t)})
      BY <3>1, <3>2, <3>3 DEF Local, Pieces
    <3>6. buffer[t] \in Seq(Chunks(t))
      BY <3>1, <3>2, <3>3 DEF Local, Pieces
    <3>7. BufferedAmount(t) <= Threshold + 1 /\ sentSize[t] \in 0..Size[t] /\ confirmed[t] \in 0..Size[t]
      BY <3>1 DEF Local, Buffered, Carried
    <3>8. QED
      BY <3>4, <3>5, <3>6, <3>7
  <2>3. QED
    BY <2>1, <2>2 DEF TypeOK, Shape
<1>2. QED
  BY <1>1, Invariance, PTL

\* A file arrives whole, with its message, unless the connection is lost, and then
\* with at least what was confirmed and no more than was sent, however many files
\* are sent at once and whatever overtakes what; and a transfer that was given up
\* sends nothing (page.tsx:633-681, 744-773, 1166-1180, 1213-1218, 1340-1347).
THEOREM FilesAlwaysArriveWhole == Spec => []FilesArriveWhole
<1>1. Inductive => FilesArriveWhole
  <2> SUFFICES ASSUME Inductive, NEW t \in Transfers, send[t].at = "rejected"
               PROVE  sentSize[t] = 0 /\ recv[t].bytes = 0
    BY DEF Inductive, Local, ClosedOnce, FilesArriveWhole
  <2>1. sentSize[t] = 0 /\ recv[t].bytes <= sentSize[t] /\ recv[t].bytes \in Nat
    BY Shapes DEF Inductive, Local, Asked, Carried
  <2>2. QED
    BY <2>1
<1>2. QED
  BY <1>1, Invariance, PTL

\* What the sender shows is true: a message marked as acknowledged is at the
\* receiver, and the bytes confirmed are bytes it has (page.tsx:546-572, 794-806,
\* 1212-1214).
THEOREM ProgressAlwaysHonest == Spec => []ProgressHonest
<1>1. Inductive => ProgressHonest
  BY DEF Inductive, Local, Asked, Carried, ProgressHonest
<1>2. QED
  BY <1>1, Invariance, PTL

==============================================================================
