-------------------------- MODULE AgentRunnerProofs --------------------------
(***************************************************************************)
(* The safety of the agent's runner, for any number of connections and     *)
(* messages and whatever happens to the connections.                       *)
(***************************************************************************)
EXTENDS AgentRunner, SequenceTheorems, TLAPS

\* What a connection says to the runner, or will: its loop or its reader ends.
Left(c) == loop[c] \in {"ending", "done"} \/ reader[c] \in {"closing", "done"}

\* The runner leaves a connection only when that is so.
Leaving ==
  \A c \in ConnIds :
    /\ errCh[c] = 1 => Left(c)
    /\ c < conns \/ (c = conns /\ runner # "serving") => Left(c)

\* The goroutines of a connection start when it is made.
Fresh == \A c \in ConnIds : c > conns => loop[c] = "none" /\ reader[c] = "none" /\ errCh[c] = 0

\* What has been read on c waits in three places; dataCh has room for one.
Waiting(c) ==
  /\ reader[c] = "handing" => item[c] # None
  /\ dataCh[c] # <<>> => dataCh[c] = <<dataCh[c][1]>>
  /\ item[c] <= count
  /\ dataCh[c] # <<>> => dataCh[c][1] <= count
  /\ forwarder[c] <= count

\* A message is ahead of those read after it.
Ahead(c) ==
  /\ forwarder[c] # None /\ dataCh[c] # <<>> => forwarder[c] < dataCh[c][1]
  /\ forwarder[c] # None /\ item[c] # None => forwarder[c] < item[c]
  /\ dataCh[c] # <<>> /\ item[c] # None => dataCh[c][1] < item[c]

\* So are those that the handler has had.
Handled(h) ==
  /\ h.n <= count
  /\ forwarder[h.conn] # None => h.n < forwarder[h.conn]
  /\ dataCh[h.conn] # <<>> => h.n < dataCh[h.conn][1]
  /\ item[h.conn] # None => h.n < item[h.conn]

Pipelines ==
  /\ \A c \in ConnIds : Waiting(c) /\ Ahead(c)
  /\ \A i \in 1..Len(handled) : Handled(handled[i])

IInv == TypeOK /\ Leaving /\ Fresh /\ Pipelines /\ HandledInOrder

------------------------------------------------------------------------------

LEMMA InitInv == Init => IInv
<1> SUFFICES ASSUME Init PROVE IInv
  OBVIOUS
<1> USE MaxConnsAssumption, MaxMessagesAssumption, OptionsAssumption DEF Init
<1>1. TypeOK
  BY DEF TypeOK, None
<1>2. Leaving /\ Fresh
  BY DEF Leaving, Fresh, ConnIds
<1>3. Pipelines /\ HandledInOrder
  BY DEF Pipelines, Waiting, Ahead, HandledInOrder, None
<1>4. QED
  BY <1>1, <1>2, <1>3 DEF IInv

\* The variables that the messages pass.
pipes == <<item, dataCh, forwarder, handled, count>>

\* Steps that leave the messages alone.
LEMMA PipelinesStay ==
  ASSUME IInv, UNCHANGED pipes, \A c \in ConnIds : reader'[c] = "handing" => reader[c] = "handing"
  PROVE  Pipelines' /\ HandledInOrder'
BY DEF IInv, pipes, Pipelines, Waiting, Ahead, Handled, HandledInOrder

Had == [conn : ConnIds, n : 1..MaxMessages]

LEMMA HandledTyped ==
  ASSUME TypeOK, NEW i \in 1..Len(handled)
  PROVE  handled[i] \in Had
BY ElementOfSeq DEF TypeOK, Had

\* dataCh has room for one message.
LEMMA OneInChannel ==
  ASSUME TypeOK, NEW c \in ConnIds, dataCh[c] # <<>>
  PROVE  /\ dataCh[c][1] \in 1..MaxMessages
         /\ Waiting(c) => \E m \in 1..MaxMessages : dataCh[c] = <<m>>
<1>1. dataCh[c] \in Seq(1..MaxMessages)
  BY DEF TypeOK
<1>2. 1 \in 1..Len(dataCh[c])
  <2>1. Len(dataCh[c]) \in Nat \ {0}
    BY <1>1, EmptySeq
  <2>2. QED
    BY <2>1
<1>3. dataCh[c][1] \in 1..MaxMessages
  BY <1>1, <1>2, ElementOfSeq
<1>4. QED
  BY <1>3 DEF Waiting

\* Steps of the messages that the handler does not take.
LEMMA HandledStays ==
  ASSUME IInv, UNCHANGED handled, \A c \in ConnIds : Waiting(c)' /\ Ahead(c)',
         ASSUME NEW h \in Had, Handled(h) PROVE Handled(h)'
  PROVE  Pipelines' /\ HandledInOrder'
<1>1. ASSUME NEW i \in 1..Len(handled) PROVE Handled(handled[i])'
  BY HandledTyped DEF IInv, Pipelines, Handled
<1>2. QED
  BY <1>1 DEF IInv, Pipelines, HandledInOrder

\* The runner and the network.
LEMMA RunnerInv ==
  ASSUME IInv, NEW c \in ConnIds, UNCHANGED reconnect,
         DialFails \/ Delay \/ Dial(c) \/ GetError(c) \/ Break(c) \/ CallbackSends
  PROVE  IInv'
<1>t. TypeOK /\ conns \in Nat /\ ConnIds \subseteq Nat
  BY MaxConnsAssumption DEF IInv, TypeOK, ConnIds
<1>1. TypeOK'
  <2>1. CASE Dial(c)
    <3>1. c \in 0..MaxConns
      BY MaxConnsAssumption DEF ConnIds
    <3>2. QED
      BY <1>t, <2>1, <3>1 DEF TypeOK, Dial
  <2>2. CASE GetError(c)
    BY <1>t, <2>2 DEF TypeOK, GetError, Disconnected
  <2>3. CASE Break(c)
    BY <1>t, <2>3, BreaksAssumption, SMTT(30) DEF TypeOK, Break
  <2>4. CASE DialFails \/ Delay \/ CallbackSends
    BY <1>t, <2>4 DEF TypeOK, DialFails, Delay, CallbackSends, Disconnected, Senders
  <2>5. QED
    BY <2>1, <2>2, <2>3, <2>4
<1>2. Leaving' /\ Fresh'
  <2>1. CASE Dial(c)
    BY <1>t, <2>1 DEF IInv, TypeOK, Leaving, Fresh, Left, Dial
  <2>2. CASE GetError(c)
    BY <1>t, <2>2 DEF IInv, TypeOK, Leaving, Fresh, Left, GetError, Disconnected
  <2>3. CASE DialFails \/ Delay \/ Break(c) \/ CallbackSends
    BY <1>t, <2>3 DEF IInv, Leaving, Fresh, Left, DialFails, Delay, Break, CallbackSends,
       Disconnected
  <2>4. QED
    BY <2>1, <2>2, <2>3
<1>3. Pipelines' /\ HandledInOrder'
  BY <1>t, PipelinesStay DEF TypeOK, pipes, DialFails, Delay, Dial, GetError, Break, CallbackSends
<1>4. QED
  BY <1>1, <1>2, <1>3 DEF IInv

\* The loop of a connection.
LEMMA LoopInv ==
  ASSUME IInv, NEW c \in ConnIds, UNCHANGED reconnect,
         LoopStep(c) \/ \E s \in Senders : TakeTx(c, s)
  PROVE  IInv'
<1>t. TypeOK /\ conns \in Nat /\ ConnIds \subseteq Nat
  BY MaxConnsAssumption DEF IInv, TypeOK, ConnIds
<1> USE DEF LoopStep, PingFails, LoopReports, ReaderGone, LoopEnds, LoopGoes, TakeTx
<1>1. TypeOK'
  BY <1>t DEF TypeOK
<1>2. \A d \in ConnIds \ {c} : loop'[d] = loop[d] /\ errCh'[d] = errCh[d]
  BY <1>t DEF TypeOK
<1>3. /\ Left(c) => Left(c)'
      /\ errCh'[c] = errCh[c] \/ (errCh'[c] = 1 /\ Left(c)')
      /\ loop[c] # "none"
  BY <1>t DEF TypeOK, Left
<1>4. Leaving' /\ Fresh'
  BY <1>t, <1>2, <1>3 DEF IInv, Leaving, Fresh, Left
<1>5. Pipelines' /\ HandledInOrder'
  BY <1>t, PipelinesStay DEF pipes
<1>6. QED
  BY <1>1, <1>4, <1>5 DEF IInv

\* The reader.
LEMMA ReaderInv ==
  ASSUME IInv, NEW c \in ConnIds, UNCHANGED reconnect, ReaderStep(c)
  PROVE  IInv'
<1>t. TypeOK /\ conns \in Nat /\ ConnIds \subseteq Nat /\ count \in Nat
  BY MaxConnsAssumption, MaxMessagesAssumption DEF IInv, TypeOK, ConnIds
<1>l. Leaving' /\ Fresh'
  <2> USE DEF ReaderStep, Read, Hand, ReadFails, ReaderReports, ReaderCloses
  <2>1. \A d \in ConnIds \ {c} : reader'[d] = reader[d] /\ errCh'[d] = errCh[d]
    BY <1>t DEF TypeOK
  <2>2. /\ Left(c) => Left(c)'
        /\ errCh'[c] = errCh[c] \/ (errCh'[c] = 1 /\ Left(c)')
        /\ reader[c] # "none"
    BY <1>t DEF TypeOK, Left
  <2>3. loop' = loop /\ conns' = conns /\ runner' = runner
    OBVIOUS
  <2>4. QED
    BY <1>t, <2>1, <2>2, <2>3 DEF IInv, Leaving, Fresh, Left
<1>d. \A d \in ConnIds : dataCh[d] # <<>> => dataCh[d][1] \in Nat
  BY <1>t, OneInChannel, MaxMessagesAssumption
<1>1. CASE Read(c)
  <2>1. TypeOK'
    BY <1>t, <1>1, MaxMessagesAssumption, SMTT(30) DEF TypeOK, Read
  <2>2. ASSUME NEW d \in ConnIds PROVE Waiting(d)' /\ Ahead(d)'
    <3>1. Waiting(d) /\ Ahead(d)
      BY DEF IInv, Pipelines
    <3>2. /\ item[d] \in Nat /\ forwarder[d] \in Nat
          /\ item'[d] \in {item[d], count + 1} /\ (item'[d] # item[d] => d = c)
          /\ d = c => item'[d] = count + 1
          /\ d # c => reader'[d] = reader[d]
      BY <1>t, <1>1, MaxMessagesAssumption DEF TypeOK, Read
    <3>3. dataCh' = dataCh /\ forwarder' = forwarder /\ count' = count + 1
      BY <1>1 DEF Read
    <3>4. Waiting(d)'
      <4>1. (dataCh[d] # <<>> => dataCh[d] = <<dataCh[d][1]>>)'
        BY <3>1, <3>3 DEF Waiting
      <4>2. (dataCh[d] # <<>> => dataCh[d][1] <= count)'
        <5>1. dataCh[d] # <<>> => dataCh[d][1] <= count
          BY <3>1 DEF Waiting
        <5>2. dataCh[d] # <<>> => dataCh[d][1] \in Nat
          BY <1>d
        <5>3. dataCh[d] # <<>> => dataCh[d][1] <= count + 1
          BY <1>t, <5>1, <5>2
        <5>4. QED
          BY <3>3, <5>3
      <4>3. (/\ reader[d] = "handing" => item[d] # None
             /\ item[d] <= count /\ forwarder[d] <= count)'
        BY <1>t, <3>1, <3>2, <3>3 DEF Waiting, None
      <4>4. QED
        BY <4>1, <4>2, <4>3 DEF Waiting
    <3>5. Ahead(d)'
      BY <1>t, <1>d, <3>1, <3>2, <3>3 DEF Waiting, Ahead, None
    <3>6. QED
      BY <3>4, <3>5
  <2>3. ASSUME NEW h \in Had, Handled(h) PROVE Handled(h)'
    <3>1. h.conn \in ConnIds /\ h.n \in Nat
      BY MaxMessagesAssumption DEF Had
    <3>2. count' = count + 1 /\ item' = [item EXCEPT ![c] = count + 1]
          /\ dataCh' = dataCh /\ forwarder' = forwarder
      BY <1>1 DEF Read
    <3>3. QED
      BY <1>t, <2>3, <3>1, <3>2 DEF TypeOK, Handled, None
  <2>4. UNCHANGED handled
    BY <1>1 DEF Read
  <2>5. Pipelines' /\ HandledInOrder'
    BY <2>2, <2>3, <2>4, HandledStays
  <2>6. QED
    BY <1>l, <2>1, <2>5 DEF IInv
<1>2. CASE Hand(c)
  <2>1. item[c] \in 1..MaxMessages
    BY <1>t, <1>2, MaxMessagesAssumption DEF IInv, TypeOK, Hand, Pipelines, Waiting, None
  <2>2. <<item[c]>> \in Seq(1..MaxMessages)
    BY <2>1
  <2>3. TypeOK'
    BY <1>t, <1>2, <2>2, MaxMessagesAssumption DEF TypeOK, Hand, None
  <2>4. dataCh'[c] = <<item[c]>> /\ <<item[c]>>[1] = item[c] /\ item'[c] = None
    BY <1>t, <1>2 DEF TypeOK, Hand
  <2>5. \A d \in ConnIds : Waiting(d)'
    BY <1>t, <1>2, <2>4 DEF IInv, TypeOK, Hand, Pipelines, Waiting, None
  <2>6. \A d \in ConnIds : Ahead(d)'
    BY <1>t, <1>2, <2>1, <2>4 DEF IInv, TypeOK, Hand, Pipelines, Ahead, None
  <2>7. ASSUME NEW h \in Had, Handled(h) PROVE Handled(h)'
    <3>1. h.conn \in ConnIds /\ h.n \in Nat
      BY MaxMessagesAssumption DEF Had
    <3>2. \A d \in ConnIds \ {c} : dataCh'[d] = dataCh[d] /\ item'[d] = item[d]
      BY <1>t, <1>2 DEF TypeOK, Hand
    <3>3. count' = count /\ forwarder' = forwarder /\ item[c] # None
      BY <1>2, <2>1 DEF Hand, None
    <3>4. QED
      BY <2>4, <2>7, <3>1, <3>2, <3>3 DEF Handled
  <2>8. UNCHANGED handled
    BY <1>2 DEF Hand
  <2>9. Pipelines' /\ HandledInOrder'
    BY <2>5, <2>6, <2>7, <2>8, HandledStays
  <2>10. QED
    BY <1>l, <2>3, <2>9 DEF IInv
<1>3. CASE ReadFails(c) \/ ReaderReports(c) \/ ReaderCloses(c)
  <2>1. TypeOK'
    BY <1>t, <1>3 DEF TypeOK, ReadFails, ReaderReports, ReaderCloses
  <2>2. Pipelines' /\ HandledInOrder'
    BY <1>t, <1>3, PipelinesStay DEF TypeOK, pipes, ReadFails, ReaderReports, ReaderCloses
  <2>3. QED
    BY <1>l, <2>1, <2>2 DEF IInv
<1>4. QED
  BY <1>1, <1>2, <1>3 DEF ReaderStep

\* The forwarder and the handler.
LEMMA ForwarderInv ==
  ASSUME IInv, NEW c \in ConnIds, UNCHANGED reconnect, ForwarderStep(c)
  PROVE  IInv'
<1>t. TypeOK /\ conns \in Nat /\ ConnIds \subseteq Nat /\ count \in Nat
  BY MaxConnsAssumption, MaxMessagesAssumption DEF IInv, TypeOK, ConnIds
<1>l. Leaving' /\ Fresh'
  BY DEF IInv, Leaving, Fresh, Left, ForwarderStep, Forward, Receive, ReceiveClosed
<1>1. CASE Forward(c)
  <2>1. PICK m \in 1..MaxMessages : dataCh[c] = <<m>>
    BY <1>t, <1>1, OneInChannel DEF IInv, Forward, Pipelines
  <2>2. dataCh[c] = <<m>> /\ Head(dataCh[c]) = m /\ Tail(dataCh[c]) = <<>> /\ dataCh[c][1] = m
    BY <2>1
  <2>3. dataCh'[c] = <<>> /\ forwarder'[c] = m /\ forwarder[c] = None
    BY <1>t, <1>1, <2>2 DEF TypeOK, Forward
  <2>4. TypeOK'
    BY <1>t, <1>1, <2>2, <2>3, MaxMessagesAssumption, SMTT(30) DEF TypeOK, Forward
  <2>5. \A d \in ConnIds : Waiting(d)' /\ Ahead(d)'
    BY <1>t, <1>1, <2>2, <2>3 DEF IInv, TypeOK, Forward, Pipelines, Waiting, Ahead
  <2>6. ASSUME NEW h \in Had, Handled(h) PROVE Handled(h)'
    <3>1. /\ h.conn \in ConnIds
          /\ \A d \in ConnIds \ {c} : dataCh'[d] = dataCh[d] /\ forwarder'[d] = forwarder[d]
      BY <1>t, <1>1 DEF TypeOK, Forward, Had
    <3>2. UNCHANGED <<item, count>>
      BY <1>1 DEF Forward
    <3>3. QED
      BY <2>2, <2>3, <2>6, <3>1, <3>2 DEF Handled
  <2>7. UNCHANGED handled
    BY <1>1 DEF Forward
  <2>8. Pipelines' /\ HandledInOrder'
    BY <2>5, <2>6, <2>7, HandledStays
  <2>9. QED
    BY <1>l, <2>4, <2>8 DEF IInv
<1>2. CASE Receive(c)
  <2>1. PICK h \in Had : h = [conn |-> c, n |-> forwarder[c]]
    BY <1>t, <1>2, MaxMessagesAssumption DEF TypeOK, Receive, None, Had
  <2>2. PICK k \in Nat : k = Len(handled)
    BY <1>t DEF TypeOK
  <2>3. handled \in Seq(Had) /\ handled' = Append(handled, h)
    BY <1>t, <1>2, <2>1 DEF TypeOK, Receive, Had
  <2>4. /\ handled' \in Seq(Had) /\ Len(handled') = k + 1 /\ handled'[k + 1] = h
        /\ \A i \in 1..k : handled'[i] = handled[i]
    BY <2>2, <2>3, AppendProperties
  <2>5. forwarder' = [forwarder EXCEPT ![c] = None] /\ UNCHANGED <<item, dataCh, reader, count>>
    BY <1>2 DEF Receive
  <2>6. TypeOK'
    <3>1. sending' \subseteq Senders /\ None \in 0..MaxMessages
      BY <1>t, <1>2, MaxMessagesAssumption DEF TypeOK, Receive, Senders, None
    <3>2. QED
      BY <1>t, <1>2, <2>4, <2>5, <3>1 DEF TypeOK, Receive, Had
  <2>7. \A d \in ConnIds : Waiting(d)' /\ Ahead(d)'
    BY <1>t, <2>5 DEF IInv, TypeOK, Pipelines, Waiting, Ahead, None
  <2>8. ASSUME NEW g \in Had, Handled(g) PROVE Handled(g)'
    <3>1. g.conn \in ConnIds /\ forwarder'[c] = None
          /\ \A d \in ConnIds \ {c} : forwarder'[d] = forwarder[d]
      BY <1>t, <2>5 DEF TypeOK, Had
    <3>2. QED
      BY <2>5, <2>8, <3>1 DEF Handled
  <2>9. Handled(h)'
    <3>1. h.conn = c /\ h.n = forwarder[c] /\ forwarder'[c] = None /\ forwarder[c] # None
      BY <1>t, <1>2, <2>1, <2>5 DEF TypeOK, Receive
    <3>2. QED
      BY <2>5, <3>1 DEF IInv, Pipelines, Waiting, Ahead, Handled
  <2>10. Pipelines'
    <3>1. ASSUME NEW i \in 1..k + 1 PROVE Handled(handled[i])'
      <4>1. PICK g : g = handled'[i]
        OBVIOUS
      <4>2. CASE i = k + 1
        BY <2>4, <2>9, <4>2 DEF Handled
      <4>3. CASE i \in 1..k
        <5>1. g \in Had /\ Handled(g)
          BY <1>t, <2>2, <2>4, <4>1, <4>3, HandledTyped DEF IInv, Pipelines
        <5>2. QED
          BY <2>8, <4>1, <5>1 DEF Handled
      <4>4. QED
        BY <2>2, <4>2, <4>3
    <3>2. QED
      BY <2>4, <2>7, <3>1 DEF Pipelines
  <2>11. ASSUME NEW i \in 1..k, handled[i].conn = c PROVE handled[i].n < forwarder[c]
    BY <1>2, <2>2, <2>11 DEF IInv, Pipelines, Handled, Receive
  <2>12. HandledInOrder'
    <3>1. \A i, j \in 1..k : i < j /\ handled'[i].conn = handled'[j].conn
                                => handled'[i].n < handled'[j].n
      BY <2>2, <2>4 DEF IInv, HandledInOrder
    <3>2. \A i \in 1..k : handled'[i].conn = h.conn => handled'[i].n < h.n
      BY <2>1, <2>4, <2>11
    <3>3. QED
      BY <2>4, <3>1, <3>2 DEF HandledInOrder
  <2>13. QED
    BY <1>l, <2>6, <2>10, <2>12 DEF IInv
<1>3. CASE ReceiveClosed(c)
  <2>1. TypeOK'
    BY <1>t, <1>3 DEF TypeOK, ReceiveClosed
  <2>2. Pipelines' /\ HandledInOrder'
    BY <1>3, PipelinesStay DEF pipes, ReceiveClosed
  <2>3. QED
    BY <1>l, <2>1, <2>2 DEF IInv
<1>4. QED
  BY <1>1, <1>2, <1>3 DEF ForwarderStep

\* Every step keeps the invariant.
LEMMA NextInv == IInv /\ [Next]_vars => IInv'
<1> SUFFICES ASSUME IInv, [Next]_vars PROVE IInv'
  OBVIOUS
<1>1. CASE Next
  <2>1. CASE CallbackSends \/ DialFails \/ Delay
    <3>1. CASE ConnIds # {}
      BY <1>1, <2>1, <3>1, RunnerInv DEF Next
    <3>2. CASE ConnIds = {}
      <4> DEFINE others == <<conns, sock, loop, reader, item, dataCh, errCh, forwarder, handled,
                             count, crashed, reconnect>>
      <4>1. UNCHANGED others /\ TypeOK
        BY <1>1, <2>1 DEF Next, CallbackSends, DialFails, Delay, IInv
      <4>2. runner' \in {"dialing", "serving", "delaying", "ended"} /\ sending' \subseteq Senders
        BY <2>1, <4>1 DEF TypeOK, CallbackSends, DialFails, Delay, Disconnected, Senders
      <4>3. TypeOK'
        BY <4>1, <4>2 DEF TypeOK
      <4>4. Leaving' /\ Fresh'
        BY <3>2 DEF Leaving, Fresh
      <4>5. Pipelines' /\ HandledInOrder'
        BY <3>2, <4>1, PipelinesStay DEF pipes
      <4>6. QED
        BY <4>3, <4>4, <4>5 DEF IInv
    <3>3. QED
      BY <3>1, <3>2
  <2>2. QED
    BY <1>1, <2>1, RunnerInv, LoopInv, ReaderInv, ForwarderInv DEF Next, RunnerStep
<1>2. CASE UNCHANGED vars
  BY <1>2 DEF vars, IInv, TypeOK, Leaving, Left, Fresh, Pipelines, Waiting, Ahead, Handled,
     HandledInOrder
<1>3. QED
  BY <1>1, <1>2

\* The invariant holds in every behaviour.
THEOREM Invariance == Spec => []IInv
BY InitInv, NextInv, PTL DEF Spec

\* The runner's state keeps its types: no channel ever holds more than it has
\* room for.
THEOREM TypeCorrect == Spec => []TypeOK
<1>1. IInv => TypeOK
  BY DEF IInv
<1>2. QED
  BY <1>1, Invariance, PTL

\* The loop of a connection that the runner has left can only be taking messages
\* of the handler if its reader has given up, and tells it to end.
THEOREM StaleLoopsEnd == Spec => []StaleLoopsEnding
<1>1. IInv => StaleLoopsEnding
  BY DEF IInv, Leaving, Left, StaleLoopsEnding
<1>2. QED
  BY <1>1, Invariance, PTL

\* The handler sees the messages of each connection in the order in which they
\* were read, though goroutines of several connections hand them over.
THEOREM MessagesInOrder == Spec => []HandledInOrder
<1>1. IInv => HandledInOrder
  BY DEF IInv
<1>2. QED
  BY <1>1, Invariance, PTL
==============================================================================
