---------------------------- MODULE TracksProofs ----------------------------
(***************************************************************************)
(* The safety of the tracks, for any number of consumers, any files and    *)
(* any sizes of the buffers.                                               *)
(***************************************************************************)
EXTENDS Tracks, SequenceTheorems, FiniteSetTheorems, TLAPS

Pkt == [stream : StreamIds, n : Nat]

StreamState ==
  [handle : Handles, at : {"none", "filling", "running", "waiting", "ended"}, stop : BOOLEAN,
   n : Nat, todo : SUBSET Consumers]

\* The types, without the bounds on packets and streams.
Types ==
  /\ streams \in Nat
  /\ stream \in [StreamIds -> StreamState]
  /\ stopChan \in [Handles -> Nat]
  /\ mu \in Consumers \cup {NoConsumer} /\ source \in BOOLEAN /\ downstreams \subseteq Consumers
  /\ consumer \in [Consumers -> {"new", "binding", "failing", "bound", "closing", "unbinding", "gone"}]
  /\ writer \in [Consumers -> {"none", "running", "stopping", "ended"}]
  /\ got \in [Consumers -> Seq(Pkt)]
  /\ buffer \in [Consumers -> Seq(Pkt)]

LEMMA Ids == StreamIds \subseteq Nat \ {0} /\ None = 0
BY DEF StreamIds, None

------------------------------------------------------------------------------
(* Types.                                                                  *)

LEMMA InitTypes == Init => Types
<1>1. NoStream \in StreamState
  BY DEF NoStream, StreamState, Handles
<1>2. <<>> \in Seq(Pkt)
  BY EmptySeq
<1>3. ASSUME Init PROVE stream \in [StreamIds -> StreamState] /\ stopChan \in [Handles -> Nat]
  <2>1. None \in Nat
    BY DEF None
  <2>2. QED
    BY <1>1, <1>3, <2>1 DEF Init
<1>4. ASSUME Init PROVE got \in [Consumers -> Seq(Pkt)] /\ buffer \in [Consumers -> Seq(Pkt)]
  BY <1>2, <1>4 DEF Init
<1>5. ASSUME Init PROVE source \in BOOLEAN /\ streams \in Nat
  BY <1>5 DEF Init
<1>6. ASSUME Init
      PROVE  /\ mu \in Consumers \cup {NoConsumer} /\ downstreams \subseteq Consumers
             /\ consumer \in [Consumers -> {"new", "binding", "failing", "bound", "closing",
                                           "unbinding", "gone"}]
             /\ writer \in [Consumers -> {"none", "running", "stopping", "ended"}]
  BY <1>6 DEF Init
<1>7. QED
  BY <1>3, <1>4, <1>5, <1>6 DEF Types

\* Steps of the consumers leave the packets alone, ...
LEMMA ConsumerTypes ==
  ASSUME Types, NEW c \in Consumers,
         WriterEnds(c) \/ BindStores(c) \/ BindFails(c) \/ BindFailed(c) \/ BindNext(c)
         \/ UnbindCloses(c) \/ UnbindDeletes(c)
  PROVE  Types'
BY DEF Types, Goes, handleVars, dupVars, writerVars, WriterEnds, BindStores, BindFails, BindFailed,
   BindNext, UnbindCloses, UnbindDeletes

\* ... but they may start a stream, or tell it to stop.
LEMMA HandleTypes ==
  ASSUME Types, NEW h \in Handles, BindHandle(h) \/ UnbindHandle(h)
  PROVE  streams' \in Nat /\ stream' \in [StreamIds -> StreamState] /\ stopChan' \in [Handles -> Nat]
<1>t. /\ streams \in Nat /\ stream \in [StreamIds -> StreamState]
      /\ stopChan \in [Handles -> Nat] /\ None \in Nat
  BY DEF Types, None
<1>1. CASE BindHandle(h)
  <2> DEFINE r == [NoStream EXCEPT !.handle = h, !.at = "filling"]
  <2>1. r \in StreamState
    BY DEF NoStream, StreamState
  <2>2. /\ streams' = streams + 1 /\ stopChan' = [stopChan EXCEPT ![h] = streams']
        /\ stream' = [stream EXCEPT ![streams'] = r]
    BY <1>1 DEF BindHandle
  <2>3. QED
    <3> HIDE DEF r
    <3>1. streams' \in Nat
      BY <1>t, <2>2
    <3>2. stopChan' \in [Handles -> Nat]
      BY <1>t, <2>2, <3>1
    <3>3. stream' \in [StreamIds -> StreamState]
      BY <1>t, <2>1, <2>2
    <3>4. QED
      BY <3>1, <3>2, <3>3
<1>2. CASE UnbindHandle(h)
  <2> DEFINE r == [stream[stopChan[h]] EXCEPT !.stop = TRUE]
  <2>1. stopChan[h] \in StreamIds => r \in StreamState
    BY <1>t DEF StreamState
  <2>2. /\ stream' = [stream EXCEPT ![stopChan[h]] = r]
        /\ stopChan' = [stopChan EXCEPT ![h] = None] /\ streams' = streams
    BY <1>2 DEF UnbindHandle
  <2>3. stream' \in [StreamIds -> StreamState]
    <3> HIDE DEF r
    <3> QED
      BY <1>t, <2>1, <2>2
  <2>4. QED
    BY <1>t, <2>2, <2>3
<1>3. QED
  BY <1>1, <1>2

\* Steps of a stream.
LEMMA StreamTypes ==
  ASSUME Types, NEW s \in StreamIds, StreamStep(s)
  PROVE  Types'
<1>1. stream[s] \in StreamState /\ stream[s].n + 1 \in Nat
  BY DEF Types, StreamState
<1>2. ASSUME Sends(s) PROVE stream' \in [StreamIds -> StreamState]
  <2> DEFINE at == IF stream[s].n + 1 >= Prefill THEN "running" ELSE "filling"
             todo == IF stream[s].handle = "source" THEN downstreams ELSE {}
             r == [stream[s] EXCEPT !.n = @ + 1, !.at = at, !.todo = todo]
  <2>1. at \in {"filling", "running"} /\ todo \in SUBSET Consumers
    BY DEF Types
  <2>2. r \in StreamState
    <3> HIDE DEF at, todo
    <3> QED
      BY <1>1, <2>1 DEF StreamState
  <2>3. stream' = [stream EXCEPT ![s] = r]
    BY <1>2 DEF Sends
  <2>4. QED
    <3> HIDE DEF r
    <3>1. stream \in [StreamIds -> StreamState]
      BY DEF Types
    <3>2. QED
      BY <2>2, <2>3, <3>1
<1>3. CASE GetFromWave(s)
  BY <1>2, <1>3 DEF Types, GetFromWave, dupVars, writerVars
<1>4. CASE GetPage(s)
  <2>1. [stream EXCEPT ![s].at = "waiting"] \in [StreamIds -> StreamState]
    BY <1>1 DEF Types, StreamState
  <2>2. stream' \in [StreamIds -> StreamState]
    BY <1>2, <1>4, <2>1 DEF GetPage
  <2>3. QED
    BY <1>4, <2>2 DEF Types, GetPage, dupVars, writerVars
<1>5. CASE GetEOF(s) \/ StreamStops(s)
  <2>1. stream' = [stream EXCEPT ![s].at = "ended"]
    BY <1>5 DEF GetEOF, StreamStops
  <2>2. stream' \in [StreamIds -> StreamState]
    BY <1>1, <2>1 DEF Types, StreamState
  <2>3. QED
    BY <1>5, <2>2 DEF Types, GetEOF, StreamStops, dupVars, writerVars
<1>6. ASSUME NEW c \in Consumers, Forward(s, c) PROVE Types'
  <2>1. stream' \in [StreamIds -> StreamState]
    BY <1>1, <1>6 DEF Types, Forward, StreamState
  <2>2. Packet(s) \in Pkt
    BY <1>1 DEF Packet, Pkt, StreamState
  <2>3. Append(buffer[c], Packet(s)) \in Seq(Pkt)
    BY <2>2, AppendProperties DEF Types
  <2>4. buffer' \in [Consumers -> Seq(Pkt)]
    BY <1>6, <2>3 DEF Types, Forward
  <2>5. QED
    BY <1>6, <2>1, <2>4 DEF Types, Forward, dupVars
<1>7. QED
  BY <1>3, <1>4, <1>5, <1>6 DEF StreamStep

\* A writer takes the packet at the head of the buffer.
LEMMA WriteTypes ==
  ASSUME Types, NEW c \in Consumers, Write(c)
  PROVE  Types'
<1>1. got[c] \in Seq(Pkt) /\ buffer[c] \in Seq(Pkt) /\ buffer[c] # <<>>
  BY DEF Types, Write
<1>2. Head(buffer[c]) \in Pkt /\ Tail(buffer[c]) \in Seq(Pkt)
  BY <1>1, HeadTailProperties
<1>3. Append(got[c], Head(buffer[c])) \in Seq(Pkt)
  BY <1>1, <1>2, AppendProperties
<1>4. QED
  BY <1>2, <1>3 DEF Types, Write, handleVars, dupVars

\* All steps.
LEMMA NextTypes == Types /\ [Next]_vars => Types'
<1> SUFFICES ASSUME Types, [Next]_vars PROVE Types'
  OBVIOUS
<1>h. "source" \in Handles /\ "direct" \in Handles
  BY DEF Handles
<1>1. CASE BindDirect \/ UnbindDirect
  BY <1>1, <1>h, HandleTypes DEF BindDirect, UnbindDirect, Types, dupVars, writerVars
<1>2. ASSUME NEW c \in Consumers, BindFirst(c) PROVE Types'
  BY <1>2, <1>h, HandleTypes DEF BindFirst, Types, Goes, writerVars
<1>3. ASSUME NEW c \in Consumers, UnbindLast(c) PROVE Types'
  <2>1. streams' \in Nat /\ stream' \in [StreamIds -> StreamState] /\ stopChan' \in [Handles -> Nat]
        /\ source' \in BOOLEAN
    BY <1>3, <1>h, HandleTypes DEF UnbindLast, Types, handleVars
  <2>2. QED
    BY <1>3, <2>1 DEF UnbindLast, Types, Goes, writerVars
<1>4. CASE UNCHANGED vars
  BY <1>4 DEF vars, Types
<1>5. QED
  BY <1>1, <1>2, <1>3, <1>4, ConsumerTypes, StreamTypes, WriteTypes
     DEF Next, WriterStep, BindStep, UnbindStep

------------------------------------------------------------------------------
(* The upstream.                                                           *)

\* Where each call stands, its consumer's writer and place in the map agree.
ConsumerControl(c) ==
  /\ consumer[c] = "new" => writer[c] = "none" /\ c \notin downstreams
  /\ consumer[c] \in {"binding", "bound"} => writer[c] = "running" /\ c \in downstreams
  /\ consumer[c] \in {"failing", "closing"} => writer[c] \in {"stopping", "ended"} /\ c \in downstreams
  /\ consumer[c] \in {"unbinding", "gone"} => writer[c] = "ended" /\ c \notin downstreams
  /\ consumer[c] = "failing" => mu = c
  /\ consumer[c] = "bound" => source

\* Whoever has the mutex found no source; the source is the handle's stream, and
\* there is a call to come that will look whether it is the last.
Control ==
  /\ \A c \in Consumers : ConsumerControl(c)
  /\ mu # NoConsumer => ~source
  /\ source <=> stopChan["source"] # None
  /\ source => \E c \in Consumers : consumer[c] \in {"binding", "bound", "closing", "unbinding"}

LEMMA InitControl == Init => Control
<1> SUFFICES ASSUME Init PROVE Control
  OBVIOUS
<1>1. stopChan["source"] = None /\ ~source /\ mu = NoConsumer
  BY DEF Init, Handles
<1>2. \A c \in Consumers : ConsumerControl(c)
  BY DEF Init, ConsumerControl
<1>3. QED
  BY <1>1, <1>2 DEF Control

\* Steps that end no call that may be the last.
LEMMA CallControl ==
  ASSUME Types, Control, NEW c \in Consumers,
         WriterEnds(c) \/ BindStores(c) \/ BindFails(c) \/ BindFailed(c) \/ BindNext(c)
         \/ UnbindCloses(c) \/ UnbindDeletes(c)
  PROVE  Control'
<1>1. \A d \in Consumers : ConsumerControl(d)'
  <2> SUFFICES ASSUME NEW d \in Consumers PROVE ConsumerControl(d)'
    OBVIOUS
  <2>1. CASE WriterEnds(c)
    BY <2>1, ConsumersAssumption
       DEF Types, Control, ConsumerControl, Goes, handleVars, dupVars, writerVars, WriterEnds
  <2>2. CASE BindStores(c)
    BY <2>2, ConsumersAssumption
       DEF Types, Control, ConsumerControl, Goes, handleVars, dupVars, writerVars, BindStores
  <2>3. CASE BindFails(c)
    BY <2>3, ConsumersAssumption
       DEF Types, Control, ConsumerControl, Goes, handleVars, dupVars, writerVars, BindFails
  <2>4. CASE BindFailed(c)
    BY <2>4, ConsumersAssumption
       DEF Types, Control, ConsumerControl, Goes, handleVars, dupVars, writerVars, BindFailed
  <2>5. CASE BindNext(c)
    BY <2>5, ConsumersAssumption
       DEF Types, Control, ConsumerControl, Goes, handleVars, dupVars, writerVars, BindNext
  <2>6. CASE UnbindCloses(c)
    BY <2>6, ConsumersAssumption
       DEF Types, Control, ConsumerControl, Goes, handleVars, dupVars, writerVars, UnbindCloses
  <2>7. CASE UnbindDeletes(c)
    BY <2>7, ConsumersAssumption
       DEF Types, Control, ConsumerControl, Goes, handleVars, dupVars, writerVars, UnbindDeletes
  <2>8. QED
    BY <2>1, <2>2, <2>3, <2>4, <2>5, <2>6, <2>7
<1>2. /\ source' = source /\ stopChan' = stopChan
      /\ mu' # NoConsumer => ~source'
  BY DEF Control, handleVars, dupVars, WriterEnds, BindStores, BindFails, BindFailed, BindNext,
     UnbindCloses, UnbindDeletes
<1>3. ASSUME source
      PROVE  \E d \in Consumers : consumer'[d] \in {"binding", "bound", "closing", "unbinding"}
  <2>1. PICK d \in Consumers : consumer[d] \in {"binding", "bound", "closing", "unbinding"}
    BY <1>3 DEF Control
  <2>2. consumer'[d] \in {"binding", "bound", "closing", "unbinding"}
    BY <1>3, <2>1 DEF Types, Control, ConsumerControl, Goes, handleVars, dupVars, WriterEnds,
       BindStores, BindFails, BindFailed, BindNext, UnbindCloses, UnbindDeletes
  <2>3. QED
    BY <2>2
<1>4. QED
  BY <1>1, <1>2, <1>3 DEF Control

LEMMA BindFirstControl ==
  ASSUME Types, Control, NEW c \in Consumers, BindFirst(c)
  PROVE  Control'
<1>1. stopChan'["source"] # None
  BY DEF Types, BindFirst, BindHandle, Handles, None
<1>2. consumer' = [consumer EXCEPT ![c] = "bound"] /\ source' /\ mu' = mu /\ mu = NoConsumer
  BY DEF BindFirst, Goes
<1>3. \A d \in Consumers : ConsumerControl(d)'
  BY <1>2 DEF Types, Control, ConsumerControl, BindFirst, Goes, writerVars
<1>4. consumer'[c] = "bound"
  BY <1>2 DEF Types
<1>5. QED
  BY <1>1, <1>2, <1>3, <1>4 DEF Control

\* The last to leave the map finds no consumer that is bound; another finds one
\* that will leave after it.
LEMMA UnbindLastControl ==
  ASSUME Types, Control, NEW c \in Consumers, UnbindLast(c)
  PROVE  Control'
<1>1. /\ consumer[c] = "unbinding" /\ consumer' = [consumer EXCEPT ![c] = "gone"]
      /\ mu' = NoConsumer /\ mu = NoConsumer /\ downstreams' = downstreams /\ writer' = writer
  BY DEF UnbindLast, Goes, writerVars
<1>2. CASE downstreams = {} /\ source
  <2>1. ~source' /\ stopChan'["source"] = None
    BY <1>2 DEF UnbindLast, UnbindHandle, Types, Handles
  <2>2. \A d \in Consumers : ConsumerControl(d)'
    BY <1>1, <1>2, <2>1 DEF Types, Control, ConsumerControl
  <2>3. QED
    BY <1>1, <2>1, <2>2 DEF Control
<1>3. CASE ~(downstreams = {} /\ source)
  <2>1. source' = source /\ stopChan' = stopChan
    BY <1>3 DEF UnbindLast, handleVars
  <2>2. \A d \in Consumers : ConsumerControl(d)'
    BY <1>1, <2>1 DEF Types, Control, ConsumerControl
  <2>3. ASSUME source
        PROVE  \E d \in Consumers : consumer'[d] \in {"binding", "bound", "closing", "unbinding"}
    <3>1. PICK d \in downstreams : TRUE
      BY <1>3, <2>3
    <3>2. d \in Consumers /\ d # c
      BY <1>1 DEF Types, Control, ConsumerControl
    <3>3. consumer[d] \in {"binding", "bound", "closing"}
      BY <1>1, <3>1, <3>2, ConsumersAssumption DEF Types, Control, ConsumerControl
    <3>4. consumer'[d] = consumer[d]
      BY <1>1, <3>2 DEF Types
    <3>5. QED
      BY <3>2, <3>3, <3>4
  <2>4. QED
    BY <1>1, <2>1, <2>2, <2>3 DEF Control
<1>4. QED
  BY <1>2, <1>3

LEMMA NextControl == Types /\ Control /\ [Next]_vars => Control'
<1> SUFFICES ASSUME Types, Control, [Next]_vars PROVE Control'
  OBVIOUS
<1>1. CASE /\ UNCHANGED <<mu, source, downstreams, consumer, writer>>
           /\ stopChan'["source"] = stopChan["source"]
  BY <1>1 DEF Control, ConsumerControl
<1>2. CASE BindDirect \/ UnbindDirect
  <2>1. stopChan'["source"] = stopChan["source"]
    BY <1>2 DEF BindDirect, UnbindDirect, BindHandle, UnbindHandle, Types, Handles
  <2>2. QED
    BY <1>1, <1>2, <2>1 DEF BindDirect, UnbindDirect, dupVars, writerVars
<1>3. ASSUME NEW s \in StreamIds, StreamStep(s) PROVE Control'
  BY <1>1, <1>3 DEF StreamStep, GetFromWave, GetPage, GetEOF, StreamStops, Forward, dupVars, writerVars
<1>4. ASSUME NEW c \in Consumers, Write(c) PROVE Control'
  BY <1>1, <1>4 DEF Write, handleVars, dupVars
<1>5. CASE UNCHANGED vars
  BY <1>1, <1>5 DEF vars
<1>6. QED
  BY <1>2, <1>3, <1>4, <1>5, CallControl, BindFirstControl, UnbindLastControl
     DEF Next, WriterStep, BindStep, UnbindStep

------------------------------------------------------------------------------
(* Streams that still run.                                                 *)

LEMMA InitOneStream == Init => OneStream
BY DEF Init, OneStream, NoStream

LEMMA HandleOneStream ==
  ASSUME Types, OneStream, NEW h \in Handles, BindHandle(h) \/ UnbindHandle(h)
  PROVE  OneStream'
<1> SUFFICES ASSUME NEW s \in StreamIds, stream'[s].at # "none", ~stream'[s].stop
             PROVE  stopChan'[stream'[s].handle] = s
  BY DEF OneStream
<1>t. /\ stream \in [StreamIds -> StreamState] /\ stopChan \in [Handles -> Nat]
      /\ stream[s].handle \in Handles /\ s # None
  BY Ids DEF Types, StreamState
<1>1. CASE BindHandle(h)
  <2>1. stopChan[h] = None /\ stopChan'[h] = streams' /\ stopChan' = [stopChan EXCEPT ![h] = streams']
    BY <1>t, <1>1 DEF BindHandle
  <2>2. CASE s = streams'
    <3>1. stream'[s].handle = h
      BY <1>t, <1>1, <2>2 DEF BindHandle, NoStream
    <3>2. QED
      BY <2>1, <2>2, <3>1
  <2>3. CASE s # streams'
    <3>1. stream'[s] = stream[s]
      BY <1>t, <1>1, <2>3 DEF BindHandle
    <3>2. stopChan[stream[s].handle] = s
      BY <3>1 DEF OneStream
    <3>3. QED
      BY <1>t, <2>1, <3>1, <3>2
  <2>4. QED
    BY <2>2, <2>3
<1>2. CASE UnbindHandle(h)
  <2>1. s # stopChan[h]
    BY <1>t, <1>2 DEF UnbindHandle, StreamState
  <2>2. stream'[s] = stream[s]
    BY <1>t, <1>2, <2>1 DEF UnbindHandle
  <2>3. stopChan[stream[s].handle] = s
    BY <2>2 DEF OneStream
  <2>4. QED
    BY <1>t, <1>2, <2>1, <2>2, <2>3 DEF UnbindHandle
<1>3. QED
  BY <1>1, <1>2

LEMMA StreamOneStream ==
  ASSUME Types, OneStream, NEW s \in StreamIds, StreamStep(s)
  PROVE  OneStream'
<1>1. /\ stream' \in [StreamIds -> StreamState]
      /\ \A r \in StreamIds \ {s} : stream'[r] = stream[r]
      /\ stream'[s].handle = stream[s].handle /\ stream'[s].stop = stream[s].stop
      /\ stopChan' = stopChan
  <2>t. stream \in [StreamIds -> StreamState] /\ stream[s] \in StreamState
    BY DEF Types
  <2>1. stream' \in [StreamIds -> StreamState]
    BY StreamTypes DEF Types
  <2>2. stopChan' = stopChan
    BY DEF StreamStep, GetFromWave, GetPage, GetEOF, StreamStops, Forward
  <2>3. ASSUME Sends(s)
        PROVE  /\ \A r \in StreamIds \ {s} : stream'[r] = stream[r]
               /\ stream'[s].handle = stream[s].handle /\ stream'[s].stop = stream[s].stop
    BY <2>t, <2>3 DEF Sends, StreamState
  <2>4. CASE ~Sends(s)
    BY <2>t, <2>4 DEF StreamStep, GetFromWave, GetPage, GetEOF, StreamStops, Forward, StreamState
  <2>5. QED
    BY <2>1, <2>2, <2>3, <2>4
<1>2. stream'[s].at # "none" => stream[s].at # "none" \/ \E c \in Consumers : Forward(s, c)
  BY DEF StreamStep, GetFromWave, GetPage, GetEOF, StreamStops, Ready
<1>3. ASSUME NEW c \in Consumers, Forward(s, c) PROVE stream'[s].at = stream[s].at
  BY <1>3 DEF Forward, Types, StreamState
<1>4. QED
  BY <1>1, <1>2, <1>3 DEF OneStream

LEMMA NextOneStream == Types /\ OneStream /\ [Next]_vars => OneStream'
<1> SUFFICES ASSUME Types, OneStream, [Next]_vars PROVE OneStream'
  OBVIOUS
<1>h. "source" \in Handles /\ "direct" \in Handles
  BY DEF Handles
<1>1. CASE UNCHANGED handleVars
  BY <1>1 DEF handleVars, OneStream
<1>2. CASE BindDirect \/ UnbindDirect
  BY <1>2, <1>h, HandleOneStream DEF BindDirect, UnbindDirect
<1>3. ASSUME NEW c \in Consumers, BindFirst(c) PROVE OneStream'
  BY <1>3, <1>h, HandleOneStream DEF BindFirst
<1>4. ASSUME NEW c \in Consumers, UnbindLast(c) PROVE OneStream'
  BY <1>1, <1>4, <1>h, HandleOneStream DEF UnbindLast, handleVars
<1>5. CASE UNCHANGED vars
  BY <1>1, <1>5 DEF vars, handleVars
<1>6. ASSUME NEW c \in Consumers,
             WriterStep(c) \/ BindStores(c) \/ BindFails(c) \/ BindFailed(c) \/ BindNext(c)
             \/ UnbindCloses(c) \/ UnbindDeletes(c)
      PROVE  OneStream'
  BY <1>1, <1>6 DEF WriterStep, Write, WriterEnds, BindStores, BindFails, BindFailed, BindNext,
     UnbindCloses, UnbindDeletes
<1>7. QED
  BY <1>2, <1>3, <1>4, <1>5, <1>6, StreamOneStream DEF Next, BindStep, UnbindStep

------------------------------------------------------------------------------
(* The order of the packets.                                               *)

Before(p, q) == p.stream = q.stream => p.n < q.n

\* A packet is not newer than its stream, and older if the stream has one to
\* forward to the consumer.
Behind(p, c) ==
  /\ p.stream <= streams /\ p.n <= stream[p.stream].n
  /\ c \in stream[p.stream].todo => p.n < stream[p.stream].n

\* What is written comes before what is buffered, and both are in order.
ConsumerOrder(c) ==
  /\ \A i, j \in 1..Len(got[c]) : i < j => Before(got[c][i], got[c][j])
  /\ \A i, j \in 1..Len(buffer[c]) : i < j => Before(buffer[c][i], buffer[c][j])
  /\ \A i \in 1..Len(got[c]), j \in 1..Len(buffer[c]) : Before(got[c][i], buffer[c][j])
  /\ \A i \in 1..Len(got[c]) : Behind(got[c][i], c)
  /\ \A i \in 1..Len(buffer[c]) : Behind(buffer[c][i], c)

Order ==
  /\ \A s \in StreamIds : s > streams => stream[s].at = "none" /\ stream[s].todo = {}
  /\ \A c \in Consumers : ConsumerOrder(c)

LEMMA InitOrder == Init => Order
<1> SUFFICES ASSUME Init PROVE Order
  OBVIOUS
<1>1. \A s \in StreamIds : stream[s].at = "none" /\ stream[s].todo = {}
  BY DEF Init, NoStream
<1>2. ASSUME NEW c \in Consumers PROVE Len(got[c]) = 0 /\ Len(buffer[c]) = 0
  BY DEF Init
<1>3. QED
  BY <1>1, <1>2 DEF Order, ConsumerOrder

\* The order holds on if the packets stay, and the streams stay ahead of them.
LEMMA OrderKept ==
  ASSUME Types, Order, Types', UNCHANGED <<got, buffer>>,
         \A p \in Pkt, c \in Consumers : Behind(p, c) => Behind(p, c)',
         \A s \in StreamIds : s > streams' => stream'[s].at = "none" /\ stream'[s].todo = {}
  PROVE  Order'
<1> SUFFICES ASSUME NEW c \in Consumers PROVE ConsumerOrder(c)'
  BY DEF Order
<1>1. got[c] \in Seq(Pkt) /\ buffer[c] \in Seq(Pkt) /\ ConsumerOrder(c)
  BY DEF Types, Order
<1>2. \A i \in 1..Len(got[c]) : got[c][i] \in Pkt
  BY <1>1, ElementOfSeq
<1>3. \A i \in 1..Len(buffer[c]) : buffer[c][i] \in Pkt
  BY <1>1, ElementOfSeq
<1>4. QED
  BY <1>1, <1>2, <1>3 DEF ConsumerOrder, Before

\* A new stream has sent nothing; one that is told to stop keeps its count.
LEMMA HandleOrder ==
  ASSUME Types, Order, Types', UNCHANGED <<got, buffer>>,
         NEW h \in Handles, BindHandle(h) \/ UnbindHandle(h)
  PROVE  Order'
<1>t. /\ streams \in Nat /\ stream \in [StreamIds -> StreamState]
      /\ stopChan[h] \in Nat /\ StreamIds \subseteq Nat
  BY Ids DEF Types
<1>1. CASE BindHandle(h)
  <2>1. streams' = streams + 1 /\ \A s \in StreamIds : s # streams' => stream'[s] = stream[s]
    BY <1>t, <1>1 DEF BindHandle
  <2>2. \A p \in Pkt, c \in Consumers : Behind(p, c) => Behind(p, c)'
    <3> SUFFICES ASSUME NEW p \in Pkt, NEW c \in Consumers, Behind(p, c) PROVE Behind(p, c)'
      OBVIOUS
    <3>1. p.stream \in StreamIds /\ p.stream \in Nat /\ p.stream <= streams
      BY <1>t DEF Pkt, Behind
    <3>2. p.stream # streams' /\ p.stream <= streams'
      BY <1>t, <2>1, <3>1
    <3>3. QED
      BY <2>1, <3>1, <3>2 DEF Behind
  <2>3. \A s \in StreamIds : s > streams' => stream'[s].at = "none" /\ stream'[s].todo = {}
    <3>1. \A s \in StreamIds : s > streams => stream[s].at = "none" /\ stream[s].todo = {}
      BY DEF Order
    <3>2. \A s \in StreamIds : s > streams' => s > streams /\ s # streams'
      BY <1>t, <2>1
    <3>3. QED
      BY <2>1, <3>1, <3>2
  <2>4. QED
    BY <2>2, <2>3, OrderKept
<1>2. CASE UnbindHandle(h)
  <2>1. /\ streams' = streams
        /\ \A s \in StreamIds : /\ stream'[s].n = stream[s].n /\ stream'[s].at = stream[s].at
                                /\ stream'[s].todo = stream[s].todo
    BY <1>t, <1>2 DEF UnbindHandle, StreamState
  <2>2. \A p \in Pkt, c \in Consumers : Behind(p, c) => Behind(p, c)'
    BY <2>1 DEF Behind, Pkt
  <2>3. \A s \in StreamIds : s > streams' => stream'[s].at = "none" /\ stream'[s].todo = {}
    BY <2>1 DEF Order
  <2>4. QED
    BY <2>2, <2>3, OrderKept
<1>3. QED
  BY <1>1, <1>2

\* A stream that sends has none left to forward, and counts on.
LEMMA SendsOrder ==
  ASSUME Types, Order, Types', UNCHANGED <<got, buffer, streams>>, NEW s \in StreamIds,
         Ready(s), Sends(s) \/ (\E at \in {"waiting", "ended"} : stream' = [stream EXCEPT ![s].at = at])
  PROVE  Order'
<1>1. /\ stream \in [StreamIds -> StreamState] /\ stream[s] \in StreamState
      /\ streams \in Nat /\ StreamIds \subseteq Nat
  BY Ids DEF Types
<1>2. /\ \A r \in StreamIds \ {s} : stream'[r] = stream[r]
      /\ stream[s].todo = {} /\ stream[s].at # "none"
      /\ stream'[s].n = stream[s].n + 1 \/ (stream'[s].n = stream[s].n /\ stream'[s].todo = {})
  <2>1. CASE Sends(s)
    BY <1>1, <2>1 DEF Sends, Ready, StreamState
  <2>2. CASE \E at \in {"waiting", "ended"} : stream' = [stream EXCEPT ![s].at = at]
    BY <1>1, <2>2 DEF Ready, StreamState
  <2>3. QED
    BY <2>1, <2>2
<1>3. stream[s].n \in Nat /\ s <= streams
  BY <1>1, <1>2 DEF Order, StreamState
<1>4. \A p \in Pkt, c \in Consumers : Behind(p, c) => Behind(p, c)'
  BY <1>1, <1>2, <1>3 DEF Behind, Pkt
<1>5. \A r \in StreamIds : r > streams' => stream'[r].at = "none" /\ stream'[r].todo = {}
  BY <1>1, <1>2, <1>3 DEF Order
<1>6. QED
  BY <1>4, <1>5, OrderKept

\* A packet that is forwarded is newer than those of its stream in the buffer.
LEMMA ForwardOrder ==
  ASSUME Types, Order, Types', NEW s \in StreamIds, NEW c \in Consumers, Forward(s, c)
  PROVE  Order'
<1>1. /\ stream \in [StreamIds -> StreamState] /\ stream[s] \in StreamState /\ stream[s].n \in Nat
      /\ streams \in Nat /\ streams' = streams /\ StreamIds \subseteq Nat /\ s \in Nat /\ got' = got
  BY Ids DEF Types, StreamState, Forward
<1>2. /\ c \in stream[s].todo
      /\ \A r \in StreamIds : stream'[r].n = stream[r].n /\ stream'[r].at = stream[r].at
      /\ \A r \in StreamIds \ {s} : stream'[r].todo = stream[r].todo
      /\ stream'[s].todo = stream[s].todo \ {c}
  BY <1>1 DEF Forward, StreamState
<1>3. \A p \in Pkt, d \in Consumers : Behind(p, d) => Behind(p, d)'
  BY <1>1, <1>2 DEF Behind, Pkt
<1>4. \A r \in StreamIds : r > streams' => stream'[r].at = "none" /\ stream'[r].todo = {}
  BY <1>1, <1>2 DEF Order
<1>5. CASE buffer' = buffer
  BY <1>1, <1>3, <1>4, <1>5, OrderKept
<1>6. CASE buffer' = [buffer EXCEPT ![c] = Append(@, Packet(s))]
  <2> SUFFICES ASSUME NEW d \in Consumers PROVE ConsumerOrder(d)'
    BY <1>4 DEF Order
  <2>1. /\ got[d] \in Seq(Pkt) /\ buffer[d] \in Seq(Pkt) /\ ConsumerOrder(d)
        /\ buffer[c] \in Seq(Pkt) /\ ConsumerOrder(c)
    BY DEF Types, Order
  <2>2. (\A i \in 1..Len(got[d]) : got[d][i] \in Pkt) /\ \A i \in 1..Len(buffer[d]) : buffer[d][i] \in Pkt
    BY <2>1, ElementOfSeq
  <2>3. CASE d # c
    <3>1. buffer'[d] = buffer[d]
      BY <1>6, <2>3 DEF Types
    <3>2. QED
      BY <1>1, <1>3, <2>1, <2>2, <3>1 DEF ConsumerOrder, Before
  <2>4. CASE d = c
    <3> DEFINE NowBehind(q) ==
                 /\ q.stream <= streams' /\ q.n <= stream'[q.stream].n
                 /\ c \in stream'[q.stream].todo => q.n < stream'[q.stream].n
    <3>1. Packet(s) \in Pkt /\ Packet(s).stream = s /\ Packet(s).n = stream[s].n
      BY <1>1 DEF Packet, Pkt
    <3>2. PICK p \in Pkt : p = Packet(s) /\ p.stream = s /\ p.n = stream[s].n
      BY <3>1
    <3>3. buffer'[c] = Append(buffer[c], p)
      BY <1>6, <3>2 DEF Types
    <3>4. /\ Len(buffer'[c]) = Len(buffer[c]) + 1 /\ Len(buffer[c]) \in Nat
          /\ buffer'[c][Len(buffer[c]) + 1] = p
          /\ \A i \in 1..Len(buffer[c]) : buffer'[c][i] = buffer[c][i]
      BY <2>1, <3>2, <3>3, AppendProperties, LenProperties
    <3>5. NowBehind(p)
      BY <1>1, <1>2, <3>2 DEF Order
    <3>6. \A q \in Pkt : Behind(q, c) => Before(q, p) /\ NowBehind(q)
      BY <1>1, <1>2, <1>3, <3>2 DEF Behind, Before
    <3> HIDE DEF NowBehind
    <3>7. \A i \in 1..Len(got[c]) : Before(got[c][i], p) /\ NowBehind(got[c][i])
      BY <2>1, <2>2, <2>4, <3>6 DEF ConsumerOrder
    <3>8. \A i \in 1..Len(buffer[c]) : Before(buffer[c][i], p) /\ NowBehind(buffer[c][i])
      BY <2>1, <2>2, <2>4, <3>6 DEF ConsumerOrder
    <3>9. \A i \in 1..Len(buffer'[c]) : i \in 1..Len(buffer[c]) \/ i = Len(buffer[c]) + 1
      BY <3>4
    <3>10. \A i \in 1..Len(buffer'[c]) : NowBehind(buffer'[c][i])
      BY <3>4, <3>5, <3>8, <3>9
    <3>11. \A i, j \in 1..Len(buffer'[c]) : i < j => Before(buffer'[c][i], buffer'[c][j])
      <4> SUFFICES ASSUME NEW i \in 1..Len(buffer'[c]), NEW j \in 1..Len(buffer'[c]), i < j
                   PROVE  Before(buffer[c][i], buffer'[c][j])
        BY <3>4, <3>9
      <4>1. i \in 1..Len(buffer[c])
        BY <3>4, <3>9
      <4>2. QED
        BY <2>1, <3>4, <3>8, <3>9, <4>1 DEF ConsumerOrder
    <3>12. \A i \in 1..Len(got[c]), j \in 1..Len(buffer'[c]) : Before(got[c][i], buffer'[c][j])
      BY <2>1, <3>4, <3>7, <3>9 DEF ConsumerOrder
    <3>13. \A i, j \in 1..Len(got'[c]) : i < j => Before(got'[c][i], got'[c][j])
      BY <1>1, <2>1 DEF ConsumerOrder
    <3>14. (\A i, j \in 1..Len(got[c]) : i < j => Before(got[c][i], got[c][j]))'
      BY <3>13 DEF Before
    <3>15. (\A i, j \in 1..Len(buffer[c]) : i < j => Before(buffer[c][i], buffer[c][j]))'
      BY <3>11 DEF Before
    <3>16. (\A i \in 1..Len(got[c]), j \in 1..Len(buffer[c]) : Before(got[c][i], buffer[c][j]))'
      BY <1>1, <3>12 DEF Before
    <3>17. (\A i \in 1..Len(got[c]) : Behind(got[c][i], c))'
      BY <1>1, <3>7 DEF Behind, NowBehind
    <3>18. (\A i \in 1..Len(buffer[c]) : Behind(buffer[c][i], c))'
      BY <3>10 DEF Behind, NowBehind
    <3>19. QED
      BY <2>4, <3>14, <3>15, <3>16, <3>17, <3>18 DEF ConsumerOrder
  <2>5. QED
    BY <2>3, <2>4
<1>7. QED
  BY <1>5, <1>6 DEF Forward

\* The writer moves the first packet of the buffer to the end of what is written.
LEMMA WriteOrder ==
  ASSUME Types, Order, Types', NEW c \in Consumers, Write(c)
  PROVE  Order'
<1>1. UNCHANGED <<streams, stream>>
  BY DEF Write, handleVars
<1> SUFFICES ASSUME NEW d \in Consumers PROVE ConsumerOrder(d)'
  BY <1>1 DEF Order
<1>2. /\ got[d] \in Seq(Pkt) /\ buffer[d] \in Seq(Pkt) /\ ConsumerOrder(d)
  BY DEF Types, Order
<1>3. \A p : Behind(p, d) => Behind(p, d)'
  BY <1>1 DEF Behind
<1>4. CASE d # c
  <2>1. got'[d] = got[d] /\ buffer'[d] = buffer[d]
    BY <1>4 DEF Types, Write
  <2>2. QED
    BY <1>2, <1>3, <2>1 DEF ConsumerOrder, Before
<1>5. CASE d = c
  <2>1. /\ buffer[c] # <<>> /\ got'[c] = Append(got[c], Head(buffer[c])) /\ buffer'[c] = Tail(buffer[c])
    BY DEF Types, Write
  <2>2. /\ Head(buffer[c]) = buffer[c][1] /\ Len(buffer[c]) \in Nat \ {0} /\ buffer[c][1] \in Pkt
        /\ Len(buffer'[c]) = Len(buffer[c]) - 1
        /\ \A i \in 1..Len(buffer'[c]) : buffer'[c][i] = buffer[c][i + 1]
    BY <1>2, <1>5, <2>1, HeadTailProperties, EmptySeq, LenProperties
  <2>3. /\ Len(got[c]) \in Nat /\ Len(got'[c]) = Len(got[c]) + 1
        /\ got'[c][Len(got[c]) + 1] = buffer[c][1]
        /\ \A i \in 1..Len(got[c]) : got'[c][i] = got[c][i]
    BY <1>2, <1>5, <2>1, <2>2, AppendProperties, LenProperties
  <2>4. \A i \in 1..Len(got'[c]) : i \in 1..Len(got[c]) \/ i = Len(got[c]) + 1
    BY <2>3
  <2>5. \A i \in 1..Len(buffer'[c]) : i + 1 \in 1..Len(buffer[c]) /\ 1 < i + 1
    BY <2>2
  <2>6. 1 \in 1..Len(buffer[c])
    BY <2>2
  <2>7. \A i, j \in 1..Len(got'[c]) : i < j => Before(got'[c][i], got'[c][j])
    BY <1>2, <1>5, <2>3, <2>4, <2>6 DEF ConsumerOrder
  <2>8. \A i, j \in 1..Len(buffer'[c]) : i < j => Before(buffer'[c][i], buffer'[c][j])
    BY <1>2, <1>5, <2>2, <2>5 DEF ConsumerOrder
  <2>9. \A i \in 1..Len(got'[c]), j \in 1..Len(buffer'[c]) : Before(got'[c][i], buffer'[c][j])
    <3> SUFFICES ASSUME NEW i \in 1..Len(got'[c]), NEW j \in 1..Len(buffer'[c])
                 PROVE  Before(got'[c][i], buffer[c][j + 1])
      BY <2>2
    <3>1. CASE i \in 1..Len(got[c])
      BY <1>2, <1>5, <2>3, <2>5, <3>1 DEF ConsumerOrder
    <3>2. CASE i = Len(got[c]) + 1
      BY <1>2, <1>5, <2>3, <2>5, <2>6, <3>2 DEF ConsumerOrder
    <3>3. QED
      BY <2>4, <3>1, <3>2
  <2>10. /\ \A i \in 1..Len(got'[c]) : Behind(got'[c][i], c)
         /\ \A i \in 1..Len(buffer'[c]) : Behind(buffer'[c][i], c)
    BY <1>2, <1>5, <2>2, <2>3, <2>4, <2>5, <2>6 DEF ConsumerOrder
  <2>11. QED
    BY <1>1, <1>5, <2>7, <2>8, <2>9, <2>10 DEF ConsumerOrder, Before, Behind
<1>6. QED
  BY <1>4, <1>5

LEMMA StreamOrder ==
  ASSUME Types, Order, Types', NEW s \in StreamIds, StreamStep(s)
  PROVE  Order'
<1>1. CASE GetFromWave(s)
  BY <1>1, SendsOrder DEF GetFromWave, writerVars
<1>2. CASE GetPage(s)
  BY <1>2, SendsOrder DEF GetPage, writerVars
<1>3. CASE GetEOF(s)
  BY <1>3, SendsOrder DEF GetEOF, writerVars
<1>4. CASE StreamStops(s)
  BY <1>4, SendsOrder DEF StreamStops, writerVars
<1>5. QED
  BY <1>1, <1>2, <1>3, <1>4, ForwardOrder DEF StreamStep

LEMMA NextOrder == Types /\ Order /\ [Next]_vars => Order'
<1> SUFFICES ASSUME Types, Order, [Next]_vars PROVE Order'
  OBVIOUS
<1>t. Types'
  BY NextTypes
<1>h. "source" \in Handles /\ "direct" \in Handles
  BY DEF Handles
<1>1. CASE UNCHANGED <<streams, stream, got, buffer>>
  BY <1>1 DEF Order, ConsumerOrder, Behind, Before
<1>2. CASE BindDirect \/ UnbindDirect
  BY <1>2, <1>t, <1>h, HandleOrder DEF BindDirect, UnbindDirect, writerVars
<1>3. ASSUME NEW c \in Consumers, BindFirst(c) PROVE Order'
  BY <1>3, <1>t, <1>h, HandleOrder DEF BindFirst, writerVars
<1>4. ASSUME NEW c \in Consumers, UnbindLast(c) PROVE Order'
  BY <1>1, <1>4, <1>t, <1>h, HandleOrder DEF UnbindLast, handleVars, writerVars
<1>5. ASSUME NEW c \in Consumers,
             WriterEnds(c) \/ BindStores(c) \/ BindFails(c) \/ BindFailed(c) \/ BindNext(c)
             \/ UnbindCloses(c) \/ UnbindDeletes(c)
      PROVE  Order'
  BY <1>1, <1>5 DEF WriterEnds, BindStores, BindFails, BindFailed, BindNext, UnbindCloses,
     UnbindDeletes, handleVars, writerVars
<1>6. CASE UNCHANGED vars
  BY <1>1, <1>6 DEF vars
<1>7. QED
  BY <1>2, <1>3, <1>4, <1>5, <1>6, <1>t, StreamOrder, WriteOrder
     DEF Next, WriterStep, BindStep, UnbindStep

------------------------------------------------------------------------------
(* Bounds.                                                                 *)

\* The consumers that may have bound the upstream.
Started == {c \in Consumers : consumer[c] \in {"bound", "closing", "unbinding", "gone"}}

DirectBound == \E s \in StreamIds : stream[s].at # "none" /\ stream[s].handle = "direct"

\* Each consumer starts one stream at the most, and so does the other handle.
StreamBounds ==
  /\ streams <= Cardinality(Started) + (IF DirectBound THEN 1 ELSE 0)
  /\ stopChan \in [Handles -> {None} \cup StreamIds]

\* The packets of a file are its pages; what is to be forwarded has been counted.
PacketBounds ==
  /\ file \in Files \cup {Wave}
  /\ gen \in [pos : Nat, done : BOOLEAN, lock : StreamIds \cup {None}]
  /\ file # Wave => gen.pos <= Len(file)
  /\ \A s \in StreamIds : /\ stream[s].n <= MaxPackets
                          /\ file # Wave => stream[s].n <= gen.pos
                          /\ stream[s].todo # {} => stream[s].n > 0

BufferBounds ==
  /\ got \in [Consumers -> Seq(Packets)]
  /\ buffer \in [Consumers -> Seq(Packets)]
  /\ \A c \in Consumers : Len(buffer[c]) <= BufferSize

LEMMA FilesBounded ==
  ASSUME file \in Files \cup {Wave}, file # Wave
  PROVE  Len(file) \in Nat /\ Len(file) <= MaxPackets
BY FilesAssumption, BoundsAssumption, LenProperties

LEMMA StartedFinite ==
  /\ IsFiniteSet(Started) /\ Cardinality(Started) \in Nat
  /\ Cardinality(Started) <= Cardinality(Consumers) /\ Cardinality(Consumers) \in Nat
BY ConsumersAssumption, FS_Subset, FS_CardinalityType DEF Started

LEMMA InitBounds == Init => StreamBounds /\ PacketBounds /\ BufferBounds
<1> SUFFICES ASSUME Init PROVE StreamBounds /\ PacketBounds /\ BufferBounds
  OBVIOUS
<1>1. StreamBounds
  BY StartedFinite DEF Init, StreamBounds
<1>2. PacketBounds
  <2>1. \A s \in StreamIds : stream[s].n = 0 /\ stream[s].todo = {}
    BY DEF Init, NoStream
  <2>2. gen \in [pos : Nat, done : BOOLEAN, lock : StreamIds \cup {None}] /\ gen.pos = 0
    BY DEF Init
  <2>3. file # Wave => 0 <= Len(file)
    BY FilesBounded DEF Init
  <2>4. QED
    BY <2>1, <2>2, <2>3, BoundsAssumption DEF Init, PacketBounds
<1>3. BufferBounds
  BY EmptySeq, BoundsAssumption DEF Init, BufferBounds
<1>4. QED
  BY <1>1, <1>2, <1>3

\* No consumer goes back to before its Bind, and no stream changes its handle.
LEMMA StreamBoundsKept ==
  ASSUME Types, StreamBounds, UNCHANGED <<streams, stopChan>>, Started \subseteq Started',
         DirectBound => DirectBound'
  PROVE  StreamBounds'
<1>1. IsFiniteSet(Started') /\ Cardinality(Started) <= Cardinality(Started')
      /\ Cardinality(Started') \in Nat /\ Cardinality(Started) \in Nat
  <2>1. IsFiniteSet(Started')
    BY ConsumersAssumption, FS_Subset DEF Started
  <2>2. QED
    BY <2>1, StartedFinite, FS_Subset, FS_CardinalityType
<1>2. streams \in Nat
  BY DEF Types
<1>3. streams' <= Cardinality(Started') + (IF DirectBound' THEN 1 ELSE 0)
  BY <1>1, <1>2 DEF StreamBounds
<1>4. QED
  BY <1>3 DEF StreamBounds

LEMMA NextStarted == Types /\ [Next]_vars => Started \subseteq Started'
<1> SUFFICES ASSUME Types, [Next]_vars, NEW c \in Started PROVE c \in Started'
  OBVIOUS
<1>1. consumer \in [Consumers -> {"new", "binding", "failing", "bound", "closing", "unbinding", "gone"}]
      /\ c \in Consumers
  BY DEF Types, Started
<1>2. consumer' = consumer \/ \E d \in Consumers : \E from, to :
        /\ consumer[d] = from /\ consumer' = [consumer EXCEPT ![d] = to]
        /\ from \in {"bound", "closing", "unbinding", "gone"} => to \in {"closing", "unbinding", "gone"}
  <2>1. ASSUME NEW d \in Consumers, BindStores(d) \/ BindStep(d) \/ UnbindCloses(d) \/ UnbindStep(d)
        PROVE  \E from, to :
        /\ consumer[d] = from /\ consumer' = [consumer EXCEPT ![d] = to]
        /\ from \in {"bound", "closing", "unbinding", "gone"} => to \in {"closing", "unbinding", "gone"}
    BY <2>1 DEF BindStores, BindStep, BindFirst, BindFails, BindFailed, BindNext, UnbindCloses,
       UnbindStep, UnbindDeletes, UnbindLast, Goes
  <2>2. CASE UNCHANGED consumer
    BY <2>2
  <2>3. QED
    BY <2>1, <2>2 DEF Next, vars, BindDirect, UnbindDirect, StreamStep, GetFromWave, GetPage,
       GetEOF, StreamStops, Forward, WriterStep, Write, WriterEnds, dupVars
<1>3. QED
  BY <1>1, <1>2 DEF Started

\* A handle that is bound has a stream with a number of its own.
LEMMA HandleBound ==
  ASSUME Types, Order, StreamBounds, NEW h \in Handles, BindHandle(h),
         streams <= Cardinality(Consumers)
  PROVE  /\ streams' = streams + 1
         /\ stopChan' \in [Handles -> {None} \cup StreamIds]
         /\ DirectBound' <=> DirectBound \/ h = "direct"
<1>t. /\ stream \in [StreamIds -> StreamState] /\ streams \in Nat /\ StreamIds \subseteq Nat
  BY Ids DEF Types
<1>1. streams + 1 \in StreamIds
  BY <1>t, StartedFinite DEF StreamIds
<1>2. /\ streams' = streams + 1 /\ stopChan' = [stopChan EXCEPT ![h] = streams + 1]
      /\ stream' = [stream EXCEPT ![streams + 1] = [NoStream EXCEPT !.handle = h, !.at = "filling"]]
  BY DEF BindHandle
<1>3. stream[streams + 1].at = "none"
  BY <1>t, <1>1 DEF Order
<1>4. stream'[streams + 1].handle = h /\ stream'[streams + 1].at = "filling"
  BY <1>t, <1>1, <1>2 DEF NoStream
<1>5. \A s \in StreamIds : s # streams + 1 => stream'[s] = stream[s]
  BY <1>t, <1>2
<1>6. stopChan' \in [Handles -> {None} \cup StreamIds]
  BY <1>1, <1>2 DEF StreamBounds
<1>7. DirectBound' => DirectBound \/ h = "direct"
  BY <1>4, <1>5 DEF DirectBound
<1>8. DirectBound => DirectBound'
  BY <1>3, <1>5 DEF DirectBound
<1>9. h = "direct" => DirectBound'
  BY <1>1, <1>4 DEF DirectBound
<1>10. QED
  BY <1>2, <1>6, <1>7, <1>8, <1>9

LEMMA HandleUnbound ==
  ASSUME Types, StreamBounds, NEW h \in Handles, UnbindHandle(h)
  PROVE  /\ streams' = streams
         /\ stopChan' \in [Handles -> {None} \cup StreamIds]
         /\ DirectBound => DirectBound'
<1>t. stream \in [StreamIds -> StreamState]
  BY DEF Types
<1>1. \A s \in StreamIds : stream'[s].handle = stream[s].handle /\ stream'[s].at = stream[s].at
  BY <1>t DEF UnbindHandle, StreamState
<1>2. QED
  BY <1>1 DEF DirectBound, UnbindHandle, StreamBounds

LEMMA NextStreamBounds == Types /\ Order /\ StreamBounds /\ [Next]_vars => StreamBounds'
<1> SUFFICES ASSUME Types, Order, StreamBounds, [Next]_vars PROVE StreamBounds'
  OBVIOUS
<1>t. /\ stream \in [StreamIds -> StreamState] /\ streams \in Nat
      /\ "source" \in Handles /\ "direct" \in Handles
  BY DEF Types, Handles
<1>s. Started \subseteq Started'
  BY NextStarted
<1>f. /\ IsFiniteSet(Started') /\ Cardinality(Started') \in Nat /\ Cardinality(Started) \in Nat
      /\ Cardinality(Started) <= Cardinality(Started') /\ Cardinality(Consumers) \in Nat
      /\ Cardinality(Started) <= Cardinality(Consumers)
      /\ Cardinality(Started') <= Cardinality(Consumers)
  <2>1. IsFiniteSet(Started') /\ Cardinality(Started') <= Cardinality(Consumers)
    BY ConsumersAssumption, FS_Subset DEF Started
  <2>2. QED
    BY <1>s, <2>1, StartedFinite, FS_Subset, FS_CardinalityType
<1>1. CASE UNCHANGED <<streams, stopChan>> /\ (DirectBound => DirectBound')
  BY <1>1, <1>s, StreamBoundsKept
<1>2. ASSUME NEW h \in Handles, UnbindHandle(h) PROVE StreamBounds'
  BY <1>2, <1>t, <1>f, HandleUnbound DEF StreamBounds
<1>3. CASE BindDirect
  <2>1. ~DirectBound /\ Started' = Started /\ BindHandle("direct")
    BY <1>3 DEF BindDirect, DirectBound, dupVars, Started
  <2>2. streams <= Cardinality(Started) /\ streams <= Cardinality(Consumers)
    BY <1>t, <1>f, <2>1 DEF StreamBounds
  <2>3. DirectBound' /\ streams' = streams + 1 /\ stopChan' \in [Handles -> {None} \cup StreamIds]
    BY <1>t, <2>1, <2>2, HandleBound
  <2>4. QED
    BY <1>t, <1>f, <2>1, <2>2, <2>3 DEF StreamBounds
<1>4. ASSUME NEW c \in Consumers, BindFirst(c) PROVE StreamBounds'
  <2>1. c \notin Started /\ Started' = Started \cup {c} /\ BindHandle("source")
    <3>1. consumer \in [Consumers -> {"new", "binding", "failing", "bound", "closing", "unbinding", "gone"}]
          /\ consumer[c] = "binding" /\ consumer' = [consumer EXCEPT ![c] = "bound"]
      BY <1>4 DEF Types, BindFirst, Goes
    <3>2. QED
      BY <1>4, <3>1 DEF Started, BindFirst
  <2>2. Cardinality(Started') = Cardinality(Started) + 1
    BY <2>1, StartedFinite, FS_AddElement
  <2>3. streams <= Cardinality(Consumers)
    BY <1>t, <1>f, <2>2 DEF StreamBounds
  <2>4. /\ DirectBound' <=> DirectBound
        /\ streams' = streams + 1 /\ stopChan' \in [Handles -> {None} \cup StreamIds]
    BY <1>t, <2>1, <2>3, HandleBound
  <2>5. QED
    BY <1>t, <1>f, <2>2, <2>4 DEF StreamBounds
<1>5. ASSUME NEW s \in StreamIds, StreamStep(s) PROVE StreamBounds'
  <2>1. stream[s] \in StreamState
    BY <1>t
  <2>2. ASSUME NEW r \in StreamIds, stream[r].at # "none"
        PROVE  stream'[r].handle = stream[r].handle /\ stream'[r].at # "none"
    <3>1. CASE r # s
      BY <1>5, <1>t, <2>2, <3>1 DEF StreamStep, GetFromWave, GetPage, GetEOF, StreamStops, Forward, Sends
    <3>2. CASE r = s /\ Sends(s)
      BY <1>t, <2>1, <3>2 DEF Sends, StreamState
    <3>3. CASE r = s /\ \E at \in {"waiting", "ended"} : stream' = [stream EXCEPT ![s].at = at]
      BY <1>t, <2>1, <3>3 DEF StreamState
    <3>4. CASE r = s /\ \E c \in Consumers : Forward(s, c)
      BY <1>t, <2>1, <2>2, <3>4 DEF Forward, StreamState
    <3>5. QED
      BY <1>5, <3>1, <3>2, <3>3, <3>4 DEF StreamStep, GetFromWave, GetPage, GetEOF, StreamStops
  <2>3. QED
    BY <1>1, <1>5, <2>2 DEF DirectBound, StreamStep, GetFromWave, GetPage, GetEOF, StreamStops, Forward
<1>6. ASSUME NEW c \in Consumers, UnbindLast(c) PROVE StreamBounds'
  BY <1>1, <1>2, <1>6, <1>t DEF UnbindLast, handleVars, DirectBound
<1>7. CASE UNCHANGED handleVars
  BY <1>1, <1>7 DEF handleVars, DirectBound
<1>8. QED
  BY <1>2, <1>3, <1>4, <1>5, <1>6, <1>7, <1>t DEF Next, vars, handleVars, UnbindDirect, WriterStep,
     Write, WriterEnds, BindStores, BindStep, BindFails, BindFailed, BindNext, UnbindCloses,
     UnbindStep, UnbindDeletes

\* A stream that sends has read a page, or has not reached the bound.
LEMMA NextPacketBounds == Types /\ PacketBounds /\ [Next]_vars => PacketBounds'
<1> SUFFICES ASSUME Types, PacketBounds, [Next]_vars PROVE PacketBounds'
  OBVIOUS
<1>t. /\ stream \in [StreamIds -> StreamState] /\ streams \in Nat /\ gen.pos \in Nat
      /\ gen \in [pos : Nat, done : BOOLEAN, lock : StreamIds \cup {None}]
      /\ MaxPackets \in Nat /\ \A s \in StreamIds : stream[s].n \in Nat
  BY BoundsAssumption DEF Types, PacketBounds, StreamState
<1>f. file' = file /\ (file # Wave => Len(file) \in Nat /\ Len(file) <= MaxPackets)
  <2>1. file' = file
    BY DEF Next, vars, BindDirect, UnbindDirect, StreamStep, GetFromWave, GetPage, GetEOF, StreamStops,
       Forward, WriterStep, Write, WriterEnds, BindStores, BindStep, BindFirst, BindFails, BindFailed,
       BindNext, UnbindCloses, UnbindStep, UnbindDeletes, UnbindLast
  <2>2. QED
    BY <2>1, FilesBounded DEF PacketBounds
<1>1. ASSUME gen' = gen,
             \A s \in StreamIds : /\ stream'[s].n \in {stream[s].n, 0}
                                  /\ stream'[s].todo # {} => stream'[s].n = stream[s].n /\ stream[s].todo # {}
      PROVE  PacketBounds'
  BY <1>1, <1>t, <1>f DEF PacketBounds
<1>2. ASSUME NEW h \in Handles, BindHandle(h) \/ UnbindHandle(h), gen' = gen PROVE PacketBounds'
  <2>1. \A s \in StreamIds : /\ stream'[s].n \in {stream[s].n, 0}
                             /\ stream'[s].todo # {} => stream'[s].n = stream[s].n /\ stream[s].todo # {}
    <3>1. CASE BindHandle(h)
      <4> DEFINE new == [NoStream EXCEPT !.handle = h, !.at = "filling"]
      <4>1. new.n = 0 /\ new.todo = {}
        BY DEF NoStream
      <4>2. stream' = [stream EXCEPT ![streams'] = new]
        BY <3>1 DEF BindHandle
      <4> HIDE DEF new
      <4>3. QED
        BY <1>t, <4>1, <4>2
    <3>2. CASE UnbindHandle(h)
      <4>1. stream' = [stream EXCEPT ![stopChan[h]].stop = TRUE]
        BY <3>2 DEF UnbindHandle
      <4>2. \A s \in StreamIds : stream'[s].n = stream[s].n /\ stream'[s].todo = stream[s].todo
        BY <1>t, <4>1 DEF StreamState
      <4>3. QED
        BY <4>2
    <3>3. QED
      BY <1>2, <3>1, <3>2
  <2>2. QED
    BY <1>1, <1>2, <2>1
<1>3. ASSUME NEW s \in StreamIds, Sends(s)
      PROVE  /\ \A r \in StreamIds \ {s} : stream'[r] = stream[r]
             /\ stream'[s].n = stream[s].n + 1
  BY <1>3, <1>t DEF Sends, StreamState
<1>4. ASSUME NEW s \in StreamIds, GetFromWave(s) PROVE PacketBounds'
  <2>1. Sends(s) /\ gen' = gen /\ file = Wave /\ stream[s].n < MaxPackets
    BY <1>4 DEF GetFromWave
  <2>2. QED
    BY <1>3, <1>f, <1>t, <2>1 DEF PacketBounds
<1>5. ASSUME NEW s \in StreamIds, GetPage(s) PROVE PacketBounds'
  <2>1. /\ gen.pos < Len(file) /\ file # Wave /\ stream[s].todo = {}
        /\ gen'.pos = gen.pos + 1
        /\ gen' \in [pos : Nat, done : BOOLEAN, lock : StreamIds \cup {None}]
    <3> DEFINE lock == IF file[gen.pos + 1] = "tags" THEN s ELSE None
    <3>1. lock \in StreamIds \cup {None}
      OBVIOUS
    <3>2. gen' = [gen EXCEPT !.pos = gen.pos + 1, !.lock = lock]
      BY <1>5 DEF GetPage
    <3> HIDE DEF lock
    <3>3. gen.pos + 1 \in Nat
      BY <1>t
    <3>4. gen'.pos = gen.pos + 1 /\ gen' \in [pos : Nat, done : BOOLEAN, lock : StreamIds \cup {None}]
      BY <1>t, <3>1, <3>2, <3>3
    <3>5. QED
      BY <1>5, <3>4 DEF GetPage, Ready
  <2>2. CASE Sends(s)
    BY <1>3, <1>f, <1>t, <2>1, <2>2 DEF PacketBounds
  <2>3. CASE stream' = [stream EXCEPT ![s].at = "waiting"]
    <3>1. \A r \in StreamIds : stream'[r].n = stream[r].n /\ stream'[r].todo = stream[r].todo
      BY <1>t, <2>3 DEF StreamState
    <3>2. QED
      BY <1>f, <1>t, <2>1, <3>1 DEF PacketBounds
  <2>4. QED
    BY <1>5, <2>2, <2>3 DEF GetPage
<1>6. ASSUME NEW s \in StreamIds, GetEOF(s) \/ StreamStops(s) PROVE PacketBounds'
  <2>1. gen' \in [pos : Nat, done : BOOLEAN, lock : StreamIds \cup {None}] /\ gen'.pos = gen.pos
    BY <1>6, <1>t DEF GetEOF, StreamStops
  <2>2. \A r \in StreamIds : stream'[r].n = stream[r].n /\ stream'[r].todo = stream[r].todo
    <3>1. stream' = [stream EXCEPT ![s].at = "ended"]
      BY <1>6 DEF GetEOF, StreamStops
    <3>2. QED
      BY <1>t, <3>1 DEF StreamState
  <2>3. QED
    BY <1>f, <1>t, <2>1, <2>2 DEF PacketBounds
<1>7. ASSUME NEW s \in StreamIds, NEW c \in Consumers, Forward(s, c) PROVE PacketBounds'
  <2>1. \A r \in StreamIds : stream'[r].n = stream[r].n /\ (stream'[r].todo # {} => stream[r].todo # {})
    BY <1>7, <1>t DEF Forward, StreamState
  <2>2. QED
    BY <1>1, <1>7, <2>1 DEF Forward
<1>8. CASE UNCHANGED <<gen, stream>>
  BY <1>1, <1>8
<1>9. "source" \in Handles /\ "direct" \in Handles
  BY DEF Handles
<1>10. ASSUME NEW c \in Consumers, UnbindLast(c) PROVE PacketBounds'
  BY <1>2, <1>8, <1>9, <1>10 DEF UnbindLast, handleVars
<1>11. QED
  BY <1>2, <1>4, <1>5, <1>6, <1>7, <1>8, <1>9, <1>10 DEF Next, vars, handleVars, BindDirect, UnbindDirect,
     StreamStep, WriterStep, Write, WriterEnds, BindStores, BindStep, BindFirst, BindFails, BindFailed,
     BindNext, UnbindCloses, UnbindStep, UnbindDeletes

\* A packet that is forwarded is of its stream, counted, and finds room.
LEMMA NextBufferBounds == Types /\ PacketBounds /\ BufferBounds /\ [Next]_vars => BufferBounds'
<1> SUFFICES ASSUME Types, PacketBounds, BufferBounds, [Next]_vars PROVE BufferBounds'
  OBVIOUS
<1>1. CASE UNCHANGED <<got, buffer>>
  BY <1>1 DEF BufferBounds
<1>2. ASSUME NEW s \in StreamIds, NEW c \in Consumers, Forward(s, c) PROVE BufferBounds'
  <2>1. stream[s].n \in Nat /\ stream[s].n <= MaxPackets /\ stream[s].n > 0
    BY <1>2 DEF Types, StreamState, PacketBounds, Forward
  <2>2. Packet(s) \in Packets
    BY <2>1, BoundsAssumption DEF Packet, Packets
  <2>3. buffer[c] \in Seq(Packets) /\ Len(buffer[c]) \in Nat
    BY LenProperties DEF BufferBounds
  <2>4. CASE buffer' = [buffer EXCEPT ![c] = Append(@, Packet(s))] /\ Len(buffer[c]) < BufferSize
    <3>1. Append(buffer[c], Packet(s)) \in Seq(Packets)
          /\ Len(Append(buffer[c], Packet(s))) = Len(buffer[c]) + 1
      BY <2>2, <2>3, AppendProperties
    <3>2. Len(Append(buffer[c], Packet(s))) <= BufferSize
      BY <2>3, <2>4, <3>1, BoundsAssumption
    <3>3. QED
      BY <1>2, <2>4, <3>1, <3>2 DEF BufferBounds, Forward
  <2>5. QED
    BY <1>1, <1>2, <2>4 DEF Forward
<1>3. ASSUME NEW c \in Consumers, Write(c) PROVE BufferBounds'
  <2>1. buffer[c] \in Seq(Packets) /\ got[c] \in Seq(Packets) /\ buffer[c] # <<>>
    BY <1>3 DEF BufferBounds, Write
  <2>2. Head(buffer[c]) \in Packets /\ Tail(buffer[c]) \in Seq(Packets)
        /\ Len(Tail(buffer[c])) = Len(buffer[c]) - 1 /\ Len(buffer[c]) \in Nat
    BY <2>1, HeadTailProperties, LenProperties
  <2>3. Append(got[c], Head(buffer[c])) \in Seq(Packets)
    BY <2>1, <2>2, AppendProperties
  <2>4. Len(Tail(buffer[c])) <= BufferSize
    BY <2>2, BoundsAssumption DEF BufferBounds
  <2>5. QED
    BY <1>3, <2>2, <2>3, <2>4 DEF BufferBounds, Write
<1>4. QED
  BY <1>1, <1>2, <1>3 DEF Next, vars, writerVars, BindDirect, UnbindDirect,
     StreamStep, GetFromWave, GetPage, GetEOF, StreamStops, WriterStep, WriterEnds, BindStores, BindStep,
     BindFirst, BindFails, BindFailed, BindNext, UnbindCloses, UnbindStep, UnbindDeletes, UnbindLast

------------------------------------------------------------------------------
(* The theorems.                                                           *)

Inv == Types /\ Control /\ OneStream /\ Order /\ StreamBounds /\ PacketBounds /\ BufferBounds

\* The invariant holds in every state: the types, where each Bind and Unbind
\* stands, the streams that run, the order of the packets, and the bounds.
THEOREM Invariance == Spec => []Inv
<1>1. Init => Inv
  BY InitTypes, InitControl, InitOneStream, InitOrder, InitBounds DEF Inv
<1>2. Inv /\ [Next]_vars => Inv'
  BY NextTypes, NextControl, NextOneStream, NextOrder, NextStreamBounds, NextPacketBounds,
     NextBufferBounds DEF Inv
<1>3. QED
  BY <1>1, <1>2, PTL DEF Spec

\* The variables keep their types: no buffer overflows, and no more streams are
\* started than there are consumers and handles to start them (duplicate.go:85-100,
\* handle.go:209-239).
THEOREM TypeCorrect == Spec => []TypeOK
<1>1. Inv => TypeOK
  <2> SUFFICES ASSUME Inv PROVE TypeOK
    OBVIOUS
  <2>1. streams \in {None} \cup StreamIds
    BY StartedFinite DEF Inv, Types, StreamBounds, None, StreamIds
  <2>2. stream \in [StreamIds -> [handle : Handles, at : {"none", "filling", "running", "waiting", "ended"},
                                  stop : BOOLEAN, n : 0..MaxPackets, todo : SUBSET Consumers]]
    <3>1. \A s \in StreamIds : stream[s] \in StreamState /\ stream[s].n \in 0..MaxPackets
      BY BoundsAssumption DEF Inv, Types, PacketBounds, StreamState
    <3>2. QED
      BY <3>1 DEF Inv, Types, StreamState
  <2>3. QED
    BY <2>1, <2>2 DEF Inv, Types, StreamBounds, PacketBounds, BufferBounds, TypeOK
<1>2. QED
  BY <1>1, Invariance, PTL

\* A consumer that is bound has an upstream, and none stays when all have gone
\* (duplicate.go:136-179, 183-205).
THEOREM UpstreamKept == Spec => []UpstreamBound
<1>1. Inv => UpstreamBound
  BY DEF Inv, Types, Control, ConsumerControl, UpstreamBound
<1>2. QED
  BY <1>1, Invariance, PTL

\* At most one stream of a handle has not been told to stop (handle.go:209-239).
THEOREM OneStreamEach == Spec => []OneStream
<1>1. Inv => OneStream
  BY DEF Inv
<1>2. QED
  BY <1>1, Invariance, PTL

\* No consumer gets the packets of a stream out of order, or one twice
\* (duplicate.go:85-100, 112-120, 266-275).
THEOREM PacketsKeepOrder == Spec => []PacketsInOrder
<1>1. Inv => PacketsInOrder
  BY DEF Inv, Order, ConsumerOrder, Before, PacketsInOrder
<1>2. QED
  BY <1>1, Invariance, PTL

\* A consumer whose Unbind has returned gets nothing more (duplicate.go:107-110,
\* 184-189).
THEOREM QuietAfter == Spec => QuietAfterUnbind
<1>1. Inv /\ [Next]_vars => [\A c \in Consumers : consumer[c] = "gone" => got'[c] = got[c]]_vars
  <2> SUFFICES ASSUME Inv, Next, NEW c \in Consumers, consumer[c] = "gone"
               PROVE  got'[c] = got[c]
    OBVIOUS
  <2>1. writer[c] = "ended"
    BY DEF Inv, Control, ConsumerControl
  <2>2. ASSUME NEW d \in Consumers, Write(d) PROVE got'[c] = got[c]
    BY <2>1, <2>2 DEF Write, Inv, Types
  <2>3. CASE UNCHANGED got
    BY <2>3
  <2>4. QED
    BY <2>2, <2>3 DEF Next, BindDirect, UnbindDirect, StreamStep, GetFromWave, GetPage, GetEOF,
       StreamStops, Forward, WriterStep, WriterEnds, BindStores, BindStep, BindFirst, BindFails,
       BindFailed, BindNext, UnbindCloses, UnbindStep, UnbindDeletes, UnbindLast, writerVars
<1>2. QED
  BY <1>1, Invariance, PTL DEF Spec, QuietAfterUnbind
==============================================================================
