------------------------------- MODULE Tracks -------------------------------
(***************************************************************************)
(* webrtc-agents/pkg/tracks: streams of audio packets, their generators,   *)
(* and a duplicater that forwards one track to several consumers.          *)
(*                                                                         *)
(* pion binds a track to a context, when its connection can send, and      *)
(* unbinds it once.  A TrackHandle starts a stream for each context, a     *)
(* goroutine of its own that is told to stop, and is not waited for.  All  *)
(* the streams of a track's name share one generator: a wave, which goes   *)
(* on for ever, or an Ogg file, which is read page by page under a lock.   *)
(*                                                                         *)
(* Here two handles have the same generator.  One, "direct", is bound to a *)
(* connection; the other, "source", is the upstream of a TrackDuplicater,  *)
(* which binds it when the first of its consumers comes and unbinds it     *)
(* when the last has gone.  A consumer has a buffer and a writer.          *)
(***************************************************************************)
EXTENDS Naturals, Sequences, FiniteSets

CONSTANTS
  Consumers,   \* contexts that bind the duplicater, each once
  NoConsumer,
  Files,       \* pages of Ogg files after the first, "tags" or "audio"
  Prefill,     \* packets before a stream looks at its ticker: 10 in the code
  BufferSize,  \* packets in a consumer's buffer: 100 in the code
  MaxPackets   \* bound: packets of one stream, and pages of a file

ASSUME FilesAssumption == Files \subseteq Seq({"tags", "audio"})
ASSUME BoundsAssumption ==
  /\ Prefill \in Nat /\ BufferSize \in Nat \ {0} /\ MaxPackets \in Nat
  /\ \A f \in Files : Len(f) <= MaxPackets
ASSUME ConsumersAssumption == NoConsumer \notin Consumers /\ IsFiniteSet(Consumers)

Handles == {"source", "direct"}
StreamIds == 1..(Cardinality(Consumers) + 1)
None == 0
Wave == <<>>   \* the generator is a wave, and no file

VARIABLES
  file,         \* the pages of the generator's file, or Wave
  gen,          \* the generator: pages read, end seen, the stream with its lock
  streams,      \* streams started so far
  stream,       \* stream[s]: its handle, step, stop channel, packets, forwards to do
  stopChan,     \* stopChan[h]: the stream of handle h, or None
  mu,           \* who has the duplicater's mutex
  source,       \* does the duplicater have a source context?
  downstreams,  \* its map of consumers
  consumer,     \* consumer[c]: where its Bind or Unbind is
  writer,       \* writer[c]: "none", "running", "stopping", "ended"
  buffer,       \* buffer[c]: packets
  got           \* got[c]: packets written to the consumer

vars == <<file, gen, streams, stream, stopChan, mu, source, downstreams, consumer, writer,
          buffer, got>>
handleVars == <<streams, stream, stopChan>>
dupVars == <<mu, source, downstreams, consumer>>
writerVars == <<writer, buffer, got>>

NoStream == [handle |-> "direct", at |-> "none", stop |-> FALSE, n |-> 0, todo |-> {}]

Init ==
  /\ file \in Files \cup {Wave}
  /\ gen = [pos |-> 0, done |-> FALSE, lock |-> None]
  /\ streams = 0
  /\ stream = [s \in StreamIds |-> NoStream]
  /\ stopChan = [h \in Handles |-> None]
  /\ mu = NoConsumer /\ source = FALSE /\ downstreams = {}
  /\ consumer = [c \in Consumers |-> "new"]
  /\ writer = [c \in Consumers |-> "none"]
  /\ buffer = [c \in Consumers |-> <<>>]
  /\ got = [c \in Consumers |-> <<>>]

------------------------------------------------------------------------------
(* TrackHandle.                                                            *)

BindHandle(h) ==
  /\ stopChan[h] = None
  /\ streams' = streams + 1
  /\ stopChan' = [stopChan EXCEPT ![h] = streams']
  /\ stream' = [stream EXCEPT ![streams'] = [NoStream EXCEPT !.handle = h, !.at = "filling"]]

\* Mutant: the stop channel is forgotten, and not closed.
UnbindHandleQuietly(h) ==
  /\ stopChan' = [stopChan EXCEPT ![h] = None]
  /\ UNCHANGED <<streams, stream>>

UnbindHandle(h) ==
  /\ stream' = [stream EXCEPT ![stopChan[h]].stop = TRUE]
  /\ stopChan' = [stopChan EXCEPT ![h] = None]
  /\ UNCHANGED streams

\* pion binds the other handle, and unbinds it.  (Bound: once, and only to a file:
\* two streams of a wave have no state in common.)
BindDirect ==
  /\ file # Wave
  /\ \A s \in StreamIds : stream[s].at = "none" \/ stream[s].handle = "source"
  /\ BindHandle("direct")
  /\ UNCHANGED <<file, gen, dupVars, writerVars>>

UnbindDirect ==
  /\ stopChan["direct"] # None
  /\ UnbindHandle("direct")
  /\ UNCHANGED <<file, gen, dupVars, writerVars>>

\* startStreaming is about to get a packet: it fills first, then waits for its
\* ticker, and looks at its stop channel only then.
Ready(s) == stream[s].at \in {"filling", "running"} /\ stream[s].todo = {}

\* encodeAndSend: the packet is counted, and is to be written; by the source,
\* to the consumers it finds.
Sends(s) ==
  stream' = [stream EXCEPT ![s] =
    [stream[s] EXCEPT !.n = @ + 1,
                      !.at = IF stream[s].n + 1 >= Prefill THEN "running" ELSE "filling",
                      !.todo = IF stream[s].handle = "source" THEN downstreams ELSE {}]]

\* GetPacket of a sine wave or of noise.
GetFromWave(s) ==
  /\ file = Wave /\ Ready(s) /\ stream[s].n < MaxPackets
  /\ Sends(s)
  /\ UNCHANGED <<file, gen, streams, stopChan, dupVars, writerVars>>

\* GetPacket of a file.  On a page of metadata it calls itself, with the lock
\* in hand, and waits for it.
GetPage(s) ==
  /\ file # Wave /\ Ready(s) /\ gen.lock = None
  /\ ~gen.done /\ gen.pos < Len(file)
  /\ gen' = [gen EXCEPT !.pos = @ + 1,
                        !.lock = IF file[gen.pos + 1] = "tags" THEN s ELSE None]
  /\ IF file[gen.pos + 1] = "tags" THEN stream' = [stream EXCEPT ![s].at = "waiting"]
     ELSE Sends(s)
  /\ UNCHANGED <<file, streams, stopChan, dupVars, writerVars>>

\* The end of the file ends the stream, and any stream that comes later.
GetEOF(s) ==
  /\ file # Wave /\ Ready(s) /\ gen.lock = None
  /\ gen.done \/ gen.pos = Len(file)
  /\ gen' = [gen EXCEPT !.done = TRUE]
  /\ stream' = [stream EXCEPT ![s].at = "ended"]
  /\ UNCHANGED <<file, streams, stopChan, dupVars, writerVars>>

StreamStops(s) ==
  /\ Ready(s) /\ stream[s].at = "running" /\ stream[s].stop
  /\ stream' = [stream EXCEPT ![s].at = "ended"]
  /\ UNCHANGED <<file, gen, streams, stopChan, dupVars, writerVars>>

------------------------------------------------------------------------------
(* The duplicater: packets.                                                *)

Packet(s) == [stream |-> s, n |-> stream[s].n]

\* Mutant: the buffer has no limit.
ForwardAlways(s, c) ==
  /\ c \in stream[s].todo
  /\ stream' = [stream EXCEPT ![s].todo = @ \ {c}]
  /\ buffer' = IF c \in downstreams THEN [buffer EXCEPT ![c] = Append(@, Packet(s))] ELSE buffer
  /\ UNCHANGED <<file, gen, streams, stopChan, dupVars, writer, got>>

\* forwardToDownstreams, for one of them: dropped if its buffer is full, or if
\* it has left the map.
Forward(s, c) ==
  /\ c \in stream[s].todo
  /\ stream' = [stream EXCEPT ![s].todo = @ \ {c}]
  /\ buffer' = IF c \in downstreams /\ Len(buffer[c]) < BufferSize
               THEN [buffer EXCEPT ![c] = Append(@, Packet(s))] ELSE buffer
  /\ UNCHANGED <<file, gen, streams, stopChan, dupVars, writer, got>>

\* Mutant: the writer takes the newest packet first.
WriteNewest(c) ==
  /\ writer[c] \in {"running", "stopping"} /\ buffer[c] # <<>>
  /\ got' = [got EXCEPT ![c] = Append(@, buffer[c][Len(buffer[c])])]
  /\ buffer' = [buffer EXCEPT ![c] = SubSeq(@, 1, Len(@) - 1)]
  /\ UNCHANGED <<file, gen, handleVars, dupVars, writer>>

Write(c) ==
  /\ writer[c] \in {"running", "stopping"} /\ buffer[c] # <<>>
  /\ got' = [got EXCEPT ![c] = Append(@, Head(buffer[c]))]
  /\ buffer' = [buffer EXCEPT ![c] = Tail(@)]
  /\ UNCHANGED <<file, gen, handleVars, dupVars, writer>>

\* Told to stop, it has drained the buffer.
WriterEnds(c) ==
  /\ writer[c] = "stopping" /\ buffer[c] = <<>>
  /\ writer' = [writer EXCEPT ![c] = "ended"]
  /\ UNCHANGED <<file, gen, handleVars, dupVars, buffer, got>>

------------------------------------------------------------------------------
(* The duplicater: consumers.                                              *)

Goes(c, from, to) == consumer[c] = from /\ consumer' = [consumer EXCEPT ![c] = to]

BindStores(c) ==
  /\ Goes(c, "new", "binding")
  /\ downstreams' = downstreams \cup {c}
  /\ writer' = [writer EXCEPT ![c] = "running"]
  /\ UNCHANGED <<file, gen, handleVars, mu, source, buffer, got>>

\* The first one binds the upstream, ...
BindFirst(c) ==
  /\ mu = NoConsumer /\ ~source
  /\ Goes(c, "binding", "bound")
  /\ BindHandle("source")
  /\ source' = TRUE
  /\ UNCHANGED <<file, gen, mu, downstreams, writerVars>>

\* ... which may fail: then it waits for its writer with the mutex in hand.
BindFails(c) ==
  /\ mu = NoConsumer /\ ~source
  /\ Goes(c, "binding", "failing")
  /\ mu' = c
  /\ writer' = [writer EXCEPT ![c] = "stopping"]
  /\ UNCHANGED <<file, gen, handleVars, source, downstreams, buffer, got>>

\* Mutant: the early return keeps the mutex.
BindFailedLocked(c) ==
  /\ mu = c /\ writer[c] = "ended"
  /\ Goes(c, "failing", "gone")
  /\ downstreams' = downstreams \ {c}
  /\ UNCHANGED <<file, gen, handleVars, mu, source, writerVars>>

BindFailed(c) ==
  /\ mu = c /\ writer[c] = "ended"
  /\ Goes(c, "failing", "gone")
  /\ mu' = NoConsumer
  /\ downstreams' = downstreams \ {c}
  /\ UNCHANGED <<file, gen, handleVars, source, writerVars>>

BindNext(c) ==
  /\ mu = NoConsumer /\ source
  /\ Goes(c, "binding", "bound")
  /\ UNCHANGED <<file, gen, handleVars, mu, source, downstreams, writerVars>>

UnbindCloses(c) ==
  /\ Goes(c, "bound", "closing")
  /\ writer' = [writer EXCEPT ![c] = "stopping"]
  /\ UNCHANGED <<file, gen, handleVars, mu, source, downstreams, buffer, got>>

\* Mutant: Unbind does not wait for the writer.
UnbindDeletesAtOnce(c) ==
  /\ Goes(c, "closing", "unbinding")
  /\ downstreams' = downstreams \ {c}
  /\ UNCHANGED <<file, gen, handleVars, mu, source, writerVars>>

UnbindDeletes(c) ==
  /\ writer[c] = "ended"
  /\ Goes(c, "closing", "unbinding")
  /\ downstreams' = downstreams \ {c}
  /\ UNCHANGED <<file, gen, handleVars, mu, source, writerVars>>

\* Mutant: off by one, the last but one unbinds the upstream.
UnbindLastButOne(c) ==
  /\ mu = NoConsumer
  /\ Goes(c, "unbinding", "gone")
  /\ IF Cardinality(downstreams) <= 1 /\ source
     THEN UnbindHandle("source") /\ source' = FALSE
     ELSE UNCHANGED <<handleVars, source>>
  /\ UNCHANGED <<file, gen, mu, downstreams, writerVars>>

\* Under the mutex: the last one unbinds the upstream.
UnbindLast(c) ==
  /\ mu = NoConsumer
  /\ Goes(c, "unbinding", "gone")
  /\ IF downstreams = {} /\ source
     THEN UnbindHandle("source") /\ source' = FALSE
     ELSE UNCHANGED <<handleVars, source>>
  /\ UNCHANGED <<file, gen, mu, downstreams, writerVars>>

------------------------------------------------------------------------------

StreamStep(s) ==
  \/ GetFromWave(s) \/ GetPage(s) \/ GetEOF(s) \/ StreamStops(s)
  \/ \E c \in Consumers : Forward(s, c)
WriterStep(c) == Write(c) \/ WriterEnds(c)
BindStep(c) == BindFirst(c) \/ BindFails(c) \/ BindFailed(c) \/ BindNext(c)
UnbindStep(c) == UnbindDeletes(c) \/ UnbindLast(c)

Next ==
  \/ BindDirect \/ UnbindDirect
  \/ \E s \in StreamIds : StreamStep(s)
  \/ \E c \in Consumers :
       WriterStep(c) \/ BindStores(c) \/ BindStep(c) \/ UnbindCloses(c) \/ UnbindStep(c)

Spec == Init /\ [][Next]_vars

\* The goroutines are scheduled.  Where a stream's select finds both its ticker
\* and its stop channel ready it takes either: MaxPackets bounds how often it goes
\* on.  A mutex is held by one failed Bind at a time, and each fails once.
Fairness ==
  /\ \A s \in StreamIds : WF_vars(StreamStep(s))
  /\ \A c \in Consumers : WF_vars(WriterStep(c)) /\ WF_vars(BindStep(c) \/ UnbindStep(c))

FairSpec == Spec /\ Fairness

------------------------------------------------------------------------------
(* Properties.                                                             *)

Packets == [stream : StreamIds, n : 1..MaxPackets]

\* The variables keep their types: no buffer overflows, no handle is bound
\* twice, and the streams are as many as were bound.
TypeOK ==
  /\ file \in Files \cup {Wave}
  /\ gen \in [pos : Nat, done : BOOLEAN, lock : StreamIds \cup {None}]
  /\ streams \in {None} \cup StreamIds
  /\ stream \in [StreamIds -> [handle : Handles, at : {"none", "filling", "running", "waiting", "ended"},
                               stop : BOOLEAN, n : 0..MaxPackets, todo : SUBSET Consumers]]
  /\ stopChan \in [Handles -> {None} \cup StreamIds]
  /\ mu \in Consumers \cup {NoConsumer} /\ source \in BOOLEAN /\ downstreams \subseteq Consumers
  /\ consumer \in [Consumers -> {"new", "binding", "failing", "bound", "closing", "unbinding", "gone"}]
  /\ writer \in [Consumers -> {"none", "running", "stopping", "ended"}]
  /\ got \in [Consumers -> Seq(Packets)]
  /\ buffer \in [Consumers -> Seq(Packets)]
  /\ \A c \in Consumers : Len(buffer[c]) <= BufferSize

\* A consumer that is bound has an upstream, and once all have gone there is
\* none: no interleaving of Bind, failed Bind and Unbind leaves one behind or
\* takes it away (duplicate.go:136-179, 183-205).
UpstreamBound ==
  /\ \A c \in Consumers : consumer[c] = "bound" => source
  /\ (\A c \in Consumers : consumer[c] \in {"new", "gone"}) => ~source
  /\ source <=> stopChan["source"] # None

\* At most one stream of a handle has not been told to stop: the one that the
\* handle knows (handle.go:209-239).
OneStream ==
  \A s \in StreamIds :
    stream[s].at # "none" /\ ~stream[s].stop => stopChan[stream[s].handle] = s

\* A consumer gets the packets of a stream in their order, none twice; some may
\* be dropped, and those of an old stream, which still fills, may come among
\* those of the new one (duplicate.go:85-100, 112-120, 266-275).
PacketsInOrder ==
  \A c \in Consumers : \A i, j \in 1..Len(got[c]) :
    i < j /\ got[c][i].stream = got[c][j].stream => got[c][i].n < got[c][j].n

\* Once Unbind has returned nothing is written to the consumer any more
\* (duplicate.go:107-110, 184-189).
QuietAfterUnbind == [][\A c \in Consumers : consumer[c] = "gone" => got'[c] = got[c]]_vars

\* Every Bind and every Unbind returns, whoever else waits for a writer with the
\* mutex in hand (duplicate.go:107-110, 136-137, 159-168, 187-192).
CallsReturn ==
  \A c \in Consumers : consumer[c] \in {"binding", "closing"} ~> consumer[c] \in {"bound", "gone"}
==============================================================================
