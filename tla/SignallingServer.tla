-------------------------- MODULE SignallingServer --------------------------
(***************************************************************************)
(* The websocket endpoint of webrtc-server: pkg/handler/handle_ws.go with  *)
(* pkg/ws_proxy and the registry.                                          *)
(*                                                                         *)
(* Each connection has three goroutines:                                   *)
(*   - the handler (ServeHTTP): opens the registry entry, then waits for   *)
(*     the gc timer or for an error of the reader, then runs its deferred  *)
(*     calls: drop the timer, close the socket, delete the entry;          *)
(*   - the reader: reads a message, handles it, resets the gc timer;       *)
(*   - the write proxy: the only one to write to the socket.  It offers    *)
(*     itself on a channel, and a reader that wants to write to the        *)
(*     connection takes the offer and waits for the result.                *)
(*                                                                         *)
(* A payload may have several sections, handled in a fixed order.  The     *)
(* clients of the repository send one, except that a browser announces its *)
(* attributes along with its Register; the clients here do the same.  A    *)
(* panic outside the handler goroutine ends the process.                   *)
(***************************************************************************)
EXTENDS ConnRegistry, Naturals, Sequences

CONSTANTS
  Kinds,       \* the sections clients send
  MaxMessages, \* bound: messages read from each client
  Faults       \* what may go wrong in a run: clients leave or are lost, timers fire

ASSUME KindsAssumption ==
  Kinds \subseteq {"register", "echo", "rename", "sdp", "ice"}
ASSUME MaxMessagesAssumption == MaxMessages \in Nat
ASSUME FaultsAssumption == Faults \subseteq {"left", "lost", "timeout"}

VARIABLES
  client,      \* client[k]: "none", "up", "left" (closed or reset), "lost" (silent)
  received,    \* received[k]: how many messages of k the reader has read
  handler,     \* handler[k]: "none", "serving", and after the select "closing",
               \* then "closed" (the socket is), then "done"
  reader,      \* reader[k]: where the reader goroutine stands (at), the message
               \* it handles (msg), the connections still to write to (todo)
  proxy,       \* proxy[k]: the write proxy, "none", "running" or "stopped"
  writing,     \* writing[t]: readers for which a write to socket t is in progress
  outbox,      \* outbox[t]: messages relayed into socket t
  heard,       \* heard[t]: nodes whose Online was written to t
  crashed      \* why the process has ended, "no" while it runs

vars == <<regvars, client, received, handler, reader, proxy, writing, outbox, heard, crashed>>

Message == [kind : Kinds \cup {"none"}, from : Conns, to : Conns, n : 0..MaxMessages]

\* The message of a reader that handles none.
NoMessage(k) == [kind |-> "none", from |-> k, to |-> k, n |-> 0]

Relayed(m) == m.kind \in {"sdp", "ice"}

Reader ==
  [at : {"none", "reading", "handling", "dumping", "writing", "replying",
         "announcing", "resetting", "failed", "done"},
   msg : Message, todo : SUBSET Conns]

NoReader(k) == [at |-> "none", msg |-> NoMessage(k), todo |-> {}]
Idle(k) == [at |-> "reading", msg |-> NoMessage(k), todo |-> {}]

Init ==
  /\ RegInit
  /\ client = [k \in Conns |-> "none"]
  /\ received = [k \in Conns |-> 0]
  /\ handler = [k \in Conns |-> "none"]
  /\ reader = [k \in Conns |-> NoReader(k)]
  /\ proxy = [k \in Conns |-> "none"]
  /\ writing = [k \in Conns |-> {}]
  /\ outbox = [k \in Conns |-> <<>>]
  /\ heard = [k \in Conns |-> {}]
  /\ crashed = "no"

\* The reader of k moves on, still with the same message.
Proceed(k, at, todo) ==
  reader' = [reader EXCEPT ![k] = [at |-> at, msg |-> reader[k].msg, todo |-> todo]]

ReaderGoes(k, from, to) == reader[k].at = from /\ Proceed(k, to, {})

\* It goes to the top of its loop.
ReadsOn(k) == reader' = [reader EXCEPT ![k] = Idle(k)]

------------------------------------------------------------------------------
(* The client, and the handler goroutine.                                  *)

\* The client closes its end, or vanishes without a trace.
ClientGoes(k) ==
  /\ client[k] = "up"
  /\ \E how \in Faults \ {"timeout"} : client' = [client EXCEPT ![k] = how]
  /\ UNCHANGED <<regvars, received, handler, reader, proxy, writing, outbox, heard, crashed>>

HandlerGoes(k, from, to) ==
  /\ handler[k] = from
  /\ handler' = [handler EXCEPT ![k] = to]
  /\ UNCHANGED <<received, writing, outbox, heard, crashed>>

\* ServeHTTP up to its select: the entry, the timer, the reader and its proxy.
ServeHTTP(k) ==
  /\ HandlerGoes(k, "none", "serving")
  /\ client' = [client EXCEPT ![k] = "up"]
  /\ OpenConnection(k)
  /\ ReadsOn(k)
  /\ proxy' = [proxy EXCEPT ![k] = "running"]

\* `case <-gcTimer.C', and the deferred gcTimer = nil.
TimerFires(k) ==
  /\ "timeout" \in Faults
  /\ HandlerGoes(k, "serving", "closing")
  /\ UNCHANGED <<regvars, client, reader, proxy>>

\* `case err := <-connErrCh', and the deferred gcTimer = nil: the reader hands
\* its error over and ends.
ReaderEnds(k) ==
  /\ HandlerGoes(k, "serving", "closing")
  /\ ReaderGoes(k, "failed", "done")
  /\ UNCHANGED <<regvars, client, proxy>>

\* The other deferred calls.
CloseSocket(k) ==
  /\ HandlerGoes(k, "closing", "closed")
  /\ UNCHANGED <<regvars, client, reader, proxy>>

\* Mutant: the deferred function forgets the registry.
UnregisterForgets(k) ==
  /\ HandlerGoes(k, "closed", "done")
  /\ UNCHANGED <<regvars, client, reader, proxy>>

Unregister(k) ==
  /\ HandlerGoes(k, "closed", "done")
  /\ CloseConnection(k)
  /\ UNCHANGED <<client, reader, proxy>>

SocketClosed(k) == handler[k] \in {"closed", "done"}
TimerIsNil(k) == handler[k] \in {"closing", "closed", "done"}

------------------------------------------------------------------------------
(* The reader goroutine.                                                   *)

\* The reader gets the next message of the client, which may have gone since;
\* what is buffered may still be read after the socket was closed.
ReadMessage(k) ==
  /\ reader[k].at = "reading"
  /\ received[k] < MaxMessages
  /\ received' = [received EXCEPT ![k] = @ + 1]
  /\ \E kind \in Kinds, t \in Conns :
       /\ kind \notin {"sdp", "ice"} => t = k
       /\ reader' = [reader EXCEPT ![k] =
            [at   |-> "handling",
             msg  |-> [kind |-> kind, from |-> k, to |-> t, n |-> received[k]],
             todo |-> {}]]
  /\ UNCHANGED <<regvars, crashed>>

\* ReadMessage fails; the reader blocks on the unbuffered connErrCh.
ReadFails(k) ==
  /\ client[k] = "left" \/ SocketClosed(k)
  /\ ReaderGoes(k, "reading", "failed")
  /\ UNCHANGED <<regvars, received, crashed>>

\* Mutant: the snapshot for the broadcast is taken before the node registers.
HandleRegisterDumpsFirst(k) ==
  /\ reader[k].msg.kind = "register"
  /\ reader[k].at = "handling"
  /\ Proceed(k, "writing", Reachable)
  /\ Register(k)
  /\ UNCHANGED <<received, crashed>>

HandleRegister(k) ==
  /\ reader[k].msg.kind = "register"
  /\ ReaderGoes(k, "handling", "dumping")
  /\ Register(k)
  /\ UNCHANGED <<received, crashed>>

HandleEcho(k) ==
  /\ reader[k].msg.kind = "echo"
  /\ reader[k].at = "handling"
  /\ Proceed(k, "writing", {k})
  /\ UpdateHeartbeat(k)
  /\ UNCHANGED <<received, crashed>>

HandleAttributes(k) ==
  /\ ReaderGoes(k, "announcing", "resetting")
  /\ \E withdrawn \in SUBSET Attrs, announced \in SUBSET Attrs :
       SetAttributes(k, withdrawn, announced)
  /\ UNCHANGED <<received, crashed>>

\* An unknown key is an error, after which the reader reads on.
HandleRename(k) ==
  /\ reader[k].msg.kind = "rename"
  /\ reader[k].at = "handling"
  /\ \/ /\ RenamePanics(k)
        /\ crashed' = "rename"
        /\ UNCHANGED <<regvars, reader>>
     \/ /\ k \in keys /\ ~RenamePanics(k)
        /\ ReaderGoes(k, "handling", "dumping")
        /\ \E colour \in SUBSET Attrs : UpdatePreference(k, colour)
        /\ UNCHANGED crashed
     \/ /\ k \notin keys
        /\ ReadsOn(k)
        /\ UNCHANGED <<regvars, crashed>>
  /\ UNCHANGED received

\* sendMsgTo: an addressee that is unknown or not registered is no error.
HandleRelay(k) ==
  LET t == reader[k].msg.to IN
  /\ Relayed(reader[k].msg)
  /\ reader[k].at = "handling"
  /\ IF t \in Reachable
     THEN Proceed(k, "writing", {t})
     ELSE Proceed(k, "resetting", {})
  /\ UNCHANGED <<regvars, received, crashed>>

\* sendBroadcastMsg takes a snapshot of the registry.
DumpRegistry(k) ==
  /\ reader[k].at = "dumping"
  /\ Proceed(k, "writing", Reachable)
  /\ UNCHANGED <<regvars, received, crashed>>

\* All is written.  After the broadcast of a Register comes the reply to the
\* node itself, one more write through its own proxy; then the attributes, if
\* the node is a browser.
WritesDone(k) ==
  /\ reader[k].todo = {}
  /\ \/ /\ reader[k].at = "writing" /\ reader[k].msg.kind = "register"
        /\ Proceed(k, "replying", {k})
     \/ /\ reader[k].msg.kind # "register"
        /\ ReaderGoes(k, "writing", "resetting")
     \/ Attrs # {} /\ ReaderGoes(k, "replying", "announcing")
     \/ ReaderGoes(k, "replying", "resetting")
  /\ UNCHANGED <<regvars, received, crashed>>

\* gcTimer.Reset.  The handler may have set the variable to nil; as the two
\* goroutines race on it, the reader may also still see the old timer.
ResetTimer(k) ==
  /\ reader[k].at = "resetting"
  /\ \/ ReadsOn(k) /\ UNCHANGED crashed
     \/ TimerIsNil(k) /\ crashed' = "gcTimer" /\ UNCHANGED reader
  /\ UNCHANGED <<regvars, received>>

------------------------------------------------------------------------------
(* Writing through the proxy of the target.                                *)

\* The proxy offers itself while it has no request.  It is one goroutine, and
\* takes part in a write from its offer to the answer of the socket.
Offers(t) == proxy[t] = "running" /\ writing[t] = {}

\* A reader that has something to write to t and is in no write.
WantsToWrite(k, t) ==
  /\ reader[k].at \in {"writing", "replying"}
  /\ t \in reader[k].todo
  /\ \A u \in Conns : k \notin writing[u]

\* It takes the offer of the proxy of t and hands its request over.
TakeOffer(k, t) ==
  /\ WantsToWrite(k, t)
  /\ Offers(t)
  /\ writing' = [writing EXCEPT ![t] = @ \cup {k}]
  /\ UNCHANGED <<reader, outbox, heard, crashed>>

\* Mutant: the reader does not note that the message was written.
WriteSucceedsUnnoticed(k, t) ==
  LET m == reader[k].msg IN
  /\ k \in writing[t]
  /\ ~SocketClosed(t)
  /\ writing' = [writing EXCEPT ![t] = @ \ {k}]
  /\ outbox' = IF Relayed(m) THEN [outbox EXCEPT ![t] = Append(@, m)] ELSE outbox
  /\ UNCHANGED <<reader, heard, crashed>>

\* The socket accepts the message and the reader goes on.
WriteSucceeds(k, t) ==
  LET m == reader[k].msg IN
  /\ k \in writing[t]
  /\ ~SocketClosed(t)
  /\ writing' = [writing EXCEPT ![t] = @ \ {k}]
  /\ Proceed(k, reader[k].at, reader[k].todo \ {t})
  /\ outbox' = IF Relayed(m) THEN [outbox EXCEPT ![t] = Append(@, m)] ELSE outbox
  /\ heard' = IF m.kind = "register" /\ reader[k].at = "writing"
              THEN [heard EXCEPT ![t] = @ \cup {k}]
              ELSE heard
  /\ UNCHANGED crashed

\* handleTextMessage gives up at the first write that fails and the reader
\* reads on, without resetting the timer.  The message of that error names
\* payload.SDPOffer.ToNodeId also when the payload is an ICE offer.
GiveUp(k) ==
  /\ IF reader[k].msg.kind = "ice"
     THEN crashed' = "ice" /\ UNCHANGED reader
     ELSE ReadsOn(k) /\ UNCHANGED crashed
  /\ UNCHANGED <<outbox, heard>>

MayFail(t) == SocketClosed(t) \/ client[t] # "up"

WriteFails(k, t) ==
  /\ k \in writing[t]
  /\ MayFail(t)
  /\ writing' = [writing EXCEPT ![t] = @ \ {k}]
  /\ GiveUp(k)

\* Mutant: WriteJSON fails at once when the proxy is busy.
WriteRefusedWhenBusy(k, t) ==
  /\ WantsToWrite(k, t)
  /\ ~Offers(t)
  /\ GiveUp(k)
  /\ UNCHANGED writing

\* Mutant: a proxy that stops leaves its channel open.
WriteNeverRefused(k, t) == FALSE

\* WriteJSON finds the channel of a proxy that has stopped closed.
WriteRefused(k, t) ==
  /\ WantsToWrite(k, t)
  /\ proxy[t] = "stopped"
  /\ GiveUp(k)
  /\ UNCHANGED writing

\* Mutant: the reader ends without cancelling the context of its proxy.
ProxyIsNotTold(t) == FALSE

\* The reader has ended and cancelled the context of its proxy.
ProxyStops(t) ==
  /\ reader[t].at = "done"
  /\ Offers(t)
  /\ proxy' = [proxy EXCEPT ![t] = "stopped"]
  /\ UNCHANGED <<regvars, client, received, handler, reader, writing, outbox, heard, crashed>>

------------------------------------------------------------------------------

HandlerStep(k) ==
  ServeHTTP(k) \/ TimerFires(k) \/ ReaderEnds(k) \/ CloseSocket(k) \/ Unregister(k)

ReaderStep(k) ==
  /\ \/ ReadMessage(k) \/ ReadFails(k)
     \/ HandleRegister(k) \/ HandleEcho(k) \/ HandleAttributes(k)
     \/ HandleRename(k) \/ HandleRelay(k)
     \/ DumpRegistry(k) \/ WritesDone(k) \/ ResetTimer(k)
  /\ UNCHANGED <<client, handler, proxy, writing, outbox, heard>>

WriteStep(k, t) ==
  /\ TakeOffer(k, t) \/ WriteSucceeds(k, t) \/ WriteFails(k, t) \/ WriteRefused(k, t)
  /\ UNCHANGED <<regvars, client, received, handler, proxy>>

Next ==
  /\ crashed = "no"
  /\ \/ \E k \in Conns : ClientGoes(k) \/ HandlerStep(k) \/ ReaderStep(k) \/ ProxyStops(k)
     \/ \E k, t \in Conns : WriteStep(k, t)

Spec == Init /\ [][Next]_vars

Runs(A) == crashed = "no" /\ A

\* The goroutines are scheduled; the readers that wait for the offer of one
\* proxy are served in the order they came (Go's channel queues), hence strong
\* fairness; a write to a socket ends.  The timer is only sure to fire on a
\* client that is silent: one that still sends keeps resetting it.  Clients
\* need never act.
Fairness ==
  \A k \in Conns :
    /\ WF_vars(Runs(ReaderEnds(k) \/ CloseSocket(k) \/ Unregister(k)))
    /\ WF_vars(Runs(client[k] = "lost" /\ TimerFires(k)))
    /\ WF_vars(Runs(ReaderStep(k)))
    /\ WF_vars(Runs(ProxyStops(k)))
    /\ SF_vars(Runs(\E t \in Conns : WriteStep(k, t)))

FairSpec == Spec /\ Fairness

------------------------------------------------------------------------------
(* Properties.                                                             *)

\* The variables keep their types: in particular every entry has a map of
\* attributes for a rename to write to (connection_registry.go:161-165, 220).
TypeOK ==
  /\ RegTypeOK
  /\ client \in [Conns -> {"none", "up", "left", "lost"}]
  /\ received \in [Conns -> 0..MaxMessages]
  /\ handler \in [Conns -> {"none", "serving", "closing", "closed", "done"}]
  /\ reader \in [Conns -> Reader]
  /\ proxy \in [Conns -> {"none", "running", "stopped"}]
  /\ writing \in [Conns -> SUBSET Conns]
  /\ outbox \in [Conns -> Seq(Message)]
  /\ heard \in [Conns -> SUBSET Conns]
  /\ crashed \in {"no", "rename", "ice", "gcTimer"}

\* The deferred CloseConnection is final (handle_ws.go:201-209): a message the
\* reader was handling, or still finds in its buffer, when the timer closed the
\* connection does not bring the entry back.
NoResurrection == \A k \in Conns : handler[k] = "done" => k \notin keys

\* k is registered, and the broadcast of its last Register is over.
Announced(k) ==
  /\ k \in Reachable
  /\ reader[k].msg.kind = "register" => reader[k].at \notin {"handling", "dumping", "writing"}

Healthy == \A k \in Conns : client[k] \in {"none", "up"} /\ handler[k] \in {"none", "serving"}

\* Each node registers before it takes the snapshot it broadcasts to
\* (handle_ws.go:118-126), so while no connection fails, of two nodes that have
\* both registered at least one was told of the other, however their handlers
\* interleave, and each was told of itself.
PresenceComplete ==
  Healthy => \A k, l \in Conns :
               Announced(k) /\ Announced(l) => l \in heard[k] \/ k \in heard[l]

\* The nil dereferences at handle_ws.go:52 and 247, outside any recover, need a
\* connection that fails or times out: while all connections are healthy the
\* traffic of registered nodes does not end the process.
CrashNeedsFault ==
  /\ crashed \in {"ice", "gcTimer"} => ~Healthy
  /\ crashed = "rename" => \E k \in keys : ~entry[k].named

\* The message on its way: read, and not yet written.
Held(k) ==
  IF Relayed(reader[k].msg) /\ (reader[k].at = "handling" \/ reader[k].todo # {})
  THEN <<reader[k].msg>>
  ELSE <<>>

Relay == INSTANCE LossyRelay WITH
  Peers <- Conns,
  pending <- [k \in Conns |-> Held(k)],
  delivered <- outbox

\* Offers, answers and candidates of one node reach the node they name in the
\* order sent, each at most once (handle_ws.go:172-181, 234-251).
RelaysInOrder == Relay!LSpec

\* A client that closes, or goes silent, is dropped from the registry, whatever
\* its reader is doing (handle_ws.go:254-261).  One that is gone stays gone, so
\* this is what "leads to" would say.
GoneClientsDropped ==
  \A k \in Conns : []<>(client[k] \in {"left", "lost"} => k \notin keys \/ crashed # "no")

\* Readers that wait for one another's proxies always come to an end of their
\* writes, whichever sockets fail, close or stay silent and whichever proxies
\* stop meanwhile, a broadcast to everyone included (ws_proxy.go:26-61,
\* handle_ws.go:254-261).
WritesEnd ==
  \A k \in Conns : []<>(reader[k].at \notin {"writing", "replying"} \/ crashed # "no")

\* No goroutine waits for ever on a peer that is gone: after the client has
\* left, the reader and the proxy end, or the timer had closed the connection
\* first and the reader stays blocked on connErrCh, the one leak there is.
GoroutinesEnd ==
  \A k \in Conns : []<>(client[k] = "left" =>
    \/ reader[k].at = "done" /\ proxy[k] = "stopped"
    \/ reader[k].at = "failed" /\ handler[k] = "done"
    \/ crashed # "no")
==============================================================================
