---------------------------- MODULE AgentRunner -----------------------------
(***************************************************************************)
(* webrtc-agents/pkg/ws_runner: how a bot keeps its connection to the      *)
(* signalling server.                                                      *)
(*                                                                         *)
(* The runner dials, registers, and waits on errCh of the connection; then *)
(* it closes the socket, waits and dials again.  Each connection has       *)
(*   - a loop, which writes pings and what the handler sends, and closes   *)
(*     errCh when it ends;                                                 *)
(*   - a reader, which hands messages over on dataCh and reports a failed  *)
(*     read on errCh, which it does not own;                               *)
(*   - a forwarder from dataCh to the channel of the handler.              *)
(* None of them is waited for: those of an earlier connection may still be *)
(* running when the next one is up, and its loop may still take what the   *)
(* handler sends.                                                          *)
(*                                                                         *)
(* errCh and dataCh have room for one item, the others for none.  A send   *)
(* on a closed channel ends the process.  Cancelling the context, at the   *)
(* end of the process, is left out.                                        *)
(***************************************************************************)
EXTENDS Naturals, Sequences

CONSTANTS
  MaxConns,     \* bound: connections the runner makes
  MaxMessages,  \* bound: messages from the server
  Breaks,       \* what happens to connections: "broken" (closed or reset by
                \* the server), "lost" (reads hang, writes fail in the end)
  Options       \* values of the option --reconnect-on-disconnect

ASSUME MaxConnsAssumption == MaxConns \in Nat
ASSUME MaxMessagesAssumption == MaxMessages \in Nat
ASSUME BreaksAssumption == Breaks \subseteq {"broken", "lost"}
ASSUME OptionsAssumption == Options \subseteq BOOLEAN

\* Goroutines that send through the runner: the handler, which answers offers,
\* and the callbacks of its peer connections.
Senders == {"handler", "callback"}

ConnIds == 1..MaxConns
None == 0     \* no message; messages are numbered from 1 as they are read

VARIABLES
  reconnect,  \* --reconnect-on-disconnect
  runner,     \* "dialing", "serving", "delaying", "ended"
  conns,      \* connections made so far; the runner serves the last
  sock,       \* sock[c]: "none", "open", "broken", "lost", "closed" (by the runner)
  loop,       \* loop[c]: "none", "running", "failing", "ending", "done" (errCh closed)
  reader,     \* reader[c]: "none", "reading", "handing", "failing", "closing", "done"
  item,       \* item[c]: the message the reader is handing over
  dataCh,     \* dataCh[c]: what is in the channel
  errCh,      \* errCh[c]: errors in the channel, 0 or 1
  forwarder,  \* forwarder[c]: the message it is passing on, or none
  sending,    \* senders that wait for a loop to take what they send
  handled,    \* messages the handler got, each with its connection
  count,      \* messages read so far
  crashed

vars == <<reconnect, runner, conns, sock, loop, reader, item, dataCh, errCh, forwarder,
          sending, handled, count, crashed>>

Init ==
  /\ reconnect \in Options
  /\ runner = "dialing"
  /\ conns = 0
  /\ sock = [c \in ConnIds |-> "none"]
  /\ loop = [c \in ConnIds |-> "none"]
  /\ reader = [c \in ConnIds |-> "none"]
  /\ item = [c \in ConnIds |-> None]
  /\ dataCh = [c \in ConnIds |-> <<>>]
  /\ errCh = [c \in ConnIds |-> 0]
  /\ forwarder = [c \in ConnIds |-> None]
  /\ sending = {}
  /\ handled = <<>>
  /\ count = 0
  /\ crashed = "no"

------------------------------------------------------------------------------
(* The runner, and the network.                                            *)

\* After the connection, or after a dial that failed.
Disconnected == runner' = IF reconnect THEN "delaying" ELSE "ended"

\* Dial and register, then start the goroutines of the connection.
Dial(c) ==
  /\ runner = "dialing" /\ c = conns + 1
  /\ runner' = "serving"
  /\ conns' = c
  /\ sock' = [sock EXCEPT ![c] = "open"]
  /\ loop' = [loop EXCEPT ![c] = "running"]
  /\ reader' = [reader EXCEPT ![c] = "reading"]
  /\ UNCHANGED <<item, dataCh, errCh, forwarder, sending, handled, count, crashed>>

\* Mutant: the runner ends when it cannot dial.
DialFailsForGood ==
  /\ runner = "dialing" /\ runner' = "ended"
  /\ UNCHANGED <<conns, sock, loop, reader, item, dataCh, errCh, forwarder, sending,
                 handled, count, crashed>>

DialFails ==
  /\ runner = "dialing" /\ Disconnected
  /\ UNCHANGED <<conns, sock, loop, reader, item, dataCh, errCh, forwarder, sending,
                 handled, count, crashed>>

Delay ==
  /\ runner = "delaying" /\ runner' = "dialing"
  /\ UNCHANGED <<conns, sock, loop, reader, item, dataCh, errCh, forwarder, sending,
                 handled, count, crashed>>

\* `err, ok := <-errCh': an error, or the channel is closed.
GetError(c) ==
  /\ runner = "serving" /\ c = conns
  /\ errCh[c] > 0 \/ loop[c] = "done"
  /\ errCh' = [errCh EXCEPT ![c] = 0]
  /\ sock' = [sock EXCEPT ![c] = "closed"]
  /\ Disconnected
  /\ UNCHANGED <<conns, loop, reader, item, dataCh, forwarder, sending, handled, count, crashed>>

\* The bound on connections: the last one does not break.
Break(c) ==
  /\ sock[c] = "open" /\ c < MaxConns
  /\ \E how \in Breaks : sock' = [sock EXCEPT ![c] = how]
  /\ UNCHANGED <<runner, conns, loop, reader, item, dataCh, errCh, forwarder, sending,
                 handled, count, crashed>>

------------------------------------------------------------------------------
(* The loop of a connection.                                               *)

\* A write to a connection that is down may still be buffered, unless the
\* runner has closed the socket.
MayWrite(c) == sock[c] # "closed"
MayFail(c) == sock[c] # "open"

\* It takes what s sends.  If the write fails, that is lost.
TakeTx(c, s) ==
  /\ loop[c] = "running" /\ s \in sending
  /\ sending' = sending \ {s}
  /\ \/ MayWrite(c) /\ UNCHANGED loop
     \/ MayFail(c) /\ loop' = [loop EXCEPT ![c] = "failing"]
  /\ UNCHANGED <<runner, conns, sock, reader, item, dataCh, errCh, forwarder, handled,
                 count, crashed>>

LoopGoes(c, from, to) ==
  /\ loop[c] = from
  /\ loop' = [loop EXCEPT ![c] = to]
  /\ UNCHANGED <<runner, conns, sock, reader, item, dataCh, forwarder, sending, handled,
                 count, crashed>>

\* Mutant: a ping that fails is left to the next one.
PingFailsUnseen(c) ==
  /\ MayFail(c)
  /\ LoopGoes(c, "running", "running")
  /\ UNCHANGED errCh

PingFails(c) ==
  /\ MayFail(c)
  /\ LoopGoes(c, "running", "failing")
  /\ UNCHANGED errCh

\* Mutant: the loop does not wait for room in errCh.
LoopReportsAnyway(c) ==
  /\ LoopGoes(c, "failing", "ending")
  /\ errCh' = [errCh EXCEPT ![c] = @ + 1]

LoopReports(c) ==
  /\ errCh[c] = 0
  /\ LoopGoes(c, "failing", "ending")
  /\ errCh' = [errCh EXCEPT ![c] = 1]

\* The reader has closed readErrCh, on which it never sends.
ReaderGone(c) ==
  /\ reader[c] = "done"
  /\ LoopGoes(c, "running", "ending")
  /\ UNCHANGED errCh

\* The deferred close(errCh).  A reader that waits to send on it panics.
LoopEnds(c) == LoopGoes(c, "ending", "done") /\ UNCHANGED errCh

------------------------------------------------------------------------------
(* The reader, the forwarder and the handler.                              *)

Read(c) ==
  /\ reader[c] = "reading" /\ sock[c] \in {"open", "broken"}
  /\ count < MaxMessages
  /\ count' = count + 1
  /\ reader' = [reader EXCEPT ![c] = "handing"]
  /\ item' = [item EXCEPT ![c] = count']
  /\ UNCHANGED <<runner, conns, sock, loop, dataCh, errCh, forwarder, sending, handled, crashed>>

\* Mutant: a queue that gives the last message first.
HandToStack(c) ==
  /\ reader[c] = "handing"
  /\ dataCh' = [dataCh EXCEPT ![c] = <<item[c]>> \o @]
  /\ reader' = [reader EXCEPT ![c] = "reading"]
  /\ item' = [item EXCEPT ![c] = None]
  /\ UNCHANGED <<runner, conns, sock, loop, errCh, forwarder, sending, handled, count, crashed>>

Hand(c) ==
  /\ reader[c] = "handing" /\ dataCh[c] = <<>>
  /\ dataCh' = [dataCh EXCEPT ![c] = <<item[c]>>]
  /\ reader' = [reader EXCEPT ![c] = "reading"]
  /\ item' = [item EXCEPT ![c] = None]
  /\ UNCHANGED <<runner, conns, sock, loop, errCh, forwarder, sending, handled, count, crashed>>

ReadFails(c) ==
  /\ reader[c] = "reading" /\ sock[c] \in {"broken", "closed"}
  /\ reader' = [reader EXCEPT ![c] = "failing"]
  /\ UNCHANGED <<runner, conns, sock, loop, item, dataCh, errCh, forwarder, sending, handled,
                 count, crashed>>

\* Mutant: the reader reports the error, and reads on.
ReaderReadsOn(c) ==
  /\ reader[c] = "failing"
  /\ loop[c] # "done" /\ errCh[c] = 0
  /\ errCh' = [errCh EXCEPT ![c] = 1]
  /\ reader' = [reader EXCEPT ![c] = "reading"]
  /\ UNCHANGED <<runner, conns, sock, loop, item, dataCh, forwarder, sending, handled, count,
                 crashed>>

\* `errCh <- err'.
ReaderReports(c) ==
  /\ reader[c] = "failing"
  /\ \/ /\ loop[c] = "done"
        /\ crashed' = "errCh"
        /\ UNCHANGED <<reader, errCh>>
     \/ /\ loop[c] # "done" /\ errCh[c] = 0
        /\ errCh' = [errCh EXCEPT ![c] = 1]
        /\ reader' = [reader EXCEPT ![c] = "closing"]
        /\ UNCHANGED crashed
  /\ UNCHANGED <<runner, conns, sock, loop, item, dataCh, forwarder, sending, handled, count>>

\* The deferred closes of dataCh, and of readErrCh, which ends the loop.
ReaderCloses(c) ==
  /\ reader[c] = "closing"
  /\ reader' = [reader EXCEPT ![c] = "done"]
  /\ UNCHANGED <<runner, conns, sock, loop, item, dataCh, errCh, forwarder, sending, handled,
                 count, crashed>>

Forward(c) ==
  /\ forwarder[c] = None /\ dataCh[c] # <<>>
  /\ forwarder' = [forwarder EXCEPT ![c] = Head(dataCh[c])]
  /\ dataCh' = [dataCh EXCEPT ![c] = Tail(@)]
  /\ UNCHANGED <<runner, conns, sock, loop, reader, item, errCh, sending, handled, count, crashed>>

\* The handler takes the message, and may have an answer to send before it
\* takes the next.
Receive(c) ==
  /\ forwarder[c] # None /\ runner # "ended" /\ "handler" \notin sending
  /\ handled' = Append(handled, [conn |-> c, n |-> forwarder[c]])
  /\ forwarder' = [forwarder EXCEPT ![c] = None]
  /\ sending' \in {sending, sending \cup {"handler"}}
  /\ UNCHANGED <<runner, conns, sock, loop, reader, item, dataCh, errCh, count, crashed>>

\* The runner has closed the channel of the handler.
ReceiveClosed(c) ==
  /\ forwarder[c] # None /\ runner = "ended"
  /\ crashed' = "outputDataCh"
  /\ UNCHANGED <<runner, conns, sock, loop, reader, item, dataCh, errCh, forwarder, sending,
                 handled, count>>

CallbackSends ==
  /\ sending' = sending \cup {"callback"}
  /\ UNCHANGED <<runner, conns, sock, loop, reader, item, dataCh, errCh, forwarder, handled,
                 count, crashed>>

------------------------------------------------------------------------------

RunnerStep == DialFails \/ Delay \/ \E c \in ConnIds : Dial(c) \/ GetError(c)
LoopStep(c) == PingFails(c) \/ LoopReports(c) \/ ReaderGone(c) \/ LoopEnds(c)
ReaderStep(c) == Read(c) \/ Hand(c) \/ ReadFails(c) \/ ReaderReports(c) \/ ReaderCloses(c)
ForwarderStep(c) == Forward(c) \/ Receive(c) \/ ReceiveClosed(c)

Next ==
  /\ crashed = "no"
  /\ \/ RunnerStep \/ CallbackSends
     \/ \E c \in ConnIds :
          \/ Break(c) \/ LoopStep(c) \/ ReaderStep(c) \/ ForwarderStep(c)
          \/ \E s \in Senders : TakeTx(c, s)
  /\ UNCHANGED reconnect

Spec == Init /\ [][Next]_vars

Runs(A) == crashed = "no" /\ A /\ UNCHANGED reconnect

\* The goroutines are scheduled, and the server can be dialled again and again
\* until a dial succeeds.  A loop's select, and the queue of the senders on the
\* channel, serve each sender that keeps waiting; a ping that is written to a
\* connection that stays down fails in the end.
Fairness ==
  /\ WF_vars(Runs(Delay))
  /\ \A c \in ConnIds :
       /\ SF_vars(Runs(Dial(c)))
       /\ WF_vars(Runs(GetError(c)))
       /\ WF_vars(Runs(LoopStep(c)))
       /\ WF_vars(Runs(Hand(c) \/ ReadFails(c) \/ ReaderReports(c) \/ ReaderCloses(c)))
       /\ SF_vars(Runs(ForwarderStep(c)))
       /\ \A s \in Senders : SF_vars(Runs(TakeTx(c, s)))

FairSpec == Spec /\ Fairness

------------------------------------------------------------------------------
(* Properties.                                                             *)

\* The variables keep their types: in particular the buffer of errCh
\* (websocket.go:203), one error long, is never overfilled.
TypeOK ==
  /\ reconnect \in BOOLEAN
  /\ runner \in {"dialing", "serving", "delaying", "ended"}
  /\ conns \in 0..MaxConns
  /\ sock \in [ConnIds -> {"none", "open", "broken", "lost", "closed"}]
  /\ loop \in [ConnIds -> {"none", "running", "failing", "ending", "done"}]
  /\ reader \in [ConnIds -> {"none", "reading", "handing", "failing", "closing", "done"}]
  /\ item \in [ConnIds -> 0..MaxMessages]
  /\ dataCh \in [ConnIds -> Seq(1..MaxMessages)]
  /\ errCh \in [ConnIds -> {0, 1}]
  /\ forwarder \in [ConnIds -> 0..MaxMessages]
  /\ sending \subseteq Senders
  /\ handled \in Seq([conn : ConnIds, n : 1..MaxMessages])
  /\ count \in 0..MaxMessages
  /\ crashed \in {"no", "errCh", "outputDataCh"}

\* The handler sees the messages of one connection in the order they were
\* read, through two channels and a goroutine that outlives the connection.
\* Across connections it may not (websocket.go:145-149, 231).
HandledInOrder ==
  \A i, j \in 1..Len(handled) :
    i < j /\ handled[i].conn = handled[j].conn => handled[i].n < handled[j].n

\* The loop of an earlier connection may steal what the handler sends, and lose
\* it; but its reader has given up, and tells it to end (websocket.go:151-155,
\* 211-219, 270-275).
StaleLoopsEnding ==
  \A c \in ConnIds : c < conns /\ loop[c] = "running" => reader[c] \in {"closing", "done"}

\* A connection that is down is noticed and given up, by its reader or by a
\* ping that fails (websocket.go:151-155, 249-265).
DeadConnectionsGivenUp ==
  \A c \in ConnIds : sock[c] \in {"broken", "lost"} ~> sock[c] = "closed" \/ crashed # "no"

\* The handler and the callbacks do not hang on a connection that is gone:
\* what they send is taken, if only by the loop of the next connection, when
\* the agent is told to reconnect (websocket.go:157-171, 242-248).
SendersGoOn ==
  \A s \in Senders : reconnect /\ s \in sending ~> s \notin sending \/ crashed # "no"

\* README.md:190: "restarting it wipes the peer list (peers will reconnect
\* automatically)": a bot that is told to reconnect survives the restart.
SurvivesRestart == crashed = "no"
==============================================================================
