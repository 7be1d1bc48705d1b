-------------------------------- MODULE Bots --------------------------------
(***************************************************************************)
(* webrtc-agents/pkg/handlers and msgs_store: what the bots do with the    *)
(* commands they get on chat channels.                                     *)
(*                                                                         *)
(* An agent is one bot: a clock, a counter or a chat bot.  The messages of *)
(* a channel are handled one after the other; those of different channels, *)
(* of one peer or of several, at once.  So are the callbacks of channels   *)
(* that open or close, and the clocks.  What they share:                   *)
(*   - the counters, a sync.Map by peer;                                   *)
(*   - the history, one pointer to the messages of all peers, exchanged    *)
(*     for a copy with one message more by compare-and-swap;               *)
(*   - the cancel functions of the clocks, a sync.Map by peer.             *)
(* Commands are numbered as they are read, and a clock has the number of   *)
(* its command.  Acknowledgements and help texts change no state and are   *)
(* left out.                                                               *)
(***************************************************************************)
EXTENDS Naturals, Sequences, FiniteSets

CONSTANTS
  Kinds,        \* the bots to look at, of "clock", "counter", "chat"
  Chats,        \* chat channels
  Peers,        \* remote nodes
  MaxCommands,  \* bound: commands of the counter and the chat bot
  MaxClocks,    \* bound: commands of the clock
  MaxRetries    \* 10000 in the code

ASSUME KindsAssumption == Kinds \subseteq {"clock", "counter", "chat"}
ASSUME BoundsAssumption == MaxCommands \in Nat /\ MaxClocks \in Nat /\ MaxRetries \in Nat

Clocks == 1..MaxClocks
None == 0
ASSUME ChatsAssumption == Chats \cap Nat = {} /\ None \notin Peers

VARIABLES
  bot, peer,   \* which bot this is; peer[c]: the peer of channel c
  read,        \* commands read so far
  job,         \* job[c]: the command in hand, and the step it is at
  seen,        \* seen[c]: what job[c] has loaded, a counter or the history
  tries,       \* tries[c]: failed swaps of the Append in hand
  counter,     \* counter[p]
  history,     \* history[p]: the messages from and to p
  answers,     \* the answers of the counter and of the chat bot
  cancelFn,    \* cancelFn[p]: the clock whose cancel function is stored, or None
  clock,       \* clock[n]: the clock, and its message stream
  stop,        \* stop[x]: the goroutine of OnClose of channel or stream x
  gone         \* the peers that have disconnected for good

vars ==
  <<bot, peer, read, job, seen, tries, counter, history, answers, cancelFn, clock, stop, gone>>
counterVars == <<counter>>
chatVars == <<history, tries>>
clockVars == <<cancelFn, clock, stop>>

NoClock ==
  [peer |-> None, cancelled |-> FALSE, stream |-> "none", updates |-> "none",
   raced |-> FALSE]   \* history: no action reads it

Init ==
  /\ bot \in Kinds /\ peer \in [Chats -> Peers]
  /\ read = 0
  /\ job = [c \in Chats |-> [n |-> None, at |-> "idle"]]
  /\ seen = [c \in Chats |-> None]
  /\ tries = [c \in Chats |-> 0]
  /\ counter = [p \in Peers |-> 0]
  /\ history = [p \in Peers |-> <<>>]
  /\ answers = <<>>
  /\ cancelFn = [p \in Peers |-> None]
  /\ clock = [n \in Clocks |-> NoClock]
  /\ stop = [x \in Chats \cup Clocks |-> "none"]
  /\ gone = {}

\* A command arrives, and goes to its first step.
Reads(c, first) ==
  /\ job[c].at = "idle" /\ stop[c] = "none"
  /\ read < (IF bot = "clock" THEN MaxClocks ELSE MaxCommands)
  /\ read' = read + 1
  /\ job' = [job EXCEPT ![c] = [n |-> read', at |-> first]]
  /\ UNCHANGED <<seen, answers, counterVars, chatVars, clockVars>>

ReadNow(c) == bot = "clock" /\ Reads(c, "stopping")
ReadCounterCommand(c) == bot = "counter" /\ (Reads(c, "loading") \/ Reads(c, "resetting"))
ReadQuestion(c) == bot = "chat" /\ Reads(c, "asking")

JobGoes(c, from, to) == job[c].at = from /\ job' = [job EXCEPT ![c].at = to]

Answered(c, command, value) ==
  answers' = Append(answers, [peer |-> peer[c], command |-> command, value |-> value])

------------------------------------------------------------------------------
(* The counter.                                                            *)

\* `LoadOrStore': a counter that is not there is 0.
LoadCounter(c) ==
  /\ JobGoes(c, "loading", "swapping")
  /\ seen' = [seen EXCEPT ![c] = counter[peer[c]]]
  /\ UNCHANGED <<read, answers, counterVars, chatVars, clockVars>>

\* Mutant: the new value is stored whatever the counter is now.
StoreCounter(c) ==
  /\ JobGoes(c, "swapping", "idle")
  /\ counter' = [counter EXCEPT ![peer[c]] = seen[c] + 1]
  /\ Answered(c, "increase", seen[c] + 1)
  /\ UNCHANGED <<read, seen, chatVars, clockVars>>

\* `CompareAndSwap', and back if the counter has changed.
SwapCounter(c) ==
  /\ job[c].at = "swapping"
  /\ IF counter[peer[c]] = seen[c]
     THEN /\ JobGoes(c, "swapping", "idle")
          /\ counter' = [counter EXCEPT ![peer[c]] = seen[c] + 1]
          /\ Answered(c, "increase", seen[c] + 1)
     ELSE JobGoes(c, "swapping", "loading") /\ UNCHANGED <<counter, answers>>
  /\ UNCHANGED <<read, seen, chatVars, clockVars>>

ResetCounter(c) ==
  /\ JobGoes(c, "resetting", "idle")
  /\ counter' = [counter EXCEPT ![peer[c]] = 0]
  /\ Answered(c, "reset", 0)
  /\ UNCHANGED <<read, seen, chatVars, clockVars>>

------------------------------------------------------------------------------
(* The chat bot.  "asking" and "asking-swap" append the user's message,    *)
(* "telling" and "telling-swap" the bot's.                                 *)

Message(c, from) == [n |-> job[c].n, from |-> from]

\* Append loads the history, and copies it.
LoadHistory(c, at, swap) ==
  /\ JobGoes(c, at, swap)
  /\ seen' = [seen EXCEPT ![c] = history]
  /\ UNCHANGED <<read, answers, counterVars, chatVars, clockVars>>

\* Mutant: the copy is stored, whatever the history is now.
StoreHistory(c, from, at, swap, next) ==
  /\ JobGoes(c, swap, next)
  /\ history' = [seen[c] EXCEPT ![peer[c]] = Append(@, Message(c, from))]
  /\ tries' = [tries EXCEPT ![c] = 0]
  /\ IF next = "idle" THEN Answered(c, "chat", job[c].n) ELSE UNCHANGED answers
  /\ UNCHANGED <<read, seen, counterVars, clockVars>>

\* CompareAndSwap of the pointer.  No two histories are equal, since they grow.
\* After MaxRetries it gives up, and the bot says nothing.
SwapHistory(c, from, at, swap, next) ==
  /\ job[c].at = swap
  /\ IF history = seen[c]
     THEN /\ JobGoes(c, swap, next)
          /\ history' = [history EXCEPT ![peer[c]] = Append(@, Message(c, from))]
          /\ tries' = [tries EXCEPT ![c] = 0]
          /\ IF next = "idle" THEN Answered(c, "chat", job[c].n) ELSE UNCHANGED answers
     ELSE /\ JobGoes(c, swap, IF tries[c] + 1 < MaxRetries THEN at ELSE "idle")
          /\ tries' = [tries EXCEPT ![c] = IF @ + 1 < MaxRetries THEN @ + 1 ELSE 0]
          /\ UNCHANGED <<history, answers>>
  /\ UNCHANGED <<read, seen, counterVars, clockVars>>

AppendQuestion(c) ==
  \/ LoadHistory(c, "asking", "asking-swap")
  \/ SwapHistory(c, "user", "asking", "asking-swap", "generating")

\* The language model gets the history of the peer as it is now.
Generate(c) ==
  /\ JobGoes(c, "generating", "telling")
  /\ seen' = [seen EXCEPT ![c] = history[peer[c]]]
  /\ UNCHANGED <<read, answers, counterVars, chatVars, clockVars>>

AppendAnswer(c) ==
  \/ LoadHistory(c, "telling", "telling-swap")
  \/ SwapHistory(c, "bot", "telling", "telling-swap", "idle")

------------------------------------------------------------------------------
(* The clock.                                                              *)

\* stopClockUpdater, first part: load the cancel function, and call it.
Cancel(p) ==
  IF cancelFn[p] = None THEN UNCHANGED clock
  ELSE clock' = [clock EXCEPT ![cancelFn[p]].cancelled = TRUE]

\* Second part: delete what is stored by now.
DeleteCancelFn(p) == cancelFn' = [cancelFn EXCEPT ![p] = None]

\* Mutant: /now does not stop the clock that runs.
StopNothing(c) ==
  /\ JobGoes(c, "stopping", "storing")
  /\ UNCHANGED <<read, seen, answers, counterVars, chatVars, clockVars>>

\* startClock stops the clock that is stored, ...
StopOld(c) ==
  /\ JobGoes(c, "stopping", IF cancelFn[peer[c]] = None THEN "storing" ELSE "deleting")
  /\ Cancel(peer[c])
  /\ UNCHANGED <<read, seen, answers, cancelFn, stop, counterVars, chatVars>>

DeleteOld(c) ==
  /\ JobGoes(c, "deleting", "storing")
  /\ DeleteCancelFn(peer[c])
  /\ UNCHANGED <<read, seen, answers, clock, stop, counterVars, chatVars>>

PeerOf(x) == IF x \in Chats THEN peer[x] ELSE clock[x].peer

\* Another channel of the peer is about to store a clock, or to delete whatever
\* is stored: one with a command, or an OnClose.
Racing(c) ==
  \/ \E d \in Chats \ {c} : peer[d] = peer[c] /\ job[d].at \in {"deleting", "storing"}
  \/ \E x \in Chats \cup Clocks : PeerOf(x) = peer[c] /\ stop[x] = "deleting"

\* Mutant: the key is the same for all peers.
StoreForAll(c) ==
  /\ JobGoes(c, "storing", "creating")
  /\ cancelFn' = [p \in Peers |-> job[c].n]
  /\ clock' = [clock EXCEPT ![job[c].n] = [NoClock EXCEPT !.peer = peer[c], !.raced = Racing(c)]]
  /\ UNCHANGED <<read, seen, answers, stop, counterVars, chatVars>>

\* ... stores the new one, ...
StoreNew(c) ==
  /\ JobGoes(c, "storing", "creating")
  /\ cancelFn' = [cancelFn EXCEPT ![peer[c]] = job[c].n]
  /\ clock' = [clock EXCEPT ![job[c].n] = [NoClock EXCEPT !.peer = peer[c], !.raced = Racing(c)]]
  /\ UNCHANGED <<read, seen, answers, stop, counterVars, chatVars>>

\* ... and makes its message stream, or cancels it, as when the peer has gone.
CreateStream(c) ==
  /\ JobGoes(c, "creating", "idle")
  /\ \/ /\ peer[c] \notin gone
        /\ clock' = [clock EXCEPT ![job[c].n].stream = "opening"]
     \/ clock' = [clock EXCEPT ![job[c].n].cancelled = TRUE]
  /\ UNCHANGED <<read, seen, answers, cancelFn, stop, counterVars, chatVars>>

\* OnOpen starts the updates.
StreamOpens(n) ==
  /\ clock[n].stream = "opening"
  /\ clock' = [clock EXCEPT ![n].stream = "open", ![n].updates = "ticking"]
  /\ UNCHANGED <<read, job, seen, answers, cancelFn, stop, counterVars, chatVars>>

\* Mutant: an update that cannot be sent is skipped.
UpdatesEndIfCancelled(n) ==
  /\ clock[n].updates = "ticking" /\ clock[n].cancelled
  /\ clock' = [clock EXCEPT ![n].updates = "ended"]
  /\ UNCHANGED <<read, job, seen, answers, cancelFn, stop, counterVars, chatVars>>

\* The context is cancelled, or an update cannot be sent.
UpdatesEnd(n) ==
  /\ clock[n].updates = "ticking" /\ (clock[n].cancelled \/ clock[n].stream = "closed")
  /\ clock' = [clock EXCEPT ![n].updates = "ended"]
  /\ UNCHANGED <<read, job, seen, answers, cancelFn, stop, counterVars, chatVars>>

\* A stream, or a chat channel that has no command in hand, closes.  OnClose, on
\* its own goroutine, stops the clock of the peer.
StreamCloses(n) ==
  /\ clock[n].stream \in {"opening", "open"}
  /\ clock' = [clock EXCEPT ![n].stream = "closed"]
  /\ stop' = [stop EXCEPT ![n] = "stopping"]
  /\ UNCHANGED <<read, job, seen, answers, cancelFn, counterVars, chatVars>>

ChatCloses(c) ==
  /\ bot = "clock" /\ stop[c] = "none" /\ job[c].at = "idle"
  /\ stop' = [stop EXCEPT ![c] = "stopping"]
  /\ UNCHANGED <<read, job, seen, answers, cancelFn, clock, counterVars, chatVars>>

OnCloseCancels(x) ==
  /\ stop[x] = "stopping"
  /\ Cancel(PeerOf(x))
  /\ stop' = [stop EXCEPT ![x] = IF cancelFn[PeerOf(x)] = None THEN "done" ELSE "deleting"]
  /\ UNCHANGED <<read, job, seen, answers, cancelFn, counterVars, chatVars>>

OnCloseDeletes(x) ==
  /\ stop[x] = "deleting"
  /\ DeleteCancelFn(PeerOf(x))
  /\ stop' = [stop EXCEPT ![x] = "done"]
  /\ UNCHANGED <<read, job, seen, answers, clock, counterVars, chatVars>>

\* The connections of p are closed, and with them, sooner or later, its streams.
Disconnects(p) ==
  /\ bot = "clock" /\ p \notin gone
  /\ gone' = gone \cup {p}
  /\ UNCHANGED <<bot, peer, read, job, seen, answers, counterVars, chatVars, clockVars>>

------------------------------------------------------------------------------

CounterStep(c) == LoadCounter(c) \/ SwapCounter(c) \/ ResetCounter(c)
ChatStep(c) == AppendQuestion(c) \/ Generate(c) \/ AppendAnswer(c)
ClockStep(c) == StopOld(c) \/ DeleteOld(c) \/ StoreNew(c) \/ CreateStream(c)
JobStep(c) == CounterStep(c) \/ ChatStep(c) \/ ClockStep(c)

Next ==
  \/ /\ \/ \E c \in Chats :
             ReadNow(c) \/ ReadCounterCommand(c) \/ ReadQuestion(c) \/ JobStep(c) \/ ChatCloses(c)
        \/ \E n \in Clocks : StreamOpens(n) \/ UpdatesEnd(n) \/ StreamCloses(n)
        \/ \E x \in Chats \cup Clocks : OnCloseCancels(x) \/ OnCloseDeletes(x)
     /\ UNCHANGED <<bot, peer, gone>>
  \/ \E p \in Peers : Disconnects(p)

Spec == Init /\ [][Next]_vars

\* The goroutines of the clocks and of OnClose are scheduled, and pion closes the
\* open streams of a peer that has gone.
Fairness ==
  /\ \A n \in Clocks :
       /\ WF_vars(UpdatesEnd(n) /\ UNCHANGED <<bot, peer, gone>>)
       /\ WF_vars(/\ clock[n].peer \in gone /\ clock[n].stream = "open"
                  /\ StreamCloses(n) /\ UNCHANGED <<bot, peer, gone>>)
  /\ \A x \in Chats \cup Clocks :
       WF_vars((OnCloseCancels(x) \/ OnCloseDeletes(x)) /\ UNCHANGED <<bot, peer, gone>>)

FairSpec == Spec /\ Fairness

------------------------------------------------------------------------------
(* Properties.                                                             *)

JobSteps ==
  {"idle", "loading", "swapping", "resetting", "asking", "asking-swap", "generating",
   "telling", "telling-swap", "stopping", "deleting", "storing", "creating"}

\* The variables keep their types (seen has that of what was loaded); a cancel
\* function is that of a clock of the peer.
TypeOK ==
  /\ bot \in Kinds /\ peer \in [Chats -> Peers] /\ read \in Nat
  /\ job \in [Chats -> [n : 0..read, at : JobSteps]]
  /\ DOMAIN seen = Chats /\ tries \in [Chats -> 0..MaxRetries]
  /\ counter \in [Peers -> Nat]
  /\ history \in [Peers -> Seq([n : 1..read, from : {"user", "bot"}])]
  /\ answers \in Seq([peer : Peers, command : {"increase", "reset", "chat"}, value : Nat])
  /\ cancelFn \in [Peers -> Clocks \cup {None}]
  /\ clock \in [Clocks -> [peer : Peers \cup {None}, cancelled : BOOLEAN,
                             stream : {"none", "opening", "open", "closed"},
                             updates : {"none", "ticking", "ended"}, raced : BOOLEAN]]
  /\ stop \in [Chats \cup Clocks -> {"none", "stopping", "deleting", "done"}]
  /\ gone \subseteq Peers
  /\ \A p \in Peers : cancelFn[p] # None => clock[cancelFn[p]].peer = p

\* Increases since the last reset of p, before the i-th answer.
IncreasesBefore(i, p) ==
  Cardinality({j \in 1..(i - 1) :
    /\ answers[j].peer = p /\ answers[j].command = "increase"
    /\ \A k \in j..i : ~(answers[k].peer = p /\ answers[k].command = "reset")})

\* "Your counter is personal" (counter_dc_handler.go:126): each /increase of a
\* peer is told the number of its increases since the last reset, however those
\* of several channels interleave (lines 130-148).
IncreasesCounted ==
  \A i \in 1..Len(answers) :
    answers[i].command = "increase" =>
      answers[i].value = 1 + IncreasesBefore(i, answers[i].peer)

Positions(p, m) == {i \in 1..Len(history[p]) : history[p][i] = m}

\* Each message is in the history of its peer once, the answer after the
\* question; whoever has been answered finds both there, and nobody's message
\* is lost to another's (msgs_store.go:55-79, chatbot_dc_handler.go:158-173).
HistoryKept ==
  /\ \A p \in Peers : \A i, j \in 1..Len(history[p]) : history[p][i] = history[p][j] => i = j
  /\ \A i \in 1..Len(answers) :
       answers[i].command = "chat" =>
         \E q \in Positions(answers[i].peer, [n |-> answers[i].value, from |-> "user"]),
            a \in Positions(answers[i].peer, [n |-> answers[i].value, from |-> "bot"]) : q < a

\* A clock that has not been stopped can still be: its cancel function is the one
\* that is stored, whatever channels and streams of the peer opened, closed and
\* asked for clocks since, unless another one of them had already loaded what
\* was stored, and was to replace or to delete it, when the clock was stored.  So
\* a peer has one clock, and one more for each such race
\* (clockbot_dc_handler.go:116-124, 214-223).
OneClock ==
  \A n \in Clocks :
    clock[n].peer # None /\ ~clock[n].cancelled /\ ~clock[n].raced =>
      cancelFn[clock[n].peer] = n

\* "The clock will continue updating until you ... disconnect" (line 112): the
\* clocks of a peer that has gone all end, also one whose cancel function a race
\* has lost, and one whose stream was being made (lines 148-157, 205-208).
ClocksEnd ==
  \A p \in Peers :
    <>[](p \in gone => \A n \in Clocks : clock[n].peer = p => clock[n].updates # "ticking")

==============================================================================
