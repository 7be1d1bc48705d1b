--------------------------- MODULE PeerSignalling ---------------------------
(***************************************************************************)
(* webrtc-agents/pkg/handlers: the peer connections an agent has, one      *)
(* after the other, with one remote node.                                  *)
(*                                                                         *)
(* The entry of the remote node in the store of peer connections is shared *)
(* by                                                                      *)
(*   - Serve, the one goroutine that handles messages in their order;      *)
(*   - the callbacks of a connection's state, each on a goroutine of its   *)
(*     own (pion calls them with `go'), which restart ICE, give a          *)
(*     connection up, and forget the entry when it is closed;              *)
(*   - the chat channel of each connection, on which the track bot gets    *)
(*     /play, adds a track and makes an offer for it.                      *)
(* Entries of other nodes share nothing but Serve with this one.  A call   *)
(* of the store is atomic (module AtomicMap).  What is sent on             *)
(* signallingTx is taken sooner or later (module AgentRunner).             *)
(*                                                                         *)
(* The peer connection is pion's: its signalling state decides which       *)
(* descriptions it takes, and ICE makes it connect, disconnect and fail.   *)
(***************************************************************************)
EXTENDS Naturals, Sequences, FiniteSets

CONSTANTS
  MaxConns,               \* bound: connections the agent makes
  MaxInputs,              \* bound: offers, candidates and /play commands
  MaxPlays,               \* bound: /play commands in hand at a time
  MaxAtWork,              \* bound: callbacks and /play commands when one more begins
  MaxICERestartAttempts   \* 3 in the code

ASSUME BoundsAssumption ==
  /\ MaxConns \in Nat /\ MaxInputs \in Nat
  /\ MaxPlays \in Nat /\ MaxAtWork \in Nat /\ MaxICERestartAttempts \in Nat

ConnIds == 1..MaxConns
Plays == 1..MaxPlays
None == 0

\* An SDP message: an offer, one that restarts ICE, one that cannot be parsed,
\* or an answer to an offer of the agent.
SDPKinds == {"offer", "restart", "garbled", "answer"}

\* Where a callback of the connection's state is.
CallbackSteps == {"waiting", "attempting", "offering", "sending", "deleting", "closing",
                  "resetting", "forgetting"}

VARIABLES
  store,       \* the connection in the entry of the remote node, or None
  conns,       \* connections made so far
  pc,          \* pc[c]: a connection and the rest of its entry
  callbacks,   \* callbacks[c][s]: the callbacks of c at step s
  serve,       \* Serve: its step, the entry and the kind of message in hand
  play,        \* play[h]: a /play on a chat channel: its step and the entry in hand
  asked,       \* does the remote node have an offer to answer?
  inputs,      \* inputs so far; a candidate has the number of its input
  past         \* past[c]: the connections that were not done when c was made, and the
               \* one that took the entry of c (history: no action reads it)

vars == <<store, conns, pc, callbacks, serve, play, asked, inputs, past>>

Idle == [at |-> "idle", entry |-> None, msg |-> "offer"]
NoPlay == [at |-> "idle", entry |-> None]

NewEntry ==
  [sig |-> "stable", ice |-> "new", described |-> FALSE, offered |-> FALSE,
   queued |-> <<>>, applied |-> <<>>, attempts |-> 0, senders |-> 0, current |-> FALSE,
   races |-> 0]   \* history: no action reads it

Init ==
  /\ store = None /\ conns = 0
  /\ pc = [c \in ConnIds |-> NewEntry]
  /\ callbacks = [c \in ConnIds |-> [s \in CallbackSteps |-> 0]]
  /\ serve = Idle
  /\ play = [h \in Plays |-> NoPlay]
  /\ past = [c \in ConnIds |-> [older |-> {}, taker |-> None]]
  /\ asked = FALSE
  /\ inputs = 0

------------------------------------------------------------------------------
(* pion.                                                                   *)

Made(c) == c \in 1..conns
Open(c) == Made(c) /\ pc[c].sig # "closed"

\* The callback of c at `from' goes on to `to'; None is its start or its end.
CallbackMoves(c, from, to) ==
  callbacks' = [callbacks EXCEPT ![c] =
    [s \in CallbackSteps |-> IF s = to THEN @[s] + 1 ELSE IF s = from THEN @[s] - 1 ELSE @[s]]]

NoCallback == "none"

At(c, s) == callbacks[c][s] > 0

CallbacksOf(c) == {s \in CallbackSteps : At(c, s)}

\* It has a callback, or may yet have one.
Unfinished(c) == Open(c) \/ CallbacksOf(c) # {}

\* A bound: nothing begins beside MaxAtWork callbacks and commands, whosever.
RoomForWork ==
  /\ Cardinality({w \in ConnIds \X CallbackSteps : At(w[1], w[2])})
     + Cardinality({h \in Plays : play[h].at # "idle"}) < MaxAtWork
  /\ \A c \in ConnIds, s \in CallbackSteps : callbacks[c][s] < MaxAtWork

\* The entry is deleted for c, whosever it is: history.
Takes(c) ==
  past' = IF store = None THEN past ELSE [past EXCEPT ![store].taker = c]

\* SetLocalDescription of an offer.  pion refuses one in have-remote-offer; we
\* leave open whether it takes a second one in have-local-offer.
MaySetOffer(c) == Open(c) /\ pc[c].sig \in {"stable", "have-local-offer"}
MayRefuseOffer(c) == pc[c].sig # "stable"

\* SetRemoteDescription.
MaySetRemote(c, kind) ==
  Open(c) /\ pc[c].sig = IF kind = "answer" THEN "have-local-offer" ELSE "stable"

\* ICE connects when descriptions have been exchanged.
Connects(c) ==
  /\ Open(c) /\ pc[c].described /\ pc[c].sig = "stable"
  /\ pc[c].ice # "connected" /\ RoomForWork
  /\ pc' = [pc EXCEPT ![c].ice = "connected"]
  /\ CallbackMoves(c, NoCallback, "resetting")
  /\ UNCHANGED <<store, conns, serve, play, asked, inputs, past>>

Disconnects(c) ==
  /\ Open(c) /\ pc[c].ice = "connected" /\ RoomForWork
  /\ pc' = [pc EXCEPT ![c].ice = "disconnected"]
  /\ CallbackMoves(c, NoCallback, "waiting")
  /\ UNCHANGED <<store, conns, serve, play, asked, inputs, past>>

\* Its timers give up on the candidates.
Fails(c) ==
  /\ Open(c) /\ pc[c].described /\ pc[c].ice \in {"new", "connecting", "disconnected"}
  /\ RoomForWork
  /\ pc' = [pc EXCEPT ![c].ice = "failed"]
  /\ CallbackMoves(c, NoCallback, "attempting")
  /\ UNCHANGED <<store, conns, serve, play, asked, inputs, past>>

\* pion has neither senders nor candidates for a closed connection.
Closed(entry) ==
  [entry EXCEPT !.sig = "closed", !.ice = "closed", !.applied = <<>>, !.senders = 0]

------------------------------------------------------------------------------
(* Serve.                                                                  *)

\* handleSDPOffer, up to the append to RemoteOffers: it makes the entry before
\* it knows what the message is.
GetEntry(kind) ==
  /\ serve.at = "idle"
  /\ IF kind = "answer" THEN asked /\ UNCHANGED inputs
     ELSE inputs < MaxInputs /\ inputs' = inputs + 1
  /\ asked' = (asked /\ kind # "answer")
  /\ \E c \in ConnIds :
       /\ IF store # None THEN c = store /\ UNCHANGED <<store, conns, past>>
          ELSE /\ c = conns + 1 /\ store' = c /\ conns' = c
               /\ past' = [past EXCEPT ![c].older = {d \in 1..conns : Unfinished(d)}]
       /\ IF kind = "garbled" THEN UNCHANGED <<pc, serve>>
          ELSE /\ pc' = [pc EXCEPT ![c].offered = TRUE]
               /\ serve' = [at |-> "describing", entry |-> c, msg |-> kind]
  /\ UNCHANGED <<callbacks, play>>

\* SetRemoteDescription.  A restart offer drops the candidates in the queue.
Describe ==
  /\ serve.at = "describing"
  /\ LET c == serve.entry
         kind == serve.msg IN
     \/ /\ ~MaySetRemote(c, kind)
        /\ serve' = Idle /\ UNCHANGED pc
     \/ /\ MaySetRemote(c, kind)
        /\ pc' = [pc EXCEPT ![c].described = TRUE,
                            ![c].sig = IF kind = "answer" THEN "stable" ELSE "have-remote-offer",
                            ![c].queued = IF kind = "restart" THEN <<>> ELSE @]
        /\ serve' = [serve EXCEPT !.at = IF kind = "answer" THEN "draining" ELSE "answering"]
  /\ UNCHANGED <<store, conns, callbacks, play, asked, inputs, past>>

\* CreateAnswer and SetLocalDescription, which may fail.
Answer ==
  /\ serve.at = "answering"
  /\ LET c == serve.entry IN
     \/ /\ Open(c)
        /\ pc' = [pc EXCEPT ![c].sig = "stable"]
        /\ serve' = [serve EXCEPT !.at = "sending"]
     \/ serve' = Idle /\ UNCHANGED pc
  /\ UNCHANGED <<store, conns, callbacks, play, asked, inputs, past>>

\* Mutant: the answer is the last thing to do.
SendAnswerOnly ==
  /\ serve.at = "sending"
  /\ serve' = Idle
  /\ UNCHANGED <<store, conns, pc, callbacks, play, asked, inputs, past>>

\* `signallingTx <- answerMsg'.
SendAnswer ==
  /\ serve.at = "sending"
  /\ serve' = [serve EXCEPT !.at = "draining"]
  /\ UNCHANGED <<store, conns, pc, callbacks, play, asked, inputs, past>>

\* AddICECandidate refuses what comes before the remote description.
Add(entry, cands) ==
  IF entry.described /\ entry.sig # "closed" THEN [entry EXCEPT !.applied = @ \o cands]
  ELSE entry

\* Mutant: the queue is not cleared.
DrainAndKeep ==
  /\ serve.at = "draining"
  /\ pc' = [pc EXCEPT ![serve.entry] = Add(pc[serve.entry], pc[serve.entry].queued)]
  /\ serve' = Idle
  /\ UNCHANGED <<store, conns, callbacks, play, asked, inputs, past>>

Drain ==
  /\ serve.at = "draining"
  /\ LET e == pc[serve.entry] IN
     pc' = [pc EXCEPT ![serve.entry] = [Add(e, e.queued) EXCEPT !.queued = <<>>]]
  /\ serve' = Idle
  /\ UNCHANGED <<store, conns, callbacks, play, asked, inputs, past>>

\* handleICEOffer: dropped without an entry, queued before the first offer.
HandleCandidate ==
  /\ serve.at = "idle" /\ inputs < MaxInputs
  /\ inputs' = inputs + 1
  /\ IF store = None THEN UNCHANGED pc
     ELSE IF pc[store].offered THEN pc' = [pc EXCEPT ![store] = Add(pc[store], <<inputs'>>)]
     ELSE pc' = [pc EXCEPT ![store].queued = Append(@, inputs')]
  /\ UNCHANGED <<store, conns, callbacks, serve, play, asked, past>>

\* The context ends: Serve closes the connections of the store.
Cleanup ==
  /\ serve.at = "idle"
  /\ serve' = [serve EXCEPT !.at = "ended"]
  /\ IF store = None THEN UNCHANGED <<pc, callbacks>>
     ELSE /\ pc' = [pc EXCEPT ![store] = Closed(pc[store])]
          /\ IF Open(store) THEN CallbackMoves(store, NoCallback, "forgetting")
             ELSE UNCHANGED callbacks
  /\ UNCHANGED <<store, conns, play, asked, inputs, past>>

ServeStep ==
  \/ \E kind \in SDPKinds : GetEntry(kind)
  \/ Describe \/ Answer \/ SendAnswer \/ Drain \/ HandleCandidate \/ Cleanup

------------------------------------------------------------------------------
(* The callbacks.                                                          *)

\* Three seconds after the connection was lost.
Waited(c) ==
  /\ At(c, "waiting")
  /\ CallbackMoves(c, "waiting", "attempting")
  /\ UNCHANGED <<store, conns, pc, serve, play, asked, inputs, past>>

\* Mutant: the attempts are not bounded.
AttemptAgain(c) ==
  /\ At(c, "attempting")
  /\ CallbackMoves(c, "attempting", "offering")
  /\ UNCHANGED <<store, conns, pc, serve, play, asked, inputs, past>>

\* NextICERestartAttempt, under the lock of the entry.  We count no further than
\* one more than there may be.
Attempt(c) ==
  /\ At(c, "attempting")
  /\ pc' = [pc EXCEPT ![c].attempts = IF @ > MaxICERestartAttempts THEN @ ELSE @ + 1]
  /\ CallbackMoves(c, "attempting",
                   IF pc'[c].attempts <= MaxICERestartAttempts THEN "offering" ELSE "deleting")
  /\ UNCHANGED <<store, conns, serve, play, asked, inputs, past>>

\* CreateOffer starts ICE again, whether or not the offer is taken then.
Offer(c) ==
  /\ At(c, "offering")
  /\ \/ /\ MaySetOffer(c)
        /\ pc' = [pc EXCEPT ![c].sig = "have-local-offer", ![c].ice = "connecting"]
        /\ CallbackMoves(c, "offering", "sending")
     \/ /\ MayRefuseOffer(c)
        /\ pc' = IF Open(c) THEN [pc EXCEPT ![c].ice = "connecting"] ELSE pc
        /\ CallbackMoves(c, "offering", "deleting")
  /\ UNCHANGED <<store, conns, serve, play, asked, inputs, past>>

SendOffer(c) ==
  /\ At(c, "sending")
  /\ CallbackMoves(c, "sending", NoCallback)
  /\ asked' = TRUE
  /\ UNCHANGED <<store, conns, pc, serve, play, inputs, past>>

\* Mutant: the entry is forgotten, and the connection stays open.
ForgetOnly(c) ==
  /\ At(c, "deleting")
  /\ store' = None /\ Takes(c)
  /\ CallbackMoves(c, "deleting", NoCallback)
  /\ UNCHANGED <<conns, pc, serve, play, asked, inputs>>

\* After an error it deletes the entry of the node, which may be a newer
\* connection's, ...
Delete(c) ==
  /\ At(c, "deleting")
  /\ store' = None /\ Takes(c)
  /\ CallbackMoves(c, "deleting", "closing")
  /\ UNCHANGED <<conns, pc, serve, play, asked, inputs>>

\* ... and closes its own, which calls back once more the first time.
Close(c) ==
  /\ At(c, "closing")
  /\ pc' = [pc EXCEPT ![c] = Closed(pc[c])]
  /\ CallbackMoves(c, "closing", IF Open(c) THEN "forgetting" ELSE NoCallback)
  /\ UNCHANGED <<store, conns, serve, play, asked, inputs, past>>

Reset(c) ==
  /\ At(c, "resetting")
  /\ pc' = [pc EXCEPT ![c].attempts = 0]
  /\ CallbackMoves(c, "resetting", NoCallback)
  /\ UNCHANGED <<store, conns, serve, play, asked, inputs, past>>

Forget(c) ==
  /\ At(c, "forgetting")
  /\ store' = None /\ Takes(c)
  /\ CallbackMoves(c, "forgetting", NoCallback)
  /\ UNCHANGED <<conns, pc, serve, play, asked, inputs>>

CallbackStep(c) ==
  Waited(c) \/ Attempt(c) \/ Offer(c) \/ SendOffer(c) \/ Delete(c) \/ Close(c) \/ Reset(c)
  \/ Forget(c)

------------------------------------------------------------------------------
(* /play on a chat channel of any connection, for the entry of the node.   *)

PlayGoes(h, from, to) == play[h].at = from /\ play' = [play EXCEPT ![h].at = to]
PlayEnds(h, from) == play[h].at = from /\ play' = [play EXCEPT ![h] = NoPlay]

GetPlay(h) ==
  /\ \E c \in ConnIds : Made(c) /\ pc[c].ice \in {"connected", "disconnected"}
  /\ play[h].at = "idle" /\ RoomForWork /\ inputs < MaxInputs
  /\ inputs' = inputs + 1
  /\ IF store = None THEN UNCHANGED play
     ELSE play' = [play EXCEPT ![h] = [at |-> "removing", entry |-> store]]
  /\ UNCHANGED <<store, conns, pc, callbacks, serve, asked, past>>

\* Mutant: there is always a sender to remove.
RemoveTrackAlways(h) ==
  /\ PlayGoes(h, "removing", "adding")
  /\ pc' = [pc EXCEPT ![play[h].entry].senders = @ - 1, ![play[h].entry].current = FALSE]
  /\ UNCHANGED <<store, conns, callbacks, serve, asked, inputs, past>>

\* Another channel is between its two locked parts of createAndAddTrack, on entry e.
Racing(h, e) ==
  \E g \in Plays \ {h} : play[g].entry = e /\ play[g].at \in {"adding", "storing"}

\* createAndAddTrack stops the sender of the entry, under its lock; ...
RemoveTrack(h) ==
  /\ PlayGoes(h, "removing", "adding")
  /\ LET e == play[h].entry IN
     pc' = [pc EXCEPT ![e].senders = IF @ > 0 /\ pc[e].current THEN @ - 1 ELSE @,
                      ![e].current = FALSE,
                      ![e].races = IF Racing(h, e) THEN @ + 1 ELSE @]
  /\ UNCHANGED <<store, conns, callbacks, serve, asked, inputs, past>>

\* ... adds the new track, ...
AddTrack(h) ==
  /\ play[h].at = "adding"
  /\ IF Open(play[h].entry)
     THEN /\ PlayGoes(h, "adding", "storing")
          /\ pc' = [pc EXCEPT ![play[h].entry].senders = @ + 1]
     ELSE PlayEnds(h, "adding") /\ UNCHANGED pc
  /\ UNCHANGED <<store, conns, callbacks, serve, asked, inputs, past>>

\* Mutant: the sender is stored by the last step, when all has gone well.
StoreSenderLater(h) ==
  /\ PlayGoes(h, "storing", "offering")
  /\ UNCHANGED <<store, conns, pc, callbacks, serve, asked, inputs, past>>

\* ... stores its sender, under the lock again, ...
StoreSender(h) ==
  /\ PlayGoes(h, "storing", "offering")
  /\ pc' = [pc EXCEPT ![play[h].entry].current = TRUE]
  /\ UNCHANGED <<store, conns, callbacks, serve, asked, inputs, past>>

\* ... makes an offer, without which the track is stored all the same, ...
OfferTrack(h) ==
  /\ play[h].at = "offering"
  /\ \/ /\ MaySetOffer(play[h].entry)
        /\ PlayGoes(h, "offering", "sending")
        /\ pc' = [pc EXCEPT ![play[h].entry].sig = "have-local-offer"]
     \/ /\ MayRefuseOffer(play[h].entry)
        /\ PlayEnds(h, "offering") /\ UNCHANGED pc
  /\ UNCHANGED <<store, conns, callbacks, serve, asked, inputs, past>>

\* ... and sends it.
SendTrackOffer(h) ==
  /\ PlayEnds(h, "sending")
  /\ asked' = TRUE
  /\ UNCHANGED <<store, conns, pc, callbacks, serve, inputs, past>>

PlayStep(h) ==
  RemoveTrack(h) \/ AddTrack(h) \/ StoreSender(h) \/ OfferTrack(h) \/ SendTrackOffer(h)

------------------------------------------------------------------------------

Next ==
  \/ ServeStep
  \/ \E c \in ConnIds :
       Connects(c) \/ Disconnects(c) \/ Fails(c) \/ CallbackStep(c)
  \/ \E h \in Plays : GetPlay(h) \/ PlayStep(h)

Spec == Init /\ [][Next]_vars

\* Serve, the callbacks and the chat channels are scheduled, and ICE has
\* timers.  Nothing says that it connects, or that the remote node answers.
Fairness ==
  /\ WF_vars(Describe \/ Answer \/ SendAnswer \/ Drain)
  /\ \A c \in ConnIds :
       /\ WF_vars(Fails(c))
       /\ WF_vars(CallbackStep(c))
  /\ \A h \in Plays : WF_vars(PlayStep(h))

FairSpec == Spec /\ Fairness

------------------------------------------------------------------------------
(* Properties.                                                             *)

Entries ==
  [sig : {"stable", "have-local-offer", "have-remote-offer", "closed"},
   ice : {"new", "connecting", "connected", "disconnected", "failed", "closed"},
   described : BOOLEAN, offered : BOOLEAN,
   queued : Seq(1..MaxInputs), applied : Seq(1..MaxInputs),
   attempts : Nat, senders : Nat, current : BOOLEAN, races : Nat]

\* The variables keep their types: in particular no callback ends that had not
\* begun.
TypeOK ==
  /\ conns \in 0..MaxConns /\ store \in 0..conns
  /\ pc \in [ConnIds -> Entries]
  /\ callbacks \in [ConnIds -> [CallbackSteps -> Nat]]
  /\ serve \in [at : {"idle", "describing", "answering", "sending", "draining", "ended"},
                entry : 0..conns, msg : SDPKinds]
  /\ play \in [Plays -> [at : {"idle", "removing", "adding", "storing", "offering", "sending"},
                           entry : 0..conns]]
  /\ asked \in BOOLEAN
  /\ inputs \in 0..MaxInputs
  /\ past \in [ConnIds -> [older : SUBSET ConnIds, taker : 0..conns]]

\* Only the last connection is in the store.  An open one is missing from it when
\* it is about to be closed, or when its entry was taken by an older connection
\* that was not done when it was made: one open still, or with a callback that
\* was on its way, as in its wait of three seconds (signalling_handler.go:304-330).
\* Nothing else takes the entry of an open connection, whatever the connections
\* before it went through.
OrphansExplained ==
  /\ store \in {None, conns}
  /\ \A c \in ConnIds :
       Open(c) /\ store # c => At(c, "closing") \/ past[c].taker \in past[c].older

\* Each connection gets the candidates in the order in which they came, and
\* none twice, whether or not they waited in the queue
\* (signalling_handler.go:186-200, 224-243).
AppliedInOrder ==
  \A c \in ConnIds : \A i, j \in 1..Len(pc[c].applied) :
    i < j => pc[c].applied[i] < pc[c].applied[j]

\* No candidate waits in the queue of a connection that could take it, unless the
\* answer to its last offer failed (signalling_handler.go:155-170, 186-200).
QueueDrained ==
  \A c \in ConnIds :
    serve.at = "idle" /\ Open(c) /\ pc[c].described /\ pc[c].sig # "have-remote-offer" =>
      pc[c].queued = <<>>

\* A connection plays one track, even after offers that failed, and one more for
\* each /play that began between the two locked parts of another: what a race
\* leaves is not made worse by the commands after it (track_dc_handler.go:309-342).
OneTrack == \A c \in ConnIds : pc[c].senders <= 1 + pc[c].races

\* A connection that fails again and again, and never connects, is given up,
\* after MaxICERestartAttempts attempts at the latest (common.go:35-40).
FailingEnds ==
  \A c \in ConnIds : ([]<>(pc[c].ice = "failed")) => ([]<>(pc[c].ice = "connected"))
==============================================================================
