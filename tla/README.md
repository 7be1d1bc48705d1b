# A TLA+ verification of webrtc-chat

This directory holds a formal model of the programs of this repository: TLA+
modules, the TLC configurations that check them on small instances, and proofs
that TLAPS checks for every value of their constants. `PROJECT.json` lists the
components, the runs, the source lines behind every definition, the hazards the
properties are aimed at, and the theorems.

## The system

Three programs talk to each other:

* **webrtc-server** (Go) keeps a registry of the nodes that are connected by
  websocket, tells them of each other, and relays the offers, answers and
  candidates with which they set up WebRTC connections. It also has accounts:
  log-in by GitHub or Kioubit, sessions, and user names for bots.
* **webrtc-agents** (Go) are bots. Each keeps one websocket to the server,
  answers offers, and serves data channels (chat, clock, counter, echo, ping) and
  audio tracks.
* **webrtc-web** (TypeScript) runs in the browser: it registers with the server,
  opens peer connections, and exchanges messages and files over them.

### Inventory

| Component | State | Operations | Hard about it | Must hold |
|---|---|---|---|---|
| SafeMap (`pkg/safemap`) | a Go map, owned by an actor goroutine; a request channel; a flag and a channel for closing | Get, Set, Delete, Len, Dump, Walk, Close | calls race with each other and with Close; closed channels panic | calls are atomic; none hangs |
| Connection registry (`pkg/connreg`) | an entry for each connection: name, writer, heartbeat, attributes | OpenConnection, CloseConnection, Register, UpdateHeartbeat, UpdatePreference, SetAttributes, Dump, GetByNodeId, Count | entries vanish while a message of their node is handled | a deleted entry stays deleted |
| Websocket endpoint (`handle_ws.go`, `pkg/ws_proxy`) | three goroutines and a timer for each connection | a message handler for each section of a payload, broadcasts, relaying, the timeout, the deferred cleanup | readers write to the sockets of others; failing writes; a timer shared by two goroutines | writes end; order of relayed messages; nodes meet; gone clients are dropped |
| User store (`pkg/models/user`) | an atomic pointer to users and four index maps | log-in by identity, CreateUser, GetUserById | optimistic updates on maps that all versions share | one user for a name and for an identity; an id keeps its user |
| Log-in (`handle_github_login.go`, `handle_kioutbit_login.go`, `pkg/session`, `pkg/models/login`) | nonces, sessions, who is logged in | start, callback, log-out | retries when a name is taken; callbacks that come late or twice | a session that is logged in finds its user |
| Agent runner (`pkg/ws_runner`) | the connection of the moment, four goroutines and four channels for each | dial, register, ping, read, forward, reconnect | goroutines of an old connection outlive it, beside those of the new | messages in order; dead connections noticed; a broken one survived |
| Agent signalling (`signalling_handler.go`, `common.go`) | a peer connection, its queue of candidates and its offers for each node | offers, candidates, state changes, ICE restarts | callbacks on their own goroutines, delayed restarts | candidates applied in order and none left waiting; an open connection is in the store, or an older one's callback took its entry; one that fails is given up; one track, but for races |
| Bots (`clockbot`, `chatbot`, `counter`, `msgs_store`) | clocks, a message history, counters for each node | /now, /increase, /reset, questions, channels that open and close | updates from several channels | no lost update; a clock can be stopped, but for races; clocks end with their peer |
| Tracks (`track_dc_handler.go`, `tracks/`) | senders, the duplicator's consumers, the file and its position | /play, Bind, Unbind, Write, Looper | binding races with unbinding and with the writer | consumers have an upstream, and their packets in order; Bind and Unbind return |
| Browser (`app/page.tsx`, `apis/`, `utls/`) | sockets, peer connections, messages, transfers | connect, signalling handlers, sendMsg, file transfer, unread counts | awaits between steps, events of objects that were replaced | reconnects; messages acknowledged; files complete, or as far as was confirmed |

The components interact as follows. The endpoint's goroutines call the registry,
which calls the SafeMap, whose actor runs the closures one by one: this is why
the registry's operations are single steps. A reader reaches the socket of
another connection through the proxy it finds in that node's registry entry.
Log-in handlers call the user store and bind the result to a session, which the
endpoint consults when a websocket opens. An agent's runner hands messages to
its signalling handler over a channel and takes what is to be sent from another
one; the callbacks of its peer connections send on the same channel.

## Modules

| Module | Models | Composed of |
|---|---|---|
| `AtomicMap` | what SafeMap promises: every call takes effect in one step | |
| `SafeMap` | callers, channels, actor and Close of `safemap` | refines `AtomicMap` |
| `ConnRegistry` | the registry's data and its operations, one step each | |
| `LossyRelay` | what relaying promises: order, no duplicates, loss allowed | |
| `SignallingServer` | handler, reader and write proxy of every connection | extends `ConnRegistry`, refines `LossyRelay` |
| `UserStore` | the calls of the user store, step by step on shared maps | |
| `Login` | log-ins, nonces, sessions, log-out and the creation of bots | extends `UserStore`, refines its specification |
| `AgentRunner` | the runner, and loop, reader and forwarder of each connection it makes | |
| `PeerSignalling` | an agent's peer connections with one node: Serve, callbacks, /play | |
| `Bots` | the commands and shared state of the clock, counter and chat bots | |
| `Tracks` | streams, their generator, and the duplicator with its consumers | |
| `FileTransfer` | files from one browser page to another | |
| `MC...` | the instances for TLC | |
| `...Proofs` | theorems and their proofs | |

Operators named in a comment "Mutant:" are not part of a model. Each is a
plausible bug in the operation defined after it, and shows that a property
would notice.

### State and actions, against the code

**SafeMap.** `pc[c]` is where a goroutine stands in a method: `sending` at
`requestsCh <- req`, `waiting` for its response, `answered` with it. `Receive`
is the actor's receive, `RunGet` to `RunWalk` the closures, `Stop` the branch of
`closeCh`. A response channel has one sender and one receiver and carries one
value, so the closure's send and the receive are one step. `Get` is called with
a callback that changes the value in place, as the registry does. `CloseBody`
reads the flag `closed` that the actor writes without the mutex: the read is a
choice between the value and the one it replaced.

**SignallingServer.** `handler[k]` follows `ServeHTTP` through its select and
its deferred calls, `reader[k]` is the goroutine at `handle_ws.go:225` with the
message it handles and the connections it has yet to write to, `proxy[t]` is
`WebsocketWriteProxy.Run`. A broadcast is a snapshot (`DumpRegistry`) and a
write to each connection in it, in any order, as Go's map has none. A write is
`TakeOffer`, then `WriteSucceeds` or `WriteFails`; a proxy that has stopped
gives `WriteRefused`. The first failed write ends the handling of the message.
The proxy is one goroutine, at its offer or in one write; `Offers` says so by
`writing[t] = {}`. That a socket has one writer is thus how the model is made, from
these facts of the code: `Run` is started once for each connection
(handle_ws.go:232), it alone calls `WriteJSON` of the socket, and other readers get
at the proxy only by the entry of a node that has registered. What is checked is
what such a bottleneck endangers (`WritesEnd`).
A socket that was closed, or whose client is gone, may fail a write at once or
still accept it. `outbox` and `heard` record what was written and are read by no
action. Calls that fail because the entry is gone change nothing and are no
error, except in a rename, which returns it.

**UserStore.** A call loads the store (`Load`), looks for its identity or name
(`Hit`, `NameHit`, `Miss`), clones and re-indexes the users (`Clone`), checks the
name (`NameCheck`), adds its index entries (`AddIndex`), and swaps (`Swap`,
`SwapFails`). The maps of the clone are those of the published store, unless
that was nil. The two log-ins are the same code over two maps with keys of
their own, so an identity is either kind. Each group of map operations between
two yields is one step; what Go's runtime does when it notices two goroutines
in one map is `RaceSeen`.

**AgentRunner.** The channels `errCh` and `dataCh` have one place and are
variables; the others have none, and a send and its receive are one step.
`sending` is the set of goroutines that wait to send on the channel every
connection's loop reads. A connection may break (reads fail) or be lost (reads
hang, writes fail in the end). A reader whose read fails sends its error on `errCh`
(`ReaderReports`), and only then do its deferred closes tell the loop to end
(`ReaderCloses`).

**LossyRelay** is the abstract relay. `pending[a]` are the messages of `a` on
their way and `delivered[b]` what was handed to `b`. `Grows` follows from
`Submit`; it spares TLC the enumeration of every message.

**Login.** `HandleStart`, `HandleAuthorizationCode` and `LogOut` are the handlers
of those requests; `Retry` is the loop over names at
`handle_github_login.go:262`, `LogIn` and `Refuse` its ends. The calls of the
store in between are those of `UserStore`, whose steps (`StoreStep`) interleave
with everything else; each try has a uuid of its own, which is a member of
`Calls`. A call without an identity is `handleAddBot`'s. A request that is turned
away at once (wrong cookie, expired nonce, refusal of the provider) changes
nothing and is no step.

**PeerSignalling** follows one remote node, since entries of different nodes share
nothing but the goroutine of Serve. `serve` says where Serve is in
`handleSDPOffer` with the message in hand: `GetEntry`, `Describe`, `Answer`,
`SendAnswer`, `Drain`; `HandleCandidate` is `handleICEOffer`, one step as it
yields nowhere that matters. pion calls back on a goroutine of its own for each
change of a connection's state: `callbacks[c][s]` counts those of connection `c`
at step `s`, from the wait of three seconds to deleting the entry and closing the
connection; a connection may go on and change its state again meanwhile. `play[h]` is
a /play in `createAndAddTrack`, which takes the lock of the entry twice
(`RemoveTrack`, `StoreSender`) and adds the track in between. Two variables are history
that no action reads: `past[c]` has the connections that were not done when `c` was
made and the one whose callback took its entry, and `races` of an entry counts the
/play that began (`RemoveTrack`) while another one was between its two locked parts.
Of pion there is its signalling state, which decides what
descriptions it takes, and the state of ICE. Where its documentation leaves open
whether a second local offer is taken, the model allows both. A
`SetLocalDescription` that fails after it changed the signalling state is left out.

**Bots.** The bot is a clock, a counter or a chat bot. `job[c]` is the command of
channel `c` and the step it is at; the steps are the accesses to what channels
share. `seen` is what was loaded before a compare-and-swap. An Append of the
history that loses `MaxRetries` swaps gives up. A clock has the number of its
command; its cancel function, its stream and its goroutine are apart, and the
`OnClose` of streams and channels (`stop`) cancels and then deletes what is stored
by then. (`OnError` of a stream does the same when the stream fails; that it may
overlap with the `OnClose` of the same stream is left out.) `raced` of a clock is history: when it was stored,
another channel or stream of the peer had loaded what was stored before and was about
to replace or delete it. `gone` are the peers that have disconnected.

**Tracks.** Two handles have one generator: the upstream of the duplicator and a
track of its own. A stream takes a packet (`GetFromWave`, `GetPage`), forwards it
to the consumers it found (`Forward`, one at a time), and looks at its stop
channel once it has filled its first packets. `GetPage` has the lock of the Ogg
file: on a page of tags it calls itself and waits for the lock it holds. Bind and
Unbind go step by step (`consumer[c]`): what they do outside the mutex of the
duplicator and under it, and the wait for the consumer's writer.

**FileTransfer.** A page is one event loop: every action is one of its tasks, with
the promises that the task settles, or a step of the network. `send[t]` is where
`transmitFileViaPC` is and its channel, `recv[t]` the receiver's end; the buffer of
the channel and the event `bufferedamountlow` are as the standard has them. A chunk is a
slice of the file, from one byte up to another, so that its size and its place are
data; `Slices` is the burst of chunks that one task sends. A channel that has closed
takes none of them, though the first counts as sent (page.tsx:1244).
`SenderCloses` and `ReceiverCloses` are `closeDCById` at either end, of a channel
that was closed or of a connection that was lost (`Break`). The chat channel and
the channel of each file are ordered, and overtake each other.

## Runs

| Run | Instance | Shows |
|---|---|---|
| `SafeMap` | 2 callers, 2 keys, 2 values; any calls and closes | `Linearizable`, `CallsEnd` |
| `ServerSafety` | 2 connections, up to 2 messages each and 3 together, of register, echo, rename and ice; clients leave, timers fire | `NoResurrection`, `CrashNeedsFault`, `PresenceComplete`, and `RelaysInOrder` by refinement |
| `ServerLive` | 2 connections, a register each; clients leave or go silent, timers fire | `GoneClientsDropped`, `WritesEnd`, `GoroutinesEnd` |
| `Login` | 2 log-ins, 2 sessions, 3 calls, 3 names, 2 identities, 2 tries | `OneUserEach`, `SessionsResolve` |
| `AgentRunner` | 2 connections, 3 messages, with and without reconnecting | `HandledInOrder`, `StaleLoopsEnding`, `DeadConnectionsGivenUp`, `SendersGoOn` |
| `PeerSignalling` | 2 connections, 3 offers, candidates or /play commands, 2 callbacks or commands at work, 1 attempt to restart | `OrphansExplained`, `AppliedInOrder`, `QueueDrained`, `OneTrack`, `FailingEnds` |
| `Bots` | 2 channels of 1 or 2 peers that may disconnect, 4 commands or 2 clocks, 2 tries of a swap | `IncreasesCounted`, `HistoryKept`, `OneClock`, `ClocksEnd` |
| `Tracks` | 2 consumers and a second handle, a wave and 2 files, 2 packets a stream, a buffer of 2 | `UpstreamBound`, `OneStream`, `PacketsInOrder`, `QuietAfterUnbind`, `CallsReturn` |
| `FileTransfer` | a file of 5 units and an empty one, segments and threshold of 2 | `FilesArriveWhole`, `ProgressHonest`, `TransfersEnd` |
| `UserStoreLoad` | 3 calls, 3 identities | violated: a log-in returns the user of another identity |
| `AgentRestart` | 2 connections | violated: an agent ends on a restart of the server, which README.md:190 says it survives |
| `EmptyFile` | as `FileTransfer` | violated: an empty file that is sent stays loading for ever, though README.md:192 says such files are handled |

A type invariant (`TypeOK`, in `Login` `LoginTypeOK`) is checked for each module
with variables; that of `UserStore` is not, and is proved.

**Bounds.** Two connections are enough for the properties of the server, which
relate a reader and a socket, or two nodes; the theorems remove the bound. Three
messages together (`FewMessages`) let a node register while two messages are on
their way to it, or each node register and one of them send.
`ServerSafety` leaves the fault "lost" out: a silent client is to the safety of the
server one that has left and whose reader has not noticed. Candidates stand for all
relayed messages there because of what their failure does.
Three calls in `Login` let an attempt fail and be retried while another log-in or
a bot publishes users before, between and after; three names and two identities
let some collide and others not; two tries let one name be taken and the next one
not, or both be taken.
Two connections in `AgentRunner` are the old and the new one; three messages let
two be in the old one's channels while the third comes by the new. The last
connection does not break, so that the bound is no fault.
In `PeerSignalling` the callbacks of the first connection race with the second, and a
third would add a connection of the same kind; three inputs are an offer, a
candidate and a restart, or an offer and two /play commands; with one attempt a
restart can be refused, succeed or be one too many. `MaxAtWork` lets a callback or a
/play begin only beside one other, of the same connection or not: a callback in its
wait and the one of the next change of state, two /play, or a callback and the one its
`Close` brings (which needs no room). With two of them ICE connects, fails and
disconnects during the wait of another callback, which the retry bound of
`FailingEnds` must withstand. The theorems hold without the bounds.
In `Bots` four commands let two channels increase around a reset, and two
questions have four swaps, of which two tries may fail; a second clock is what the
first one's races are with: from another channel, from the close of the first one's
stream, or from a channel that closes.
In `Tracks` the second packet of a stream comes after its prefill, where it may be
stopped; a buffer of two is full when a third packet, of the stream of the next
Bind, comes. One file has its tags on the second page, as ffmpeg writes them, and
one has none. `BindDirect` binds once.
The file of five units in `FileTransfer` needs three chunks or more, limited by the
segment or by the free space with its extra byte; the empty file's acknowledgement
crosses with its size, and with the other file's.
`FewMessages` is the one constraint; the other bounds (`Max...`) are in guards.

**Symmetry** is used in the runs without a liveness property, but where a set has
two members that the initial state tells apart (the sessions of `Login`):
connections, calls, names, log-ins and identities are compared for equality only.

**Deadlock** is not checked: every one of these systems may stop, when the process
has ended, the map is closed, all clients have sent what they may, the commands
have been handled, the tracks unbound, or the files sent.

**Fairness.** Goroutines are scheduled (weak fairness for steps that stay
enabled). Go's channels serve waiting senders and receivers in the order they
came, hence strong fairness for a reader that waits for a proxy's offer, for a
caller of the map, and for what waits for a loop or for the handler. A gc timer
is sure to fire only on a silent client. A write to a socket ends, because the
kernel times it out. The server can be dialled again until it answers. Nothing is
assumed of clients, of Close, or of messages arriving.
In `PeerSignalling` Serve goes on with the message it has, some callback of each
connection and each /play go on, and the timers of ICE end an attempt to connect in
which nothing else happens; nothing says that ICE connects or that the remote node answers. In `Bots`
the goroutines of clocks and of `OnClose` run, and pion closes the open streams of a
peer that has gone; whether a peer goes, a stream opens or a channel closes is open. In `Tracks` streams, writers, and
calls of Bind and Unbind that have begun go on; nothing is assumed of when a track
is bound. In `FileTransfer` the event loops run their tasks and a network that is
not broken delivers; whether a file is sent, an acknowledgement times out, or the
connection breaks is open. `Login` and the violated `AgentRestart` and
`UserStoreLoad` are about safety.

## Proofs

* **SafeMapProofs.** `TypeCorrect` has the inductive invariant: types, and
  `closed` implies that closeCh is. `Linearizability` maps the initial state and
  each step to `AtomicMap`: the effect of a call is at the step at which the
  actor runs its closure. The set of callers, keys and values is arbitrary.
* **SignallingServerProofs.** The inductive invariant `IInv` adds to the properties
  what holds them up. `Lives` ties together the phases of a connection's handler,
  reader and proxy, so that a reader exists only after its handler opened the
  entry. `Tasks` says what a reader may still have to write in each of its states
  and that it is in one write at most. `Presence` is the strengthening of
  `PresenceComplete`: a node that has taken its snapshot has told, or will tell,
  each node that registered before; so of two nodes the later to take its snapshot
  finds the other. `Safety`, `NodesMeet` and `CrashesHaveACause`
  are conjuncts of `IInv` or follow from it. `RelayRefinement` maps the server to
  `LossyRelay`: each step of a reader, handler or proxy takes a message up, delivers
  it, drops it, or stutters.
* **LoginProofs.** First the store by itself. Names and identities stay unique although
  failed attempts write into the shared maps, because maps never lose a key and every
  published user's keys are in them; the invariant says so, and that the position of
  the id of a created user is only ever written with its own position. From this follow
  `OneUserEachHolds`, `SessionsFindTheirUser` and `UsersNeverChange`.
  `StoreRefined`: a behaviour of `Login` is one of `UserStore`, so that what is proved of
  the store holds of the composition. `SessionsAlwaysResolve` rests on it: the id bound to a session is that of a published user (`Bound`), and
  those are found by their id from then on.
* **AgentRunnerProofs.** `HandledInOrder` is not inductive: the invariant adds where
  a message may wait (`Waiting`), and that a message is ahead of those read after
  it, in the channel, the forwarder and the handler (`Ahead`, `Handled`). For
  `StaleLoopsEnding` it adds that the runner leaves a connection only when its loop
  ends or its reader has reported (`Leaving`), and that connections not yet made have no goroutine
  (`Fresh`).
* **PeerSignallingProofs.** Beside types there are two invariants. `Candidates`:
  what was applied came before what is in the queue, each in order (`Numbers`); the one
  connection that has its description and still has a queue is the one Serve works
  on (`Serving`); connections not yet made are new (`Fresh`). It gives
  `CandidatesInOrder` and `QueueAlwaysDrained`. `Orphans` adds to `OrphansExplained`
  that whoever forgets an entry for good has a closed connection, and that a connection
  that is not done was not done when any later one was made: so a callback that takes
  the entry of an open connection that is not its own is one of `past[c].older`. A third,
  `Tracked`, is for `OneTrackEach`: senders and commands about to add one are no more
  than one and the races, and while no command is between its two locked parts, the
  entry knows the sender to stop.
* **TracksProofs.** `Control` ties the step of each Bind and Unbind to the mutex, the
  map of consumers, the writer and the upstream, for any number of consumers;
  `Order` says that no packet is newer than its stream, and that what was written
  comes before what is in the buffer. They give `UpstreamKept`, `OneStreamEach`,
  `PacketsKeepOrder` and `QuietAfter`. For `TypeCorrect`, whose bounds are the number of
  streams and the length of a buffer, the streams are counted by the consumers
  whose Bind has started one.
* **BotsProofs.** `Jobs`: no two channels have one command in hand. `Counted`: the
  counter of a peer is the number of its increases since its last reset, which is
  `IncreasesCounted` at the end of the answers. `Histories`: what a channel has still
  to append is not there yet, and its question is while it appends the answer
  (`Pending`), whatever others append. `ClockInv`: the one clock of a peer that is
  neither cancelled nor raced is the one its cancel function is of, and there is none
  while a channel or stream of the peer is about to delete or replace what is stored
  (`OneLive`).
* **FileTransferProofs.** `SlicesAsTheLoop`: `Slices` in closed form is the loop of
  doSendChunks, round by round. In the invariant the pieces on the wire, those in
  the buffer and the sizes on their way back each follow one another without a gap
  (`Chain`), from what has been confirmed, over what the receiver has, to what has
  been sent (`Carried`, `Buffered`). Sums of sizes would need induction over data; a
  chain has its sum at its ends. With it, that nothing is sent before the message is
  acknowledged (`Told`, `Asked`), and that a channel closes after all of the file
  (`ClosedOnce`), files arrive whole and progress is honest, for any segment and
  threshold, also up to the point where the connection is lost.

The assumptions are those of the modules: bounds are naturals, a segment is not
empty, the sets of kinds and faults are among those modelled, keys and consumers are
finitely many, no file of a track has more pages than `MaxPackets`, and the
placeholders are no members of the sets they stand beside. Arguments about the number
of users or the size of a map use no induction over data.

So every safety invariant, every action property and both refinements that the runs
check are theorems too, and the statements of the violated runs have their
counterexamples.

Model-checked only is liveness: `CallsEnd`, `GoneClientsDropped`, `WritesEnd`, `GoroutinesEnd`,
`DeadConnectionsGivenUp`, `SendersGoOn`, `FailingEnds`, `ClocksEnd`, `CallsReturn` and
`TransfersEnd`, which is out of the prover's reach.

Proving said something of the models as well. An earlier `OneTrack` looked at the
commands in hand at the moment, and TLC found it to hold; it does so with three inputs
only. A command may be done with another connection's entry and leave a second
track behind: hence `races`, which counts what each race leaves. The bounds of `TypeOK` in `Tracks` need that no file is
longer than `MaxPackets`, which is now assumed.

## What the checks say of the code

Three statements of the repository do not hold, each shown by a run and listed in
`PROJECT.json` under "findings": a log-in may return the user of another identity
(`UserStoreLoad`), an agent that should reconnect may end instead
(`AgentRestart`), and an empty file may stay loading for ever (`EmptyFile`).

The models have more that is worth knowing, and that no run is spent on:

* A second Close of a SafeMap may panic, though methods.go:186 says it is safe: the
  flag it looks at is written by the actor, later.
* user.go:65 says there is never a concurrent write. The clones share their maps, so
  that two log-ins at once write to one Go map, which ends the process when the
  runtime notices (`RaceSeen` in `UserStore`).
* `ErrUsernameDuplicated` may be returned for a name no user has: a failed attempt
  leaves its name in the shared index.
* A reader waits on connErrCh for ever after the timer has closed its connection:
  the leak that `GoroutinesEnd` names, one goroutine for each client that times out.
* A stream that reads a page of tags of an Ogg file waits for the lock it holds
  (oggfile/file.go:95, "waiting" in `Tracks`), and so do the streams after it.
* Candidates that follow an answer to a connection that was given up are refused, not
  queued: the entry counts as offered before its description is set
  (signalling_handler.go:224). The offer that comes next brings candidates of its own.
* The close of an old message stream stops the clock that a later /now has started
  (clockbot_dc_handler.go:168, `StreamCloses` and `OnCloseCancels`), though the help text
  says at line 112 that a clock goes on until another command or a disconnect.
* A clock that raced with another command or with a channel that closed may lose its
  cancel function: it ticks beside the next one until its peer disconnects.
* Two /play at once leave two tracks on a connection, of which only one is known.
* After its wait the callback of an old connection may take the entry of a newer one,
  which stays open, but offers, answers and candidates no longer find it
  (signalling_handler.go:315).
* A connection that is lost while a file is sent makes the receiver show the chunks it
  has as a file that has arrived (page.tsx:753). A message about a file stays loading
  when the connection is lost before the file's channel opens, or the sender gives up.
* An acknowledgement of a file that comes after its time-out marks the message as
  delivered, on both sides, while the file is never sent (page.tsx:1175).

## Not modelled

* The browser's websocket and signalling (`app/page.tsx`). The page keeps its socket
  and its connections in React references that outlive renderings, and signals in chains of
  promises of the browser's WebRTC implementation. What overlapping chains do is decided
  inside that implementation, of which the repository says nothing; a model would be
  one of guesses. The hazards met while reading are listed, among them that
  the `connect` called from `onclose` returns at once, since the reference to the old
  socket is still set. `SignallingServer` has the messages a browser sends.
* Text messages use the acknowledgements that files use, which are in `FileTransfer`;
  amendments and deletions are sent by no control of the page; unread counts,
  thumbnails and patches are functions of what has been received.
* The echo and ping bots keep no state. The Looper of files and `WriteTo` are called
  by nothing. The samples, encoders and payload buffers of the sound generators are
  data, and what two goroutines leave in one such buffer is beyond a model of control.
* The making of sessions and cookies, two callbacks of one nonce at once, the tokens, the
  look-up of the user by the endpoint, the visit counter (a compare-and-swap as
  the counter bot's) and the lists: they read, or add a fresh element to a set.
* The QUIC fields nothing sets, the numbers of default names, time stamps, and
  the formats of messages.
* Shutdown: neither program waits for its goroutines. HTTP services outside (GitHub,
  Kioubit, the LLM), TLS, the wiring of the server, the user interface, deployment.

## Plan

1. Abstract specifications for components that have none: a history to which each
   Append adds at most once, for `Bots`; a file that is delivered whole or lost, for
   `FileTransfer`; each with its refinement proved.
2. The page's socket, as far as it can be read off the repository: connect, onclose
   and the timer that reconnects.
