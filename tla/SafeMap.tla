------------------------------- MODULE SafeMap -------------------------------
(***************************************************************************)
(* webrtc-server/pkg/safemap: a map owned by one actor goroutine.          *)
(*                                                                         *)
(* A call builds a closure, sends it on the unbuffered requestsCh and      *)
(* waits for the closure's answer.  The actor receives one closure at a    *)
(* time and runs it.  Close, under closeMutex, closes closeCh; the actor   *)
(* then sets `closed', closes requestsCh and returns.                      *)
(*                                                                         *)
(* The Go runtime supplies two facts: a send on a closed channel, blocked  *)
(* or new, panics; and closing a closed channel panics.                    *)
(***************************************************************************)
EXTENDS Naturals, FiniteSets

CONSTANTS
  Callers,   \* goroutines that call the map
  Keys,      \* keys
  Values,    \* values
  NoValue,   \* the key is not in the map
  NoCaller   \* the actor is running no closure; nobody holds closeMutex

ASSUME NoValueAssumption == NoValue \notin Values
ASSUME KeysAssumption == IsFiniteSet(Keys)
ASSUME NoCallerAssumption == NoCaller \notin Callers

VARIABLES
  store,       \* the Go map
  closed,      \* the flag; set together with the close of requestsCh
  closeCh,     \* "open" or "closed"
  closeMutex,  \* who holds the mutex of Close
  serving,     \* the caller whose closure the actor is running
  pc,          \* pc[c]: where the goroutine c stands in its call
  request,     \* request[c]: the closure of its call
  answer       \* answer[c]: what came back

vars == <<store, closed, closeCh, closeMutex, serving, pc, request, answer>>

Request ==
  [op : {"get", "set"}, key : Keys, val : Values]
    \cup [op : {"delete", "walk"}, key : Keys]
    \cup [op : {"len", "dump"}]

\* The closure and the answer are locals of the method: between calls there
\* are none, written as these two values.
NoRequest == [op |-> "len"]

Map == [Keys -> Values \cup {NoValue}]

Answer == [found : BOOLEAN, size : 0..Cardinality(Keys), copy : Map]

EmptyMap == [k \in Keys |-> NoValue]
Void == [found |-> FALSE, size |-> 0, copy |-> EmptyMap]

Init ==
  /\ store = EmptyMap
  /\ closed = FALSE
  /\ closeCh = "open"
  /\ closeMutex = NoCaller
  /\ serving = NoCaller
  /\ pc = [c \in Callers |-> "idle"]
  /\ request = [c \in Callers |-> NoRequest]
  /\ answer = [c \in Callers |-> Void]

Goto(c, from, to) ==
  /\ pc[c] = from
  /\ pc' = [pc EXCEPT ![c] = to]

------------------------------------------------------------------------------
(* The callers.                                                            *)

\* A method builds its closure and reaches `sm.requestsCh <- req'.
Call(c) ==
  /\ Goto(c, "idle", "sending")
  /\ \E r \in Request : request' = [request EXCEPT ![c] = r]
  /\ UNCHANGED <<store, closed, closeCh, closeMutex, serving, answer>>

\* The send finds requestsCh closed.
SendPanics(c) ==
  /\ closed
  /\ Goto(c, "sending", "panicked")
  /\ request' = [request EXCEPT ![c] = NoRequest]
  /\ UNCHANGED <<store, closed, closeCh, closeMutex, serving, answer>>

Return(c) ==
  /\ Goto(c, "answered", "idle")
  /\ request' = [request EXCEPT ![c] = NoRequest]
  /\ answer' = [answer EXCEPT ![c] = Void]
  /\ UNCHANGED <<store, closed, closeCh, closeMutex, serving>>

\* Close, up to and including closeMutex.Lock().
LockClose(c) ==
  /\ closeMutex = NoCaller
  /\ closeMutex' = c
  /\ Goto(c, "idle", "closing")
  /\ UNCHANGED <<store, closed, closeCh, serving, request, answer>>

\* The rest of Close and its deferred unlock.  The actor sets `closed'
\* without the mutex, so the read may also return the value it replaced.
CloseBody(c) ==
  /\ closeMutex' = NoCaller
  /\ \E seen \in {closed, FALSE} :
       \/ /\ seen
          /\ Goto(c, "closing", "idle")
          /\ UNCHANGED closeCh
       \/ /\ ~seen
          /\ closeCh = "open"
          /\ closeCh' = "closed"
          /\ Goto(c, "closing", "idle")
       \/ /\ ~seen
          /\ closeCh = "closed"
          /\ Goto(c, "closing", "closePanicked")
          /\ UNCHANGED closeCh
  /\ UNCHANGED <<store, closed, serving, request, answer>>

------------------------------------------------------------------------------
(* The actor: run.                                                         *)

\* `case req := <-sm.requestsCh'
Receive(c) ==
  /\ ~closed
  /\ serving = NoCaller
  /\ serving' = c
  /\ Goto(c, "sending", "waiting")
  /\ UNCHANGED <<store, closed, closeCh, closeMutex, request, answer>>

\* The closure of c ends: it leaves the map m and answers a.
Finish(c, m, a) ==
  /\ serving = c
  /\ serving' = NoCaller
  /\ store' = m
  /\ answer' = [answer EXCEPT ![c] = a]
  /\ Goto(c, "waiting", "answered")
  /\ UNCHANGED <<closed, closeCh, closeMutex, request>>

\* Mutant: a Get that misses runs its callback on a new entry and keeps it.
RunGetUpserts(c) ==
  LET r == request[c] IN
  /\ r.op = "get"
  /\ Finish(c, [store EXCEPT ![r.key] = r.val], [Void EXCEPT !.found = (store[r.key] # NoValue)])

\* Mutant: a Get that misses returns from the closure without an answer.
RunGetForgetsMiss(c) ==
  LET r == request[c] IN
  /\ r.op = "get" /\ store[r.key] # NoValue
  /\ Finish(c, [store EXCEPT ![r.key] = r.val], [Void EXCEPT !.found = TRUE])

RunGet(c) ==
  LET r == request[c] IN
  /\ r.op = "get"
  /\ \/ /\ store[r.key] # NoValue
        /\ Finish(c, [store EXCEPT ![r.key] = r.val], [Void EXCEPT !.found = TRUE])
     \/ /\ store[r.key] = NoValue
        /\ Finish(c, store, Void)

RunSet(c) ==
  /\ request[c].op = "set"
  /\ Finish(c, [store EXCEPT ![request[c].key] = request[c].val], Void)

RunDelete(c) ==
  /\ request[c].op = "delete"
  /\ Finish(c, [store EXCEPT ![request[c].key] = NoValue], Void)

\* Mutant: Len counts one entry too many.
RunLenOffByOne(c) ==
  /\ request[c].op = "len"
  /\ Finish(c, store,
            [Void EXCEPT !.size = Cardinality({k \in Keys : store[k] # NoValue}) + 1])

RunLen(c) ==
  /\ request[c].op = "len"
  /\ Finish(c, store,
            [Void EXCEPT !.size = Cardinality({k \in Keys : store[k] # NoValue})])

RunDump(c) ==
  /\ request[c].op = "dump"
  /\ Finish(c, store, [Void EXCEPT !.copy = store])

\* Walk with the walkFunc of GetByNodeId, which stops at one key and clones it.
RunWalk(c) ==
  LET k == request[c].key IN
  /\ request[c].op = "walk"
  /\ Finish(c, store, [Void EXCEPT !.found = (store[k] # NoValue),
                                   !.copy = [EmptyMap EXCEPT ![k] = store[k]]])

Run(c) == RunGet(c) \/ RunSet(c) \/ RunDelete(c) \/ RunLen(c) \/ RunDump(c) \/ RunWalk(c)

\* `case <-sm.closeCh'
Stop ==
  /\ ~closed
  /\ serving = NoCaller
  /\ closeCh = "closed"
  /\ closed' = TRUE
  /\ UNCHANGED <<store, closeCh, closeMutex, serving, pc, request, answer>>

------------------------------------------------------------------------------

Next ==
  \/ Stop
  \/ \E c \in Callers :
       \/ Call(c) \/ SendPanics(c) \/ Return(c)
       \/ LockClose(c) \/ CloseBody(c)
       \/ Receive(c) \/ Run(c)

Spec == Init /\ [][Next]_vars

\* The actor never stops by itself, and Go wakes the senders that wait on a
\* channel in the order they came, so each of them is received in the end;
\* Close has no such promise, as select may prefer requests for ever.
FairSpec ==
  /\ Spec
  /\ \A c \in Callers :
       /\ SF_vars(Receive(c))
       /\ WF_vars(Run(c))
       /\ WF_vars(SendPanics(c))

------------------------------------------------------------------------------
(* Properties.                                                             *)

\* The variables keep their types: in particular Len counts no more keys than
\* there are (methods.go:116-129).
TypeOK ==
  /\ store \in Map
  /\ closed \in BOOLEAN
  /\ closeCh \in {"open", "closed"}
  /\ closeMutex \in Callers \cup {NoCaller}
  /\ serving \in Callers \cup {NoCaller}
  /\ pc \in [Callers -> {"idle", "sending", "waiting", "answered",
                         "closing", "panicked", "closePanicked"}]
  /\ request \in [Callers -> Request]
  /\ answer \in [Callers -> Answer]

\* The abstract view of a call.  Close is not a call of the interface, so a
\* goroutine inside it, or stopped by it, is idle in the abstract map ...
AbstractPhase ==
  [c \in Callers |->
     CASE pc[c] \in {"sending", "waiting"}           -> "called"
       [] pc[c] = "answered"                         -> "done"
       [] pc[c] = "panicked"                         -> "failed"
       [] OTHER                                      -> "idle"]

Atomic == INSTANCE AtomicMap WITH
  phase <- AbstractPhase, closing <- (closeCh = "closed")

\* requestsCh is closed only after closeCh.
ClosedAfterAsked == closed => closeCh = "closed"

\* Linearizability: the actor and its callers implement the map on which each
\* call takes effect once, between its invocation and its return, and a call
\* that panics on the closed channel has had no effect (methods.go:28-183).
Linearizable == Atomic!ASpec

\* A caller never hangs: each call ends in an answer or in a panic, whatever
\* the other callers and Close do meanwhile (methods.go:77-78, 96-97).
CallsEnd == \A c \in Callers : pc[c] = "sending" ~> pc[c] \in {"answered", "panicked"}
==============================================================================
