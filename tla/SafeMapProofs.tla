---------------------------- MODULE SafeMapProofs ----------------------------
(***************************************************************************)
(* SafeMap keeps its types and implements AtomicMap, for every finite set  *)
(* of keys and every set of callers and values.                            *)
(***************************************************************************)
EXTENDS SafeMap, FiniteSetTheorems, TLAPS

\* The number of keys in use is at most the number of keys.
LEMMA SizeBound ==
  ASSUME NEW S, S \subseteq Keys
  PROVE  Cardinality(S) \in 0..Cardinality(Keys)
<1>1. IsFiniteSet(S) /\ Cardinality(S) <= Cardinality(Keys)
  BY KeysAssumption, FS_Subset
<1>2. Cardinality(S) \in Nat /\ Cardinality(Keys) \in Nat
  BY <1>1, KeysAssumption, FS_CardinalityType
<1>3. QED
  BY <1>1, <1>2

\* AtomicMap counts as SafeMap does.
LEMMA SameCardinality == ASSUME NEW S PROVE Atomic!Cardinality(S) = Cardinality(S)
BY DEF Cardinality, Atomic!Cardinality

\* What the closures of the actor answer.
LEMMA VoidIsAnswer == Void \in Answer /\ EmptyMap \in Map
<1>1. 0 \in 0..Cardinality(Keys)
  BY KeysAssumption, FS_CardinalityType
<1>2. EmptyMap \in Map
  BY DEF EmptyMap, Map
<1>3. QED
  BY <1>1, <1>2 DEF Void, Answer

\* So is the placeholder for no request.
LEMMA NoRequestIsRequest == NoRequest \in Request
BY DEF NoRequest, Request

\* Each closure leaves a map and an answer of the right types, and does to the
\* map what AtomicMap says its call does.
LEMMA RunIsAtomic ==
  ASSUME TypeOK, NEW c \in Callers, Run(c)
  PROVE  \E m \in Map, a \in Answer :
           /\ Finish(c, m, a)
           /\ m = Atomic!Effect(request[c], store)
           /\ a = Atomic!Reply(request[c], store)
<1>1. request[c] \in Request /\ store \in Map
  BY DEF TypeOK
<1> USE VoidIsAnswer
<1> DEFINE r == request[c]
<1>v. /\ Atomic!Void = Void
      /\ Atomic!EmptyMap = EmptyMap
      /\ Atomic!Present(store) = {k \in Keys : store[k] # NoValue}
  BY DEF Atomic!Void, Atomic!EmptyMap, Void, EmptyMap, Atomic!Present
<1>2. CASE RunGet(c)
  <2>1. r.op = "get" /\ r.key \in Keys /\ r.val \in Values
    BY <1>1, <1>2 DEF RunGet, Request
  <2>2. CASE store[r.key] # NoValue
    <3> DEFINE m == [store EXCEPT ![r.key] = r.val]
               a == [Void EXCEPT !.found = TRUE]
    <3>1. Finish(c, m, a)
      BY <1>2, <2>2 DEF RunGet
    <3>2. m \in Map /\ a \in Answer
      BY <1>1, <2>1 DEF Map, Answer
    <3>3. m = Atomic!Effect(r, store) /\ a = Atomic!Reply(r, store)
      BY <1>v, <2>1, <2>2 DEF Atomic!Effect, Atomic!Reply
    <3>4. QED
      BY <3>1, <3>2, <3>3
  <2>3. CASE store[r.key] = NoValue
    <3>1. Finish(c, store, Void)
      BY <1>2, <2>3 DEF RunGet
    <3>2. store = Atomic!Effect(r, store)
      BY <2>1, <2>3 DEF Atomic!Effect
    <3>3. Void = Atomic!Reply(r, store)
      BY <1>v, <2>1, <2>3 DEF Atomic!Reply, Void
    <3>4. QED
      BY <1>1, <3>1, <3>2, <3>3
  <2>4. QED
    BY <2>2, <2>3
<1>3. CASE RunSet(c)
  <2>1. r.op = "set" /\ r.key \in Keys /\ r.val \in Values
    BY <1>1, <1>3 DEF RunSet, Request
  <2> DEFINE m == [store EXCEPT ![r.key] = r.val]
  <2>2. Finish(c, m, Void)
    BY <1>3 DEF RunSet
  <2>3. m \in Map
    BY <1>1, <2>1 DEF Map
  <2>4. m = Atomic!Effect(r, store) /\ Void = Atomic!Reply(r, store)
    BY <1>v, <2>1 DEF Atomic!Effect, Atomic!Reply
  <2>5. QED
    BY <2>2, <2>3, <2>4
<1>4. CASE RunDelete(c)
  <2>1. r.op = "delete" /\ r.key \in Keys
    BY <1>1, <1>4 DEF RunDelete, Request
  <2> DEFINE m == [store EXCEPT ![r.key] = NoValue]
  <2>2. Finish(c, m, Void)
    BY <1>4 DEF RunDelete
  <2>3. m \in Map
    BY <1>1, <2>1 DEF Map
  <2>4. m = Atomic!Effect(r, store) /\ Void = Atomic!Reply(r, store)
    BY <1>v, <2>1 DEF Atomic!Effect, Atomic!Reply
  <2>5. QED
    BY <2>2, <2>3, <2>4
<1>5. CASE RunLen(c)
  <2>1. r.op = "len"
    BY <1>5 DEF RunLen
  <2> DEFINE a == [Void EXCEPT !.size = Cardinality({k \in Keys : store[k] # NoValue})]
  <2>2. Finish(c, store, a)
    BY <1>5 DEF RunLen
  <2>3. Cardinality({k \in Keys : store[k] # NoValue}) \in 0..Cardinality(Keys)
    BY SizeBound
  <2>4. a \in Answer
    BY <2>3 DEF Answer
  <2>5. store = Atomic!Effect(r, store) /\ a = Atomic!Reply(r, store)
    BY <1>v, <2>1, SameCardinality DEF Atomic!Effect, Atomic!Reply
  <2>6. QED
    BY <1>1, <2>2, <2>4, <2>5
<1>6. CASE RunDump(c)
  <2>1. r.op = "dump"
    BY <1>6 DEF RunDump
  <2> DEFINE a == [Void EXCEPT !.copy = store]
  <2>2. Finish(c, store, a)
    BY <1>6 DEF RunDump
  <2>3. a \in Answer
    BY <1>1 DEF Answer
  <2>4. store = Atomic!Effect(r, store) /\ a = Atomic!Reply(r, store)
    BY <1>v, <2>1 DEF Atomic!Effect, Atomic!Reply
  <2>5. QED
    BY <1>1, <2>2, <2>3, <2>4
<1>7. CASE RunWalk(c)
  <2>1. r.op = "walk" /\ r.key \in Keys
    BY <1>1, <1>7 DEF RunWalk, Request
  <2> DEFINE a == [Void EXCEPT !.found = (store[r.key] # NoValue),
                               !.copy = [EmptyMap EXCEPT ![r.key] = store[r.key]]]
  <2>2. Finish(c, store, a)
    BY <1>7 DEF RunWalk
  <2>3. [EmptyMap EXCEPT ![r.key] = store[r.key]] \in Map
    BY <1>1, <2>1 DEF Map
  <2>4. a \in Answer
    BY <2>3 DEF Answer
  <2>5. store = Atomic!Effect(r, store) /\ a = Atomic!Reply(r, store)
    BY <1>v, <2>1 DEF Atomic!Effect, Atomic!Reply
  <2>6. QED
    BY <1>1, <2>2, <2>4, <2>5
<1>8. QED
  BY <1>2, <1>3, <1>4, <1>5, <1>6, <1>7 DEF Run

------------------------------------------------------------------------------

IInv == TypeOK /\ ClosedAfterAsked

\* The invariant holds at first.
LEMMA InitIInv == Init => IInv
BY VoidIsAnswer, NoRequestIsRequest DEF Init, IInv, TypeOK, ClosedAfterAsked

\* Every step keeps it.
LEMMA NextIInv == IInv /\ [Next]_vars => IInv'
<1> SUFFICES ASSUME IInv, [Next]_vars PROVE IInv'
  OBVIOUS
<1> USE VoidIsAnswer, NoRequestIsRequest DEF IInv, TypeOK, ClosedAfterAsked, Goto
<1>1. CASE Stop
  BY <1>1 DEF Stop
<1>2. ASSUME NEW c \in Callers, Call(c) PROVE IInv'
  BY <1>2 DEF Call
<1>3. ASSUME NEW c \in Callers, SendPanics(c) PROVE IInv'
  BY <1>3 DEF SendPanics
<1>4. ASSUME NEW c \in Callers, Return(c) PROVE IInv'
  BY <1>4 DEF Return
<1>5. ASSUME NEW c \in Callers, LockClose(c) PROVE IInv'
  BY <1>5 DEF LockClose
<1>6. ASSUME NEW c \in Callers, CloseBody(c) PROVE IInv'
  BY <1>6 DEF CloseBody
<1>7. ASSUME NEW c \in Callers, Receive(c) PROVE IInv'
  BY <1>7 DEF Receive
<1>8. ASSUME NEW c \in Callers, Run(c) PROVE IInv'
  <2>1. PICK m \in Map, a \in Answer : Finish(c, m, a)
    BY <1>8, RunIsAtomic
  <2>2. QED
    BY <2>1 DEF Finish
<1>9. CASE UNCHANGED vars
  BY <1>9 DEF vars
<1>10. QED
  BY <1>1, <1>2, <1>3, <1>4, <1>5, <1>6, <1>7, <1>8, <1>9 DEF Next

\* The variables of SafeMap keep their types, and requestsCh is never closed
\* before closeCh.
THEOREM TypeCorrect == Spec => [](TypeOK /\ ClosedAfterAsked)
BY InitIInv, NextIInv, PTL DEF Spec, IInv

------------------------------------------------------------------------------

\* The view of a goroutine that moves changes as its pc does, and no other.
LEMMA PhaseMoves ==
  ASSUME TypeOK, NEW c \in Callers, NEW from, NEW to, Goto(c, from, to)
  PROVE  AbstractPhase' =
           [AbstractPhase EXCEPT ![c] =
              CASE to \in {"sending", "waiting"} -> "called"
                [] to = "answered"               -> "done"
                [] to = "panicked"               -> "failed"
                [] OTHER                         -> "idle"]
BY DEF TypeOK, Goto, AbstractPhase

\* The new map is the abstract one, empty.
LEMMA RefinesInit == Init => Atomic!AInit
BY DEF Init, Atomic!AInit, AbstractPhase, EmptyMap, Atomic!EmptyMap,
       Void, Atomic!Void, NoRequest, Atomic!NoRequest

\* A step of the actor or a caller is one of the atomic map, or a stutter.
LEMMA RefinesStep == IInv /\ [Next]_vars => [Atomic!ANext]_(Atomic!avars)
<1> SUFFICES ASSUME IInv, [Next]_vars
             PROVE  Atomic!ANext \/ UNCHANGED Atomic!avars
  OBVIOUS
<1> USE DEF IInv
<1>e. /\ Atomic!Request = Request
      /\ Atomic!NoRequest = NoRequest
      /\ Atomic!Void = Void
  BY DEF Atomic!Request, Request, Atomic!NoRequest, NoRequest, Atomic!Void, Void,
         Atomic!EmptyMap, EmptyMap
<1>1. CASE Stop
  BY <1>1 DEF Stop, Atomic!avars, AbstractPhase
<1>2. ASSUME NEW c \in Callers, Call(c) PROVE Atomic!Invoke(c)
  <2>1. AbstractPhase[c] = "idle"
    BY <1>2 DEF Call, Goto, AbstractPhase
  <2>2. AbstractPhase' = [AbstractPhase EXCEPT ![c] = "called"]
    BY <1>2, PhaseMoves DEF Call
  <2>3. QED
    BY <1>2, <1>e, <2>1, <2>2 DEF Call, Atomic!Invoke
<1>3. ASSUME NEW c \in Callers, SendPanics(c) PROVE Atomic!Fail(c)
  <2>1. AbstractPhase[c] = "called" /\ closeCh = "closed"
    BY <1>3 DEF SendPanics, Goto, AbstractPhase, ClosedAfterAsked
  <2>2. AbstractPhase' = [AbstractPhase EXCEPT ![c] = "failed"]
    BY <1>3, PhaseMoves DEF SendPanics
  <2>3. QED
    BY <1>3, <1>e, <2>1, <2>2 DEF SendPanics, Atomic!Fail
<1>4. ASSUME NEW c \in Callers, Return(c) PROVE Atomic!Respond(c)
  <2>1. AbstractPhase[c] = "done"
    BY <1>4 DEF Return, Goto, AbstractPhase
  <2>2. AbstractPhase' = [AbstractPhase EXCEPT ![c] = "idle"]
    BY <1>4, PhaseMoves DEF Return
  <2>3. QED
    BY <1>4, <1>e, <2>1, <2>2 DEF Return, Atomic!Respond
<1>5. ASSUME NEW c \in Callers, LockClose(c) PROVE UNCHANGED Atomic!avars
  <2>1. AbstractPhase' = AbstractPhase
    BY <1>5 DEF LockClose, Goto, AbstractPhase, TypeOK
  <2>2. QED
    BY <1>5, <2>1 DEF LockClose, Atomic!avars
<1>6. ASSUME NEW c \in Callers, CloseBody(c)
      PROVE  Atomic!AskToClose \/ UNCHANGED Atomic!avars
  <2>1. AbstractPhase' = AbstractPhase
    BY <1>6 DEF CloseBody, Goto, AbstractPhase, TypeOK
  <2>2. closeCh' = closeCh \/ closeCh' = "closed"
    BY <1>6 DEF CloseBody
  <2>3. UNCHANGED <<store, request, answer>>
    BY <1>6 DEF CloseBody
  <2>4. QED
    BY <2>1, <2>2, <2>3 DEF Atomic!AskToClose, Atomic!avars
<1>7. ASSUME NEW c \in Callers, Receive(c) PROVE UNCHANGED Atomic!avars
  <2>1. AbstractPhase' = AbstractPhase
    BY <1>7 DEF Receive, Goto, AbstractPhase, TypeOK
  <2>2. QED
    BY <1>7, <2>1 DEF Receive, Atomic!avars
<1>8. ASSUME NEW c \in Callers, Run(c) PROVE Atomic!TakeEffect(c)
  <2>1. Finish(c, Atomic!Effect(request[c], store), Atomic!Reply(request[c], store))
    BY <1>8, RunIsAtomic
  <2>2. AbstractPhase[c] = "called"
    BY <2>1 DEF Finish, Goto, AbstractPhase
  <2>3. AbstractPhase' = [AbstractPhase EXCEPT ![c] = "done"]
    BY <2>1, PhaseMoves DEF Finish
  <2>4. QED
    BY <2>1, <2>2, <2>3 DEF Finish, Atomic!TakeEffect
<1>9. CASE UNCHANGED vars
  BY <1>9 DEF vars, Atomic!avars, AbstractPhase
<1>10. QED
  BY <1>1, <1>2, <1>3, <1>4, <1>5, <1>6, <1>7, <1>8, <1>9 DEF Next, Atomic!ANext

\* The actor implements the atomic map: every call takes effect once, between
\* its invocation and its return, and one that panics has had no effect.
THEOREM Linearizability == Spec => Linearizable
<1>1. Spec => []IInv
  BY InitIInv, NextIInv, PTL DEF Spec
<1>2. QED
  BY <1>1, RefinesInit, RefinesStep, PTL DEF Spec, Linearizable, Atomic!ASpec
==============================================================================
