------------------------------ MODULE AtomicMap ------------------------------
(***************************************************************************)
(* What the DataStore interface of webrtc-server/pkg/safemap promises its  *)
(* callers: a map from keys to values on which every call takes effect at  *)
(* one instant between its invocation and its return.  Once the map has    *)
(* been asked to close, a call that has not yet taken effect may fail; a   *)
(* call that fails has had no effect.                                      *)
(*                                                                         *)
(* SafeMap, the actor that owns the Go map, is shown to implement it.      *)
(***************************************************************************)
EXTENDS Naturals, FiniteSets

CONSTANTS
  Callers,   \* goroutines that call the map
  Keys,      \* keys
  Values,    \* values a caller stores or leaves behind in a value it mutates
  NoValue    \* the key is not in the map

VARIABLES
  store,     \* the map
  phase,     \* phase[c]: where the current call of c stands
  request,   \* request[c]: that call
  answer,    \* answer[c]: what it returned
  closing    \* somebody has asked the map to close

avars == <<store, phase, request, answer, closing>>

\* The calls of the interface.  "get" runs its callback on the stored value,
\* which may mutate it: val is the value it leaves behind.
Request ==
  [op : {"get", "set"}, key : Keys, val : Values]
    \cup [op : {"delete", "walk"}, key : Keys]
    \cup [op : {"len", "dump"}]

\* What a caller that is in no call is said to ask for.
NoRequest == [op |-> "len"]

Map == [Keys -> Values \cup {NoValue}]

Answer == [found : BOOLEAN, size : 0..Cardinality(Keys), copy : Map]

EmptyMap == [k \in Keys |-> NoValue]
Present(m) == {k \in Keys : m[k] # NoValue}
Void == [found |-> FALSE, size |-> 0, copy |-> EmptyMap]

\* The map a call leaves behind.
Effect(r, m) ==
  CASE r.op = "get" /\ m[r.key] # NoValue -> [m EXCEPT ![r.key] = r.val]
    [] r.op = "set"                       -> [m EXCEPT ![r.key] = r.val]
    [] r.op = "delete"                    -> [m EXCEPT ![r.key] = NoValue]
    [] OTHER                              -> m

\* What a call returns, as a function of the map it finds.
Reply(r, m) ==
  CASE r.op = "get"  -> [Void EXCEPT !.found = (m[r.key] # NoValue)]
    [] r.op = "walk" -> [Void EXCEPT !.found = (m[r.key] # NoValue),
                                     !.copy  = [EmptyMap EXCEPT ![r.key] = m[r.key]]]
    [] r.op = "len"  -> [Void EXCEPT !.size = Cardinality(Present(m))]
    [] r.op = "dump" -> [Void EXCEPT !.copy = m]
    [] OTHER         -> Void

AInit ==
  /\ store = EmptyMap
  /\ phase = [c \in Callers |-> "idle"]
  /\ request = [c \in Callers |-> NoRequest]
  /\ answer = [c \in Callers |-> Void]
  /\ closing = FALSE

Invoke(c) ==
  /\ phase[c] = "idle"
  /\ phase' = [phase EXCEPT ![c] = "called"]
  /\ \E r \in Request : request' = [request EXCEPT ![c] = r]
  /\ UNCHANGED <<store, answer, closing>>

TakeEffect(c) ==
  /\ phase[c] = "called"
  /\ phase' = [phase EXCEPT ![c] = "done"]
  /\ store' = Effect(request[c], store)
  /\ answer' = [answer EXCEPT ![c] = Reply(request[c], store)]
  /\ UNCHANGED <<request, closing>>

Respond(c) ==
  /\ phase[c] = "done"
  /\ phase' = [phase EXCEPT ![c] = "idle"]
  /\ request' = [request EXCEPT ![c] = NoRequest]
  /\ answer' = [answer EXCEPT ![c] = Void]
  /\ UNCHANGED <<store, closing>>

AskToClose ==
  /\ closing' = TRUE
  /\ UNCHANGED <<store, phase, request, answer>>

Fail(c) ==
  /\ closing
  /\ phase[c] = "called"
  /\ phase' = [phase EXCEPT ![c] = "failed"]
  /\ request' = [request EXCEPT ![c] = NoRequest]
  /\ UNCHANGED <<store, answer, closing>>

ANext ==
  \/ AskToClose
  \/ \E c \in Callers : Invoke(c) \/ TakeEffect(c) \/ Respond(c) \/ Fail(c)

ASpec == AInit /\ [][ANext]_avars
==============================================================================
