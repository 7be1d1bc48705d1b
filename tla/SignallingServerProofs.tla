----------------------- MODULE SignallingServerProofs -----------------------
(***************************************************************************)
(* Safety of the signalling server, for any set of connections, attributes *)
(* and message kinds, any bound on the messages and any faults.            *)
(***************************************************************************)
EXTENDS SignallingServer, SequenceTheorems, TLAPS

------------------------------------------------------------------------------
(* Types.                                                                  *)

\* The placeholder of a reader without message has the type of one.
LEMMA NoMessageType == \A k \in Conns : NoMessage(k) \in Message
BY MaxMessagesAssumption DEF NoMessage, Message

\* The types hold at first.
LEMMA InitTypeOK == Init => TypeOK
<1> SUFFICES ASSUME Init PROVE TypeOK
  OBVIOUS
<1>1. RegTypeOK
  BY DEF Init, RegInit, RegTypeOK, Entry, Fresh
<1>2. reader \in [Conns -> Reader]
  BY NoMessageType DEF Init, NoReader, Reader
<1>3. /\ received \in [Conns -> 0..MaxMessages]
      /\ outbox \in [Conns -> Seq(Message)]
  BY MaxMessagesAssumption DEF Init
<1>4. QED
  BY <1>1, <1>2, <1>3 DEF Init, TypeOK

\* The reader of k, wherever it goes with its message.
LEMMA ProceedType ==
  ASSUME TypeOK, NEW k \in Conns, NEW at, NEW todo \in SUBSET Conns, Proceed(k, at, todo),
         at \in {"none", "reading", "handling", "dumping", "writing", "replying",
                 "announcing", "resetting", "failed", "done"}
  PROVE  reader' \in [Conns -> Reader]
<1>1. [at |-> at, msg |-> reader[k].msg, todo |-> todo] \in Reader
  BY DEF TypeOK, Reader
<1>2. QED
  BY <1>1 DEF TypeOK, Proceed

\* The reader of k at the top of its loop.
LEMMA ReadsOnType ==
  ASSUME TypeOK, NEW k \in Conns, ReadsOn(k)
  PROVE  reader' \in [Conns -> Reader]
<1>1. Idle(k) \in Reader
  BY NoMessageType DEF Idle, Reader
<1>2. QED
  BY <1>1 DEF TypeOK, ReadsOn

\* One step of the registry keeps its types.
LEMMA MutateType ==
  ASSUME RegTypeOK, NEW k \in Conns, NEW e \in Entry, Mutate(k, e)
  PROVE  RegTypeOK'
BY DEF RegTypeOK, Mutate

\* The steps of the handler keep the types.
LEMMA HandlerType ==
  ASSUME TypeOK, NEW k \in Conns, HandlerStep(k)
  PROVE  TypeOK'
<1> USE DEF TypeOK, RegTypeOK, HandlerGoes
<1>1. CASE ServeHTTP(k)
  BY <1>1, ReadsOnType DEF ServeHTTP, OpenConnection, Fresh, Entry
<1>2. CASE TimerFires(k)
  BY <1>2 DEF TimerFires, regvars
<1>3. CASE ReaderEnds(k)
  BY <1>3, ProceedType DEF ReaderEnds, ReaderGoes, regvars
<1>4. CASE CloseSocket(k)
  BY <1>4 DEF CloseSocket, regvars
<1>5. CASE Unregister(k)
  BY <1>5 DEF Unregister, CloseConnection
<1>6. QED
  BY <1>1, <1>2, <1>3, <1>4, <1>5 DEF HandlerStep

\* So do those of the reader.
LEMMA ReaderType ==
  ASSUME TypeOK, NEW k \in Conns, ReaderStep(k)
  PROVE  TypeOK'
<1>r. reader[k] \in Reader
  BY DEF TypeOK
<1>m. reader[k].msg.to \in Conns
  BY <1>r DEF Reader, Message
<1>u. UNCHANGED <<client, handler, proxy, writing, outbox, heard>>
  BY DEF ReaderStep
<1>s. SUFFICES /\ RegTypeOK'
               /\ received' \in [Conns -> 0..MaxMessages]
               /\ reader' \in [Conns -> Reader]
               /\ crashed' \in {"no", "rename", "ice", "gcTimer"}
  BY <1>u DEF TypeOK
<1>g. ASSUME NEW from, NEW to \in {"dumping", "announcing", "resetting", "failed"},
             ReaderGoes(k, from, to)
      PROVE  reader' \in [Conns -> Reader]
  BY <1>g, ProceedType DEF ReaderGoes
<1>e. entry[k] \in Entry /\ RegTypeOK
  BY DEF TypeOK, RegTypeOK
<1>n. UNCHANGED regvars => RegTypeOK'
  BY <1>e DEF regvars, RegTypeOK
<1>1. CASE ReadMessage(k)
  <2>1. PICK kind \in Kinds, t \in Conns :
          reader' = [reader EXCEPT ![k] =
            [at   |-> "handling",
             msg  |-> [kind |-> kind, from |-> k, to |-> t, n |-> received[k]],
             todo |-> {}]]
    BY <1>1 DEF ReadMessage
  <2> DEFINE m == [kind |-> kind, from |-> k, to |-> t, n |-> received[k]]
  <2>2. m \in Message
    BY DEF Message, TypeOK
  <2>3. [at |-> "handling", msg |-> m, todo |-> {}] \in Reader
    BY <2>2 DEF Reader
  <2>4. reader' \in [Conns -> Reader]
    BY <2>1, <2>3 DEF TypeOK
  <2>5. received' \in [Conns -> 0..MaxMessages]
    BY <1>1, MaxMessagesAssumption DEF ReadMessage, TypeOK
  <2>6. QED
    BY <1>1, <1>n, <2>4, <2>5 DEF ReadMessage, TypeOK
<1>2. CASE ReadFails(k)
  BY <1>2, <1>g, <1>n DEF ReadFails, TypeOK
<1>3. CASE HandleRegister(k)
  <2>1. [entry[k] EXCEPT !.named = TRUE, !.reachable = TRUE] \in Entry
    BY <1>e DEF Entry
  <2>2. RegTypeOK'
    BY <1>3, <1>e, <2>1, MutateType DEF HandleRegister, Register
  <2>3. QED
    BY <1>3, <1>g, <2>2 DEF HandleRegister, TypeOK
<1>4. CASE HandleEcho(k)
  <2>1. [entry[k] EXCEPT !.beat = TRUE] \in Entry
    BY <1>e DEF Entry
  <2>2. RegTypeOK'
    BY <1>4, <1>e, <2>1, MutateType DEF HandleEcho, UpdateHeartbeat
  <2>3. reader' \in [Conns -> Reader]
    BY <1>4, ProceedType DEF HandleEcho
  <2>4. QED
    BY <1>4, <2>2, <2>3 DEF HandleEcho, TypeOK
<1>5. CASE HandleAttributes(k)
  <2>1. PICK w \in SUBSET Attrs, a \in SUBSET Attrs : SetAttributes(k, w, a)
    BY <1>5 DEF HandleAttributes
  <2>2. [entry[k] EXCEPT !.attrs = (@ \ w) \cup a] \in Entry
    BY <1>e DEF Entry
  <2>3. RegTypeOK'
    BY <1>e, <2>1, <2>2, MutateType DEF SetAttributes
  <2>4. QED
    BY <1>5, <1>g, <2>3 DEF HandleAttributes, TypeOK
<1>6. CASE HandleRename(k)
  <2>1. ASSUME NEW colour \in SUBSET Attrs, UpdatePreference(k, colour)
        PROVE  RegTypeOK'
    <3>1. [entry[k] EXCEPT !.named = TRUE, !.attrs = @ \cup colour] \in Entry
      BY <1>e DEF Entry
    <3>2. QED
      BY <1>e, <2>1, <3>1, MutateType DEF UpdatePreference
  <2>2. QED
    BY <1>6, <1>g, ReadsOnType, <1>n, <2>1 DEF HandleRename, TypeOK
<1>7. CASE HandleRelay(k)
  <2>1. reader' \in [Conns -> Reader]
    BY <1>7, <1>m, ProceedType DEF HandleRelay
  <2>2. QED
    BY <1>7, <1>n, <2>1 DEF HandleRelay, TypeOK
<1>8. CASE DumpRegistry(k)
  <2>1. reader' \in [Conns -> Reader]
    BY <1>8, <1>e, ProceedType DEF DumpRegistry, Reachable, RegTypeOK
  <2>2. QED
    BY <1>8, <1>n, <2>1 DEF DumpRegistry, TypeOK
<1>9. CASE WritesDone(k)
  <2>1. reader' \in [Conns -> Reader]
    BY <1>9, <1>g, ProceedType DEF WritesDone
  <2>2. QED
    BY <1>9, <1>n, <2>1 DEF WritesDone, TypeOK
<1>10. CASE ResetTimer(k)
  BY <1>10, ReadsOnType, <1>n DEF ResetTimer, TypeOK
<1>11. QED
  BY <1>1, <1>2, <1>3, <1>4, <1>5, <1>6, <1>7, <1>8, <1>9, <1>10 DEF ReaderStep

\* So do the writes.
LEMMA WriteType ==
  ASSUME TypeOK, NEW k \in Conns, NEW t \in Conns, WriteStep(k, t)
  PROVE  TypeOK'
<1>u. UNCHANGED <<regvars, client, received, handler, proxy>>
  BY DEF WriteStep
<1>m. reader[k] \in Reader /\ reader[k].msg \in Message
  BY DEF TypeOK, Reader
<1>1. CASE TakeOffer(k, t)
  BY <1>1, <1>u DEF TakeOffer, TypeOK, RegTypeOK, regvars
<1>2. CASE WriteSucceeds(k, t)
  <2>1. outbox' \in [Conns -> Seq(Message)]
    BY <1>2, <1>m DEF WriteSucceeds, TypeOK
  <2>2. heard' \in [Conns -> SUBSET Conns]
    BY <1>2 DEF WriteSucceeds, TypeOK
  <2>3. reader' \in [Conns -> Reader]
    <3>1. reader[k].todo \ {t} \in SUBSET Conns
      BY <1>m DEF Reader
    <3>2. reader[k].at \in {"none", "reading", "handling", "dumping", "writing",
                           "replying", "announcing", "resetting", "failed", "done"}
      BY <1>m DEF Reader
    <3>3. QED
      BY <1>2, <3>1, <3>2, ProceedType DEF WriteSucceeds
  <2>4. QED
    BY <1>2, <1>u, <2>1, <2>2, <2>3 DEF WriteSucceeds, TypeOK, RegTypeOK, regvars
<1>3. ASSUME GiveUp(k), writing' \in [Conns -> SUBSET Conns]
      PROVE  TypeOK'
  BY <1>3, <1>u, ReadsOnType DEF GiveUp, TypeOK, RegTypeOK, regvars
<1>4. CASE WriteFails(k, t)
  <2>1. writing' \in [Conns -> SUBSET Conns]
    BY <1>4 DEF WriteFails, TypeOK
  <2>2. QED
    BY <1>3, <1>4, <2>1 DEF WriteFails
<1>5. CASE WriteRefused(k, t)
  BY <1>3, <1>5 DEF WriteRefused, TypeOK
<1>6. QED
  BY <1>1, <1>2, <1>4, <1>5 DEF WriteStep

\* So does every step.
LEMMA NextTypeOK == TypeOK /\ [Next]_vars => TypeOK'
<1> SUFFICES ASSUME TypeOK, [Next]_vars PROVE TypeOK'
  OBVIOUS
<1>1. ASSUME NEW k \in Conns, ClientGoes(k) PROVE TypeOK'
  BY <1>1, FaultsAssumption DEF ClientGoes, TypeOK, RegTypeOK, regvars
<1>2. ASSUME NEW t \in Conns, ProxyStops(t) PROVE TypeOK'
  BY <1>2 DEF ProxyStops, TypeOK, RegTypeOK, regvars
<1>3. CASE UNCHANGED vars
  BY <1>3 DEF vars, TypeOK, RegTypeOK, regvars
<1>4. QED
  BY <1>1, <1>2, <1>3, HandlerType, ReaderType, WriteType DEF Next

\* The variables of the server keep their types.
THEOREM TypeCorrect == Spec => []TypeOK
BY InitTypeOK, NextTypeOK, PTL DEF Spec

------------------------------------------------------------------------------
(* The inductive invariant.                                                *)

\* What exists of a connection at each stage of its handler.
Lifecycle(k) ==
  /\ handler[k] = "none" <=> client[k] = "none"
  /\ handler[k] = "none" <=> proxy[k] = "none"
  /\ handler[k] = "none" <=> reader[k].at = "none"
  /\ handler[k] = "none" => k \notin keys
  /\ reader[k].at = "done" => handler[k] # "serving"
  /\ proxy[k] = "stopped" => reader[k].at = "done"
  /\ writing[k] # {} => proxy[k] = "running"

\* What a reader has to write, by where it stands and the message it handles.
Task(k) ==
  LET r == reader[k] IN
  /\ r.msg.from = k
  /\ r.at \in {"none", "reading", "failed", "done"} => r.msg = NoMessage(k)
  /\ r.at \notin {"writing", "replying"} => r.todo = {}
  /\ r.at \in {"dumping", "replying", "announcing"} => ~Relayed(r.msg)
  /\ Relayed(r.msg) => r.todo \subseteq {r.msg.to}
  /\ \A t \in Conns : k \in writing[t] =>
       t \in r.todo /\ \A u \in Conns : k \in writing[u] => u = t

\* k has told l that it is online, or is about to: it will take a snapshot, or
\* has l in the one it took.
Told(k, l) ==
  \/ k \in heard[l]
  \/ /\ reader[k].msg.kind = "register"
     /\ reader[k].at = "dumping" \/ (reader[k].at = "writing" /\ l \in reader[k].todo)

Presence == Healthy => \A k, l \in Reachable : Told(k, l) \/ Told(l, k)

Lives == \A k \in Conns : Lifecycle(k)
Tasks == \A k \in Conns : Task(k)

IInv == TypeOK /\ Lives /\ Tasks /\ NoResurrection /\ Presence /\ CrashNeedsFault

\* The invariant holds at first.
LEMMA InitIInv == Init => IInv
<1> SUFFICES ASSUME Init PROVE IInv
  OBVIOUS
<1>1. Lives
  BY DEF Init, RegInit, Lives, Lifecycle, NoReader
<1>2. Tasks
  BY DEF Init, Tasks, Task, NoReader, NoMessage, Relayed
<1>3. NoResurrection /\ Presence /\ CrashNeedsFault
  BY DEF Init, RegInit, NoResurrection, Presence, Reachable, CrashNeedsFault
<1>4. QED
  BY <1>1, <1>2, <1>3, InitTypeOK DEF IInv

\* The reader and the registry never add a key.
LEMMA KeysStay ==
  ASSUME NEW k \in Conns, ReaderStep(k)
  PROVE  keys' = keys
BY DEF ReaderStep, ReadMessage, ReadFails, HandleRegister, HandleEcho, HandleAttributes,
       HandleRename, HandleRelay, DumpRegistry, WritesDone, ResetTimer, Register,
       UpdateHeartbeat, SetAttributes, UpdatePreference, Mutate, regvars

\* Handling messages, the reader of k stays between its start and its end, and
\* no other reader is touched.
LEMMA ReaderMoves ==
  ASSUME TypeOK, NEW k \in Conns, ReaderStep(k)
  PROVE  /\ \A j \in Conns \ {k} : reader'[j] = reader[j]
         /\ reader[k].at \notin {"none", "done"}
         /\ reader'[k].at \notin {"none", "done"}
<1> USE DEF TypeOK, Reader, Proceed, ReaderGoes, ReadsOn, Idle
<1>1. CASE ReadMessage(k)
  BY <1>1 DEF ReadMessage
<1>2. CASE ReadFails(k)
  BY <1>2 DEF ReadFails
<1>3. CASE HandleRegister(k)
  BY <1>3 DEF HandleRegister
<1>4. CASE HandleEcho(k)
  BY <1>4 DEF HandleEcho
<1>5. CASE HandleAttributes(k)
  BY <1>5 DEF HandleAttributes
<1>6. CASE HandleRename(k)
  BY <1>6 DEF HandleRename
<1>7. CASE HandleRelay(k)
  BY <1>7 DEF HandleRelay
<1>8. CASE DumpRegistry(k)
  BY <1>8 DEF DumpRegistry
<1>9. CASE WritesDone(k)
  BY <1>9 DEF WritesDone
<1>10. CASE ResetTimer(k)
  BY <1>10 DEF ResetTimer
<1>11. QED
  BY <1>1, <1>2, <1>3, <1>4, <1>5, <1>6, <1>7, <1>8, <1>9, <1>10 DEF ReaderStep

\* Handler, client, reader and proxy of a connection start and end together.
LEMMA LivesStep ==
  ASSUME TypeOK, Lives, Tasks, Next
  PROVE  Lives'
<1> USE DEF Lives, Lifecycle
<1>t. /\ reader \in [Conns -> Reader] /\ writing \in [Conns -> SUBSET Conns]
      /\ handler \in [Conns -> {"none", "serving", "closing", "closed", "done"}]
      /\ client \in [Conns -> {"none", "up", "left", "lost"}]
      /\ proxy \in [Conns -> {"none", "running", "stopped"}]
  BY DEF TypeOK
<1>1. ASSUME NEW k \in Conns, ClientGoes(k) PROVE Lives'
  BY <1>1, <1>t, FaultsAssumption DEF ClientGoes, regvars
<1>2. ASSUME NEW k \in Conns, ServeHTTP(k) PROVE Lives'
  BY <1>2, <1>t DEF ServeHTTP, HandlerGoes, ReadsOn, Idle, OpenConnection
<1>3. ASSUME NEW k \in Conns, TimerFires(k) PROVE Lives'
  BY <1>3, <1>t DEF TimerFires, HandlerGoes, regvars
<1>4. ASSUME NEW k \in Conns, ReaderEnds(k) PROVE Lives'
  BY <1>4, <1>t DEF ReaderEnds, HandlerGoes, ReaderGoes, Proceed, regvars
<1>5. ASSUME NEW k \in Conns, CloseSocket(k) PROVE Lives'
  BY <1>5, <1>t DEF CloseSocket, HandlerGoes, regvars
<1>6. ASSUME NEW k \in Conns, Unregister(k) PROVE Lives'
  BY <1>6, <1>t DEF Unregister, HandlerGoes, CloseConnection
<1>7. ASSUME NEW k \in Conns, ReaderStep(k) PROVE Lives'
  <2>1. UNCHANGED <<client, handler, proxy, writing, keys>>
    BY <1>7, KeysStay DEF ReaderStep
  <2>2. QED
    BY <1>7, <2>1, ReaderMoves
<1>8. ASSUME NEW k \in Conns, ProxyStops(k) PROVE Lives'
  BY <1>8, <1>t DEF ProxyStops, Offers, regvars
<1>9. ASSUME NEW k \in Conns, NEW t \in Conns, WriteStep(k, t) PROVE Lives'
  <2>1. UNCHANGED <<client, handler, proxy, keys>>
    BY <1>9 DEF WriteStep, regvars
  <2>2. writing'[t] # {} => proxy[t] = "running"
    BY <1>9, <1>t DEF WriteStep, TakeOffer, Offers, WriteSucceeds, WriteFails, WriteRefused
  <2>3. \A u \in Conns \ {t} : writing'[u] = writing[u]
    BY <1>9, <1>t DEF WriteStep, TakeOffer, WriteSucceeds, WriteFails, WriteRefused
  <2>4. \A j \in Conns \ {k} : reader'[j] = reader[j]
    BY <1>9, <1>t DEF WriteStep, TakeOffer, WriteSucceeds, WriteFails, WriteRefused, GiveUp,
                      Proceed, ReadsOn
  <2>5. reader'[k].at \in {reader[k].at, "reading"}
    BY <1>9, <1>t DEF WriteStep, TakeOffer, WriteSucceeds, WriteFails, WriteRefused, GiveUp,
                      Proceed, ReadsOn, Idle
  <2>6. reader[k].at \in {"writing", "replying"}
    BY <1>9, <1>t DEF WriteStep, TakeOffer, WriteSucceeds, WriteFails, WriteRefused,
                      WantsToWrite, Tasks, Task
  <2>7. QED
    BY <2>1, <2>2, <2>3, <2>4, <2>5, <2>6, <1>t
<1>10. QED
  BY <1>1, <1>2, <1>3, <1>4, <1>5, <1>6, <1>7, <1>8, <1>9 DEF Next, HandlerStep

\* The task of a connection whose reader is neither moved nor in a write that
\* changes.
LEMMA TaskStays ==
  ASSUME NEW j \in Conns, Task(j), reader'[j] = reader[j],
         \A t \in Conns : j \in writing'[t] => j \in writing[t]
  PROVE  Task(j)'
BY DEF Task

\* A step of the reader keeps what it has to do consistent.
LEMMA ReaderTask ==
  ASSUME TypeOK, Tasks, NEW k \in Conns, ReaderStep(k)
  PROVE  Task(k)'
<1>t. reader \in [Conns -> Reader] /\ reader[k] \in Reader /\ writing' = writing
  BY DEF TypeOK, ReaderStep
<1>k. Task(k)
  BY DEF Tasks
<1> USE DEF Task, Proceed, ReaderGoes, Relayed
<1>1. CASE ReadMessage(k)
  BY <1>1, <1>t, <1>k DEF ReadMessage
<1>2. CASE ReadFails(k)
  BY <1>2, <1>t, <1>k DEF ReadFails
<1>3. CASE HandleRegister(k)
  BY <1>3, <1>t, <1>k DEF HandleRegister
<1>4. CASE HandleEcho(k)
  BY <1>4, <1>t, <1>k DEF HandleEcho
<1>5. CASE HandleAttributes(k)
  BY <1>5, <1>t, <1>k DEF HandleAttributes
<1>o. ASSUME ReadsOn(k), reader[k].todo = {} PROVE Task(k)'
  BY <1>o, <1>t, <1>k DEF ReadsOn, Idle, NoMessage
<1>6. CASE HandleRename(k)
  BY <1>6, <1>t, <1>k, <1>o DEF HandleRename
<1>7. CASE HandleRelay(k)
  BY <1>7, <1>t, <1>k DEF HandleRelay
<1>8. CASE DumpRegistry(k)
  BY <1>8, <1>t, <1>k DEF DumpRegistry
<1>9. CASE WritesDone(k)
  BY <1>9, <1>t, <1>k DEF WritesDone
<1>10. CASE ResetTimer(k)
  BY <1>10, <1>t, <1>k, <1>o DEF ResetTimer
<1>11. QED
  BY <1>1, <1>2, <1>3, <1>4, <1>5, <1>6, <1>7, <1>8, <1>9, <1>10 DEF ReaderStep

\* So does a write.
LEMMA WriteTask ==
  ASSUME TypeOK, Tasks, NEW k \in Conns, NEW t \in Conns, WriteStep(k, t)
  PROVE  Task(k)'
<1>t. /\ reader \in [Conns -> Reader] /\ reader[k] \in Reader
      /\ writing \in [Conns -> SUBSET Conns]
  BY DEF TypeOK
<1>k. Task(k)
  BY DEF Tasks
<1>o. ASSUME ReadsOn(k), \A u \in Conns : k \notin writing'[u] PROVE Task(k)'
  BY <1>o, <1>t DEF ReadsOn, Idle, NoMessage, Task, Relayed
<1>1. CASE TakeOffer(k, t)
  BY <1>1, <1>t, <1>k DEF TakeOffer, WantsToWrite, Task
<1>2. CASE WriteSucceeds(k, t)
  BY <1>2, <1>t, <1>k DEF WriteSucceeds, Proceed, Task, Relayed
<1>3. CASE WriteFails(k, t)
  <2>1. \A u \in Conns : k \notin writing'[u]
    BY <1>3, <1>t, <1>k DEF WriteFails, Task
  <2>2. CASE reader' = reader
    BY <2>1, <2>2, <1>k DEF Task
  <2>3. QED
    BY <1>3, <2>1, <2>2, <1>o DEF WriteFails, GiveUp
<1>4. CASE WriteRefused(k, t)
  <2>1. \A u \in Conns : k \notin writing'[u]
    BY <1>4 DEF WriteRefused, WantsToWrite
  <2>2. CASE reader' = reader
    BY <2>1, <2>2, <1>k DEF Task
  <2>3. QED
    BY <1>4, <2>1, <2>2, <1>o DEF WriteRefused, GiveUp
<1>5. QED
  BY <1>1, <1>2, <1>3, <1>4 DEF WriteStep

\* So does every step.
LEMMA TasksStep ==
  ASSUME TypeOK, Lives, Tasks, Next
  PROVE  Tasks'
<1>t. reader \in [Conns -> Reader] /\ writing \in [Conns -> SUBSET Conns]
  BY DEF TypeOK
<1>k. \A k \in Conns : Task(k)
  BY DEF Tasks
<1>1. ASSUME UNCHANGED <<reader, writing>> PROVE Tasks'
  BY <1>1, <1>k, TaskStays DEF Tasks
<1>2. ASSUME NEW k \in Conns, HandlerStep(k) PROVE Tasks'
  <2>1. CASE ServeHTTP(k)
    <3>1. Task(k)'
      BY <2>1, <1>t, <1>k DEF ServeHTTP, HandlerGoes, ReadsOn, Idle, NoMessage, Task, Relayed,
                               Lives, Lifecycle
    <3>2. \A j \in Conns \ {k} : Task(j)'
      BY <2>1, <1>t, <1>k, TaskStays DEF ServeHTTP, HandlerGoes, ReadsOn
    <3>3. QED
      BY <3>1, <3>2 DEF Tasks
  <2>2. CASE ReaderEnds(k)
    <3>1. Task(k)'
      BY <2>2, <1>t, <1>k DEF ReaderEnds, HandlerGoes, ReaderGoes, Proceed, Task, Relayed
    <3>2. \A j \in Conns \ {k} : Task(j)'
      BY <2>2, <1>t, <1>k, TaskStays DEF ReaderEnds, HandlerGoes, ReaderGoes, Proceed
    <3>3. QED
      BY <3>1, <3>2 DEF Tasks
  <2>3. QED
    BY <1>1, <1>2, <2>1, <2>2 DEF HandlerStep, HandlerGoes, TimerFires, CloseSocket, Unregister
<1>3. ASSUME NEW k \in Conns, ReaderStep(k) PROVE Tasks'
  <2>1. \A j \in Conns \ {k} : Task(j)'
    BY <1>3, <1>k, ReaderMoves, TaskStays DEF ReaderStep
  <2>2. QED
    BY <1>3, <2>1, ReaderTask DEF Tasks
<1>4. ASSUME NEW k \in Conns, NEW t \in Conns, WriteStep(k, t) PROVE Tasks'
  <2>1. \A j \in Conns \ {k} : reader'[j] = reader[j]
    BY <1>4, <1>t DEF WriteStep, TakeOffer, WriteSucceeds, WriteFails, WriteRefused, GiveUp,
                      Proceed, ReadsOn
  <2>2. \A j \in Conns \ {k}, u \in Conns : j \in writing'[u] => j \in writing[u]
    BY <1>4, <1>t DEF WriteStep, TakeOffer, WriteSucceeds, WriteFails, WriteRefused
  <2>3. \A j \in Conns \ {k} : Task(j)'
    BY <1>k, <2>1, <2>2, TaskStays
  <2>4. QED
    BY <1>4, <2>3, WriteTask DEF Tasks
<1>5. QED
  BY <1>1, <1>2, <1>3, <1>4 DEF Next, ClientGoes, ProxyStops

\* No step brings a closed connection back.
LEMMA NoResurrectionStep ==
  ASSUME TypeOK, NoResurrection, Next
  PROVE  NoResurrection'
<1> USE DEF NoResurrection
<1>t. handler \in [Conns -> {"none", "serving", "closing", "closed", "done"}]
  BY DEF TypeOK
<1>1. ASSUME NEW k \in Conns, ClientGoes(k) PROVE NoResurrection'
  BY <1>1 DEF ClientGoes, regvars
<1>2. ASSUME NEW k \in Conns, HandlerStep(k) PROVE NoResurrection'
  BY <1>2, <1>t DEF HandlerStep, ServeHTTP, TimerFires, ReaderEnds, CloseSocket, Unregister,
                    HandlerGoes, OpenConnection, CloseConnection, regvars
<1>3. ASSUME NEW k \in Conns, ReaderStep(k) PROVE NoResurrection'
  BY <1>3, KeysStay DEF ReaderStep
<1>4. ASSUME NEW k \in Conns, ProxyStops(k) PROVE NoResurrection'
  BY <1>4 DEF ProxyStops, regvars
<1>5. ASSUME NEW k \in Conns, NEW t \in Conns, WriteStep(k, t) PROVE NoResurrection'
  BY <1>5 DEF WriteStep, regvars
<1>6. QED
  BY <1>1, <1>2, <1>3, <1>4, <1>5 DEF Next

------------------------------------------------------------------------------
(* Presence and crashes.                                                   *)

\* A step never makes a system healthy that was not.
LEMMA HealthIsLost ==
  ASSUME TypeOK, Lives, Next, Healthy'
  PROVE  Healthy
<1> USE DEF Healthy, Lives, Lifecycle
<1>t. /\ client \in [Conns -> {"none", "up", "left", "lost"}]
      /\ handler \in [Conns -> {"none", "serving", "closing", "closed", "done"}]
  BY DEF TypeOK
<1>1. ASSUME NEW k \in Conns, ClientGoes(k) PROVE Healthy
  BY <1>1, <1>t, FaultsAssumption DEF ClientGoes
<1>2. ASSUME NEW k \in Conns, HandlerStep(k) PROVE Healthy
  BY <1>2, <1>t DEF HandlerStep, ServeHTTP, TimerFires, ReaderEnds, CloseSocket, Unregister,
                    HandlerGoes
<1>3. QED
  BY <1>1, <1>2 DEF Next, ReaderStep, WriteStep, ProxyStops

\* While all is healthy, a write neither fails nor is refused.
LEMMA HealthyWrites ==
  ASSUME TypeOK, Lives, Healthy, NEW k \in Conns, NEW t \in Conns, WriteStep(k, t)
  PROVE  TakeOffer(k, t) \/ WriteSucceeds(k, t)
<1>1. CASE WriteFails(k, t)
  BY <1>1 DEF WriteFails, MayFail, SocketClosed, Healthy, Lives, Lifecycle
<1>2. CASE WriteRefused(k, t)
  BY <1>2 DEF WriteRefused, Healthy, Lives, Lifecycle
<1>3. QED
  BY <1>1, <1>2 DEF WriteStep

\* The connections that can be written to, after a step of the reader of k:
\* only a Register makes one reachable.
LEMMA ReachableStep ==
  ASSUME TypeOK, NEW k \in Conns, ReaderStep(k)
  PROVE  Reachable' = IF HandleRegister(k) THEN Reachable \cup (keys \cap {k}) ELSE Reachable
<1>t. entry \in [Conns -> Entry] /\ keys \subseteq Conns
  BY DEF TypeOK, RegTypeOK
<1>m. ASSUME NEW e, Mutate(k, e), e.reachable = entry[k].reachable PROVE Reachable' = Reachable
  BY <1>m, <1>t DEF Mutate, Reachable
<1>u. UNCHANGED regvars => Reachable' = Reachable
  BY DEF regvars, Reachable
<1>e. entry[k] \in Entry
  BY <1>t
<1>1. CASE HandleRegister(k)
  <2> DEFINE e == [entry[k] EXCEPT !.named = TRUE, !.reachable = TRUE]
  <2>1. e.reachable = TRUE
    BY <1>e DEF Entry
  <2>2. Mutate(k, e)
    BY <1>1 DEF HandleRegister, Register
  <2> HIDE DEF e
  <2>3. QED
    BY <1>1, <2>1, <2>2, <1>t DEF Mutate, Reachable
<1>2. CASE HandleEcho(k)
  <2>1. [entry[k] EXCEPT !.beat = TRUE].reachable = entry[k].reachable
    BY <1>e DEF Entry
  <2>2. reader[k].msg.kind # "register"
    BY <1>2 DEF HandleEcho
  <2>3. QED
    BY <1>2, <1>m, <2>1, <2>2 DEF HandleEcho, UpdateHeartbeat, HandleRegister
<1>3. CASE HandleAttributes(k)
  <2>1. ASSUME NEW w, NEW a
        PROVE  [entry[k] EXCEPT !.attrs = (@ \ w) \cup a].reachable = entry[k].reachable
    BY <1>e DEF Entry
  <2>2. reader[k].at # "handling"
    BY <1>3 DEF HandleAttributes, ReaderGoes
  <2>3. QED
    BY <1>3, <1>m, <2>1, <2>2 DEF HandleAttributes, SetAttributes, HandleRegister, ReaderGoes
<1>4. CASE HandleRename(k)
  <2>1. ASSUME NEW c
        PROVE  [entry[k] EXCEPT !.named = TRUE, !.attrs = @ \cup c].reachable
                 = entry[k].reachable
    BY <1>e DEF Entry
  <2>2. reader[k].msg.kind # "register"
    BY <1>4 DEF HandleRename
  <2>3. QED
    BY <1>4, <1>m, <1>u, <2>1, <2>2 DEF HandleRename, UpdatePreference, HandleRegister
<1>5. QED
  BY <1>1, <1>2, <1>3, <1>4, <1>u DEF ReaderStep, ReadMessage, ReadFails, HandleRelay,
     DumpRegistry, WritesDone, ResetTimer, HandleRegister, ReaderGoes

\* A step of the reader of k takes back nothing it has told, while all is
\* healthy.
LEMMA ToldStays ==
  ASSUME TypeOK, NEW k \in Conns, NEW l \in Reachable, ReaderStep(k), Told(k, l)
  PROVE  Told(k, l)'
<1>t. reader \in [Conns -> Reader] /\ reader[k] \in Reader
  BY DEF TypeOK
<1>h. heard' = heard
  BY DEF ReaderStep
<1>1. CASE k \in heard[l]
  BY <1>1, <1>h DEF Told
<1>2. CASE k \notin heard[l]
  <2>1. reader[k].msg.kind = "register" /\ reader[k].at \in {"dumping", "writing"}
    BY <1>2 DEF Told
  <2>2. CASE DumpRegistry(k)
    BY <2>1, <2>2, <1>t DEF DumpRegistry, Proceed, Told
  <2>3. ~WritesDone(k)
    BY <1>2 DEF WritesDone, Told, ReaderGoes
  <2>4. DumpRegistry(k) \/ WritesDone(k)
    BY <2>1 DEF ReaderStep, ReadMessage, ReadFails, HandleRegister, HandleEcho,
       HandleAttributes, HandleRename, HandleRelay, ResetTimer, ReaderGoes
  <2>5. QED
    BY <2>2, <2>3, <2>4
<1>3. QED
  BY <1>1, <1>2

\* While all is healthy, a node that enters or ends its broadcast has told, or
\* been told of, those that did so before.
LEMMA PresenceStep ==
  ASSUME TypeOK, Lives, Presence, Next
  PROVE  Presence'
<1> SUFFICES ASSUME Healthy' PROVE (\A k, l \in Reachable : Told(k, l) \/ Told(l, k))'
  BY DEF Presence
<1>h. Healthy
  BY HealthIsLost
<1>p. \A k, l \in Reachable : Told(k, l) \/ Told(l, k)
  BY <1>h DEF Presence
<1>t. /\ reader \in [Conns -> Reader] /\ heard \in [Conns -> SUBSET Conns]
      /\ keys \subseteq Conns /\ Reachable \subseteq Conns
      /\ handler \in [Conns -> {"none", "serving", "closing", "closed", "done"}]
  BY DEF TypeOK, RegTypeOK, Reachable
<1>s. ASSUME \A i, j \in Reachable : Told(i, j) => Told(i, j)', Reachable' \subseteq Reachable
      PROVE  (\A k, l \in Reachable : Told(k, l) \/ Told(l, k))'
  BY <1>s, <1>p
<1>1. ASSUME UNCHANGED <<keys, entry, reader, heard>>
      PROVE  (\A k, l \in Reachable : Told(k, l) \/ Told(l, k))'
  BY <1>1, <1>p DEF Told, Reachable
<1>2. ASSUME NEW k \in Conns, HandlerStep(k)
      PROVE  (\A i, j \in Reachable : Told(i, j) \/ Told(j, i))'
  <2>1. CASE ServeHTTP(k)
    <3>1. Reachable' \subseteq Reachable /\ k \notin Reachable
      BY <2>1 DEF ServeHTTP, HandlerGoes, OpenConnection, Reachable, Fresh, Lives, Lifecycle,
                  TypeOK, RegTypeOK
    <3>2. \A i \in Conns \ {k} : reader'[i] = reader[i]
      BY <2>1, <1>t DEF ServeHTTP, ReadsOn
    <3>3. \A i, j \in Reachable : Told(i, j) => Told(i, j)'
      BY <2>1, <3>1, <3>2, <1>t DEF Told, ServeHTTP, HandlerGoes
    <3>4. QED
      BY <3>1, <3>3, <1>s
  <2>2. ~ServeHTTP(k) => handler'[k] \in {"closing", "closed", "done"}
    BY <1>2, <1>t DEF HandlerStep, TimerFires, ReaderEnds, CloseSocket, Unregister, HandlerGoes
  <2>3. QED
    BY <2>1, <2>2 DEF Healthy
<1>3. ASSUME NEW k \in Conns, ReaderStep(k)
      PROVE  (\A i, j \in Reachable : Told(i, j) \/ Told(j, i))'
  <2>1. \A i \in Conns \ {k}, j \in Conns : Told(i, j) => Told(i, j)'
    BY <1>3, ReaderMoves DEF Told, ReaderStep
  <2>2. \A i, j \in Reachable : Told(i, j) => Told(i, j)'
    BY <1>3, <1>t, <2>1, ToldStays
  <2>3. CASE HandleRegister(k)
    <3>1. \A j \in Conns : Told(k, j)'
      BY <2>3, <1>t DEF HandleRegister, ReaderGoes, Proceed, Told
    <3>2. Reachable' \subseteq Reachable \cup {k}
      BY <1>3, ReachableStep
    <3>3. QED
      BY <1>p, <1>t, <2>2, <3>1, <3>2
  <2>4. CASE ~HandleRegister(k)
    BY <1>3, <1>s, <2>2, <2>4, ReachableStep
  <2>5. QED
    BY <2>3, <2>4
<1>4. ASSUME NEW k \in Conns, NEW t \in Conns, WriteStep(k, t)
      PROVE  (\A i, j \in Reachable : Told(i, j) \/ Told(j, i))'
  <2>1. Reachable' = Reachable
    BY <1>4 DEF WriteStep, regvars, Reachable
  <2>2. TakeOffer(k, t) \/ WriteSucceeds(k, t)
    BY <1>4, <1>h, HealthyWrites
  <2>3. CASE TakeOffer(k, t)
    BY <2>1, <2>3, <1>p DEF TakeOffer, Told
  <2>4. CASE WriteSucceeds(k, t)
    <3>1. \A i, j \in Reachable : Told(i, j) => Told(i, j)'
      BY <2>4, <1>t DEF WriteSucceeds, Proceed, Told
    <3>2. QED
      BY <2>1, <3>1, <1>s
  <2>5. QED
    BY <2>2, <2>3, <2>4
<1>5. QED
  BY <1>1, <1>2, <1>3, <1>4 DEF Next, ClientGoes, ProxyStops, regvars

\* A step that ends the process has a fault behind it.
LEMMA CrashStep ==
  ASSUME TypeOK, Lives, Next
  PROVE  CrashNeedsFault'
<1>c. crashed = "no"
  BY DEF Next
<1>1. ASSUME UNCHANGED crashed PROVE CrashNeedsFault'
  BY <1>1, <1>c DEF CrashNeedsFault
<1>2. ASSUME NEW k \in Conns, ReaderStep(k) PROVE CrashNeedsFault'
  <2>1. CASE ResetTimer(k)
    BY <2>1, <1>2, <1>c DEF ResetTimer, TimerIsNil, CrashNeedsFault, Healthy, ReaderStep
  <2>2. CASE HandleRename(k)
    BY <2>2, <1>c DEF HandleRename, RenamePanics, CrashNeedsFault, regvars
  <2>3. QED
    BY <1>1, <1>2, <2>1, <2>2 DEF ReaderStep, ReadMessage, ReadFails, HandleRegister,
       HandleEcho, HandleAttributes, HandleRelay, DumpRegistry, WritesDone
<1>3. ASSUME NEW k \in Conns, NEW t \in Conns, WriteStep(k, t) PROVE CrashNeedsFault'
  <2>1. CASE WriteFails(k, t) \/ WriteRefused(k, t)
    <3>1. ~Healthy
      BY <2>1, <1>3 DEF WriteFails, MayFail, SocketClosed, WriteRefused, Healthy, Lives, Lifecycle
    <3>2. ~Healthy'
      BY <3>1, <1>3 DEF WriteStep, Healthy
    <3>3. crashed' \in {"no", "ice"}
      BY <2>1, <1>c DEF WriteFails, WriteRefused, GiveUp
    <3>4. QED
      BY <3>2, <3>3 DEF CrashNeedsFault
  <2>2. QED
    BY <1>1, <1>3, <2>1 DEF WriteStep, TakeOffer, WriteSucceeds
<1>4. QED
  BY <1>1, <1>2, <1>3 DEF Next, ClientGoes, ProxyStops, HandlerStep, HandlerGoes, ServeHTTP,
     TimerFires, ReaderEnds, CloseSocket, Unregister

\* Every step keeps the invariant.
LEMMA NextIInv == IInv /\ [Next]_vars => IInv'
<1> SUFFICES ASSUME IInv, [Next]_vars PROVE IInv'
  OBVIOUS
<1>1. CASE Next
  BY <1>1, NextTypeOK, LivesStep, TasksStep, NoResurrectionStep, PresenceStep, CrashStep DEF IInv
<1>2. CASE UNCHANGED vars
  <2>1. TypeOK' /\ Lives' /\ Tasks'
    BY <1>2, NextTypeOK DEF IInv, vars, regvars, Lives, Lifecycle, Tasks, Task
  <2>2. NoResurrection' /\ Presence' /\ CrashNeedsFault'
    BY <1>2 DEF IInv, vars, regvars, NoResurrection, Presence, Healthy,
                Reachable, Told, CrashNeedsFault
  <2>3. QED
    BY <2>1, <2>2 DEF IInv
<1>3. QED
  BY <1>1, <1>2

\* The invariant holds in every behaviour.
THEOREM Invariance == Spec => []IInv
BY InitIInv, NextIInv, PTL DEF Spec

\* An entry that the deferred CloseConnection deleted never comes back: for any
\* number of connections, all messages and all faults.
THEOREM Safety == Spec => []NoResurrection
<1>1. IInv => NoResurrection
  BY DEF IInv
<1>2. QED
  BY <1>1, Invariance, PTL

\* Of two registered nodes one at least was told of the other, as long as no
\* connection fails.
THEOREM NodesMeet == Spec => []PresenceComplete
<1>1. ASSUME IInv PROVE PresenceComplete
  <2> SUFFICES ASSUME Healthy, NEW k \in Conns, NEW l \in Conns, Announced(k), Announced(l)
               PROVE  l \in heard[k] \/ k \in heard[l]
    BY DEF PresenceComplete
  <2>1. Told(k, l) \/ Told(l, k)
    BY <1>1 DEF IInv, Presence, Announced
  <2>2. QED
    BY <2>1 DEF Told, Announced
<1>2. QED
  BY <1>1, Invariance, PTL

\* Among registered nodes whose connections are healthy nothing ends the
\* process.
THEOREM CrashesHaveACause == Spec => []CrashNeedsFault
<1>1. IInv => CrashNeedsFault
  BY DEF IInv
<1>2. QED
  BY <1>1, Invariance, PTL

------------------------------------------------------------------------------
(* The signalling server implements LossyRelay.                            *)

Pending == [k \in Conns |-> Held(k)]

\* A step that moves only the reader of k, and leaves what it holds, is a
\* stutter.
LEMMA HeldStays ==
  ASSUME NEW k \in Conns, \A j \in Conns \ {k} : reader'[j] = reader[j], Held(k)' = Held(k)
  PROVE  Pending' = Pending
BY DEF Pending, Held

\* Likewise if it loses its message: that message is dropped.
LEMMA HeldIsDropped ==
  ASSUME NEW k \in Conns, \A j \in Conns \ {k} : reader'[j] = reader[j],
         Held(k)' = <<>>, outbox' = outbox
  PROVE  Relay!Drop(k) \/ (Pending' = Pending /\ outbox' = outbox)
<1>1. CASE Held(k) = <<>>
  BY <1>1, HeldStays
<1>2. CASE Held(k) # <<>>
  <2>1. Held(k) = <<reader[k].msg>>
    BY <1>2 DEF Held
  <2>2. Tail(Held(k)) = <<>>
    BY <2>1
  <2>3. Pending' = [Pending EXCEPT ![k] = Tail(@)]
    BY <2>2 DEF Pending, Held
  <2>4. QED
    BY <1>2, <2>3 DEF Relay!Drop, Pending
<1>3. QED
  BY <1>1, <1>2

\* At first nothing is held or delivered.
LEMMA RelayInit == Init => Relay!LInit
BY DEF Init, Relay!LInit, Held, NoReader, NoMessage, Relayed

\* A step of a reader takes a message up, drops it, or stutters.
LEMMA ReaderRelay ==
  ASSUME TypeOK, Tasks, NEW k \in Conns, ReaderStep(k)
  PROVE  \/ Relay!Drop(k) \/ (Pending' = Pending /\ outbox' = outbox)
         \/ Relay!Grows(k) /\ \E m \in Message : m.from = k /\ Relay!Submit(k, m)
<1>t. reader \in [Conns -> Reader] /\ reader[k] \in Reader
  BY DEF TypeOK
<1>k. Task(k)
  BY DEF Tasks
<1>o. outbox' = outbox /\ \A j \in Conns \ {k} : reader'[j] = reader[j]
  BY ReaderMoves DEF ReaderStep
<1> USE DEF Held, Task, ReaderGoes, Proceed
<1>1. CASE ReadMessage(k)
  <2>1. PICK kind \in Kinds, t \in Conns :
          reader' = [reader EXCEPT ![k] =
            [at   |-> "handling",
             msg  |-> [kind |-> kind, from |-> k, to |-> t, n |-> received[k]],
             todo |-> {}]]
    BY <1>1 DEF ReadMessage
  <2> DEFINE m == [kind |-> kind, from |-> k, to |-> t, n |-> received[k]]
  <2>2. m \in Message /\ m.from = k
    BY DEF Message, TypeOK
  <2>3. Held(k) = <<>>
    BY <1>1, <1>k DEF ReadMessage, NoMessage, Relayed
  <2>4. CASE Relayed(m)
    <3>1. Held(k)' = <<m>>
      BY <2>1, <2>4, <1>t DEF Relayed
    <3>2. Append(<<>>, m) = <<m>>
      OBVIOUS
    <3>3. Pending' = [Pending EXCEPT ![k] = Append(@, m)]
      BY <1>o, <2>3, <3>1, <3>2 DEF Pending
    <3>4. Relay!Submit(k, m)
      BY <3>3, <1>o DEF Relay!Submit, Pending
    <3>5. Len(<<m>>) = 1 /\ Len(<<>>) = 0
      OBVIOUS
    <3>6. Relay!Grows(k)
      BY <2>3, <3>1, <3>5 DEF Relay!Grows, Pending
    <3> HIDE DEF m
    <3>7. QED
      BY <2>2, <3>4, <3>6, Zenon DEF Relay!Submit, Relay!Grows
  <2>5. CASE ~Relayed(m)
    <3>1. Held(k)' = <<>>
      BY <2>1, <2>5, <1>t DEF Relayed
    <3>2. QED
      BY <1>o, <2>3, <3>1, HeldStays
  <2>6. QED
    BY <2>4, <2>5
<1>2. CASE ReadFails(k)
  BY <1>2, <1>t, <1>k, <1>o, HeldStays DEF ReadFails, Relayed, NoMessage
<1>3. CASE HandleRegister(k)
  BY <1>3, <1>t, <1>k, <1>o, HeldStays DEF HandleRegister, Relayed
<1>4. CASE HandleEcho(k)
  BY <1>4, <1>t, <1>k, <1>o, HeldStays DEF HandleEcho, Relayed
<1>5. CASE HandleAttributes(k)
  BY <1>5, <1>t, <1>k, <1>o, HeldStays DEF HandleAttributes, Relayed
<1>i. ASSUME ReadsOn(k), ~Relayed(reader[k].msg) \/ reader[k].at = "resetting"
      PROVE  Pending' = Pending
  BY <1>i, <1>t, <1>k, <1>o, HeldStays DEF ReadsOn, Idle, NoMessage, Relayed
<1>s. reader' = reader => Pending' = Pending
  BY DEF Pending
<1>6. CASE HandleRename(k)
  <2>1. ~Relayed(reader[k].msg)
    BY <1>6 DEF HandleRename, Relayed
  <2>2. ASSUME Proceed(k, "dumping", {}) PROVE Pending' = Pending
    BY <2>1, <2>2, <1>t, <1>o, HeldStays DEF Relayed
  <2>3. QED
    BY <1>6, <1>i, <1>s, <1>o, <2>1, <2>2 DEF HandleRename
<1>7. CASE HandleRelay(k)
  <2>1. CASE reader[k].msg.to \in Reachable
    <3>1. Held(k) = <<reader[k].msg>>
      BY <1>7 DEF HandleRelay
    <3>2. reader'[k] = [at |-> "writing", msg |-> reader[k].msg, todo |-> {reader[k].msg.to}]
      BY <1>7, <2>1, <1>t DEF HandleRelay
    <3>3. Held(k)' = <<reader[k].msg>>
      BY <1>7, <3>2 DEF HandleRelay, Relayed
    <3>4. QED
      BY <1>o, <3>1, <3>3, HeldStays
  <2>2. CASE reader[k].msg.to \notin Reachable
    <3>1. Held(k)' = <<>>
      BY <1>7, <2>2, <1>t DEF HandleRelay, Relayed
    <3>2. QED
      BY <3>1, <1>o, HeldIsDropped
  <2>3. QED
    BY <2>1, <2>2
<1>8. CASE DumpRegistry(k)
  BY <1>8, <1>t, <1>k, <1>o, HeldStays DEF DumpRegistry, Relayed
<1>9. CASE WritesDone(k)
  <2>1. Held(k) = <<>>
    BY <1>9 DEF WritesDone
  <2>2. Held(k)' = <<>>
    <3>1. CASE Proceed(k, "replying", {k}) /\ reader[k].msg.kind = "register"
      BY <3>1, <1>t DEF Relayed
    <3>2. CASE Proceed(k, "resetting", {})
      BY <3>2, <1>t DEF Relayed
    <3>3. QED
      BY <1>9, <3>1, <3>2 DEF WritesDone
  <2>3. QED
    BY <1>o, <2>1, <2>2, HeldStays
<1>10. CASE ResetTimer(k)
  BY <1>10, <1>i, <1>s, <1>o DEF ResetTimer
<1>11. QED
  BY <1>1, <1>2, <1>3, <1>4, <1>5, <1>6, <1>7, <1>8, <1>9, <1>10 DEF ReaderStep

\* A write delivers the message held, drops it, or stutters.
LEMMA WriteRelay ==
  ASSUME TypeOK, Tasks, NEW k \in Conns, NEW t \in Conns, WriteStep(k, t)
  PROVE  Relay!Drop(k) \/ Relay!Deliver(k) \/ (Pending' = Pending /\ outbox' = outbox)
<1>t. /\ reader \in [Conns -> Reader] /\ reader[k] \in Reader
      /\ outbox \in [Conns -> Seq(Message)]
  BY DEF TypeOK
<1>k. Task(k)
  BY DEF Tasks
<1>s. reader' = reader => Pending' = Pending
  BY DEF Pending, Held
<1>o. \A j \in Conns \ {k} : reader'[j] = reader[j]
  BY <1>t DEF WriteStep, TakeOffer, WriteSucceeds, WriteFails, WriteRefused, GiveUp,
              Proceed, ReadsOn
<1>g. ASSUME GiveUp(k)
      PROVE  Relay!Drop(k) \/ (Pending' = Pending /\ outbox' = outbox)
  <2>1. CASE reader' = reader
    BY <1>g, <1>s, <2>1 DEF GiveUp
  <2>2. CASE ReadsOn(k)
    <3>1. Held(k)' = <<>>
      BY <2>2, <1>t DEF ReadsOn, Held, Idle, NoMessage, Relayed
    <3>2. QED
      BY <1>g, <1>o, <3>1, HeldIsDropped DEF GiveUp
  <2>3. QED
    BY <1>g, <2>1, <2>2 DEF GiveUp
<1>1. CASE WriteSucceeds(k, t)
  <2> DEFINE m == reader[k].msg
  <2>1. t \in reader[k].todo /\ reader[k].at \in {"writing", "replying"}
    BY <1>1, <1>k DEF WriteSucceeds, Task
  <2>2. CASE ~Relayed(m)
    <3>1. Held(k)' = Held(k)
      BY <1>1, <2>2, <1>t DEF WriteSucceeds, Proceed, Held, Relayed
    <3>2. outbox' = outbox
      BY <1>1, <2>2 DEF WriteSucceeds
    <3>3. QED
      BY <1>o, <3>1, <3>2, HeldStays
  <2>3. CASE Relayed(m)
    <3>1. t = m.to
      BY <2>1, <2>3, <1>k DEF Task
    <3>2. Held(k) = <<m>>
      BY <2>1, <2>3 DEF Held
    <3>3. reader[k].todo \ {t} = {}
      BY <2>1, <2>3, <3>1, <1>k DEF Task
    <3>4. Held(k)' = <<>>
      BY <1>1, <2>1, <3>3, <1>t DEF WriteSucceeds, Proceed, Held, Relayed
    <3>5. Head(<<m>>) = m /\ Tail(<<m>>) = <<>>
      OBVIOUS
    <3>6. Pending' = [Pending EXCEPT ![k] = Tail(@)]
      BY <1>o, <3>2, <3>4, <3>5 DEF Pending, Held
    <3>7. outbox' = [outbox EXCEPT ![m.to] = Append(@, m)]
      BY <1>1, <2>3, <3>1 DEF WriteSucceeds
    <3>8. Pending[k] = <<m>> /\ Pending[k] # <<>>
      BY <3>2, SMTT(30) DEF Pending
    <3>9. QED
      BY <3>5, <3>6, <3>7, <3>8 DEF Relay!Deliver, Pending
  <2>4. QED
    BY <2>2, <2>3
<1>2. QED
  BY <1>1, <1>g, <1>s DEF WriteStep, TakeOffer, WriteFails, WriteRefused

\* The handler and its deferred calls stutter.
LEMMA HandlerRelay ==
  ASSUME TypeOK, Lives, Tasks, NEW k \in Conns, HandlerStep(k)
  PROVE  Pending' = Pending /\ outbox' = outbox
<1>t. reader \in [Conns -> Reader] /\ reader[k] \in Reader
  BY DEF TypeOK
<1>k. Task(k) /\ Lifecycle(k)
  BY DEF Tasks, Lives
<1>1. outbox' = outbox
  BY DEF HandlerStep, ServeHTTP, TimerFires, ReaderEnds, CloseSocket, Unregister, HandlerGoes
<1>2. CASE ServeHTTP(k)
  BY <1>1, <1>2, <1>t, <1>k, HeldStays DEF ServeHTTP, HandlerGoes, ReadsOn, Held, Idle,
     NoMessage, Task, Relayed, Lifecycle
<1>3. CASE ReaderEnds(k)
  BY <1>1, <1>3, <1>t, <1>k, HeldStays DEF ReaderEnds, HandlerGoes, ReaderGoes, Proceed, Held,
     NoMessage, Task, Relayed
<1>4. QED
  BY <1>1, <1>2, <1>3 DEF HandlerStep, TimerFires, CloseSocket, Unregister, Pending, Held

\* So does every step of the server, or it relays.
LEMMA RelayNext ==
  IInv /\ [Next]_vars => [Relay!LNext]_(Relay!lvars)
<1> SUFFICES ASSUME IInv, [Next]_vars
             PROVE  Relay!LNext \/ (Pending' = Pending /\ outbox' = outbox)
  BY DEF Relay!lvars, Pending
<1> USE DEF IInv
<1>1. ASSUME NEW k \in Conns, HandlerStep(k) PROVE Pending' = Pending /\ outbox' = outbox
  BY <1>1, HandlerRelay
<1>2. ASSUME NEW k \in Conns, ReaderStep(k)
      PROVE  Relay!LNext \/ (Pending' = Pending /\ outbox' = outbox)
  BY <1>2, ReaderRelay DEF Relay!LNext
<1>3. ASSUME NEW k \in Conns, NEW t \in Conns, WriteStep(k, t)
      PROVE  Relay!LNext \/ (Pending' = Pending /\ outbox' = outbox)
  BY <1>3, WriteRelay DEF Relay!LNext
<1>4. ASSUME NEW k \in Conns, ClientGoes(k) \/ ProxyStops(k)
      PROVE  Pending' = Pending /\ outbox' = outbox
  BY <1>4 DEF ClientGoes, ProxyStops, Pending, Held
<1>5. CASE UNCHANGED vars
  BY <1>5 DEF vars, Pending, Held
<1>6. QED
  BY <1>1, <1>2, <1>3, <1>4, <1>5 DEF Next

\* The server relays the offers, answers and candidates of each node in the
\* order sent, each at most once and to the node it names, or drops them: for
\* any number of nodes, messages and faults.
THEOREM RelayRefinement == Spec => RelaysInOrder
BY RelayInit, RelayNext, Invariance, PTL DEF Spec, RelaysInOrder, Relay!LSpec
==============================================================================
