----------------------------- MODULE BotsProofs -----------------------------
(***************************************************************************)
(* The safety of the clock, the counter and the chat bot, for any number   *)
(* of channels, peers, commands and retries.                               *)
(***************************************************************************)
EXTENDS Bots, SequenceTheorems, FiniteSetTheorems, TLAPS

------------------------------------------------------------------------------
(* The commands in hand.                                                   *)

ClockSteps == {"stopping", "deleting", "storing", "creating"}
Job == [n : 0..read, at : JobSteps]

\* No two channels have the same command in hand; only the clock has those of
\* the clock.
Jobs ==
  /\ bot \in Kinds /\ peer \in [Chats -> Peers] /\ read \in Nat
  /\ job \in [Chats -> Job]
  /\ \A c, d \in Chats : c # d /\ job[c].n # None => job[c].n # job[d].n
  /\ \A c \in Chats : job[c].at # "idle" => job[c].n # None
  /\ \A c \in Chats : job[c].at \in ClockSteps => bot = "clock"
  /\ bot = "clock" => read <= MaxClocks

LEMMA InitJobs == Init => Jobs
BY BoundsAssumption DEF Init, Jobs, Job, JobSteps, ClockSteps, None

\* A step goes on with the command of one channel, ...
LEMMA GoesOn ==
  ASSUME Jobs, NEW c \in Chats, NEW from, NEW to, JobGoes(c, from, to), UNCHANGED <<bot, peer, read>>,
         to \in JobSteps, from # "idle", to \in ClockSteps => from \in ClockSteps
  PROVE  /\ Jobs'
         /\ job[c].at = from /\ job'[c].at = to /\ job'[c].n = job[c].n
         /\ \A d \in Chats \ {c} : job'[d] = job[d]
<1>1. job \in [Chats -> Job] /\ job' = [job EXCEPT ![c].at = to] /\ job[c].at = from
  BY DEF Jobs, JobGoes
<1>2. /\ job'[c].at = to /\ job'[c].n = job[c].n
      /\ \A d \in Chats \ {c} : job'[d] = job[d]
  BY <1>1 DEF Job
<1>3. job' \in [Chats -> Job']
  BY <1>1 DEF Job
<1>4. QED
  BY <1>1, <1>2, <1>3 DEF Jobs

\* ... or reads a new one, ...
LEMMA ReadsOne ==
  ASSUME Jobs, NEW c \in Chats, NEW first \in JobSteps, Reads(c, first), UNCHANGED <<bot, peer>>,
         first \in ClockSteps <=> bot = "clock"
  PROVE  /\ Jobs'
         /\ job[c].at = "idle" /\ job'[c] = [n |-> read + 1, at |-> first] /\ read' = read + 1
         /\ \A d \in Chats \ {c} : job'[d] = job[d]
<1>1. /\ job \in [Chats -> Job] /\ job' = [job EXCEPT ![c] = [n |-> read + 1, at |-> first]]
      /\ read \in Nat /\ read' = read + 1 /\ job[c].at = "idle"
      /\ bot = "clock" => read < MaxClocks
  BY DEF Jobs, Reads
<1>2. /\ job'[c] = [n |-> read + 1, at |-> first]
      /\ \A d \in Chats \ {c} : job'[d] = job[d]
      /\ \A d \in Chats : job[d].n \in Nat /\ job[d].n <= read
  BY <1>1 DEF Job
<1>3. Job' = [n : 0..(read + 1), at : JobSteps]
  BY <1>1 DEF Job
<1>4. \A d \in Chats : job'[d] \in Job'
  BY <1>1, <1>2, <1>3 DEF Job
<1>5. job' \in [Chats -> Job']
  BY <1>1, <1>4
<1>6. read' <= MaxClocks \/ bot # "clock"
  BY <1>1, BoundsAssumption
<1>7. \A d, e \in Chats : d # e /\ job'[d].n # None => job'[d].n # job'[e].n
  BY <1>1, <1>2 DEF Jobs, None
<1>8. QED
  BY <1>1, <1>2, <1>5, <1>6, <1>7 DEF Jobs, None

\* ... or leaves the commands alone.
LEMMA LeavesJobs ==
  ASSUME Jobs, UNCHANGED <<bot, peer, read, job>>
  PROVE  Jobs'
BY DEF Jobs, Job

\* The steps of the commands.
Steps ==
  {<<"loading", "swapping">>, <<"swapping", "idle">>, <<"swapping", "loading">>,
   <<"resetting", "idle">>, <<"asking", "asking-swap">>, <<"asking-swap", "generating">>,
   <<"asking-swap", "asking">>, <<"asking-swap", "idle">>, <<"generating", "telling">>,
   <<"telling", "telling-swap">>, <<"telling-swap", "idle">>, <<"telling-swap", "telling">>,
   <<"stopping", "storing">>, <<"stopping", "deleting">>, <<"deleting", "storing">>,
   <<"storing", "creating">>, <<"creating", "idle">>}

LEMMA JobStepGoes ==
  ASSUME NEW c \in Chats, JobStep(c)
  PROVE  read' = read /\ \E from, to : <<from, to>> \in Steps /\ JobGoes(c, from, to)
<1>1. read' = read
  BY DEF JobStep, CounterStep, LoadCounter, SwapCounter, ResetCounter, ChatStep, AppendQuestion,
     LoadHistory, SwapHistory, Generate, AppendAnswer, ClockStep, StopOld, DeleteOld, StoreNew,
     CreateStream
<1>2. CASE CounterStep(c)
  BY <1>2 DEF CounterStep, LoadCounter, SwapCounter, ResetCounter, Steps
<1>3. CASE AppendQuestion(c)
  BY <1>3 DEF AppendQuestion, LoadHistory, SwapHistory, Steps
<1>4. CASE Generate(c) \/ AppendAnswer(c)
  BY <1>4 DEF Generate, AppendAnswer, LoadHistory, SwapHistory, Steps
<1>5. CASE ClockStep(c)
  BY <1>5 DEF ClockStep, StopOld, DeleteOld, StoreNew, CreateStream, Steps
<1>6. QED
  BY <1>1, <1>2, <1>3, <1>4, <1>5 DEF JobStep, ChatStep

LEMMA ReadGoes ==
  ASSUME Jobs, NEW c \in Chats, UNCHANGED <<bot, peer>>,
         ReadNow(c) \/ ReadCounterCommand(c) \/ ReadQuestion(c)
  PROVE  \E first \in {"stopping", "loading", "resetting", "asking"} :
           /\ Reads(c, first) /\ first \in JobSteps
           /\ first \in ClockSteps <=> bot = "clock"
BY DEF ReadNow, ReadCounterCommand, ReadQuestion, ClockSteps, JobSteps

\* The steps of clocks and channels that close.
OtherStep ==
  \/ \E c \in Chats : ChatCloses(c)
  \/ \E n \in Clocks : StreamOpens(n) \/ UpdatesEnd(n) \/ StreamCloses(n)
  \/ \E x \in Chats \cup Clocks : OnCloseCancels(x) \/ OnCloseDeletes(x)

LEMMA OtherLeaves ==
  ASSUME OtherStep
  PROVE  UNCHANGED <<read, job, seen, tries, counter, history, answers>>
BY DEF OtherStep, ChatCloses, StreamOpens, UpdatesEnd, StreamCloses, OnCloseCancels, OnCloseDeletes,
   counterVars, chatVars

\* What a peer that disconnects leaves alone.
Shared == <<bot, peer, read, job, seen, tries, counter, history, answers, cancelFn, clock, stop>>

LEMMA NextCases ==
  ASSUME [Next]_vars
  PROVE  \/ UNCHANGED Shared
         \/ /\ UNCHANGED <<bot, peer>>
            /\ \/ \E c \in Chats : ReadNow(c) \/ ReadCounterCommand(c) \/ ReadQuestion(c) \/ JobStep(c)
               \/ OtherStep
<1>1. CASE UNCHANGED vars
  BY <1>1 DEF vars, Shared
<1>2. ASSUME NEW p \in Peers, Disconnects(p) PROVE UNCHANGED Shared
  BY <1>2 DEF Disconnects, Shared, counterVars, chatVars, clockVars
<1>3. QED
  BY <1>1, <1>2 DEF Next, OtherStep

LEMMA NextJobs == Jobs /\ [Next]_vars => Jobs'
<1> SUFFICES ASSUME Jobs, [Next]_vars PROVE Jobs'
  OBVIOUS
<1>1. CASE UNCHANGED Shared
  BY <1>1, LeavesJobs DEF Shared
<1>2. ASSUME UNCHANGED <<bot, peer>>, NEW c \in Chats, JobStep(c) PROVE Jobs'
  <2>1. PICK from, to : <<from, to>> \in Steps /\ JobGoes(c, from, to)
    BY <1>2, JobStepGoes
  <2>2. to \in JobSteps /\ from # "idle" /\ (to \in ClockSteps => from \in ClockSteps)
    BY <2>1 DEF Steps, JobSteps, ClockSteps
  <2>3. QED
    BY <1>2, <2>1, <2>2, JobStepGoes, GoesOn
<1>3. ASSUME UNCHANGED <<bot, peer>>, NEW c \in Chats,
             ReadNow(c) \/ ReadCounterCommand(c) \/ ReadQuestion(c)
      PROVE  Jobs'
  BY <1>3, ReadGoes, ReadsOne
<1>4. CASE OtherStep /\ UNCHANGED <<bot, peer>>
  BY <1>4, OtherLeaves, LeavesJobs
<1>5. QED
  BY <1>1, <1>2, <1>3, <1>4, NextCases

------------------------------------------------------------------------------
(* The counter.                                                            *)

Answer == [peer : Peers, command : {"increase", "reset", "chat"}, value : Nat]

Values ==
  /\ DOMAIN seen = Chats /\ tries \in [Chats -> 0..MaxRetries]
  /\ counter \in [Peers -> Nat]
  /\ answers \in Seq(Answer)

\* The increases of p in s since the last reset of p, and those before the i-th.
IncreasesIn(s, p) ==
  {j \in 1..Len(s) :
    /\ s[j].peer = p /\ s[j].command = "increase"
    /\ \A k \in j..Len(s) : ~(s[k].peer = p /\ s[k].command = "reset")}

Earlier(s, i, p) ==
  {j \in 1..(i - 1) :
    /\ s[j].peer = p /\ s[j].command = "increase"
    /\ \A k \in j..i : ~(s[k].peer = p /\ s[k].command = "reset")}

\* A counter is the number of the increases since the last reset.
Counted ==
  /\ \A p \in Peers : counter[p] = Cardinality(IncreasesIn(answers, p))
  /\ \A i \in 1..Len(answers) :
       answers[i].command = "increase" =>
         answers[i].value = 1 + Cardinality(Earlier(answers, i, answers[i].peer))

LEMMA InitCounter == Init => Values /\ Counted
<1> SUFFICES ASSUME Init PROVE Values /\ Counted
  OBVIOUS
<1>1. answers = <<>> /\ answers \in Seq(Answer) /\ Len(answers) = 0
  BY EmptySeq DEF Init
<1>2. \A p \in Peers : IncreasesIn(answers, p) = {}
  BY <1>1 DEF IncreasesIn
<1>3. Values
  BY <1>1, BoundsAssumption DEF Init, Values
<1>4. Counted
  <2>1. \A p \in Peers : counter[p] = 0
    BY DEF Init
  <2>2. Cardinality({}) = 0
    BY FS_EmptySet
  <2>3. QED
    <3>1. \A p \in Peers : counter[p] = Cardinality(IncreasesIn(answers, p))
      BY <1>2, <2>1, <2>2
    <3>2. \A i \in 1..Len(answers) : FALSE
      BY <1>1
    <3>3. QED
      BY <3>1, <3>2 DEF Counted
<1>5. QED
  BY <1>3, <1>4

\* One more answer adds to the increases, ends them, or leaves them.
OneMoreIn(s, a, t) ==
  /\ t \in Seq(Answer) /\ Len(t) = Len(s) + 1 /\ Len(s) \in Nat
  /\ t[Len(s) + 1] = a /\ \A i \in 1..Len(s) : t[i] = s[i]
  /\ \A i \in 1..Len(s), p \in Peers : Earlier(t, i, p) = Earlier(s, i, p)
  /\ \A p \in Peers :
       /\ a.peer = p /\ a.command = "reset" => IncreasesIn(t, p) = {}
       /\ a.peer = p /\ a.command = "increase" =>
            /\ Earlier(t, Len(s) + 1, p) = IncreasesIn(s, p)
            /\ IncreasesIn(t, p) = IncreasesIn(s, p) \cup {Len(s) + 1}
       /\ a.peer # p \/ a.command = "chat" => IncreasesIn(t, p) = IncreasesIn(s, p)

LEMMA OneMore ==
  ASSUME NEW s \in Seq(Answer), NEW a \in Answer, NEW t, t = Append(s, a)
  PROVE  OneMoreIn(s, a, t)
<1>1. /\ t \in Seq(Answer) /\ Len(t) = Len(s) + 1 /\ Len(s) \in Nat
      /\ t[Len(s) + 1] = a /\ \A i \in 1..Len(s) : t[i] = s[i]
  BY AppendProperties, LenProperties
<1> DEFINE n == Len(s)
<1>n. n \in Nat /\ Len(t) = n + 1 /\ t[n + 1] = a /\ \A i \in 1..n : t[i] = s[i]
  BY <1>1
<1>2. ASSUME NEW i \in 1..n, NEW p \in Peers PROVE Earlier(t, i, p) = Earlier(s, i, p)
  BY <1>n DEF Earlier
<1>3. ASSUME NEW p \in Peers, a.peer = p, a.command = "reset" PROVE IncreasesIn(t, p) = {}
  <2>1. \A j \in 1..(n + 1) : n + 1 \in j..(n + 1)
    BY <1>n
  <2>2. QED
    BY <1>3, <1>n, <2>1 DEF IncreasesIn
<1>4. ASSUME NEW p \in Peers, ~(a.peer = p /\ a.command = "reset"), NEW j \in 1..n
      PROVE  j \in IncreasesIn(t, p) <=> j \in IncreasesIn(s, p)
  <2>1. \A k \in j..(n + 1) : k \in j..n \/ k = n + 1
    BY <1>n
  <2>2. \A k \in j..n : k \in j..(n + 1) /\ t[k] = s[k] /\ j \in 1..(n + 1) /\ t[j] = s[j]
    BY <1>n
  <2>3. j \in 1..(n + 1) /\ t[j] = s[j]
    BY <1>n
  <2>4. QED
    BY <1>4, <1>n, <2>1, <2>2, <2>3 DEF IncreasesIn
<1>5. ASSUME NEW p \in Peers, a.peer = p, a.command = "increase"
      PROVE  /\ Earlier(t, n + 1, p) = IncreasesIn(s, p)
             /\ IncreasesIn(t, p) = IncreasesIn(s, p) \cup {n + 1}
  <2>1. \A j \in 1..n : j \in IncreasesIn(t, p) <=> j \in IncreasesIn(s, p)
    BY <1>4, <1>5
  <2>2. n + 1 \in IncreasesIn(t, p)
    BY <1>5, <1>n DEF IncreasesIn
  <2>3. IncreasesIn(s, p) \subseteq 1..n /\ IncreasesIn(t, p) \subseteq 1..(n + 1)
    BY <1>n DEF IncreasesIn
  <2>4. \A j \in 1..(n + 1) : j \in 1..n \/ j = n + 1
    BY <1>n
  <2>5. IncreasesIn(t, p) = IncreasesIn(s, p) \cup {n + 1}
    BY <2>1, <2>2, <2>3, <2>4, <1>n
  <2>6. n + 1 - 1 = n
    BY <1>n
  <2>7. Earlier(t, n + 1, p) = {j \in 1..n : j \in IncreasesIn(t, p)}
    BY <1>n, <2>6 DEF Earlier, IncreasesIn
  <2>8. QED
    BY <2>1, <2>3, <2>5, <2>7
<1>6. ASSUME NEW p \in Peers, a.peer # p \/ a.command = "chat"
      PROVE  IncreasesIn(t, p) = IncreasesIn(s, p)
  <2>1. \A j \in 1..n : j \in IncreasesIn(t, p) <=> j \in IncreasesIn(s, p)
    BY <1>4, <1>6
  <2>2. n + 1 \notin IncreasesIn(t, p)
    BY <1>6, <1>n DEF IncreasesIn
  <2>3. IncreasesIn(s, p) \subseteq 1..n /\ IncreasesIn(t, p) \subseteq 1..(n + 1)
    BY <1>n DEF IncreasesIn
  <2>4. \A j \in 1..(n + 1) : j \in 1..n \/ j = n + 1
    BY <1>n
  <2>5. QED
    BY <2>1, <2>2, <2>3, <2>4
<1>7. QED
  BY <1>1, <1>2, <1>3, <1>5, <1>6 DEF OneMoreIn

LEMMA IncreasesFinite ==
  ASSUME NEW s \in Seq(Answer), NEW p
  PROVE  /\ IsFiniteSet(IncreasesIn(s, p)) /\ Cardinality(IncreasesIn(s, p)) \in Nat
         /\ Len(s) + 1 \notin IncreasesIn(s, p)
<1>1. Len(s) \in Nat /\ IsFiniteSet(1..Len(s))
  BY LenProperties, FS_Interval
<1>2. IncreasesIn(s, p) \subseteq 1..Len(s)
  BY DEF IncreasesIn
<1>3. QED
  BY <1>1, <1>2, FS_Subset, FS_CardinalityType

\* The tries of an Append are at most MaxRetries, and what is answered has the
\* type of an answer.
LEMMA NextValues == Jobs /\ Values /\ [Next]_vars => Values'
<1> SUFFICES ASSUME Jobs, Values, [Next]_vars PROVE Values'
  OBVIOUS
<1>t. /\ peer \in [Chats -> Peers] /\ \A c \in Chats : job[c].n \in Nat
      /\ \A c \in Chats : tries[c] \in Nat
      /\ MaxRetries \in Nat /\ DOMAIN seen = Chats
  BY BoundsAssumption DEF Jobs, Job, Values
<1>1. CASE UNCHANGED <<seen, tries, counter, answers>>
  BY <1>1 DEF Values
<1>2. ASSUME NEW c \in Chats, NEW v, seen' = [seen EXCEPT ![c] = v], UNCHANGED <<tries, counter, answers>>
      PROVE  Values'
  <2>1. DOMAIN seen' = DOMAIN seen
    BY <1>2
  <2>2. QED
    BY <1>2, <2>1 DEF Values
<1>3. ASSUME NEW c \in Chats, NEW command \in {"increase", "reset", "chat"}, NEW v \in Nat,
             Answered(c, command, v)
      PROVE  answers' \in Seq(Answer)
  <2>1. [peer |-> peer[c], command |-> command, value |-> v] \in Answer
    BY <1>t, <1>3 DEF Answer
  <2>2. QED
    BY <1>3, <2>1, AppendProperties DEF Answered, Values
<1>4. ASSUME NEW c \in Chats, SwapCounter(c) PROVE Values'
  <2>1. CASE counter[peer[c]] = seen[c]
    <3>1. seen[c] + 1 \in Nat
      BY <1>t, <2>1 DEF Values
    <3>2. answers' \in Seq(Answer) /\ counter' \in [Peers -> Nat]
      BY <1>t, <1>3, <1>4, <2>1, <3>1 DEF SwapCounter, Values
    <3>3. QED
      BY <1>4, <3>2 DEF Values, SwapCounter, chatVars
  <2>2. CASE counter[peer[c]] # seen[c]
    BY <1>1, <1>4, <2>2 DEF SwapCounter, chatVars
  <2>3. QED
    BY <2>1, <2>2
<1>5. ASSUME NEW c \in Chats, ResetCounter(c) PROVE Values'
  <2>1. answers' \in Seq(Answer) /\ counter' \in [Peers -> Nat]
    BY <1>t, <1>3, <1>5 DEF ResetCounter, Values
  <2>2. QED
    BY <1>5, <2>1 DEF Values, ResetCounter, chatVars
<1>6. ASSUME NEW c \in Chats, NEW from, NEW at, NEW swap, NEW next, SwapHistory(c, from, at, swap, next)
      PROVE  Values'
  <2>1. tries' \in [Chats -> 0..MaxRetries]
    <3>1. PICK k \in 0..MaxRetries : tries' = [tries EXCEPT ![c] = k]
      BY <1>t, <1>6 DEF SwapHistory
    <3>2. QED
      BY <3>1 DEF Values
  <2>2. answers' \in Seq(Answer)
    BY <1>t, <1>3, <1>6 DEF SwapHistory, Values
  <2>3. QED
    BY <1>6, <2>1, <2>2 DEF Values, SwapHistory, counterVars
<1>7. ASSUME NEW c \in Chats, JobStep(c) PROVE Values'
  <2>1. CASE LoadCounter(c) \/ Generate(c)
    BY <1>2, <2>1 DEF LoadCounter, Generate, counterVars, chatVars
  <2>2. ASSUME NEW at, NEW swap, LoadHistory(c, at, swap) PROVE Values'
    BY <1>2, <2>2 DEF LoadHistory, counterVars, chatVars
  <2>3. CASE ClockStep(c)
    BY <1>1, <2>3 DEF ClockStep, StopOld, DeleteOld, StoreNew, CreateStream, counterVars, chatVars
  <2>4. QED
    BY <1>4, <1>5, <1>6, <1>7, <2>1, <2>2, <2>3 DEF JobStep, CounterStep, ChatStep, AppendQuestion,
       AppendAnswer
<1>8. ASSUME NEW c \in Chats, ReadNow(c) \/ ReadCounterCommand(c) \/ ReadQuestion(c) PROVE Values'
  BY <1>1, <1>8 DEF ReadNow, ReadCounterCommand, ReadQuestion, Reads, counterVars, chatVars
<1>9. CASE OtherStep
  BY <1>1, <1>9, OtherLeaves
<1>10. QED
  BY <1>1, <1>7, <1>8, <1>9, NextCases DEF Shared

\* An increase that swaps has found the counter that it loaded.
LEMMA NextCounted == Jobs /\ Values /\ Counted /\ [Next]_vars => Counted'
<1> SUFFICES ASSUME Jobs, Values, Counted, [Next]_vars PROVE Counted'
  OBVIOUS
<1>t. /\ peer \in [Chats -> Peers] /\ \A c \in Chats : job[c].n \in Nat
      /\ counter \in [Peers -> Nat] /\ answers \in Seq(Answer) /\ Len(answers) \in Nat
  BY LenProperties DEF Jobs, Job, Values
<1>1. CASE UNCHANGED <<counter, answers>>
  BY <1>1 DEF Counted
<1>2. ASSUME NEW c \in Chats, NEW command \in {"increase", "reset", "chat"}, NEW v \in Nat,
             Answered(c, command, v),
             \A p \in Peers \ {peer[c]} : counter'[p] = counter[p],
             command = "increase" => v = counter[peer[c]] + 1 /\ counter'[peer[c]] = counter[peer[c]] + 1,
             command = "reset" => counter'[peer[c]] = 0,
             command = "chat" => counter' = counter
      PROVE  Counted'
  <2> DEFINE a == [peer |-> peer[c], command |-> command, value |-> v]
  <2>a. a \in Answer /\ answers' = Append(answers, a)
        /\ a.peer = peer[c] /\ a.command = command /\ a.value = v /\ peer[c] \in Peers
    BY <1>t, <1>2 DEF Answer, Answered
  <2> HIDE DEF a
  <2>m. OneMoreIn(answers, a, answers')
    BY <1>t, <2>a, OneMore
  <2>1. /\ Len(answers') = Len(answers) + 1
        /\ answers'[Len(answers) + 1] = a /\ \A i \in 1..Len(answers) : answers'[i] = answers[i]
        /\ \A i \in 1..Len(answers), p \in Peers : Earlier(answers', i, p) = Earlier(answers, i, p)
    BY <2>m DEF OneMoreIn
  <2>2. ASSUME NEW p \in Peers PROVE counter'[p] = Cardinality(IncreasesIn(answers', p))
    <3>1. counter[p] = Cardinality(IncreasesIn(answers, p))
      BY DEF Counted
    <3>2. CASE a.peer = p /\ command = "increase"
      <4>1. Cardinality(IncreasesIn(answers', p)) = Cardinality(IncreasesIn(answers, p)) + 1
        <5>1. IncreasesIn(answers', p) = IncreasesIn(answers, p) \cup {Len(answers) + 1}
          BY <1>2, <2>a, <2>m, <3>2 DEF OneMoreIn
        <5>2. QED
          BY <1>t, <5>1, IncreasesFinite, FS_AddElement
      <4>2. QED
        BY <1>2, <2>a, <3>1, <3>2, <4>1
    <3>3. CASE a.peer = p /\ command = "reset"
      BY <1>2, <2>a, <2>m, <3>3, FS_EmptySet DEF OneMoreIn
    <3>4. CASE a.peer # p \/ command = "chat"
      BY <1>2, <2>a, <2>m, <3>1, <3>4 DEF OneMoreIn
    <3>5. QED
      BY <1>2, <3>2, <3>3, <3>4
  <2>3. ASSUME NEW i \in 1..Len(answers'), answers'[i].command = "increase"
        PROVE  answers'[i].value = 1 + Cardinality(Earlier(answers', i, answers'[i].peer))
    <3>1. CASE i \in 1..Len(answers)
      <4>1. answers[i] \in Answer
        BY <1>t, <3>1, ElementOfSeq
      <4>2. answers[i].peer \in Peers
        BY <4>1 DEF Answer
      <4>3. QED
        BY <2>1, <2>3, <3>1, <4>2 DEF Counted
    <3>2. CASE i = Len(answers) + 1
      <4>1. Earlier(answers', i, a.peer) = IncreasesIn(answers, a.peer)
        BY <2>a, <2>m, <2>3, <3>2 DEF OneMoreIn
      <4>2. v = counter[a.peer] + 1 /\ counter[a.peer] = Cardinality(IncreasesIn(answers, a.peer))
        BY <1>2, <2>a, <2>1, <2>3, <3>2 DEF Counted
      <4>3. Cardinality(IncreasesIn(answers, a.peer)) \in Nat
        BY <1>t, IncreasesFinite
      <4>4. QED
        BY <2>a, <2>1, <3>2, <4>1, <4>2, <4>3
    <3>3. QED
      BY <1>t, <2>1, <3>1, <3>2
  <2>4. QED
    BY <2>2, <2>3 DEF Counted
<1>3. ASSUME NEW c \in Chats, SwapCounter(c) PROVE Counted'
  <2>1. CASE counter[peer[c]] = seen[c]
    <3>1. /\ Answered(c, "increase", counter[peer[c]] + 1)
          /\ counter' = [counter EXCEPT ![peer[c]] = counter[peer[c]] + 1]
      BY <1>3, <2>1 DEF SwapCounter
    <3>2. /\ \A p \in Peers \ {peer[c]} : counter'[p] = counter[p]
          /\ counter'[peer[c]] = counter[peer[c]] + 1 /\ counter[peer[c]] + 1 \in Nat
      BY <1>t, <3>1
    <3>3. QED
      BY <1>2, <3>1, <3>2
  <2>2. CASE counter[peer[c]] # seen[c]
    BY <1>1, <1>3, <2>2 DEF SwapCounter
  <2>3. QED
    BY <2>1, <2>2
<1>4. ASSUME NEW c \in Chats, ResetCounter(c) PROVE Counted'
  <2>1. Answered(c, "reset", 0) /\ counter' = [counter EXCEPT ![peer[c]] = 0]
    BY <1>4 DEF ResetCounter
  <2>2. /\ \A p \in Peers \ {peer[c]} : counter'[p] = counter[p]
        /\ counter'[peer[c]] = 0
    BY <1>t, <2>1
  <2>3. QED
    BY <1>2, <2>1, <2>2
<1>5. ASSUME NEW c \in Chats, NEW from, NEW at, NEW swap, NEW next, SwapHistory(c, from, at, swap, next)
      PROVE  Counted'
  <2>1. counter' = counter /\ (UNCHANGED answers \/ Answered(c, "chat", job[c].n))
    BY <1>5 DEF SwapHistory, counterVars
  <2>2. QED
    BY <1>1, <1>2, <1>t, <2>1
<1>6. ASSUME NEW c \in Chats, JobStep(c) PROVE Counted'
  <2>1. CASE LoadCounter(c) \/ Generate(c) \/ ClockStep(c)
    BY <1>1, <2>1 DEF LoadCounter, Generate, ClockStep, StopOld, DeleteOld, StoreNew, CreateStream,
       counterVars
  <2>2. ASSUME NEW at, NEW swap, LoadHistory(c, at, swap) PROVE Counted'
    BY <1>1, <2>2 DEF LoadHistory, counterVars
  <2>3. QED
    BY <1>3, <1>4, <1>5, <1>6, <2>1, <2>2 DEF JobStep, CounterStep, ChatStep, AppendQuestion,
       AppendAnswer
<1>7. ASSUME NEW c \in Chats, ReadNow(c) \/ ReadCounterCommand(c) \/ ReadQuestion(c) PROVE Counted'
  BY <1>1, <1>7 DEF ReadNow, ReadCounterCommand, ReadQuestion, Reads, counterVars
<1>8. CASE OtherStep
  BY <1>1, <1>8, OtherLeaves
<1>9. QED
  BY <1>1, <1>6, <1>7, <1>8, NextCases DEF Shared

------------------------------------------------------------------------------
(* The chat bot.                                                           *)

Msg == [n : 1..read, from : {"user", "bot"}]
Question(n) == [n |-> n, from |-> "user"]
Reply(n) == [n |-> n, from |-> "bot"]

Has(p, m) == \E i \in 1..Len(history[p]) : history[p][i] = m

Asking == {"asking", "asking-swap"}
Telling == {"generating", "telling", "telling-swap"}

\* What the command of c has appended, and nothing else of it.
Pending(c) ==
  /\ job[c].at \in Asking => \A p \in Peers : ~Has(p, Question(job[c].n)) /\ ~Has(p, Reply(job[c].n))
  /\ job[c].at \in Telling =>
       Has(peer[c], Question(job[c].n)) /\ \A p \in Peers : ~Has(p, Reply(job[c].n))

OnceEach == \A p \in Peers : \A i, j \in 1..Len(history[p]) : history[p][i] = history[p][j] => i = j

Found(p, n) == \E q \in Positions(p, Question(n)), a \in Positions(p, Reply(n)) : q < a

Histories ==
  /\ history \in [Peers -> Seq(Msg)]
  /\ OnceEach
  /\ \A c \in Chats : Pending(c)
  /\ \A i \in 1..Len(answers) : answers[i].command = "chat" => Found(answers[i].peer, answers[i].value)

LEMMA InitHistories == Init => Histories
<1> SUFFICES ASSUME Init PROVE Histories
  OBVIOUS
<1>1. \A p \in Peers : history[p] = <<>> /\ Len(history[p]) = 0
  BY DEF Init
<1>2. history \in [Peers -> Seq(Msg)]
  BY EmptySeq DEF Init
<1>3. OnceEach
  BY <1>1 DEF OnceEach
<1>4. \A c \in Chats : Pending(c)
  BY DEF Init, Pending, Asking, Telling
<1>5. answers = <<>> /\ Len(answers) = 0
  BY DEF Init
<1>6. QED
  BY <1>2, <1>3, <1>4, <1>5 DEF Histories

\* The history stays as it is, and no answer of the chat bot is given.
LEMMA HistoryStays ==
  ASSUME Jobs, Jobs', Values, Histories, history' = history, read' \in {read, read + 1},
         UNCHANGED answers \/ \E a \in Answer : answers' = Append(answers, a) /\ a.command # "chat",
         \A c \in Chats : Pending(c)'
  PROVE  Histories'
<1>1. history' \in [Peers -> Seq(Msg')]
  <2>1. read \in Nat /\ Msg \subseteq Msg'
    BY DEF Jobs, Msg
  <2>2. \A p \in Peers : history[p] \in Seq(Msg')
    BY <2>1, SeqMonotonic DEF Histories
  <2>3. QED
    BY <2>2 DEF Histories
<1>2. OnceEach'
  BY DEF Histories, OnceEach
<1>3. \A p, n : Found(p, n) => Found(p, n)'
  BY DEF Found, Positions
<1>4. (\A i \in 1..Len(answers) : answers[i].command = "chat" => Found(answers[i].peer, answers[i].value))'
  <2>1. CASE UNCHANGED answers
    BY <1>3, <2>1 DEF Histories
  <2>2. ASSUME NEW a \in Answer, answers' = Append(answers, a), a.command # "chat",
               NEW i \in 1..Len(answers'), answers'[i].command = "chat"
        PROVE  Found(answers[i].peer, answers[i].value)'
    <3>1. OneMoreIn(answers, a, answers')
      BY <2>2, OneMore DEF Values
    <3>2. i \in 1..Len(answers) /\ answers'[i] = answers[i]
      BY <2>2, <3>1 DEF OneMoreIn
    <3>3. QED
      BY <1>3, <2>2, <3>2 DEF Histories
  <2>3. QED
    BY <2>1, <2>2
<1>5. QED
  BY <1>1, <1>2, <1>4 DEF Histories

\* A step that appends nothing.
LEMMA QuietPending ==
  ASSUME Jobs, Histories, UNCHANGED <<bot, peer, read, history>>, NEW c \in Chats,
         NEW from, NEW to, <<from, to>> \in Steps, <<from, to>> # <<"asking-swap", "generating">>,
         JobGoes(c, from, to)
  PROVE  \A d \in Chats : Pending(d)'
<1>1. to \in JobSteps /\ from # "idle" /\ (to \in ClockSteps => from \in ClockSteps)
  BY DEF Steps, JobSteps, ClockSteps
<1>2. /\ job[c].at = from /\ job'[c].at = to /\ job'[c].n = job[c].n
      /\ \A d \in Chats \ {c} : job'[d] = job[d]
  BY <1>1, GoesOn
<1>3. (to \in Asking => from \in Asking) /\ (to \in Telling => from \in Telling)
  BY DEF Steps, Asking, Telling
<1>4. \A p, m : Has(p, m)' <=> Has(p, m)
  BY DEF Has
<1>5. \A d \in Chats : Pending(d)
  BY DEF Histories
<1>6. QED
  BY <1>2, <1>3, <1>4, <1>5 DEF Pending

\* A new command has a new number.
LEMMA ReadPending ==
  ASSUME Jobs, Histories, UNCHANGED <<bot, peer, history>>, NEW c \in Chats,
         ReadNow(c) \/ ReadCounterCommand(c) \/ ReadQuestion(c)
  PROVE  \A d \in Chats : Pending(d)'
<1>1. PICK first \in {"stopping", "loading", "resetting", "asking"} :
           /\ Reads(c, first) /\ first \in JobSteps
           /\ first \in ClockSteps <=> bot = "clock"
  BY ReadGoes
<1>2. /\ job'[c].at = first /\ job'[c].n = read + 1
      /\ \A d \in Chats \ {c} : job'[d] = job[d]
  <2>1. job'[c] = [n |-> read + 1, at |-> first] /\ \A d \in Chats \ {c} : job'[d] = job[d]
    BY <1>1, ReadsOne
  <2>2. QED
    BY <2>1
<1>3. \A p, m : Has(p, m)' <=> Has(p, m)
  BY DEF Has
<1>4. ASSUME NEW p \in Peers, NEW m, Has(p, m) PROVE m.n # read + 1
  <2>1. PICK i \in 1..Len(history[p]) : history[p][i] = m
    BY <1>4 DEF Has
  <2>2. m \in Msg
    BY <2>1, ElementOfSeq DEF Histories
  <2>3. QED
    BY <2>2 DEF Msg, Jobs
<1>5. \A p \in Peers : ~Has(p, Question(read + 1)) /\ ~Has(p, Reply(read + 1))
  BY <1>4 DEF Question, Reply
<1>6. \A d \in Chats : Pending(d)
  BY DEF Histories
<1>7. QED
  BY <1>2, <1>3, <1>5, <1>6 DEF Pending, Asking, Telling

\* One message is appended, which was not there.
LEMMA AppendsMessage ==
  ASSUME Jobs, Histories, UNCHANGED read, NEW p \in Peers, NEW m \in Msg, ~Has(p, m),
         history' = [history EXCEPT ![p] = Append(history[p], m)]
  PROVE  /\ history' \in [Peers -> Seq(Msg')] /\ OnceEach'
         /\ \A x : \A r \in Peers : Has(r, x)' <=> Has(r, x) \/ (r = p /\ x = m)
         /\ \A n : \A r \in Peers : Found(r, n) => Found(r, n)'
         /\ \A n : m = Reply(n) /\ Has(p, Question(n)) => Found(p, n)'
<1> DEFINE k == Len(history[p])
<1>t. history \in [Peers -> Seq(Msg)] /\ history[p] \in Seq(Msg) /\ Msg' = Msg
  BY DEF Histories, Msg
<1>1. /\ Append(history[p], m) \in Seq(Msg) /\ history'[p] = Append(history[p], m) /\ k \in Nat
      /\ Len(history'[p]) = k + 1 /\ history'[p][k + 1] = m
      /\ \A i \in 1..k : history'[p][i] = history[p][i]
  BY <1>t, AppendProperties, LenProperties
<1>2. \A r \in Peers \ {p} : history'[r] = history[r]
  BY <1>t
<1>3. history' \in [Peers -> Seq(Msg')]
  BY <1>t, <1>1
<1>4. \A i \in 1..(k + 1) : i \in 1..k \/ i = k + 1
  BY <1>1
<1>5. \A i \in 1..k : history[p][i] # m
  BY DEF Has
<1>6. OnceEach'
  <2> SUFFICES ASSUME NEW r \in Peers, NEW i \in 1..Len(history'[r]), NEW j \in 1..Len(history'[r]),
                      history'[r][i] = history'[r][j]
               PROVE  i = j
    BY DEF OnceEach
  <2>1. CASE r # p
    BY <1>2, <2>1 DEF Histories, OnceEach
  <2>2. CASE r = p
    BY <1>1, <1>4, <1>5, <2>2 DEF Histories, OnceEach
  <2>3. QED
    BY <2>1, <2>2
<1>7. ASSUME NEW r \in Peers, NEW x PROVE Has(r, x)' <=> Has(r, x) \/ (r = p /\ x = m)
  <2>1. CASE r # p
    BY <1>2, <2>1 DEF Has
  <2>2. CASE r = p
    <3>1. \A i \in 1..k : i \in 1..(k + 1)
      BY <1>1
    <3>2. k + 1 \in 1..(k + 1)
      BY <1>1
    <3>3. QED
      BY <1>1, <1>4, <2>2, <3>1, <3>2 DEF Has
  <2>3. QED
    BY <2>1, <2>2
<1>8. ASSUME NEW r \in Peers, NEW x, NEW i \in Positions(r, x) PROVE i \in Positions(r, x)'
  <2>1. i \in 1..Len(history[r]) /\ history[r][i] = x
    BY <1>8 DEF Positions
  <2>2. i \in 1..Len(history'[r]) /\ history'[r][i] = x
    BY <1>1, <1>2, <2>1
  <2>3. QED
    BY <2>2 DEF Positions
<1>9. \A n : \A r \in Peers : Found(r, n) => Found(r, n)'
  BY <1>8 DEF Found
<1>10. ASSUME NEW n, m = Reply(n), Has(p, Question(n)) PROVE Found(p, n)'
  <2>1. PICK q \in 1..k : history[p][q] = Question(n)
    BY <1>10 DEF Has
  <2>2. q \in Positions(p, Question(n))' /\ q < k + 1
    BY <1>1, <2>1 DEF Positions
  <2>3. k + 1 \in Positions(p, Reply(n))'
    BY <1>1, <1>10 DEF Positions
  <2>4. QED
    BY <2>2, <2>3 DEF Found
<1>11. QED
  BY <1>3, <1>6, <1>7, <1>9, <1>10

\* The command of c appends a message of its own number; those of other
\* channels do not see it.
LEMMA SwapHistories ==
  ASSUME Jobs, Values, Histories, UNCHANGED <<bot, peer>>, NEW c \in Chats, history = seen[c],
         \/ SwapHistory(c, "user", "asking", "asking-swap", "generating")
         \/ SwapHistory(c, "bot", "telling", "telling-swap", "idle")
  PROVE  Histories'
<1> DEFINE bots == SwapHistory(c, "bot", "telling", "telling-swap", "idle")
<1>1. PICK p \in Peers, n \in Nat, m \in [n : Nat, from : {"user", "bot"}] :
        /\ p = peer[c] /\ n = job[c].n
        /\ bots => m = Reply(n)
        /\ ~bots => m = Question(n)
  <2>1. peer[c] \in Peers /\ job[c].n \in Nat
    BY DEF Jobs, Job
  <2>2. /\ Reply(job[c].n) \in [n : Nat, from : {"user", "bot"}]
        /\ Question(job[c].n) \in [n : Nat, from : {"user", "bot"}]
    BY <2>1 DEF Reply, Question
  <2>3. QED
    BY <2>1, <2>2
<1>2. /\ job[c].at = (IF bots THEN "telling-swap" ELSE "asking-swap")
      /\ JobGoes(c, job[c].at, IF bots THEN "idle" ELSE "generating")
      /\ history' = [history EXCEPT ![p] = Append(history[p], m)]
      /\ read' = read
      /\ bots => answers' = Append(answers, [peer |-> p, command |-> "chat", value |-> n])
      /\ ~bots => answers' = answers
  BY <1>1 DEF SwapHistory, Answered, Message, Reply, Question
<1>n. n \in 1..read /\ p \in Peers /\ n # None
  BY <1>1, <1>2 DEF Jobs, Job, None
<1>3. m = (IF bots THEN Reply(n) ELSE Question(n)) /\ m \in Msg /\ m.n = n
  BY <1>1, <1>n DEF Reply, Question, Msg
<1>4. /\ job'[c].at = (IF bots THEN "idle" ELSE "generating") /\ job'[c].n = n
      /\ \A d \in Chats \ {c} : job'[d] = job[d]
  BY <1>1, <1>2, GoesOn DEF JobSteps, ClockSteps
<1>5. ~Has(p, m)
  BY <1>1, <1>2, <1>3, <1>n DEF Histories, Pending, Asking, Telling
<1>6. /\ history' \in [Peers -> Seq(Msg')] /\ OnceEach'
      /\ \A x : \A r \in Peers : Has(r, x)' <=> Has(r, x) \/ (r = p /\ x = m)
      /\ \A k : \A r \in Peers : Found(r, k) => Found(r, k)'
      /\ \A k : m = Reply(k) /\ Has(p, Question(k)) => Found(p, k)'
  <2>1. read' = read /\ m \in Msg /\ ~Has(p, m)
        /\ history' = [history EXCEPT ![p] = Append(history[p], m)]
    BY <1>2, <1>3, <1>5
  <2>2. QED
    BY <2>1, AppendsMessage
<1>7. ASSUME NEW d \in Chats PROVE Pending(d)'
  <2>1. Pending(d) /\ peer'[d] = peer[d] /\ peer[d] \in Peers
    BY DEF Histories, Jobs
  <2>2. CASE d # c
    <3>1. job'[d] = job[d] /\ (job[d].at # "idle" => job[d].n # n)
      BY <1>1, <1>4, <1>n, <2>2 DEF Jobs
    <3>2. job[d].at # "idle" => Question(job[d].n) # m /\ Reply(job[d].n) # m
      BY <1>3, <3>1 DEF Question, Reply
    <3>3. PICK k : k = job[d].n
      OBVIOUS
    <3>4. QED
      BY <1>6, <2>1, <3>1, <3>2, <3>3 DEF Pending, Asking, Telling
  <2>3. CASE d = c /\ bots
    BY <1>4, <2>3 DEF Pending, Asking, Telling
  <2>4. CASE d = c /\ ~bots
    <3>1. Has(p, Question(n))' /\ \A r \in Peers : ~Has(r, Reply(n))'
      <4>1. \A r \in Peers : ~Has(r, Reply(n))
        BY <1>1, <1>2, <2>1, <2>4 DEF Pending, Asking
      <4>2. m = Question(n) /\ m # Reply(n)
        BY <1>3, <2>4 DEF Question, Reply
      <4>3. QED
        BY <1>6, <1>n, <4>1, <4>2
    <3>2. peer'[d] = p /\ job'[d].n = n /\ job'[d].at = "generating"
      BY <1>1, <1>4, <2>1, <2>4
    <3>3. QED
      BY <3>1, <3>2 DEF Pending, Asking, Telling
  <2>5. QED
    BY <2>2, <2>3, <2>4
<1>8. ASSUME NEW i \in 1..Len(answers'), answers'[i].command = "chat"
      PROVE  Found(answers[i].peer, answers[i].value)'
  <2>1. ASSUME NEW q \in Peers, NEW k, answers[i] \in Answer, answers'[i] = answers[i],
               q = answers[i].peer, k = answers[i].value, i \in 1..Len(answers)
        PROVE  Found(answers[i].peer, answers[i].value)'
    <3>1. Found(q, k)
      BY <1>8, <2>1 DEF Histories
    <3>2. Found(q, k)'
      BY <1>6, <3>1
    <3>3. QED
      BY <2>1, <3>2
  <2>2. CASE i \in 1..Len(answers) /\ answers'[i] = answers[i]
    <3>1. answers \in Seq(Answer)
      BY DEF Values
    <3>2. answers[i] \in Answer /\ answers[i].peer \in Peers
      <4>1. answers[i] \in Answer
        BY <2>2, <3>1, ElementOfSeq
      <4>2. QED
        BY <4>1 DEF Answer
    <3>3. QED
      BY <2>1, <2>2, <3>2
  <2>3. CASE bots
    <3> DEFINE a == [peer |-> p, command |-> "chat", value |-> n]
    <3>1. a \in Answer /\ answers \in Seq(Answer) /\ answers' = Append(answers, a)
      BY <1>2, <1>n, <2>3 DEF Answer, Values, Jobs
    <3>2. a.peer = p /\ a.value = n
      OBVIOUS
    <3> HIDE DEF a
    <3>3. OneMoreIn(answers, a, answers')
      BY <3>1, OneMore
    <3>4. CASE i = Len(answers) + 1
      <4>1. Has(p, Question(n))
        BY <1>1, <1>2, <2>3 DEF Histories, Pending, Telling
      <4>2. Found(p, n)'
        BY <1>3, <1>6, <2>3, <4>1
      <4>3. answers'[i].peer = p /\ answers'[i].value = n
        BY <3>2, <3>3, <3>4 DEF OneMoreIn
      <4>4. QED
        BY <4>2, <4>3
    <3>5. QED
      BY <2>2, <3>3, <3>4 DEF OneMoreIn
  <2>4. QED
    BY <1>2, <1>8, <2>2, <2>3
<1>9. (\A i \in 1..Len(answers) : answers[i].command = "chat" => Found(answers[i].peer, answers[i].value))'
  BY <1>8
<1>10. QED
  BY <1>6, <1>7, <1>9 DEF Histories

LEMMA NextHistories == Jobs /\ Values /\ Histories /\ [Next]_vars => Histories'
<1> SUFFICES ASSUME Jobs, Values, Histories, [Next]_vars PROVE Histories'
  OBVIOUS
<1>j. Jobs'
  BY NextJobs
<1>1. CASE UNCHANGED <<read, bot, peer, job, history, answers>>
  <2>1. \A d \in Chats : Pending(d)'
    BY <1>1 DEF Histories, Pending, Has
  <2>2. QED
    BY <1>1, <1>j, <2>1, HistoryStays
<1>2. ASSUME UNCHANGED <<bot, peer>>, NEW c \in Chats, ReadNow(c) \/ ReadCounterCommand(c) \/ ReadQuestion(c)
      PROVE  Histories'
  <2>1. UNCHANGED <<history, answers>> /\ read' = read + 1
    BY <1>2 DEF ReadNow, ReadCounterCommand, ReadQuestion, Reads, chatVars
  <2>2. QED
    BY <1>2, <1>j, <2>1, ReadPending, HistoryStays
<1>3. ASSUME UNCHANGED <<bot, peer>>, NEW c \in Chats, JobStep(c), history' = history,
             ~\E from, at, next : history = seen[c] /\ SwapHistory(c, from, at, "asking-swap", next),
             UNCHANGED answers \/ \E a \in Answer : answers' = Append(answers, a) /\ a.command # "chat"
      PROVE  Histories'
  <2>1. read' = read
    BY <1>3, JobStepGoes
  <2>2. PICK from, to : /\ <<from, to>> \in Steps /\ <<from, to>> # <<"asking-swap", "generating">>
                        /\ JobGoes(c, from, to)
    <3>1. PICK from, to : <<from, to>> \in Steps /\ JobGoes(c, from, to)
      BY <1>3, JobStepGoes
    <3>2. ASSUME from = "asking-swap", to = "generating" PROVE FALSE
      <4>1. job[c].at = "asking-swap"
        BY <3>1, <3>2 DEF JobGoes
      <4>2. SwapHistory(c, "user", "asking", "asking-swap", "generating")
        BY <1>3, <4>1 DEF JobStep, CounterStep, LoadCounter, SwapCounter, ResetCounter, ChatStep,
           AppendQuestion, LoadHistory, SwapHistory, Generate, AppendAnswer, ClockStep, StopOld,
           DeleteOld, StoreNew, CreateStream, JobGoes
      <4>3. history # seen[c]
        BY <1>3, <4>2
      <4>4. job' = [job EXCEPT ![c].at = IF tries[c] + 1 < MaxRetries THEN "asking" ELSE "idle"]
        BY <4>2, <4>3 DEF SwapHistory, JobGoes
      <4>5. job' = [job EXCEPT ![c].at = "generating"] /\ job \in [Chats -> Job]
        BY <3>1, <3>2 DEF JobGoes, Jobs
      <4>6. job'[c].at = "generating" /\ job'[c].at \in {"asking", "idle"}
        BY <4>4, <4>5 DEF Job
      <4>7. QED
        BY <4>6
    <3>3. QED
      BY <3>1, <3>2
  <2>3. \A d \in Chats : Pending(d)'
    BY <1>3, <2>1, <2>2, QuietPending
  <2>4. QED
    BY <1>3, <1>j, <2>1, <2>3, HistoryStays
<1>4. ASSUME UNCHANGED <<bot, peer>>, NEW c \in Chats, JobStep(c) PROVE Histories'
  <2>1. CASE history = seen[c] /\ \/ SwapHistory(c, "user", "asking", "asking-swap", "generating")
                                  \/ SwapHistory(c, "bot", "telling", "telling-swap", "idle")
    BY <1>4, <2>1, SwapHistories
  <2>2. CASE CounterStep(c)
    <3>1. history' = history /\ job[c].at # "asking-swap"
      BY <2>2 DEF CounterStep, LoadCounter, SwapCounter, ResetCounter, chatVars, JobGoes
    <3>2. UNCHANGED answers \/ \E a \in Answer : answers' = Append(answers, a) /\ a.command # "chat"
      <4>1. ASSUME NEW v \in Nat, NEW command \in {"increase", "reset"}, Answered(c, command, v)
            PROVE  \E a \in Answer : answers' = Append(answers, a) /\ a.command # "chat"
        <5> DEFINE a == [peer |-> peer[c], command |-> command, value |-> v]
        <5>1. a \in Answer /\ a.command # "chat"
          BY <4>1 DEF Answer, Jobs
        <5>2. answers' = Append(answers, a)
          BY <4>1 DEF Answered
        <5>3. QED
          BY <5>1, <5>2
      <4>2. UNCHANGED answers \/ Answered(c, "increase", counter[peer[c]] + 1) \/ Answered(c, "reset", 0)
        BY <2>2 DEF CounterStep, LoadCounter, SwapCounter, ResetCounter
      <4>3. counter[peer[c]] + 1 \in Nat
        BY DEF Values, Jobs
      <4>4. QED
        BY <4>1, <4>2, <4>3
    <3>3. QED
      BY <1>3, <1>4, <3>1, <3>2 DEF SwapHistory
  <2>3. CASE Generate(c) \/ ClockStep(c)
    <3>1. UNCHANGED <<history, answers>> /\ job[c].at # "asking-swap"
      BY <2>3 DEF Generate, ClockStep, StopOld, DeleteOld, StoreNew, CreateStream, chatVars, JobGoes
    <3>2. QED
      BY <1>3, <1>4, <3>1 DEF SwapHistory
  <2>4. CASE LoadHistory(c, "asking", "asking-swap") \/ LoadHistory(c, "telling", "telling-swap")
    <3>1. UNCHANGED <<history, answers>> /\ job[c].at # "asking-swap"
      BY <2>4 DEF LoadHistory, chatVars, JobGoes
    <3>2. QED
      BY <1>3, <1>4, <3>1 DEF SwapHistory
  <2>5. CASE history # seen[c] /\ \/ SwapHistory(c, "user", "asking", "asking-swap", "generating")
                                  \/ SwapHistory(c, "bot", "telling", "telling-swap", "idle")
    <3>1. UNCHANGED <<history, answers>>
      BY <2>5 DEF SwapHistory
    <3>2. QED
      BY <1>3, <1>4, <2>5, <3>1
  <2>6. QED
    BY <1>4, <2>1, <2>2, <2>3, <2>4, <2>5 DEF JobStep, ChatStep, AppendQuestion, AppendAnswer
<1>5. CASE OtherStep /\ UNCHANGED <<bot, peer>>
  BY <1>1, <1>5, OtherLeaves
<1>6. QED
  BY <1>1, <1>2, <1>4, <1>5, NextCases DEF Shared

------------------------------------------------------------------------------
(* The clock.                                                              *)

ClockState ==
  [peer : Peers \cup {None}, cancelled : BOOLEAN, stream : {"none", "opening", "open", "closed"},
   updates : {"none", "ticking", "ended"}, raced : BOOLEAN]

\* The clock that c has stored has no stream yet.
Created(c) == clock[job[c].n].peer = peer[c] /\ clock[job[c].n].stream = "none"

\* A clock is made with its peer, and belongs to it from then on; a goroutine of
\* OnClose is that of a stream that has closed.
ClockTypes ==
  /\ cancelFn \in [Peers -> Clocks \cup {None}]
  /\ clock \in [Clocks -> ClockState]
  /\ stop \in [Chats \cup Clocks -> {"none", "stopping", "deleting", "done"}]
  /\ \A p \in Peers : cancelFn[p] # None => clock[cancelFn[p]].peer = p
  /\ \A n \in Clocks : clock[n] # NoClock => n <= read /\ clock[n].peer # None
  /\ \A n \in Clocks : stop[n] # "none" => clock[n].stream = "closed"
  /\ \A c \in Chats : job[c].at \in {"stopping", "deleting", "storing"} => clock[job[c].n] = NoClock
  /\ \A c \in Chats : job[c].at = "creating" => Created(c)

\* A clock that nothing has stopped, and that no race has put out of reach.
Live(n) == ~clock[n].cancelled /\ ~clock[n].raced

\* A channel of p is about to store a clock, or to delete whatever is stored.
Commanded(p) == \E d \in Chats : peer[d] = p /\ job[d].at \in {"deleting", "storing"}
Closing(p) == \E x \in Chats \cup Clocks : PeerOf(x) = p /\ stop[x] = "deleting"
Threat(p) == Commanded(p) \/ Closing(p)

\* The one live clock of p is the one whose cancel function is stored; and there
\* is none while a channel of p is about to replace or to delete what is stored,
\* since it has cancelled that, and a clock stored since is a raced one.
OneLive(p) ==
  /\ \A n \in Clocks : clock[n].peer = p /\ Live(n) => cancelFn[p] = n
  /\ Threat(p) => \A n \in Clocks : clock[n].peer = p => ~Live(n)

ClockInv == ClockTypes /\ \A p \in Peers : OneLive(p)

LEMMA Disjoint == Clocks \subseteq Nat \ {0} /\ Chats \cap Clocks = {} /\ None \notin Clocks /\ None \notin Peers
BY ChatsAssumption, BoundsAssumption DEF Clocks, None

LEMMA NoClockType == NoClock \in ClockState /\ NoClock.peer = None /\ NoClock.stream = "none"
BY DEF NoClock, ClockState

LEMMA InitClock == Init => ClockInv
<1> SUFFICES ASSUME Init PROVE ClockInv
  OBVIOUS
<1>1. ClockTypes
  BY NoClockType DEF Init, ClockTypes
<1>2. \A p \in Peers : OneLive(p)
  BY NoClockType, Disjoint DEF Init, OneLive, Threat, Commanded, Closing
<1>3. QED
  BY <1>1, <1>2 DEF ClockInv

\* The number of a clock's command.
LEMMA ClockNumber ==
  ASSUME Jobs, NEW c \in Chats, job[c].at \in ClockSteps
  PROVE  job[c].n \in Clocks /\ job[c].n <= read /\ \A d \in Chats \ {c} : job[d].n # job[c].n
<1>1. job[c] \in Job /\ read \in Nat /\ read <= MaxClocks /\ job[c].n # None
  BY DEF Jobs, ClockSteps
<1>2. QED
  BY <1>1, BoundsAssumption DEF Jobs, Job, Clocks, None

\* No clock of p comes to life, and no threat to what is stored.
LEMMA StaysOneLive ==
  ASSUME NEW p \in Peers, OneLive(p), cancelFn'[p] = cancelFn[p], Threat(p)' => Threat(p),
         \A n \in Clocks : clock'[n].peer = p /\ Live(n)' => clock[n].peer = p /\ Live(n)
  PROVE  OneLive(p)'
BY DEF OneLive

\* Steps that leave the clocks alone, and go on to no step of the clock.
LEMMA ClocksStay ==
  ASSUME Jobs, Jobs', ClockInv, UNCHANGED <<bot, peer, cancelFn, clock, stop>>, read' >= read,
         \A c \in Chats : \/ job'[c] = job[c]
                          \/ job'[c].at \notin {"stopping", "deleting", "storing", "creating"}
                          \/ job'[c] = [n |-> read + 1, at |-> "stopping"] /\ bot = "clock" /\ read' = read + 1
  PROVE  ClockInv'
<1>1. \A x \in Chats \cup Clocks : PeerOf(x)' = PeerOf(x)
  BY DEF PeerOf
<1>2. \A p \in Peers : OneLive(p)'
  <2>1. ASSUME NEW p \in Peers, Threat(p)' PROVE Threat(p)
    BY <1>1, <2>1 DEF Threat, Commanded, Closing
  <2>2. QED
    BY <2>1, StaysOneLive DEF ClockInv, Live
<1>3. ClockTypes'
  <2>1. read \in Nat /\ read' \in Nat
    BY DEF Jobs
  <2>2. \A n \in Clocks : clock[n] # NoClock => n <= read' /\ clock[n].peer # None
    <3>1. \A n \in Clocks : n \in Nat /\ (clock[n] # NoClock => n <= read /\ clock[n].peer # None)
      BY Disjoint DEF ClockInv, ClockTypes
    <3>2. QED
      BY <2>1, <3>1
  <2>3. bot = "clock" /\ read' = read + 1 => read + 1 \in Clocks /\ clock[read + 1] = NoClock
    BY <2>1, BoundsAssumption DEF Jobs, Clocks, ClockInv, ClockTypes
  <2>4. \A c \in Chats : job'[c].at \in {"stopping", "deleting", "storing"} => clock[job'[c].n] = NoClock
    BY <2>3 DEF ClockInv, ClockTypes
  <2>5. \A c \in Chats : job'[c].at = "creating" => Created(c)'
    BY DEF ClockInv, ClockTypes, Created
  <2>6. QED
    BY <2>2, <2>4, <2>5 DEF ClockInv, ClockTypes
<1>4. QED
  BY <1>2, <1>3 DEF ClockInv

\* One clock that is not new gets into another state, and keeps its peer.
LEMMA ClockChanges ==
  ASSUME Jobs, ClockTypes, NEW n \in Clocks, NEW r \in ClockState, clock' = [clock EXCEPT ![n] = r],
         clock[n] # NoClock, r.peer = clock[n].peer, clock[n].stream = "closed" => r.stream = "closed"
  PROVE  /\ clock' \in [Clocks -> ClockState]
         /\ \A m \in Clocks : m # n => clock'[m] = clock[m]
         /\ clock'[n] = r
         /\ \A m \in Clocks : clock'[m].peer = clock[m].peer /\ (clock[m] = NoClock => clock'[m] = NoClock)
         /\ \A m \in Clocks : clock'[m] # NoClock => m <= read /\ clock'[m].peer # None
         /\ \A m \in Clocks : clock[m].stream = "closed" => clock'[m].stream = "closed"
<1>1. clock \in [Clocks -> ClockState]
  BY DEF ClockTypes
<1>2. clock' \in [Clocks -> ClockState] /\ clock'[n] = r /\ \A m \in Clocks : m # n => clock'[m] = clock[m]
  BY <1>1
<1>3. QED
  BY <1>2 DEF ClockTypes

\* The steps of StreamOpens, UpdatesEnd and StreamCloses.
LEMMA StreamClock ==
  ASSUME Jobs, ClockInv, NEW n \in Clocks, UNCHANGED <<bot, peer>>,
         StreamOpens(n) \/ UpdatesEnd(n) \/ StreamCloses(n)
  PROVE  ClockInv'
<1>t. /\ clock \in [Clocks -> ClockState] /\ clock[n] \in ClockState
      /\ stop \in [Chats \cup Clocks -> {"none", "stopping", "deleting", "done"}]
  BY DEF ClockInv, ClockTypes
<1>1. PICK r \in ClockState : /\ clock' = [clock EXCEPT ![n] = r] /\ r.peer = clock[n].peer
                              /\ r.cancelled = clock[n].cancelled /\ r.raced = clock[n].raced
                              /\ clock[n].stream = "closed" => r.stream = "closed"
                              /\ StreamCloses(n) => r.stream = "closed"
                              /\ clock[n].stream = "none" => r.stream = "none"
  <2>1. CASE StreamOpens(n)
    <3> DEFINE r == [clock[n] EXCEPT !.stream = "open", !.updates = "ticking"]
    <3>1. r \in ClockState /\ r.peer = clock[n].peer /\ r.cancelled = clock[n].cancelled /\ r.raced = clock[n].raced
      BY <1>t DEF ClockState
    <3>2. clock' = [clock EXCEPT ![n] = r] /\ clock[n].stream = "opening"
      BY <2>1 DEF StreamOpens
    <3>3. ~StreamCloses(n) \/ r.stream = "closed"
      <4>1. r.stream = "open" /\ clock'[n] = r
        BY <1>t, <3>2 DEF ClockState
      <4>2. StreamCloses(n) => clock'[n].stream = "closed"
        BY <1>t DEF StreamCloses, ClockState
      <4>3. QED
        BY <4>1, <4>2
    <3> HIDE DEF r
    <3>4. QED
      BY <3>1, <3>2, <3>3
  <2>2. CASE UpdatesEnd(n)
    <3> DEFINE r == [clock[n] EXCEPT !.updates = "ended"]
    <3>1. r \in ClockState /\ r.peer = clock[n].peer /\ r.cancelled = clock[n].cancelled /\ r.raced = clock[n].raced
          /\ r.stream = clock[n].stream
      BY <1>t DEF ClockState
    <3>2. clock' = [clock EXCEPT ![n] = r]
      BY <2>2 DEF UpdatesEnd
    <3> HIDE DEF r
    <3>3. clock'[n] = r
      BY <1>t, <3>2
    <3>4. StreamCloses(n) => clock'[n].stream = "closed"
      BY <1>t DEF StreamCloses, ClockState
    <3>5. QED
      BY <3>1, <3>2, <3>3, <3>4
  <2>3. CASE StreamCloses(n)
    <3> DEFINE r == [clock[n] EXCEPT !.stream = "closed"]
    <3>1. r \in ClockState /\ r.peer = clock[n].peer /\ r.cancelled = clock[n].cancelled /\ r.raced = clock[n].raced
          /\ r.stream = "closed"
      BY <1>t DEF ClockState
    <3>2. clock' = [clock EXCEPT ![n] = r] /\ clock[n].stream # "none"
      BY <2>3 DEF StreamCloses
    <3> HIDE DEF r
    <3>3. QED
      BY <3>1, <3>2
  <2>4. QED
    BY <2>1, <2>2, <2>3
<1>2. clock[n] # NoClock
  BY NoClockType DEF StreamOpens, UpdatesEnd, StreamCloses, NoClock
<1>3. /\ clock' \in [Clocks -> ClockState]
      /\ \A m \in Clocks : m # n => clock'[m] = clock[m]
      /\ clock'[n] = r
      /\ \A m \in Clocks : clock'[m].peer = clock[m].peer /\ (clock[m] = NoClock => clock'[m] = NoClock)
      /\ \A m \in Clocks : clock'[m] # NoClock => m <= read /\ clock'[m].peer # None
      /\ \A m \in Clocks : clock[m].stream = "closed" => clock'[m].stream = "closed"
  BY <1>1, <1>2, ClockChanges DEF ClockInv
<1>4. UNCHANGED <<read, job, cancelFn>>
      /\ (stop' = stop \/ (StreamCloses(n) /\ stop' = [stop EXCEPT ![n] = "stopping"]))
  <2>1. CASE StreamOpens(n) \/ UpdatesEnd(n)
    BY <2>1 DEF StreamOpens, UpdatesEnd
  <2>2. CASE StreamCloses(n)
    BY <2>2 DEF StreamCloses
  <2>3. QED
    BY <2>1, <2>2
<1>5. /\ stop' \in [Chats \cup Clocks -> {"none", "stopping", "deleting", "done"}]
      /\ \A x \in Chats \cup Clocks : stop'[x] = "deleting" => stop[x] = "deleting"
      /\ \A m \in Clocks : stop'[m] # "none" => stop[m] # "none" \/ (m = n /\ StreamCloses(n))
  BY <1>t, <1>4
<1>6. ClockTypes'
  <2>1. \A m \in Clocks : stop'[m] # "none" => clock'[m].stream = "closed"
    BY <1>1, <1>3, <1>5 DEF ClockInv, ClockTypes
  <2>2. \A p \in Peers : cancelFn[p] # None => clock'[cancelFn[p]].peer = p
    BY <1>3 DEF ClockInv, ClockTypes
  <2>3. \A c \in Chats : job[c].at \in {"stopping", "deleting", "storing"} => clock'[job[c].n] = NoClock
    BY <1>3, ClockNumber DEF ClockInv, ClockTypes, ClockSteps
  <2>4. \A c \in Chats : job[c].at = "creating" => Created(c)'
    BY <1>1, <1>3, <1>4, ClockNumber DEF ClockInv, ClockTypes, ClockSteps, Created
  <2>5. QED
    BY <1>3, <1>4, <1>5, <2>1, <2>2, <2>3, <2>4 DEF ClockInv, ClockTypes
<1>7. \A x \in Chats \cup Clocks : PeerOf(x)' = PeerOf(x)
  BY <1>3 DEF PeerOf
<1>8. \A m \in Clocks : clock'[m].cancelled = clock[m].cancelled /\ clock'[m].raced = clock[m].raced
  BY <1>1, <1>3
<1>9. ASSUME NEW p \in Peers PROVE OneLive(p)'
  <2>1. Threat(p)' => Threat(p)
    BY <1>4, <1>5, <1>7 DEF Threat, Commanded, Closing
  <2>2. QED
    BY <1>3, <1>4, <1>8, <2>1, StaysOneLive DEF ClockInv, Live
<1>10. QED
  BY <1>6, <1>9 DEF ClockInv

LEMMA ChatClosesClock ==
  ASSUME Jobs, ClockInv, NEW c \in Chats, UNCHANGED <<bot, peer>>, ChatCloses(c)
  PROVE  ClockInv'
<1>1. /\ UNCHANGED <<read, job, cancelFn, clock>>
      /\ stop' = [stop EXCEPT ![c] = "stopping"]
      /\ stop \in [Chats \cup Clocks -> {"none", "stopping", "deleting", "done"}]
  BY DEF ChatCloses, ClockInv, ClockTypes
<1>2. /\ stop' \in [Chats \cup Clocks -> {"none", "stopping", "deleting", "done"}]
      /\ \A x \in Chats \cup Clocks : stop'[x] = "deleting" => stop[x] = "deleting"
      /\ \A m \in Clocks : stop'[m] = stop[m]
  BY <1>1, Disjoint
<1>3. ClockTypes'
  BY <1>1, <1>2 DEF ClockInv, ClockTypes, Created
<1>4. \A p \in Peers : Threat(p)' => Threat(p)
  BY <1>1, <1>2 DEF Threat, Commanded, Closing, PeerOf
<1>5. \A p \in Peers : OneLive(p)'
  BY <1>1, <1>4, StaysOneLive DEF ClockInv, Live
<1>6. QED
  BY <1>3, <1>5 DEF ClockInv

\* The cancel function of a peer is called: its clock is cancelled.
LEMMA Cancels ==
  ASSUME Jobs, ClockTypes, UNCHANGED read, NEW p \in Peers, Cancel(p)
  PROVE  /\ clock' \in [Clocks -> ClockState]
         /\ \A m \in Clocks : m # cancelFn[p] => clock'[m] = clock[m]
         /\ cancelFn[p] # None => clock'[cancelFn[p]].cancelled
         /\ \A m \in Clocks : clock'[m].peer = clock[m].peer /\ (clock[m] = NoClock => clock'[m] = NoClock)
         /\ \A m \in Clocks : clock'[m] # NoClock => m <= read /\ clock'[m].peer # None
         /\ \A m \in Clocks : clock'[m].stream = clock[m].stream
         /\ \A m \in Clocks : Live(m)' => Live(m) /\ m # cancelFn[p]
<1>t. clock \in [Clocks -> ClockState]
  BY DEF ClockTypes
<1>1. CASE cancelFn[p] = None
  BY <1>t, <1>1, Disjoint DEF Cancel, ClockTypes, Live
<1>2. CASE cancelFn[p] # None
  <2> DEFINE r == [clock[cancelFn[p]] EXCEPT !.cancelled = TRUE]
  <2>1. /\ cancelFn[p] \in Clocks /\ clock[cancelFn[p]].peer = p /\ p # None
        /\ clock[cancelFn[p]] \in ClockState
    BY <1>2, <1>t, Disjoint DEF ClockTypes
  <2>2. r \in ClockState /\ r.peer = p /\ r.stream = clock[cancelFn[p]].stream /\ r.cancelled
    BY <2>1 DEF ClockState
  <2>3. clock' = [clock EXCEPT ![cancelFn[p]] = r]
    BY <1>2 DEF Cancel
  <2>4. clock[cancelFn[p]] # NoClock
    BY <2>1, NoClockType
  <2> HIDE DEF r
  <2>5. clock' \in [Clocks -> ClockState] /\ clock'[cancelFn[p]] = r
        /\ \A m \in Clocks : m # cancelFn[p] => clock'[m] = clock[m]
    BY <1>t, <2>1, <2>2, <2>3
  <2>6. QED
    BY <2>1, <2>2, <2>4, <2>5 DEF ClockTypes, Live
<1>3. QED
  BY <1>1, <1>2

\* That was the one live clock of the peer; no other peer has got one.
LEMMA CancelsLive ==
  ASSUME Jobs, ClockInv, UNCHANGED <<read, cancelFn>>, NEW p \in Peers, Cancel(p)
  PROVE  /\ \A n \in Clocks : clock'[n].peer = p => ~Live(n)'
         /\ \A q \in Peers \ {p} : (Threat(q)' => Threat(q)) => OneLive(q)'
         /\ OneLive(p)'
<1>1. \A n \in Clocks : clock'[n].peer = clock[n].peer /\ (Live(n)' => Live(n) /\ n # cancelFn[p])
  BY Cancels DEF ClockInv
<1>2. OneLive(p)
  BY DEF ClockInv
<1>3. \A n \in Clocks : clock'[n].peer = p => ~Live(n)'
  BY <1>1, <1>2 DEF OneLive
<1>4. \A q \in Peers \ {p} : (Threat(q)' => Threat(q)) => OneLive(q)'
  BY <1>1, StaysOneLive DEF ClockInv
<1>5. QED
  BY <1>3, <1>4 DEF OneLive

\* OnClose cancels the one live clock of the peer, and deletes what is stored when
\* there is none.
LEMMA OnCloseClock ==
  ASSUME Jobs, ClockInv, NEW x \in Chats \cup Clocks, UNCHANGED <<bot, peer>>,
         OnCloseCancels(x) \/ OnCloseDeletes(x)
  PROVE  ClockInv'
<1>1. PICK p \in Peers : p = PeerOf(x)
  <2>1. CASE x \in Chats
    BY <2>1 DEF PeerOf, Jobs
  <2>2. CASE x \in Clocks /\ x \notin Chats
    <3>1. stop[x] # "none" /\ clock[x] \in ClockState
      BY <2>2 DEF OnCloseCancels, OnCloseDeletes, ClockInv, ClockTypes
    <3>2. clock[x] # NoClock
      BY <2>2, <3>1, NoClockType DEF ClockInv, ClockTypes
    <3>3. clock[x].peer \in Peers
      BY <2>2, <3>1, <3>2 DEF ClockInv, ClockTypes, ClockState
    <3>4. QED
      BY <2>2, <3>3 DEF PeerOf
  <2>3. QED
    BY <2>1, <2>2
<1>2. /\ stop[x] # "none" /\ UNCHANGED <<read, job>>
      /\ stop' = [stop EXCEPT ![x] = "done"] \/ (OnCloseCancels(x) /\ stop' = [stop EXCEPT ![x] = "deleting"])
      /\ stop \in [Chats \cup Clocks -> {"none", "stopping", "deleting", "done"}]
  BY DEF OnCloseCancels, OnCloseDeletes, ClockInv, ClockTypes
<1>3. /\ stop' \in [Chats \cup Clocks -> {"none", "stopping", "deleting", "done"}]
      /\ \A y \in Chats \cup Clocks : stop'[y] = "none" <=> stop[y] = "none"
      /\ \A y \in Chats \cup Clocks : stop'[y] = "deleting" => stop[y] = "deleting" \/ (y = x /\ OnCloseCancels(x))
  BY <1>2
<1>4. ASSUME \A y \in Chats \cup Clocks : PeerOf(y)' = PeerOf(y), NEW q \in Peers,
             q # p \/ ~OnCloseCancels(x), Threat(q)'
      PROVE  Threat(q)
  BY <1>1, <1>2, <1>3, <1>4 DEF Threat, Commanded, Closing
<1>5. CASE OnCloseCancels(x)
  <2>1. Cancel(p) /\ UNCHANGED cancelFn
    BY <1>1, <1>5 DEF OnCloseCancels
  <2>2. /\ clock' \in [Clocks -> ClockState]
        /\ \A m \in Clocks : m # cancelFn[p] => clock'[m] = clock[m]
        /\ cancelFn[p] # None => clock'[cancelFn[p]].cancelled
        /\ \A m \in Clocks : clock'[m].peer = clock[m].peer /\ (clock[m] = NoClock => clock'[m] = NoClock)
        /\ \A m \in Clocks : clock'[m] # NoClock => m <= read /\ clock'[m].peer # None
        /\ \A m \in Clocks : clock'[m].stream = clock[m].stream
    BY <1>2, <2>1, Cancels DEF ClockInv
  <2>3. ClockTypes'
    <3>1. \A q \in Peers : cancelFn[q] # None => clock'[cancelFn[q]].peer = q
      BY <2>2 DEF ClockInv, ClockTypes
    <3>2. \A c \in Chats : job[c].at \in {"stopping", "deleting", "storing"} => clock'[job[c].n] = NoClock
      BY <2>2, ClockNumber DEF ClockInv, ClockTypes, ClockSteps
    <3>3. \A c \in Chats : job[c].at = "creating" => Created(c)'
      BY <1>2, <2>2, ClockNumber DEF ClockInv, ClockTypes, ClockSteps, Created
    <3>4. QED
      BY <1>2, <1>3, <2>1, <2>2, <3>1, <3>2, <3>3 DEF ClockInv, ClockTypes
  <2>4. \A y \in Chats \cup Clocks : PeerOf(y)' = PeerOf(y)
    BY <2>2 DEF PeerOf
  <2>5. ASSUME NEW q \in Peers PROVE OneLive(q)'
    <3>1. CASE q = p
      BY <1>2, <2>1, <3>1, CancelsLive
    <3>2. CASE q # p
      BY <1>2, <1>4, <2>1, <2>4, <3>2, CancelsLive
    <3>3. QED
      BY <3>1, <3>2
  <2>6. QED
    BY <2>3, <2>5 DEF ClockInv
<1>6. CASE OnCloseDeletes(x)
  <2>1. clock' = clock /\ cancelFn' = [cancelFn EXCEPT ![p] = None]
    BY <1>1, <1>6 DEF OnCloseDeletes, DeleteCancelFn
  <2>2. /\ cancelFn' \in [Peers -> Clocks \cup {None}]
        /\ \A q \in Peers : cancelFn'[q] # None => cancelFn'[q] = cancelFn[q]
        /\ \A q \in Peers \ {p} : cancelFn'[q] = cancelFn[q]
    BY <2>1 DEF ClockInv, ClockTypes
  <2>3. ClockTypes'
    <3>1. \A q \in Peers : cancelFn'[q] # None => clock[cancelFn'[q]].peer = q
      BY <2>2 DEF ClockInv, ClockTypes
    <3>2. \A n \in Clocks : stop'[n] # "none" => clock[n].stream = "closed"
      BY <1>3 DEF ClockInv, ClockTypes
    <3>3. QED
      BY <1>2, <1>3, <2>1, <2>2, <3>1, <3>2 DEF ClockInv, ClockTypes, Created
  <2>4. ASSUME NEW q \in Peers PROVE OneLive(q)'
    <3>1. Threat(q)' => Threat(q)
      <4>1. \A y \in Chats \cup Clocks : PeerOf(y)' = PeerOf(y)
        BY <2>1 DEF PeerOf
      <4>2. ~OnCloseCancels(x)
        BY <1>6 DEF OnCloseCancels, OnCloseDeletes
      <4>3. QED
        BY <1>4, <4>1, <4>2
    <3>2. CASE q = p
      <4>1. Threat(p)
        BY <1>1, <1>6 DEF OnCloseDeletes, Threat, Closing
      <4>2. QED
        BY <2>1, <3>2, <4>1 DEF ClockInv, OneLive, Live
    <3>3. CASE q # p
      BY <2>1, <2>2, <3>1, <3>3, StaysOneLive DEF ClockInv, Live
    <3>4. QED
      BY <3>2, <3>3
  <2>5. QED
    BY <2>3, <2>4 DEF ClockInv
<1>7. QED
  BY <1>5, <1>6

\* /now cancels the clock that is stored: no live one is left to its peer.
LEMMA StopOldClock ==
  ASSUME Jobs, ClockInv, NEW c \in Chats, UNCHANGED <<bot, peer>>, StopOld(c)
  PROVE  ClockInv'
<1>1. PICK p \in Peers : p = peer[c]
  BY DEF Jobs
<1>2. /\ Cancel(p) /\ UNCHANGED <<read, cancelFn, stop>>
      /\ JobGoes(c, "stopping", IF cancelFn[p] = None THEN "storing" ELSE "deleting")
  BY <1>1 DEF StopOld
<1>3. PICK to \in {"storing", "deleting"} : /\ JobGoes(c, "stopping", to)
                                            /\ to = IF cancelFn[p] = None THEN "storing" ELSE "deleting"
  BY <1>2
<1>4. /\ job[c].at = "stopping" /\ job'[c].at = to /\ job'[c].n = job[c].n
      /\ \A d \in Chats \ {c} : job'[d] = job[d]
  BY <1>2, <1>3, GoesOn DEF JobSteps, ClockSteps
<1>5. /\ clock' \in [Clocks -> ClockState]
      /\ \A m \in Clocks : m # cancelFn[p] => clock'[m] = clock[m]
      /\ cancelFn[p] # None => clock'[cancelFn[p]].cancelled
      /\ \A m \in Clocks : clock'[m].peer = clock[m].peer /\ (clock[m] = NoClock => clock'[m] = NoClock)
      /\ \A m \in Clocks : clock'[m] # NoClock => m <= read /\ clock'[m].peer # None
      /\ \A m \in Clocks : clock'[m].stream = clock[m].stream
  BY <1>2, Cancels DEF ClockInv
<1>6. ClockTypes'
  <2>1. \A q \in Peers : cancelFn[q] # None => clock'[cancelFn[q]].peer = q
    BY <1>5 DEF ClockInv, ClockTypes
  <2>2. \A d \in Chats : job'[d].at \in {"stopping", "deleting", "storing"} => clock'[job'[d].n] = NoClock
    BY <1>4, <1>5, ClockNumber DEF ClockInv, ClockTypes, ClockSteps
  <2>3. \A d \in Chats : job'[d].at = "creating" => Created(d)'
    BY <1>3, <1>4, <1>5, ClockNumber DEF ClockInv, ClockTypes, ClockSteps, Created
  <2>4. QED
    BY <1>2, <1>5, <2>1, <2>2, <2>3 DEF ClockInv, ClockTypes
<1>7. \A y \in Chats \cup Clocks : PeerOf(y)' = PeerOf(y)
  BY <1>5 DEF PeerOf
<1>8. ASSUME NEW q \in Peers PROVE OneLive(q)'
  <2>1. CASE q = p
    BY <1>2, <2>1, CancelsLive
  <2>2. CASE q # p
    <3>1. Threat(q)' => Threat(q)
      BY <1>1, <1>2, <1>4, <1>7, <2>2 DEF Threat, Commanded, Closing
    <3>2. QED
      BY <1>2, <2>2, <3>1, CancelsLive
  <2>3. QED
    BY <2>1, <2>2
<1>9. QED
  BY <1>6, <1>8 DEF ClockInv

\* What is deleted is not the cancel function of a live clock.
LEMMA DeleteOldClock ==
  ASSUME Jobs, ClockInv, NEW c \in Chats, UNCHANGED <<bot, peer>>, DeleteOld(c)
  PROVE  ClockInv'
<1>1. PICK p \in Peers : p = peer[c]
  BY DEF Jobs
<1>2. /\ cancelFn' = [cancelFn EXCEPT ![p] = None] /\ UNCHANGED <<read, clock, stop>>
      /\ JobGoes(c, "deleting", "storing")
  BY <1>1 DEF DeleteOld, DeleteCancelFn
<1>3. /\ job[c].at = "deleting" /\ job'[c].at = "storing" /\ job'[c].n = job[c].n
      /\ \A d \in Chats \ {c} : job'[d] = job[d]
  BY <1>2, GoesOn DEF JobSteps, ClockSteps
<1>4. /\ cancelFn' \in [Peers -> Clocks \cup {None}]
      /\ \A q \in Peers : cancelFn'[q] # None => cancelFn'[q] = cancelFn[q]
      /\ \A q \in Peers \ {p} : cancelFn'[q] = cancelFn[q]
  BY <1>2 DEF ClockInv, ClockTypes
<1>5. ClockTypes'
  <2>1. \A q \in Peers : cancelFn'[q] # None => clock[cancelFn'[q]].peer = q
    BY <1>4 DEF ClockInv, ClockTypes
  <2>2. \A d \in Chats : job'[d].at \in {"stopping", "deleting", "storing"} => clock[job'[d].n] = NoClock
    BY <1>3 DEF ClockInv, ClockTypes
  <2>3. \A d \in Chats : job'[d].at = "creating" => Created(d)'
    BY <1>2, <1>3 DEF ClockInv, ClockTypes, Created
  <2>4. QED
    BY <1>2, <1>4, <2>1, <2>2, <2>3 DEF ClockInv, ClockTypes
<1>6. ASSUME NEW q \in Peers PROVE OneLive(q)'
  <2>1. Threat(q)' => Threat(q)
    BY <1>1, <1>2, <1>3 DEF Threat, Commanded, Closing, PeerOf
  <2>2. CASE q = p
    <3>1. Threat(p)
      BY <1>1, <1>3 DEF Threat, Commanded
    <3>2. QED
      BY <1>2, <2>2, <3>1 DEF ClockInv, OneLive, Live
  <2>3. CASE q # p
    BY <1>2, <1>4, <2>1, <2>3, StaysOneLive DEF ClockInv, Live
  <2>4. QED
    BY <2>2, <2>3
<1>7. QED
  BY <1>5, <1>6 DEF ClockInv

\* The clock that is stored is the first one of its number.
LEMMA StoreNewClock ==
  ASSUME Jobs, ClockInv, NEW c \in Chats, UNCHANGED <<bot, peer>>, StoreNew(c)
  PROVE  ClockInv'
<1>1. PICK p \in Peers, n \in Clocks : p = peer[c] /\ n = job[c].n /\ n <= read
                                       /\ \A d \in Chats \ {c} : job[d].n # n
  <2>1. job[c].at \in ClockSteps
    BY DEF StoreNew, JobGoes, ClockSteps
  <2>2. QED
    BY <2>1, ClockNumber DEF Jobs
<1> DEFINE r == [NoClock EXCEPT !.peer = p, !.raced = Racing(c)]
<1>2. /\ cancelFn' = [cancelFn EXCEPT ![p] = n] /\ clock' = [clock EXCEPT ![n] = r]
      /\ UNCHANGED <<read, stop>> /\ JobGoes(c, "storing", "creating")
  BY <1>1 DEF StoreNew
<1>3. /\ job[c].at = "storing" /\ job'[c].at = "creating" /\ job'[c].n = n
      /\ \A d \in Chats \ {c} : job'[d] = job[d]
  BY <1>1, <1>2, GoesOn DEF JobSteps, ClockSteps
<1>r. r \in ClockState /\ r.peer = p /\ r.stream = "none" /\ (Racing(c) => r.raced) /\ p # None
  <2>1. Racing(c) \in BOOLEAN
    BY DEF Racing
  <2>2. QED
    BY <2>1, Disjoint DEF NoClock, ClockState
<1>4. clock[n] = NoClock /\ clock \in [Clocks -> ClockState] /\ stop[n] = "none"
  BY <1>1, <1>3, NoClockType DEF ClockInv, ClockTypes
<1> HIDE DEF r
<1>5. /\ clock' \in [Clocks -> ClockState] /\ clock'[n] = r
      /\ \A m \in Clocks : m # n => clock'[m] = clock[m]
      /\ cancelFn' \in [Peers -> Clocks \cup {None}] /\ cancelFn'[p] = n
      /\ \A q \in Peers \ {p} : cancelFn'[q] = cancelFn[q]
  BY <1>2, <1>4, <1>r DEF ClockInv, ClockTypes
<1>6. \A q \in Peers : cancelFn[q] # n
  BY <1>4, NoClockType, Disjoint DEF ClockInv, ClockTypes
<1>7. ClockTypes'
  <2>1. \A q \in Peers : cancelFn'[q] # None => clock'[cancelFn'[q]].peer = q
    BY <1>5, <1>6, <1>r DEF ClockInv, ClockTypes
  <2>2. \A d \in Chats : job'[d].at \in {"stopping", "deleting", "storing"} => clock'[job'[d].n] = NoClock
    BY <1>1, <1>3, <1>5, ClockNumber DEF ClockInv, ClockTypes, ClockSteps
  <2>3. \A d \in Chats : job'[d].at = "creating" => Created(d)'
    BY <1>1, <1>3, <1>5, <1>r, ClockNumber DEF ClockInv, ClockTypes, ClockSteps, Created
  <2>4. \A m \in Clocks : clock'[m] # NoClock => m <= read /\ clock'[m].peer # None
    BY <1>1, <1>5, <1>r DEF ClockInv, ClockTypes
  <2>5. \A m \in Clocks : stop[m] # "none" => clock'[m].stream = "closed"
    BY <1>4, <1>5 DEF ClockInv, ClockTypes
  <2>6. QED
    BY <1>2, <1>5, <2>1, <2>2, <2>3, <2>4, <2>5 DEF ClockInv, ClockTypes
<1>8. ASSUME NEW q \in Peers PROVE OneLive(q)'
  <2>1. \A x \in Chats \cup Clocks : stop[x] = "deleting" => PeerOf(x)' = PeerOf(x)
    BY <1>4, <1>5 DEF PeerOf
  <2>2. Threat(q)' => \/ \E d \in Chats \ {c} : peer[d] = q /\ job[d].at \in {"deleting", "storing"}
                     \/ Closing(q)
    BY <1>2, <1>3, <2>1 DEF Threat, Commanded, Closing
  <2>3. CASE q = p
    <3>1. Threat(p)
      BY <1>1, <1>3 DEF Threat, Commanded
    <3>2. \A m \in Clocks : m # n /\ clock'[m].peer = p => ~Live(m)'
      BY <1>5, <3>1 DEF ClockInv, OneLive, Live
    <3>3. Threat(p)' => Racing(c)
      BY <1>1, <2>2, <2>3 DEF Racing, Closing
    <3>4. Threat(p)' => ~Live(n)'
      BY <1>5, <1>r, <3>3 DEF Live
    <3>5. QED
      BY <1>5, <2>3, <3>2, <3>4 DEF OneLive
  <2>4. CASE q # p
    <3>1. Threat(q)' => Threat(q)
      BY <2>2 DEF Threat, Commanded
    <3>2. \A m \in Clocks : clock'[m].peer = q /\ Live(m)' => clock[m].peer = q /\ Live(m)
      BY <1>5, <1>r, <2>4 DEF Live
    <3>3. QED
      BY <1>5, <2>4, <3>1, <3>2, StaysOneLive DEF ClockInv
  <2>5. QED
    BY <2>3, <2>4
<1>9. QED
  BY <1>7, <1>8 DEF ClockInv

LEMMA CreateStreamClock ==
  ASSUME Jobs, ClockInv, NEW c \in Chats, UNCHANGED <<bot, peer>>, CreateStream(c)
  PROVE  ClockInv'
<1>1. PICK n \in Clocks : n = job[c].n /\ \A d \in Chats \ {c} : job[d].n # n
  <2>1. job[c].at \in ClockSteps
    BY DEF CreateStream, JobGoes, ClockSteps
  <2>2. QED
    BY <2>1, ClockNumber
<1>2. UNCHANGED <<read, cancelFn, stop>> /\ JobGoes(c, "creating", "idle")
  BY DEF CreateStream
<1>3. /\ job[c].at = "creating" /\ job'[c].at = "idle"
      /\ \A d \in Chats \ {c} : job'[d] = job[d]
  BY <1>2, GoesOn DEF JobSteps, ClockSteps
<1>4. /\ clock[n].peer = peer[c] /\ clock[n] # NoClock /\ clock[n] \in ClockState
      /\ clock[n].stream = "none" /\ stop[n] = "none" /\ clock \in [Clocks -> ClockState]
  <2>1. clock[n].peer = peer[c] /\ clock[n].stream = "none"
    BY <1>1, <1>3 DEF ClockInv, ClockTypes, Created
  <2>2. peer[c] # None /\ clock[n] \in ClockState /\ clock \in [Clocks -> ClockState]
    BY Disjoint DEF ClockInv, ClockTypes, Jobs
  <2>3. QED
    BY <2>1, <2>2, NoClockType DEF ClockInv, ClockTypes
<1>5. PICK r \in ClockState : /\ clock' = [clock EXCEPT ![n] = r] /\ r.peer = clock[n].peer
                              /\ clock[n].cancelled => r.cancelled
                              /\ r.raced = clock[n].raced
  <2>1. CASE clock' = [clock EXCEPT ![n].stream = "opening"]
    <3> DEFINE r == [clock[n] EXCEPT !.stream = "opening"]
    <3>1. r \in ClockState /\ r.peer = clock[n].peer /\ r.cancelled = clock[n].cancelled /\ r.raced = clock[n].raced
      BY <1>4 DEF ClockState
    <3>2. clock' = [clock EXCEPT ![n] = r]
      BY <2>1
    <3> HIDE DEF r
    <3>3. QED
      BY <3>1, <3>2
  <2>2. CASE clock' = [clock EXCEPT ![n].cancelled = TRUE]
    <3> DEFINE r == [clock[n] EXCEPT !.cancelled = TRUE]
    <3>1. r \in ClockState /\ r.peer = clock[n].peer /\ r.cancelled /\ r.raced = clock[n].raced
      BY <1>4 DEF ClockState
    <3>2. clock' = [clock EXCEPT ![n] = r]
      BY <2>2
    <3> HIDE DEF r
    <3>3. QED
      BY <3>1, <3>2
  <2>3. QED
    BY <1>1, <2>1, <2>2 DEF CreateStream
<1>6. /\ clock' \in [Clocks -> ClockState]
      /\ \A m \in Clocks : m # n => clock'[m] = clock[m]
      /\ clock'[n] = r
      /\ \A m \in Clocks : clock'[m].peer = clock[m].peer /\ (clock[m] = NoClock => clock'[m] = NoClock)
      /\ \A m \in Clocks : clock'[m] # NoClock => m <= read /\ clock'[m].peer # None
  BY <1>4, <1>5, ClockChanges DEF ClockInv
<1>7. ClockTypes'
  <2>1. \A q \in Peers : cancelFn[q] # None => clock'[cancelFn[q]].peer = q
    BY <1>6 DEF ClockInv, ClockTypes
  <2>2. \A d \in Chats : job'[d].at \in {"stopping", "deleting", "storing"} => clock'[job'[d].n] = NoClock
    BY <1>3, <1>6, ClockNumber DEF ClockInv, ClockTypes, ClockSteps
  <2>3. \A d \in Chats : job'[d].at = "creating" => Created(d)'
    BY <1>1, <1>3, <1>6, ClockNumber DEF ClockInv, ClockTypes, ClockSteps, Created
  <2>4. \A m \in Clocks : stop[m] # "none" => clock'[m].stream = "closed"
    BY <1>4, <1>6 DEF ClockInv, ClockTypes
  <2>5. QED
    BY <1>2, <1>6, <2>1, <2>2, <2>3, <2>4 DEF ClockInv, ClockTypes
<1>8. \A y \in Chats \cup Clocks : PeerOf(y)' = PeerOf(y)
  BY <1>6 DEF PeerOf
<1>9. ASSUME NEW q \in Peers PROVE OneLive(q)'
  <2>1. Threat(q)' => Threat(q)
    BY <1>2, <1>3, <1>8 DEF Threat, Commanded, Closing
  <2>2. \A m \in Clocks : Live(m)' => Live(m)
    BY <1>5, <1>6 DEF Live
  <2>3. QED
    BY <1>2, <1>6, <2>1, <2>2, StaysOneLive DEF ClockInv
<1>10. QED
  BY <1>7, <1>9 DEF ClockInv

LEMMA NextClock == Jobs /\ ClockInv /\ [Next]_vars => ClockInv'
<1> SUFFICES ASSUME Jobs, ClockInv, [Next]_vars PROVE ClockInv'
  OBVIOUS
<1>j. Jobs' /\ read \in Nat
  BY NextJobs DEF Jobs
<1>1. CASE UNCHANGED Shared
  BY <1>1, <1>j, ClocksStay DEF Shared
<1>2. ASSUME UNCHANGED <<bot, peer>>, NEW c \in Chats, ReadNow(c) \/ ReadCounterCommand(c) \/ ReadQuestion(c)
      PROVE  ClockInv'
  <2>1. PICK first \in {"stopping", "loading", "resetting", "asking"} :
           /\ Reads(c, first) /\ first \in JobSteps
           /\ first \in ClockSteps <=> bot = "clock"
    BY <1>2, ReadGoes
  <2>2. /\ job'[c] = [n |-> read + 1, at |-> first] /\ read' = read + 1
        /\ \A d \in Chats \ {c} : job'[d] = job[d]
    BY <1>2, <2>1, ReadsOne
  <2>3. UNCHANGED <<cancelFn, clock, stop>>
    BY <2>1 DEF Reads, clockVars
  <2>4. \A d \in Chats : \/ job'[d] = job[d]
                         \/ job'[d].at \notin {"stopping", "deleting", "storing", "creating"}
                         \/ job'[d] = [n |-> read + 1, at |-> "stopping"] /\ bot = "clock" /\ read' = read + 1
    BY <2>1, <2>2 DEF ClockSteps
  <2>5. QED
    BY <1>2, <1>j, <2>2, <2>3, <2>4, ClocksStay
<1>3. ASSUME UNCHANGED <<bot, peer>>, NEW c \in Chats, CounterStep(c) \/ ChatStep(c) PROVE ClockInv'
  <2>1. UNCHANGED <<cancelFn, clock, stop>> /\ job[c].at \notin ClockSteps
    BY <1>3 DEF CounterStep, LoadCounter, SwapCounter, ResetCounter, ChatStep, AppendQuestion,
       LoadHistory, SwapHistory, Generate, AppendAnswer, clockVars, JobGoes, ClockSteps
  <2>2. PICK from, to : <<from, to>> \in Steps /\ JobGoes(c, from, to) /\ read' = read
    BY <1>3, JobStepGoes DEF JobStep
  <2>3. to \in JobSteps /\ from # "idle" /\ (to \in ClockSteps => from \in ClockSteps)
    BY <2>2 DEF Steps, JobSteps, ClockSteps
  <2>4. /\ job[c].at = from /\ job'[c].at = to /\ \A d \in Chats \ {c} : job'[d] = job[d]
    BY <1>3, <2>2, <2>3, GoesOn
  <2>5. \A d \in Chats : job'[d] = job[d] \/ job'[d].at \notin {"stopping", "deleting", "storing", "creating"}
    BY <2>1, <2>3, <2>4 DEF ClockSteps
  <2>6. QED
    BY <1>3, <1>j, <2>1, <2>2, <2>5, ClocksStay
<1>4. ASSUME UNCHANGED <<bot, peer>>, NEW c \in Chats, JobStep(c) PROVE ClockInv'
  BY <1>3, <1>4, StopOldClock, DeleteOldClock, StoreNewClock, CreateStreamClock DEF JobStep, ClockStep
<1>5. CASE OtherStep /\ UNCHANGED <<bot, peer>>
  BY <1>5, ChatClosesClock, StreamClock, OnCloseClock DEF OtherStep
<1>6. QED
  BY <1>1, <1>2, <1>4, <1>5, NextCases

------------------------------------------------------------------------------
(* The theorems.                                                           *)

Leaving == gone \subseteq Peers

LEMMA NextLeaving == Leaving /\ [Next]_vars => Leaving'
BY DEF Leaving, Next, Disconnects, vars

Inv == Jobs /\ Values /\ Counted /\ Histories /\ ClockInv /\ Leaving

\* The invariant holds in every state: the commands in hand, the counters and
\* what was answered, the history, and the clocks.
THEOREM Invariance == Spec => []Inv
<1>1. Init => Inv
  <2>1. Init => Leaving
    BY DEF Init, Leaving
  <2>2. QED
    BY <2>1, InitJobs, InitCounter, InitHistories, InitClock DEF Inv
<1>2. Inv /\ [Next]_vars => Inv'
  BY NextJobs, NextValues, NextCounted, NextHistories, NextClock, NextLeaving DEF Inv
<1>3. QED
  BY <1>1, <1>2, PTL DEF Spec

\* The variables keep their types, and a cancel function is that of a clock of
\* the peer (clockbot_dc_handler.go:116-131, 213-223).
THEOREM TypeCorrect == Spec => []TypeOK
<1>1. Inv => TypeOK
  BY DEF Inv, Jobs, Job, Values, Answer, Histories, Msg, ClockInv, ClockTypes, ClockState, Leaving,
     TypeOK
<1>2. QED
  BY <1>1, Invariance, PTL

\* Each /increase is told the number of increases of its peer since the last
\* reset, for any number of channels (counter_dc_handler.go:126-148).
THEOREM IncreasesAlwaysCounted == Spec => []IncreasesCounted
<1>1. Inv => IncreasesCounted
  BY DEF Inv, Counted, Earlier, IncreasesCounted, IncreasesBefore
<1>2. QED
  BY <1>1, Invariance, PTL

\* No message is lost from the history of a peer, or comes twice, and an answer
\* is there after its question (msgs_store.go:55-79, chatbot_dc_handler.go:158-173).
THEOREM HistoryAlwaysKept == Spec => []HistoryKept
<1>1. Inv => HistoryKept
  BY DEF Inv, Histories, OnceEach, Found, Question, Reply, HistoryKept
<1>2. QED
  BY <1>1, Invariance, PTL

\* A clock that nobody has stopped, and that was not stored in a race with another
\* channel of its peer, is the one that /now or OnClose will stop, however
\* many channels the peer has and whichever of them and of the streams have closed
\* (clockbot_dc_handler.go:116-131, 213-223).
THEOREM OneClockEach == Spec => []OneClock
<1>1. Inv => OneClock
  <2> SUFFICES ASSUME Inv, NEW n \in Clocks, clock[n].peer # None, ~clock[n].cancelled, ~clock[n].raced
               PROVE  cancelFn[clock[n].peer] = n
    BY DEF OneClock
  <2>1. clock[n].peer \in Peers
    BY DEF Inv, ClockInv, ClockTypes, ClockState
  <2>2. OneLive(clock[n].peer)
    BY <2>1 DEF Inv, ClockInv
  <2>3. QED
    BY <2>2 DEF OneLive, Live
<1>2. QED
  BY <1>1, Invariance, PTL
=============================================================================
