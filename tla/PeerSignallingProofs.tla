------------------------ MODULE PeerSignallingProofs ------------------------
(***************************************************************************)
(* The safety of the agent's peer connections, for any number of           *)
(* connections, inputs, callbacks and attempts.                            *)
(***************************************************************************)
EXTENDS PeerSignalling, SequenceTheorems, FiniteSetTheorems, TLAPS

CandidateSeq == Seq(1..MaxInputs)

LEMMA IdsAreNat == ConnIds \subseteq Nat /\ None = 0 /\ None \notin ConnIds
BY BoundsAssumption DEF ConnIds, None

------------------------------------------------------------------------------
(* Types.                                                                  *)

ServeSteps == {"idle", "describing", "answering", "sending", "draining", "ended"}
PlaySteps == {"idle", "removing", "adding", "storing", "offering", "sending"}
Past == [older : SUBSET ConnIds, taker : 0..conns]

LEMMA InitTypes == Init => TypeOK
<1> SUFFICES ASSUME Init PROVE TypeOK
  OBVIOUS
<1>1. <<>> \in CandidateSeq
  BY EmptySeq DEF CandidateSeq
<1>2. NewEntry \in Entries
  BY <1>1 DEF NewEntry, Entries, CandidateSeq
<1>3. pc \in [ConnIds -> Entries]
  BY <1>2 DEF Init
<1>4. callbacks \in [ConnIds -> [CallbackSteps -> Nat]]
  BY DEF Init
<1>5. /\ conns = 0 /\ store = 0 /\ inputs = 0 /\ asked \in BOOLEAN
      /\ serve = [at |-> "idle", entry |-> 0, msg |-> "offer"]
      /\ play = [h \in Plays |-> [at |-> "idle", entry |-> 0]]
      /\ past = [c \in ConnIds |-> [older |-> {}, taker |-> 0]]
  BY DEF Init, Idle, NoPlay, None
<1>6. QED
  BY <1>3, <1>4, <1>5, BoundsAssumption DEF TypeOK, SDPKinds

\* A callback that moves on was there.
LEMMA CallbackTypes ==
  ASSUME TypeOK, NEW c \in ConnIds, NEW from, NEW to, CallbackMoves(c, from, to),
         from \in CallbackSteps => callbacks[c][from] > 0
  PROVE  /\ callbacks' \in [ConnIds -> [CallbackSteps -> Nat]]
         /\ \A d \in ConnIds \ {c} : callbacks'[d] = callbacks[d]
         /\ \A s \in CallbackSteps :
              /\ s # from => callbacks'[c][s] >= callbacks[c][s]
              /\ s = to => callbacks'[c][s] > 0
              /\ s # to => callbacks'[c][s] <= callbacks[c][s]
<1> DEFINE moved == [s \in CallbackSteps |-> IF s = to THEN callbacks[c][s] + 1
                                             ELSE IF s = from THEN callbacks[c][s] - 1
                                             ELSE callbacks[c][s]]
<1>1. callbacks \in [ConnIds -> [CallbackSteps -> Nat]]
  BY DEF TypeOK
<1>2. callbacks' = [callbacks EXCEPT ![c] = moved]
  BY DEF CallbackMoves
<1>3. \A s \in CallbackSteps : callbacks[c][s] \in Nat
  BY <1>1
<1>4. moved \in [CallbackSteps -> Nat]
  BY <1>3
<1>5. \A s \in CallbackSteps :
        /\ s # from => moved[s] >= callbacks[c][s]
        /\ s = to => moved[s] > 0
        /\ s # to => moved[s] <= callbacks[c][s]
  BY <1>3
<1> HIDE DEF moved
<1>6. callbacks'[c] = moved
  BY <1>1, <1>2
<1>7. QED
  BY <1>1, <1>2, <1>4, <1>5, <1>6

\* Adding candidates to a connection.
LEMMA AddTypes ==
  ASSUME NEW entry \in Entries, NEW cands \in CandidateSeq
  PROVE  /\ Add(entry, cands) \in Entries
         /\ \/ Add(entry, cands) = entry
            \/ /\ entry.described /\ entry.sig # "closed"
               /\ Add(entry, cands) = [entry EXCEPT !.applied = entry.applied \o cands]
<1>1. entry.applied \in CandidateSeq
  BY DEF Entries, CandidateSeq
<1>2. entry.applied \o cands \in CandidateSeq
  BY <1>1, ConcatProperties DEF CandidateSeq
<1>3. [entry EXCEPT !.applied = entry.applied \o cands] \in Entries
  BY <1>2 DEF Entries, CandidateSeq
<1>4. QED
  BY <1>3 DEF Add

\* A step that changes no candidate, takes no offer and answers none, and opens
\* nothing that is closed.
Kept(old, new) ==
  /\ new.queued = old.queued /\ new.applied \in {old.applied, <<>>}
  /\ new.described = old.described /\ new.offered = old.offered
  /\ old.sig = "closed" => new.sig = "closed"
  /\ new.sig = "have-remote-offer" <=> old.sig = "have-remote-offer" /\ new.sig # "closed"

Keeps(d) == Kept(pc[d], pc'[d]) /\ (d > conns => pc'[d] = pc[d])

LEMMA Unchanged ==
  ASSUME TypeOK, UNCHANGED pc
  PROVE  pc' \in [ConnIds -> Entries] /\ \A d \in ConnIds : Keeps(d)
BY DEF TypeOK, Keeps, Kept

LEMMA EntryKept ==
  ASSUME TypeOK, NEW e, NEW new, pc' = [pc EXCEPT ![e] = new],
         e \in ConnIds => e <= conns /\ new \in Entries /\ Kept(pc[e], new)
  PROVE  pc' \in [ConnIds -> Entries] /\ \A d \in ConnIds : Keeps(d)
<1>1. pc \in [ConnIds -> Entries] /\ conns \in Nat
  BY BoundsAssumption DEF TypeOK
<1>2. pc' \in [ConnIds -> Entries]
  BY <1>1
<1>3. ASSUME NEW d \in ConnIds PROVE Keeps(d)
  <2>1. CASE d = e
    <3>1. pc'[d] = new
      BY <1>1, <2>1
    <3>2. ~(d > conns)
      BY <1>1, <2>1, IdsAreNat
    <3>3. QED
      BY <2>1, <3>1, <3>2 DEF Keeps
  <2>2. CASE d # e
    BY <1>1, <2>2 DEF Keeps, Kept
  <2>3. QED
    BY <2>1, <2>2
<1>4. QED
  BY <1>2, <1>3

LEMMA PionTypes ==
  ASSUME TypeOK, NEW c \in ConnIds, Connects(c) \/ Disconnects(c) \/ Fails(c)
  PROVE  TypeOK' /\ \A d \in ConnIds : Keeps(d)
<1>1. PICK ice \in {"connected", "disconnected", "failed"} : pc' = [pc EXCEPT ![c].ice = ice]
  BY DEF Connects, Disconnects, Fails
<1>2. pc \in [ConnIds -> Entries] /\ pc[c] \in Entries /\ c <= conns
  BY DEF TypeOK, Connects, Disconnects, Fails, Open, Made
<1>3. [pc[c] EXCEPT !.ice = ice] \in Entries /\ Kept(pc[c], [pc[c] EXCEPT !.ice = ice])
  BY <1>2 DEF Entries, Kept
<1>4. pc' \in [ConnIds -> Entries] /\ \A d \in ConnIds : Keeps(d)
  BY <1>1, <1>2, <1>3, EntryKept
<1>5. NoCallback \notin CallbackSteps
  BY DEF NoCallback, CallbackSteps
<1>6. callbacks' \in [ConnIds -> [CallbackSteps -> Nat]]
  BY <1>5, CallbackTypes DEF Connects, Disconnects, Fails
<1>7. UNCHANGED <<store, conns, serve, play, asked, inputs, past>>
  BY DEF Connects, Disconnects, Fails
<1>8. QED
  BY <1>4, <1>6, <1>7 DEF TypeOK

LEMMA ClosedTypes ==
  ASSUME NEW entry \in Entries
  PROVE  Closed(entry) \in Entries /\ Kept(entry, Closed(entry))
<1>1. <<>> \in CandidateSeq
  BY EmptySeq DEF CandidateSeq
<1>2. QED
  BY <1>1 DEF Closed, Entries, Kept, CandidateSeq

LEMMA CallbackStepTypes ==
  ASSUME TypeOK, NEW c \in ConnIds, c <= conns, CallbackStep(c)
  PROVE  TypeOK' /\ \A d \in ConnIds : Keeps(d)
<1>s. /\ store' = store \/ store' = None
      /\ asked' = asked \/ asked' = TRUE
      /\ past' = past \/ past' = [past EXCEPT ![store].taker = c]
      /\ UNCHANGED <<conns, serve, play, inputs>>
  BY DEF CallbackStep, Waited, Attempt, Offer, SendOffer, Delete, Close, Reset, Forget, Takes
<1>t. /\ pc \in [ConnIds -> Entries] /\ pc[c] \in Entries
      /\ store \in 0..conns /\ conns \in 0..MaxConns /\ asked \in BOOLEAN
      /\ past \in [ConnIds -> Past] /\ c \in 0..conns
  BY IdsAreNat, BoundsAssumption DEF TypeOK, Past
<1>u. store' \in 0..conns
  BY <1>s, <1>t, BoundsAssumption DEF None
<1>v. asked' \in BOOLEAN /\ past' \in [ConnIds -> Past]
  <2>1. CASE past' = [past EXCEPT ![store].taker = c] /\ store \in ConnIds
    <3>1. past[store] \in Past
      BY <1>t, <2>1
    <3>2. [past[store] EXCEPT !.taker = c] \in Past
      BY <1>t, <3>1 DEF Past
    <3>3. past' = [past EXCEPT ![store] = [past[store] EXCEPT !.taker = c]]
      BY <2>1
    <3>4. QED
      BY <1>s, <1>t, <3>2, <3>3
  <2>2. CASE past' = [past EXCEPT ![store].taker = c] /\ store \notin ConnIds
    BY <1>s, <1>t, <2>2
  <2>3. QED
    BY <1>s, <1>t, <2>1, <2>2
<1>1. callbacks' \in [ConnIds -> [CallbackSteps -> Nat]]
  BY CallbackTypes DEF CallbackStep, Waited, Attempt, Offer, SendOffer, Delete, Close, Reset, Forget, At
<1>2. pc' \in [ConnIds -> Entries] /\ \A d \in ConnIds : Keeps(d)
  <2>1. CASE UNCHANGED pc
    BY <2>1, Unchanged
  <2>2. CASE Attempt(c) \/ Reset(c)
    <3>1. PICK n \in Nat : pc' = [pc EXCEPT ![c].attempts = n]
      BY <1>t, <2>2 DEF Attempt, Reset, Entries
    <3>2. [pc[c] EXCEPT !.attempts = n] \in Entries /\ Kept(pc[c], [pc[c] EXCEPT !.attempts = n])
      BY <1>t DEF Entries, Kept
    <3>3. QED
      BY <1>t, <3>1, <3>2, EntryKept
  <2>3. CASE Offer(c)
    <3>1. CASE /\ pc[c].sig \in {"stable", "have-local-offer"}
               /\ pc' = [pc EXCEPT ![c].sig = "have-local-offer", ![c].ice = "connecting"]
      <4>1. /\ [pc[c] EXCEPT !.sig = "have-local-offer", !.ice = "connecting"] \in Entries
            /\ Kept(pc[c], [pc[c] EXCEPT !.sig = "have-local-offer", !.ice = "connecting"])
        BY <1>t, <3>1 DEF Entries, Kept
      <4>2. pc' = [pc EXCEPT ![c] = [pc[c] EXCEPT !.sig = "have-local-offer", !.ice = "connecting"]]
        BY <1>t, <3>1
      <4>3. QED
        BY <4>1, <4>2, EntryKept
    <3>2. CASE pc' = [pc EXCEPT ![c].ice = "connecting"]
      <4>1. /\ [pc[c] EXCEPT !.ice = "connecting"] \in Entries
            /\ Kept(pc[c], [pc[c] EXCEPT !.ice = "connecting"])
        BY <1>t DEF Entries, Kept
      <4>2. QED
        BY <3>2, <4>1, EntryKept
    <3>3. QED
      BY <2>1, <2>3, <3>1, <3>2 DEF Offer, MaySetOffer, Open
  <2>4. CASE Close(c)
    <3>1. Closed(pc[c]) \in Entries /\ Kept(pc[c], Closed(pc[c]))
      BY <1>t, ClosedTypes
    <3>2. QED
      BY <2>4, <3>1, EntryKept DEF Close
  <2>5. QED
    BY <2>1, <2>2, <2>3, <2>4 DEF CallbackStep, Waited, SendOffer, Delete, Forget
<1>3. QED
  BY <1>s, <1>t, <1>u, <1>v, <1>1, <1>2 DEF TypeOK, Past

LEMMA PlayTypes ==
  ASSUME TypeOK, NEW h \in Plays, GetPlay(h) \/ PlayStep(h)
  PROVE  TypeOK' /\ \A d \in ConnIds : Keeps(d)
<1> DEFINE e == play[h].entry
<1>t. /\ pc \in [ConnIds -> Entries] /\ conns \in Nat /\ e \in 0..conns /\ store \in 0..conns
      /\ e <= conns
      /\ e \in ConnIds => pc[e] \in Entries
      /\ play \in [Plays -> [at : PlaySteps, entry : 0..conns]]
      /\ UNCHANGED <<store, conns, callbacks, serve, past>>
  BY DEF TypeOK, PlaySteps, GetPlay, PlayStep, RemoveTrack, AddTrack, StoreSender, OfferTrack,
     SendTrackOffer
<1>1. play' \in [Plays -> [at : PlaySteps, entry : 0..conns]]
  <2>1. CASE GetPlay(h)
    BY <1>t, <2>1 DEF GetPlay, PlaySteps
  <2>2. CASE PlayStep(h)
    BY <1>t, <2>2, SMTT(30) DEF PlayStep, RemoveTrack, AddTrack, StoreSender, OfferTrack,
       SendTrackOffer, PlayGoes, PlayEnds, NoPlay, None, PlaySteps
  <2>3. QED
    BY <2>1, <2>2
<1>2. inputs' \in 0..MaxInputs /\ asked' \in BOOLEAN
  <2>1. /\ inputs' = inputs \/ (inputs < MaxInputs /\ inputs' = inputs + 1)
        /\ asked' = asked \/ asked' = TRUE
    BY DEF GetPlay, PlayStep, RemoveTrack, AddTrack, StoreSender, OfferTrack, SendTrackOffer
  <2>2. inputs \in 0..MaxInputs /\ asked \in BOOLEAN /\ MaxInputs \in Nat
    BY BoundsAssumption DEF TypeOK
  <2>3. inputs' \in 0..MaxInputs
    BY <2>1, <2>2
  <2>4. asked' \in BOOLEAN
    BY <2>1, <2>2
  <2>5. QED
    BY <2>3, <2>4
<1>3. pc' \in [ConnIds -> Entries] /\ \A d \in ConnIds : Keeps(d)
  <2>1. CASE UNCHANGED pc
    BY <2>1, Unchanged
  <2>2. CASE RemoveTrack(h)
    <3> DEFINE n == IF pc[e].senders > 0 /\ pc[e].current THEN pc[e].senders - 1 ELSE pc[e].senders
               r == IF Racing(h, e) THEN pc[e].races + 1 ELSE pc[e].races
               new == [pc[e] EXCEPT !.senders = n, !.current = FALSE, !.races = r]
    <3>1. e \in ConnIds => n \in Nat /\ r \in Nat
      BY <1>t DEF Entries
    <3>2. pc' = [pc EXCEPT ![e] = new]
      BY <1>t, <2>2 DEF RemoveTrack
    <3>3. e \in ConnIds => new \in Entries /\ Kept(pc[e], new)
      <4> HIDE DEF n, r, e
      <4> QED
        BY <1>t, <3>1 DEF Entries, Kept
    <3>4. QED
      <4> HIDE DEF e, new
      <4> QED
        BY <1>t, <3>2, <3>3, EntryKept
  <2>3. CASE AddTrack(h)
    <3> DEFINE new == [pc[e] EXCEPT !.senders = pc[e].senders + 1]
    <3>1. e \in ConnIds => new \in Entries /\ Kept(pc[e], new)
      <4> HIDE DEF e
      <4>1. e \in ConnIds => pc[e].senders + 1 \in Nat
        BY <1>t DEF Entries
      <4>2. QED
        BY <1>t, <4>1 DEF Entries, Kept
    <3>2. UNCHANGED pc \/ pc' = [pc EXCEPT ![e] = new]
      BY <2>3 DEF AddTrack
    <3>3. QED
      <4> HIDE DEF e, new
      <4> QED
        BY <1>t, <2>1, <3>1, <3>2, EntryKept
  <2>4. CASE StoreSender(h)
    <3> DEFINE new == [pc[e] EXCEPT !.current = TRUE]
    <3>1. e \in ConnIds => new \in Entries /\ Kept(pc[e], new)
      BY <1>t DEF Entries, Kept
    <3>2. pc' = [pc EXCEPT ![e] = new]
      BY <2>4 DEF StoreSender
    <3>3. QED
      <4> HIDE DEF e, new
      <4> QED
        BY <1>t, <3>1, <3>2, EntryKept
  <2>5. CASE OfferTrack(h) /\ ~UNCHANGED pc
    <3> DEFINE new == [pc[e] EXCEPT !.sig = "have-local-offer"]
    <3>1. e \in ConnIds /\ pc[e].sig \in {"stable", "have-local-offer"} =>
            new \in Entries /\ Kept(pc[e], new)
      BY <1>t DEF Entries, Kept
    <3>2. pc' = [pc EXCEPT ![e] = new] /\ pc[e].sig \in {"stable", "have-local-offer"}
      BY <2>5 DEF OfferTrack, MaySetOffer
    <3>3. QED
      <4> HIDE DEF e, new
      <4> QED
        BY <1>t, <3>1, <3>2, EntryKept
  <2>6. QED
    BY <2>1, <2>2, <2>3, <2>4, <2>5 DEF GetPlay, PlayStep, SendTrackOffer
<1>4. QED
  BY <1>t, <1>1, <1>2, <1>3 DEF TypeOK, PlaySteps

\* Steps of Serve that touch no candidate.
LEMMA ServeTypes ==
  ASSUME TypeOK, SendAnswer \/ Cleanup
  PROVE  TypeOK' /\ \A d \in ConnIds : Keeps(d)
<1>t. /\ pc \in [ConnIds -> Entries] /\ callbacks \in [ConnIds -> [CallbackSteps -> Nat]]
      /\ serve \in [at : ServeSteps, entry : 0..conns, msg : SDPKinds]
      /\ store \in 0..conns /\ conns \in 0..MaxConns /\ store <= conns
      /\ \A d \in ConnIds : pc[d] \in Entries
      /\ UNCHANGED <<store, conns, play, asked, inputs, past>>
  BY BoundsAssumption DEF TypeOK, ServeSteps, SendAnswer, Cleanup
<1>1. serve' \in [at : ServeSteps, entry : 0..conns, msg : SDPKinds]
  BY <1>t DEF SendAnswer, Cleanup, ServeSteps
<1>2. CASE UNCHANGED <<pc, callbacks>>
  BY <1>t, <1>1, <1>2, Unchanged DEF TypeOK, ServeSteps
<1>3. CASE Cleanup /\ store # None
  <2>1. store \in ConnIds
    BY <1>t, <1>3, BoundsAssumption DEF None, ConnIds
  <2>2. pc' \in [ConnIds -> Entries] /\ \A d \in ConnIds : Keeps(d)
    <3>1. pc' = [pc EXCEPT ![store] = Closed(pc[store])]
      BY <1>3 DEF Cleanup
    <3>2. QED
      BY <1>t, <2>1, <3>1, ClosedTypes, EntryKept
  <2>3. NoCallback \notin CallbackSteps
    BY DEF NoCallback, CallbackSteps
  <2>4. callbacks' \in [ConnIds -> [CallbackSteps -> Nat]]
    BY <1>t, <1>3, <2>1, <2>3, CallbackTypes DEF Cleanup
  <2>5. QED
    BY <1>t, <1>1, <2>2, <2>4 DEF TypeOK, ServeSteps
<1>4. QED
  BY <1>2, <1>3 DEF SendAnswer, Cleanup

------------------------------------------------------------------------------
(* The candidates.                                                         *)

Increasing(seq) == \A i, j \in 1..Len(seq) : i < j => seq[i] < seq[j]

Numbers(entry) ==
  /\ Increasing(entry.applied) /\ Increasing(entry.queued)
  /\ \A i \in 1..Len(entry.applied) : entry.applied[i] <= inputs
  /\ \A i \in 1..Len(entry.queued) : entry.queued[i] <= inputs

Working == {"describing", "answering", "sending", "draining"}

\* A connection that has its description and still has a queue is the one that
\* Serve is working on, or waits for an answer that failed.
Serving ==
  /\ serve.at \in Working => serve.entry \in ConnIds /\ pc[serve.entry].offered
  /\ serve.at \in {"sending", "draining"} => pc[serve.entry].sig # "have-remote-offer"
  /\ \A c \in ConnIds : pc[c].described => pc[c].offered
  /\ \A c \in ConnIds :
       pc[c].described /\ pc[c].sig \notin {"closed", "have-remote-offer"} /\ pc[c].queued # <<>>
         => serve.entry = c /\ serve.at \in {"sending", "draining"}

\* Where the queue may still be drained, what was applied came before it.
MayDrain(c) ==
  \/ pc[c].sig \notin {"closed", "have-remote-offer"}
  \/ pc[c].sig = "have-remote-offer" /\ serve.at = "answering" /\ serve.entry = c

Before(entry) ==
  \A i \in 1..Len(entry.applied), j \in 1..Len(entry.queued) : entry.applied[i] < entry.queued[j]

Ordered == \A c \in ConnIds : MayDrain(c) => Before(pc[c])

\* A connection that is not made yet has had nothing.
Fresh ==
  \A c \in ConnIds : c > conns => pc[c] = NewEntry /\ \A s \in CallbackSteps : callbacks[c][s] = 0

Candidates == Fresh /\ Serving /\ Ordered /\ \A c \in ConnIds : Numbers(pc[c])

LEMMA InitCandidates == Init => Candidates
<1> SUFFICES ASSUME Init PROVE Candidates
  OBVIOUS
<1>1. \A c \in ConnIds : pc[c] = NewEntry /\ \A s \in CallbackSteps : callbacks[c][s] = 0
  BY DEF Init
<1>2. Numbers(NewEntry)
  BY DEF Numbers, Increasing, NewEntry
<1>3. Serving /\ Ordered
  BY <1>1 DEF Serving, Ordered, Before, NewEntry, Init, Idle, Working
<1>4. QED
  BY <1>1, <1>2, <1>3 DEF Candidates, Fresh

LEMMA Elements ==
  ASSUME NEW s \in CandidateSeq
  PROVE  Len(s) \in Nat /\ \A i \in 1..Len(s) : s[i] \in Nat
<1>1. \A i \in 1..Len(s) : s[i] \in 1..MaxInputs
  BY ElementOfSeq DEF CandidateSeq
<1>2. QED
  BY <1>1, LenProperties, BoundsAssumption DEF CandidateSeq

\* Sequences of candidates, one after the other.
LEMMA IncreasingConcat ==
  ASSUME NEW s \in CandidateSeq, NEW t \in CandidateSeq, Increasing(s), Increasing(t),
         \A i \in 1..Len(s), j \in 1..Len(t) : s[i] < t[j]
  PROVE  /\ Increasing(s \o t)
         /\ \A k \in 1..Len(s \o t) : (\E i \in 1..Len(s) : (s \o t)[k] = s[i])
                                      \/ \E j \in 1..Len(t) : (s \o t)[k] = t[j]
<1>1. /\ Len(s) \in Nat /\ Len(t) \in Nat /\ Len(s \o t) = Len(s) + Len(t)
      /\ \A k \in 1..(Len(s) + Len(t)) : (s \o t)[k] = IF k <= Len(s) THEN s[k] ELSE t[k - Len(s)]
  BY ConcatProperties, LenProperties DEF CandidateSeq
<1>2. ASSUME NEW k \in 1..Len(s \o t)
      PROVE  \/ k \in 1..Len(s) /\ (s \o t)[k] = s[k]
             \/ k > Len(s) /\ k - Len(s) \in 1..Len(t) /\ (s \o t)[k] = t[k - Len(s)]
  BY <1>1
<1>3. ASSUME NEW i \in 1..Len(s \o t), NEW j \in 1..Len(s \o t), i < j
      PROVE  (s \o t)[i] < (s \o t)[j]
  <2>1. CASE i \in 1..Len(s) /\ (s \o t)[i] = s[i] /\ j \in 1..Len(s) /\ (s \o t)[j] = s[j]
    BY <1>3, <2>1 DEF Increasing
  <2>2. CASE /\ i > Len(s) /\ i - Len(s) \in 1..Len(t) /\ (s \o t)[i] = t[i - Len(s)]
             /\ j > Len(s) /\ j - Len(s) \in 1..Len(t) /\ (s \o t)[j] = t[j - Len(s)]
    <3>1. i - Len(s) < j - Len(s)
      BY <1>1, <1>3
    <3>2. QED
      BY <2>2, <3>1 DEF Increasing
  <2>3. CASE /\ i \in 1..Len(s) /\ (s \o t)[i] = s[i]
             /\ j > Len(s) /\ j - Len(s) \in 1..Len(t) /\ (s \o t)[j] = t[j - Len(s)]
    BY <2>3
  <2>4. QED
    BY <1>1, <1>2, <1>3, <2>1, <2>2, <2>3
<1>4. QED
  BY <1>2, <1>3 DEF Increasing

\* The numbers of an entry stay in order when its queue, or what it had, is dropped.
LEMMA NumbersKept ==
  ASSUME NEW old \in Entries, NEW new, inputs \in Nat, inputs' \in Nat, inputs' >= inputs, Numbers(old),
         new.applied = old.applied \/ new.applied = <<>>, new.queued = old.queued \/ new.queued = <<>>
  PROVE  Numbers(new)'
<1>1. old.applied \in CandidateSeq /\ old.queued \in CandidateSeq
  BY DEF Entries, CandidateSeq
<1>2. /\ \A i \in 1..Len(old.applied) : old.applied[i] \in Nat
      /\ \A i \in 1..Len(old.queued) : old.queued[i] \in Nat
  BY <1>1, Elements
<1>n. /\ Increasing(old.applied) /\ \A i \in 1..Len(old.applied) : old.applied[i] <= inputs'
      /\ Increasing(old.queued) /\ \A i \in 1..Len(old.queued) : old.queued[i] <= inputs'
  BY <1>2 DEF Numbers
<1>3. /\ Increasing(new.applied) /\ \A i \in 1..Len(new.applied) : new.applied[i] <= inputs'
  <2>1. CASE new.applied = old.applied
    BY <1>n, <2>1
  <2>2. CASE new.applied = <<>>
    <3>1. \A i : i \notin 1..Len(new.applied)
      BY <2>2
    <3>2. QED
      BY <3>1 DEF Increasing
  <2>3. QED
    BY <2>1, <2>2
<1>4. /\ Increasing(new.queued) /\ \A i \in 1..Len(new.queued) : new.queued[i] <= inputs'
  <2>1. CASE new.queued = old.queued
    BY <1>n, <2>1
  <2>2. CASE new.queued = <<>>
    <3>1. \A i : i \notin 1..Len(new.queued)
      BY <2>2
    <3>2. QED
      BY <3>1 DEF Increasing
  <2>3. QED
    BY <2>1, <2>2
<1>5. QED
  BY <1>3, <1>4 DEF Numbers, Increasing

LEMMA BeforeKept ==
  ASSUME NEW old, NEW new, Before(old),
         new.applied = old.applied \/ new.applied = <<>>, new.queued = old.queued \/ new.queued = <<>>
  PROVE  Before(new)
<1>1. Len(<<>>) = 0 /\ \A i : i \notin 1..0
  OBVIOUS
<1>2. QED
  BY <1>1 DEF Before

\* Steps that keep all candidates; Serve may go on.
LEMMA KeepsCandidates ==
  ASSUME TypeOK, Candidates, TypeOK', \A d \in ConnIds : Keeps(d), conns' = conns,
         inputs' >= inputs, \A d \in ConnIds : d > conns => callbacks'[d] = callbacks[d],
         \/ serve' = serve
         \/ /\ serve'.entry = serve.entry
            /\ \/ serve.at = "sending" /\ serve'.at = "draining"
               \/ serve.at = "idle" /\ serve'.at = "ended"
  PROVE  Candidates'
<1>1. Fresh'
  BY DEF Candidates, Fresh, Keeps
<1>2. Serving'
  BY DEF Candidates, Serving, Keeps, Kept, Working
<1>3. ASSUME NEW c \in ConnIds PROVE Numbers(pc[c])'
  <2>1. pc'[c].applied \in {pc[c].applied, <<>>} /\ pc'[c].queued = pc[c].queued
    BY DEF Keeps, Kept
  <2>2. inputs \in Nat /\ inputs' \in Nat
    BY DEF TypeOK
  <2>3. Numbers(pc[c]) /\ pc[c] \in Entries
    BY DEF Candidates, TypeOK
  <2>4. QED
    BY <2>1, <2>2, <2>3, NumbersKept DEF Numbers, Increasing
<1>4. ASSUME NEW c \in ConnIds, MayDrain(c)' PROVE Before(pc[c])'
  <2>1. pc'[c].applied \in {pc[c].applied, <<>>} /\ pc'[c].queued = pc[c].queued
    BY DEF Keeps, Kept
  <2>2. MayDrain(c)
    BY <1>4 DEF MayDrain, Keeps, Kept
  <2>3. Before(pc[c])
    BY <2>2 DEF Candidates, Ordered
  <2>4. QED
    BY <2>1, <2>3, BeforeKept DEF Before
<1>5. QED
  BY <1>1, <1>2, <1>3, <1>4 DEF Candidates, Ordered

\* A message finds the entry of the node, or makes it.
LEMMA GetEntryCandidates ==
  ASSUME TypeOK, Candidates, NEW kind \in SDPKinds, GetEntry(kind)
  PROVE  /\ TypeOK' /\ Candidates'
         /\ \A d \in ConnIds : pc'[d].sig = pc[d].sig
         /\ callbacks' = callbacks
         /\ \/ UNCHANGED <<store, conns, past>>
            \/ /\ store = None /\ conns' = conns + 1 /\ store' = conns' /\ conns' \in ConnIds
               /\ past' = [past EXCEPT ![conns'].older = {d \in 1..conns : Unfinished(d)}]
<1>1. PICK c \in ConnIds :
        /\ \/ store # None /\ c = store /\ UNCHANGED <<store, conns, past>>
           \/ /\ store = None /\ c = conns + 1 /\ store' = c /\ conns' = c
              /\ past' = [past EXCEPT ![c].older = {d \in 1..conns : Unfinished(d)}]
        /\ IF kind = "garbled" THEN UNCHANGED <<pc, serve>>
           ELSE /\ pc' = [pc EXCEPT ![c].offered = TRUE]
                /\ serve' = [at |-> "describing", entry |-> c, msg |-> kind]
  BY DEF GetEntry
<1>t. /\ pc \in [ConnIds -> Entries] /\ conns \in 0..MaxConns /\ store \in 0..conns
      /\ inputs \in 0..MaxInputs /\ MaxConns \in Nat /\ MaxInputs \in Nat /\ asked \in BOOLEAN
      /\ callbacks \in [ConnIds -> [CallbackSteps -> Nat]]
      /\ serve \in [at : ServeSteps, entry : 0..conns, msg : SDPKinds]
      /\ play \in [Plays -> [at : PlaySteps, entry : 0..conns]]
      /\ past \in [ConnIds -> Past]
      /\ serve.at = "idle" /\ callbacks' = callbacks /\ play' = play
  BY BoundsAssumption DEF TypeOK, ServeSteps, PlaySteps, Past, GetEntry
<1>c. c \in 1..MaxConns /\ ConnIds = 1..MaxConns /\ None = 0
  BY DEF ConnIds, None
<1>2. /\ conns' \in 0..MaxConns /\ conns' >= conns
      /\ store' \in 0..conns' /\ c <= conns' /\ c \in 0..conns'
      /\ \/ UNCHANGED <<store, conns, past>>
         \/ /\ store = None /\ conns' = conns + 1 /\ store' = conns' /\ conns' = c
            /\ past' = [past EXCEPT ![c].older = {d \in 1..conns : Unfinished(d)}]
  BY <1>1, <1>t, <1>c
<1>3. inputs' \in 0..MaxInputs /\ inputs' >= inputs
  BY <1>t DEF GetEntry
<1>4. asked' \in BOOLEAN
  BY DEF GetEntry
<1>5. /\ pc' \in [ConnIds -> Entries]
      /\ \A d \in ConnIds : /\ pc'[d].queued = pc[d].queued /\ pc'[d].applied = pc[d].applied
                            /\ pc'[d].described = pc[d].described /\ pc'[d].sig = pc[d].sig
                            /\ pc[d].offered => pc'[d].offered
                            /\ d # c => pc'[d] = pc[d]
      /\ kind # "garbled" => pc'[c].offered
  <2> DEFINE new == [pc[c] EXCEPT !.offered = TRUE]
  <2>1. /\ new \in Entries /\ new.queued = pc[c].queued /\ new.applied = pc[c].applied
        /\ new.described = pc[c].described /\ new.sig = pc[c].sig /\ new.offered
    <3>1. pc[c] \in Entries
      BY <1>t, <1>c
    <3>2. QED
      BY <3>1 DEF Entries
  <2>2. CASE kind = "garbled"
    BY <1>1, <1>t, <2>2
  <2>3. CASE kind # "garbled"
    <3>1. pc' = [pc EXCEPT ![c] = new]
      BY <1>1, <2>3
    <3> HIDE DEF new
    <3>2. QED
      BY <1>t, <1>c, <2>1, <3>1
  <2>4. QED
    BY <2>2, <2>3
<1>6. serve' \in [at : ServeSteps, entry : 0..conns', msg : SDPKinds]
  BY <1>1, <1>t, <1>2 DEF ServeSteps
<1>7. play' \in [Plays -> [at : PlaySteps, entry : 0..conns']]
  <2>1. 0..conns \subseteq 0..conns'
    BY <1>t, <1>2
  <2>2. QED
    BY <1>t, <2>1
<1>p. past' \in [ConnIds -> [older : SUBSET ConnIds, taker : 0..conns']]
  <2>1. 0..conns \subseteq 0..conns' /\ {d \in 1..conns : Unfinished(d)} \subseteq ConnIds
    BY <1>t, <1>c, <1>2
  <2>2. past \in [ConnIds -> [older : SUBSET ConnIds, taker : 0..conns']]
    BY <1>t, <2>1 DEF Past
  <2>3. CASE past' = past
    BY <2>2, <2>3
  <2>4. CASE past' = [past EXCEPT ![c].older = {d \in 1..conns : Unfinished(d)}]
    <3> DEFINE older == {d \in 1..conns : Unfinished(d)}
    <3>1. older \in SUBSET ConnIds /\ past' = [past EXCEPT ![c].older = older]
      BY <2>1, <2>4
    <3> HIDE DEF older
    <3>2. QED
      BY <2>2, <3>1
  <2>5. QED
    BY <1>2, <2>3, <2>4
<1>8. TypeOK'
  BY <1>t, <1>2, <1>3, <1>4, <1>5, <1>6, <1>7, <1>p DEF TypeOK, ServeSteps, PlaySteps
<1>9. Fresh'
  BY <1>t, <1>c, <1>2, <1>5 DEF Candidates, Fresh
<1>10. Serving' /\ Ordered'
  <2>1. /\ serve'.at \in Working => serve'.entry = c /\ kind # "garbled"
        /\ serve'.at \in {"idle", "describing"}
    BY <1>1, <1>t DEF Working
  <2>2. ~\E d \in ConnIds : /\ pc[d].described /\ pc[d].sig \notin {"closed", "have-remote-offer"}
                            /\ pc[d].queued # <<>>
    BY <1>t DEF Candidates, Serving
  <2>3. Serving'
    BY <1>5, <2>1, <2>2 DEF Candidates, Serving
  <2>4. ASSUME NEW d \in ConnIds, MayDrain(d)' PROVE Before(pc[d])'
    <3>1. MayDrain(d)
      BY <1>5, <2>1, <2>4 DEF MayDrain
    <3>2. QED
      BY <1>5, <3>1 DEF Candidates, Ordered, Before
  <2>5. QED
    BY <2>3, <2>4 DEF Ordered
<1>11. ASSUME NEW d \in ConnIds PROVE Numbers(pc[d])'
  <2>1. /\ pc[d].applied \in CandidateSeq /\ pc[d].queued \in CandidateSeq
        /\ inputs \in Nat /\ inputs' \in Nat
    BY <1>t, <1>3 DEF Entries, CandidateSeq
  <2>2. pc[d] \in Entries /\ Numbers(pc[d])
    BY <1>t DEF Candidates
  <2>3. pc'[d].queued = pc[d].queued /\ pc'[d].applied = pc[d].applied
    BY <1>5
  <2>4. QED
    BY <1>3, <2>1, <2>2, <2>3, NumbersKept DEF Numbers, Increasing
<1>12. QED
  BY <1>t, <1>c, <1>2, <1>5, <1>8, <1>9, <1>10, <1>11 DEF Candidates

\* Serve is done with a message, and has changed nothing.
LEMMA IdleCandidates ==
  ASSUME Candidates, serve' = Idle, serve.at \in {"describing", "answering"},
         UNCHANGED <<pc, conns, callbacks, inputs>>
  PROVE  Candidates'
<1>1. serve'.at = "idle"
  BY DEF Idle
<1>2. Fresh' /\ \A c \in ConnIds : Numbers(pc[c])'
  BY DEF Candidates, Fresh, Numbers, Increasing
<1>3. Serving'
  BY <1>1 DEF Candidates, Serving, Working
<1>4. Ordered'
  BY <1>1 DEF Candidates, Ordered, MayDrain, Before
<1>5. QED
  BY <1>2, <1>3, <1>4 DEF Candidates

\* A description is taken by a connection that had an offer; its queue is
\* Serve's from now on.
LEMMA DescribeCandidates ==
  ASSUME TypeOK, Candidates, Describe
  PROVE  /\ TypeOK' /\ Candidates' /\ UNCHANGED <<store, conns, callbacks, past>>
         /\ \A d \in ConnIds : pc[d].sig = "closed" => pc'[d].sig = "closed"
<1> DEFINE e == serve.entry
           kind == serve.msg
           sig == IF kind = "answer" THEN "stable" ELSE "have-remote-offer"
           queued == IF kind = "restart" THEN <<>> ELSE pc[e].queued
           new == [pc[e] EXCEPT !.described = TRUE, !.sig = sig, !.queued = queued]
<1>t. /\ pc \in [ConnIds -> Entries] /\ conns \in 0..MaxConns /\ MaxConns \in Nat
      /\ serve \in [at : ServeSteps, entry : 0..conns, msg : SDPKinds]
      /\ e \in ConnIds /\ pc[e] \in Entries /\ pc[e].offered /\ e <= conns /\ serve.at = "describing"
      /\ UNCHANGED <<store, conns, callbacks, play, asked, inputs, past>>
  BY BoundsAssumption DEF TypeOK, ServeSteps, Describe, Candidates, Serving, Working
<1>1. CASE UNCHANGED pc /\ serve' = Idle
  <2>1. TypeOK'
    BY <1>t, <1>1 DEF TypeOK, Idle, None, SDPKinds
  <2>2. Candidates'
    BY <1>t, <1>1, IdleCandidates
  <2>3. QED
    BY <1>t, <1>1, <2>1, <2>2
<1>2. CASE /\ MaySetRemote(e, kind) /\ Open(e) /\ pc' = [pc EXCEPT ![e] = new]
           /\ serve' = [serve EXCEPT !.at = IF kind = "answer" THEN "draining" ELSE "answering"]
  <2>1. new \in Entries /\ new.described /\ new.offered /\ new.applied = pc[e].applied
        /\ new.queued \in {<<>>, pc[e].queued}
    <3>1. queued \in CandidateSeq /\ queued \in {<<>>, pc[e].queued}
      BY <1>t, EmptySeq DEF Entries, CandidateSeq
    <3>2. sig \in {"stable", "have-remote-offer"}
      OBVIOUS
    <3> HIDE DEF e, sig, queued
    <3>3. QED
      BY <1>t, <3>1, <3>2 DEF Entries, CandidateSeq
  <2>2. pc[e].sig # "closed"
    BY <1>2 DEF Open
  <2> HIDE DEF new
  <2>3. pc' \in [ConnIds -> Entries] /\ pc'[e] = new /\ \A d \in ConnIds \ {e} : pc'[d] = pc[d]
    BY <1>t, <1>2, <2>1
  <2>4. serve'.entry = e /\ serve'.at \in {"answering", "draining"} /\ serve'.msg = serve.msg
        /\ serve' \in [at : ServeSteps, entry : 0..conns, msg : SDPKinds]
    BY <1>t, <1>2 DEF ServeSteps
  <2>5. TypeOK'
    BY <1>t, <2>3, <2>4 DEF TypeOK, ServeSteps
  <2>6. Fresh'
    BY <1>t, <2>3, IdsAreNat DEF Candidates, Fresh
  <2>7. Serving' /\ Ordered'
    <3>1. new.sig = sig /\ (serve'.at = "draining" => sig = "stable")
          /\ (serve'.at = "answering" => sig = "have-remote-offer")
      <4>1. pc[e] \in Entries /\ kind \in SDPKinds
        BY <1>t
      <4>2. new.sig = sig
        <5> HIDE DEF e, sig, queued
        <5> QED
          BY <4>1 DEF new, Entries
      <4>3. QED
        BY <1>t, <1>2, <4>2 DEF ServeSteps
    <3>2. Serving'
      BY <1>t, <2>1, <2>3, <2>4, <3>1 DEF Candidates, Serving, Working
    <3>3. MayDrain(e)
      BY <1>t, <1>2 DEF MayDrain, MaySetRemote
    <3>4. ASSUME NEW d \in ConnIds, MayDrain(d)' PROVE Before(pc[d])'
      <4>1. MayDrain(d)
        BY <1>t, <2>3, <2>4, <3>3, <3>4 DEF MayDrain
      <4>2. Before(pc[d])
        BY <4>1 DEF Candidates, Ordered
      <4>3. pc'[d].applied = pc[d].applied /\ pc'[d].queued \in {<<>>, pc[d].queued}
        BY <2>1, <2>3
      <4>4. QED
        BY <4>2, <4>3, BeforeKept DEF Before
    <3>5. QED
      BY <3>2, <3>4 DEF Ordered
  <2>8. ASSUME NEW d \in ConnIds PROVE Numbers(pc[d])'
    <3>1. inputs \in Nat /\ inputs' = inputs /\ Numbers(pc[d]) /\ pc[d] \in Entries
      BY <1>t DEF TypeOK, Candidates
    <3>2. pc'[d].applied = pc[d].applied /\ pc'[d].queued \in {<<>>, pc[d].queued}
      BY <2>1, <2>3
    <3>3. QED
      BY <3>1, <3>2, NumbersKept DEF Numbers, Increasing
  <2>9. QED
    BY <1>t, <2>1, <2>2, <2>3, <2>5, <2>6, <2>7, <2>8 DEF Candidates
<1>3. QED
  <2>1. MaySetRemote(e, kind) => Open(e)
    BY DEF MaySetRemote
  <2>2. QED
    BY <1>1, <1>2, <2>1 DEF Describe

\* The answer is set, or fails, upon which Serve is done.
LEMMA AnswerCandidates ==
  ASSUME TypeOK, Candidates, Answer
  PROVE  /\ TypeOK' /\ Candidates' /\ UNCHANGED <<store, conns, callbacks, past>>
         /\ \A d \in ConnIds : pc[d].sig = "closed" => pc'[d].sig = "closed"
<1> DEFINE e == serve.entry
           new == [pc[e] EXCEPT !.sig = "stable"]
<1>t. /\ pc \in [ConnIds -> Entries] /\ conns \in 0..MaxConns /\ MaxConns \in Nat
      /\ serve \in [at : ServeSteps, entry : 0..conns, msg : SDPKinds]
      /\ e \in ConnIds /\ pc[e] \in Entries /\ e <= conns /\ serve.at = "answering"
      /\ UNCHANGED <<store, conns, callbacks, play, asked, inputs, past>>
  BY BoundsAssumption DEF TypeOK, ServeSteps, Answer, Candidates, Serving, Working
<1>1. CASE UNCHANGED pc /\ serve' = Idle
  <2>1. TypeOK'
    BY <1>t, <1>1 DEF TypeOK, Idle, None, SDPKinds
  <2>2. QED
    BY <1>t, <1>1, <2>1, IdleCandidates
<1>2. CASE Open(e) /\ pc' = [pc EXCEPT ![e] = new] /\ serve' = [serve EXCEPT !.at = "sending"]
  <2>1. /\ new \in Entries /\ new.sig = "stable" /\ new.applied = pc[e].applied
        /\ new.queued = pc[e].queued /\ new.described = pc[e].described
        /\ new.offered = pc[e].offered
    <3> HIDE DEF e
    <3> QED
      BY <1>t DEF Entries
  <2>2. pc[e].sig # "closed"
    BY <1>2 DEF Open
  <2> HIDE DEF new
  <2>3. pc' \in [ConnIds -> Entries] /\ pc'[e] = new /\ \A d \in ConnIds \ {e} : pc'[d] = pc[d]
    BY <1>t, <1>2, <2>1
  <2>4. serve'.entry = e /\ serve'.at = "sending"
        /\ serve' \in [at : ServeSteps, entry : 0..conns, msg : SDPKinds]
    BY <1>t, <1>2 DEF ServeSteps
  <2>5. TypeOK'
    BY <1>t, <2>3, <2>4 DEF TypeOK, ServeSteps
  <2>6. Fresh'
    BY <1>t, <2>3, IdsAreNat DEF Candidates, Fresh
  <2>7. Serving'
    BY <1>t, <2>1, <2>3, <2>4 DEF Candidates, Serving, Working
  <2>8. ASSUME NEW d \in ConnIds PROVE Numbers(pc[d])'
    BY <1>t, <2>1, <2>3 DEF Candidates, Numbers, Increasing
  <2>9. ASSUME NEW d \in ConnIds, MayDrain(d)' PROVE Before(pc[d])'
    <3>1. MayDrain(d)
      BY <1>t, <2>2, <2>3, <2>4, <2>9 DEF MayDrain
    <3>2. QED
      BY <2>1, <2>3, <3>1 DEF Candidates, Ordered, Before
  <2>10. QED
    BY <1>t, <2>2, <2>3, <2>5, <2>6, <2>7, <2>8, <2>9 DEF Candidates, Ordered
<1>3. QED
  BY <1>1, <1>2 DEF Answer

\* Serve drains the queue of the connection it works on.
LEMMA DrainCandidates ==
  ASSUME TypeOK, Candidates, Drain
  PROVE  /\ TypeOK' /\ Candidates' /\ UNCHANGED <<store, conns, callbacks, past>>
         /\ \A d \in ConnIds : pc[d].sig = "closed" => pc'[d].sig = "closed"
<1> DEFINE e == serve.entry
           new == [Add(pc[e], pc[e].queued) EXCEPT !.queued = <<>>]
<1>t. /\ pc \in [ConnIds -> Entries] /\ conns \in 0..MaxConns /\ MaxConns \in Nat
      /\ serve \in [at : ServeSteps, entry : 0..conns, msg : SDPKinds]
      /\ e \in ConnIds /\ pc[e] \in Entries /\ e <= conns /\ serve.at = "draining"
      /\ inputs \in Nat /\ Numbers(pc[e])
      /\ UNCHANGED <<store, conns, callbacks, play, asked, inputs, past>>
  BY BoundsAssumption DEF TypeOK, ServeSteps, Drain, Candidates, Serving, Working
<1>1. pc[e].queued \in CandidateSeq /\ pc[e].applied \in CandidateSeq
  BY <1>t DEF Entries, CandidateSeq
<1>2. /\ Add(pc[e], pc[e].queued) \in Entries
      /\ \/ Add(pc[e], pc[e].queued).applied = pc[e].applied
         \/ /\ Add(pc[e], pc[e].queued).applied = pc[e].applied \o pc[e].queued
            /\ pc[e].sig # "closed"
      /\ Add(pc[e], pc[e].queued).sig = pc[e].sig
      /\ Add(pc[e], pc[e].queued).described = pc[e].described
      /\ Add(pc[e], pc[e].queued).offered = pc[e].offered
  <2> HIDE DEF e
  <2> DEFINE added == Add(pc[e], pc[e].queued)
             joined == pc[e].applied \o pc[e].queued
  <2>1. /\ added \in Entries
        /\ added = pc[e] \/ (added = [pc[e] EXCEPT !.applied = joined] /\ pc[e].sig # "closed")
    BY <1>t, <1>1, AddTypes
  <2> HIDE DEF added, joined
  <2>2. /\ added.applied = pc[e].applied \/ (added.applied = joined /\ pc[e].sig # "closed")
        /\ added.sig = pc[e].sig
        /\ added.described = pc[e].described /\ added.offered = pc[e].offered
    BY <1>t, <2>1 DEF Entries
  <2>3. QED
    BY <2>1, <2>2 DEF added, joined
<1>3. /\ new \in Entries
      /\ \/ new.applied = pc[e].applied
         \/ new.applied = pc[e].applied \o pc[e].queued /\ pc[e].sig # "closed"
      /\ new.queued = <<>> /\ new.sig = pc[e].sig /\ new.described = pc[e].described
      /\ new.offered = pc[e].offered
  <2>1. <<>> \in CandidateSeq
    BY EmptySeq DEF CandidateSeq
  <2> DEFINE added == Add(pc[e], pc[e].queued)
  <2> HIDE DEF e, added
  <2>2. new = [added EXCEPT !.queued = <<>>]
    BY DEF added
  <2>3. QED
    BY <1>2, <2>1, <2>2 DEF Entries, CandidateSeq, added
<1>4. pc' = [pc EXCEPT ![e] = new] /\ serve' = Idle
  BY DEF Drain
<1> HIDE DEF new
<1>5. pc' \in [ConnIds -> Entries] /\ pc'[e] = new /\ \A d \in ConnIds \ {e} : pc'[d] = pc[d]
  BY <1>t, <1>3, <1>4
<1>6. TypeOK'
  BY <1>t, <1>4, <1>5 DEF TypeOK, Idle, None, SDPKinds
<1>7. Fresh'
  BY <1>t, <1>5, IdsAreNat DEF Candidates, Fresh
<1>8. Serving' /\ Ordered'
  <2>1. serve'.at = "idle"
    BY <1>4 DEF Idle
  <2>2. Serving'
    BY <1>t, <1>3, <1>5, <2>1 DEF Candidates, Serving, Working
  <2>3. ASSUME NEW d \in ConnIds, MayDrain(d)' PROVE Before(pc[d])'
    <3>1. CASE d = e
      <4>1. pc'[d].queued = <<>> /\ Len(<<>>) = 0 /\ \A i : i \notin 1..0
        BY <1>3, <1>5, <3>1
      <4>2. QED
        BY <4>1 DEF Before
    <3>2. CASE d # e
      <4>1. pc'[d] = pc[d] /\ MayDrain(d)
        BY <1>5, <2>1, <2>3, <3>2 DEF MayDrain
      <4>2. QED
        BY <4>1 DEF Candidates, Ordered, Before
    <3>3. QED
      BY <3>1, <3>2
  <2>4. QED
    BY <2>2, <2>3 DEF Ordered
<1>9. ASSUME NEW d \in ConnIds PROVE Numbers(pc[d])'
  <2>1. CASE d # e \/ new.applied = pc[e].applied
    <3>1. Numbers(pc[d]) /\ pc[d] \in Entries /\ inputs' = inputs
      BY <1>t DEF Candidates
    <3>2. pc'[d].applied = pc[d].applied /\ pc'[d].queued \in {<<>>, pc[d].queued}
      BY <1>3, <1>5, <2>1
    <3>3. QED
      BY <1>t, <3>1, <3>2, NumbersKept DEF Numbers, Increasing
  <2>2. CASE d = e /\ new.applied = pc[e].applied \o pc[e].queued /\ pc[e].sig # "closed"
    <3> DEFINE a == pc[e].applied
               q == pc[e].queued
    <3>1. Increasing(a) /\ Increasing(q) /\ \A i \in 1..Len(a), j \in 1..Len(q) : a[i] < q[j]
      <4>1. MayDrain(e)
        BY <1>t, <2>2 DEF MayDrain, Candidates, Serving
      <4>2. QED
        BY <1>t, <4>1 DEF Numbers, Candidates, Ordered, Before
    <3>2. /\ \A i \in 1..Len(a) : a[i] <= inputs
          /\ \A i \in 1..Len(q) : q[i] <= inputs
      BY <1>t DEF Numbers
    <3>3. /\ Increasing(a \o q)
          /\ \A k \in 1..Len(a \o q) : (\E i \in 1..Len(a) : (a \o q)[k] = a[i])
                                       \/ \E j \in 1..Len(q) : (a \o q)[k] = q[j]
      <4> HIDE DEF a, q
      <4> QED
        BY <1>1, <3>1, IncreasingConcat DEF a, q
    <3>4. \A k \in 1..Len(a \o q) : (a \o q)[k] <= inputs
      BY <3>2, <3>3
    <3>5. pc'[d].applied = a \o q /\ pc'[d].queued = <<>>
      BY <1>3, <1>5, <2>2
    <3>6. \A i : i \notin 1..Len(pc'[d].queued)
      BY <3>5
    <3>7. QED
      <4> HIDE DEF a, q
      <4> QED
        BY <1>t, <3>3, <3>4, <3>5, <3>6 DEF Numbers, Increasing
  <2>3. QED
    BY <1>3, <2>1, <2>2
<1>10. QED
  BY <1>t, <1>3, <1>5, <1>6, <1>7, <1>8, <1>9 DEF Candidates

\* A candidate is the newest; where it is applied the queue is empty.
LEMMA HandleCandidates ==
  ASSUME TypeOK, Candidates, HandleCandidate
  PROVE  /\ TypeOK' /\ Candidates' /\ UNCHANGED <<store, conns, callbacks, past>>
         /\ \A d \in ConnIds : pc[d].sig = "closed" => pc'[d].sig = "closed"
<1> DEFINE n == inputs + 1
<1>t. /\ pc \in [ConnIds -> Entries] /\ conns \in 0..MaxConns /\ store \in 0..conns
      /\ MaxConns \in Nat /\ MaxInputs \in Nat /\ inputs \in Nat /\ inputs < MaxInputs
      /\ inputs' = n /\ n \in 1..MaxInputs /\ serve.at = "idle"
      /\ UNCHANGED <<store, conns, callbacks, serve, play, asked, past>>
  BY BoundsAssumption DEF TypeOK, HandleCandidate
<1>1. CASE UNCHANGED pc
  <2>1. \A d \in ConnIds : Keeps(d)
    BY <1>1, <1>t, Unchanged
  <2>2. TypeOK'
    BY <1>t, <1>1 DEF TypeOK
  <2>3. QED
    BY <1>t, <1>1, <2>1, <2>2, KeepsCandidates
<1>2. CASE store # None
  <2> DEFINE e == store
             old == pc[store]
             a == old.applied
             q == old.queued
  <2>1. e \in ConnIds /\ e <= conns /\ old \in Entries /\ Numbers(old)
        /\ a \in CandidateSeq /\ q \in CandidateSeq /\ <<n>> \in CandidateSeq
    BY <1>t, <1>2 DEF None, ConnIds, Entries, Candidates, CandidateSeq
  <2>2. PICK new \in Entries :
          /\ pc' = [pc EXCEPT ![e] = new]
          /\ new.described = old.described /\ new.sig = old.sig /\ new.offered = old.offered
          /\ \/ new = old
             \/ new.applied = a \o <<n>> /\ new.queued = q /\ old.described /\ old.sig # "closed"
             \/ new.applied = a /\ new.queued = Append(q, n) /\ ~old.offered
    <3>1. CASE old.offered
      <4> DEFINE new == Add(old, <<n>>)
      <4>1. new \in Entries /\ (new = old \/ (old.described /\ old.sig # "closed"
                                              /\ new = [old EXCEPT !.applied = a \o <<n>>]))
        BY <2>1, AddTypes
      <4>2. pc' = [pc EXCEPT ![e] = new]
        BY <1>t, <1>2, <3>1 DEF HandleCandidate
      <4> HIDE DEF new, old
      <4>3. \/ new = old
            \/ /\ new.applied = a \o <<n>> /\ new.queued = q /\ old.described /\ old.sig # "closed"
               /\ new.described = old.described /\ new.sig = old.sig /\ new.offered = old.offered
        BY <2>1, <4>1 DEF Entries
      <4>4. QED
        BY <4>1, <4>2, <4>3
    <3>2. CASE ~old.offered
      <4> DEFINE new == [old EXCEPT !.queued = Append(q, n)]
      <4>1. Append(q, n) \in CandidateSeq
        BY <1>t, <2>1, AppendProperties DEF CandidateSeq
      <4>2. pc' = [pc EXCEPT ![e] = new]
        BY <1>t, <1>2, <3>2 DEF HandleCandidate
      <4> HIDE DEF old
      <4>3. /\ new \in Entries /\ new.applied = a /\ new.queued = Append(q, n)
            /\ new.described = old.described /\ new.sig = old.sig /\ new.offered = old.offered
        BY <2>1, <4>1 DEF Entries, CandidateSeq
      <4> HIDE DEF new
      <4>4. QED
        BY <3>2, <4>2, <4>3
    <3>3. QED
      BY <3>1, <3>2
  <2>3. pc' \in [ConnIds -> Entries] /\ pc'[e] = new /\ \A d \in ConnIds \ {e} : pc'[d] = pc[d]
    BY <1>t, <2>1, <2>2
  <2>4. TypeOK'
    BY <1>t, <2>3 DEF TypeOK
  <2>5. Fresh'
    <3>1. UNCHANGED <<conns, callbacks>> /\ ~(e > conns)
      BY <1>t, <2>1, IdsAreNat
    <3>2. \A d \in ConnIds : d > conns => pc'[d] = pc[d]
      BY <2>3, <3>1
    <3>3. QED
      BY <3>1, <3>2 DEF Candidates, Fresh
  <2>6. ~\E d \in ConnIds : /\ pc[d].described /\ pc[d].sig \notin {"closed", "have-remote-offer"}
                            /\ pc[d].queued # <<>>
    BY <1>t DEF Candidates, Serving
  <2>7. Serving'
    BY <1>t, <2>1, <2>2, <2>3, <2>6 DEF Candidates, Serving, Working
  <2>8. /\ Increasing(a) /\ Increasing(q)
        /\ \A i \in 1..Len(a) : a[i] <= inputs /\ a[i] < n /\ a[i] <= n
        /\ \A i \in 1..Len(q) : q[i] <= inputs /\ q[i] < n /\ q[i] <= n
    <3>1. /\ \A i \in 1..Len(a) : a[i] \in Nat
          /\ \A i \in 1..Len(q) : q[i] \in Nat
      BY <2>1, Elements
    <3>2. QED
      BY <1>t, <2>1, <3>1 DEF Numbers
  <2>9. Len(<<n>>) = 1 /\ <<n>>[1] = n /\ Increasing(<<n>>)
    BY DEF Increasing
  <2>10. ASSUME NEW d \in ConnIds PROVE Numbers(pc[d])'
    <3>1. CASE d # e \/ new = old
      <4>1. Numbers(pc[d]) /\ pc[d] \in Entries
        BY <1>t DEF Candidates
      <4>2. pc'[d] = pc[d]
        BY <2>3, <3>1
      <4>3. inputs' \in Nat /\ inputs' >= inputs
        BY <1>t
      <4>4. QED
        BY <1>t, <4>1, <4>2, <4>3, NumbersKept DEF Numbers, Increasing
    <3>2. CASE d = e /\ new.applied = a \o <<n>> /\ new.queued = q /\ old.described /\ old.sig # "closed"
      <4>2. /\ Increasing(a \o <<n>>)
            /\ \A k \in 1..Len(a \o <<n>>) : (\E i \in 1..Len(a) : (a \o <<n>>)[k] = a[i])
                                             \/ \E j \in 1..Len(<<n>>) : (a \o <<n>>)[k] = <<n>>[j]
        <5>1. \A i \in 1..Len(a), j \in 1..Len(<<n>>) : a[i] < <<n>>[j]
          BY <2>8, <2>9
        <5> HIDE DEF a, n
        <5>2. QED
          BY <2>1, <2>8, <2>9, <5>1, IncreasingConcat
      <4>3. \A k \in 1..Len(a \o <<n>>) : (a \o <<n>>)[k] <= n
        BY <1>t, <2>8, <2>9, <4>2
      <4>4. pc'[d].applied = a \o <<n>> /\ pc'[d].queued = q
        BY <2>3, <3>2
      <4> HIDE DEF a, q, n
      <4>5. QED
        BY <1>t, <2>8, <4>2, <4>3, <4>4 DEF Numbers, Increasing
    <3>3. CASE d = e /\ new.applied = a /\ new.queued = Append(q, n)
      <4>1. /\ Len(Append(q, n)) = Len(q) + 1 /\ Len(q) \in Nat
            /\ \A i \in 1..Len(q) : Append(q, n)[i] = q[i]
            /\ Append(q, n)[Len(q) + 1] = n
        BY <1>t, <2>1, AppendProperties, LenProperties DEF CandidateSeq
      <4>2. pc'[d].applied = a /\ pc'[d].queued = Append(q, n)
        BY <2>3, <3>3
      <4> DEFINE r == Append(q, n)
      <4> HIDE DEF r
      <4>3. \A i \in 1..Len(r) : \/ i \in 1..Len(q) /\ r[i] = q[i]
                                 \/ i = Len(q) + 1 /\ r[i] = n
        BY <4>1 DEF r
      <4>4. Increasing(r)
        <5> SUFFICES ASSUME NEW i \in 1..Len(r), NEW j \in 1..Len(r), i < j PROVE r[i] < r[j]
          BY DEF Increasing
        <5>1. i \in 1..Len(q) /\ r[i] = q[i]
          BY <4>1, <4>3 DEF r
        <5>2. CASE j \in 1..Len(q) /\ r[j] = q[j]
          BY <2>8, <5>1, <5>2 DEF Increasing
        <5>3. CASE r[j] = n
          BY <2>8, <5>1, <5>3
        <5>4. QED
          BY <4>3, <5>2, <5>3
      <4>6. \A i \in 1..Len(r) : r[i] <= n
        BY <1>t, <2>8, <4>3
      <4>7. QED
        <5> HIDE DEF a, q, n
        <5> QED
          BY <1>t, <2>8, <4>2, <4>4, <4>6 DEF Numbers, Increasing, r
    <3>4. QED
      BY <2>2, <3>1, <3>2, <3>3
  <2>11. ASSUME NEW d \in ConnIds, MayDrain(d)' PROVE Before(pc[d])'
    <3>1. pc'[d].sig = pc[d].sig /\ serve' = serve
      BY <1>t, <2>1, <2>2, <2>3
    <3>2. Before(pc[d]) /\ pc[d].sig \notin {"closed", "have-remote-offer"}
      BY <1>t, <2>11, <3>1 DEF MayDrain, Candidates, Ordered
    <3>3. CASE d # e \/ new = old
      BY <2>3, <3>2, <3>3 DEF Before
    <3>4. CASE d = e /\ new.applied = a \o <<n>> /\ new.queued = q /\ old.described
      <4>1. pc'[d].queued = <<>> /\ Len(<<>>) = 0 /\ \A i : i \notin 1..0
        BY <2>1, <2>3, <2>6, <3>2, <3>4
      <4>2. QED
        BY <4>1 DEF Before
    <3>5. CASE d = e /\ new.applied = a /\ new.queued = Append(q, n)
      <4>1. /\ Len(Append(q, n)) = Len(q) + 1 /\ Len(q) \in Nat
            /\ \A i \in 1..Len(q) : Append(q, n)[i] = q[i]
            /\ Append(q, n)[Len(q) + 1] = n
        BY <1>t, <2>1, AppendProperties, LenProperties DEF CandidateSeq
      <4>2. pc'[d].applied = a /\ pc'[d].queued = Append(q, n)
        BY <2>3, <3>5
      <4>3. \A i \in 1..Len(a), j \in 1..Len(q) : a[i] < q[j]
        BY <3>2, <3>5 DEF Before
      <4> DEFINE r == Append(q, n)
      <4> HIDE DEF r
      <4>4. \A i \in 1..Len(r) : \/ i \in 1..Len(q) /\ r[i] = q[i]
                                 \/ r[i] = n
        BY <4>1 DEF r
      <4>5. \A i \in 1..Len(a), j \in 1..Len(r) : a[i] < r[j]
        BY <2>8, <4>3, <4>4
      <4>6. QED
        <5> HIDE DEF a, q, n
        <5> QED
          BY <4>2, <4>5 DEF Before, r
    <3>6. QED
      BY <2>2, <3>3, <3>4, <3>5
  <2>12. QED
    BY <1>t, <2>1, <2>2, <2>3, <2>4, <2>5, <2>7, <2>10, <2>11 DEF Candidates, Ordered
<1>3. QED
  BY <1>1, <1>2 DEF HandleCandidate

------------------------------------------------------------------------------
(* The entry of the store.                                                 *)

\* Whoever forgets the entry for good has a closed connection; and a connection
\* that is not done, and is older than another, was not done when that was made.
Orphans ==
  /\ OrphansExplained
  /\ \A c \in ConnIds : At(c, "forgetting") => pc[c].sig = "closed"
  /\ \A c \in 1..conns : \A d \in 1..(c - 1) : Unfinished(d) => d \in past[c].older

LEMMA InitOrphans == Init => Orphans
<1> SUFFICES ASSUME Init PROVE Orphans
  OBVIOUS
<1>1. store = None /\ (\A c \in ConnIds : ~Open(c)) /\ \A c : c \notin 1..conns
  BY BoundsAssumption DEF Init, Open, Made, ConnIds
<1>2. \A c \in ConnIds : ~At(c, "forgetting")
  BY DEF Init, At, CallbackSteps
<1>3. QED
  BY <1>1, <1>2 DEF Orphans, OrphansExplained

\* The connection d, with a callback, takes the entry for its own.
TakenBy(d) ==
  /\ store' = None /\ conns' = conns /\ Takes(d)
  /\ d <= conns /\ Unfinished(d) /\ (At(d, "closing")' \/ pc'[d].sig = "closed")

\* The store keeps its entry, or loses it to a callback of a connection that
\* ends, or gets the newest connection.
LEMMA OrphansKept ==
  ASSUME TypeOK, Orphans, conns' \in Nat, conns' >= conns,
         \A d \in ConnIds : pc[d].sig = "closed" => pc'[d].sig = "closed",
         \A d \in ConnIds : d <= conns /\ At(d, "closing") => At(d, "closing")' \/ pc'[d].sig = "closed",
         \A d \in ConnIds : At(d, "forgetting")' => At(d, "forgetting") \/ pc'[d].sig = "closed",
         \A d \in ConnIds : d <= conns /\ Unfinished(d)' => Unfinished(d),
         \/ UNCHANGED <<store, conns, past>>
         \/ /\ store = None /\ conns' = conns + 1 /\ store' = conns' /\ conns' \in ConnIds
            /\ past' = [past EXCEPT ![conns'].older = {d \in 1..conns : Unfinished(d)}]
         \/ \E d \in ConnIds : TakenBy(d)
  PROVE  Orphans'
<1>t. /\ conns \in 0..MaxConns /\ store \in 0..conns /\ None = 0
      /\ ConnIds = 1..MaxConns /\ MaxConns \in Nat /\ past \in [ConnIds -> Past]
  BY BoundsAssumption DEF TypeOK, None, ConnIds, Past
<1>1. store' \in {None, conns'}
  BY DEF Orphans, OrphansExplained, TakenBy
<1>2. \A c \in ConnIds : At(c, "forgetting")' => pc'[c].sig = "closed"
  BY DEF Orphans
<1>3. ASSUME NEW c \in 1..conns', NEW d \in 1..(c - 1), Unfinished(d)' PROVE d \in past'[c].older
  <2>1. d \in 1..conns /\ d \in ConnIds
    BY <1>t DEF TakenBy
  <2>2. Unfinished(d)
    BY <1>t, <1>3, <2>1
  <2>3. CASE c \in 1..conns
    <3>1. d \in past[c].older /\ c \in ConnIds
      BY <1>t, <2>2, <2>3 DEF Orphans
    <3>2. CASE UNCHANGED past
      BY <3>1, <3>2
    <3>3. CASE conns' = conns + 1 /\ past' = [past EXCEPT ![conns'].older = {x \in 1..conns : Unfinished(x)}]
      <4>1. c # conns'
        BY <1>t, <2>3, <3>3
      <4>2. past'[c] = past[c]
        BY <1>t, <3>1, <3>3, <4>1
      <4>3. QED
        BY <3>1, <4>2
    <3>4. CASE \E x \in ConnIds : TakenBy(x)
      <4>1. PICK x \in ConnIds : past' = past \/ past' = [past EXCEPT ![store].taker = x]
        BY <3>4 DEF TakenBy, Takes
      <4>2. past'[c].older = past[c].older
        <5>1. past[c] \in Past /\ past'[c] \in {past[c], [past[c] EXCEPT !.taker = x]}
          BY <1>t, <3>1, <4>1
        <5>2. QED
          BY <5>1 DEF Past
      <4>3. QED
        BY <3>1, <4>2
    <3>5. QED
      BY <3>2, <3>3, <3>4
  <2>4. CASE c \notin 1..conns
    <3>1. /\ c = conns' /\ conns' \in ConnIds
          /\ past' = [past EXCEPT ![conns'].older = {x \in 1..conns : Unfinished(x)}]
      BY <1>t, <2>4 DEF TakenBy
    <3>2. past'[c].older = {x \in 1..conns : Unfinished(x)}
      BY <1>t, <3>1 DEF Past
    <3>3. QED
      BY <2>1, <2>2, <3>2
  <2>5. QED
    BY <2>3, <2>4
<1>4. ASSUME NEW c \in ConnIds, Open(c)', store' # c
      PROVE  At(c, "closing")' \/ past'[c].taker \in past'[c].older
  <2>1. c <= conns' /\ pc'[c].sig # "closed"
    BY <1>4 DEF Open, Made
  <2>2. CASE c <= conns /\ store # c
    <3>1. Open(c)
      BY <1>t, <2>1, <2>2 DEF Open, Made
    <3>2. At(c, "closing") \/ past[c].taker \in past[c].older
      BY <2>2, <3>1 DEF Orphans, OrphansExplained
    <3>3. CASE At(c, "closing")
      BY <2>1, <2>2, <3>3
    <3>4. CASE past[c].taker \in past[c].older
      <4>1. past'[c] = past[c]
        <5>1. CASE UNCHANGED past
          BY <5>1
        <5>2. CASE conns' = conns + 1 /\ past' = [past EXCEPT ![conns'].older = {x \in 1..conns : Unfinished(x)}]
          <6>1. c # conns'
            BY <1>t, <2>2, <5>2
          <6>2. QED
            BY <1>t, <5>2, <6>1
        <5>3. CASE \E x \in ConnIds : TakenBy(x)
          <6>1. PICK x \in ConnIds : past' = past \/ past' = [past EXCEPT ![store].taker = x]
            BY <5>3 DEF TakenBy, Takes
          <6>2. QED
            BY <1>t, <2>2, <6>1
        <5>4. QED
          BY <5>1, <5>2, <5>3
      <4>2. QED
        BY <3>4, <4>1
    <3>5. QED
      BY <3>2, <3>3, <3>4
  <2>3. CASE c <= conns /\ store = c
    <3>1. c = conns /\ c \in 1..conns
      BY <1>t, <2>3 DEF Orphans, OrphansExplained
    <3>2. PICK d \in ConnIds : TakenBy(d)
      BY <1>t, <1>4, <2>3
    <3>3. CASE d = c
      BY <2>1, <3>2, <3>3 DEF TakenBy
    <3>4. CASE d # c
      <4>1. d \in 1..(c - 1)
        BY <1>t, <3>1, <3>2, <3>4 DEF TakenBy
      <4>2. d \in past[c].older
        BY <3>1, <3>2, <4>1 DEF TakenBy, Orphans
      <4>3. past' = [past EXCEPT ![c].taker = d]
        BY <1>t, <2>3, <3>1, <3>2 DEF TakenBy, Takes
      <4>4. past'[c].taker = d /\ past'[c].older = past[c].older
        BY <1>t, <4>3 DEF Past
      <4>5. QED
        BY <4>2, <4>4
    <3>5. QED
      BY <3>3, <3>4
  <2>4. CASE ~(c <= conns)
    BY <1>t, <1>4, <2>1, <2>4 DEF TakenBy
  <2>5. QED
    BY <2>2, <2>3, <2>4
<1>5. QED
  BY <1>1, <1>2, <1>3, <1>4 DEF Orphans, OrphansExplained

\* Callbacks that move on, and connections that stay closed: what was done stays so.
LEMMA StaysDone ==
  ASSUME conns' = conns, \A d \in ConnIds : pc[d].sig = "closed" => pc'[d].sig = "closed",
         NEW c \in ConnIds, \A d \in ConnIds \ {c} : callbacks'[d] = callbacks[d], Unfinished(c)
  PROVE  \A d \in ConnIds : d <= conns /\ Unfinished(d)' => Unfinished(d)
<1> SUFFICES ASSUME NEW d \in ConnIds, d # c, Unfinished(d)' PROVE Unfinished(d)
  OBVIOUS
<1>1. callbacks'[d] = callbacks[d]
  OBVIOUS
<1>2. CallbacksOf(d)' = CallbacksOf(d)
  BY <1>1 DEF CallbacksOf, At
<1>3. Open(d)' => Open(d)
  BY DEF Open, Made
<1>4. QED
  BY <1>2, <1>3 DEF Unfinished

LEMMA CallbackOrphans ==
  ASSUME TypeOK, Candidates, Orphans, NEW c \in ConnIds, c <= conns, CallbackStep(c)
  PROVE  Orphans'
<1>a. TypeOK' /\ \A d \in ConnIds : pc[d].sig = "closed" => pc'[d].sig = "closed"
  BY CallbackStepTypes DEF Keeps, Kept
<1>b. conns' = conns
  BY DEF CallbackStep, Waited, Attempt, Offer, SendOffer, Delete, Close, Reset, Forget
<1>t. /\ conns \in Nat /\ conns' \in Nat /\ conns' >= conns /\ pc \in [ConnIds -> Entries]
      /\ callbacks \in [ConnIds -> [CallbackSteps -> Nat]]
      /\ callbacks' \in [ConnIds -> [CallbackSteps -> Nat]]
  BY <1>a, <1>b, BoundsAssumption DEF TypeOK
<1>u. Unfinished(c)
  <2>1. \E s \in CallbackSteps : At(c, s)
    BY DEF CallbackStep, Waited, Attempt, Offer, SendOffer, Delete, Close, Reset, Forget,
       CallbackSteps
  <2>2. QED
    BY <2>1 DEF Unfinished, CallbacksOf
<1>n. NoCallback \notin CallbackSteps /\ "closing" \in CallbackSteps /\ "forgetting" \in CallbackSteps
  BY DEF NoCallback, CallbackSteps
<1>1. ASSUME NEW from, NEW to, CallbackMoves(c, from, to), from \in CallbackSteps => At(c, from)
      PROVE  /\ \A d \in ConnIds \ {c} : callbacks'[d] = callbacks[d]
             /\ from # "closing" /\ At(c, "closing") => At(c, "closing")'
             /\ to = "closing" => At(c, "closing")'
             /\ to # "forgetting" /\ At(c, "forgetting")' => At(c, "forgetting")
  BY <1>t, <1>n, <1>1, CallbackTypes DEF At
<1>2. CASE Close(c)
  <2>1. pc'[c].sig = "closed" /\ UNCHANGED <<store, past>>
    BY <1>t, <1>2 DEF Close, Closed, Entries
  <2>2. \A d \in ConnIds \ {c} : callbacks'[d] = callbacks[d]
    BY <1>1, <1>2 DEF Close
  <2>3. /\ \A d \in ConnIds : At(d, "closing") => At(d, "closing")' \/ pc'[d].sig = "closed"
        /\ \A d \in ConnIds : At(d, "forgetting")' => At(d, "forgetting") \/ pc'[d].sig = "closed"
    BY <2>1, <2>2 DEF At
  <2>4. QED
    BY <1>a, <1>b, <1>t, <1>u, <2>1, <2>2, <2>3, StaysDone, OrphansKept
<1>3. CASE Delete(c) \/ Forget(c)
  <2>1. store' = None /\ pc' = pc /\ Takes(c)
    BY <1>3 DEF Delete, Forget
  <2>2. /\ \A d \in ConnIds \ {c} : callbacks'[d] = callbacks[d]
        /\ At(c, "closing") => At(c, "closing")'
        /\ At(c, "forgetting")' => At(c, "forgetting")
        /\ Delete(c) => At(c, "closing")'
    BY <1>1, <1>3, <1>n DEF Delete, Forget, NoCallback
  <2>3. At(c, "closing")' \/ pc'[c].sig = "closed"
    BY <1>3, <2>1, <2>2 DEF Forget, Orphans
  <2>4. /\ \A d \in ConnIds : At(d, "closing") => At(d, "closing")'
        /\ \A d \in ConnIds : At(d, "forgetting")' => At(d, "forgetting")
    BY <2>2 DEF At
  <2>5. TakenBy(c)
    BY <1>b, <1>u, <2>1, <2>3 DEF TakenBy
  <2>6. QED
    BY <1>a, <1>b, <1>t, <1>u, <2>2, <2>4, <2>5, StaysDone, OrphansKept
<1>4. CASE Waited(c) \/ Attempt(c) \/ Offer(c) \/ SendOffer(c) \/ Reset(c)
  <2>1. UNCHANGED <<store, past>>
    BY <1>4 DEF Waited, Attempt, Offer, SendOffer, Reset
  <2>2. /\ \A d \in ConnIds \ {c} : callbacks'[d] = callbacks[d]
        /\ At(c, "closing") => At(c, "closing")'
        /\ At(c, "forgetting")' => At(c, "forgetting")
    BY <1>1, <1>4, <1>n DEF Waited, Attempt, Offer, SendOffer, Reset, NoCallback
  <2>3. /\ \A d \in ConnIds : At(d, "closing") => At(d, "closing")'
        /\ \A d \in ConnIds : At(d, "forgetting")' => At(d, "forgetting")
    BY <2>2 DEF At
  <2>4. QED
    BY <1>a, <1>b, <1>t, <1>u, <2>1, <2>2, <2>3, StaysDone, OrphansKept
<1>5. QED
  BY <1>2, <1>3, <1>4 DEF CallbackStep

------------------------------------------------------------------------------
(* The theorems.                                                           *)

Inv == TypeOK /\ Candidates /\ Orphans

LEMMA ServeInv ==
  ASSUME Inv, ServeStep
  PROVE  Inv'
<1>t. conns \in Nat /\ store \in 0..conns /\ None = 0 /\ inputs \in Nat
      /\ callbacks \in [ConnIds -> [CallbackSteps -> Nat]]
  BY BoundsAssumption DEF Inv, TypeOK, None
<1>1. ASSUME UNCHANGED <<store, conns, callbacks, past>>,
             \A d \in ConnIds : pc[d].sig = "closed" => pc'[d].sig = "closed"
      PROVE  Orphans'
  <2>1. conns' \in Nat /\ conns' >= conns
    BY <1>t, <1>1
  <2>2. \A d \in ConnIds : /\ At(d, "closing") <=> At(d, "closing")'
                           /\ At(d, "forgetting") <=> At(d, "forgetting")'
                           /\ Unfinished(d)' => Unfinished(d)
    BY <1>1 DEF At, Unfinished, CallbacksOf, Open, Made
  <2>3. QED
    BY <1>1, <2>1, <2>2, OrphansKept DEF Inv
<1>2. ASSUME NEW kind \in SDPKinds, GetEntry(kind) PROVE Inv'
  <2>1. /\ TypeOK' /\ Candidates'
        /\ \A d \in ConnIds : pc'[d].sig = pc[d].sig
        /\ callbacks' = callbacks
        /\ \/ UNCHANGED <<store, conns, past>>
           \/ /\ store = None /\ conns' = conns + 1 /\ store' = conns' /\ conns' \in ConnIds
              /\ past' = [past EXCEPT ![conns'].older = {d \in 1..conns : Unfinished(d)}]
    BY <1>2, GetEntryCandidates DEF Inv
  <2>2. conns' \in Nat /\ conns' >= conns
    BY <1>t, <2>1
  <2>3. \A d \in ConnIds : /\ At(d, "closing") <=> At(d, "closing")'
                           /\ At(d, "forgetting") <=> At(d, "forgetting")'
                           /\ d <= conns /\ Unfinished(d)' => Unfinished(d)
    BY <1>t, <2>1, IdsAreNat DEF At, Unfinished, CallbacksOf, Open, Made
  <2>4. Orphans'
    BY <2>1, <2>2, <2>3, OrphansKept DEF Inv
  <2>5. QED
    BY <2>1, <2>4 DEF Inv
<1>3. CASE Describe
  BY <1>1, <1>3, DescribeCandidates DEF Inv
<1>4. CASE Drain
  BY <1>1, <1>4, DrainCandidates DEF Inv
<1>5. CASE HandleCandidate
  BY <1>1, <1>5, HandleCandidates DEF Inv
<1>6. CASE Answer
  BY <1>1, <1>6, AnswerCandidates DEF Inv
<1>7. CASE SendAnswer \/ Cleanup
  <2>1. TypeOK' /\ (\A d \in ConnIds : Keeps(d)) /\ UNCHANGED <<store, conns, inputs, past>>
    BY <1>7, ServeTypes DEF Inv, SendAnswer, Cleanup
  <2>2. \A d \in ConnIds : pc[d].sig = "closed" => pc'[d].sig = "closed"
    BY <2>1 DEF Keeps, Kept
  <2>3. /\ serve'.entry = serve.entry
        /\ \/ serve.at = "sending" /\ serve'.at = "draining"
           \/ serve.at = "idle" /\ serve'.at = "ended"
    <3>1. serve \in [at : ServeSteps, entry : 0..conns, msg : SDPKinds]
      BY DEF Inv, TypeOK, ServeSteps
    <3>2. QED
      BY <1>7, <3>1 DEF SendAnswer, Cleanup
  <2>4. CASE callbacks' = callbacks
    <3>1. Candidates'
      BY <1>t, <2>1, <2>3, <2>4, KeepsCandidates DEF Inv
    <3>2. QED
      BY <1>1, <2>1, <2>2, <2>4, <3>1 DEF Inv
  <2>5. CASE callbacks' # callbacks
    <3>1. /\ store # None /\ CallbackMoves(store, NoCallback, "forgetting") /\ Open(store)
          /\ pc' = [pc EXCEPT ![store] = Closed(pc[store])]
      BY <1>7, <2>5 DEF SendAnswer, Cleanup
    <3>2. store \in ConnIds /\ pc'[store].sig = "closed" /\ Unfinished(store)
      <4>1. store \in ConnIds
        BY <1>t, <3>1, BoundsAssumption DEF Inv, TypeOK, ConnIds
      <4>2. pc \in [ConnIds -> Entries] /\ pc[store] \in Entries
        BY <4>1 DEF Inv, TypeOK
      <4>3. QED
        BY <3>1, <4>1, <4>2 DEF Closed, Entries, Unfinished
    <3>3. NoCallback \notin CallbackSteps /\ "closing" \in CallbackSteps
      BY DEF NoCallback, CallbackSteps
    <3>4. /\ \A d \in ConnIds \ {store} : callbacks'[d] = callbacks[d]
          /\ callbacks' \in [ConnIds -> [CallbackSteps -> Nat]]
      BY <3>1, <3>2, <3>3, CallbackTypes DEF Inv
    <3>5. \A d \in ConnIds : /\ At(d, "closing") => At(d, "closing")' \/ pc'[d].sig = "closed"
                             /\ At(d, "forgetting")' => At(d, "forgetting") \/ pc'[d].sig = "closed"
      BY <3>2, <3>4 DEF At
    <3>6. \A d \in ConnIds : d > conns => callbacks'[d] = callbacks[d]
      BY <1>t, <3>4
    <3>7. Candidates'
      BY <1>t, <2>1, <2>3, <3>6, KeepsCandidates DEF Inv
    <3>8. Orphans'
      BY <1>t, <2>1, <2>2, <3>2, <3>4, <3>5, StaysDone, OrphansKept DEF Inv
    <3>9. QED
      BY <2>1, <3>7, <3>8 DEF Inv
  <2>6. QED
    BY <2>4, <2>5
<1>8. QED
  BY <1>2, <1>3, <1>4, <1>5, <1>6, <1>7 DEF ServeStep

LEMMA ConnInv ==
  ASSUME Inv, NEW c \in ConnIds,
         Connects(c) \/ Disconnects(c) \/ Fails(c) \/ CallbackStep(c)
  PROVE  Inv'
<1>t. conns \in Nat /\ inputs \in Nat /\ callbacks \in [ConnIds -> [CallbackSteps -> Nat]]
  BY BoundsAssumption DEF Inv, TypeOK
<1>1. CASE Connects(c) \/ Disconnects(c) \/ Fails(c)
  <2>1. TypeOK' /\ (\A d \in ConnIds : Keeps(d)) /\ UNCHANGED <<store, conns, serve, inputs, past>>
    BY <1>1, PionTypes DEF Inv, Connects, Disconnects, Fails
  <2>2. \A d \in ConnIds : pc[d].sig = "closed" => pc'[d].sig = "closed"
    BY <2>1 DEF Keeps, Kept
  <2>3. PICK to \in {"resetting", "waiting", "attempting"} : CallbackMoves(c, NoCallback, to)
    BY <1>1 DEF Connects, Disconnects, Fails
  <2>4. NoCallback \notin CallbackSteps /\ "closing" \in CallbackSteps /\ "forgetting" \in CallbackSteps
        /\ NoCallback # "closing"
    BY DEF NoCallback, CallbackSteps
  <2>5. /\ \A d \in ConnIds \ {c} : callbacks'[d] = callbacks[d]
        /\ callbacks'[c]["closing"] >= callbacks[c]["closing"]
        /\ callbacks'[c]["forgetting"] <= callbacks[c]["forgetting"]
        /\ callbacks' \in [ConnIds -> [CallbackSteps -> Nat]]
    BY <2>3, <2>4, CallbackTypes DEF Inv
  <2>6. \A d \in ConnIds : /\ At(d, "closing") => At(d, "closing")'
                           /\ At(d, "forgetting")' => At(d, "forgetting")
    BY <1>t, <2>4, <2>5 DEF At
  <2>7. \A d \in ConnIds : d > conns => callbacks'[d] = callbacks[d]
    BY <1>t, <1>1, <2>5 DEF Connects, Disconnects, Fails, Open, Made
  <2>8. Candidates'
    BY <1>t, <2>1, <2>7, KeepsCandidates DEF Inv
  <2>9. Orphans'
    <3>1. Unfinished(c)
      BY <1>1 DEF Connects, Disconnects, Fails, Unfinished
    <3>2. QED
      BY <1>t, <2>1, <2>2, <2>5, <2>6, <3>1, StaysDone, OrphansKept DEF Inv
  <2>10. QED
    BY <2>1, <2>8, <2>9 DEF Inv
<1>2. CASE CallbackStep(c)
  <2>1. \E s \in CallbackSteps : At(c, s)
    BY <1>2 DEF CallbackStep, Waited, Attempt, Offer, SendOffer, Delete, Close, Reset, Forget,
       CallbackSteps
  <2>2. c <= conns
    BY <1>t, <2>1, IdsAreNat DEF At, Inv, Candidates, Fresh
  <2>3. TypeOK' /\ (\A d \in ConnIds : Keeps(d)) /\ UNCHANGED <<conns, serve, inputs>>
    BY <1>2, <2>2, CallbackStepTypes DEF Inv, CallbackStep, Waited, Attempt, Offer, SendOffer,
       Delete, Close, Reset, Forget
  <2>4. \A d \in ConnIds : d > conns => callbacks'[d] = callbacks[d]
    <3>1. \E from, to : CallbackMoves(c, from, to)
      BY <1>2 DEF CallbackStep, Waited, Attempt, Offer, SendOffer, Delete, Close, Reset, Forget
    <3>2. \A d \in ConnIds \ {c} : callbacks'[d] = callbacks[d]
      BY <1>t, <3>1 DEF CallbackMoves
    <3>3. QED
      BY <1>t, <2>2, <3>2, IdsAreNat
  <2>5. Candidates'
    BY <1>t, <2>3, <2>4, KeepsCandidates DEF Inv
  <2>6. Orphans'
    BY <1>2, <2>2, CallbackOrphans DEF Inv
  <2>7. QED
    BY <2>3, <2>5, <2>6 DEF Inv
<1>3. QED
  BY <1>1, <1>2

LEMMA PlayInv ==
  ASSUME Inv, NEW h \in Plays, GetPlay(h) \/ PlayStep(h)
  PROVE  Inv'
<1>t. conns \in Nat /\ inputs \in Nat
  BY BoundsAssumption DEF Inv, TypeOK
<1>1. TypeOK' /\ \A d \in ConnIds : Keeps(d)
  BY PlayTypes DEF Inv
<1>2. /\ UNCHANGED <<store, conns, serve, callbacks, past>>
      /\ inputs' = inputs \/ inputs' = inputs + 1
  BY DEF GetPlay, PlayStep, RemoveTrack, AddTrack, StoreSender, OfferTrack, SendTrackOffer
<1>3. \A d \in ConnIds : pc[d].sig = "closed" => pc'[d].sig = "closed"
  BY <1>1 DEF Keeps, Kept
<1>4. \A d \in ConnIds : /\ At(d, "closing") <=> At(d, "closing")'
                         /\ At(d, "forgetting") <=> At(d, "forgetting")'
                         /\ Unfinished(d)' => Unfinished(d)
  BY <1>2, <1>3 DEF At, Unfinished, CallbacksOf, Open, Made
<1>5. inputs' >= inputs
  BY <1>t, <1>2
<1>6. Candidates'
  BY <1>t, <1>1, <1>2, <1>5, KeepsCandidates DEF Inv
<1>7. Orphans'
  BY <1>t, <1>1, <1>2, <1>3, <1>4, OrphansKept DEF Inv
<1>8. QED
  BY <1>1, <1>6, <1>7 DEF Inv

------------------------------------------------------------------------------
(* The tracks.                                                             *)

\* The channels that are about to add a track to connection c, ...
Adding(c) == {h \in Plays : play[h].at = "adding" /\ play[h].entry = c}

\* ... and whether one is between the two locked parts.
Busy(c) == \E h \in Plays : play[h].entry = c /\ play[h].at \in {"adding", "storing"}

\* Each channel that is about to add a track has a race, or the one track of the
\* connection, to its account; once none is, the entry knows the sender to stop
\* unless a race left it.
Tracked(c) ==
  /\ pc[c].senders + Cardinality(Adding(c)) <= pc[c].races + 1
  /\ ~Busy(c) => pc[c].senders <= pc[c].races + (IF pc[c].current THEN 1 ELSE 0)
  /\ pc[c].sig = "closed" => pc[c].senders = 0

Tracks == \A c \in ConnIds : Tracked(c)

LEMMA InitTracks == Init => Tracks
<1> SUFFICES ASSUME Init, NEW c \in ConnIds PROVE Tracked(c)
  BY DEF Tracks
<1>1. /\ pc[c].senders = 0 /\ pc[c].races = 0 /\ pc[c].sig = "stable"
      /\ pc[c].current \in BOOLEAN
  BY DEF Init, NewEntry
<1>2. Adding(c) = {}
  BY DEF Init, Adding, NoPlay
<1>3. QED
  BY <1>1, <1>2, FS_EmptySet DEF Tracked

LEMMA PlaysFinite ==
  ASSUME NEW c
  PROVE  IsFiniteSet(Adding(c)) /\ Cardinality(Adding(c)) \in Nat
<1>1. IsFiniteSet(Plays)
  BY BoundsAssumption, FS_Interval DEF Plays
<1>2. Adding(c) \subseteq Plays
  BY DEF Adding
<1>3. QED
  BY <1>1, <1>2, FS_Subset, FS_CardinalityType

\* A step that plays nothing takes senders away, or leaves them, and a
\* connection that it closes has none.
Calmer(old, new) ==
  /\ new.current = old.current /\ new.races = old.races
  /\ new.senders \in {old.senders, 0}
  /\ new.sig = "closed" => old.sig = "closed" \/ new.senders = 0

Calm == \A c \in ConnIds : Calmer(pc[c], pc'[c])

LEMMA CalmTracks ==
  ASSUME TypeOK, Tracks, Calm, UNCHANGED play
  PROVE  Tracks'
<1> SUFFICES ASSUME NEW c \in ConnIds PROVE Tracked(c)'
  BY DEF Tracks
<1>1. pc[c].senders \in Nat /\ pc[c].races \in Nat
  BY DEF TypeOK, Entries
<1>2. Adding(c)' = Adding(c) /\ (Busy(c)' <=> Busy(c))
  BY DEF Adding, Busy
<1>3. Cardinality(Adding(c)) \in Nat
  BY PlaysFinite
<1>4. Calmer(pc[c], pc'[c]) /\ Tracked(c)
  BY DEF Calm, Tracks
<1>5. pc'[c].senders <= pc[c].senders /\ pc'[c].senders \in Nat
  BY <1>1, <1>4 DEF Calmer
<1>6. QED
  BY <1>1, <1>2, <1>3, <1>4, <1>5 DEF Tracked, Calmer

\* The entry of connection e is exchanged for a new one.
LEMMA CalmEntry ==
  ASSUME TypeOK, NEW e, NEW new, pc' = [pc EXCEPT ![e] = new],
         e \in ConnIds => Calmer(pc[e], new)
  PROVE  Calm
<1> SUFFICES ASSUME NEW c \in ConnIds PROVE Calmer(pc[c], pc'[c])
  BY DEF Calm
<1>1. pc \in [ConnIds -> Entries]
  BY DEF TypeOK
<1>2. CASE c = e
  BY <1>1, <1>2
<1>3. CASE c # e
  BY <1>1, <1>3 DEF Calmer
<1>4. QED
  BY <1>2, <1>3

LEMMA CalmAdd ==
  ASSUME NEW entry \in Entries, NEW cands
  PROVE  /\ Add(entry, cands) \in {entry, [entry EXCEPT !.applied = entry.applied \o cands]}
         /\ Calmer(entry, Add(entry, cands))
BY DEF Add, Entries, Calmer

LEMMA ServeTracks ==
  ASSUME TypeOK, ServeStep
  PROVE  Calm /\ UNCHANGED play
<1>1. UNCHANGED play
  BY DEF ServeStep, GetEntry, Describe, Answer, SendAnswer, Drain, HandleCandidate, Cleanup
<1> SUFFICES Calm
  BY <1>1
<1>t. pc \in [ConnIds -> Entries]
  BY DEF TypeOK
<1>2. CASE UNCHANGED pc
  BY <1>2 DEF Calm, Calmer
<1>3. ASSUME NEW kind \in SDPKinds, GetEntry(kind) PROVE Calm
  <2>1. PICK c \in ConnIds : UNCHANGED pc \/ pc' = [pc EXCEPT ![c].offered = TRUE]
    BY <1>3 DEF GetEntry
  <2>2. CASE pc' = [pc EXCEPT ![c] = [pc[c] EXCEPT !.offered = TRUE]]
    <3>1. LET new == [pc[c] EXCEPT !.offered = TRUE]
          IN Calmer(pc[c], new)
      BY <1>t DEF Entries, Calmer
    <3>2. QED
      BY <2>2, <3>1, CalmEntry
  <2>3. QED
    BY <1>2, <2>1, <2>2
<1>4. CASE Describe
  <2> DEFINE e == serve.entry
  <2>1. CASE MaySetRemote(serve.entry, serve.msg)
    <3>1. pc' = [pc EXCEPT ![serve.entry].described = TRUE,
                           ![serve.entry].sig = IF serve.msg = "answer" THEN "stable"
                                                ELSE "have-remote-offer",
                           ![serve.entry].queued = IF serve.msg = "restart" THEN <<>> ELSE @]
      BY <1>4, <2>1 DEF Describe
    <3>2. e \in ConnIds => Calmer(pc[e], pc'[e])
      BY <1>t, <3>1 DEF Entries, Calmer
    <3>3. \A d \in ConnIds : d # e => pc'[d] = pc[d]
      BY <1>t, <3>1
    <3>4. QED
      BY <3>2, <3>3 DEF Calm, Calmer
  <2>2. CASE ~MaySetRemote(serve.entry, serve.msg)
    BY <1>2, <1>4, <2>2 DEF Describe
  <2>3. QED
    BY <2>1, <2>2
<1>5. CASE Answer
  <2> DEFINE e == serve.entry
             new == [pc[e] EXCEPT !.sig = "stable"]
  <2>1. UNCHANGED pc \/ pc' = [pc EXCEPT ![e] = new]
    BY <1>5 DEF Answer
  <2>2. e \in ConnIds => Calmer(pc[e], new)
    BY <1>t DEF Entries, Calmer
  <2> HIDE DEF e, new
  <2>3. QED
    BY <1>2, <2>1, <2>2, CalmEntry
<1>6. CASE Drain
  <2> DEFINE e == serve.entry
             added == Add(pc[e], pc[e].queued)
             new == [added EXCEPT !.queued = <<>>]
  <2>1. pc' = [pc EXCEPT ![e] = new]
    BY <1>6 DEF Drain
  <2>2. ASSUME e \in ConnIds PROVE Calmer(pc[e], new)
    <3>1. pc[e] \in Entries
      BY <1>t, <2>2
    <3> HIDE DEF e
    <3>2. added \in {pc[e], [pc[e] EXCEPT !.applied = pc[e].applied \o pc[e].queued]}
      BY <3>1, CalmAdd
    <3>3. QED
      BY <3>1, <3>2 DEF Entries, Calmer
  <2> HIDE DEF e, new
  <2>3. QED
    BY <2>1, <2>2, CalmEntry
<1>7. CASE HandleCandidate
  <2>1. CASE pc' = [pc EXCEPT ![store] = Add(pc[store], <<inputs'>>)]
    <3>1. store \in ConnIds => LET new == Add(pc[store], <<inputs'>>)
                               IN Calmer(pc[store], new)
      BY <1>t, CalmAdd
    <3>2. QED
      BY <2>1, <3>1, CalmEntry
  <2>2. CASE pc' = [pc EXCEPT ![store].queued = Append(@, inputs')]
    BY <1>t, <2>2 DEF Calm, Calmer, Entries
  <2>3. QED
    BY <1>2, <1>7, <2>1, <2>2 DEF HandleCandidate
<1>8. CASE Cleanup
  <2>1. UNCHANGED pc \/ pc' = [pc EXCEPT ![store] = Closed(pc[store])]
    BY <1>8 DEF Cleanup
  <2>2. store \in ConnIds => Calmer(pc[store], Closed(pc[store]))
    BY <1>t DEF Closed, Entries, Calmer
  <2>3. QED
    BY <1>2, <2>1, <2>2, CalmEntry
<1>9. QED
  BY <1>1, <1>2, <1>3, <1>4, <1>5, <1>6, <1>7, <1>8 DEF ServeStep, SendAnswer

LEMMA ConnTracks ==
  ASSUME TypeOK, NEW c \in ConnIds, Connects(c) \/ Disconnects(c) \/ Fails(c) \/ CallbackStep(c)
  PROVE  Calm /\ UNCHANGED play
<1>1. UNCHANGED play
  BY DEF Connects, Disconnects, Fails, CallbackStep, Waited, Attempt, Offer, SendOffer, Delete,
     Close, Reset, Forget
<1> SUFFICES Calm
  BY <1>1
<1>t. pc \in [ConnIds -> Entries]
  BY DEF TypeOK
<1>2. CASE UNCHANGED pc
  BY <1>2 DEF Calm, Calmer
<1>3. CASE Connects(c) \/ Disconnects(c) \/ Fails(c)
  <2>1. PICK ice : pc' = [pc EXCEPT ![c] = [pc[c] EXCEPT !.ice = ice]]
    BY <1>3 DEF Connects, Disconnects, Fails
  <2>2. LET new == [pc[c] EXCEPT !.ice = ice]
        IN Calmer(pc[c], new)
    BY <1>t DEF Entries, Calmer
  <2>3. QED
    BY <2>1, <2>2, CalmEntry
<1>4. CASE Attempt(c) \/ Reset(c)
  <2>1. PICK n : pc' = [pc EXCEPT ![c] = [pc[c] EXCEPT !.attempts = n]]
    BY <1>t, <1>4 DEF Attempt, Reset
  <2>2. Calmer(pc[c], [pc[c] EXCEPT !.attempts = n])
    BY <1>t DEF Entries, Calmer
  <2>3. QED
    BY <2>1, <2>2, CalmEntry
<1>5. CASE Offer(c)
  <2> DEFINE new(sig) == [pc[c] EXCEPT !.sig = sig, !.ice = "connecting"]
  <2>1. \/ UNCHANGED pc
        \/ pc' = [pc EXCEPT ![c] = new("have-local-offer")]
        \/ pc' = [pc EXCEPT ![c] = [pc[c] EXCEPT !.ice = "connecting"]]
    BY <1>5, <1>t DEF Offer
  <2>2. /\ Calmer(pc[c], new("have-local-offer"))
        /\ Calmer(pc[c], [pc[c] EXCEPT !.ice = "connecting"])
    BY <1>t DEF Entries, Calmer
  <2> HIDE DEF new
  <2>3. QED
    BY <1>2, <2>1, <2>2, CalmEntry
<1>6. CASE Close(c)
  BY <1>t, <1>6 DEF Close, Closed, Calm, Calmer, Entries
<1>7. QED
  BY <1>1, <1>2, <1>3, <1>4, <1>5, <1>6 DEF CallbackStep, Waited, SendOffer, Delete, Forget

\* A step of a channel that has another entry in hand, before and after, leaves
\* the tracks of c.
LEMMA PlayElsewhere ==
  ASSUME TypeOK, NEW c \in ConnIds, Tracked(c), NEW h \in Plays,
         \A g \in Plays \ {h} : play'[g] = play[g],
         play[h].entry = c => play[h].at \notin {"adding", "storing"},
         play'[h].entry = c => play'[h].at \notin {"adding", "storing"},
         Calmer(pc[c], pc'[c]), pc'[c].senders = pc[c].senders
  PROVE  Tracked(c)'
<1>1. Adding(c)' = Adding(c)
  BY DEF Adding
<1>2. Busy(c)' <=> Busy(c)
  BY DEF Busy
<1>3. QED
  BY <1>1, <1>2 DEF Tracked, Calmer

LEMMA PlayTracks ==
  ASSUME TypeOK, Tracks, NEW h \in Plays, GetPlay(h) \/ PlayStep(h)
  PROVE  Tracks'
<1>t. /\ pc \in [ConnIds -> Entries] /\ conns \in Nat
      /\ play \in [Plays -> [at : PlaySteps, entry : 0..conns]]
      /\ \A d \in ConnIds : pc[d].senders \in Nat /\ pc[d].races \in Nat /\ pc[d].current \in BOOLEAN
  BY BoundsAssumption DEF TypeOK, PlaySteps, Entries
<1>1. \A g \in Plays \ {h} : play'[g] = play[g]
  BY <1>t DEF GetPlay, PlayStep, RemoveTrack, AddTrack, StoreSender, OfferTrack, SendTrackOffer,
     PlayGoes, PlayEnds
<1>2. \A d \in ConnIds : Tracked(d)
  BY DEF Tracks
<1>3. CASE GetPlay(h)
  <2>1. play[h].at = "idle" /\ UNCHANGED pc /\ play'[h].at \in {"idle", "removing"}
    BY <1>t, <1>3 DEF GetPlay
  <2>2. ASSUME NEW d \in ConnIds PROVE Tracked(d)'
    BY <1>1, <1>2, <2>1, PlayElsewhere DEF Calmer
  <2>3. QED
    BY <2>2 DEF Tracks
<1>4. CASE PlayStep(h)
  <2>1. play'[h] = NoPlay \/ play'[h].entry = play[h].entry
    BY <1>t, <1>4 DEF PlayStep, RemoveTrack, AddTrack, StoreSender, OfferTrack, SendTrackOffer,
       PlayGoes, PlayEnds
  <2>2. ASSUME NEW d \in ConnIds, d # play[h].entry PROVE Tracked(d)'
    <3>1. pc'[d] = pc[d]
      BY <1>t, <1>4, <2>2 DEF PlayStep, RemoveTrack, AddTrack, StoreSender, OfferTrack,
         SendTrackOffer
    <3>2. play'[h].entry = d => play'[h].at = "idle"
      BY <2>1, <2>2 DEF NoPlay
    <3>3. QED
      BY <1>1, <1>2, <2>2, <3>1, <3>2, PlayElsewhere DEF Calmer
  <2>3. ASSUME NEW e \in ConnIds, e = play[h].entry PROVE Tracked(e)'
    <3>t. /\ IsFiniteSet(Adding(e)) /\ Cardinality(Adding(e)) \in Nat
          /\ pc[e].senders \in Nat /\ pc[e].races \in Nat /\ pc[e].current \in BOOLEAN
          /\ pc[e].sig = "closed" => pc[e].senders = 0
          /\ pc[e].senders + Cardinality(Adding(e)) <= pc[e].races + 1
          /\ ~Busy(e) => pc[e].senders <= pc[e].races + (IF pc[e].current THEN 1 ELSE 0)
      BY <1>t, <1>2, <2>3, PlaysFinite DEF Tracked
    <3>1. CASE RemoveTrack(h)
      <4>1. /\ play[h].at = "removing" /\ play'[h].at = "adding" /\ play'[h].entry = e
            /\ pc' = [pc EXCEPT ![e].senders = IF @ > 0 /\ pc[e].current THEN @ - 1 ELSE @,
                                ![e].current = FALSE,
                                ![e].races = IF Racing(h, e) THEN @ + 1 ELSE @]
        BY <1>t, <2>3, <3>1 DEF RemoveTrack, PlayGoes
      <4>2. /\ pc'[e].senders = IF pc[e].senders > 0 /\ pc[e].current THEN pc[e].senders - 1
                                ELSE pc[e].senders
            /\ pc'[e].races = IF Racing(h, e) THEN pc[e].races + 1 ELSE pc[e].races
            /\ pc'[e].sig = pc[e].sig
        BY <1>t, <2>3, <4>1 DEF Entries
      <4>3. Adding(e)' = Adding(e) \cup {h} /\ h \notin Adding(e)
        BY <1>1, <2>3, <4>1 DEF Adding
      <4>4. Cardinality(Adding(e)') = Cardinality(Adding(e)) + 1
        BY <3>t, <4>3, FS_AddElement
      <4>5. Busy(e)'
        BY <4>1 DEF Busy
      <4>6. Busy(e) <=> Racing(h, e)
        BY <2>3, <4>1 DEF Busy, Racing
      <4>7. ~Racing(h, e) => Cardinality(Adding(e)) = 0
        <5>1. ~Racing(h, e) => Adding(e) = {}
          BY <2>3, <4>1, <4>6 DEF Adding, Busy
        <5>2. QED
          BY <5>1, FS_EmptySet
      <4>8. pc'[e].senders + Cardinality(Adding(e)') <= pc'[e].races + 1
        <5>1. CASE Racing(h, e)
          BY <3>t, <4>2, <4>4, <5>1
        <5>2. CASE ~Racing(h, e)
          BY <3>t, <4>2, <4>4, <4>6, <4>7, <5>2
        <5>3. QED
          BY <5>1, <5>2
      <4>9. pc'[e].sig = "closed" => pc'[e].senders = 0
        BY <3>t, <4>2
      <4>10. QED
        BY <4>5, <4>8, <4>9 DEF Tracked
    <3>2. CASE AddTrack(h) /\ Open(e)
      <4>1. /\ play[h].at = "adding" /\ play'[h].at = "storing" /\ play'[h].entry = e
            /\ pc' = [pc EXCEPT ![e].senders = @ + 1]
        BY <1>t, <2>3, <3>2 DEF AddTrack, PlayGoes
      <4>2. /\ pc'[e].senders = pc[e].senders + 1 /\ pc'[e].races = pc[e].races
            /\ pc'[e].sig = pc[e].sig /\ pc[e].sig # "closed"
        BY <1>t, <2>3, <3>2, <4>1 DEF Entries, Open
      <4>3. Adding(e)' = Adding(e) \ {h} /\ h \in Adding(e)
        BY <1>1, <2>3, <4>1 DEF Adding
      <4>4. Cardinality(Adding(e)') = Cardinality(Adding(e)) - 1
        BY <3>t, <4>3, FS_RemoveElement
      <4>5. Busy(e)'
        BY <4>1 DEF Busy
      <4>6. QED
        BY <3>t, <4>2, <4>4, <4>5 DEF Tracked
    <3>3. CASE AddTrack(h) /\ ~Open(e)
      <4>1. play[h].at = "adding" /\ play'[h] = NoPlay /\ UNCHANGED pc
        BY <1>t, <2>3, <3>3 DEF AddTrack, PlayEnds
      <4>2. pc[e].senders = 0
        <5>1. Made(e)
          BY <1>t, <2>3, IdsAreNat DEF Made
        <5>2. QED
          BY <3>t, <3>3, <5>1 DEF Open
      <4>3. Adding(e)' = Adding(e) \ {h} /\ h \in Adding(e)
        BY <1>1, <2>3, <4>1 DEF Adding, NoPlay
      <4>4. Cardinality(Adding(e)') = Cardinality(Adding(e)) - 1
        BY <3>t, <4>3, FS_RemoveElement
      <4>5. pc'[e] = pc[e]
        BY <4>1
      <4>6. QED
        BY <3>t, <4>2, <4>4, <4>5 DEF Tracked
    <3>4. CASE StoreSender(h)
      <4>1. /\ play[h].at = "storing" /\ play'[h].at = "offering" /\ play'[h].entry = e
            /\ pc' = [pc EXCEPT ![e].current = TRUE]
        BY <1>t, <2>3, <3>4 DEF StoreSender, PlayGoes
      <4>2. /\ pc'[e].senders = pc[e].senders /\ pc'[e].races = pc[e].races
            /\ pc'[e].sig = pc[e].sig /\ pc'[e].current
        BY <1>t, <2>3, <4>1 DEF Entries
      <4>3. Adding(e)' = Adding(e)
        BY <1>1, <2>3, <4>1 DEF Adding
      <4>4. QED
        BY <3>t, <4>2, <4>3 DEF Tracked
    <3>5. CASE OfferTrack(h)
      <4>1. play[h].at = "offering" /\ play'[h].at \in {"sending", "idle"}
        BY <1>t, <3>5 DEF OfferTrack, PlayGoes, PlayEnds, NoPlay
      <4>2. UNCHANGED pc \/ pc' = [pc EXCEPT ![e] = [pc[e] EXCEPT !.sig = "have-local-offer"]]
        BY <2>3, <3>5 DEF OfferTrack
      <4>3. Calmer(pc[e], pc'[e]) /\ pc'[e].senders = pc[e].senders
        <5>1. pc[e] \in Entries /\ pc'[e] \in {pc[e], [pc[e] EXCEPT !.sig = "have-local-offer"]}
          BY <1>t, <2>3, <4>2
        <5>2. QED
          BY <5>1 DEF Entries, Calmer
      <4>4. QED
        BY <1>1, <1>2, <2>3, <4>1, <4>3, PlayElsewhere
    <3>6. CASE SendTrackOffer(h)
      <4>1. play[h].at = "sending" /\ play'[h].at = "idle" /\ UNCHANGED pc
        BY <1>t, <3>6 DEF SendTrackOffer, PlayEnds, NoPlay
      <4>2. QED
        BY <1>1, <1>2, <2>3, <4>1, PlayElsewhere DEF Calmer, NoPlay
    <3>7. QED
      BY <1>4, <3>1, <3>2, <3>3, <3>4, <3>5, <3>6 DEF PlayStep
  <2>4. QED
    BY <2>2, <2>3 DEF Tracks
<1>5. QED
  BY <1>3, <1>4

\* The invariant holds in every state: types, the numbers of candidates, the
\* queue that Serve works on, and the entry of the store.
THEOREM Invariance == Spec => []Inv
<1>1. Init => Inv
  BY InitTypes, InitCandidates, InitOrphans DEF Inv
<1>2. Inv /\ [Next]_vars => Inv'
  <2> SUFFICES ASSUME Inv, [Next]_vars PROVE Inv'
    OBVIOUS
  <2>1. CASE UNCHANGED vars
    <3>1. TypeOK'
      BY <2>1 DEF vars, Inv, TypeOK
    <3>2. Candidates'
      BY <2>1 DEF vars, Inv, Candidates, Fresh, Serving, Ordered, MayDrain, Before, Numbers,
         Increasing
    <3>3. Orphans'
      BY <2>1 DEF vars, Inv, Orphans, OrphansExplained, Unfinished, CallbacksOf, Open, Made, At
    <3>4. QED
      BY <3>1, <3>2, <3>3 DEF Inv
  <2>2. QED
    BY <2>1, ServeInv, ConnInv, PlayInv DEF Next
<1>3. QED
  BY <1>1, <1>2, PTL DEF Spec

\* The store, the connections and their callbacks keep their types: no callback
\* ends that had not begun, and no number of senders is negative.
THEOREM TypeCorrect == Spec => []TypeOK
<1>1. Inv => TypeOK
  BY DEF Inv
<1>2. QED
  BY <1>1, Invariance, PTL

\* An open connection is missing from the store only when it is about to be
\* closed, or when an older one took its entry that was not done when it was made
\* (signalling_handler.go:304-330).
THEOREM OrphansAlwaysExplained == Spec => []OrphansExplained
<1>1. Inv => OrphansExplained
  BY DEF Inv, Orphans
<1>2. QED
  BY <1>1, Invariance, PTL

\* Candidates are applied in the order in which they came, and none twice
\* (signalling_handler.go:186-200, 224-243).
THEOREM CandidatesInOrder == Spec => []AppliedInOrder
<1>1. Inv => AppliedInOrder
  BY DEF Inv, Candidates, Numbers, Increasing, AppliedInOrder
<1>2. QED
  BY <1>1, Invariance, PTL

\* No candidate is left in the queue of a connection that could take it, but for
\* an answer that failed (signalling_handler.go:155-170, 186-200).
THEOREM QueueAlwaysDrained == Spec => []QueueDrained
<1>1. Inv => QueueDrained
  BY DEF Inv, Candidates, Serving, Open, QueueDrained
<1>2. QED
  BY <1>1, Invariance, PTL

\* A connection plays one track, and one more for each /play that began between
\* the two locked parts of another, for any number of connections and commands
\* (track_dc_handler.go:309-342).
THEOREM OneTrackEach == Spec => []OneTrack
<1>1. Init => Tracks
  BY InitTracks
<1>2. TypeOK /\ Tracks /\ [Next]_vars => Tracks'
  <2> SUFFICES ASSUME TypeOK, Tracks, [Next]_vars PROVE Tracks'
    OBVIOUS
  <2>1. CASE UNCHANGED vars
    BY <2>1 DEF vars, Tracks, Tracked, Adding, Busy
  <2>2. QED
    BY <2>1, CalmTracks, ServeTracks, ConnTracks, PlayTracks DEF Next
<1>3. TypeOK /\ Tracks => OneTrack
  <2> SUFFICES ASSUME TypeOK, Tracks, NEW c \in ConnIds PROVE pc[c].senders <= 1 + pc[c].races
    BY DEF OneTrack
  <2>1. pc[c].senders \in Nat /\ pc[c].races \in Nat /\ Cardinality(Adding(c)) \in Nat
    BY PlaysFinite DEF TypeOK, Entries
  <2>2. QED
    BY <2>1 DEF Tracks, Tracked
<1>4. QED
  BY <1>1, <1>2, <1>3, TypeCorrect, PTL DEF Spec
==============================================================================
