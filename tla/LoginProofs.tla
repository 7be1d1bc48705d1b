----------------------------- MODULE LoginProofs -----------------------------
(***************************************************************************)
(* What the user store keeps in spite of the index maps its clones share;  *)
(* and that log-in keeps to what UserStore promises, so that a session     *)
(* that is logged in always has a user: for any number of log-ins, calls,  *)
(* sessions, names, identities and tries.                                  *)
(***************************************************************************)
EXTENDS Login, SequenceTheorems, TLAPS

------------------------------------------------------------------------------
(* The inductive invariant.                                                *)

N == Len(users)

\* No two users have the same id, name or identity.
Unique ==
  \A p, q \in 1..N : p # q => /\ users[p].id # users[q].id
                              /\ users[p].name # users[q].name
                              /\ users[p].ident = users[q].ident => users[p].ident = NoIdent

\* m finds u, at position p if it is asked for the id.  For a name or an
\* identity the position may be another, but it is a key of the map.
Keyed(m, u, p) ==
  /\ m.id[u.id] = p
  /\ m.name[u.name] > 0
  /\ u.ident # NoIdent => m.ident[u.ident] > 0

AllKeyed == \A p \in 1..N : Keyed(index, users[p], p)

\* c has the store as it is: if it goes on, it will win.
UpToDate(c) == loaded[c] = N

Progress(c) ==
  /\ user[c].id = c
  /\ loaded[c] <= N
  /\ pc[c] # "created" => \A p \in 1..N : users[p].id # c
  /\ pc[c] = "created" => \E p \in 1..N : users[p] = user[c]
  /\ UpToDate(c) /\ pc[c] \in {"cloning", "naming", "adding", "swapping"} =>
       \A p \in 1..N : users[p].ident = user[c].ident => users[p].ident = NoIdent
  /\ UpToDate(c) /\ pc[c] \in {"adding", "swapping"} =>
       \A p \in 1..N : users[p].name # user[c].name
  /\ UpToDate(c) /\ pc[c] = "swapping" => Keyed(Maps(c), user[c], N + 1)

IInv == TypeOK /\ Unique /\ AllKeyed /\ \A c \in Calls : Progress(c)

------------------------------------------------------------------------------
(* updateIndex.                                                            *)

\* The last of at most one element.
LEMMA LastOfOne ==
  ASSUME NEW S \in SUBSET Nat, \A p, q \in S : p = q, NEW e
  PROVE  /\ S = {} => LastOf(S, e) = e
         /\ S # {} => LastOf(S, e) \in S
<1>1. ASSUME NEW p \in S PROVE LastOf(S, e) \in S
  <2>1. \A q \in S : q <= p
    OBVIOUS
  <2>2. QED
    BY <2>1 DEF LastOf
<1>2. QED
  BY <1>1 DEF LastOf

\* Indexing some of the users of the store again removes no key, and leaves
\* the position of every id that is indexed right.
LEMMA ReindexedKeeps ==
  ASSUME TypeOK, Unique, NEW m \in Index, NEW n \in 0..N
  PROVE  /\ Reindexed(m, n) \in Index
         /\ \A p \in 1..n : Reindexed(m, n).id[users[p].id] = p
         /\ \A c \in Calls : (\A p \in 1..n : users[p].id # c)
                               => Reindexed(m, n).id[c] = m.id[c]
         /\ \A a \in Names : m.name[a] > 0 => Reindexed(m, n).name[a] > 0
         /\ \A i \in Idents : m.ident[i] > 0 => Reindexed(m, n).ident[i] > 0
<1>t. /\ m.id \in [Calls -> Nat] /\ m.name \in [Names -> Nat] /\ m.ident \in [Idents -> Nat]
      /\ N \in Nat /\ \A p \in 1..N : users[p] \in User
  BY DEF Index, TypeOK, N
<1> DEFINE I(c) == {p \in 1..n : users[p].id = c}
           A(a) == {p \in 1..n : users[p].name = a}
           J(i) == {p \in 1..n : users[p].ident = i}
           r == Reindexed(m, n)
<1>1. ASSUME NEW c \in Calls
      PROVE  /\ I(c) = {} => LastOf(I(c), m.id[c]) = m.id[c]
             /\ I(c) # {} => LastOf(I(c), m.id[c]) \in I(c)
  <2>1. I(c) \in SUBSET Nat /\ \A p, q \in I(c) : p = q
    BY <1>t DEF Unique
  <2>2. QED
    BY <2>1, LastOfOne
<1>2. ASSUME NEW a \in Names
      PROVE  /\ A(a) = {} => LastOf(A(a), m.name[a]) = m.name[a]
             /\ A(a) # {} => LastOf(A(a), m.name[a]) \in A(a)
  <2>1. A(a) \in SUBSET Nat /\ \A p, q \in A(a) : p = q
    BY <1>t DEF Unique
  <2>2. QED
    BY <2>1, LastOfOne
<1>3. ASSUME NEW i \in Idents
      PROVE  /\ J(i) = {} => LastOf(J(i), m.ident[i]) = m.ident[i]
             /\ J(i) # {} => LastOf(J(i), m.ident[i]) \in J(i)
  <2>1. J(i) \in SUBSET Nat /\ \A p, q \in J(i) : p = q
    BY <1>t, NoIdentAssumption DEF Unique
  <2>2. QED
    BY <2>1, LastOfOne
<1>4. /\ r.id = [c \in Calls |-> LastOf(I(c), m.id[c])]
      /\ r.name = [a \in Names |-> LastOf(A(a), m.name[a])]
      /\ r.ident = [i \in Idents |-> LastOf(J(i), m.ident[i])]
      /\ r = [id |-> r.id, name |-> r.name, ident |-> r.ident]
  BY DEF Reindexed
<1>s. /\ \A c \in Calls : I(c) \subseteq Nat /\ \A p \in 1..n : p \in I(c) <=> users[p].id = c
      /\ \A c \in Calls : \A p \in I(c) : p \in 1..n
      /\ \A a \in Names : \A p \in A(a) : p \in Nat /\ p > 0
      /\ \A i \in Idents : \A p \in J(i) : p \in Nat /\ p > 0
  OBVIOUS
<1> HIDE DEF r, I, A, J
<1>5. r \in Index
  <2>1. r.id \in [Calls -> Nat]
    BY <1>1, <1>4, <1>s, <1>t
  <2>2. r.name \in [Names -> Nat]
    BY <1>2, <1>4, <1>s, <1>t
  <2>3. r.ident \in [Idents -> Nat]
    BY <1>3, <1>4, <1>s, <1>t
  <2>4. QED
    BY <1>4, <2>1, <2>2, <2>3 DEF Index
<1>6. \A p \in 1..n : r.id[users[p].id] = p
  <2> SUFFICES ASSUME NEW p \in 1..n PROVE r.id[users[p].id] = p
    OBVIOUS
  <2>1. users[p].id \in Calls /\ p \in I(users[p].id)
    BY <1>t, <1>s DEF User
  <2>2. LastOf(I(users[p].id), m.id[users[p].id]) \in I(users[p].id)
    BY <1>1, <2>1
  <2>3. r.id[users[p].id] \in I(users[p].id)
    BY <1>4, <2>1, <2>2
  <2>4. QED
    BY <1>t, <1>s, <2>1, <2>3 DEF Unique
<1>7. \A c \in Calls : (\A p \in 1..n : users[p].id # c) => r.id[c] = m.id[c]
  BY <1>1, <1>4, <1>s
<1>8. \A a \in Names : m.name[a] > 0 => r.name[a] > 0
  BY <1>2, <1>4, <1>s
<1>9. \A i \in Idents : m.ident[i] > 0 => r.ident[i] > 0
  BY <1>3, <1>4, <1>s
<1>10. QED
  BY <1>5, <1>6, <1>7, <1>8, <1>9 DEF r

\* The same of indexing all users.
LEMMA IndexedKeeps ==
  ASSUME NEW m \in Index, NEW u \in User, NEW n \in Nat, n > 0
  PROVE  /\ Indexed(m, u, n) \in Index
         /\ Keyed(Indexed(m, u, n), u, n)
         /\ \A c \in Calls \ {u.id} : Indexed(m, u, n).id[c] = m.id[c]
         /\ \A a \in Names : m.name[a] > 0 => Indexed(m, u, n).name[a] > 0
         /\ \A i \in Idents : m.ident[i] > 0 => Indexed(m, u, n).ident[i] > 0
<1>1. /\ m.id \in [Calls -> Nat] /\ m.name \in [Names -> Nat] /\ m.ident \in [Idents -> Nat]
      /\ u.id \in Calls /\ u.name \in Names /\ u.ident \in Idents \cup {NoIdent}
  BY DEF Index, User
<1>2. QED
  BY <1>1 DEF Indexed, Keyed, Index

\* Maps that lose no key, and whose positions of ids change for other users
\* only, find the user they found.
LEMMA KeyedStays ==
  ASSUME NEW m, NEW r, NEW u \in User, NEW p, Keyed(m, u, p),
         r.id[u.id] = m.id[u.id],
         \A a \in Names : m.name[a] > 0 => r.name[a] > 0,
         \A i \in Idents : m.ident[i] > 0 => r.ident[i] > 0
  PROVE  Keyed(r, u, p)
BY DEF Keyed, User

------------------------------------------------------------------------------
(* The steps.                                                              *)

\* The invariant holds at first.
LEMMA InitIInv == Init => IInv
<1> SUFFICES ASSUME Init PROVE IInv
  OBVIOUS
<1>1. NoIndex \in Index
  BY DEF NoIndex, Index
<1>2. users = <<>> /\ users \in Seq(User) /\ N = 0
  BY DEF Init, N
<1>3. TypeOK
  BY <1>1, <1>2 DEF Init, TypeOK
<1>4. QED
  BY <1>2, <1>3 DEF Init, IInv, Unique, AllKeyed, Progress

\* The steps that leave the users and the maps alone.
LEMMA QuietStep ==
  ASSUME IInv, NEW c \in Calls, Load(c) \/ Hit(c) \/ NameHit(c) \/ Miss(c) \/ NameCheck(c)
                                  \/ SwapFails(c) \/ RaceSeen(c)
  PROVE  IInv'
<1>t. /\ TypeOK /\ N \in Nat /\ \A p \in 1..N : users[p] \in User
      /\ pc[c] \in {"loading", "checking", "naming", "swapping"} \/ fatal' = TRUE
  BY DEF IInv, TypeOK, N, Load, Hit, NameHit, Miss, NameCheck, SwapFails, RaceSeen, Goto
<1>1. /\ UNCHANGED <<users, index, own, user>>
      /\ \A d \in Calls \ {c} : pc'[d] = pc[d] /\ loaded'[d] = loaded[d]
  BY <1>t DEF Load, Hit, NameHit, Miss, NameCheck, SwapFails, RaceSeen, Goto, TypeOK
<1>2. TypeOK'
  <2> USE DEF TypeOK, Goto
  <2>1. CASE Load(c)
    BY <1>t, <2>1 DEF Load, N
  <2>2. CASE Hit(c)
    <3>1. index.ident[user[c].ident] \in Nat
      BY <1>t, <2>2 DEF Hit, User, Index
    <3>2. QED
      BY <1>t, <2>2, <3>1 DEF Hit
  <2>3. CASE NameCheck(c)
    BY <1>t, <2>3 DEF NameCheck
  <2>4. QED
    BY <1>t, <2>1, <2>2, <2>3 DEF NameHit, Miss, SwapFails, RaceSeen
<1>3. Unique' /\ AllKeyed'
  BY <1>1 DEF IInv, Unique, AllKeyed, Keyed, N
<1>4. \A d \in Calls \ {c} : Progress(d)'
  BY <1>1 DEF IInv, Progress, UpToDate, Maps, Shares, Keyed, N
<1>5. Progress(c)'
  <2> USE DEF Progress, UpToDate
  <2>1. Progress(c) /\ AllKeyed
    BY DEF IInv
  <2>2. CASE Load(c)
    BY <1>t, <1>1, <2>1, <2>2 DEF Load, Goto, TypeOK, N
  <2>3. CASE Hit(c)
    BY <1>t, <1>1, <2>1, <2>3 DEF Hit, Goto, TypeOK, N
  <2>4. CASE NameHit(c)
    BY <1>t, <1>1, <2>1, <2>4 DEF NameHit, Goto, TypeOK, N
  <2>5. CASE Miss(c)
    <3>1. UpToDate(c) => \A p \in 1..N : users[p].ident = user[c].ident
                                           => users[p].ident = NoIdent
      BY <1>t, <2>1, <2>5 DEF Miss, Shares, AllKeyed, Keyed
    <3>2. QED
      BY <1>t, <1>1, <2>1, <2>5, <3>1 DEF Miss, Goto, TypeOK, N
  <2>6. CASE NameCheck(c)
    <3>1. CASE Maps(c).name[user[c].name] > 0
      BY <1>t, <1>1, <2>1, <2>6, <3>1 DEF NameCheck, Goto, TypeOK, N
    <3>2. CASE ~(Maps(c).name[user[c].name] > 0)
      <4>1. UpToDate(c) => \A p \in 1..N : users[p].name # user[c].name
        BY <1>t, <2>1, <3>2 DEF Maps, Shares, AllKeyed, Keyed, TypeOK
      <4>2. QED
        BY <1>t, <1>1, <2>1, <2>6, <3>2, <4>1 DEF NameCheck, Goto, TypeOK, N
    <3>3. QED
      BY <3>1, <3>2
  <2>7. CASE SwapFails(c)
    BY <1>t, <1>1, <2>1, <2>7 DEF SwapFails, Goto, TypeOK, N
  <2>8. CASE RaceSeen(c)
    BY <2>1, <2>8 DEF RaceSeen, N, Maps, Shares, Keyed
  <2>9. QED
    BY <2>2, <2>3, <2>4, <2>5, <2>6, <2>7, <2>8
<1>6. QED
  BY <1>2, <1>3, <1>4, <1>5 DEF IInv

\* The steps that write to maps: they remove no key, and change the position
\* of no id but that of c.
LEMMA MapStep ==
  ASSUME IInv, NEW c \in Calls, Clone(c) \/ AddIndex(c)
  PROVE  IInv'
<1>t. /\ TypeOK /\ Unique /\ N \in Nat /\ \A p \in 1..N : users[p] \in User
      /\ Progress(c) /\ loaded[c] \in 0..N /\ user[c] \in User
      /\ \A p \in 1..N : users[p].id # c
  BY DEF IInv, TypeOK, N, Progress, Clone, AddIndex, Goto
<1>o. NoIndex \in Index /\ Maps(c) \in Index
  BY <1>t DEF NoIndex, Index, Maps, TypeOK
<1> DEFINE m == IF Clone(c) THEN Reindexed(IF Shares(c) THEN index ELSE NoIndex, loaded[c])
                            ELSE Indexed(Maps(c), user[c], loaded[c] + 1)
<1>1. m \in Index /\ SetMaps(c, m)
  <2>1. CASE Clone(c)
    BY <1>t, <1>o, <2>1, ReindexedKeeps DEF Clone, TypeOK
  <2>2. CASE ~Clone(c)
    BY <1>t, <1>o, <2>2, IndexedKeeps DEF AddIndex
  <2>3. QED
    BY <2>1, <2>2
<1>c. Clone(c) /\ Shares(c) => m = Reindexed(index, loaded[c])
  OBVIOUS
<1>a. ~Clone(c) => m = Indexed(Maps(c), user[c], loaded[c] + 1)
  OBVIOUS
<1> HIDE DEF m
<1>2. ASSUME Shares(c)
      PROVE  /\ \A a \in Names : index.name[a] > 0 => m.name[a] > 0
             /\ \A i \in Idents : index.ident[i] > 0 => m.ident[i] > 0
             /\ \A p \in 1..N : m.id[users[p].id] = index.id[users[p].id]
             /\ \A d \in Calls \ {c} : (\A p \in 1..N : users[p].id # d) => m.id[d] = index.id[d]
  <2>1. CASE Clone(c)
    <3>1. /\ \A p \in 1..loaded[c] : m.id[users[p].id] = p
          /\ \A d \in Calls : (\A p \in 1..loaded[c] : users[p].id # d)
                               => m.id[d] = index.id[d]
          /\ \A a \in Names : index.name[a] > 0 => m.name[a] > 0
          /\ \A i \in Idents : index.ident[i] > 0 => m.ident[i] > 0
      <4>1. index \in Index
        BY <1>t DEF TypeOK
      <4>2. PICK n \in 0..N : n = loaded[c]
        BY <1>t
      <4>3. m = Reindexed(index, n)
        BY <1>2, <1>c, <2>1, <4>2
      <4>4. /\ \A p \in 1..n : Reindexed(index, n).id[users[p].id] = p
            /\ \A d \in Calls : (\A p \in 1..n : users[p].id # d)
                                 => Reindexed(index, n).id[d] = index.id[d]
            /\ \A a \in Names : index.name[a] > 0 => Reindexed(index, n).name[a] > 0
            /\ \A i \in Idents : index.ident[i] > 0 => Reindexed(index, n).ident[i] > 0
        BY <1>t, <4>1, ReindexedKeeps
      <4>5. QED
        BY <4>2, <4>3, <4>4
    <3>2. ASSUME NEW p \in 1..N PROVE m.id[users[p].id] = index.id[users[p].id]
      <4>1. CASE p \in 1..loaded[c]
        BY <3>1, <4>1 DEF IInv, AllKeyed, Keyed
      <4>2. CASE p \notin 1..loaded[c]
        <5>1. \A q \in 1..loaded[c] : users[q].id # users[p].id
          BY <1>t, <4>2 DEF Unique
        <5>2. QED
          BY <1>t, <3>1, <5>1 DEF User
      <4>3. QED
        BY <4>1, <4>2
    <3>3. QED
      BY <1>t, <3>1, <3>2
  <2>2. CASE ~Clone(c)
    <3>1. m = Indexed(index, user[c], loaded[c] + 1) /\ user[c].id = c
      BY <1>2, <1>a, <1>t, <2>2 DEF Maps, Progress
    <3>2. index \in Index
      BY <1>t DEF TypeOK
    <3>3. PICK n \in Nat : n = loaded[c] + 1 /\ n > 0
      BY <1>t
    <3>4. /\ \A d \in Calls \ {c} : Indexed(index, user[c], n).id[d] = index.id[d]
          /\ \A a \in Names : index.name[a] > 0 => Indexed(index, user[c], n).name[a] > 0
          /\ \A i \in Idents : index.ident[i] > 0 => Indexed(index, user[c], n).ident[i] > 0
      BY <1>t, <3>1, <3>2, <3>3, IndexedKeeps
    <3>5. \A p \in 1..N : users[p].id \in Calls \ {c}
      BY <1>t DEF User
    <3>6. m = Indexed(index, user[c], n)
      BY <3>1, <3>3
    <3>7. QED
      BY <3>4, <3>5, <3>6
  <2>3. QED
    BY <2>1, <2>2
<1>3. /\ UNCHANGED <<users, loaded, user, found, fatal>>
      /\ \A d \in Calls \ {c} : pc'[d] = pc[d]
      /\ pc'[c] = IF Clone(c) THEN "naming" ELSE "swapping"
      /\ pc[c] = IF Clone(c) THEN "cloning" ELSE "adding"
  BY <1>t DEF Clone, AddIndex, Goto, TypeOK
<1>4. TypeOK'
  <2>1. index' \in Index /\ own' \in [Calls -> Index]
    BY <1>t, <1>1 DEF SetMaps, TypeOK
  <2>2. pc' \in [Calls -> {"loading", "checking", "cloning", "naming", "adding", "swapping",
                           "created", "loaded", "duplicated", "panicked"}]
    BY <1>t DEF Clone, AddIndex, Goto, TypeOK
  <2>3. QED
    BY <1>t, <1>3, <2>1, <2>2 DEF TypeOK
<1>5. Unique'
  BY <1>t, <1>3 DEF Unique, N
<1>6. AllKeyed'
  <2>1. CASE Shares(c)
    <3>1. index' = m
      BY <1>1, <2>1 DEF SetMaps
    <3>2. QED
      BY <1>t, <1>2, <1>3, <2>1, <3>1, KeyedStays DEF IInv, AllKeyed, N
  <2>2. CASE ~Shares(c)
    BY <1>1, <1>3, <2>2 DEF IInv, AllKeyed, SetMaps, N
  <2>3. QED
    BY <2>1, <2>2
<1>7. ASSUME NEW d \in Calls \ {c} PROVE Progress(d)'
  <2>1. Progress(d) /\ user[d] \in User
    BY <1>t DEF IInv, TypeOK
  <2>2. ASSUME UpToDate(d), pc[d] = "swapping"
        PROVE  Keyed(Maps(d), user[d], N + 1)'
    <3>1. Keyed(Maps(d), user[d], N + 1)
      BY <2>1, <2>2 DEF Progress
    <3>2. CASE Shares(c) /\ Shares(d)
      <4>1. Maps(d) = index /\ Maps(d)' = m
        BY <1>1, <1>3, <3>2 DEF Maps, Shares, SetMaps
      <4>2. user[d].id = d /\ \A p \in 1..N : users[p].id # d
        BY <2>1, <2>2 DEF Progress
      <4>3. Keyed(m, user[d], N + 1)
        BY <1>2, <2>1, <3>1, <3>2, <4>1, <4>2, KeyedStays
      <4>4. QED
        BY <1>3, <4>1, <4>3 DEF N
    <3>3. CASE ~(Shares(c) /\ Shares(d))
      <4>1. Maps(d)' = Maps(d)
        BY <1>t, <1>1, <1>3, <3>3 DEF Maps, Shares, SetMaps, TypeOK
      <4>2. QED
        BY <1>3, <3>1, <4>1 DEF N
    <3>4. QED
      BY <3>2, <3>3
  <2>3. QED
    BY <1>3, <2>1, <2>2 DEF Progress, UpToDate, N
<1>8. Progress(c)'
  <2>1. ASSUME ~Clone(c), UpToDate(c) PROVE Keyed(Maps(c), user[c], N + 1)'
    <3>1. Maps(c)' = m
      BY <1>1, <1>3, <1>t DEF Maps, Shares, SetMaps, TypeOK
    <3>2. Keyed(m, user[c], loaded[c] + 1)
      BY <1>a, <1>t, <1>o, <2>1, IndexedKeeps
    <3>3. QED
      BY <1>3, <2>1, <3>1, <3>2 DEF N, UpToDate
  <2>2. QED
    BY <1>t, <1>3, <2>1 DEF Progress, UpToDate, N
<1>9. QED
  BY <1>4, <1>5, <1>6, <1>7, <1>8 DEF IInv

\* A successful compare-and-swap publishes one user and keeps the others.
LEMMA SwapStep ==
  ASSUME IInv, NEW c \in Calls, Swap(c)
  PROVE  IInv'
<1>t. /\ TypeOK /\ Unique /\ AllKeyed /\ N \in Nat /\ users \in Seq(User)
      /\ \A p \in 1..N : users[p] \in User
      /\ Progress(c) /\ user[c] \in User /\ UpToDate(c) /\ pc[c] = "swapping"
      /\ Maps(c) \in Index
  BY DEF IInv, TypeOK, N, Swap, Goto, UpToDate, Maps
<1>1. /\ users' = Append(users, user[c]) /\ users' \in Seq(User)
      /\ N' = N + 1 /\ users'[N + 1] = user[c] /\ \A p \in 1..N : users'[p] = users[p]
  BY <1>t DEF Swap, N
<1>2. /\ UNCHANGED <<own, loaded, user, fatal>> /\ index' = Maps(c)
      /\ pc' = [pc EXCEPT ![c] = "created"] /\ pc'[c] = "created"
      /\ \A d \in Calls \ {c} : pc'[d] = pc[d]
  BY <1>t DEF Swap, Goto, TypeOK
<1>3. TypeOK'
  BY <1>t, <1>1, <1>2 DEF Swap, TypeOK, N
<1>4. Unique'
  <2>1. \A p \in 1..N : /\ users[p].id # user[c].id
                        /\ users[p].name # user[c].name
                        /\ users[p].ident = user[c].ident => users[p].ident = NoIdent
    BY <1>t DEF Progress
  <2>2. \A p \in 1..N + 1 : p \in 1..N \/ p = N + 1
    BY <1>t
  <2>3. QED
    BY <1>t, <1>1, <2>1, <2>2 DEF Unique
<1>5. AllKeyed'
  <2>1. Keyed(Maps(c), user[c], N + 1)
    BY <1>t DEF Progress
  <2>2. \A p \in 1..N : Keyed(Maps(c), users[p], p)
    BY <1>t DEF AllKeyed, Maps, Shares, UpToDate
  <2>3. \A p \in 1..N + 1 : p \in 1..N \/ p = N + 1
    BY <1>t
  <2>4. QED
    BY <1>1, <1>2, <2>1, <2>2, <2>3 DEF AllKeyed
<1>6. ASSUME NEW d \in Calls \ {c} PROVE Progress(d)'
  <2>1. Progress(d) /\ user[d].id = d /\ user[c].id = c /\ loaded[d] \in Nat
    BY <1>t DEF IInv, Progress, TypeOK
  <2>2. ~UpToDate(d)'
    BY <1>t, <1>1, <1>2, <2>1 DEF UpToDate, Progress
  <2>3. pc[d] # "created" => \A p \in 1..N + 1 : users'[p].id # d
    BY <1>t, <1>1, <2>1 DEF Progress
  <2>4. pc[d] = "created" => \E p \in 1..N + 1 : users'[p] = user[d]
    BY <1>t, <1>1, <2>1 DEF Progress
  <2>5. QED
    BY <1>t, <1>1, <1>2, <2>1, <2>2, <2>3, <2>4 DEF Progress
<1>7. Progress(c)'
  BY <1>t, <1>1, <1>2 DEF Progress, UpToDate
<1>8. QED
  BY <1>3, <1>4, <1>5, <1>6, <1>7 DEF IInv

\* Every step keeps the invariant.
LEMMA NextIInv == IInv /\ [Next]_vars => IInv'
<1> SUFFICES ASSUME IInv, [Next]_vars PROVE IInv'
  OBVIOUS
<1>1. CASE UNCHANGED vars
  BY <1>1 DEF vars, IInv, TypeOK, Unique, AllKeyed, Keyed, Progress, UpToDate, Maps, Shares, N
<1>2. CASE Next
  BY <1>2, QuietStep, MapStep, SwapStep DEF Next, Step
<1>3. QED
  BY <1>1, <1>2

\* The invariant holds in every behaviour.
THEOREM Invariance == Spec => []IInv
BY InitIInv, NextIInv, PTL DEF Spec

\* The variables of the store keep their types.
THEOREM TypeCorrect == Spec => []TypeOK
<1>1. IInv => TypeOK
  BY DEF IInv
<1>2. QED
  BY <1>1, Invariance, PTL

\* Names and identities are never given twice.
THEOREM OneUserEachHolds == Spec => []OneUserEach
<1>1. IInv => OneUserEach
  BY DEF IInv, Unique, OneUserEach, N
<1>2. QED
  BY <1>1, Invariance, PTL

\* A session keeps finding its user.
THEOREM SessionsFindTheirUser == Spec => []IdFindsUser
<1>1. ASSUME IInv, NEW c \in Calls, pc[c] = "created"
      PROVE  UserById(c) = {user[c]}
  <2>1. PICK p \in 1..N : users[p] = user[c] /\ user[c].id = c
    BY <1>1 DEF IInv, Progress
  <2>2. index.id[c] = p
    BY <1>1, <2>1 DEF IInv, AllKeyed, Keyed
  <2>3. users # <<>> /\ p > 0
    BY <2>1 DEF N
  <2>4. QED
    BY <2>1, <2>2, <2>3 DEF UserById
<1>2. IInv => IdFindsUser
  BY <1>1 DEF IdFindsUser
<1>3. QED
  BY <1>2, Invariance, PTL

\* Published users never change.
THEOREM UsersNeverChange == Spec => UsersStay
<1> DEFINE Stay == /\ Len(users) <= Len(users')
                   /\ \A p \in 1..Len(users) : users'[p] = users[p]
<1>1. ASSUME IInv, [Next]_vars PROVE Stay \/ UNCHANGED users
  <2>1. users \in Seq(User)
    BY <1>1 DEF IInv, TypeOK
  <2>2. ASSUME NEW c \in Calls, Swap(c) PROVE Stay
    <3>1. user[c] \in User /\ users' = Append(users, user[c])
      BY <1>1, <2>2 DEF IInv, TypeOK, Swap
    <3>2. QED
      BY <2>1, <3>1
  <2>3. CASE UNCHANGED users
    BY <2>3
  <2>4. QED
    BY <1>1, <2>2, <2>3 DEF vars, Next, Step, Load, Hit, NameHit, Miss, Clone, NameCheck,
       AddIndex, SwapFails, RaceSeen
<1>2. IInv /\ [Next]_vars => [Stay]_users
  BY <1>1
<1>3. QED
  BY <1>2, Invariance, PTL DEF Spec, UsersStay

------------------------------------------------------------------------------
(* Log-in.                                                                 *)

\* A step of the store or of a log-in is one of UserStore, or leaves it alone.
LEMMA StepOfStore ==
  ASSUME [LoginNext]_<<vars, loginVars>>
  PROVE  [Next]_vars
<1>1. ASSUME NEW c \in Calls, StoreStep(c), ~fatal PROVE Next
  BY <1>1 DEF StoreStep, Next
<1>2. ASSUME NEW l \in Logins, NEW s \in Sessions, HandleStart(l, s) PROVE UNCHANGED vars
  BY <1>2 DEF HandleStart
<1>3. ASSUME NEW l \in Logins, NonceExpires(l) \/ HandleAuthorizationCode(l) \/ Retry(l)
                               \/ Refuse(l) \/ LogIn(l)
      PROVE  UNCHANGED vars
  BY <1>3 DEF NonceExpires, HandleAuthorizationCode, Retry, Refuse, LogIn
<1>4. ASSUME NEW s \in Sessions, LogOut(s) PROVE UNCHANGED vars
  BY <1>4 DEF LogOut
<1>5. QED
  BY <1>1, <1>2, <1>3, <1>4 DEF LoginNext

\* The composition implements the component: whatever log-ins do, the store
\* sees behaviours of UserStore only, and keeps all that is proved of those.
THEOREM StoreRefined == LoginSpec => Spec
<1>1. LoginInit => Init
  BY DEF LoginInit
<1>2. QED
  BY <1>1, StepOfStore, PTL DEF LoginSpec, Spec

------------------------------------------------------------------------------
(* The inductive invariant.                                                *)

\* A call that returns a user returns the position of one.
Found ==
  /\ found \in [Calls -> Nat]
  /\ \A c \in Calls : pc[c] \in {"created", "loaded"} => found[c] \in 1..N

\* A log-in that is at the store, or has been, has a call there.
Asked == \A l \in Logins : at[l] = "storing" => calls[l] # <<>>

\* A session is bound to the id of a published user.
Bound == \A s \in Sessions : loggedIn[s] # NoUser => \E p \in 1..N : users[p].id = loggedIn[s]

LInv == IInv /\ LoginTypeOK /\ Found /\ Asked /\ Bound

\* The store publishes users and takes none back.
LEMMA UsersGrow ==
  ASSUME IInv, [Next]_vars
  PROVE  /\ N \in Nat /\ N' \in Nat /\ N <= N'
         /\ \A p \in 1..N : users'[p] = users[p]
<1>1. users \in Seq(User) /\ N \in Nat
  BY DEF IInv, TypeOK, N
<1>2. ASSUME NEW c \in Calls, Swap(c)
      PROVE  N' = N + 1 /\ \A p \in 1..N : users'[p] = users[p]
  <2>1. user[c] \in User /\ users' = Append(users, user[c])
    BY <1>2 DEF IInv, TypeOK, Swap
  <2>2. QED
    BY <1>1, <2>1 DEF N
<1>3. CASE UNCHANGED users
  BY <1>1, <1>3 DEF N
<1>4. QED
  BY <1>1, <1>2, <1>3 DEF vars, Next, Step, Load, Hit, NameHit, Miss, Clone, NameCheck,
     AddIndex, SwapFails, RaceSeen

\* Steps of the store keep the positions it has returned.
LEMMA FoundStays ==
  ASSUME IInv, Found, [Next]_vars
  PROVE  Found'
<1>g. N \in Nat /\ N' \in Nat /\ N <= N'
  BY UsersGrow
<1>t. pc \in [Calls -> {"loading", "checking", "cloning", "naming", "adding", "swapping",
                        "created", "loaded", "duplicated", "panicked"}]
  BY DEF IInv, TypeOK
<1>1. ASSUME NEW c \in Calls, Hit(c) PROVE Found'
  <2>1. index.ident[user[c].ident] \in Nat /\ loaded[c] <= N /\ loaded[c] \in Nat
    BY <1>1 DEF Hit, IInv, TypeOK, Index, User, Progress
  <2>2. QED
    BY <1>g, <1>t, <1>1, <2>1 DEF Hit, Goto, Found, N
<1>2. ASSUME NEW c \in Calls, Swap(c) PROVE Found'
  <2>1. users \in Seq(User) /\ user[c] \in User /\ users' = Append(users, user[c])
    BY <1>2 DEF IInv, TypeOK, Swap
  <2>2. Len(users') = N + 1 /\ N' = N + 1
    BY <2>1 DEF N
  <2>3. QED
    BY <1>g, <1>t, <1>2, <2>2 DEF Swap, Goto, Found
<1>3. ASSUME NEW c \in Calls, Load(c) \/ NameHit(c) \/ Miss(c) \/ Clone(c) \/ NameCheck(c)
                              \/ AddIndex(c) \/ SwapFails(c) \/ RaceSeen(c)
      PROVE  Found'
  BY <1>g, <1>t, <1>3 DEF Load, NameHit, Miss, Clone, NameCheck, AddIndex, SwapFails, RaceSeen,
     Goto, Found, N
<1>4. CASE UNCHANGED vars
  BY <1>4 DEF vars, Found, N
<1>5. QED
  BY <1>1, <1>2, <1>3, <1>4 DEF Next, Step

\* Users that are only added keep a session bound.
LEMMA BoundStays ==
  ASSUME IInv, Bound, [Next]_vars, UNCHANGED loggedIn
  PROVE  Bound'
<1>1. /\ N \in Nat /\ N' \in Nat /\ N <= N'
      /\ \A p \in 1..N : users'[p] = users[p]
  BY UsersGrow
<1>2. QED
  BY <1>1 DEF Bound

\* The invariant holds at first, ...
LEMMA LoginInitInv ==
  ASSUME LoginInit, Sessions # {}
  PROVE  LInv
<1>1. IInv
  BY InitIInv DEF LoginInit
<1>2. (CHOOSE s \in Sessions : TRUE) \in Sessions
  OBVIOUS
<1>3. LoginTypeOK
  BY <1>2, MaxTriesAssumption DEF LoginInit, LoginTypeOK
<1>4. Found /\ Asked /\ Bound
  BY DEF LoginInit, Init, Found, Asked, Bound
<1>5. QED
  BY <1>1, <1>3, <1>4 DEF LInv

\* ... and every step keeps it.
LEMMA LoginNextInv ==
  ASSUME LInv, [LoginNext]_<<vars, loginVars>>
  PROVE  LInv'
<1>s. [Next]_vars
  BY StepOfStore
<1>1. IInv' /\ Found'
  BY <1>s, NextIInv, FoundStays DEF LInv
<1>t. LoginTypeOK
  BY DEF LInv
<1>a. ASSUME NEW l \in Logins, NEW c \in Calls, Asks(l, c)
      PROVE  /\ calls' \in [Logins -> Seq(Calls)]
             /\ calls'[l] # <<>> /\ \A k \in Logins \ {l} : calls'[k] = calls[k]
  <2>1. calls \in [Logins -> Seq(Calls)]
    BY <1>t DEF LoginTypeOK
  <2>2. calls[l] \in Seq(Calls)
    BY <2>1
  <2>3. ASSUME NEW t \in Seq(Calls) PROVE Append(t, c) \in Seq(Calls) /\ Append(t, c) # <<>>
    BY AppendProperties
  <2>4. calls' = [calls EXCEPT ![l] = Append(calls[l], c)]
    BY <1>a DEF Asks
  <2>5. QED
    BY <2>1, <2>2, <2>3, <2>4
<1>2. CASE UNCHANGED loginVars
  BY <1>1, <1>2, <1>s, BoundStays DEF loginVars, LInv, LoginTypeOK, Asked
<1>3. ASSUME NEW l \in Logins, NEW s \in Sessions, HandleStart(l, s) PROVE LInv'
  BY <1>1, <1>3, <1>s, <1>t, BoundStays DEF HandleStart, Moves, LInv, LoginTypeOK, Asked
<1>4. ASSUME NEW l \in Logins, NonceExpires(l) \/ Refuse(l) PROVE LInv'
  BY <1>1, <1>4, <1>s, <1>t, BoundStays DEF NonceExpires, Refuse, Moves, LInv, LoginTypeOK, Asked
<1>5. ASSUME NEW l \in Logins, HandleAuthorizationCode(l) PROVE LInv'
  <2>1. PICK c \in Calls : Asks(l, c)
    BY <1>5 DEF HandleAuthorizationCode
  <2>2. LoginTypeOK' /\ Asked'
    BY <1>5, <1>a, <1>t, <2>1, MaxTriesAssumption
       DEF HandleAuthorizationCode, Moves, LInv, LoginTypeOK, Asked
  <2>3. Bound'
    BY <1>5, <1>s, BoundStays DEF HandleAuthorizationCode, LInv
  <2>4. QED
    BY <1>1, <2>2, <2>3 DEF LInv
<1>6. ASSUME NEW l \in Logins, Retry(l) PROVE LInv'
  <2>1. PICK c \in Calls : Asks(l, c)
    BY <1>6 DEF Retry
  <2>2. tries[l] + 1 \in 0..MaxTries
    BY <1>6, <1>t, MaxTriesAssumption DEF Retry, LoginTypeOK
  <2>3. LoginTypeOK' /\ Asked'
    BY <1>6, <1>a, <1>t, <2>1, <2>2 DEF Retry, LInv, LoginTypeOK, Asked
  <2>4. Bound'
    BY <1>6, <1>s, BoundStays DEF Retry, LInv
  <2>5. QED
    BY <1>1, <2>3, <2>4 DEF LInv
<1>7. ASSUME NEW l \in Logins, LogIn(l) PROVE LInv'
  <2> DEFINE f == found[Call(l)]
  <2>1. Call(l) \in Calls
    <3>1. calls[l] \in Seq(Calls) /\ calls[l] # <<>>
      BY <1>7, <1>t DEF LogIn, Moves, LInv, Asked, LoginTypeOK
    <3>2. QED
      BY <3>1 DEF Call
  <2>2. f \in 1..N
    BY <1>7, <2>1 DEF LogIn, LInv, Found
  <2>3. users[f] \in User
    BY <2>2 DEF LInv, IInv, TypeOK, N
  <2>4. users[f].id \in Calls
    BY <2>3 DEF User
  <2>5. session[l] \in Sessions
    BY <1>t DEF LoginTypeOK
  <2>6. UNCHANGED vars /\ N' = N
    BY <1>7 DEF LogIn, vars, N
  <2>7. LoginTypeOK' /\ Asked'
    BY <1>7, <1>t, <2>4, <2>5 DEF LogIn, Moves, LInv, LoginTypeOK, Asked
  <2>8. Bound'
    BY <1>7, <1>t, <2>2, <2>5, <2>6 DEF LogIn, LInv, Bound, LoginTypeOK, vars
  <2>9. QED
    BY <1>1, <2>7, <2>8 DEF LInv
<1>8. ASSUME NEW s \in Sessions, LogOut(s) PROVE LInv'
  <2>1. UNCHANGED vars /\ N' = N
    BY <1>8 DEF LogOut, vars, N
  <2>2. LoginTypeOK' /\ Asked'
    BY <1>8, <1>t DEF LogOut, LInv, LoginTypeOK, Asked
  <2>3. Bound'
    BY <1>8, <1>t, <2>1 DEF LogOut, LInv, Bound, LoginTypeOK, vars
  <2>4. QED
    BY <1>1, <2>2, <2>3 DEF LInv
<1>9. QED
  BY <1>2, <1>3, <1>4, <1>5, <1>6, <1>7, <1>8 DEF LoginNext, StoreStep

\* The invariant holds in every behaviour.
THEOREM LoginInvariance ==
  ASSUME Sessions # {}
  PROVE  LoginSpec => []LInv
<1>1. LoginInit => LInv
  BY LoginInitInv
<1>2. LInv /\ [LoginNext]_<<vars, loginVars>> => LInv'
  BY LoginNextInv
<1>3. QED
  BY <1>1, <1>2, PTL DEF LoginSpec

\* The variables of the log-ins keep their types; a session has at most one user
\* and it is one that a call of the store created.
THEOREM LoginTypeCorrect ==
  ASSUME Sessions # {}
  PROVE  LoginSpec => []LoginTypeOK
<1>1. LInv => LoginTypeOK
  BY DEF LInv
<1>2. QED
  BY <1>1, LoginInvariance, PTL

\* A session that is logged in finds its user by the id it is bound to, at any
\* later time and whatever other log-ins write to the index.
THEOREM SessionsAlwaysResolve ==
  ASSUME Sessions # {}
  PROVE  LoginSpec => []SessionsResolve
<1>1. ASSUME LInv, NEW s \in Sessions, loggedIn[s] # NoUser
      PROVE  \E u \in UserById(loggedIn[s]) : u.id = loggedIn[s]
  <2>1. PICK p \in 1..N : users[p].id = loggedIn[s]
    BY <1>1 DEF LInv, Bound
  <2>2. index.id[loggedIn[s]] = p
    BY <1>1, <2>1 DEF LInv, IInv, AllKeyed, Keyed
  <2>3. users # <<>> /\ p > 0
    BY <2>1 DEF N
  <2>4. UserById(loggedIn[s]) = {users[p]}
    BY <2>2, <2>3 DEF UserById
  <2>5. QED
    BY <2>1, <2>4
<1>2. LInv => SessionsResolve
  BY <1>1 DEF SessionsResolve
<1>3. QED
  BY <1>2, LoginInvariance, PTL
==============================================================================
