----------------------------- MODULE UserStore ------------------------------
(***************************************************************************)
(* webrtc-server/pkg/models/user: the accounts, in memory.                 *)
(*                                                                         *)
(* The store is an atomic pointer to a value that is never changed once it *)
(* is published: to add a user a goroutine clones the store it loaded, adds*)
(* the user to the clone and swaps the pointer, or starts over when        *)
(* somebody else swapped it first.                                         *)
(*                                                                         *)
(* Clone copies the users but not the index maps: `*newStore = *store'     *)
(* makes every clone share the maps of the store it was cloned from.  Only *)
(* a clone of the nil store has maps of its own.  So all published stores  *)
(* have the same maps, and a goroutine writes to them before it knows      *)
(* whether its swap will succeed.                                          *)
(*                                                                         *)
(* The users only grow, and the store is nil while there is none, so the   *)
(* number of users stands for the pointer.  Positions count from 1, and 0  *)
(* is a key that is not in the map.                                        *)
(***************************************************************************)
EXTENDS Naturals, Sequences

CONSTANTS
  Calls,     \* calls of the store, each by a goroutine; also the uuid each draws
  Names,     \* user names
  Idents,    \* GitHub ids and DN42 ASNs
  NoIdent    \* the identity of a bot

ASSUME NoIdentAssumption == NoIdent \notin Idents

VARIABLES
  users,     \* the users of the published store
  index,     \* its index maps
  own,       \* own[c]: the maps of the clone of a nil store
  loaded,    \* loaded[c]: how many users the store had that the call loaded
  user,      \* user[c]: the user it looks for or adds
  pc,        \* pc[c]: where the call stands, or how it ended
  found,     \* found[c]: the position of the user it returns
  fatal      \* the runtime saw an unsynchronized access and ended the process

vars == <<users, index, own, loaded, user, pc, found, fatal>>

User == [id : Calls, name : Names, ident : Idents \cup {NoIdent}]

\* IndexById, IndexByUsername, and IndexByGithubId with IndexByDN42ASN: their
\* keys are apart, and nobody looks up the empty key of the users without one.
Index == [id : [Calls -> Nat], name : [Names -> Nat], ident : [Idents -> Nat]]

NoIndex == [id |-> [c \in Calls |-> 0], name |-> [n \in Names |-> 0],
            ident |-> [i \in Idents |-> 0]]

Init ==
  /\ users = <<>>
  /\ index = NoIndex
  /\ own = [c \in Calls |-> NoIndex]
  /\ loaded = [c \in Calls |-> 0]
  /\ user \in [Calls -> User] /\ \A c \in Calls : user[c].id = c
  /\ pc = [c \in Calls |-> "loading"]
  /\ found = [c \in Calls |-> 0]
  /\ fatal = FALSE

Goto(c, from, to) ==
  /\ pc[c] = from
  /\ pc' = [pc EXCEPT ![c] = to]

\* The maps of the clone that c works on, and c leaving them as m.
Shares(c) == loaded[c] > 0

Maps(c) == IF Shares(c) THEN index ELSE own[c]

SetMaps(c, m) ==
  /\ index' = IF Shares(c) THEN m ELSE index
  /\ own' = IF Shares(c) THEN own ELSE [own EXCEPT ![c] = m]

\* updateIndex(u, p).
Indexed(m, u, p) ==
  [id    |-> [m.id EXCEPT ![u.id] = p],
   name  |-> [m.name EXCEPT ![u.name] = p],
   ident |-> [i \in Idents |-> IF i = u.ident THEN p ELSE m.ident[i]]]

\* updateIndex(users[p], p) for each p up to n, in order.
LastOf(S, else) == IF S = {} THEN else ELSE CHOOSE p \in S : \A q \in S : q <= p

Reindexed(m, n) ==
  [id    |-> [c \in Calls  |-> LastOf({p \in 1..n : users[p].id = c}, m.id[c])],
   name  |-> [a \in Names  |-> LastOf({p \in 1..n : users[p].name = a}, m.name[a])],
   ident |-> [i \in Idents |-> LastOf({p \in 1..n : users[p].ident = i}, m.ident[i])]]

------------------------------------------------------------------------------
(* A call: LoadOrCreateNewUserByGithubId or ...ByDN42ASN for a user with an *)
(* identity, CreateUser for a bot.                                          *)

\* `oldStore := store.Load()'
Load(c) ==
  /\ Goto(c, "loading", "checking")
  /\ loaded' = [loaded EXCEPT ![c] = Len(users)]
  /\ UNCHANGED <<users, index, own, user, found, fatal>>

\* The lookup before the attempt.  &oldStore.Users[idx] panics, and fails the
\* request, when the index points past the users of the store it was loaded
\* with.
Hit(c) ==
  LET p == index.ident[user[c].ident] IN
  /\ Shares(c) /\ user[c].ident # NoIdent /\ p > 0
  /\ IF p <= loaded[c]
     THEN Goto(c, "checking", "loaded") /\ found' = [found EXCEPT ![c] = p]
     ELSE Goto(c, "checking", "panicked") /\ UNCHANGED found
  /\ UNCHANGED <<users, index, own, loaded, user, fatal>>

NameHit(c) ==
  /\ Shares(c) /\ user[c].ident = NoIdent /\ index.name[user[c].name] > 0
  /\ Goto(c, "checking", "duplicated")
  /\ UNCHANGED <<users, index, own, loaded, user, found, fatal>>

Miss(c) ==
  /\ Shares(c) => IF user[c].ident = NoIdent THEN index.name[user[c].name] = 0
                                             ELSE index.ident[user[c].ident] = 0
  /\ Goto(c, "checking", "cloning")
  /\ UNCHANGED <<users, index, own, loaded, user, found, fatal>>

\* AddUser, in three steps on the maps.
Clone(c) ==
  /\ Goto(c, "cloning", "naming")
  /\ SetMaps(c, Reindexed(IF Shares(c) THEN index ELSE NoIndex, loaded[c]))
  /\ UNCHANGED <<users, loaded, user, found, fatal>>

\* Mutant: AddUser relies on the check its callers made.
NameCheckSkipped(c) ==
  /\ Goto(c, "naming", "adding")
  /\ UNCHANGED <<users, index, own, loaded, user, found, fatal>>

NameCheck(c) ==
  /\ Goto(c, "naming", IF Maps(c).name[user[c].name] > 0 THEN "duplicated" ELSE "adding")
  /\ UNCHANGED <<users, index, own, loaded, user, found, fatal>>

AddIndex(c) ==
  /\ Goto(c, "adding", "swapping")
  /\ SetMaps(c, Indexed(Maps(c), user[c], loaded[c] + 1))
  /\ UNCHANGED <<users, loaded, user, found, fatal>>

\* CompareAndSwap
Swap(c) ==
  /\ Len(users) = loaded[c]
  /\ Goto(c, "swapping", "created")
  /\ users' = Append(users, user[c])
  /\ index' = Maps(c)
  /\ found' = [found EXCEPT ![c] = Len(users')]
  /\ UNCHANGED <<own, loaded, user, fatal>>

SwapFails(c) ==
  /\ Len(users) # loaded[c]
  /\ Goto(c, "swapping", "loading")
  /\ UNCHANGED <<users, index, own, loaded, user, found, fatal>>

Reads(c) == Shares(c) /\ pc[c] \in {"checking", "naming"}
Writes(c) == Shares(c) /\ pc[c] \in {"cloning", "adding"}

\* An access to a map while another goroutine writes to it: the runtime stops
\* the process when it notices.
RaceSeen(c) ==
  /\ Writes(c)
  /\ \E d \in Calls \ {c} : Reads(d) \/ Writes(d)
  /\ fatal' = TRUE
  /\ UNCHANGED <<users, index, own, loaded, user, pc, found>>

Step(c) ==
  \/ Load(c) \/ Hit(c) \/ NameHit(c) \/ Miss(c)
  \/ Clone(c) \/ NameCheck(c) \/ AddIndex(c) \/ Swap(c) \/ SwapFails(c)
  \/ RaceSeen(c)

Next == ~fatal /\ \E c \in Calls : Step(c)

Spec == Init /\ [][Next]_vars

------------------------------------------------------------------------------
(* Properties.                                                             *)

\* The variables keep their types: in particular a clone has maps of its own and
\* never nil ones (user.go:64-82).
TypeOK ==
  /\ users \in Seq(User)
  /\ index \in Index
  /\ own \in [Calls -> Index]
  /\ loaded \in [Calls -> Nat]
  /\ user \in [Calls -> User]
  /\ pc \in [Calls -> {"loading", "checking", "cloning", "naming", "adding", "swapping",
                       "created", "loaded", "duplicated", "panicked"}]
  /\ found \in [Calls -> Nat]
  /\ fatal \in BOOLEAN

\* Whatever the calls write into the maps they share, and in whatever order:
\* two users never have one name, and an identity never has two users
\* (user.go:84-139).
OneUserEach ==
  \A p, q \in 1..Len(users) :
    p # q => /\ users[p].name # users[q].name
             /\ users[p].ident = users[q].ident => users[p].ident = NoIdent

\* GetUserById.
UserById(c) ==
  IF users # <<>> /\ index.id[c] > 0 THEN {users[index.id[c]]} ELSE {}

\* A session, which holds the id of the user it was created for, resolves to
\* that user for ever, though the maps are overwritten by attempts that fail
\* (user.go:167-174).
IdFindsUser ==
  \A c \in Calls : pc[c] = "created" => UserById(c) = {user[c]}

\* A published user stays as it is (user.go:14, 73-79).
UsersStay == [][/\ Len(users) <= Len(users')
                /\ \A p \in 1..Len(users) : users'[p] = users[p]]_users

\* user.go:35: LoadOrCreateNewUserByGithubId "returns (theUser, created, error)":
\* the user it finds is the one with the identity it was asked for.
LoadFindsTheUser ==
  \A c \in Calls : pc[c] = "loaded" => users[found[c]].ident = user[c].ident
==============================================================================
