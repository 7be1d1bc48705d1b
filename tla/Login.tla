------------------------------- MODULE Login -------------------------------
(***************************************************************************)
(* Log-in of webrtc-server: pkg/handler/handle_github_login.go, with       *)
(* handle_kioutbit_login.go, which differs in what it asks its provider;   *)
(* handle_logout.go, handle_bots_management.go, and pkg/models/login.      *)
(*                                                                         *)
(* A browser with a session starts a log-in and gets a nonce.  It comes    *)
(* back from the provider with the nonce and an identity, which the        *)
(* handler looks up in the user store, or adds to it; when the name is     *)
(* taken it tries other names, each in a call of the store with a uuid of  *)
(* its own.  Then it binds the session to the user.  A nonce is not used   *)
(* up: the browser may come back again until it expires.                   *)
(*                                                                         *)
(* A log-in that its provider refuses, or that comes back with the cookie  *)
(* of another session or with a nonce that has expired, changes nothing    *)
(* and is no step here.                                                    *)
(***************************************************************************)
EXTENDS UserStore

CONSTANTS
  Logins,    \* log-ins started; also the nonce of each
  Sessions,  \* browser sessions, by their cookie
  NoUser,    \* of a session that is not logged in
  MaxTries   \* names tried: 5 in the code

ASSUME NoUserAssumption == NoUser \notin Calls
ASSUME MaxTriesAssumption == MaxTries \in Nat \ {0}

VARIABLES
  at,        \* at[l]: "none", "away" at the provider, "storing", "in", "refused"
  session,   \* session[l]: the session that started l, and its nonce is bound to
  nonces,    \* the nonces that have not expired
  calls,     \* calls[l]: the calls of the store made for l
  tries,     \* tries[l]: how many of them since the browser came back
  loggedIn   \* loggedIn[s]: the id of the user of session s

loginVars == <<at, session, nonces, calls, tries, loggedIn>>

LoginInit ==
  /\ Init
  /\ at = [l \in Logins |-> "none"]
  /\ session = [l \in Logins |-> CHOOSE s \in Sessions : TRUE]
  /\ nonces = {}
  /\ calls = [l \in Logins |-> <<>>]
  /\ tries = [l \in Logins |-> 0]
  /\ loggedIn = [s \in Sessions |-> NoUser]

Moves(l, from, to) ==
  /\ at[l] \in from
  /\ at' = [at EXCEPT ![l] = to]

Call(l) == calls[l][Len(calls[l])]

\* The log-in calls the store with c, with the identity it had before.
Asks(l, c) ==
  /\ \A k \in Logins : \A i \in 1..Len(calls[k]) : calls[k][i] # c
  /\ user[c].ident \in Idents
  /\ calls[l] # <<>> => user[c].ident = user[calls[l][1]].ident
  /\ calls' = [calls EXCEPT ![l] = Append(@, c)]

HandleStart(l, s) ==
  /\ Moves(l, {"none"}, "away")
  /\ session' = [session EXCEPT ![l] = s]
  /\ nonces' = nonces \cup {l}
  /\ UNCHANGED <<vars, calls, tries, loggedIn>>

NonceExpires(l) ==
  /\ nonces' = nonces \ {l}
  /\ nonces # nonces'
  /\ UNCHANGED <<vars, at, session, calls, tries, loggedIn>>

\* The first try is with the name that the provider knows.
HandleAuthorizationCode(l) ==
  /\ l \in nonces
  /\ Moves(l, {"away", "in", "refused"}, "storing")
  /\ \E c \in Calls :
       /\ Asks(l, c)
       /\ calls[l] # <<>> => user[c].name = user[calls[l][1]].name
  /\ tries' = [tries EXCEPT ![l] = 1]
  /\ UNCHANGED <<vars, session, nonces, loggedIn>>

\* The name with a random suffix.
Retry(l) ==
  /\ at[l] = "storing" /\ pc[Call(l)] = "duplicated" /\ tries[l] < MaxTries
  /\ \E c \in Calls : Asks(l, c)
  /\ tries' = [tries EXCEPT ![l] = @ + 1]
  /\ UNCHANGED <<vars, at, session, nonces, loggedIn>>

Refuse(l) ==
  /\ Moves(l, {"storing"}, "refused")
  /\ \/ pc[Call(l)] = "duplicated" /\ tries[l] = MaxTries
     \/ pc[Call(l)] = "panicked"
  /\ UNCHANGED <<vars, session, nonces, calls, tries, loggedIn>>

\* Mutant: the id of the user that was to be created, not of the one loaded.
LogInNewUser(l) ==
  /\ Moves(l, {"storing"}, "in")
  /\ pc[Call(l)] \in {"created", "loaded"}
  /\ loggedIn' = [loggedIn EXCEPT ![session[l]] = user[Call(l)].id]
  /\ UNCHANGED <<vars, session, nonces, calls, tries>>

LogIn(l) ==
  /\ Moves(l, {"storing"}, "in")
  /\ pc[Call(l)] \in {"created", "loaded"}
  /\ loggedIn' = [loggedIn EXCEPT ![session[l]] = users[found[Call(l)]].id]
  /\ UNCHANGED <<vars, session, nonces, calls, tries>>

\* Mutant: an empty id is stored, and the entry is not deleted.
LogOutStores(s) ==
  /\ loggedIn[s] # NoUser
  /\ loggedIn' = [loggedIn EXCEPT ![s] = NoIdent]
  /\ UNCHANGED <<vars, at, session, nonces, calls, tries>>

LogOut(s) ==
  /\ loggedIn[s] # NoUser
  /\ loggedIn' = [loggedIn EXCEPT ![s] = NoUser]
  /\ UNCHANGED <<vars, at, session, nonces, calls, tries>>

\* A call of the store, of a log-in or by handleAddBot.
StoreStep(c) ==
  /\ user[c].ident = NoIdent \/ \E l \in Logins : at[l] = "storing" /\ Call(l) = c
  /\ Step(c)
  /\ UNCHANGED loginVars

LoginNext ==
  /\ ~fatal
  /\ \/ \E l \in Logins :
          \/ \E s \in Sessions : HandleStart(l, s)
          \/ NonceExpires(l) \/ HandleAuthorizationCode(l)
          \/ Retry(l) \/ Refuse(l) \/ LogIn(l)
     \/ \E s \in Sessions : LogOut(s)
     \/ \E c \in Calls : StoreStep(c)

LoginSpec == LoginInit /\ [][LoginNext]_<<vars, loginVars>>

------------------------------------------------------------------------------
(* Properties.                                                             *)

\* Its own variables keep their types: a session is bound to the uuid of a call.
LoginTypeOK ==
  /\ at \in [Logins -> {"none", "away", "storing", "in", "refused"}]
  /\ session \in [Logins -> Sessions]
  /\ nonces \subseteq Logins
  /\ calls \in [Logins -> Seq(Calls)]
  /\ tries \in [Logins -> 0..MaxTries]
  /\ loggedIn \in [Sessions -> Calls \cup {NoUser}]

\* A session that is logged in has a user, whichever of the tries of its log-in
\* created it or whoever did, and for as long as it is logged in, though other
\* log-ins write to the maps it is found by (handle_github_login.go:262-289,
\* user.go:167-174).
SessionsResolve ==
  \A s \in Sessions : loggedIn[s] # NoUser =>
    \E u \in UserById(loggedIn[s]) : u.id = loggedIn[s]
==============================================================================
