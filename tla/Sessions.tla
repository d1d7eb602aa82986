------------------------------ MODULE Sessions ------------------------------
(***************************************************************************)
(* account-service: authService, the sessions of the platform.  A user has *)
(* one refresh token at a time, in the Redis key refresh:<userId>; signing *)
(* in or refreshing replaces it.                                           *)
(*                                                                         *)
(* Each action is the code between two awaits and pc[r] names the await    *)
(* request r is at.  A token is named by the request that generated it     *)
(* (tokenId is a random UUID, so every request makes another one).         *)
(*                                                                         *)
(* Faults: "fail" an await throws or the process dies, and a write may     *)
(* have been applied; "resend" ioredis sends a SETEX again after its       *)
(* answer was lost; "late" a session reaches its 7 days.                   *)
(***************************************************************************)
EXTENDS Naturals, FiniteSets

CONSTANTS
    Users,          \* users, each with an e-mail address of its own
    Requests,       \* requests to /auth
    Faults,
    Undefined,      \* what req.userId is when no middleware has set it
    None

ASSUME NamesAreDistinct ==
    None \notin Requests /\ Undefined \notin Users

VARIABLES
    call,           \* what a request asks: operation, user, token presented
    pc,             \* the await the request is at
    outcome,        \* its answer
    users,          \* rows of the users table
    accounts,       \* for each user, the requests that made an account
    refresh,        \* the keys refresh:<userId>
    \* --- history
    before          \* the requests that had ended when this one came

storeVars == <<users, accounts, refresh>>
vars == <<call, pc, outcome, storeVars, before>>

-----------------------------------------------------------------------------
(* Vocabulary                                                              *)

Operations == {"register", "login", "refresh", "logout"}
NoCall == [op |-> "none", user |-> None, token |-> None]

Op(r)    == call[r].op
User(r)  == call[r].user
Token(r) == call[r].token

SignsIn(r) == Op(r) \in {"register", "login"}

Ended == {r \in Requests : pc[r] = "done"}

\* The client has the tokens of an answer that carries them.
Issued(u) == {r \in Requests : /\ pc[r] = "done" /\ outcome[r] = "ok"
                               /\ User(r) = u /\ Op(r) # "logout"}

\* The writes that a failing await may have applied all the same.
Writing == {"create", "store", "insert"}
Working == Writing \cup {"find", "primary", "get", "findUser", "del"}

Init ==
    /\ call = [r \in Requests |-> NoCall]
    /\ pc = [r \in Requests |-> "idle"]
    /\ outcome = [r \in Requests |-> "none"]
    /\ users = {}
    /\ accounts = [u \in Users |-> {}]
    /\ refresh = [k \in Users \cup {Undefined} |-> None]
    /\ before = [r \in Requests |-> {}]

Goto(r, l) == pc' = [pc EXCEPT ![r] = l] /\ UNCHANGED outcome
Finish(r, o) ==
    pc' = [pc EXCEPT ![r] = "done"] /\ outcome' = [outcome EXCEPT ![r] = o]

-----------------------------------------------------------------------------
(* A request arrives                                                       *)

FirstAwait(op) == CASE op = "refresh" -> "get"
                    [] op = "logout"  -> "del"
                    [] OTHER          -> "find"

\* Refreshing takes a token the user was given, and so does the access token
\* that logging out takes.  A token too old for jwt.verify is refused at once.
Begin(r) ==
    /\ pc[r] = "idle"
    /\ \E op \in Operations, u \in Users, t \in Requests \cup {None} :
          /\ IF op = "refresh" THEN t \in Issued(u) ELSE t = None
          /\ op = "logout" => Issued(u) # {}
          /\ call' = [call EXCEPT ![r] = [op |-> op, user |-> u, token |-> t]]
          /\ \/ Goto(r, FirstAwait(op))
             \/ op = "refresh" /\ "late" \in Faults /\ Finish(r, "denied")
    /\ before' = [before EXCEPT ![r] = Ended]
    /\ UNCHANGED storeVars

-----------------------------------------------------------------------------
(* register and login                                                      *)

\* A registered address is refused; a login may have the wrong password.
FindByEmail(r) ==
    /\ pc[r] = "find"
    /\ \/ Op(r) = "register" /\ User(r) \in users    /\ Finish(r, "taken")
       \/ Op(r) = "register" /\ User(r) \notin users /\ Goto(r, "create")
       \/ Op(r) = "login" /\ User(r) \in users       /\ Goto(r, "store")
       \/ Op(r) = "login"                            /\ Finish(r, "denied")
    /\ UNCHANGED <<call, storeVars, before>>

Unchecked(u) == TRUE                    \* mutant: email without UNIQUE

\* users.email is UNIQUE.
EmailIsFree(u) == u \notin users

CreateUser(r) ==
    /\ pc[r] = "create"
    /\ \/ /\ EmailIsFree(User(r))
          /\ users' = users \cup {User(r)}
          /\ Goto(r, "store")
       \/ ~EmailIsFree(User(r)) /\ UNCHANGED users /\ Finish(r, "error")
    /\ UNCHANGED <<call, accounts, refresh, before>>

KeepPresented(r) ==                     \* mutant: refresh stores what it was given
    [refresh EXCEPT ![User(r)] = IF Op(r) = "refresh" THEN Token(r) ELSE r]

\* SETEX refresh:<userId>: the new token takes the place of whatever is there.
Stored(r) == [refresh EXCEPT ![User(r)] = r]

StoreToken(r) ==
    /\ pc[r] = "store"
    /\ refresh' = Stored(r)
    /\ IF SignsIn(r) THEN Goto(r, "primary") ELSE Finish(r, "ok")
    /\ UNCHANGED <<call, users, accounts, before>>

NotLooking(u) == {}                     \* mutant: INSERT without the SELECT

\* The accounts that the SELECT of getOrCreatePrimaryAccount finds.
Existing(u) == accounts[u]

FindPrimary(r) ==
    /\ pc[r] = "primary"
    /\ IF Existing(User(r)) = {} THEN Goto(r, "insert") ELSE Finish(r, "ok")
    /\ UNCHANGED <<call, storeVars, before>>

InsertPrimary(r) ==
    /\ pc[r] = "insert"
    /\ accounts' = [accounts EXCEPT ![User(r)] = @ \cup {r}]
    /\ Finish(r, "ok")
    /\ UNCHANGED <<call, users, refresh, before>>

-----------------------------------------------------------------------------
(* refresh and logout                                                      *)

AnySession(r) == refresh[User(r)] # None   \* mutant: a session exists, whichever

\* The presented token is the one that is stored.
IsCurrent(r) == refresh[User(r)] = Token(r)

CheckStored(r) ==
    /\ pc[r] = "get"
    /\ IF IsCurrent(r) THEN Goto(r, "findUser") ELSE Finish(r, "denied")
    /\ UNCHANGED <<call, storeVars, before>>

\* users.is_active has no writer that is called, so the row decides.
FindById(r) ==
    /\ pc[r] = "findUser"
    /\ IF User(r) \in users THEN Goto(r, "store") ELSE Finish(r, "denied")
    /\ UNCHANGED <<call, storeVars, before>>

\* POST /auth/logout runs without the middleware that sets req.userId, so
\* the key the handler deletes is the same for every user.
LogoutKey(r) == Undefined

Logout(r) ==
    /\ pc[r] = "del"
    /\ refresh' = [refresh EXCEPT ![LogoutKey(r)] = None]
    /\ Finish(r, "ok")
    /\ UNCHANGED <<call, users, accounts, before>>

-----------------------------------------------------------------------------
(* What else may happen                                                    *)

Swallow(r) == Finish(r, "ok")           \* mutant: .catch(() => {}) on the SETEX

\* An await that throws ends in the error handler: 500.
Thrown(r) == Finish(r, "error")

Fail(r) ==
    /\ "fail" \in Faults
    /\ pc[r] \in Working
    /\ Thrown(r)
    /\ UNCHANGED <<call, storeVars, before>>

\* The write was applied, its answer never came.
FailAfterWrite(r) ==
    /\ "fail" \in Faults
    /\ pc[r] \in Writing
    /\ \/ /\ pc[r] = "create" /\ EmailIsFree(User(r))
          /\ users' = users \cup {User(r)}
          /\ UNCHANGED <<accounts, refresh>>
       \/ /\ pc[r] = "store"
          /\ refresh' = Stored(r)
          /\ UNCHANGED <<users, accounts>>
       \/ /\ pc[r] = "insert"
          /\ accounts' = [accounts EXCEPT ![User(r)] = @ \cup {r}]
          /\ UNCHANGED <<users, refresh>>
    /\ Thrown(r)
    /\ UNCHANGED <<call, before>>

\* The SETEX is applied and will be applied again.
StoreResent(r) ==
    /\ "resend" \in Faults
    /\ pc[r] = "store"
    /\ refresh' = Stored(r)
    /\ UNCHANGED <<call, pc, outcome, users, accounts, before>>

Expire(u) ==
    /\ "late" \in Faults
    /\ refresh[u] # None
    /\ refresh' = [refresh EXCEPT ![u] = None]
    /\ UNCHANGED <<call, pc, outcome, users, accounts, before>>

Terminated ==
    /\ \A r \in Requests : pc[r] = "done"
    /\ UNCHANGED vars

Step(r) ==
    \/ Begin(r) \/ FindByEmail(r) \/ CreateUser(r) \/ StoreToken(r)
    \/ FindPrimary(r) \/ InsertPrimary(r)
    \/ CheckStored(r) \/ FindById(r) \/ Logout(r)
    \/ Fail(r) \/ FailAfterWrite(r) \/ StoreResent(r)

Next ==
    \/ \E r \in Requests : Step(r)
    \/ \E u \in Users : Expire(u)
    \/ Terminated

Spec == Init /\ [][Next]_vars

-----------------------------------------------------------------------------
(* Properties                                                              *)

Calls ==
    [op : Operations, user : Users, token : Requests \cup {None}] \cup {NoCall}

\* Every variable has the shape the code gives it.
TypeOK ==
    /\ call \in [Requests -> Calls]
    /\ pc \in [Requests -> Working \cup {"idle", "done"}]
    /\ outcome \in [Requests -> {"none", "ok", "taken", "denied", "error"}]
    /\ users \in SUBSET Users
    /\ accounts \in [Users -> SUBSET Requests]
    /\ refresh \in [Users \cup {Undefined} -> Requests \cup {None}]
    /\ before \in [Requests -> SUBSET Requests]

\* Two registrations of one address never both succeed, however they overlap
\* between the look-up and the INSERT (auth.service.ts:36-42).
OneRegistration ==
    \A r, q \in Requests :
        /\ Op(r) = "register" /\ outcome[r] = "ok"
        /\ Op(q) = "register" /\ outcome[q] = "ok"
        /\ User(r) = User(q)
        => r = q

\* getOrCreatePrimaryAccount has no unique constraint to lean on: a user gets a
\* second account, but only from sign-ins that overlapped (auth.repository.ts:38).
SecondAccountOnlyByOverlap ==
    \A u \in Users : \A r, q \in accounts[u] : r \notin before[q]

\* A confirmed session is there until it expires or until a request that had
\* not ended when it came stores its own: an older, finished sign-in never
\* takes a newer session away (auth.service.ts:48,83,114).
SessionsYieldToLaterOnes ==
    \A u \in Users : \A r \in Issued(u) :
        \/ refresh[u] = r
        \/ refresh[u] = None /\ "late" \in Faults
        \/ refresh[u] # None /\ refresh[u] \notin before[r]

\* A token whose request has ended and that is not stored is never stored
\* again, not even by a SETEX that is resent or by a refresh that was under way.
DisplacedForGood ==
    [][\A u \in Users, t \in Requests :
          pc[t] = "done" /\ refresh[u] # t => refresh'[u] # t]_vars

\* A token that has bought new tokens buys no more: two refreshes with one
\* token succeed only if the second passes its check (line 103) before the
\* first has stored (line 114).
OneExchange ==
    [][\A r, q \in Requests :
          /\ pc[r] = "get" /\ pc'[r] = "findUser"
          /\ Op(q) = "refresh" /\ Token(q) = Token(r)
          => outcome[q] # "ok"]_vars

=============================================================================
