---------------------------- MODULE SessionProofs ----------------------------
(***************************************************************************)
(* Theorems about Sessions, for any users, any requests and any faults.    *)
(* TypeInv ties the await a request is at to what it asks; each theorem    *)
(* adds to it what it needs of the rows and keys: Presents, RegisteredOnce,*)
(* AccountsInv and Yields.                                                 *)
(***************************************************************************)
EXTENDS Sessions, TLAPS

USE NamesAreDistinct

LEMMA StepCases ==
  ASSUME [Next]_vars
  PROVE  \/ \E r \in Requests : Step(r)
         \/ \E u \in Users : Expire(u)
         \/ UNCHANGED vars
BY DEF Next, Terminated

-----------------------------------------------------------------------------
(* Types                                                                   *)

\* The awaits of each operation.
Awaits ==
    [register |-> {"find", "create", "store", "primary", "insert"},
     login    |-> {"find", "store", "primary", "insert"},
     refresh  |-> {"get", "findUser", "store"},
     logout   |-> {"del"}]

Placed(r) ==
    /\ pc[r] = "idle" => call[r] = NoCall
    /\ pc[r] # "idle" => User(r) \in Users /\ Op(r) \in Operations
    /\ pc[r] \notin {"idle", "done"} => pc[r] \in Awaits[Op(r)]
    /\ pc[r] # "done" => outcome[r] = "none"

TypeInv == TypeOK /\ \A r \in Requests : Placed(r)

LEMMA InitTypes == Init => TypeInv
BY DEF Init, TypeInv, TypeOK, Calls, Placed

\* A step by r that neither begins nor asks anything else.
LEMMA MovesOn ==
  ASSUME TypeInv, NEW r \in Requests, NEW l, NEW o, UNCHANGED call,
         pc[r] # "idle",
         pc' = [pc EXCEPT ![r] = l], outcome' = [outcome EXCEPT ![r] = o],
         \/ l \in Awaits[Op(r)] /\ o = "none"
         \/ l = "done" /\ o \in {"ok", "taken", "denied", "error"}
  PROVE  /\ pc' \in [Requests -> Working \cup {"idle", "done"}]
         /\ outcome' \in [Requests -> {"none", "ok", "taken", "denied", "error"}]
         /\ \A q \in Requests : Placed(q)'
<1>1. Op(r) \in Operations
  BY DEF TypeInv, Placed
<1>2. l \in Working \cup {"done"} /\ l # "idle"
  BY <1>1 DEF Operations, Awaits, Working, Writing
<1>. QED
  BY <1>1, <1>2 DEF TypeInv, TypeOK, Placed, User, Op

LEMMA StepTypes == TypeInv /\ [Next]_vars => TypeInv'
<1>. SUFFICES ASSUME TypeInv, [Next]_vars
              PROVE  TypeInv'
  OBVIOUS
<1>. USE DEF storeVars
<1>1. ASSUME NEW r \in Requests, Begin(r)  PROVE TypeInv'
  <2>1. PICK op \in Operations, u \in Users, t \in Requests \cup {None} :
            /\ call' = [call EXCEPT ![r] = [op |-> op, user |-> u, token |-> t]]
            /\ \/ Goto(r, FirstAwait(op))
               \/ op = "refresh" /\ Finish(r, "denied")
    BY <1>1 DEF Begin
  <2>2. call' \in [Requests -> Calls]
    BY <2>1 DEF TypeInv, TypeOK, Calls
  <2>3. FirstAwait(op) \in Working /\ FirstAwait(op) \in Awaits[op]
    BY DEF FirstAwait, Operations, Awaits, Working, Writing
  <2>4. /\ pc' \in [Requests -> Working \cup {"idle", "done"}]
        /\ outcome' \in [Requests -> {"none", "ok", "taken", "denied", "error"}]
    BY <2>1, <2>3 DEF TypeInv, TypeOK, Goto, Finish
  <2>5. before' \in [Requests -> SUBSET Requests]
    BY <1>1 DEF Begin, TypeInv, TypeOK, Ended
  <2>6. ASSUME NEW q \in Requests  PROVE Placed(q)'
    <3>1. CASE q = r
      <4>1. call'[r] = [op |-> op, user |-> u, token |-> t]
        BY <2>1 DEF TypeInv, TypeOK
      <4>2. \/ pc'[r] = FirstAwait(op) /\ outcome'[r] = outcome[r]
            \/ pc'[r] = "done"
        BY <2>1 DEF TypeInv, TypeOK, Goto, Finish
      <4>. QED
        BY <1>1, <2>3, <3>1, <4>1, <4>2 DEF Begin, TypeInv, Placed, User, Op, Working, Writing
    <3>2. CASE q # r
      <4>1. call'[q] = call[q] /\ pc'[q] = pc[q] /\ outcome'[q] = outcome[q]
        BY <2>1, <3>2 DEF TypeInv, TypeOK, Goto, Finish
      <4>. QED
        BY <4>1 DEF TypeInv, Placed, User, Op
    <3>. QED
      BY <3>1, <3>2
  <2>. QED
    BY <1>1, <2>2, <2>4, <2>5, <2>6 DEF Begin, TypeInv, TypeOK
<1>2. ASSUME NEW r \in Requests, Step(r), ~Begin(r), ~StoreResent(r)
      PROVE  /\ UNCHANGED <<call, before>> /\ pc[r] # "idle"
             /\ \E l, o : /\ pc' = [pc EXCEPT ![r] = l]
                          /\ outcome' = [outcome EXCEPT ![r] = o]
                          /\ \/ l \in Awaits[Op(r)] /\ o = "none"
                             \/ l = "done" /\ o \in {"ok", "taken", "denied", "error"}
  <2>0. /\ Op(r) \in {"register", "login", "refresh", "logout"} \/ pc[r] = "idle"
        /\ pc[r] \notin {"idle", "done"} => pc[r] \in Awaits[Op(r)]
        /\ pc[r] # "done" => outcome[r] = "none"
        /\ outcome = [outcome EXCEPT ![r] = outcome[r]]
    BY DEF TypeInv, TypeOK, Placed, Operations
  <2>1. ASSUME NEW l, Goto(r, l), pc[r] # "done", l \in Awaits[Op(r)]
        PROVE  \E k, o : /\ pc' = [pc EXCEPT ![r] = k]
                         /\ outcome' = [outcome EXCEPT ![r] = o]
                         /\ \/ k \in Awaits[Op(r)] /\ o = "none"
                            \/ k = "done" /\ o \in {"ok", "taken", "denied", "error"}
    BY <2>0, <2>1 DEF Goto
  <2>2. ASSUME NEW o \in {"ok", "taken", "denied", "error"}, Finish(r, o)
        PROVE  \E k, a : /\ pc' = [pc EXCEPT ![r] = k]
                         /\ outcome' = [outcome EXCEPT ![r] = a]
                         /\ \/ k \in Awaits[Op(r)] /\ a = "none"
                            \/ k = "done" /\ a \in {"ok", "taken", "denied", "error"}
    BY <2>2 DEF Finish
  <2>3. CASE FindByEmail(r)
    BY <2>0, <2>1, <2>2, <2>3 DEF FindByEmail, Awaits
  <2>4. CASE CreateUser(r)
    BY <2>0, <2>1, <2>2, <2>4 DEF CreateUser, Awaits
  <2>5. CASE StoreToken(r)
    BY <2>0, <2>1, <2>2, <2>5 DEF StoreToken, SignsIn, Awaits
  <2>6. CASE FindPrimary(r) \/ InsertPrimary(r)
    BY <2>0, <2>1, <2>2, <2>6 DEF FindPrimary, InsertPrimary, Awaits
  <2>7. CASE CheckStored(r) \/ FindById(r)
    BY <2>0, <2>1, <2>2, <2>7 DEF CheckStored, FindById, Awaits
  <2>8. CASE Logout(r) \/ Fail(r) \/ FailAfterWrite(r)
    BY <2>2, <2>8 DEF Logout, Fail, FailAfterWrite, Thrown, Working, Writing
  <2>. QED
    BY <1>2, <2>3, <2>4, <2>5, <2>6, <2>7, <2>8 DEF Step
<1>3. ASSUME NEW r \in Requests, Step(r), ~Begin(r)
      PROVE  /\ users' \in SUBSET Users
             /\ accounts' \in [Users -> SUBSET Requests]
             /\ refresh' \in [Users \cup {Undefined} -> Requests \cup {None}]
  <2>1. pc[r] \in Writing => User(r) \in Users
    BY DEF TypeInv, Placed, Writing
  <2>2. /\ users \in SUBSET Users /\ accounts \in [Users -> SUBSET Requests]
        /\ refresh \in [Users \cup {Undefined} -> Requests \cup {None}]
    BY DEF TypeInv, TypeOK
  <2>. QED
    BY <1>3, <2>1, <2>2
    DEF Step, FindByEmail, CreateUser, StoreToken, Stored, FindPrimary, InsertPrimary,
        CheckStored, FindById, Logout, LogoutKey, Issued, Fail, FailAfterWrite,
        StoreResent, Writing
<1>4. ASSUME NEW r \in Requests, Step(r), ~Begin(r)  PROVE TypeInv'
  <2>1. CASE StoreResent(r)
    BY <1>3, <1>4, <2>1 DEF StoreResent, TypeInv, TypeOK, Placed, User, Op
  <2>2. CASE ~StoreResent(r)
    <3>1. PICK l, o : /\ pc' = [pc EXCEPT ![r] = l]
                      /\ outcome' = [outcome EXCEPT ![r] = o]
                      /\ \/ l \in Awaits[Op(r)] /\ o = "none"
                         \/ l = "done" /\ o \in {"ok", "taken", "denied", "error"}
      BY <1>2, <1>4, <2>2
    <3>2. UNCHANGED <<call, before>> /\ pc[r] # "idle"
      BY <1>2, <1>4, <2>2
    <3>3. /\ pc' \in [Requests -> Working \cup {"idle", "done"}]
          /\ outcome' \in [Requests -> {"none", "ok", "taken", "denied", "error"}]
          /\ \A q \in Requests : Placed(q)'
      BY <3>1, <3>2, MovesOn
    <3>. QED
      BY <1>3, <1>4, <3>2, <3>3 DEF TypeInv, TypeOK
  <2>. QED
    BY <2>1, <2>2
<1>5. ASSUME NEW u \in Users, Expire(u)  PROVE TypeInv'
  BY <1>5 DEF Expire, TypeInv, TypeOK, Placed, User, Op
<1>6. CASE UNCHANGED vars
  BY <1>6 DEF vars, TypeInv, TypeOK, Placed, User, Op
<1>. QED
  BY <1>1, <1>4, <1>5, <1>6, StepCases

\* Type correctness: what requests ask and get, the rows and the keys.
THEOREM SessionTypes == Spec => []TypeOK
<1>1. TypeInv => TypeOK
  BY DEF TypeInv
<1>. QED
  BY <1>1, InitTypes, StepTypes, PTL DEF Spec

-----------------------------------------------------------------------------
(* What a step can do                                                      *)

\* What has ended stays as it is, and what has begun asks the same.
LEMMA Lasting ==
  ASSUME TypeInv, [Next]_vars, NEW r \in Requests
  PROVE  /\ pc[r] = "done" => pc'[r] = "done" /\ outcome'[r] = outcome[r]
         /\ pc[r] # "idle" => call'[r] = call[r] /\ before'[r] = before[r] /\ pc'[r] # "idle"
<1>. USE DEF storeVars
<1>1. ASSUME NEW q \in Requests, Begin(q)
      PROVE  /\ pc[q] = "idle" /\ \A k \in Requests : k # q =>
                  pc'[k] = pc[k] /\ outcome'[k] = outcome[k] /\ call'[k] = call[k]
                  /\ before'[k] = before[k]
  BY <1>1 DEF Begin, Goto, Finish, TypeInv, TypeOK
<1>2. ASSUME NEW q \in Requests, Step(q), ~Begin(q)
      PROVE  /\ UNCHANGED <<call, before>> /\ pc[q] \notin {"idle", "done"} /\ pc'[q] # "idle"
             /\ \A k \in Requests : k # q => pc'[k] = pc[k] /\ outcome'[k] = outcome[k]
  BY <1>2
  DEF Step, FindByEmail, CreateUser, StoreToken, FindPrimary, InsertPrimary, CheckStored,
      FindById, Logout, Fail, FailAfterWrite, Thrown, StoreResent, Working, Writing, Goto,
      Finish, TypeInv, TypeOK
<1>. QED
  BY <1>1, <1>2, StepCases DEF Expire, vars

LEMMA EndedStay ==
  ASSUME TypeInv, [Next]_vars
  PROVE  Ended \subseteq Ended'
BY Lasting DEF Ended

\* Only a request at its SETEX stores a token, and only expiry takes one away.
LEMMA WhoStores ==
  ASSUME TypeInv, [Next]_vars, NEW u \in Users
  PROVE  \/ refresh'[u] = refresh[u]
         \/ refresh'[u] = None /\ "late" \in Faults
         \/ \E r \in Requests : pc[r] = "store" /\ User(r) = u /\ refresh'[u] = r
<1>. USE DEF storeVars
<1>0. refresh \in [Users \cup {Undefined} -> Requests \cup {None}]
  BY DEF TypeInv, TypeOK
<1>1. ASSUME NEW r \in Requests, pc[r] = "store", refresh' = Stored(r)
      PROVE  \/ refresh'[u] = refresh[u]
             \/ User(r) = u /\ refresh'[u] = r
  BY <1>0, <1>1 DEF Stored
<1>2. ASSUME NEW r \in Requests, Logout(r)  PROVE refresh'[u] = refresh[u]
  BY <1>0, <1>2 DEF Logout, LogoutKey
<1>3. ASSUME NEW v \in Users, Expire(v)
      PROVE  \/ refresh'[u] = refresh[u]
             \/ refresh'[u] = None /\ "late" \in Faults
  BY <1>0, <1>3 DEF Expire
<1>4. ASSUME NEW r \in Requests, Step(r)
      PROVE  \/ UNCHANGED refresh
             \/ pc[r] = "store" /\ refresh' = Stored(r)
             \/ Logout(r)
  BY <1>4
  DEF Step, Begin, FindByEmail, CreateUser, StoreToken, FindPrimary, InsertPrimary,
      CheckStored, FindById, Fail, FailAfterWrite, StoreResent
<1>. QED
  BY <1>1, <1>2, <1>3, <1>4, StepCases DEF vars

\* A token that is not stored, and whose request has ended, is not stored again.
LEMMA NotStoredAgain ==
  ASSUME TypeInv, [Next]_vars, NEW u \in Users, NEW t \in Requests,
         pc[t] = "done", refresh[u] # t
  PROVE  refresh'[u] # t
BY WhoStores

\* A displaced token stays displaced, whatever is resent or under way.
THEOREM DisplacedStayDisplaced == Spec => DisplacedForGood
<1>1. TypeInv /\ [Next]_vars =>
         [\A u \in Users, t \in Requests :
             pc[t] = "done" /\ refresh[u] # t => refresh'[u] # t]_vars
  BY NotStoredAgain
<1>. QED
  BY <1>1, InitTypes, StepTypes, PTL DEF Spec, DisplacedForGood

-----------------------------------------------------------------------------
(* Refreshing                                                              *)

\* A refresh presents the token of an earlier request of the same user; once it
\* is confirmed, that token is not stored.
Presents(r) ==
    Op(r) = "refresh" =>
        /\ Token(r) \in Requests /\ pc[Token(r)] = "done" /\ User(Token(r)) = User(r)
        /\ outcome[r] = "ok" => refresh[User(r)] # Token(r)

LEMMA StepPresents ==
  ASSUME TypeInv, \A r \in Requests : Presents(r), [Next]_vars
  PROVE  \A r \in Requests : Presents(r)'
<1>. USE DEF storeVars
<1>. SUFFICES ASSUME NEW r \in Requests, Op(r)' = "refresh"
              PROVE  /\ Token(r)' \in Requests /\ pc'[Token(r)'] = "done"
                     /\ User(Token(r))' = User(r)'
                     /\ outcome'[r] = "ok" => refresh'[User(r)'] # Token(r)'
  BY DEF Presents, User, Token
<1>1. CASE pc[r] = "idle"
  <2>1. ASSUME Begin(r)  PROVE /\ Token(r)' \in Requests /\ pc'[Token(r)'] = "done"
                               /\ User(Token(r))' = User(r)' /\ outcome'[r] # "ok"
    <3>1. PICK op \in Operations, u \in Users, t \in Requests \cup {None} :
              /\ IF op = "refresh" THEN t \in Issued(u) ELSE t = None
              /\ call' = [call EXCEPT ![r] = [op |-> op, user |-> u, token |-> t]]
              /\ Goto(r, FirstAwait(op)) \/ Finish(r, "denied")
      BY <2>1 DEF Begin
    <3>2. call'[r] = [op |-> op, user |-> u, token |-> t] /\ outcome[r] = "none"
      BY <1>1, <3>1 DEF TypeInv, TypeOK, Placed
    <3>3. t \in Requests /\ pc[t] = "done" /\ User(t) = u
      BY <3>1, <3>2 DEF Op, Issued
    <3>4. pc'[t] = "done" /\ call'[t] = call[t]
      BY <3>3, Lasting
    <3>5. outcome'[r] # "ok"
      BY <3>1, <3>2 DEF Goto, Finish, TypeInv, TypeOK
    <3>. QED
      BY <3>2, <3>3, <3>4, <3>5 DEF User, Token
  <2>2. ASSUME ~Begin(r)  PROVE call'[r] = call[r]
    <3>1. ASSUME NEW q \in Requests, Begin(q), q # r  PROVE call'[r] = call[r]
      BY <3>1 DEF Begin, TypeInv, TypeOK
    <3>2. ASSUME NEW q \in Requests, Step(q), ~Begin(q)  PROVE UNCHANGED call
      BY <3>2
      DEF Step, FindByEmail, CreateUser, StoreToken, FindPrimary, InsertPrimary,
          CheckStored, FindById, Logout, Fail, FailAfterWrite, StoreResent
    <3>. QED
      BY <2>2, <3>1, <3>2, StepCases DEF Expire, vars
  <2>3. Op(r) # "refresh"
    BY <1>1 DEF TypeInv, Placed, NoCall, Op
  <2>. QED
    BY <2>1, <2>2, <2>3 DEF Op
<1>2. CASE pc[r] # "idle"
  <2>1. call'[r] = call[r] /\ Op(r) = "refresh" /\ User(r) \in Users
    BY <1>2, Lasting DEF Op, TypeInv, Placed
  <2>2. Token(r) \in Requests /\ pc[Token(r)] = "done" /\ User(Token(r)) = User(r)
    BY <2>1 DEF Presents
  <2>3. pc'[Token(r)] = "done" /\ call'[Token(r)] = call[Token(r)]
    BY <2>2, Lasting
  <2>4. ASSUME outcome'[r] = "ok"  PROVE refresh'[User(r)] # Token(r)
    <3>1. CASE outcome[r] = "ok"
      BY <2>1, <2>2, <3>1, NotStoredAgain DEF Presents
    <3>2. CASE StoreToken(r)
      <4>1. refresh'[User(r)] = r
        BY <2>1, <3>2 DEF StoreToken, Stored, TypeInv, TypeOK
      <4>. QED
        BY <2>2, <3>2, <4>1 DEF StoreToken
    <3>3. CASE outcome[r] # "ok" /\ ~StoreToken(r)
      <4>1. ASSUME NEW q \in Requests, Step(q), q # r  PROVE outcome'[r] = outcome[r]
        BY <4>1
        DEF Step, Begin, FindByEmail, CreateUser, StoreToken, FindPrimary, InsertPrimary,
            CheckStored, FindById, Logout, Fail, FailAfterWrite, Thrown, StoreResent, Goto,
            Finish, TypeInv, TypeOK
      <4>2. pc[r] \in {"get", "findUser", "store", "done"}
        BY <1>2, <2>1 DEF TypeInv, Placed, Awaits
      <4>3. ASSUME Step(r)  PROVE outcome'[r] # "ok"
        BY <1>2, <3>3, <4>2, <4>3
        DEF Step, Begin, FindByEmail, CreateUser, FindPrimary, InsertPrimary,
            CheckStored, FindById, Logout, Fail, FailAfterWrite, Thrown, StoreResent, Goto,
            Finish, TypeInv, TypeOK
      <4>. QED
        BY <2>4, <3>3, <4>1, <4>3, StepCases DEF Expire, vars
    <3>. QED
      BY <3>1, <3>2, <3>3
  <2>. QED
    BY <2>1, <2>2, <2>3, <2>4 DEF User, Token
<1>. QED
  BY <1>1, <1>2

LEMMA InitPresents == Init => \A r \in Requests : Presents(r)
BY DEF Init, Presents, Op, NoCall

\* No token is exchanged by a refresh that checks after another has stored.
THEOREM ExchangedOnce == Spec => OneExchange
<1>. DEFINE Inv == TypeInv /\ \A r \in Requests : Presents(r)
<1>1. Init => Inv
  BY InitTypes, InitPresents
<1>2. Inv /\ [Next]_vars => Inv'
  BY StepTypes, StepPresents
<1>3. Inv /\ [Next]_vars =>
         [\A r, q \in Requests :
             /\ pc[r] = "get" /\ pc'[r] = "findUser"
             /\ Op(q) = "refresh" /\ Token(q) = Token(r)
             => outcome[q] # "ok"]_vars
  <2>. SUFFICES ASSUME Inv, [Next]_vars, NEW r \in Requests, NEW q \in Requests,
                       pc[r] = "get", pc'[r] = "findUser",
                       Op(q) = "refresh", Token(q) = Token(r), outcome[q] = "ok"
                PROVE  FALSE
    OBVIOUS
  <2>1. IsCurrent(r)
    <3>1. ASSUME NEW k \in Requests, Step(k), k # r  PROVE pc'[r] = pc[r]
      BY <3>1
      DEF Step, Begin, FindByEmail, CreateUser, StoreToken, FindPrimary, InsertPrimary,
          CheckStored, FindById, Logout, Fail, FailAfterWrite, Thrown, StoreResent, Goto,
          Finish, TypeInv, TypeOK
    <3>2. ASSUME Step(r), ~IsCurrent(r)  PROVE pc'[r] = "done" \/ pc'[r] = "get"
      BY <3>2
      DEF Step, Begin, FindByEmail, CreateUser, StoreToken, FindPrimary, InsertPrimary,
          CheckStored, FindById, Logout, Fail, FailAfterWrite, Thrown, StoreResent, Goto,
          Finish, TypeInv, TypeOK
    <3>. QED
      BY <3>1, <3>2, StepCases DEF Expire, vars
  <2>2. Op(r) = "refresh"
    BY DEF TypeInv, Placed, Awaits, Operations
  <2>3. User(q) = User(r)
    BY <2>2 DEF Presents
  <2>. QED
    BY <2>1, <2>3 DEF IsCurrent, Presents
<1>. QED
  BY <1>1, <1>2, <1>3, PTL DEF Spec, OneExchange

-----------------------------------------------------------------------------
(* Who was there before                                                    *)

\* What had ended when a request came has ended still.
PastIsEnded == \A r \in Requests : before[r] \subseteq Ended

LEMMA StepPast == TypeInv /\ PastIsEnded /\ [Next]_vars => PastIsEnded'
<1>. SUFFICES ASSUME TypeInv, PastIsEnded, [Next]_vars, NEW r \in Requests
              PROVE  before'[r] \subseteq Ended'
  BY DEF PastIsEnded
<1>1. ASSUME Begin(r)  PROVE before'[r] = Ended
  BY <1>1 DEF Begin, TypeInv, TypeOK
<1>2. ASSUME ~Begin(r)  PROVE before'[r] = before[r]
  <2>1. ASSUME NEW q \in Requests, Begin(q), q # r  PROVE before'[r] = before[r]
    BY <2>1 DEF Begin, TypeInv, TypeOK
  <2>2. ASSUME NEW q \in Requests, Step(q), ~Begin(q)  PROVE UNCHANGED before
    BY <2>2
    DEF Step, FindByEmail, CreateUser, StoreToken, FindPrimary, InsertPrimary, CheckStored,
        FindById, Logout, Fail, FailAfterWrite, StoreResent
  <2>. QED
    BY <1>2, <2>1, <2>2, StepCases DEF Expire, vars
<1>. QED
  BY <1>1, <1>2, EndedStay DEF PastIsEnded

\* A request in mid-way was not there before any other.
LEMMA NotBefore ==
  ASSUME PastIsEnded, NEW r \in Requests, NEW q \in Requests, pc[q] # "done"
  PROVE  q \notin before[r]
BY DEF PastIsEnded, Ended

-----------------------------------------------------------------------------
(* Registering                                                             *)

\* r has inserted its user, as far as it or its client knows.
Registered(r) ==
    Op(r) = "register" /\ (pc[r] \in {"store", "primary", "insert"} \/ outcome[r] = "ok")

RegisteredOnce ==
    \A r \in Requests : Registered(r) =>
        /\ User(r) \in users
        /\ \A q \in Requests : Registered(q) /\ User(q) = User(r) => q = r

\* Only the INSERT makes a request one that has registered.
LEMMA WhoRegisters ==
  ASSUME TypeInv, [Next]_vars, NEW r \in Requests, Registered(r)', ~Registered(r)
  PROVE  /\ pc[r] = "create" /\ EmailIsFree(User(r)) /\ users' = users \cup {User(r)}
         /\ call' = call
         /\ \A q \in Requests : q # r => pc'[q] = pc[q] /\ outcome'[q] = outcome[q]
<1>. USE DEF storeVars
<1>1. PICK q \in Requests : Step(q)
  BY StepCases DEF Expire, vars, Registered, Op
<1>2. ASSUME NEW k \in Requests, k # q
      PROVE  pc'[k] = pc[k] /\ outcome'[k] = outcome[k] /\ call'[k] = call[k]
  BY <1>1, <1>2
  DEF Step, Begin, FindByEmail, CreateUser, StoreToken, FindPrimary, InsertPrimary,
      CheckStored, FindById, Logout, Fail, FailAfterWrite, Thrown, StoreResent, Goto,
      Finish, TypeInv, TypeOK
<1>3. q = r
  BY <1>2 DEF Registered, Op
<1>4. CASE Begin(r)
  <2>1. PICK op \in Operations, u \in Users, t \in Requests \cup {None} :
            /\ call' = [call EXCEPT ![r] = [op |-> op, user |-> u, token |-> t]]
            /\ \/ Goto(r, FirstAwait(op))
               \/ op = "refresh" /\ Finish(r, "denied")
    BY <1>4 DEF Begin
  <2>2. call'[r] = [op |-> op, user |-> u, token |-> t] /\ outcome[r] = "none"
    BY <1>4, <2>1 DEF Begin, TypeInv, TypeOK, Placed
  <2>3. /\ pc'[r] \in {"get", "del", "find", "done"}
        /\ outcome'[r] \in {"none", "denied"}
    BY <2>1, <2>2 DEF Goto, Finish, FirstAwait, TypeInv, TypeOK
  <2>. QED
    BY <2>3 DEF Registered
<1>5. CASE CreateUser(r)
  BY <1>2, <1>3, <1>5 DEF CreateUser, Goto, Finish, Registered, TypeInv, TypeOK, Placed
<1>6. CASE Step(r) /\ ~Begin(r) /\ ~CreateUser(r)
  <2>1. call' = call
    BY <1>6
    DEF Step, FindByEmail, StoreToken, FindPrimary, InsertPrimary, CheckStored, FindById,
        Logout, Fail, FailAfterWrite, StoreResent
  <2>2. Op(r) = "register" /\ pc[r] \notin {"store", "primary", "insert"} /\ outcome[r] # "ok"
    BY <2>1 DEF Registered, Op
  <2>3. pc[r] \in {"find", "create", "idle", "done"}
    BY <2>2 DEF TypeInv, Placed, Awaits
  <2>4. pc'[r] \notin {"store", "primary", "insert"} /\ outcome'[r] # "ok"
    BY <1>6, <2>2, <2>3
    DEF Step, FindByEmail, StoreToken, FindPrimary, InsertPrimary, CheckStored, FindById,
        Logout, Fail, FailAfterWrite, Thrown, StoreResent, Goto, Finish, Working, Writing,
        TypeInv, TypeOK
  <2>. QED
    BY <2>4 DEF Registered
<1>. QED
  BY <1>1, <1>3, <1>4, <1>5, <1>6

LEMMA UsersStay ==
  ASSUME [Next]_vars
  PROVE  users \subseteq users'
BY StepCases
DEF Step, Begin, FindByEmail, CreateUser, StoreToken, FindPrimary, InsertPrimary,
    CheckStored, FindById, Logout, Fail, FailAfterWrite, StoreResent, Expire, storeVars, vars

LEMMA StepRegistered == TypeInv /\ RegisteredOnce /\ [Next]_vars => RegisteredOnce'
<1>. SUFFICES ASSUME TypeInv, RegisteredOnce, [Next]_vars
              PROVE  RegisteredOnce'
  OBVIOUS
<1>1. ASSUME NEW r \in Requests, Registered(r)  PROVE User(r)' = User(r)
  <2>1. pc[r] # "idle"
    BY <1>1 DEF Registered, TypeInv, Placed
  <2>. QED
    BY <2>1, Lasting DEF User
<1>2. CASE \E r \in Requests : Registered(r)' /\ ~Registered(r)
  <2>1. PICK r \in Requests : Registered(r)' /\ ~Registered(r)
    BY <1>2
  <2>2. /\ EmailIsFree(User(r)) /\ users' = users \cup {User(r)} /\ call' = call
        /\ \A q \in Requests : q # r => pc'[q] = pc[q] /\ outcome'[q] = outcome[q]
    BY <2>1, WhoRegisters
  <2>3. \A q \in Requests : Registered(q)' => Registered(q) \/ q = r
    BY <2>2 DEF Registered, Op
  <2>4. \A q \in Requests : User(q)' = User(q)
    BY <2>2 DEF User
  <2>5. User(r) \notin users
    BY <2>2 DEF EmailIsFree
  <2>. QED
    BY <2>2, <2>3, <2>4, <2>5 DEF RegisteredOnce
<1>3. CASE \A r \in Requests : Registered(r)' => Registered(r)
  BY <1>1, <1>3, UsersStay DEF RegisteredOnce
<1>. QED
  BY <1>2, <1>3

\* An address is registered at most once, however many requests try.
THEOREM RegisteredAtMostOnce == Spec => []OneRegistration
<1>. DEFINE Inv == TypeInv /\ RegisteredOnce
<1>1. Init => Inv
  BY InitTypes DEF Init, RegisteredOnce, Registered
<1>2. Inv /\ [Next]_vars => Inv'
  BY StepTypes, StepRegistered
<1>3. Inv => OneRegistration
  BY DEF RegisteredOnce, Registered, OneRegistration
<1>. QED
  BY <1>1, <1>2, <1>3, PTL DEF Spec

-----------------------------------------------------------------------------
(* Primary accounts                                                        *)

AccountsInv ==
    /\ \A u \in Users : accounts[u] \subseteq Ended
    /\ \A q \in Requests : pc[q] = "insert" =>
           \A r \in accounts[User(q)] : r \notin before[q]
    /\ SecondAccountOnlyByOverlap

\* An account is made by a request at its INSERT, which ends with it.
LEMMA WhoInserts ==
  ASSUME TypeInv, [Next]_vars, NEW u \in Users, NEW r \in accounts'[u], r \notin accounts[u]
  PROVE  r \in Requests /\ pc[r] = "insert" /\ pc'[r] = "done" /\ User(r) = u
<1>. USE DEF storeVars
<1>0. accounts \in [Users -> SUBSET Requests]
  BY DEF TypeInv, TypeOK
<1>1. ASSUME NEW q \in Requests, Step(q), accounts' # accounts
      PROVE  pc[q] = "insert" /\ pc'[q] = "done"
             /\ accounts' = [accounts EXCEPT ![User(q)] = @ \cup {q}]
  BY <1>1
  DEF Step, Begin, FindByEmail, CreateUser, StoreToken, FindPrimary, InsertPrimary,
      CheckStored, FindById, Logout, Fail, FailAfterWrite, Thrown, StoreResent, Finish,
      TypeInv, TypeOK
<1>2. PICK q \in Requests : Step(q)
  BY StepCases DEF Expire, vars
<1>3. accounts' = [accounts EXCEPT ![User(q)] = @ \cup {q}]
  BY <1>1, <1>2
<1>4. User(q) = u /\ r = q
  BY <1>0, <1>3
<1>. QED
  BY <1>1, <1>2, <1>4

LEMMA StepAccounts == TypeInv /\ PastIsEnded /\ AccountsInv /\ [Next]_vars => AccountsInv'
<1>. SUFFICES ASSUME TypeInv, PastIsEnded, AccountsInv, [Next]_vars
              PROVE  AccountsInv'
  OBVIOUS
<1>0. /\ accounts \in [Users -> SUBSET Requests] /\ accounts' \in [Users -> SUBSET Requests]
      /\ \A q \in Requests : pc[q] = "insert" => User(q) \in Users
  BY StepTypes DEF TypeInv, TypeOK, Placed
\* An account that is there: whoever made it has ended.
<1>1. ASSUME NEW u \in Users, NEW r \in accounts[u]
      PROVE  r \in Requests /\ pc[r] = "done" /\ pc'[r] = "done" /\ before'[r] = before[r]
  <2>1. r \in Requests /\ pc[r] = "done"
    BY <1>0, <1>1 DEF AccountsInv, Ended
  <2>. QED
    BY <2>1, Lasting
<1>2. \A u \in Users : accounts'[u] \subseteq Ended'
  <2>. SUFFICES ASSUME NEW u \in Users, NEW r \in accounts'[u]
                PROVE  r \in Requests /\ pc'[r] = "done"
    BY DEF Ended
  <2>. QED
    BY <1>1, WhoInserts
<1>3. ASSUME NEW q \in Requests, pc'[q] = "insert", NEW r \in accounts'[User(q)']
      PROVE  r \notin before'[q]
  <2>1. pc[q] # "idle"
    BY <1>3, StepCases
    DEF Step, Begin, FindByEmail, CreateUser, StoreToken, FindPrimary, InsertPrimary,
        CheckStored, FindById, Logout, Fail, FailAfterWrite, Thrown, StoreResent, Goto,
        Finish, FirstAwait, Expire, vars, TypeInv, TypeOK, Working, Writing, Operations
  <2>2. User(q)' = User(q) /\ before'[q] = before[q] /\ User(q) \in Users /\ pc[q] # "done"
    BY <1>3, <2>1, Lasting DEF User, TypeInv, Placed
  <2>3. CASE r \notin accounts[User(q)]
    <3>1. r \in Requests /\ pc[r] # "done"
      BY <1>3, <2>2, <2>3, WhoInserts
    <3>. QED
      BY <2>2, <3>1, NotBefore
  <2>4. CASE r \in accounts[User(q)] /\ pc[q] = "insert"
    BY <2>2, <2>4 DEF AccountsInv
  <2>5. CASE r \in accounts[User(q)] /\ pc[q] # "insert"
    <3>1. accounts[User(q)] = {}
      BY <1>3, <2>1, <2>5, StepCases
      DEF Step, Begin, FindByEmail, CreateUser, StoreToken, FindPrimary, Existing,
          InsertPrimary, CheckStored, FindById, Logout, Fail, FailAfterWrite, Thrown,
          StoreResent, Goto, Finish, Expire, vars, TypeInv, TypeOK
    <3>. QED
      BY <2>5, <3>1
  <2>. QED
    BY <2>3, <2>4, <2>5
<1>4. ASSUME NEW u \in Users, NEW r \in accounts'[u], NEW q \in accounts'[u]
      PROVE  r \notin before'[q]
  <2>1. r \in Requests /\ q \in Requests
    BY <1>0, <1>4
  <2>2. CASE q \in accounts[u]
    <3>1. CASE r \in accounts[u]
      BY <1>1, <2>2, <3>1 DEF AccountsInv, SecondAccountOnlyByOverlap
    <3>2. CASE r \notin accounts[u]
      <4>1. pc[r] # "done"
        BY <1>4, <3>2, WhoInserts
      <4>. QED
        BY <1>1, <2>1, <2>2, <4>1, NotBefore
    <3>. QED
      BY <3>1, <3>2
  <2>3. CASE q \notin accounts[u]
    <3>1. pc[q] = "insert" /\ User(q) = u /\ before'[q] = before[q]
      BY <1>4, <2>1, <2>3, WhoInserts, Lasting
    <3>2. CASE r \in accounts[u]
      BY <2>1, <3>1, <3>2 DEF AccountsInv
    <3>3. CASE r \notin accounts[u]
      <4>1. pc[r] # "done"
        BY <1>4, <3>3, WhoInserts
      <4>. QED
        BY <2>1, <3>1, <4>1, NotBefore
    <3>. QED
      BY <3>2, <3>3
  <2>. QED
    BY <2>2, <2>3
<1>. QED
  BY <1>2, <1>3, <1>4 DEF AccountsInv, SecondAccountOnlyByOverlap

\* A second account is never made by a sign-in that came after the first was made.
THEOREM SecondAccountsOverlap == Spec => []SecondAccountOnlyByOverlap
<1>. DEFINE Inv == TypeInv /\ PastIsEnded /\ AccountsInv
<1>1. Init => Inv
  BY InitTypes DEF Init, PastIsEnded, AccountsInv, SecondAccountOnlyByOverlap
<1>2. Inv /\ [Next]_vars => Inv'
  BY StepTypes, StepPast, StepAccounts
<1>3. Inv => SecondAccountOnlyByOverlap
  BY DEF AccountsInv
<1>. QED
  BY <1>1, <1>2, <1>3, PTL DEF Spec

-----------------------------------------------------------------------------
(* Sessions                                                                *)

\* r has stored its token and nothing has gone wrong for it.
HoldsSession(r) ==
    \/ pc[r] \in {"primary", "insert"}
    \/ pc[r] = "done" /\ outcome[r] = "ok" /\ Op(r) # "logout"

Yields(r) ==
    HoldsSession(r) =>
        \/ refresh[User(r)] = r
        \/ refresh[User(r)] = None /\ "late" \in Faults
        \/ refresh[User(r)] # None /\ refresh[User(r)] \notin before[r]

\* Only the SETEX gives a request its session.
LEMMA WhoHolds ==
  ASSUME TypeInv, [Next]_vars, NEW r \in Requests, HoldsSession(r)', ~HoldsSession(r)
  PROVE  pc[r] = "store" /\ refresh' = Stored(r)
<1>. USE DEF storeVars
<1>1. PICK q \in Requests : Step(q)
  BY StepCases DEF Expire, vars, HoldsSession, Op
<1>2. ASSUME NEW k \in Requests, k # q
      PROVE  pc'[k] = pc[k] /\ outcome'[k] = outcome[k] /\ call'[k] = call[k]
  BY <1>1, <1>2
  DEF Step, Begin, FindByEmail, CreateUser, StoreToken, FindPrimary, InsertPrimary,
      CheckStored, FindById, Logout, Fail, FailAfterWrite, Thrown, StoreResent, Goto,
      Finish, TypeInv, TypeOK
<1>3. q = r
  BY <1>2 DEF HoldsSession, Op
<1>4. ~Begin(r)
  <2>. SUFFICES ASSUME Begin(r)  PROVE FALSE
    OBVIOUS
  <2>1. PICK op \in Operations :
            \/ Goto(r, FirstAwait(op))
            \/ Finish(r, "denied")
    BY DEF Begin
  <2>2. pc'[r] \in {"get", "del", "find"} \/ outcome'[r] = "denied"
    BY <2>1 DEF Goto, Finish, FirstAwait, TypeInv, TypeOK
  <2>3. pc'[r] \in {"get", "del", "find", "done"}
    BY <2>1 DEF Goto, Finish, FirstAwait, TypeInv, TypeOK
  <2>. QED
    BY <2>2, <2>3 DEF HoldsSession
<1>5. call' = call
  BY <1>1, <1>3, <1>4
  DEF Step, FindByEmail, CreateUser, StoreToken, FindPrimary, InsertPrimary, CheckStored,
      FindById, Logout, Fail, FailAfterWrite, StoreResent
<1>6. pc[r] \notin {"primary", "insert"}
  BY DEF HoldsSession
<1>7. pc[r] = "del" => Op(r) = "logout"
  BY DEF TypeInv, Placed, Awaits, Operations
<1>8. pc[r] = "done" => pc'[r] = "done" /\ outcome'[r] = outcome[r]
  BY Lasting
<1>. QED
  BY <1>1, <1>3, <1>4, <1>5, <1>6, <1>7, <1>8
  DEF HoldsSession, Step, FindByEmail, CreateUser, StoreToken, FindPrimary, InsertPrimary,
      CheckStored, FindById, Logout, Fail, FailAfterWrite, Thrown, StoreResent, Goto,
      Finish, Op, Working, Writing, TypeInv, TypeOK

LEMMA StepYields ==
  ASSUME TypeInv, PastIsEnded, \A r \in Requests : Yields(r), [Next]_vars
  PROVE  \A r \in Requests : Yields(r)'
<1>. SUFFICES ASSUME NEW r \in Requests, HoldsSession(r)'
              PROVE  \/ refresh'[User(r)'] = r
                     \/ refresh'[User(r)'] = None /\ "late" \in Faults
                     \/ refresh'[User(r)'] # None /\ refresh'[User(r)'] \notin before'[r]
  BY DEF Yields, User
<1>1. pc[r] # "idle"
  BY WhoHolds DEF HoldsSession, TypeInv, Placed
<1>2. call'[r] = call[r] /\ before'[r] = before[r] /\ User(r)' = User(r) /\ User(r) \in Users
  BY <1>1, Lasting DEF User, TypeInv, Placed
<1>3. CASE ~HoldsSession(r)
  <2>1. refresh' = Stored(r) /\ refresh \in [Users \cup {Undefined} -> Requests \cup {None}]
    BY <1>3, WhoHolds DEF TypeInv, TypeOK
  <2>. QED
    BY <1>2, <2>1 DEF Stored
<1>4. CASE HoldsSession(r)
  <2>1. CASE refresh'[User(r)] = refresh[User(r)]
    BY <1>2, <1>4, <2>1 DEF Yields
  <2>2. CASE refresh'[User(r)] = None /\ "late" \in Faults
    BY <1>2, <2>2
  <2>3. CASE \E q \in Requests : pc[q] = "store" /\ refresh'[User(r)] = q
    <3>1. PICK q \in Requests : pc[q] = "store" /\ refresh'[User(r)] = q
      BY <2>3
    <3>2. q \notin before[r] /\ q # None
      BY <3>1, NotBefore
    <3>. QED
      BY <1>2, <3>1, <3>2
  <2>. QED
    BY <1>2, <2>1, <2>2, <2>3, WhoStores
<1>. QED
  BY <1>3, <1>4

\* A confirmed session gives way only to one that overlapped it or came later.
THEOREM SessionsYield == Spec => []SessionsYieldToLaterOnes
<1>. DEFINE Inv == TypeInv /\ PastIsEnded /\ \A r \in Requests : Yields(r)
<1>1. Init => Inv
  BY InitTypes DEF Init, PastIsEnded, Yields, HoldsSession
<1>2. Inv /\ [Next]_vars => Inv'
  BY StepTypes, StepPast, StepYields
<1>3. Inv => SessionsYieldToLaterOnes
  BY DEF Yields, HoldsSession, Issued, SessionsYieldToLaterOnes
<1>. QED
  BY <1>1, <1>2, <1>3, PTL DEF Spec

=============================================================================
