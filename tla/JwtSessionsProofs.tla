-------------------------- MODULE JwtSessionsProofs --------------------------
(***************************************************************************)
(* Proofs about JwtSessions, for every number of accounts, requests,       *)
(* sessions and restarts and every pair of token lifetimes.                *)
(***************************************************************************)
EXTENDS JwtSessions, TLAPS

(* The types that Typed names, of the optional values inside a request.   *)
LEMMA IdleType == Idle \in Request
  BY DEF Idle, Request, Stages, Ops

(* The second a token was issued in is a natural number.                   *)
LEMMA SecondOfType ==
  ASSUME NEW t \in Nat PROVE SecondOf(t) \in Nat /\ SecondOf(t) <= t
<1>1. TicksPerSecond \in Nat /\ TicksPerSecond > 0
  BY JwtConstants
<1>2. t % TicksPerSecond \in Nat
  BY <1>1
<1>3. t = TicksPerSecond * (t \div TicksPerSecond) + (t % TicksPerSecond)
  BY <1>1
<1>4. t \div TicksPerSecond \in Nat
  BY <1>1
<1> DEFINE q == t \div TicksPerSecond
<1>5. TicksPerSecond * q \in Nat
  BY <1>1, <1>4
<1> QED
  BY <1>2, <1>3, <1>5 DEF SecondOf

LEMMA ValidityType ==
  ASSUME NEW type \in Types PROVE Validity(type) \in Nat
  BY JwtConstants DEF Types, Validity

(* A minted token is a token, and it is not expected to live longer than   *)
(* the instant of its mint and its validity say.                           *)
LEMMA MintType ==
  ASSUME NEW u \in Users, NEW ro \in Roles, NEW type \in Types, NEW t \in Nat
  PROVE  /\ Mint(u, ro, type, t) \in Token
         /\ Mint(u, ro, type, t).type = type
         /\ Exp(Mint(u, ro, type, t)) <= t + Validity(type)
  BY SecondOfType, ValidityType DEF Mint, Token, Exp

LEMMA ExpType == ASSUME NEW t \in Token PROVE Exp(t) \in Nat
  BY ValidityType DEF Exp, Token

(* A session row keeps an expiration time no earlier than the one its      *)
(* access token carries.                                                   *)
Covers(s) == Exp(s.access) <= s.exp

LEMMA NewRowType ==
  ASSUME NEW id \in Nat, NEW u \in Users, NEW ro \in Roles, now \in Nat
  PROVE  NewRow(id, u, ro) \in Row /\ Covers(NewRow(id, u, ro))
<1>1. "ACCESS" \in Types /\ "REFRESH" \in Types
  BY DEF Types
<1>2. now + Validity("ACCESS") \in Nat
  BY <1>1, ValidityType
<1> QED
  BY <1>1, <1>2, MintType DEF NewRow, Row, Covers

-----------------------------------------------------------------------------
(* Type correctness.                                                       *)

LEMMA BlacklistingType ==
  ASSUME Typed, NEW rows \in SUBSET Row
  PROVE  Blacklisting(rows) \subseteq [token : Token, exp : Nat]
  BY DEF Typed, Blacklisting, Row

LEMMA RenewedType ==
  ASSUME Typed, NEW rows \in SUBSET Row
  PROVE  /\ Renewed(rows) \subseteq Row
         /\ \A s \in Renewed(rows) : Covers(s)
<1>1. \A s \in rows : s.id \in Nat /\ s.user \in Users /\ role[s.user] \in Roles
  BY DEF Typed, Row
<1>2. \A s \in rows : LET n == NewRow(s.id, s.user, role[s.user])
                      IN  n \in Row /\ Covers(n)
  BY <1>1, NewRowType DEF Typed
<1> QED
  BY <1>2 DEF Renewed

LEMMA CreatedType ==
  ASSUME Typed, NEW r \in Requests
  PROVE  /\ Created(r) \subseteq Row
         /\ \A s \in Created(r) : Covers(s)
<1>1. req[r].user \subseteq Users /\ req[r].role \subseteq Roles
  BY DEF Typed, Request
<1> QED
  BY <1>1, NewRowType DEF Typed, Created

(* Every step keeps the types; <1>5 and <1>8 are the two ways a step of a  *)
(* request rewrites its record.                                            *)
LEMMA TypeStep ==
  ASSUME Typed, [Next]_vars PROVE Typed'
<1> USE DEF Typed
<1>1. ASSUME NEW r \in Requests, NEW u \in Users, Login(r, u) PROVE Typed'
  <2>1. [Idle EXCEPT !.pc = "findByUser", !.op = "login",
                     !.user = {u}, !.role = {role[u]}] \in Request
    BY DEF Idle, Request, Stages, Ops
  <2> QED BY <1>1, <2>1 DEF Login, store, history
<1>2. ASSUME NEW r \in Requests, NEW b \in issued, NEW c \in issued,
             Refresh(r, b, c)
      PROVE Typed'
  <2>1. [Idle EXCEPT !.pc = "checkExpiry", !.op = "refresh", !.bearer = {b},
                     !.cookie = {c}] \in Request
    BY DEF Idle, Request, Stages, Ops
  <2> QED BY <1>2, <2>1 DEF Refresh, store, history
<1>3. ASSUME NEW r \in Requests, NEW b \in issued, NEW u \in Users,
             NEW ro \in Roles, RoleChange(r, b, u, ro)
      PROVE Typed'
  <2>1. [Idle EXCEPT !.pc = "checkExpiry", !.op = "role", !.user = {u},
                     !.role = {ro}, !.bearer = {b}] \in Request
    BY DEF Idle, Request, Stages, Ops
  <2> QED BY <1>3, <2>1 DEF RoleChange, store, history
<1>4. ASSUME NEW r \in Requests, NEW c \in issued, Logout(r, c) PROVE Typed'
  <2>1. [Idle EXCEPT !.pc = "findByRefresh", !.op = "logout",
                     !.cookie = {c}] \in Request
    BY DEF Idle, Request, Stages, Ops
  <2> QED BY <1>4, <2>1 DEF Logout, store, history
<1>5. ASSUME NEW r \in Requests, NEW stage \in Stages,
             Goto(r, stage) \/ End(r)
      PROVE  req' \in [Requests -> Request]
  <2>1. [req[r] EXCEPT !.pc = stage] \in Request
    BY DEF Request
  <2> QED BY <1>5, <2>1, IdleType DEF Goto, End
<1>6. ASSUME NEW r \in Requests, CheckExpiry(r) PROVE Typed'
  BY <1>5, <1>6 DEF CheckExpiry, Stages, store, history
<1>7. ASSUME NEW r \in Requests, CheckBlacklist(r) PROVE Typed'
  BY <1>5, <1>7 DEF CheckBlacklist, Stages, store, history
<1>8. ASSUME NEW r \in Requests, NEW stage \in Stages, NEW rows \in SUBSET Row,
             req' = [req EXCEPT ![r].pc = stage, ![r].found = rows]
      PROVE  req' \in [Requests -> Request]
  <2>1. [req[r] EXCEPT !.pc = stage, !.found = rows] \in Request
    BY DEF Request
  <2> QED BY <1>8, <2>1
<1>9. ASSUME NEW r \in Requests, FindByRefresh(r) PROVE Typed'
  <2>1. UNION {ByRefreshToken(t) : t \in req[r].cookie} \in SUBSET Row
    BY DEF ByRefreshToken
  <2>2. req' \in [Requests -> Request]
    BY <1>5, <1>8, <1>9, <2>1 DEF FindByRefresh, Stages
  <2> QED BY <1>9, <2>2 DEF FindByRefresh, store, history
<1>10. ASSUME NEW r \in Requests, Blacklist(r) PROVE Typed'
  <2>1. req[r].found \in SUBSET Row
    BY DEF Request
  <2>2. req' \in [Requests -> Request]
    BY <1>5, <1>10 DEF Blacklist, Stages
  <2>3. revoked' \subseteq Token
    BY <1>10, <2>1 DEF Blacklist, Row
  <2> QED BY <1>10, <2>1, <2>2, <2>3, BlacklistingType DEF Blacklist, store
<1>11. ASSUME NEW r \in Requests, Delete(r) PROVE Typed'
  <2>1. req[r].found \in SUBSET Row
    BY DEF Request
  <2>2. req' \in [Requests -> Request]
    <3>1. "generate" \in Stages /\ "idle" \in Stages /\ {} \in SUBSET Row
      BY DEF Stages
    <3>2. \/ req' = [req EXCEPT ![r].pc = "generate", ![r].found = {}]
          \/ End(r)
      BY <1>11 DEF Delete
    <3>3. CASE End(r)
      BY <1>5, <3>1, <3>3
    <3>4. CASE req' = [req EXCEPT ![r].pc = "generate", ![r].found = {}]
      BY <1>8, <3>1, <3>4
    <3> QED BY <3>2, <3>3, <3>4
  <2>3. sessions' \subseteq Row /\ closed' \subseteq Nat
    BY <1>11, <2>1 DEF Delete, Without, Row
  <2> QED BY <1>11, <2>2, <2>3 DEF Delete
<1>12. ASSUME NEW r \in Requests, ChangeRole(r) PROVE Typed'
  <2>1. req[r].role \subseteq Roles
    BY DEF Request
  <2>2. req' \in [Requests -> Request]
    BY <1>5, <1>12 DEF ChangeRole, Stages
  <2>3. role' \in [Users -> Roles]
    BY <1>12, <2>1 DEF ChangeRole
  <2> QED BY <1>12, <2>2, <2>3 DEF ChangeRole, history
<1>13. ASSUME NEW r \in Requests, FindByUser(r) PROVE Typed'
  <2>1. UNION {ByUserId(u) : u \in req[r].user} \in SUBSET Row
    BY DEF ByUserId
  <2>2. req' \in [Requests -> Request]
    BY <1>5, <1>8, <1>13, <2>1 DEF FindByUser, Stages
  <2> QED BY <1>13, <2>2 DEF FindByUser, store, history
<1>14. ASSUME NEW r \in Requests, Invalidate(r) PROVE Typed'
  <2>1. req[r].found \in SUBSET Row /\ Unexpired(req[r].found) \in SUBSET Row
    BY DEF Request, Unexpired
  <2>2. req' \in [Requests -> Request]
    BY <1>5, <1>14 DEF Invalidate, Stages
  <2>3. revoked' \subseteq Token
    BY <1>14, <2>1 DEF Invalidate, Row
  <2> QED BY <1>14, <2>1, <2>2, <2>3, BlacklistingType DEF Invalidate, store
<1>15. ASSUME NEW r \in Requests, Generate(r) PROVE Typed'
  <2>1. req[r].found \in SUBSET Row
    BY DEF Request
  <2>2. Renewed(req[r].found) \in SUBSET Row
    BY <2>1, RenewedType
  <2>3. Created(r) \in SUBSET Row
    BY CreatedType
  <2>4. req' \in [Requests -> Request]
    BY <1>5, <1>8, <1>15, <2>2, <2>3 DEF Generate, Stages
  <2> QED BY <1>15, <2>4 DEF Generate, store, history
<1>16. ASSUME NEW rows \in SUBSET Row PROVE TokensOf(rows) \subseteq Token
  BY DEF TokensOf, Row
<1>17. ASSUME NEW r \in Requests, Insert(r) PROVE Typed'
  <2>1. req[r].found \in SUBSET Row
    BY DEF Request
  <2>2. sessions' \subseteq Row
    BY <1>17, <2>1 DEF Insert, Row
  <2>3. req' \in [Requests -> Request]
    BY <1>5, <1>17 DEF Insert, Stages
  <2>4. issued' \subseteq Token
    BY <1>16, <1>17, <2>1 DEF Insert
  <2> QED BY <1>17, <2>2, <2>3, <2>4 DEF Insert
<1>18. ASSUME NEW r \in Requests, Update(r) PROVE Typed'
  <2>1. req[r].found \in SUBSET Row
    BY DEF Request
  <2>2. sessions' \subseteq Row
    BY <1>18, <2>1 DEF Update, Without
  <2>3. req' \in [Requests -> Request]
    BY <1>5, <1>18 DEF Update, Stages
  <2>4. issued' \subseteq Token
    BY <1>16, <1>18, <2>1 DEF Update
  <2> QED BY <1>18, <2>2, <2>3, <2>4 DEF Update
<1>19. CASE CleanExpiredToken
  BY <1>19 DEF CleanExpiredToken, store, history
<1>20. ASSUME NEW u \in Users, DeleteUser(u) PROVE Typed'
  BY <1>20 DEF DeleteUser, history
<1>21. CASE Tick
  BY <1>21 DEF Tick, store, history
<1>22. CASE Restart
  BY <1>22, IdleType DEF Restart, store
<1>23. CASE UNCHANGED vars
  BY <1>23 DEF vars
<1> QED
  BY <1>1, <1>2, <1>3, <1>4, <1>6, <1>7, <1>9, <1>10, <1>11, <1>12, <1>13,
     <1>14, <1>15, <1>17, <1>18, <1>19, <1>20, <1>21, <1>22, <1>23
  DEF Next, Arrive, Proceed

(* An Optional: no step gives a request two values where it has one.       *)
Lone(q) ==
  /\ AtMostOne(q.found) /\ AtMostOne(q.user) /\ AtMostOne(q.role)
  /\ AtMostOne(q.bearer) /\ AtMostOne(q.cookie)

LEMMA LoneIdle == Lone(Idle)
  BY DEF Lone, Idle, AtMostOne

(* Another stage, and the rows a query found or a request is to save.      *)
LEMMA LoneAtStage ==
  ASSUME Typed, NEW r \in Requests, Lone(req[r]), NEW stage,
         Goto(r, stage) \/ End(r)
  PROVE  Lone(req'[r])
<1>1. CASE Goto(r, stage)
  <2>1. /\ req'[r].found = req[r].found /\ req'[r].user = req[r].user
        /\ req'[r].role = req[r].role /\ req'[r].bearer = req[r].bearer
        /\ req'[r].cookie = req[r].cookie
    BY <1>1 DEF Typed, Request, Goto
  <2> QED BY <2>1 DEF Lone
<1>2. CASE End(r)
  BY <1>2, LoneIdle DEF Typed, End
<1> QED
  BY <1>1, <1>2

LEMMA LoneFound ==
  ASSUME Typed, NEW r \in Requests, Lone(req[r]), NEW stage, NEW rows,
         AtMostOne(rows), req' = [req EXCEPT ![r].pc = stage, ![r].found = rows]
  PROVE  Lone(req'[r])
<1>1. /\ req'[r].found = rows /\ req'[r].user = req[r].user
      /\ req'[r].role = req[r].role /\ req'[r].bearer = req[r].bearer
      /\ req'[r].cookie = req[r].cookie
  BY DEF Typed, Request
<1> QED
  BY <1>1 DEF Lone

LEMMA LoneArrive ==
  ASSUME Typed, NEW r \in Requests, Arrive(r) PROVE Lone(req'[r])
<1> USE DEF Typed, Idle, Lone, AtMostOne
<1>1. ASSUME NEW u \in Users, Login(r, u) PROVE Lone(req'[r])
  BY <1>1 DEF Login
<1>2. ASSUME NEW b \in issued, NEW c \in issued, Refresh(r, b, c)
      PROVE  Lone(req'[r])
  BY <1>2 DEF Refresh
<1>3. ASSUME NEW b \in issued, NEW u \in Users, NEW ro \in Roles,
             RoleChange(r, b, u, ro)
      PROVE  Lone(req'[r])
  BY <1>3 DEF RoleChange
<1>4. ASSUME NEW c \in issued, Logout(r, c) PROVE Lone(req'[r])
  BY <1>4 DEF Logout
<1> QED
  BY <1>1, <1>2, <1>3, <1>4 DEF Arrive

LEMMA LoneProceed ==
  ASSUME Typed, NEW r \in Requests, Lone(req[r]), Proceed(r)
  PROVE  Lone(req'[r])
<1>1. ASSUME NEW rows, Single(rows) PROVE AtMostOne(rows)
  BY <1>1 DEF Single, AtMostOne
<1>2. CASE \/ CheckExpiry(r) \/ CheckBlacklist(r) \/ Blacklist(r)
           \/ ChangeRole(r) \/ Invalidate(r) \/ Insert(r) \/ Update(r)
  BY <1>2, LoneAtStage DEF CheckExpiry, CheckBlacklist, Blacklist, ChangeRole,
     Invalidate, Insert, Update
<1>3. CASE FindByRefresh(r)
  BY <1>1, <1>3, LoneAtStage, LoneFound DEF FindByRefresh
<1>4. CASE FindByUser(r)
  BY <1>1, <1>4, LoneAtStage, LoneFound DEF FindByUser
<1>5. CASE Delete(r)
  <2>1. AtMostOne({})
    BY DEF AtMostOne
  <2> QED BY <1>5, <2>1, LoneAtStage, LoneFound DEF Delete
<1>6. CASE Generate(r)
  <2>1. AtMostOne(Created(r))
    BY DEF Created, NewRow, Lone, AtMostOne
  <2>2. AtMostOne(Renewed(req[r].found))
    BY DEF Renewed, NewRow, Lone, AtMostOne
  <2> QED BY <1>6, <2>1, <2>2, LoneAtStage, LoneFound DEF Generate
<1> QED
  BY <1>2, <1>3, <1>4, <1>5, <1>6 DEF Proceed

(* A step of one request leaves the others their records, and takes no     *)
(* token back that was revoked.                                            *)
LEMMA OthersKeep ==
  ASSUME Typed, NEW r \in Requests, Arrive(r) \/ Proceed(r)
  PROVE  /\ \A q \in Requests \ {r} : req'[q] = req[q]
         /\ revoked \subseteq revoked'
<1> USE DEF Typed
<1>1. CASE Arrive(r)
  BY <1>1 DEF Arrive, Login, Refresh, RoleChange, Logout, history
<1>2. CASE \/ CheckExpiry(r) \/ CheckBlacklist(r) \/ FindByRefresh(r)
           \/ Blacklist(r) \/ ChangeRole(r) \/ FindByUser(r) \/ Invalidate(r)
  BY <1>2 DEF CheckExpiry, CheckBlacklist, FindByRefresh, Blacklist,
     ChangeRole, FindByUser, Invalidate, Goto, End, history
<1>3. CASE Delete(r) \/ Generate(r) \/ Insert(r) \/ Update(r)
  BY <1>3 DEF Delete, Generate, Insert, Update, Goto, End, history
<1> QED
  BY <1>1, <1>2, <1>3 DEF Proceed

(* Every variable keeps its type, and no request holds two rows, accounts, *)
(* roles or tokens where the code has one.                                 *)
THEOREM TypeCorrect == Spec => []TypeOK
<1>1. TypeOK <=> Typed /\ \A q \in Requests : Lone(req[q])
  BY DEF TypeOK, Lone
<1>2. Init => TypeOK
  BY IdleType, LoneIdle DEF Init, TypeOK, Typed, Lone
<1>3. TypeOK /\ [Next]_vars => TypeOK'
  <2> SUFFICES ASSUME TypeOK, [Next]_vars PROVE TypeOK'
    OBVIOUS
  <2>1. Typed'
    BY <1>1, TypeStep
  <2>2. ASSUME NEW r \in Requests, Arrive(r) \/ Proceed(r)
        PROVE  \A q \in Requests : Lone(req'[q])
    <3>1. Lone(req'[r])
      BY <1>1, <2>2, LoneArrive, LoneProceed
    <3>2. \A q \in Requests \ {r} : req'[q] = req[q]
      BY <1>1, <2>2, OthersKeep
    <3> QED BY <1>1, <3>1, <3>2
  <2>3. ASSUME Restart PROVE \A q \in Requests : Lone(req'[q])
    BY <2>3, LoneIdle DEF Restart
  <2>4. ASSUME \/ CleanExpiredToken \/ Tick \/ UNCHANGED vars
               \/ \E u \in Users : DeleteUser(u)
        PROVE  \A q \in Requests : Lone(req'[q])
    BY <1>1, <2>4 DEF CleanExpiredToken, Tick, vars, DeleteUser
  <2>5. \A q \in Requests : Lone(req'[q])
    BY <2>2, <2>3, <2>4 DEF Next
  <2> QED BY <2>1, <2>5 DEF TypeOK, Lone
<1> QED
  BY <1>2, <1>3, PTL DEF Spec

-----------------------------------------------------------------------------
(* Revocation.  Alone, RevokedStaysRevoked is not inductive: a clean-up may *)
(* forget an entry only because no entry expires before its token does,    *)
(* and an expired session may go without an entry only because no row, in  *)
(* the table or in a request's hands, outlives its access token.           *)

RowsCover ==
  /\ \A s \in sessions : Covers(s)
  /\ \A r \in Requests : \A s \in req[r].found : Covers(s)
EntriesCover == \A e \in blacklist : Exp(e.token) <= e.exp

RevocationInv == Typed /\ RowsCover /\ EntriesCover /\ RevokedStaysRevoked

(* A request that arrives changes nothing but its own record, in which no  *)
(* row was found yet.                                                      *)
LEMMA ArriveOnlyReads ==
  ASSUME req \in [Requests -> Request], NEW r \in Requests, Arrive(r)
  PROVE  /\ UNCHANGED <<now, store, blacklist, restarts, history>>
         /\ \A q \in Requests : req'[q].found \subseteq req[q].found
<1>1. ASSUME NEW u \in Users, Login(r, u)
      PROVE  /\ UNCHANGED <<now, store, blacklist, restarts, history>>
             /\ \A q \in Requests : req'[q].found \subseteq req[q].found
  BY <1>1 DEF Login, Idle
<1>2. ASSUME NEW b \in issued, NEW c \in issued, Refresh(r, b, c)
      PROVE  /\ UNCHANGED <<now, store, blacklist, restarts, history>>
             /\ \A q \in Requests : req'[q].found \subseteq req[q].found
  BY <1>2 DEF Refresh, Idle
<1>3. ASSUME NEW b \in issued, NEW u \in Users, NEW ro \in Roles,
             RoleChange(r, b, u, ro)
      PROVE  /\ UNCHANGED <<now, store, blacklist, restarts, history>>
             /\ \A q \in Requests : req'[q].found \subseteq req[q].found
  BY <1>3 DEF RoleChange, Idle
<1>4. ASSUME NEW c \in issued, Logout(r, c)
      PROVE  /\ UNCHANGED <<now, store, blacklist, restarts, history>>
             /\ \A q \in Requests : req'[q].found \subseteq req[q].found
  BY <1>4 DEF Logout, Idle
<1> QED
  BY <1>1, <1>2, <1>3, <1>4 DEF Arrive

(* The clock never goes back.                                              *)
LEMMA ClockStep ==
  ASSUME Typed, [Next]_vars PROVE now' \in Nat /\ now <= now'
<1> USE DEF Typed
<1>1. CASE Tick
  BY <1>1 DEF Tick
<1>2. ASSUME NEW r \in Requests, Arrive(r) PROVE now' = now
  BY <1>2, ArriveOnlyReads
<1>3. ASSUME NEW r \in Requests, Proceed(r) PROVE now' = now
  BY <1>3 DEF Proceed, CheckExpiry, CheckBlacklist, FindByRefresh, Blacklist,
     Delete, ChangeRole, FindByUser, Invalidate, Generate, Insert, Update
<1>4. CASE \/ CleanExpiredToken \/ Restart \/ UNCHANGED vars
           \/ \E u \in Users : DeleteUser(u)
  BY <1>4 DEF CleanExpiredToken, Restart, vars, DeleteUser
<1> QED
  BY <1>1, <1>2, <1>3, <1>4 DEF Next

(* An in-flight record only ever takes over covering rows.                 *)
LEMMA RowsStep ==
  ASSUME Typed, RowsCover, [Next]_vars PROVE RowsCover'
<1> USE DEF RowsCover, Typed
<1>1. ASSUME NEW s, Covers(s) PROVE Covers(s)'
  BY <1>1 DEF Covers, Exp, Validity
<1>2. ASSUME NEW r \in Requests, NEW stage, Goto(r, stage)
      PROVE  \A q \in Requests : req'[q].found = req[q].found
  BY <1>2 DEF Goto, Request
<1>3. ASSUME NEW r \in Requests, End(r)
      PROVE  \A q \in Requests : req'[q].found \subseteq req[q].found
  BY <1>3 DEF End, Idle
<1>4. ASSUME NEW r \in Requests, NEW stage, NEW rows,
             req' = [req EXCEPT ![r].pc = stage, ![r].found = rows]
      PROVE  \A q \in Requests : \/ req'[q].found = rows
                                 \/ req'[q].found = req[q].found
  BY <1>4 DEF Request
<1>5. ASSUME sessions' = sessions,
             \A q \in Requests : req'[q].found \subseteq req[q].found
      PROVE  RowsCover'
  BY <1>1, <1>5
<1>6. ASSUME NEW r \in Requests, Arrive(r) PROVE RowsCover'
  BY <1>5, <1>6, ArriveOnlyReads DEF store
<1>7. ASSUME NEW r \in Requests,
             \/ CheckExpiry(r) \/ CheckBlacklist(r) \/ Blacklist(r)
             \/ ChangeRole(r) \/ Invalidate(r)
      PROVE  RowsCover'
  BY <1>2, <1>3, <1>5, <1>7
  DEF CheckExpiry, CheckBlacklist, Blacklist, ChangeRole, Invalidate, store
<1>8. ASSUME NEW r \in Requests, FindByRefresh(r) PROVE RowsCover'
  <2>1. UNION {ByRefreshToken(t) : t \in req[r].cookie} \subseteq sessions
    BY DEF ByRefreshToken
  <2>2. sessions' = sessions
    BY <1>8 DEF FindByRefresh, store
  <2> DEFINE rows == UNION {ByRefreshToken(t) : t \in req[r].cookie}
  <2>3. \/ End(r)
        \/ req' = [req EXCEPT ![r].pc = "blacklist", ![r].found = rows]
    BY <1>8 DEF FindByRefresh
  <2> HIDE DEF rows
  <2>4. CASE End(r)
    BY <1>3, <1>5, <2>2, <2>4
  <2>5. CASE req' = [req EXCEPT ![r].pc = "blacklist", ![r].found = rows]
    <3>1. \A q \in Requests : \/ req'[q].found = rows
                             \/ req'[q].found = req[q].found
      BY <2>5 DEF Request
    <3>2. \A s \in rows : Covers(s)
      BY <2>1 DEF rows
    <3> QED BY <1>1, <2>2, <3>1, <3>2
  <2> QED BY <2>3, <2>4, <2>5
<1>9. ASSUME NEW r \in Requests, FindByUser(r) PROVE RowsCover'
  <2>1. UNION {ByUserId(u) : u \in req[r].user} \subseteq sessions
    BY DEF ByUserId
  <2>2. sessions' = sessions
    BY <1>9 DEF FindByUser, store
  <2> DEFINE rows == UNION {ByUserId(u) : u \in req[r].user}
  <2>3. \/ End(r) \/ Goto(r, "generate")
        \/ req' = [req EXCEPT ![r].pc = "invalidate", ![r].found = rows]
    BY <1>9 DEF FindByUser
  <2> HIDE DEF rows
  <2>4. CASE End(r) \/ Goto(r, "generate")
    BY <1>2, <1>3, <1>5, <2>2, <2>4
  <2>5. CASE req' = [req EXCEPT ![r].pc = "invalidate", ![r].found = rows]
    <3>1. \A q \in Requests : \/ req'[q].found = rows
                             \/ req'[q].found = req[q].found
      BY <2>5 DEF Request
    <3>2. \A s \in rows : Covers(s)
      BY <2>1 DEF rows
    <3> QED BY <1>1, <2>2, <3>1, <3>2
  <2> QED BY <2>3, <2>4, <2>5
<1>10. ASSUME NEW r \in Requests, Delete(r) PROVE RowsCover'
  <2>1. sessions' \subseteq sessions
    BY <1>10 DEF Delete, Without
  <2>2. \A q \in Requests : req'[q].found \subseteq req[q].found
    BY <1>3, <1>4, <1>10 DEF Delete
  <2> QED BY <1>1, <2>1, <2>2
<1>11. ASSUME NEW r \in Requests, Generate(r) PROVE RowsCover'
  <2>1. req[r].found \in SUBSET Row
    BY DEF Request
  <2>2. \A s \in Created(r) \cup Renewed(req[r].found) : Covers(s)
    BY <2>1, CreatedType, RenewedType
  <2>3. sessions' = sessions
    BY <1>11 DEF Generate, store
  <2>4. \A q \in Requests : \/ req'[q].found = Created(r)
                            \/ req'[q].found = Renewed(req[r].found)
                            \/ req'[q].found \subseteq req[q].found
    BY <1>3, <1>4, <1>11 DEF Generate
  <2> QED BY <1>1, <2>2, <2>3, <2>4
<1>12. ASSUME NEW r \in Requests, Insert(r) PROVE RowsCover'
  <2>1. \A s \in req[r].found : Covers([s EXCEPT !.id = nextId])
    BY DEF Covers, Request, Row
  <2> QED BY <1>1, <1>3, <1>12, <2>1 DEF Insert
<1>13. ASSUME NEW r \in Requests, Update(r) PROVE RowsCover'
  <2>1. sessions' \subseteq sessions \cup req[r].found
    BY <1>13 DEF Update, Without
  <2> QED BY <1>1, <1>3, <1>13, <2>1 DEF Update
<1>14. CASE \/ CleanExpiredToken \/ Tick \/ UNCHANGED vars
            \/ \E u \in Users : DeleteUser(u)
  BY <1>5, <1>14 DEF CleanExpiredToken, Tick, vars, DeleteUser, store
<1>15. CASE Restart
  BY <1>5, <1>15 DEF Restart, Idle, store
<1> QED
  BY <1>6, <1>7, <1>8, <1>9, <1>10, <1>11, <1>12, <1>13, <1>14, <1>15
  DEF Next, Proceed

(* addBlacklist keeps every entry and leaves no row of its without one.    *)
LEMMA BlacklistingKeeps ==
  ASSUME Typed, EntriesCover, NEW rows \in SUBSET Row, \A s \in rows : Covers(s)
  PROVE  /\ blacklist \subseteq Blacklisting(rows)
         /\ \A e \in Blacklisting(rows) : Exp(e.token) <= e.exp
         /\ \A s \in rows : \E e \in Blacklisting(rows) : e.token = s.access
<1>1. ASSUME NEW s \in rows
      PROVE  \E e \in Blacklisting(rows) : e.token = s.access
  <2>1. CASE Blacklisted(s.access)
    BY <2>1 DEF Blacklisted, Blacklisting
  <2>2. CASE ~Blacklisted(s.access)
    <3>1. [token |-> s.access, exp |-> s.exp] \in Blacklisting(rows)
      BY <2>2 DEF Blacklisting
    <3> QED BY <3>1
  <2> QED BY <2>1, <2>2
<1>2. ASSUME NEW e \in Blacklisting(rows)
      PROVE  Exp(e.token) <= e.exp
  <2>1. \/ e \in blacklist
        \/ \E s \in rows : e = [token |-> s.access, exp |-> s.exp]
    BY DEF Blacklisting
  <2> QED BY <2>1 DEF EntriesCover, Covers
<1>3. blacklist \subseteq Blacklisting(rows)
  BY DEF Blacklisting
<1> QED
  BY <1>1, <1>2, <1>3

LEMMA RevocationStep ==
  ASSUME RevocationInv, [Next]_vars PROVE RevocationInv'
<1> USE DEF RevocationInv
<1>1. Typed'
  BY TypeStep
<1>2. RowsCover'
  BY RowsStep
<1>3. now \in Nat /\ now' \in Nat /\ now <= now'
  BY ClockStep DEF Typed
<1>4. \A e \in blacklist : e.token \in Token /\ Exp(e.token) \in Nat /\ e.exp \in Nat
  BY ExpType DEF Typed
<1>5. \A t \in revoked : Exp(t) \in Nat
  BY ExpType DEF Typed
<1>6. ASSUME NEW t PROVE Exp(t)' = Exp(t)
  BY DEF Exp, Validity
<1>7. ASSUME blacklist' = blacklist, revoked' = revoked
      PROVE  EntriesCover' /\ RevokedStaysRevoked'
  BY <1>3, <1>5, <1>6, <1>7
  DEF EntriesCover, RevokedStaysRevoked, IsValid, Expired, Blacklisted
<1>8. ASSUME NEW r \in Requests, Blacklist(r)
      PROVE  EntriesCover' /\ RevokedStaysRevoked'
  <2>1. req[r].found \in SUBSET Row /\ \A s \in req[r].found : Covers(s)
    BY DEF Typed, Request, RowsCover
  <2>2. /\ blacklist' = Blacklisting(req[r].found)
        /\ revoked' = revoked \cup {s.access : s \in req[r].found}
        /\ now' = now
    BY <1>8 DEF Blacklist
  <2> QED
    BY <1>6, <2>1, <2>2, BlacklistingKeeps
    DEF EntriesCover, RevokedStaysRevoked, IsValid, Expired, Blacklisted
<1>9. ASSUME NEW r \in Requests, Invalidate(r)
      PROVE  EntriesCover' /\ RevokedStaysRevoked'
  <2> DEFINE rows == req[r].found
  <2>1. rows \in SUBSET Row /\ \A s \in rows : Covers(s)
    BY DEF Typed, Request, RowsCover
  <2>2. /\ blacklist' = Blacklisting(Unexpired(rows))
        /\ revoked' = revoked \cup {s.access : s \in rows}
        /\ now' = now
    BY <1>9 DEF Invalidate
  <2>3. Unexpired(rows) \in SUBSET Row /\ \A s \in Unexpired(rows) : Covers(s)
    BY <2>1 DEF Unexpired
  <2>4. \A s \in rows : \/ s \in Unexpired(rows)
                        \/ Exp(s.access) < now
    <3>1. \A s \in rows : Exp(s.access) \in Nat /\ s.exp \in Nat
      BY <2>1, ExpType DEF Row
    <3> QED BY <1>3, <2>1, <3>1 DEF Unexpired, Expired, Covers
  <2> HIDE DEF rows
  <2> QED
    BY <1>6, <2>2, <2>3, <2>4, BlacklistingKeeps
    DEF EntriesCover, RevokedStaysRevoked, IsValid, Expired, Blacklisted
<1>10. CASE CleanExpiredToken
  <2>1. /\ blacklist' = {e \in blacklist : ~Expired(e.exp)}
        /\ revoked' = revoked /\ now' = now
    BY <1>10 DEF CleanExpiredToken, history
  <2>2. \A e \in blacklist : e \in blacklist' \/ Exp(e.token) < now
    BY <1>3, <1>4, <2>1 DEF EntriesCover, Expired
  <2>3. EntriesCover'
    BY <1>6, <2>1 DEF EntriesCover
  <2>4. ASSUME NEW t \in revoked PROVE ~IsValid(t)'
    <3>1. CASE Exp(t) < now
      BY <1>6, <2>1, <3>1 DEF IsValid, Expired
    <3>2. CASE ~(Exp(t) < now)
      <4>1. PICK e \in blacklist : e.token = t
        BY <3>2 DEF RevokedStaysRevoked, IsValid, Expired, Blacklisted
      <4>2. e \in blacklist'
        BY <2>2, <3>2, <4>1
      <4> QED BY <4>1, <4>2 DEF IsValid, Blacklisted
    <3> QED BY <3>1, <3>2
  <2> QED
    BY <1>1, <1>2, <2>1, <2>3, <2>4 DEF RevokedStaysRevoked
<1>11. CASE Restart
  <2>1. blacklist' = {} /\ revoked' = {}
    BY <1>11 DEF Restart
  <2> QED
    BY <1>1, <1>2, <2>1 DEF EntriesCover, RevokedStaysRevoked
<1>12. ASSUME NEW r \in Requests, Arrive(r)
       PROVE  EntriesCover' /\ RevokedStaysRevoked'
  BY <1>7, <1>12, ArriveOnlyReads DEF Typed, history
<1>13. CASE Tick \/ UNCHANGED vars \/ \E u \in Users : DeleteUser(u)
  BY <1>1, <1>2, <1>7, <1>13 DEF Tick, vars, DeleteUser, history
<1>14. ASSUME NEW r \in Requests,
              \/ CheckExpiry(r) \/ CheckBlacklist(r) \/ FindByRefresh(r)
              \/ Delete(r) \/ ChangeRole(r) \/ FindByUser(r) \/ Generate(r)
              \/ Insert(r) \/ Update(r)
       PROVE  EntriesCover' /\ RevokedStaysRevoked'
  BY <1>7, <1>14 DEF CheckExpiry, CheckBlacklist, FindByRefresh, Delete,
     ChangeRole, FindByUser, Generate, Insert, Update, history
<1> QED
  BY <1>1, <1>2, <1>8, <1>9, <1>10, <1>11, <1>12, <1>13, <1>14
  DEF Next, Proceed

(* The invariant of sessions, blacklist and clock, from which the theorems *)
(* on revocation follow.                                                   *)
THEOREM RevocationInductive == Spec => []RevocationInv
<1>1. Init => RevocationInv
  BY IdleType DEF Init, RevocationInv, Typed, RowsCover, EntriesCover,
     RevokedStaysRevoked, Idle
<1> QED
  BY <1>1, RevocationStep, PTL DEF Spec

(* A revoked access token is refused until the server restarts.            *)
THEOREM RevokedForGood == Spec => []RevokedStaysRevoked
<1>1. RevocationInv => RevokedStaysRevoked
  BY DEF RevocationInv
<1> QED
  BY <1>1, RevocationInductive, PTL

-----------------------------------------------------------------------------
(* The filter reads the expiry first and the blacklist later; the clean-up *)
(* between the two can only drop tokens that expired meanwhile.            *)
THEOREM AdmissionRefusesRevoked == Spec => AdmittedIsLive
<1> DEFINE A == \A r \in Requests :
       req[r].pc = "checkBlacklist" /\ req'[r].pc \in {"findByRefresh", "changeRole"}
         => \A t \in req[r].bearer : t \in revoked => Expired(Exp(t))
<1>1. ASSUME RevocationInv, [Next]_vars PROVE A
  <2> SUFFICES ASSUME NEW r \in Requests, req[r].pc = "checkBlacklist",
                      req'[r].pc \in {"findByRefresh", "changeRole"}
               PROVE  \A t \in req[r].bearer : t \in revoked => Expired(Exp(t))
    OBVIOUS
  <2>1. req \in [Requests -> Request]
    BY <1>1 DEF RevocationInv, Typed
  <2>2. CheckBlacklist(r)
    <3>1. ~ UNCHANGED req
      OBVIOUS
    <3>2. ~ (Restart \/ CleanExpiredToken \/ Tick \/ \E u \in Users : DeleteUser(u))
      BY <3>1 DEF Restart, CleanExpiredToken, Tick, DeleteUser, Idle
    <3>3. PICK q \in Requests : Arrive(q) \/ Proceed(q)
      BY <1>1, <3>1, <3>2 DEF Next, vars
    <3>4. q = r
      BY <2>1, <3>3 DEF Arrive, Proceed, Login, Refresh, RoleChange, Logout,
         CheckExpiry, CheckBlacklist, FindByRefresh, Blacklist, Delete,
         ChangeRole, FindByUser, Invalidate, Generate, Insert, Update, Goto, End,
         history, store
    <3> QED
      BY <3>3, <3>4 DEF Arrive, Proceed, Login, Refresh, RoleChange, Logout,
         CheckExpiry, FindByRefresh, Blacklist, Delete,
         ChangeRole, FindByUser, Invalidate, Generate, Insert, Update
  <2>3. ~ End(r)
    BY <2>1 DEF End, Idle
  <2>4. \A t \in req[r].bearer : ~Blacklisted(t)
    BY <2>2, <2>3 DEF CheckBlacklist, Admits
  <2> QED
    BY <1>1, <2>4 DEF RevocationInv, RevokedStaysRevoked, IsValid
<1> QED
  BY <1>1, RevocationInductive, PTL DEF Spec, AdmittedIsLive

-----------------------------------------------------------------------------
(* Keys.  The next primary key is above every key in use and every key     *)
(* given up, and an UPDATE only rewrites a row that is in the table.       *)
KeysInv ==
  /\ Typed
  /\ \A s \in sessions : s.id < nextId
  /\ \A k \in closed : k < nextId
  /\ ClosedStaysClosed

LEMMA KeysStep ==
  ASSUME KeysInv, [Next]_vars PROVE KeysInv'
<1> USE DEF KeysInv
<1>1. Typed'
  BY TypeStep
<1>2. nextId \in Nat /\ \A s \in sessions : s.id \in Nat
  BY DEF Typed, Row
<1> DEFINE Keys == /\ \A s \in sessions : s.id < nextId
                   /\ \A k \in closed : k < nextId
                   /\ ClosedStaysClosed
<1>3. ASSUME sessions' = sessions, closed' = closed, nextId' = nextId PROVE Keys'
  BY <1>3 DEF ClosedStaysClosed
<1>4. ASSUME NEW r \in Requests, Delete(r) PROVE Keys'
  <2>1. CASE \A s \in req[r].found : Stored(s)
    <3>1. /\ sessions' = Without(req[r].found)
          /\ closed' = closed \cup {s.id : s \in req[r].found}
          /\ nextId' = nextId
      BY <1>4, <2>1 DEF Delete
    <3>2. \A s \in req[r].found : s.id < nextId
      BY <2>1 DEF Stored
    <3> QED BY <3>1, <3>2 DEF Without, ClosedStaysClosed
  <2>2. CASE ~ \A s \in req[r].found : Stored(s)
    BY <1>3, <1>4, <2>2 DEF Delete
  <2> QED BY <2>1, <2>2
<1>5. ASSUME NEW r \in Requests, Insert(r) PROVE Keys'
  <2>1. /\ sessions' = sessions \cup {[s EXCEPT !.id = nextId] : s \in req[r].found}
        /\ nextId' = nextId + 1 /\ closed' = closed
    BY <1>5 DEF Insert
  <2>2. \A s \in req[r].found : [s EXCEPT !.id = nextId].id = nextId
    BY DEF Typed, Request, Row
  <2>3. \A k \in closed : k \in Nat
    BY DEF Typed
  <2>4. \A s \in sessions' : s.id = nextId \/ s \in sessions
    BY <2>1, <2>2
  <2>5. \A s \in sessions' : s.id < nextId'
    BY <1>2, <2>1, <2>4
  <2>6. \A k \in closed' : k < nextId'
    BY <1>2, <2>1, <2>3
  <2>7. ClosedStaysClosed'
    BY <1>2, <2>1, <2>3, <2>4 DEF ClosedStaysClosed
  <2> QED BY <2>5, <2>6, <2>7
<1>6. ASSUME NEW r \in Requests, Update(r) PROVE Keys'
  <2>1. CASE \A s \in req[r].found : Stored(s)
    <3>1. /\ sessions' = Without(req[r].found) \cup req[r].found
          /\ nextId' = nextId /\ closed' = closed
      BY <1>6, <2>1 DEF Update
    <3>2. \A s \in sessions' : \E x \in sessions : s.id = x.id
      BY <2>1, <3>1 DEF Without, Stored
    <3> QED BY <3>1, <3>2 DEF ClosedStaysClosed
  <2>2. CASE ~ \A s \in req[r].found : Stored(s)
    BY <1>3, <1>6, <2>2 DEF Update
  <2> QED BY <2>1, <2>2
<1>7. CASE \/ CleanExpiredToken \/ Tick \/ Restart \/ UNCHANGED vars
           \/ \E u \in Users : DeleteUser(u)
  BY <1>1, <1>3, <1>7 DEF CleanExpiredToken, Tick, Restart, vars, DeleteUser,
     store, history
<1>8. ASSUME NEW r \in Requests, Arrive(r) PROVE Keys'
  BY <1>3, <1>8, ArriveOnlyReads DEF Typed, store, history
<1>9. ASSUME NEW r \in Requests,
             \/ CheckExpiry(r) \/ CheckBlacklist(r) \/ FindByRefresh(r)
             \/ Blacklist(r) \/ ChangeRole(r) \/ FindByUser(r)
             \/ Invalidate(r) \/ Generate(r)
      PROVE  Keys'
  BY <1>3, <1>9 DEF CheckExpiry, CheckBlacklist, FindByRefresh, Blacklist,
     ChangeRole, FindByUser, Invalidate, Generate, store, history
<1> QED
  BY <1>1, <1>4, <1>5, <1>6, <1>7, <1>8, <1>9 DEF Next, Proceed

(* A session that was deleted is never in the table again.                 *)
THEOREM ClosedForGood == Spec => []ClosedStaysClosed
<1>1. Init => KeysInv
  BY IdleType DEF Init, KeysInv, Typed, ClosedStaysClosed
<1>2. KeysInv => ClosedStaysClosed
  BY DEF KeysInv
<1> QED
  BY <1>1, <1>2, KeysStep, PTL DEF Spec
-----------------------------------------------------------------------------
(* What a request holds while others overtake it.                          *)

(* The two tokens of a row were minted together, for its account.          *)
AccessOf(t) == [user |-> t.user, role |-> t.role, type |-> "ACCESS", iat |-> t.iat]
Paired(s) ==
  /\ s.access = AccessOf(s.refresh)
  /\ s.refresh.type = "REFRESH" /\ s.refresh.user = s.user

(* The stages each kind of request goes through.                           *)
StagesOf(op) ==
  CASE op = "login" -> {"findByUser", "invalidate", "delete", "generate", "save"}
    [] op = "role" -> {"checkExpiry", "checkBlacklist", "changeRole", "findByUser",
                       "invalidate", "delete"}
    [] op = "refresh" -> {"checkExpiry", "checkBlacklist", "findByRefresh",
                          "blacklist", "generate", "save"}
    [] op = "logout" -> {"findByRefresh", "blacklist", "delete"}
    [] OTHER -> {"idle"}

(* A request that is about to write has revoked what it read: the token of *)
(* the row it found, or the one that goes with its cookie.                 *)
HoldsRevoked(q, gone) ==
  /\ q.pc = "blacklist" => \A t \in q.cookie : \E x \in q.found : x.refresh = t
  /\ q.pc \in {"delete", "generate", "save"} =>
       \A t \in q.cookie : AccessOf(t) \in gone
  /\ q.pc = "delete" => \A x \in q.found : x.access \in gone

Sound(q, gone) ==
  /\ q.pc \in StagesOf(q.op)
  /\ AtMostOne(q.cookie) /\ (q.cookie = {} <=> q.op \notin {"refresh", "logout"})
  /\ \A x \in q.found : Paired(x)
  /\ HoldsRevoked(q, gone)

PairsInv ==
  /\ RevocationInv
  /\ \A s \in sessions : Paired(s)
  /\ \A r \in Requests : Sound(req[r], revoked)

LEMMA StagesOfOp ==
  ASSUME NEW q \in Request, q.pc \in StagesOf(q.op)
  PROVE  /\ q.pc \in {"findByRefresh", "blacklist"} => q.op \in {"refresh", "logout"}
         /\ q.pc \in {"findByUser", "invalidate"} => q.op \in {"login", "role"}
         /\ q.pc \in {"checkExpiry", "checkBlacklist"} => q.op \in {"refresh", "role"}
         /\ q.pc = "delete" => q.op \in {"login", "role", "logout"}
         /\ q.pc \in {"generate", "save"} => q.op \in {"login", "refresh"}
         /\ q.pc = "changeRole" => q.op = "role"
  BY DEF StagesOf, Request, Ops

LEMMA PairsOfCookie ==
  ASSUME NEW s, Paired(s), NEW t, s.refresh = t PROVE s.access = AccessOf(t)
  BY DEF Paired

LEMMA NewRowPaired ==
  ASSUME NEW id, NEW u, NEW ro PROVE Paired(NewRow(id, u, ro))
  BY DEF Paired, NewRow, Mint, AccessOf

LEMMA RenumberedPaired ==
  ASSUME NEW s \in Row, Paired(s), NEW id PROVE Paired([s EXCEPT !.id = id])
  BY DEF Paired, Row

LEMMA SoundIdle == ASSUME NEW gone PROVE Sound(Idle, gone)
  BY DEF Sound, HoldsRevoked, Idle, StagesOf, AtMostOne

LEMMA SoundGrows ==
  ASSUME NEW q, NEW a, NEW b, a \subseteq b, Sound(q, a) PROVE Sound(q, b)
  BY DEF Sound, HoldsRevoked

(* Goto, field by field.                                                   *)
LEMMA AtStage ==
  ASSUME Typed, NEW r \in Requests, NEW stage, Goto(r, stage)
  PROVE  /\ req'[r].pc = stage /\ req'[r].found = req[r].found
         /\ req'[r].op = req[r].op /\ req'[r].cookie = req[r].cookie
         /\ req'[r].user = req[r].user /\ req'[r].role = req[r].role
  BY DEF Typed, Request, Goto

LEMMA AtEnd ==
  ASSUME Typed, NEW r \in Requests, End(r) PROVE req'[r] = Idle
  BY DEF Typed, End

LEMMA ArriveSound ==
  ASSUME Typed, NEW r \in Requests, Arrive(r) PROVE Sound(req'[r], revoked')
<1> USE DEF Typed, Idle, Sound, HoldsRevoked, StagesOf, AtMostOne
<1>1. ASSUME NEW u \in Users, Login(r, u) PROVE Sound(req'[r], revoked')
  BY <1>1 DEF Login
<1>2. ASSUME NEW b \in issued, NEW c \in issued, Refresh(r, b, c)
      PROVE  Sound(req'[r], revoked')
  BY <1>2 DEF Refresh
<1>3. ASSUME NEW b \in issued, NEW u \in Users, NEW ro \in Roles,
             RoleChange(r, b, u, ro)
      PROVE  Sound(req'[r], revoked')
  BY <1>3 DEF RoleChange
<1>4. ASSUME NEW c \in issued, Logout(r, c) PROVE Sound(req'[r], revoked')
  BY <1>4 DEF Logout
<1> QED
  BY <1>1, <1>2, <1>3, <1>4 DEF Arrive

(* A request that goes on, action by action.                               *)
LEMMA ProceedSound ==
  ASSUME PairsInv, NEW r \in Requests, Proceed(r)
  PROVE  Sound(req'[r], revoked')
<1>1. Typed /\ req[r] \in Request /\ Sound(req[r], revoked)
  BY DEF PairsInv, RevocationInv, Typed
<1>2. revoked \subseteq revoked'
  BY <1>1, OthersKeep
<1>3. CASE End(r)
  BY <1>1, <1>3, AtEnd, SoundIdle
<1>4. CASE CheckExpiry(r) /\ ~End(r)
  <2>1. Goto(r, "checkBlacklist") /\ req[r].pc = "checkExpiry"
    BY <1>4 DEF CheckExpiry
  <2> QED BY <1>1, <2>1, AtStage, StagesOfOp DEF Sound, HoldsRevoked, StagesOf
<1>5. CASE CheckBlacklist(r) /\ ~End(r)
  <2>1. /\ Goto(r, IF req[r].op = "role" THEN "changeRole" ELSE "findByRefresh")
        /\ req[r].pc = "checkBlacklist"
    BY <1>5 DEF CheckBlacklist
  <2> QED BY <1>1, <2>1, AtStage, StagesOfOp DEF Sound, HoldsRevoked, StagesOf
<1>6. CASE FindByRefresh(r) /\ ~End(r)
  <2> DEFINE rows == UNION {ByRefreshToken(t) : t \in req[r].cookie}
  <2>1. /\ req' = [req EXCEPT ![r].pc = "blacklist", ![r].found = rows]
        /\ Single(rows) /\ req[r].pc = "findByRefresh"
    BY <1>6 DEF FindByRefresh
  <2>2. rows # {}
    BY <2>1 DEF Single
  <2>3. PICK x : x \in rows
    BY <2>2
  <2>4. \A t \in req[r].cookie : x.refresh = t
    BY <1>1, <2>3 DEF Sound, AtMostOne, ByRefreshToken
  <2>5. \A s \in rows : Paired(s)
    BY DEF ByRefreshToken, PairsInv
  <2> HIDE DEF rows
  <2>6. /\ req'[r].pc = "blacklist" /\ req'[r].found = rows
        /\ req'[r].op = req[r].op /\ req'[r].cookie = req[r].cookie
    BY <1>1, <2>1 DEF Typed, Request
  <2>7. req[r].op \in {"refresh", "logout"}
    BY <1>1, <2>1, StagesOfOp DEF Sound
  <2> QED BY <1>1, <2>3, <2>4, <2>5, <2>6, <2>7 DEF Sound, HoldsRevoked, StagesOf
<1>7. CASE Blacklist(r)
  <2>1. /\ Goto(r, IF req[r].op = "refresh" THEN "generate" ELSE "delete")
        /\ req[r].pc = "blacklist"
        /\ revoked' = revoked \cup {s.access : s \in req[r].found}
    BY <1>7 DEF Blacklist
  <2>2. \A t \in req[r].cookie : AccessOf(t) \in revoked'
    BY <1>1, <2>1, PairsOfCookie DEF Sound, HoldsRevoked
  <2>3. \A x \in req[r].found : x.access \in revoked'
    BY <2>1
  <2>4. req[r].op \in {"refresh", "logout"}
    BY <1>1, <2>1, StagesOfOp DEF Sound
  <2>5. /\ req'[r].pc = (IF req[r].op = "refresh" THEN "generate" ELSE "delete")
        /\ req'[r].found = req[r].found
        /\ req'[r].op = req[r].op /\ req'[r].cookie = req[r].cookie
    BY <1>1, <2>1, AtStage
  <2> QED BY <1>1, <2>2, <2>3, <2>4, <2>5 DEF Sound, HoldsRevoked, StagesOf
<1>8. CASE Delete(r) /\ ~End(r)
  <2>1. /\ req' = [req EXCEPT ![r].pc = "generate", ![r].found = {}]
        /\ req[r].op = "login"
    BY <1>8 DEF Delete
  <2>2. /\ req'[r].pc = "generate" /\ req'[r].found = {}
        /\ req'[r].op = "login" /\ req'[r].cookie = req[r].cookie
    BY <1>1, <2>1 DEF Typed, Request
  <2>3. req[r].cookie = {}
    BY <1>1, <2>1 DEF Sound
  <2> QED BY <1>1, <2>2, <2>3 DEF Sound, HoldsRevoked, StagesOf
<1>9. CASE ChangeRole(r) /\ ~End(r)
  <2>1. Goto(r, "findByUser") /\ req[r].pc = "changeRole"
    BY <1>9 DEF ChangeRole
  <2> QED BY <1>1, <2>1, AtStage, StagesOfOp DEF Sound, HoldsRevoked, StagesOf
<1>10. CASE FindByUser(r) /\ ~End(r)
  <2> DEFINE rows == UNION {ByUserId(u) : u \in req[r].user}
  <2>1. /\ req[r].pc = "findByUser"
        /\ \/ req' = [req EXCEPT ![r].pc = "invalidate", ![r].found = rows]
           \/ req[r].op = "login" /\ Goto(r, "generate")
    BY <1>10 DEF FindByUser
  <2>2. \A s \in rows : Paired(s)
    BY DEF ByUserId, PairsInv
  <2> HIDE DEF rows
  <2>3. req[r].op \in {"login", "role"} /\ req[r].cookie = {}
    BY <1>1, <2>1, StagesOfOp DEF Sound
  <2>4. CASE req' = [req EXCEPT ![r].pc = "invalidate", ![r].found = rows]
    <3>1. /\ req'[r].pc = "invalidate" /\ req'[r].found = rows
          /\ req'[r].op = req[r].op /\ req'[r].cookie = req[r].cookie
      BY <1>1, <2>4 DEF Typed, Request
    <3> QED BY <1>1, <2>2, <2>3, <3>1 DEF Sound, HoldsRevoked, StagesOf
  <2>5. CASE req[r].op = "login" /\ Goto(r, "generate")
    <3>1. /\ req'[r].pc = "generate" /\ req'[r].found = req[r].found
          /\ req'[r].op = "login" /\ req'[r].cookie = {}
      BY <1>1, <2>3, <2>5, AtStage
    <3> QED BY <1>1, <2>3, <3>1 DEF Sound, HoldsRevoked, StagesOf
  <2> QED BY <2>1, <2>4, <2>5
<1>11. CASE Invalidate(r)
  <2>1. /\ Goto(r, "delete") /\ req[r].pc = "invalidate"
        /\ revoked' = revoked \cup {s.access : s \in req[r].found}
    BY <1>11 DEF Invalidate
  <2>2. \A x \in req[r].found : x.access \in revoked'
    BY <2>1
  <2>3. req[r].op \in {"login", "role"} /\ req[r].cookie = {}
    BY <1>1, <2>1, StagesOfOp DEF Sound
  <2>4. /\ req'[r].pc = "delete" /\ req'[r].found = req[r].found
        /\ req'[r].op = req[r].op /\ req'[r].cookie = req[r].cookie
    BY <1>1, <2>1, AtStage
  <2> QED BY <1>1, <2>2, <2>3, <2>4 DEF Sound, HoldsRevoked, StagesOf
<1>12. CASE Generate(r) /\ ~End(r)
  <2>1. PICK rows : /\ rows = Created(r) \/ rows = Renewed(req[r].found)
                    /\ req' = [req EXCEPT ![r].pc = "save", ![r].found = rows]
    BY <1>12 DEF Generate
  <2>2. req[r].pc = "generate" /\ revoked' = revoked
    BY <1>12 DEF Generate, history
  <2>3. \A x \in rows : Paired(x)
    BY <2>1, NewRowPaired DEF Created, Renewed
  <2>4. /\ req'[r].pc = "save" /\ req'[r].found = rows
        /\ req'[r].op = req[r].op /\ req'[r].cookie = req[r].cookie
    BY <1>1, <2>1 DEF Typed, Request
  <2>5. req[r].op \in {"login", "refresh"}
    BY <1>1, <2>2, StagesOfOp DEF Sound
  <2> QED BY <1>1, <2>2, <2>3, <2>4, <2>5 DEF Sound, HoldsRevoked, StagesOf
<1>13. CASE Insert(r) \/ Update(r)
  BY <1>3, <1>13 DEF Insert, Update
<1> QED
  BY <1>3, <1>4, <1>5, <1>6, <1>7, <1>8, <1>9, <1>10, <1>11, <1>12, <1>13
  DEF Proceed

LEMMA RowsPaired ==
  ASSUME PairsInv, [Next]_vars PROVE \A s \in sessions' : Paired(s)
<1>1. \A s \in sessions : Paired(s)
  BY DEF PairsInv
<1>2. ASSUME NEW r \in Requests, Proceed(r) PROVE \A s \in sessions' : Paired(s)
  <2>1. /\ \A s \in req[r].found : Paired(s)
        /\ req[r].found \subseteq Row
    BY DEF PairsInv, Sound, RevocationInv, Typed, Request
  <2>2. CASE Insert(r)
    BY <1>1, <2>1, <2>2, RenumberedPaired DEF Insert
  <2>3. CASE Update(r)
    BY <1>1, <2>1, <2>3 DEF Update, Without
  <2>4. CASE Delete(r)
    BY <1>1, <2>4 DEF Delete, Without
  <2>5. CASE \/ CheckExpiry(r) \/ CheckBlacklist(r) \/ FindByRefresh(r)
             \/ Blacklist(r) \/ ChangeRole(r) \/ FindByUser(r)
             \/ Invalidate(r) \/ Generate(r)
    BY <1>1, <2>5 DEF CheckExpiry, CheckBlacklist, FindByRefresh, Blacklist,
       ChangeRole, FindByUser, Invalidate, Generate, store
  <2> QED BY <1>2, <2>2, <2>3, <2>4, <2>5 DEF Proceed
<1>3. ASSUME NEW r \in Requests, Arrive(r) PROVE \A s \in sessions' : Paired(s)
  BY <1>1, <1>3, ArriveOnlyReads DEF PairsInv, RevocationInv, Typed, store
<1>4. CASE \/ CleanExpiredToken \/ Tick \/ Restart \/ UNCHANGED vars
           \/ \E u \in Users : DeleteUser(u)
  BY <1>1, <1>4 DEF CleanExpiredToken, Tick, Restart, vars, DeleteUser, store
<1> QED
  BY <1>2, <1>3, <1>4 DEF Next

LEMMA PairsStep ==
  ASSUME PairsInv, [Next]_vars PROVE PairsInv'
<1>1. RevocationInv'
  BY RevocationStep DEF PairsInv
<1>2. Typed /\ \A q \in Requests : Sound(req[q], revoked)
  BY DEF PairsInv, RevocationInv
<1>3. ASSUME NEW r \in Requests, Arrive(r) \/ Proceed(r)
      PROVE  \A q \in Requests : Sound(req'[q], revoked')
  <2>1. Sound(req'[r], revoked')
    BY <1>2, <1>3, ArriveSound, ProceedSound
  <2>2. /\ \A q \in Requests \ {r} : req'[q] = req[q]
        /\ revoked \subseteq revoked'
    BY <1>2, <1>3, OthersKeep
  <2> QED BY <1>2, <2>1, <2>2, SoundGrows
<1>4. ASSUME Restart
      PROVE  \A q \in Requests : Sound(req'[q], revoked')
  BY <1>4, SoundIdle DEF Restart
<1>5. ASSUME \/ CleanExpiredToken \/ Tick \/ UNCHANGED vars
             \/ \E u \in Users : DeleteUser(u)
      PROVE  \A q \in Requests : Sound(req'[q], revoked')
  <2>1. req' = req /\ revoked' = revoked
    BY <1>5 DEF CleanExpiredToken, Tick, vars, DeleteUser, history
  <2> QED BY <1>2, <2>1
<1>6. \A q \in Requests : Sound(req'[q], revoked')
  BY <1>3, <1>4, <1>5 DEF Next
<1>7. \A s \in sessions' : Paired(s)
  BY RowsPaired
<1> QED
  BY <1>1, <1>6, <1>7 DEF PairsInv, Sound, HoldsRevoked, Paired, AtMostOne, StagesOf,
     AccessOf

THEOREM PairsInductive == Spec => []PairsInv
<1>1. Init => PairsInv
  <2> SUFFICES ASSUME Init PROVE PairsInv
    OBVIOUS
  <2>1. RevocationInv
    BY IdleType DEF Init, RevocationInv, Typed, RowsCover, EntriesCover,
       RevokedStaysRevoked, Idle
  <2> QED BY <2>1, SoundIdle DEF Init, PairsInv
<1> QED
  BY <1>1, PairsStep, PTL DEF Spec

(* A session whose token is still accepted is only taken from its account  *)
(* by a request that read an earlier version of the row: what a request    *)
(* deletes or rotates on the strength of the current row, it has revoked.  *)
THEOREM GoodLostOnlyToStaleReads == Spec => GoodIsLostToStaleRead
<1> DEFINE A == \A s \in sessions \ sessions' : IsValid(s.access) =>
                  \E r \in Requests : ReadEarlier(r, s)
<1>1. ASSUME PairsInv, [Next]_vars PROVE A
  <2> SUFFICES ASSUME NEW s \in sessions, s \notin sessions', IsValid(s.access)
               PROVE  \E r \in Requests : ReadEarlier(r, s)
    OBVIOUS
  <2>1. PICK r \in Requests : Delete(r) \/ Update(r)
    <3>1. ~ UNCHANGED sessions
      OBVIOUS
    <3>2. ~ \/ CleanExpiredToken \/ Tick \/ Restart \/ UNCHANGED vars
            \/ \E u \in Users : DeleteUser(u)
      BY <3>1 DEF CleanExpiredToken, Tick, Restart, vars, DeleteUser, store
    <3>3. PICK r \in Requests : Arrive(r) \/ Proceed(r)
      BY <1>1, <3>2 DEF Next
    <3>4. ~ Arrive(r)
      BY <1>1, <3>1, ArriveOnlyReads DEF PairsInv, RevocationInv, Typed, store
    <3>5. ~ \/ CheckExpiry(r) \/ CheckBlacklist(r) \/ FindByRefresh(r)
            \/ Blacklist(r) \/ ChangeRole(r) \/ FindByUser(r)
            \/ Invalidate(r) \/ Generate(r)
      BY <3>1 DEF CheckExpiry, CheckBlacklist, FindByRefresh, Blacklist,
         ChangeRole, FindByUser, Invalidate, Generate, store
    <3>6. ~ Insert(r)
      BY DEF Insert
    <3> QED BY <3>3, <3>4, <3>5, <3>6 DEF Proceed
  <2>2. /\ s.access \notin revoked /\ Paired(s) /\ Sound(req[r], revoked)
    BY <1>1 DEF PairsInv, RevocationInv, RevokedStaysRevoked
  <2>3. PICK x \in req[r].found : x.id = s.id
    BY <2>1 DEF Delete, Update, Without
  <2>4. req[r].pc \in {"delete", "save"}
    BY <2>1 DEF Delete, Update
  <2>5. CASE req[r].cookie # {}
    <3>1. s.refresh \notin req[r].cookie
      BY <2>2, <2>4, PairsOfCookie DEF Sound, HoldsRevoked
    <3> QED BY <2>3, <2>4, <2>5, <3>1 DEF ReadEarlier
  <2>6. CASE req[r].cookie = {}
    <3>1. Delete(r)
      BY <2>1, <2>2, <2>6 DEF Update, Sound
    <3>2. s \notin req[r].found
      BY <2>2, <3>1 DEF Delete, Sound, HoldsRevoked
    <3> QED BY <2>3, <2>4, <2>6, <3>2 DEF ReadEarlier
  <2> QED BY <2>5, <2>6
<1> QED
  BY <1>1, PairsInductive, PTL DEF Spec, GoodIsLostToStaleRead

-----------------------------------------------------------------------------
(* One request at a time: what the theorems below assume of Requests.  Two *)
(* logins together already give an account two sessions, as a run shows.    *)

OneAtATime == \A r, q \in Requests : r = q

(* Keys and accounts identify a row.                                       *)
TableInv ==
  /\ \A s \in sessions : s.id < nextId
  /\ \A s, t \in sessions : s.id = t.id => s = t
  /\ AtMostOneSession

(* A request that runs alone reads the current row, and knows that there   *)
(* is no other of its account.                                             *)
Owner(q) ==
  /\ AtMostOne(q.user) /\ AtMostOne(q.role) /\ AtMostOne(q.found)
  /\ q.pc \in {"invalidate", "blacklist", "delete"} => q.found \subseteq sessions
  /\ q.pc \in {"invalidate", "delete"} /\ q.op # "logout" =>
       \A s \in sessions : s.user \in q.user => s \in q.found
  /\ q.pc \in {"generate", "save"} /\ q.op = "login" =>
       \A s \in sessions : s.user \notin q.user
  /\ q.pc = "save" /\ q.op = "login" => \A x \in q.found : x.user \in q.user
  /\ q.pc = "generate" /\ q.op = "refresh" =>
       q.found \subseteq sessions /\ \A x \in q.found : x.access \in revoked
  /\ q.pc = "save" /\ q.op = "refresh" =>
       \A x \in q.found : \E s \in sessions :
         s.id = x.id /\ s.user = x.user /\ s.access \in revoked

AloneInv == PairsInv /\ TableInv /\ \A r \in Requests : Owner(req[r])

LEMMA OwnerIdle == Owner(Idle) /\ Owner(Idle)'
  BY DEF Owner, Idle, AtMostOne

LEMMA OwnerArrive ==
  ASSUME Typed, NEW r \in Requests, Arrive(r) PROVE Owner(req[r])'
<1> USE DEF Typed, Idle, Owner, AtMostOne
<1>1. ASSUME NEW u \in Users, Login(r, u) PROVE Owner(req[r])'
  BY <1>1 DEF Login
<1>2. ASSUME NEW b \in issued, NEW c \in issued, Refresh(r, b, c)
      PROVE  Owner(req[r])'
  BY <1>2 DEF Refresh
<1>3. ASSUME NEW b \in issued, NEW u \in Users, NEW ro \in Roles,
             RoleChange(r, b, u, ro)
      PROVE  Owner(req[r])'
  BY <1>3 DEF RoleChange
<1>4. ASSUME NEW c \in issued, Logout(r, c) PROVE Owner(req[r])'
  BY <1>4 DEF Logout
<1> QED
  BY <1>1, <1>2, <1>3, <1>4 DEF Arrive

(* The rows with one cookie's token, or of one account, are one row.       *)
LEMMA OneRowOfCookie ==
  ASSUME AloneInv, NEW r \in Requests
  PROVE  AtMostOne(UNION {ByRefreshToken(t) : t \in req[r].cookie})
<1>1. AtMostOne(req[r].cookie) /\ \A s \in sessions : Paired(s)
  BY DEF AloneInv, PairsInv, Sound
<1>2. \A s, t \in sessions : s.user = t.user => s = t
  BY DEF AloneInv, TableInv, AtMostOneSession
<1> QED
  BY <1>1, <1>2 DEF AtMostOne, Paired, ByRefreshToken

LEMMA OneRowOfUser ==
  ASSUME AloneInv, NEW r \in Requests
  PROVE  AtMostOne(UNION {ByUserId(u) : u \in req[r].user})
<1>1. AtMostOne(req[r].user)
  BY DEF AloneInv, Owner
<1>2. \A s, t \in sessions : s.user = t.user => s = t
  BY DEF AloneInv, TableInv, AtMostOneSession
<1> QED
  BY <1>1, <1>2 DEF AtMostOne, ByUserId

LEMMA OwnerProceed ==
  ASSUME AloneInv, NEW r \in Requests, Proceed(r) PROVE Owner(req[r])'
<1>1. /\ Typed /\ req[r] \in Request /\ Sound(req[r], revoked)
      /\ Owner(req[r])
  BY DEF AloneInv, PairsInv, RevocationInv, Typed
<1>2. CASE End(r)
  BY <1>1, <1>2, AtEnd, OwnerIdle DEF Owner
<1>3. CASE CheckExpiry(r) /\ ~End(r)
  <2>1. Goto(r, "checkBlacklist")
    BY <1>3 DEF CheckExpiry
  <2> QED BY <1>1, <2>1, AtStage DEF Owner
<1>4. CASE CheckBlacklist(r) /\ ~End(r)
  <2>1. Goto(r, IF req[r].op = "role" THEN "changeRole" ELSE "findByRefresh")
    BY <1>4 DEF CheckBlacklist
  <2> QED BY <1>1, <2>1, AtStage DEF Owner
<1>5. CASE FindByRefresh(r) /\ ~End(r)
  <2> DEFINE rows == UNION {ByRefreshToken(t) : t \in req[r].cookie}
  <2>1. /\ req' = [req EXCEPT ![r].pc = "blacklist", ![r].found = rows]
        /\ sessions' = sessions
    BY <1>5 DEF FindByRefresh, store
  <2>2. AtMostOne(rows) /\ rows \subseteq sessions
    BY OneRowOfCookie DEF ByRefreshToken
  <2> HIDE DEF rows
  <2>3. /\ req'[r].pc = "blacklist" /\ req'[r].found = rows
        /\ req'[r].user = req[r].user /\ req'[r].role = req[r].role
    BY <1>1, <2>1 DEF Typed, Request
  <2> QED BY <1>1, <2>1, <2>2, <2>3 DEF Owner
<1>6. CASE Blacklist(r)
  <2>1. /\ Goto(r, IF req[r].op = "refresh" THEN "generate" ELSE "delete")
        /\ req[r].pc = "blacklist" /\ sessions' = sessions
        /\ revoked' = revoked \cup {s.access : s \in req[r].found}
    BY <1>6 DEF Blacklist, store
  <2>2. \A x \in req[r].found : x.access \in revoked'
    BY <2>1
  <2>3. req[r].op \in {"refresh", "logout"}
    BY <1>1, <2>1, StagesOfOp DEF Sound
  <2>4. /\ req'[r].pc = (IF req[r].op = "refresh" THEN "generate" ELSE "delete")
        /\ req'[r].found = req[r].found /\ req'[r].op = req[r].op
        /\ req'[r].user = req[r].user /\ req'[r].role = req[r].role
    BY <1>1, <2>1, AtStage
  <2>5. req[r].found \subseteq sessions'
    BY <1>1, <2>1 DEF Owner
  <2> QED BY <1>1, <2>2, <2>3, <2>4, <2>5 DEF Owner
<1>7. CASE Delete(r) /\ ~End(r)
  <2>1. /\ req' = [req EXCEPT ![r].pc = "generate", ![r].found = {}]
        /\ req[r].op = "login" /\ req[r].pc = "delete"
        /\ sessions' = Without(req[r].found)
    BY <1>7 DEF Delete
  <2>2. /\ req'[r].pc = "generate" /\ req'[r].found = {} /\ req'[r].op = "login"
        /\ req'[r].user = req[r].user /\ req'[r].role = req[r].role
    BY <1>1, <2>1 DEF Typed, Request
  <2>3. \A s \in sessions' : s.user \notin req[r].user
    BY <1>1, <2>1 DEF Owner, Without
  <2> QED BY <1>1, <2>2, <2>3 DEF Owner, AtMostOne
<1>8. CASE ChangeRole(r) /\ ~End(r)
  <2>1. Goto(r, "findByUser")
    BY <1>8 DEF ChangeRole
  <2> QED BY <1>1, <2>1, AtStage DEF Owner
<1>9. CASE FindByUser(r) /\ ~End(r)
  <2> DEFINE rows == UNION {ByUserId(u) : u \in req[r].user}
  <2>1. /\ sessions' = sessions
        /\ \/ req' = [req EXCEPT ![r].pc = "invalidate", ![r].found = rows]
           \/ rows = {} /\ req[r].op = "login" /\ Goto(r, "generate")
    BY <1>9 DEF FindByUser, store
  <2>2. /\ AtMostOne(rows) /\ rows \subseteq sessions
        /\ \A s \in sessions : s.user \in req[r].user => s \in rows
    BY OneRowOfUser DEF ByUserId
  <2> HIDE DEF rows
  <2>3. CASE req' = [req EXCEPT ![r].pc = "invalidate", ![r].found = rows]
    <3>1. /\ req'[r].pc = "invalidate" /\ req'[r].found = rows
          /\ req'[r].user = req[r].user /\ req'[r].role = req[r].role
      BY <1>1, <2>3 DEF Typed, Request
    <3> QED BY <1>1, <2>1, <2>2, <3>1 DEF Owner
  <2>4. CASE rows = {} /\ req[r].op = "login" /\ Goto(r, "generate")
    <3>1. \A s \in sessions' : s.user \notin req[r].user
      BY <2>1, <2>2, <2>4
    <3>2. /\ req'[r].pc = "generate" /\ req'[r].found = req[r].found
          /\ req'[r].op = "login"
          /\ req'[r].user = req[r].user /\ req'[r].role = req[r].role
      BY <1>1, <2>4, AtStage
    <3> QED BY <1>1, <3>1, <3>2 DEF Owner
  <2> QED BY <2>1, <2>3, <2>4
<1>10. CASE Invalidate(r)
  <2>1. Goto(r, "delete") /\ req[r].pc = "invalidate" /\ sessions' = sessions
    BY <1>10 DEF Invalidate, store
  <2>2. req[r].op \in {"login", "role"}
    BY <1>1, <2>1, StagesOfOp DEF Sound
  <2>3. /\ req'[r].pc = "delete" /\ req'[r].found = req[r].found
        /\ req'[r].op = req[r].op
        /\ req'[r].user = req[r].user /\ req'[r].role = req[r].role
    BY <1>1, <2>1, AtStage
  <2> QED BY <1>1, <2>1, <2>2, <2>3 DEF Owner
<1>11. CASE Generate(r) /\ ~End(r)
  <2>1. req[r].pc = "generate" /\ UNCHANGED <<sessions, revoked>>
    BY <1>11 DEF Generate, store, history
  <2>2. CASE req[r].op = "login"
    <3>1. req' = [req EXCEPT ![r].pc = "save", ![r].found = Created(r)]
      BY <1>11, <2>2 DEF Generate
    <3>2. AtMostOne(Created(r)) /\ \A x \in Created(r) : x.user \in req[r].user
      BY <1>1 DEF Created, NewRow, Owner, AtMostOne
    <3>3. /\ req'[r].pc = "save" /\ req'[r].found = Created(r)
          /\ req'[r].op = "login"
          /\ req'[r].user = req[r].user /\ req'[r].role = req[r].role
      BY <1>1, <2>2, <3>1 DEF Typed, Request
    <3>4. \A s \in sessions' : s.user \notin req[r].user
      BY <1>1, <2>1, <2>2 DEF Owner
    <3> QED BY <1>1, <3>2, <3>3, <3>4 DEF Owner
  <2>3. CASE req[r].op # "login"
    <3>1. req' = [req EXCEPT ![r].pc = "save", ![r].found = Renewed(req[r].found)]
      BY <1>1, <1>11, <2>3 DEF Generate
    <3>2. req[r].op = "refresh"
      BY <1>1, <2>1, <2>3, StagesOfOp DEF Sound
    <3>3. /\ req[r].found \subseteq sessions /\ AtMostOne(req[r].found)
          /\ \A x \in req[r].found : x.access \in revoked
      BY <1>1, <2>1, <3>2 DEF Owner
    <3>4. AtMostOne(Renewed(req[r].found))
      BY <3>3 DEF Renewed, AtMostOne
    <3>5. \A x \in Renewed(req[r].found) : \E s \in sessions :
            s.id = x.id /\ s.user = x.user /\ s.access \in revoked
      BY <3>3 DEF Renewed, NewRow
    <3>6. /\ req'[r].pc = "save" /\ req'[r].found = Renewed(req[r].found)
          /\ req'[r].op = "refresh"
          /\ req'[r].user = req[r].user /\ req'[r].role = req[r].role
      BY <1>1, <3>1, <3>2 DEF Typed, Request
    <3> QED BY <1>1, <2>1, <3>4, <3>5, <3>6 DEF Owner
  <2> QED BY <2>2, <2>3
<1>12. CASE Insert(r) \/ Update(r)
  BY <1>2, <1>12 DEF Insert, Update
<1> QED
  BY <1>2, <1>3, <1>4, <1>5, <1>6, <1>7, <1>8, <1>9, <1>10, <1>11, <1>12
  DEF Proceed

(* The table keeps one row an account, with a key of its own.              *)
LEMMA TableStep ==
  ASSUME AloneInv, [Next]_vars PROVE TableInv'
<1>1. /\ Typed /\ TableInv /\ nextId \in Nat
      /\ \A s \in sessions : s.id \in Nat
  BY DEF AloneInv, PairsInv, RevocationInv, Typed, Row
<1>2. ASSUME sessions' \subseteq sessions, nextId' = nextId PROVE TableInv'
  BY <1>1, <1>2 DEF TableInv, AtMostOneSession
<1>3. ASSUME NEW r \in Requests, Insert(r) PROVE TableInv'
  <2>1. /\ sessions' = sessions \cup {[s EXCEPT !.id = nextId] : s \in req[r].found}
        /\ nextId' = nextId + 1
        /\ req[r].pc = "save" /\ req[r].op = "login"
    BY <1>3 DEF Insert
  <2>2. /\ AtMostOne(req[r].found) /\ req[r].found \subseteq Row
        /\ \A x \in req[r].found : \A s \in sessions : s.user # x.user
    BY <1>1, <2>1 DEF AloneInv, Owner, Typed, Request
  <2> DEFINE new == {[s EXCEPT !.id = nextId] : s \in req[r].found}
  <2>3. /\ AtMostOne(new)
        /\ \A x \in new : x.id = nextId /\ \A s \in sessions : s.user # x.user
    BY <2>2 DEF AtMostOne, Row
  <2> HIDE DEF new
  <2>4. sessions' = sessions \cup new
    BY <2>1 DEF new
  <2>5. \A s \in sessions' : s.id < nextId'
    BY <1>1, <2>1, <2>3, <2>4 DEF TableInv
  <2>6. \A s, t \in sessions' : s.id = t.id => s = t
    BY <1>1, <2>3, <2>4 DEF TableInv, AtMostOne
  <2>7. \A s, t \in sessions' : s.user = t.user => s.id = t.id
    BY <1>1, <2>3, <2>4 DEF TableInv, AtMostOneSession
  <2> QED BY <2>5, <2>6, <2>7 DEF TableInv, AtMostOneSession
<1>4. ASSUME NEW r \in Requests, Update(r) PROVE TableInv'
  <2>1. /\ req[r].pc = "save" /\ req[r].op = "refresh" /\ nextId' = nextId
        /\ \/ sessions' = sessions
           \/ sessions' = Without(req[r].found) \cup req[r].found
    BY <1>4 DEF Update
  <2>2. /\ AtMostOne(req[r].found)
        /\ \A x \in req[r].found : \E s \in sessions : s.id = x.id /\ s.user = x.user
    BY <2>1 DEF AloneInv, Owner
  <2>3. CASE sessions' = Without(req[r].found) \cup req[r].found
    <3>1. \A s \in sessions' : s.id < nextId'
      BY <1>1, <2>1, <2>2, <2>3 DEF TableInv, Without
    <3>2. \A s, t \in sessions' : s.id = t.id => s = t
      BY <1>1, <2>2, <2>3 DEF TableInv, Without, AtMostOne
    <3>3. \A s, t \in sessions' : s.user = t.user => s.id = t.id
      BY <1>1, <2>2, <2>3 DEF TableInv, AtMostOneSession, Without, AtMostOne
    <3> QED BY <3>1, <3>2, <3>3 DEF TableInv, AtMostOneSession
  <2> QED BY <1>2, <2>1, <2>3
<1>5. ASSUME NEW r \in Requests, Delete(r) PROVE TableInv'
  BY <1>2, <1>5 DEF Delete, Without
<1>6. ASSUME NEW r \in Requests, Arrive(r) PROVE TableInv'
  BY <1>1, <1>2, <1>6, ArriveOnlyReads DEF Typed, store
<1>7. ASSUME NEW r \in Requests,
             \/ CheckExpiry(r) \/ CheckBlacklist(r) \/ FindByRefresh(r)
             \/ Blacklist(r) \/ ChangeRole(r) \/ FindByUser(r)
             \/ Invalidate(r) \/ Generate(r)
      PROVE  TableInv'
  BY <1>2, <1>7 DEF CheckExpiry, CheckBlacklist, FindByRefresh, Blacklist,
     ChangeRole, FindByUser, Invalidate, Generate, store
<1>8. ASSUME \/ CleanExpiredToken \/ Tick \/ Restart \/ UNCHANGED vars
             \/ \E u \in Users : DeleteUser(u)
      PROVE  TableInv'
  BY <1>2, <1>8 DEF CleanExpiredToken, Tick, Restart, vars, DeleteUser, store
<1> QED
  BY <1>3, <1>4, <1>5, <1>6, <1>7, <1>8 DEF Next, Proceed

LEMMA AloneStep ==
  ASSUME OneAtATime, AloneInv, [Next]_vars PROVE AloneInv'
<1>1. PairsInv'
  BY PairsStep DEF AloneInv
<1>2. TableInv'
  BY TableStep
<1>3. Typed /\ \A q \in Requests : Owner(req[q])
  BY DEF AloneInv, PairsInv, RevocationInv
<1>4. ASSUME NEW r \in Requests, Arrive(r) \/ Proceed(r)
      PROVE  \A q \in Requests : Owner(req[q])'
  <2>1. Owner(req[r])'
    BY <1>3, <1>4, OwnerArrive, OwnerProceed
  <2> QED BY <2>1 DEF OneAtATime
<1>5. ASSUME Restart
      PROVE  \A q \in Requests : Owner(req[q])'
  BY <1>5, OwnerIdle DEF Restart, Owner
<1>6. ASSUME \/ CleanExpiredToken \/ Tick \/ UNCHANGED vars
             \/ \E u \in Users : DeleteUser(u)
      PROVE  \A q \in Requests : Owner(req[q])'
  <2>1. UNCHANGED <<req, sessions, revoked>>
    BY <1>6 DEF CleanExpiredToken, Tick, vars, DeleteUser, store, history
  <2> QED BY <1>3, <2>1 DEF Owner
<1>7. \A q \in Requests : Owner(req[q])'
  BY <1>4, <1>5, <1>6 DEF Next
<1> QED
  BY <1>1, <1>2, <1>7 DEF AloneInv

THEOREM AloneInductive == ASSUME OneAtATime PROVE Spec => []AloneInv
<1>1. Init => AloneInv
  <2> SUFFICES ASSUME Init PROVE AloneInv
    OBVIOUS
  <2>1. RevocationInv
    BY IdleType DEF Init, RevocationInv, Typed, RowsCover, EntriesCover,
       RevokedStaysRevoked, Idle
  <2>2. PairsInv
    BY <2>1, SoundIdle DEF Init, PairsInv
  <2> QED BY <2>2, OwnerIdle DEF Init, AloneInv, TableInv, AtMostOneSession
<1>2. AloneInv /\ [Next]_vars => AloneInv'
  BY AloneStep
<1> QED
  BY <1>1, <1>2, PTL DEF Spec

(* As long as requests do not overlap, an account has one session.         *)
THEOREM OneSessionAlone == ASSUME OneAtATime PROVE Spec => []AtMostOneSession
<1>1. AloneInv => AtMostOneSession
  BY DEF AloneInv, TableInv
<1> QED
  BY <1>1, AloneInductive, PTL

-----------------------------------------------------------------------------
(* The registry.                                                           *)

(* Its table of current tokens, as the refinement computes it.             *)
Current == [u \in Users |-> CurrentOf(u)]

(* Which tokens count: of those handed out, the valid ones of known        *)
(* accounts; a step that lets time pass, blacklists, or deletes an account *)
(* only refuses more.                                                      *)
LEMMA RefusesMore ==
  ASSUME Typed, now' \in Nat, now <= now', users' \subseteq users,
         blacklist \subseteq blacklist', issued' = issued
  PROVE  Accepted' \subseteq Accepted
<1>1. \A t \in issued : Exp(t) \in Nat /\ Exp(t)' = Exp(t)
  BY ExpType DEF Typed, Exp, Validity
<1>2. \A t \in issued : IsValid(t)' => IsValid(t)
  BY <1>1 DEF Typed, IsValid, Expired, Blacklisted
<1> QED
  BY <1>2 DEF Accepted

(* A clean-up forgets tokens that are refused for their age.               *)
LEMMA CleanUpRefuses ==
  ASSUME RevocationInv, CleanExpiredToken PROVE Accepted' \subseteq Accepted
<1>1. /\ blacklist' = {e \in blacklist : ~Expired(e.exp)}
      /\ UNCHANGED <<now, users, issued>> /\ now \in Nat
  BY DEF CleanExpiredToken, store, history, RevocationInv, Typed
<1>2. \A e \in blacklist : e.exp \in Nat /\ Exp(e.token) \in Nat
                           /\ Exp(e.token) <= e.exp
  BY ExpType DEF RevocationInv, Typed, EntriesCover
<1>3. ASSUME NEW t PROVE Exp(t)' = Exp(t)
  BY DEF Exp, Validity
<1>4. ASSUME NEW t, IsValid(t)' PROVE IsValid(t)
  <2>1. ~(Exp(t) < now)
    BY <1>1, <1>3, <1>4 DEF IsValid, Expired
  <2>2. \A e \in blacklist : e.token = t => e \in blacklist'
    BY <1>1, <1>2, <2>1 DEF Expired
  <2>3. ~Blacklisted(t)
    BY <1>4, <2>2 DEF IsValid, Blacklisted
  <2> QED BY <2>1, <2>3 DEF IsValid, Expired
<1> QED
  BY <1>1, <1>4 DEF Accepted

LEMMA RegistryRevokes ==
  ASSUME sessions' = sessions, issued' = issued, Accepted' \subseteq Accepted
  PROVE  Registry!Next
<1>1. Current' = Current
  BY DEF Current, CurrentOf, ByUserId
<1>2. IssuedAs("ACCESS")' = IssuedAs("ACCESS")
  BY DEF IssuedAs
<1>3. IssuedAs("REFRESH")' = IssuedAs("REFRESH")
  BY DEF IssuedAs
<1>4. Registry!Revoke
  BY <1>1, <1>2, <1>3 DEF Registry!Revoke, Current
<1> QED
  BY <1>4 DEF Registry!Next

(* A session that is closed or replaced is the only one of its account,    *)
(* and its token is revoked.                                               *)
LEMMA RevokedIsNotGood ==
  ASSUME AloneInv, NEW s \in sessions, s.access \in revoked
  PROVE  CurrentOf(s.user) = {s.access} /\ s.access \notin Accepted
<1>1. \A t \in sessions : t.user = s.user => t = s
  BY DEF AloneInv, TableInv, AtMostOneSession
<1>2. CurrentOf(s.user) = {s.access}
  BY <1>1 DEF CurrentOf, ByUserId
<1>3. ~IsValid(s.access)
  BY DEF AloneInv, PairsInv, RevocationInv, RevokedStaysRevoked
<1> QED
  BY <1>2, <1>3 DEF Accepted

LEMMA SameGood ==
  ASSUME UNCHANGED <<now, users, blacklist>>
  PROVE  \A t : IsValid(t)' /\ t.user \in users' <=> IsValid(t) /\ t.user \in users
  BY DEF IsValid, Expired, Exp, Validity, Blacklisted

LEMMA DeleteCloses ==
  ASSUME AloneInv, NEW r \in Requests, Delete(r) PROVE Registry!Next
<1>1. /\ Typed /\ Sound(req[r], revoked) /\ Owner(req[r])
      /\ req[r].pc = "delete"
      /\ UNCHANGED <<now, users, blacklist, issued>>
  BY DEF AloneInv, PairsInv, RevocationInv, Delete
<1>2. Accepted' = Accepted
  BY <1>1, SameGood DEF Accepted
<1>3. CASE sessions' = sessions
  BY <1>1, <1>2, <1>3, RegistryRevokes
<1>4. CASE sessions' # sessions
  <2>1. sessions' = Without(req[r].found)
    BY <1>4 DEF Delete
  <2>2. PICK x \in req[r].found : TRUE
    BY <1>4, <2>1 DEF Without
  <2>3. x \in sessions /\ x.access \in revoked /\ req[r].found = {x}
    BY <1>1, <2>2 DEF Owner, AtMostOne, Sound, HoldsRevoked
  <2>4. x.user \in Users
    BY <1>1, <2>3 DEF Typed, Row
  <2>5. CurrentOf(x.user) = {x.access} /\ x.access \notin Accepted
    BY <2>3, RevokedIsNotGood
  <2>6. sessions' = sessions \ {x}
    BY <2>1, <2>3 DEF Without, AloneInv, TableInv
  <2>7. \A s \in sessions : s.user = x.user => s = x
    BY <2>3 DEF AloneInv, TableInv, AtMostOneSession
  <2>8. \A w \in Users :
          CurrentOf(w)' = IF w = x.user THEN {} ELSE CurrentOf(w)
    BY <2>6, <2>7 DEF CurrentOf, ByUserId
  <2>9. Current' = [Current EXCEPT ![x.user] = @ \ {x.access}]
    BY <2>5, <2>8 DEF Current
  <2>10. x.access \in Current[x.user] /\ x.access \notin Accepted
    BY <2>4, <2>5 DEF Current
  <2>11. /\ IssuedAs("ACCESS")' = IssuedAs("ACCESS")
         /\ IssuedAs("REFRESH")' = IssuedAs("REFRESH")
    BY <1>1 DEF IssuedAs
  <2>12. Registry!Close(x.user, x.access)
    BY <1>2, <2>9, <2>10, <2>11 DEF Registry!Close, Registry!Refused, Current
  <2>13. x.access \in [u \in Users |-> CurrentOf(u)][x.user]
    BY <2>4, <2>5
  <2> QED BY <2>4, <2>12, <2>13 DEF Registry!Next
<1> QED
  BY <1>3, <1>4

(* What Insert and Update have in common: the two tokens of a row are      *)
(* handed out, and nobody else's token becomes good.                       *)
LEMMA RegistryHandsOut ==
  ASSUME NEW x, x.access.type = "ACCESS", x.refresh.type = "REFRESH",
         issued' = issued \cup TokensOf({x}),
         UNCHANGED <<now, users, blacklist>>
  PROVE  Registry!HandOut(x.access)
<1>1. issued' = issued \cup {x.access, x.refresh}
  BY DEF TokensOf
<1>2. IssuedAs("ACCESS")' = IssuedAs("ACCESS") \cup {x.access}
  BY <1>1 DEF IssuedAs
<1>3. IssuedAs("REFRESH")' = IssuedAs("REFRESH") \cup {x.refresh}
  BY <1>1 DEF IssuedAs
<1>4. Accepted \subseteq Accepted'
  BY <1>1, SameGood DEF Accepted
<1> DEFINE s == Accepted' \ Accepted
<1>5. \A t \in s : t = x.access \/ (t = x.refresh /\ t \notin issued)
  BY <1>1, SameGood DEF Accepted
<1>6. s \subseteq {x.access} \cup (IssuedAs("REFRESH")' \ IssuedAs("REFRESH"))
  BY <1>3, <1>5 DEF IssuedAs
<1>7. Accepted' = Accepted \cup s
  BY <1>4
<1> HIDE DEF s
<1> QED
  BY <1>2, <1>3, <1>6, <1>7 DEF Registry!HandOut

LEMMA InsertOpens ==
  ASSUME AloneInv, NEW r \in Requests, Insert(r) PROVE Registry!Next
<1>1. /\ Typed /\ Sound(req[r], revoked) /\ Owner(req[r])
      /\ req[r].pc = "save" /\ req[r].op = "login"
      /\ UNCHANGED <<now, users, blacklist>>
      /\ issued' = issued \cup TokensOf(req[r].found)
      /\ sessions' = sessions \cup {[s EXCEPT !.id = nextId] : s \in req[r].found}
  BY DEF AloneInv, PairsInv, RevocationInv, Insert
<1>2. CASE req[r].found = {}
  <2>1. sessions' = sessions /\ issued' = issued
    BY <1>1, <1>2 DEF TokensOf
  <2>2. Accepted' = Accepted
    BY <1>1, <2>1, SameGood DEF Accepted
  <2> QED BY <2>1, <2>2, RegistryRevokes
<1>3. CASE req[r].found # {}
  <2>1. PICK x \in req[r].found : TRUE
    BY <1>3
  <2>2. req[r].found = {x} /\ x \in Row /\ Paired(x)
    BY <1>1, <2>1 DEF Owner, AtMostOne, Sound, Typed, Request
  <2>3. /\ x.user \in Users /\ x.access.user = x.user
        /\ x.access.type = "ACCESS" /\ x.refresh.type = "REFRESH"
    BY <2>2 DEF Row, Paired, AccessOf
  <2> DEFINE y == [x EXCEPT !.id = nextId]
  <2>4. y.user = x.user /\ y.access = x.access
    BY <2>2 DEF Row
  <2>5. sessions' = sessions \cup {y}
    BY <1>1, <2>2
  <2> HIDE DEF y
  <2>6. \A w \in Users :
          CurrentOf(w)' = IF w = x.user THEN CurrentOf(w) \cup {x.access}
                                        ELSE CurrentOf(w)
    BY <2>4, <2>5 DEF CurrentOf, ByUserId
  <2>7. Current' = [Current EXCEPT ![x.user] = @ \cup {x.access}]
    BY <2>6 DEF Current
  <2>8. Registry!HandOut(x.access)
    BY <1>1, <2>2, <2>3, RegistryHandsOut
  <2>9. Registry!Open(x.user, x.access)
    BY <2>3, <2>7, <2>8 DEF Registry!Open, Current
  <2>10. x.access \in IssuedAs("ACCESS")'
    BY <2>8 DEF Registry!HandOut
  <2> QED BY <2>3, <2>9, <2>10 DEF Registry!Next
<1> QED
  BY <1>2, <1>3

LEMMA UpdateRotates ==
  ASSUME AloneInv, NEW r \in Requests, Update(r) PROVE Registry!Next
<1>1. /\ Typed /\ Sound(req[r], revoked) /\ Owner(req[r])
      /\ req[r].pc = "save" /\ req[r].op = "refresh"
      /\ UNCHANGED <<now, users, blacklist>>
  BY DEF AloneInv, PairsInv, RevocationInv, Update
<1>2. CASE sessions' = sessions /\ issued' = issued
  <2>1. Accepted' = Accepted
    BY <1>1, <1>2, SameGood DEF Accepted
  <2> QED BY <1>2, <2>1, RegistryRevokes
<1>3. CASE ~(sessions' = sessions /\ issued' = issued)
  <2>1. /\ sessions' = Without(req[r].found) \cup req[r].found
        /\ issued' = issued \cup TokensOf(req[r].found)
    BY <1>3 DEF Update
  <2>2. PICK x \in req[r].found : TRUE
    BY <1>3, <2>1 DEF Without, TokensOf
  <2>3. req[r].found = {x} /\ x \in Row /\ Paired(x)
    BY <1>1, <2>2 DEF Owner, AtMostOne, Sound, Typed, Request
  <2>4. /\ x.user \in Users /\ x.access.user = x.user
        /\ x.access.type = "ACCESS" /\ x.refresh.type = "REFRESH"
    BY <2>3 DEF Row, Paired, AccessOf
  <2>5. PICK s \in sessions : s.id = x.id /\ s.user = x.user /\ s.access \in revoked
    BY <1>1, <2>2 DEF Owner
  <2>6. CurrentOf(x.user) = {s.access} /\ s.access \notin Accepted
    BY <2>5, RevokedIsNotGood
  <2>7. sessions' = (sessions \ {s}) \cup {x}
    BY <2>1, <2>3, <2>5 DEF Without, AloneInv, TableInv
  <2>8. \A y \in sessions : y.user = x.user => y = s
    BY <2>5 DEF AloneInv, TableInv, AtMostOneSession
  <2>9. \A w \in Users :
          CurrentOf(w)' = IF w = x.user THEN {x.access} ELSE CurrentOf(w)
    BY <2>5, <2>7, <2>8 DEF CurrentOf, ByUserId
  <2>10. Current' = [Current EXCEPT ![x.user] = (@ \ {s.access}) \cup {x.access}]
    BY <2>6, <2>9 DEF Current
  <2>11. Registry!HandOut(x.access)
    BY <1>1, <2>1, <2>3, <2>4, RegistryHandsOut
  <2>12. s.access \in Current[x.user]
    BY <2>4, <2>6 DEF Current
  <2>13. Registry!Rotate(x.user, s.access, x.access)
    BY <2>4, <2>6, <2>10, <2>11, <2>12
    DEF Registry!Rotate, Registry!Refused, Current
  <2>14. x.access \in IssuedAs("ACCESS")'
    BY <2>11 DEF Registry!HandOut
  <2> QED BY <2>4, <2>12, <2>13, <2>14 DEF Registry!Next, Current
<1> QED
  BY <1>2, <1>3

(* A restart forgets the blacklist.                                        *)
LEMMA RestartForgets == ASSUME Typed, Restart PROVE Registry!Next
<1>1. UNCHANGED <<now, users, sessions, issued>> /\ blacklist' = {}
  BY DEF Restart, store
<1>2. Current' = Current
  BY <1>1 DEF Current, CurrentOf, ByUserId
<1>3. /\ IssuedAs("ACCESS")' = IssuedAs("ACCESS")
      /\ IssuedAs("REFRESH")' = IssuedAs("REFRESH")
  BY <1>1 DEF IssuedAs
<1> DEFINE s == Accepted'
<1>4. \A t : IsValid(t) => IsValid(t)'
  BY <1>1 DEF IsValid, Expired, Exp, Validity, Blacklisted
<1>5. Accepted' = Accepted \cup s
  BY <1>1, <1>4 DEF Accepted
<1>6. s \subseteq IssuedAs("ACCESS") \cup IssuedAs("REFRESH")
  BY <1>1 DEF Accepted, IssuedAs, Typed, Token, Types
<1> HIDE DEF s
<1> QED
  BY <1>2, <1>3, <1>5, <1>6 DEF Registry!Next, Registry!Restart, Current

LEMMA RegistryStep ==
  ASSUME AloneInv, [Next]_vars PROVE [Registry!Next]_Registry!registry
<1>1. Typed /\ RevocationInv /\ now' \in Nat /\ now <= now'
  BY ClockStep DEF AloneInv, PairsInv, RevocationInv
<1>2. ASSUME UNCHANGED <<sessions, issued>>, users' \subseteq users,
             blacklist \subseteq blacklist'
      PROVE  Registry!Next
  BY <1>1, <1>2, RefusesMore, RegistryRevokes
<1>3. ASSUME NEW r \in Requests, Arrive(r) PROVE Registry!Next
  BY <1>1, <1>2, <1>3, ArriveOnlyReads DEF Typed, store, history
<1>4. ASSUME NEW r \in Requests, Blacklist(r) \/ Invalidate(r) PROVE Registry!Next
  BY <1>2, <1>4 DEF Blacklist, Invalidate, Blacklisting, store
<1>5. ASSUME NEW r \in Requests,
             \/ CheckExpiry(r) \/ CheckBlacklist(r) \/ FindByRefresh(r)
             \/ ChangeRole(r) \/ FindByUser(r) \/ Generate(r)
      PROVE  Registry!Next
  BY <1>2, <1>5 DEF CheckExpiry, CheckBlacklist, FindByRefresh, ChangeRole,
     FindByUser, Generate, store, history
<1>6. ASSUME NEW r \in Requests, Proceed(r) PROVE Registry!Next
  BY <1>4, <1>5, <1>6, DeleteCloses, InsertOpens, UpdateRotates DEF Proceed
<1>7. ASSUME CleanExpiredToken PROVE Registry!Next
  <2>1. UNCHANGED <<sessions, issued>>
    BY <1>7 DEF CleanExpiredToken, store, history
  <2> QED BY <1>1, <1>7, <2>1, CleanUpRefuses, RegistryRevokes
<1>8. ASSUME Restart PROVE Registry!Next
  BY <1>1, <1>8, RestartForgets
<1>9. ASSUME Tick \/ UNCHANGED vars \/ \E u \in Users : DeleteUser(u)
      PROVE  Registry!Next
  BY <1>2, <1>9 DEF Tick, vars, DeleteUser, store, history
<1> QED
  BY <1>3, <1>6, <1>7, <1>8, <1>9 DEF Next

(* The table, the blacklist and the requests, one at a time, implement the *)
(* session registry.                                                       *)
THEOREM ImplementsRegistry == ASSUME OneAtATime PROVE Spec => RegistrySpec
<1>1. Init => Registry!Init
  BY DEF Init, Registry!Init, CurrentOf, ByUserId, Accepted, IssuedAs
<1>2. AloneInv /\ [Next]_vars => [Registry!Next]_Registry!registry
  BY RegistryStep
<1>3. AloneInv => Registry!OneSession
  <2> SUFFICES ASSUME AloneInv, NEW u \in Users,
                      NEW s \in CurrentOf(u), NEW t \in CurrentOf(u)
               PROVE  s = t
    BY DEF Registry!OneSession
  <2>1. \A x, y \in sessions : x.user = y.user => x = y
    BY DEF AloneInv, TableInv, AtMostOneSession
  <2> QED BY <2>1 DEF CurrentOf, ByUserId
<1> QED
  BY <1>1, <1>2, <1>3, AloneInductive, PTL DEF Spec, RegistrySpec, Registry!Spec

-----------------------------------------------------------------------------
(* Roles.  A login holds the role its account has, tokens about to be      *)
(* saved show it, and the tokens of a session do unless the role change is *)
(* on its way to the session.                                              *)
ShowsRole(q) ==
  /\ q.op = "login" => \A u \in q.user : q.role = {role[u]}
  /\ q.pc = "save" => \A x \in q.found : x.access.role = role[x.user]

Reaches(q, u) ==
  /\ q.op = "role" /\ u \in q.user
  /\ q.pc \in {"findByUser", "invalidate", "delete"}

Changing(u) == \E r \in Requests : Reaches(req[r], u)

RowsShowRole ==
  \A s \in sessions : \/ s.access.role = role[s.user] \/ s.user \notin users
                      \/ Changing(s.user)

RolesInv ==
  restarts = 0 => RowsShowRole /\ \A r \in Requests : ShowsRole(req[r])

LEMMA IdleShowsRole == ShowsRole(Idle) /\ ShowsRole(Idle)'
  BY DEF ShowsRole, Idle

LEMMA NewRowShows ==
  ASSUME NEW id, NEW u, NEW ro
  PROVE  /\ NewRow(id, u, ro).access.role = ro
         /\ NewRow(id, u, ro).user = u
  BY DEF NewRow, Mint

(* A step that keeps roles and rows and does not end a role change.        *)
LEMMA RowsKeepRole ==
  ASSUME RowsShowRole, role' = role, users' \subseteq users,
         sessions' \subseteq sessions,
         \A s \in sessions' : Changing(s.user) => Changing(s.user)'
  PROVE  RowsShowRole'
  BY DEF RowsShowRole

LEMMA ArriveShowsRole ==
  ASSUME OneAtATime, Typed, RowsShowRole, NEW r \in Requests, Arrive(r)
  PROVE  RowsShowRole' /\ ShowsRole(req[r])'
<1>1. UNCHANGED <<users, role, sessions>> /\ req[r].pc = "idle"
  BY ArriveOnlyReads
  DEF Typed, store, Arrive, Login, Refresh, RoleChange, Logout
<1>2. \A u : ~Changing(u)
  BY <1>1 DEF Changing, Reaches, OneAtATime
<1>3. RowsShowRole'
  BY <1>1, <1>2, RowsKeepRole
<1>4. ASSUME NEW u \in Users, Login(r, u) PROVE ShowsRole(req[r])'
  <2>1. req'[r] = [Idle EXCEPT !.pc = "findByUser", !.op = "login",
                               !.user = {u}, !.role = {role[u]}]
    BY <1>4 DEF Login, Typed
  <2> QED BY <1>1, <2>1 DEF ShowsRole, Idle
<1>5. ASSUME NEW b \in issued, NEW c \in issued, Refresh(r, b, c)
      PROVE  ShowsRole(req[r])'
  BY <1>5 DEF Refresh, ShowsRole, Idle, Typed
<1>6. ASSUME NEW b \in issued, NEW u \in Users, NEW ro \in Roles,
             RoleChange(r, b, u, ro)
      PROVE  ShowsRole(req[r])'
  BY <1>6 DEF RoleChange, ShowsRole, Idle, Typed
<1>7. ASSUME NEW c \in issued, Logout(r, c) PROVE ShowsRole(req[r])'
  BY <1>7 DEF Logout, ShowsRole, Idle, Typed
<1> QED
  BY <1>3, <1>4, <1>5, <1>6, <1>7 DEF Arrive

LEMMA ProceedShowsRole ==
  ASSUME OneAtATime, AloneInv, RowsShowRole, NEW r \in Requests,
         ShowsRole(req[r]), Proceed(r)
  PROVE  RowsShowRole' /\ ShowsRole(req[r])'
<1>1. /\ Typed /\ req[r] \in Request /\ Sound(req[r], revoked)
      /\ Owner(req[r]) /\ \A q \in Requests : q = r
  BY DEF AloneInv, PairsInv, RevocationInv, Typed, OneAtATime
<1>2. \A u : Changing(u) <=> Reaches(req[r], u)
  BY <1>1 DEF Changing
<1>3. \A u : Changing(u)' <=> Reaches(req'[r], u)
  BY <1>1 DEF Changing, Reaches
<1>4. CASE CheckExpiry(r) \/ CheckBlacklist(r) \/ FindByRefresh(r) \/ Blacklist(r)
  <2>1. UNCHANGED <<users, role, sessions>>
    BY <1>4 DEF CheckExpiry, CheckBlacklist, FindByRefresh, Blacklist, store
  <2>2. /\ req[r].pc \in {"checkExpiry", "checkBlacklist", "findByRefresh",
                           "blacklist"}
        /\ req[r].op # "login"
    BY <1>1, <1>4, StagesOfOp
    DEF CheckExpiry, CheckBlacklist, FindByRefresh, Blacklist, Sound
  <2>3. RowsShowRole'
    BY <1>2, <2>1, <2>2, RowsKeepRole DEF Reaches
  <2>4. req'[r].pc # "save" /\ req'[r].op # "login"
    BY <1>1, <1>4, <2>2 DEF CheckExpiry, CheckBlacklist, FindByRefresh,
       Blacklist, Goto, End, Idle, Typed, Request
  <2> QED BY <2>3, <2>4 DEF ShowsRole
<1>5. CASE ChangeRole(r)
  <2>1. req[r].op = "role" /\ req[r].pc = "changeRole"
    BY <1>1, <1>5, StagesOfOp DEF ChangeRole, Sound
  <2>2. \A u : ~Changing(u)
    BY <1>2, <2>1 DEF Reaches
  <2>3. UNCHANGED <<users, sessions>>
    BY <1>5 DEF ChangeRole
  <2>4. CASE End(r) /\ role' = role
    BY <1>1, <2>2, <2>3, <2>4, AtEnd, IdleShowsRole, RowsKeepRole DEF ShowsRole
  <2>5. CASE ~(End(r) /\ role' = role)
    <3>1. PICK ro \in req[r].role :
            role' = [u \in Users |-> IF u \in req[r].user THEN ro ELSE role[u]]
      BY <1>5, <2>5 DEF ChangeRole
    <3>2. Goto(r, "findByUser")
      BY <1>5, <2>5 DEF ChangeRole
    <3>3. /\ req'[r].pc = "findByUser" /\ req'[r].op = "role"
          /\ req'[r].user = req[r].user
      BY <1>1, <2>1, <3>2, AtStage
    <3>4. \A s \in sessions : s.user \in Users
      BY <1>1 DEF Typed, Row
    <3>5. \A s \in sessions : \/ Changing(s.user)'
                              \/ s.user \notin req[r].user /\ role'[s.user] = role[s.user]
      BY <1>3, <3>1, <3>3, <3>4 DEF Reaches
    <3>6. RowsShowRole'
      BY <2>2, <2>3, <3>5 DEF RowsShowRole
    <3> QED BY <3>3, <3>6 DEF ShowsRole
  <2> QED BY <2>4, <2>5
<1>6. CASE FindByUser(r)
  <2> DEFINE rows == UNION {ByUserId(u) : u \in req[r].user}
  <2>1. /\ UNCHANGED <<users, role, sessions>> /\ req[r].pc = "findByUser"
        /\ \/ req' = [req EXCEPT ![r].pc = "invalidate", ![r].found = rows]
           \/ rows = {} /\ req[r].op = "login" /\ Goto(r, "generate")
           \/ ~Single(rows) /\ End(r)
    BY <1>6 DEF FindByUser, store
  <2>2. AtMostOne(rows) /\ \A s \in sessions : s.user \in req[r].user => s \in rows
    BY OneRowOfUser DEF ByUserId
  <2> HIDE DEF rows
  <2>3. CASE req' = [req EXCEPT ![r].pc = "invalidate", ![r].found = rows]
    <3>1. /\ req'[r].pc = "invalidate" /\ req'[r].op = req[r].op
          /\ req'[r].user = req[r].user /\ req'[r].role = req[r].role
      BY <1>1, <2>3 DEF Typed, Request
    <3>2. \A u : Changing(u) => Changing(u)'
      BY <1>2, <1>3, <3>1 DEF Reaches
    <3> QED BY <2>1, <3>1, <3>2, RowsKeepRole DEF ShowsRole
  <2>4. CASE rows = {} /\ req[r].op = "login" /\ Goto(r, "generate")
    <3>1. /\ req'[r].pc = "generate" /\ req'[r].op = "login"
          /\ req'[r].user = req[r].user /\ req'[r].role = req[r].role
      BY <1>1, <2>4, AtStage
    <3>2. \A u : ~Changing(u)
      BY <1>2, <2>4 DEF Reaches
    <3>3. RowsShowRole'
      BY <2>1, <3>2, RowsKeepRole
    <3>4. ShowsRole(req[r])'
      BY <2>1, <2>4, <3>1 DEF ShowsRole
    <3> QED BY <3>3, <3>4
  <2>5. CASE ~Single(rows) /\ End(r)
    <3>1. rows = {}
      <4>1. ASSUME NEW x \in rows PROVE FALSE
        <5>1. rows = {x}
          BY <2>2 DEF AtMostOne
        <5> QED BY <2>5, <5>1 DEF Single
      <4> QED BY <4>1
    <3>2. \A s \in sessions : ~Changing(s.user)
      BY <1>2, <2>2, <3>1 DEF Reaches
    <3>3. RowsShowRole'
      BY <2>1, <3>2, RowsKeepRole
    <3>4. ShowsRole(req[r])'
      BY <1>1, <2>5, AtEnd, IdleShowsRole DEF ShowsRole
    <3> QED BY <3>3, <3>4
  <2> QED BY <2>1, <2>3, <2>4, <2>5
<1>7. CASE Invalidate(r)
  <2>1. UNCHANGED <<users, role, sessions>> /\ Goto(r, "delete")
        /\ req[r].pc = "invalidate"
    BY <1>7 DEF Invalidate, store
  <2>2. /\ req'[r].pc = "delete" /\ req'[r].op = req[r].op
        /\ req'[r].user = req[r].user /\ req'[r].role = req[r].role
    BY <1>1, <2>1, AtStage
  <2>3. \A u : Changing(u) => Changing(u)'
    BY <1>2, <1>3, <2>2 DEF Reaches
  <2> QED BY <2>1, <2>2, <2>3, RowsKeepRole DEF ShowsRole
<1>8. CASE Delete(r)
  <2>1. UNCHANGED <<users, role>> /\ req[r].pc = "delete"
    BY <1>8 DEF Delete
  <2>2. \A x \in req[r].found : Stored(x)
    BY <1>1, <2>1 DEF Owner, Stored
  <2>3. /\ sessions' = Without(req[r].found)
        /\ \/ /\ req' = [req EXCEPT ![r].pc = "generate", ![r].found = {}]
              /\ req[r].op = "login"
           \/ End(r)
    BY <1>8, <2>2 DEF Delete
  <2>4. sessions' \subseteq sessions
    BY <2>3 DEF Without
  <2>5. \A s \in sessions' : ~Changing(s.user)
    BY <1>1, <1>2, <2>1, <2>3, <2>4 DEF Reaches, Owner, Without
  <2>6. RowsShowRole'
    BY <2>1, <2>4, <2>5, RowsKeepRole
  <2>7. CASE End(r)
    BY <1>1, <2>6, <2>7, AtEnd, IdleShowsRole DEF ShowsRole
  <2>8. CASE req' = [req EXCEPT ![r].pc = "generate", ![r].found = {}]
    <3>1. /\ req'[r].pc = "generate" /\ req'[r].op = req[r].op
          /\ req'[r].user = req[r].user /\ req'[r].role = req[r].role
      BY <1>1, <2>8 DEF Typed, Request
    <3> QED BY <2>1, <2>6, <3>1 DEF ShowsRole
  <2> QED BY <2>3, <2>7, <2>8
<1>9. CASE Generate(r)
  <2>1. UNCHANGED <<users, role, sessions>> /\ req[r].pc = "generate"
    BY <1>9 DEF Generate, store
  <2>2. RowsShowRole'
    BY <1>2, <2>1, RowsKeepRole DEF Reaches
  <2>3. CASE End(r)
    BY <1>1, <2>2, <2>3, AtEnd, IdleShowsRole DEF ShowsRole
  <2>4. CASE ~End(r)
    <3>1. PICK rows :
            /\ req' = [req EXCEPT ![r].pc = "save", ![r].found = rows]
            /\ \/ req[r].op = "login" /\ rows = Created(r)
               \/ rows = Renewed(req[r].found)
      BY <1>9, <2>4 DEF Generate
    <3>2. /\ req'[r].found = rows /\ req'[r].op = req[r].op
          /\ req'[r].user = req[r].user /\ req'[r].role = req[r].role
      BY <1>1, <3>1 DEF Typed, Request
    <3>3. \A x \in rows : x.access.role = role[x.user]
      <4>1. CASE req[r].op = "login" /\ rows = Created(r)
        BY <4>1, NewRowShows DEF Created, ShowsRole
      <4>2. CASE rows = Renewed(req[r].found)
        BY <4>2, NewRowShows DEF Renewed
      <4> QED BY <3>1, <4>1, <4>2
    <3> QED BY <2>1, <2>2, <3>2, <3>3 DEF ShowsRole
  <2> QED BY <2>3, <2>4
<1>10. CASE Insert(r) \/ Update(r)
  <2>1. /\ UNCHANGED <<users, role>> /\ End(r) /\ req[r].pc = "save"
        /\ \A s \in sessions' :
             \/ s \in sessions
             \/ \E x \in req[r].found : s = x \/ s = [x EXCEPT !.id = nextId]
    BY <1>10 DEF Insert, Update, Without
  <2>2. \A x \in req[r].found : /\ x.access.role = role[x.user]
                                /\ [x EXCEPT !.id = nextId].access = x.access
                                /\ [x EXCEPT !.id = nextId].user = x.user
    BY <1>1, <2>1 DEF ShowsRole, Request, Row
  <2>3. \A u : ~Changing(u)
    BY <1>2, <2>1 DEF Reaches
  <2>4. RowsShowRole'
    <3>1. \A s \in sessions' : s \in sessions \/ s.access.role = role[s.user]
      BY <2>1, <2>2
    <3> QED BY <2>1, <2>3, <3>1 DEF RowsShowRole
  <2>5. ShowsRole(req[r])'
    BY <1>1, <2>1, AtEnd, IdleShowsRole DEF ShowsRole
  <2> QED BY <2>4, <2>5
<1> QED
  BY <1>4, <1>5, <1>6, <1>7, <1>8, <1>9, <1>10 DEF Proceed

LEMMA RolesStep ==
  ASSUME OneAtATime, AloneInv, RolesInv, [Next]_vars PROVE RolesInv'
<1>1. Typed
  BY DEF AloneInv, PairsInv, RevocationInv
<1>2. ASSUME NEW r \in Requests, Arrive(r) \/ Proceed(r) PROVE RolesInv'
  <2>1. restarts' = restarts
    <3>1. CASE Arrive(r)
      BY <1>1, <3>1, ArriveOnlyReads DEF Typed
    <3>2. CASE Proceed(r)
      BY <3>2 DEF Proceed, CheckExpiry, CheckBlacklist, FindByRefresh, Blacklist,
         Delete, ChangeRole, FindByUser, Invalidate, Generate, Insert, Update
    <3> QED BY <1>2, <3>1, <3>2
  <2>2. CASE restarts = 0
    <3>1. RowsShowRole' /\ ShowsRole(req[r])'
      BY <1>1, <1>2, <2>2, ArriveShowsRole, ProceedShowsRole DEF RolesInv
    <3> QED BY <3>1 DEF RolesInv, OneAtATime
  <2> QED BY <2>1, <2>2 DEF RolesInv
<1>3. CASE Restart
  <2>1. restarts' # 0
    BY <1>1, <1>3 DEF Restart, Typed
  <2> QED BY <2>1 DEF RolesInv
<1>4. ASSUME \/ CleanExpiredToken \/ Tick \/ UNCHANGED vars
             \/ \E u \in Users : DeleteUser(u)
      PROVE  RolesInv'
  <2>1. /\ UNCHANGED <<req, role, sessions, restarts>> /\ users' \subseteq users
    BY <1>4 DEF CleanExpiredToken, Tick, vars, DeleteUser, store
  <2>2. \A u : Changing(u)' = Changing(u)
    BY <2>1 DEF Changing, Reaches
  <2>3. RowsShowRole => RowsShowRole'
    BY <2>1, <2>2, RowsKeepRole
  <2> QED BY <2>1, <2>3 DEF RolesInv, ShowsRole
<1> QED
  BY <1>2, <1>3, <1>4 DEF Next

(* As long as requests do not overlap and none was cut off by a restart,   *)
(* the role change leaves no session whose tokens show the old role.       *)
THEOREM RoleIsCarriedAlone ==
  ASSUME OneAtATime PROVE Spec => []SessionCarriesRole
<1>1. Init => RolesInv
  BY IdleShowsRole DEF Init, RolesInv, RowsShowRole
<1>2. AloneInv /\ RolesInv /\ [Next]_vars => RolesInv'
  BY RolesStep
<1>3. RolesInv => SessionCarriesRole
  BY DEF RolesInv, RowsShowRole, SessionCarriesRole, Quiet, Changing, Reaches
<1> QED
  BY <1>1, <1>2, <1>3, AloneInductive, PTL DEF Spec
=============================================================================
