----------------------------- MODULE JwtSessions -----------------------------
(***************************************************************************)
(* Login sessions of the chat server: the jwt_sessions table, the in-      *)
(* memory blacklist of access tokens, and the HTTP requests that read and  *)
(* write them (login, refresh, logout, role change).                       *)
(*                                                                         *)
(* A request runs in a servlet thread.  One step of the model is what the  *)
(* thread does up to the next access to state it shares with the others:   *)
(* a query, a change of the blacklist, or the commit of a transaction.     *)
(* An Optional of the code is a set of at most one element.                *)
(***************************************************************************)
EXTENDS Integers, FiniteSets

CONSTANTS
  Users, Roles, Admin,      \* accounts, the values of Role, Role.ADMIN
  Requests,                 \* requests that may be in flight together
  TicksPerSecond,           \* clock ticks in a second: tokens keep seconds only
  AccessValidity,           \* access-token.validity-seconds
  RefreshValidity,          \* refresh-token.validity-seconds
  MaxTime,                  \* bound: last tick of the clock
  MaxSessions,              \* bound: sessions ever inserted
  MaxRestarts               \* bound: restarts of the server

ASSUME JwtConstants ==
  /\ TicksPerSecond \in Nat \ {0}
  /\ AccessValidity \in Nat \ {0}
  /\ RefreshValidity \in Nat \ {0}
  /\ MaxTime \in Nat /\ MaxSessions \in Nat /\ MaxRestarts \in Nat
  /\ Admin \in Roles

VARIABLES
  now,        \* the clock, in ticks
  users,      \* accounts in the users table
  role,       \* role column of an account
  sessions,   \* rows of jwt_sessions
  blacklist,  \* entries of JwtBlacklist: token and expiration time
  req,        \* what each request is doing
  nextId,     \* next primary key of jwt_sessions
  restarts,   \* how often the server was restarted
  issued,     \* history: tokens ever sent to a client
  revoked,    \* history: access tokens revoked since the last restart
  closed      \* history: primary keys of the rows deleted

store == <<users, role, sessions, nextId>>
history == <<issued, revoked, closed>>
vars == <<now, users, role, sessions, blacklist, req, nextId, restarts, issued,
          revoked, closed>>

Types == {"ACCESS", "REFRESH"}

(* A serialized token is a function of the user DTO it carries, its type   *)
(* and the second of its issue: HS256 has no random part.                  *)
Token == [user : Users, role : Roles, type : Types, iat : Nat]

Row == [id : Nat, user : Users, access : Token, refresh : Token, exp : Nat]

Stages == {"idle", "checkExpiry", "checkBlacklist", "changeRole", "findByUser",
           "invalidate", "delete", "findByRefresh", "blacklist", "generate",
           "save"}
Ops == {"none", "login", "refresh", "logout", "role"}

Request == [pc : Stages, op : Ops, user : SUBSET Users, role : SUBSET Roles,
            bearer : SUBSET Token, cookie : SUBSET Token, found : SUBSET Row]

Idle == [pc |-> "idle", op |-> "none", user |-> {}, role |-> {},
         bearer |-> {}, cookie |-> {}, found |-> {}]

-----------------------------------------------------------------------------
(* Tokens.                                                                 *)

Validity(type) ==
  TicksPerSecond * (IF type = "ACCESS" THEN AccessValidity ELSE RefreshValidity)

(* The claims iat and exp are written as whole seconds; the JwtObject the  *)
(* caller gets, and so the session row, keeps the exact instant.           *)
SecondOf(t) == t - (t % TicksPerSecond)
Mint(u, ro, type, t) ==
  [user |-> u, role |-> ro, type |-> type, iat |-> SecondOf(t)]

Exp(token) == token.iat + Validity(token.type)
Expired(exp) == exp < now

Blacklisted(token) == \E e \in blacklist : e.token = token
IsValid(token) == ~Expired(Exp(token)) /\ ~Blacklisted(token)

(* ConcurrentHashMap.putIfAbsent of the rows' access tokens.               *)
BlacklistingRefresh(rows) ==   \* mutant: the wrong token of the pair
  blacklist \cup {[token |-> s.refresh, exp |-> s.exp] : s \in rows}

Blacklisting(rows) ==
  blacklist \cup {[token |-> s.access, exp |-> s.exp] :
                    s \in {x \in rows : ~Blacklisted(x.access)}}

ByUserIdActive(u) ==   \* mutant: expired sessions are not found
  {s \in sessions : s.user = u /\ ~Expired(s.exp)}

ByUserId(u) == {s \in sessions : s.user = u}
ByRefreshToken(t) == {s \in sessions : s.refresh = t}

(* A query method that returns an Optional throws if it finds two rows.    *)
SingleOrMore(rows) == rows # {}   \* mutant: the first of several rows is taken

Single(rows) == \E s \in rows : rows = {s}

-----------------------------------------------------------------------------
Init ==
  /\ now = 0 /\ users = Users /\ role \in [Users -> Roles]
  /\ sessions = {} /\ blacklist = {} /\ nextId = 1 /\ restarts = 0
  /\ req = [r \in Requests |-> Idle]
  /\ issued = {} /\ revoked = {} /\ closed = {}

Goto(r, stage) == req' = [req EXCEPT ![r].pc = stage]
End(r) == req' = [req EXCEPT ![r] = Idle]

-----------------------------------------------------------------------------
(* The filter chain in front of the handlers.                              *)

(* POST /api/auth/login: the credentials are right and the principal, a    *)
(* snapshot of the account, was read from the database.                    *)
Login(r, u) ==
  /\ req[r].pc = "idle" /\ u \in users
  /\ nextId + Cardinality({q \in Requests : req[q].op = "login"}) <= MaxSessions
  /\ req' = [req EXCEPT ![r] = [Idle EXCEPT !.pc = "findByUser", !.op = "login",
                                            !.user = {u}, !.role = {role[u]}]]
  /\ UNCHANGED <<now, store, blacklist, restarts, history>>

(* POST /api/auth/refresh with a bearer token and the REFRESH-TOKEN cookie. *)
Refresh(r, bearer, cookie) ==
  /\ req[r].pc = "idle" /\ bearer \in issued
  /\ cookie \in issued /\ cookie.type = "REFRESH"
  /\ req' = [req EXCEPT ![r] = [Idle EXCEPT !.pc = "checkExpiry",
                 !.op = "refresh", !.bearer = {bearer}, !.cookie = {cookie}]]
  /\ UNCHANGED <<now, store, blacklist, restarts, history>>

(* PUT /api/auth/role with a bearer token.                                 *)
RoleChange(r, bearer, u, newRole) ==
  /\ req[r].pc = "idle" /\ bearer \in issued
  /\ req' = [req EXCEPT ![r] = [Idle EXCEPT !.pc = "checkExpiry", !.op = "role",
                 !.user = {u}, !.role = {newRole}, !.bearer = {bearer}]]
  /\ UNCHANGED <<now, store, blacklist, restarts, history>>

(* POST /api/auth/logout: LogoutFilter answers before the token is looked at. *)
Logout(r, cookie) ==
  /\ req[r].pc = "idle" /\ cookie \in issued /\ cookie.type = "REFRESH"
  /\ req' = [req EXCEPT ![r] = [Idle EXCEPT !.pc = "findByRefresh",
                                            !.op = "logout", !.cookie = {cookie}]]
  /\ UNCHANGED <<now, store, blacklist, restarts, history>>

(* isValid of the bearer token, first half: signature and expiry.          *)
CheckExpiry(r) ==
  /\ req[r].pc = "checkExpiry"
  /\ IF \E t \in req[r].bearer : Expired(Exp(t))
       THEN End(r)
       ELSE Goto(r, "checkBlacklist")
  /\ UNCHANGED <<now, store, blacklist, restarts, history>>

(* Second half, then the account of the token is loaded: it must exist,    *)
(* and for a role change be an administrator.                              *)
AdmitsAnyKnown(op, token) ==   \* mutant: the blacklist is not consulted
  token.user \in users /\ (op = "role" => role[token.user] = Admin)

Admits(op, token) ==
  /\ ~Blacklisted(token)
  /\ token.user \in users
  /\ op = "role" => role[token.user] = Admin

CheckBlacklist(r) ==
  /\ req[r].pc = "checkBlacklist"
  /\ IF \A t \in req[r].bearer : Admits(req[r].op, t)
       THEN Goto(r, IF req[r].op = "role" THEN "changeRole" ELSE "findByRefresh")
       ELSE End(r)
  /\ UNCHANGED <<now, store, blacklist, restarts, history>>

-----------------------------------------------------------------------------
(* rotateToken and invalidateToken.                                        *)

(* The row of the cookie; a refresh first checks the cookie's token.  No   *)
(* row, or two rows with the same token, is an exception.                  *)
Refreshable(op, token) == op = "refresh" => IsValid(token)

FindByRefresh(r) ==
  /\ req[r].pc = "findByRefresh"
  /\ LET rows == UNION {ByRefreshToken(t) : t \in req[r].cookie} IN
     IF /\ \A t \in req[r].cookie : Refreshable(req[r].op, t)
        /\ Single(rows)
       THEN req' = [req EXCEPT ![r].pc = "blacklist", ![r].found = rows]
       ELSE End(r)
  /\ UNCHANGED <<now, store, blacklist, restarts, history>>

(* addBlacklist: in memory, at once, whatever becomes of the transaction.  *)
Blacklist(r) ==
  /\ req[r].pc = "blacklist"
  /\ blacklist' = Blacklisting(req[r].found)
  /\ revoked' = revoked \cup {s.access : s \in req[r].found}
  /\ Goto(r, IF req[r].op = "refresh" THEN "generate" ELSE "delete")
  /\ UNCHANGED <<now, store, restarts, issued, closed>>

(* delete(row) at the commit: no row with that key any more is an          *)
(* optimistic locking failure and the transaction is rolled back.          *)
StoredAlways(row) == TRUE   \* mutant: save inserts a row that is gone

Stored(row) == \E s \in sessions : s.id = row.id

Without(rows) == {s \in sessions : \A x \in rows : s.id # x.id}

Delete(r) ==
  /\ req[r].pc = "delete"
  /\ IF \A s \in req[r].found : Stored(s)
       THEN /\ sessions' = Without(req[r].found)
            /\ closed' = closed \cup {s.id : s \in req[r].found}
            /\ IF req[r].op = "login"
                 THEN req' = [req EXCEPT ![r].pc = "generate", ![r].found = {}]
                 ELSE End(r)
       ELSE UNCHANGED <<sessions, closed>> /\ End(r)
  /\ UNCHANGED <<now, users, role, blacklist, nextId, restarts, issued, revoked>>

-----------------------------------------------------------------------------
(* deleteJwtSession: of a login before it creates its session, and of a    *)
(* role change after the transaction that changed the role.                *)

ChangeRole(r) ==
  /\ req[r].pc = "changeRole"
  /\ IF req[r].user \subseteq users
       THEN /\ \E ro \in req[r].role :
                 role' = [u \in Users |-> IF u \in req[r].user THEN ro ELSE role[u]]
            /\ Goto(r, "findByUser")
       ELSE UNCHANGED role /\ End(r)
  /\ UNCHANGED <<now, users, sessions, blacklist, nextId, restarts, history>>

(* findByUserId returns an Optional: two rows of one user are an exception. *)
FindByUser(r) ==
  /\ req[r].pc = "findByUser"
  /\ LET rows == UNION {ByUserId(u) : u \in req[r].user} IN
     CASE Single(rows) ->
            req' = [req EXCEPT ![r].pc = "invalidate", ![r].found = rows]
       [] rows = {} /\ req[r].op = "login" -> Goto(r, "generate")
       [] OTHER -> End(r)
  /\ UNCHANGED <<now, store, blacklist, restarts, history>>

(* invalidate: only a session that is not expired is blacklisted.          *)
UnexpiredNegated(rows) ==   \* mutant: the test of invalidate is inverted
  {s \in rows : Expired(s.exp)}

Unexpired(rows) == {s \in rows : ~Expired(s.exp)}

Invalidate(r) ==
  /\ req[r].pc = "invalidate"
  /\ blacklist' = Blacklisting(Unexpired(req[r].found))
  /\ revoked' = revoked \cup {s.access : s \in req[r].found}
  /\ Goto(r, "delete")
  /\ UNCHANGED <<now, store, restarts, issued, closed>>

-----------------------------------------------------------------------------
(* createJwtSession and the second half of rotateToken.                    *)

NewRow(id, u, ro) ==
  [id |-> id, user |-> u,
   access |-> Mint(u, ro, "ACCESS", now), refresh |-> Mint(u, ro, "REFRESH", now),
   exp |-> now + Validity("ACCESS")]

(* A login mints tokens from the DTO made when it authenticated, a refresh *)
(* from the account as it is now, which must exist.                        *)
Renewed(rows) == {NewRow(s.id, s.user, role[s.user]) : s \in rows}
Created(r) == {NewRow(0, u, ro) : u \in req[r].user, ro \in req[r].role}

Generate(r) ==
  /\ req[r].pc = "generate"
  /\ CASE req[r].op = "login" ->
            req' = [req EXCEPT ![r].pc = "save", ![r].found = Created(r)]
       [] req[r].op # "login" /\ \A s \in req[r].found : s.user \in users ->
            req' = [req EXCEPT ![r].pc = "save", ![r].found = Renewed(@)]
       [] OTHER -> End(r)
  /\ UNCHANGED <<now, store, blacklist, restarts, history>>

TokensOf(rows) == {s.access : s \in rows} \cup {s.refresh : s \in rows}

(* save of a new row: the response carries its tokens.                     *)
Insert(r) ==
  /\ req[r].pc = "save" /\ req[r].op = "login"
  /\ sessions' = sessions \cup {[s EXCEPT !.id = nextId] : s \in req[r].found}
  /\ nextId' = nextId + 1
  /\ issued' = issued \cup TokensOf(req[r].found)
  /\ End(r)
  /\ UNCHANGED <<now, users, role, blacklist, restarts, revoked, closed>>

(* The UPDATE of a rotated row; a row that is gone fails the transaction.  *)
Update(r) ==
  /\ req[r].pc = "save" /\ req[r].op = "refresh"
  /\ IF \A s \in req[r].found : Stored(s)
       THEN /\ sessions' = Without(req[r].found) \cup req[r].found
            /\ issued' = issued \cup TokensOf(req[r].found)
       ELSE UNCHANGED <<sessions, issued>>
  /\ End(r)
  /\ UNCHANGED <<now, users, role, blacklist, nextId, restarts, revoked, closed>>

-----------------------------------------------------------------------------
(* Around the requests.                                                    *)

(* cleanExpiredToken, every hour.                                          *)
CleanExpiredToken ==
  /\ blacklist' = {e \in blacklist : ~Expired(e.exp)}
  /\ UNCHANGED <<now, store, req, restarts, history>>

(* DELETE /api/users/{id} leaves the rows of jwt_sessions alone: the table *)
(* has no foreign key to users.                                            *)
DeleteUser(u) ==
  /\ u \in users
  /\ users' = users \ {u}
  /\ UNCHANGED <<now, role, sessions, blacklist, req, nextId, restarts, history>>

Tick ==
  /\ now < MaxTime
  /\ now' = now + 1
  /\ UNCHANGED <<store, blacklist, req, restarts, history>>

(* The table survives a restart; the blacklist and the requests do not.    *)
Restart ==
  /\ restarts < MaxRestarts
  /\ restarts' = restarts + 1
  /\ blacklist' = {} /\ revoked' = {}
  /\ req' = [r \in Requests |-> Idle]
  /\ UNCHANGED <<now, store, issued, closed>>

Arrive(r) ==
  \/ \E u \in Users : Login(r, u)
  \/ \E b \in issued, c \in issued : Refresh(r, b, c)
  \/ \E b \in issued, u \in Users, ro \in Roles : RoleChange(r, b, u, ro)
  \/ \E c \in issued : Logout(r, c)

Proceed(r) ==
  \/ CheckExpiry(r) \/ CheckBlacklist(r)
  \/ FindByRefresh(r) \/ Blacklist(r) \/ Delete(r)
  \/ ChangeRole(r) \/ FindByUser(r) \/ Invalidate(r)
  \/ Generate(r) \/ Insert(r) \/ Update(r)

Next ==
  \/ \E r \in Requests : Arrive(r) \/ Proceed(r)
  \/ CleanExpiredToken \/ Tick \/ Restart
  \/ \E u \in Users : DeleteUser(u)

Spec == Init /\ [][Next]_vars

-----------------------------------------------------------------------------
(* Properties.                                                             *)

AtMostOne(S) == \A x, y \in S : x = y

Typed ==
  /\ now \in Nat /\ nextId \in Nat /\ restarts \in Nat
  /\ users \subseteq Users /\ role \in [Users -> Roles]
  /\ sessions \subseteq Row
  /\ blacklist \subseteq [token : Token, exp : Nat]
  /\ req \in [Requests -> Request]
  /\ issued \subseteq Token /\ revoked \subseteq Token /\ closed \subseteq Nat

(* Every variable keeps its type, and an Optional never holds two values:  *)
(* a request that meets two rows of an account fails instead of going on   *)
(* with them.                                                              *)
TypeOK ==
  /\ Typed
  /\ \A r \in Requests :
       /\ AtMostOne(req[r].found) /\ AtMostOne(req[r].user)
       /\ AtMostOne(req[r].role)
       /\ AtMostOne(req[r].bearer) /\ AtMostOne(req[r].cookie)

(* An access token that was revoked (by rotation, logout, a new login or a *)
(* role change) is refused by isValid for as long as the server runs, also *)
(* after the hourly clean-up forgot it and when invalidate never entered   *)
(* it because its session was expired.                                     *)
RevokedStaysRevoked == \A t \in revoked : ~IsValid(t)

(* A deleted session stays deleted: a rotation that read the row before    *)
(* the delete committed does not bring it back.                            *)
ClosedStaysClosed == \A s \in sessions : s.id \notin closed

(* A request only passes the filter with a bearer token that is not        *)
(* revoked, or one that expired between the two halves of isValid.         *)
AdmittedIsLive ==
  [][\A r \in Requests :
       req[r].pc = "checkBlacklist" /\ req'[r].pc \in {"findByRefresh", "changeRole"}
         => \A t \in req[r].bearer : t \in revoked => Expired(Exp(t))]_vars

Quiet == \A r \in Requests : req[r].pc = "idle"

(* One session a user: a login closes the session of an earlier login.     *)
AtMostOneSession == \A s, t \in sessions : s.user = t.user => s.id = t.id

(* A session whose access token the filter still accepts only goes, or     *)
(* gives way to another token, through a request that read an earlier      *)
(* version of its row: a second refresh with one cookie, or a logout or    *)
(* login that a refresh overtook.                                          *)
ReadEarlier(r, s) ==
  /\ req[r].pc \in {"delete", "save"}
  /\ \E x \in req[r].found : x.id = s.id
  /\ IF req[r].cookie = {} THEN s \notin req[r].found
                            ELSE s.refresh \notin req[r].cookie

GoodIsLostToStaleRead ==
  [][\A s \in sessions \ sessions' : IsValid(s.access) =>
       \E r \in Requests : ReadEarlier(r, s)]_vars

(* What the filter accepts: of the tokens handed out, whatever their type, *)
(* those that are neither expired nor blacklisted and whose account exists. *)
Accepted == {t \in issued : IsValid(t) /\ t.user \in users}
CurrentOf(u) == {s.access : s \in ByUserId(u)}

IssuedAs(type) == {t \in issued : t.type = type}

Registry == INSTANCE SessionRegistry WITH
  current <- [u \in Users |-> CurrentOf(u)],
  good <- Accepted,
  issued <- IssuedAs("ACCESS"),
  refresh <- IssuedAs("REFRESH")

(* With one request at a time, the table and the blacklist implement the   *)
(* session registry, with one session an account: a session is closed or   *)
(* replaced only once its access token is refused, and only a restart      *)
(* makes a refused token good again.  Refresh tokens are exempt: the       *)
(* filter takes them for access tokens and nothing ever blacklists one.    *)
RegistrySpec == Registry!Spec /\ []Registry!OneSession

(* Between requests, the tokens of a session carry the role its account    *)
(* has: a role change leaves no session that still shows the old one,      *)
(* unless a restart cut it off between its two transactions.               *)
SessionCarriesRole ==
  Quiet /\ restarts = 0 => \A s \in sessions : s.user \in users => s.access.role = role[s.user]
=============================================================================
