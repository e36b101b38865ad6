------------------------------- MODULE Accounts -------------------------------
(***************************************************************************)
(* The users table, the profile images it refers to, and the cache "users" *)
(* with the list of all accounts under one key.  A request loads the row   *)
(* of an account, may upload an image in a transaction of its own, and     *)
(* writes the whole row back when it commits: no column is left out and no *)
(* version is compared.  Only then is the cached list evicted.             *)
(*                                                                         *)
(* Username and e-mail are checked and constrained alike; name stands for  *)
(* the two.  A column is a set of at most one value, empty for null.       *)
(***************************************************************************)
EXTENDS FiniteSets, Naturals

CONSTANTS
  Users,        \* accounts ever created
  Names,        \* usernames
  Admin,        \* username of the account made at start-up
  Files,        \* profile images ever uploaded
  Requests,     \* requests that may be in flight together
  MaxRequests,  \* bound: requests that begin
  MaxStarts     \* bound: starts of the server

ASSUME AccountConstants ==
  /\ Admin \in Names /\ IsFiniteSet(Names)
  /\ MaxRequests \in Nat /\ MaxStarts \in Nat

VARIABLES
  server,       \* "down", "starting" until AdminInitializer has run, "up"
  starts,
  begun,        \* requests so far, for the bound
  account,      \* account -> its row
  file,         \* image -> whether its row exists, and the account it is for
  cache,        \* the cached list, if there is one
  req,          \* request -> what it is doing
  wanted,       \* history: account -> what requests last asked each column to be
  disturbed,    \* history: accounts changed while a request had loaded the row
  failed,       \* history: images of requests that did not commit
  suspect       \* history: accounts the cached list may be wrong about

vars == <<server, starts, begun, account, file, cache, req, wanted, disturbed, failed, suspect>>

Roles == {"ADMIN", "USER"}
Columns == {"name", "role", "profile"}
Row(n, r, p) == [c \in Columns |-> IF c = "name" THEN n ELSE IF c = "role" THEN r ELSE p]
Null == Row({}, {}, {})

Exists(u) == account[u] # Null
Stored == {f \in Files : file[f].state = "stored"}

Stages == {"idle", "upload", "commit", "delete", "evict", "query", "put"}
Kinds == {"none", "create", "update", "role", "admin", "delete", "list"}
Idle == [pc |-> "idle", kind |-> "none", user |-> {}, loaded |-> Null, ask |-> Null, list |-> {}]

Init ==
  /\ server = "down" /\ starts = 0 /\ begun = 0
  /\ account = [u \in Users |-> Null]
  /\ file = [f \in Files |-> [state |-> "none", for |-> {}]]
  /\ cache = {} /\ req = [r \in Requests |-> Idle]
  /\ wanted = [u \in Users |-> Null] /\ disturbed = {} /\ failed = {} /\ suspect = {}

history == <<wanted, disturbed, failed, suspect>>

Begin(r, stage, kind, u, loaded, ask) ==
  /\ server # "down" /\ req[r].pc = "idle" /\ begun < MaxRequests
  /\ begun' = begun + 1
  /\ req' = [req EXCEPT ![r] = [pc |-> stage, kind |-> kind, user |-> {u},
                                loaded |-> loaded, ask |-> ask, list |-> {}]]
  /\ UNCHANGED <<starts, account, file, cache, history>>

End(r) == req' = [req EXCEPT ![r] = Idle]

(* An account in creation has no row that others see.                      *)
Fresh(u) == ~Exists(u) /\ wanted[u] = Null /\ \A r \in Requests : u \notin req[r].user
Taken(names) == \E u \in Users : account[u]["name"] \cap names # {}

-----------------------------------------------------------------------------
(* The requests, up to the commit.                                         *)

Create(r, u, n) ==
  /\ Fresh(u) /\ ~Taken({n})
  /\ Begin(r, "upload", "create", u, Null, Row({n}, {"USER"}, {}))
  /\ UNCHANGED server

(* A name that is left out is not changed; a password, which has no column  *)
(* here, makes the row one to be written all the same.                     *)
Update(r, u, names) ==
  /\ Exists(u) /\ Cardinality(names) <= 1 /\ ~Taken(names)
  /\ Begin(r, "upload", "update", u, account[u], Row(names, {}, {}))
  /\ UNCHANGED server

UpdateRole(r, u, role) ==
  /\ Exists(u) /\ role # account[u]["role"]
  /\ Begin(r, "commit", "role", u, account[u], Row({}, role, {}))
  /\ UNCHANGED server

Delete(r, u) ==
  /\ Exists(u)
  /\ Begin(r, "delete", "delete", u, account[u], Null)
  /\ UNCHANGED server

(* AdminInitializer, once a start, when the server already answers.        *)
InitializeAdmin(r, u) ==
  /\ server = "starting" /\ Fresh(u) /\ ~Taken({Admin})
  /\ Begin(r, "commit", "admin", u, Null, Row({Admin}, {"ADMIN"}, {}))
  /\ server' = "up"

AdminIsThere ==
  /\ server = "starting" /\ Taken({Admin})
  /\ server' = "up"
  /\ UNCHANGED <<starts, begun, account, file, cache, req, history>>

(* binaryContentService.create commits by itself; without an image there   *)
(* is nothing to do.                                                       *)
Upload(r, f) ==
  /\ req[r].pc = "upload" /\ file[f].state = "none"
  /\ file' = [file EXCEPT ![f] = [state |-> "stored", for |-> req[r].user]]
  /\ req' = [req EXCEPT ![r].pc = "commit", ![r].ask["profile"] = {f}]
  /\ UNCHANGED <<server, starts, begun, account, cache, history>>

NoUpload(r) ==
  /\ req[r].pc = "upload"
  /\ req' = [req EXCEPT ![r].pc = "commit"]
  /\ UNCHANGED <<server, starts, begun, account, file, cache, history>>

-----------------------------------------------------------------------------
(* The commit of create, update, updateRole and the initializer.           *)

(* Every column is written: those nobody asked for as they were loaded.    *)
WrittenToo(r) ==   \* mutant: what is asked for is added, not put in its place
  [c \in Columns |-> req[r].loaded[c] \cup req[r].ask[c]]
WrittenWithRole(r) ==   \* mutant: an update gives the role every account starts with
  [c \in Columns |-> IF req[r].kind = "update" /\ c = "role" THEN {"USER"}
                     ELSE IF req[r].ask[c] = {} THEN req[r].loaded[c] ELSE req[r].ask[c]]
Written(r) ==
  [c \in Columns |-> IF req[r].ask[c] = {} THEN req[r].loaded[c] ELSE req[r].ask[c]]

(* orphanRemoval: the image that was loaded goes when another replaces it. *)
OrphanKept(r) == {}   \* mutant: without orphanRemoval
Orphan(r) == req[r].loaded["profile"] \ Written(r)["profile"]

(* UNIQUE.                                                                 *)
UniqueByCheck(r) == TRUE   \* mutant: left to existsByUsername and existsByEmail
Unique(r) == \A u \in Users : account[u]["name"] \cap Written(r)["name"] # {} => u \in req[r].user

(* The foreign key of profile_id.                                          *)
ProfileStored(r) == Written(r)["profile"] \subseteq Stored

(* An update or a delete of a row that is gone fails.                      *)
RowsThere(r) ==
  /\ req[r].loaded # Null => \A u \in req[r].user : Exists(u)
  /\ Orphan(r) \subseteq Stored

Removed(files) ==
  [f \in Files |-> IF f \in files THEN [state |-> "deleted", for |-> {}] ELSE file[f]]

(* Other requests have the row of the account.                             *)
LoadedElsewhere(r) ==
  \E s \in Requests \ {r} : req[s].user = req[r].user /\ req[s].loaded # Null

Disturbed(r) == disturbed \cup (IF LoadedElsewhere(r) THEN req[r].user ELSE {})

Commit(r) ==
  /\ req[r].pc = "commit" /\ Unique(r) /\ ProfileStored(r) /\ RowsThere(r)
  /\ account' = [u \in Users |-> IF u \in req[r].user THEN Written(r) ELSE account[u]]
  /\ file' = Removed(Orphan(r))
  /\ wanted' = [u \in Users |-> IF u \notin req[r].user THEN wanted[u] ELSE
       [c \in Columns |-> IF req[r].ask[c] = {} THEN wanted[u][c] ELSE req[r].ask[c]]]
  /\ disturbed' = Disturbed(r)
  /\ IF req[r].kind \in {"create", "update"}
       THEN /\ req' = [req EXCEPT ![r] = [Idle EXCEPT !.pc = "evict", !.kind = req[r].kind,
                                                      !.user = req[r].user]]
            /\ UNCHANGED suspect
       ELSE /\ End(r)   \* updateRole and the initializer evict nothing
            /\ suspect' = suspect \cup req[r].user
  /\ UNCHANGED <<server, starts, begun, cache, failed>>

(* A constraint, an exception of the push: the transaction is rolled back, *)
(* and not the upload.                                                     *)
Fail(r) ==
  /\ req[r].pc \in {"upload", "commit", "delete"} /\ req[r].kind # "admin"
  /\ End(r)
  /\ failed' = failed \cup req[r].ask["profile"]
  /\ UNCHANGED <<server, starts, begun, account, file, cache, wanted, disturbed, suspect>>

(* delete: the row and the image that was loaded with it.                  *)
CommitDelete(r) ==
  /\ req[r].pc = "delete"
  /\ \A u \in req[r].user : Exists(u)
  /\ req[r].loaded["profile"] \subseteq Stored
  /\ account' = [u \in Users |-> IF u \in req[r].user THEN Null ELSE account[u]]
  /\ file' = Removed(req[r].loaded["profile"])
  /\ disturbed' = Disturbed(r)
  /\ req' = [req EXCEPT ![r] = [Idle EXCEPT !.pc = "evict", !.kind = "delete", !.user = req[r].user]]
  /\ UNCHANGED <<server, starts, begun, cache, wanted, failed, suspect>>

-----------------------------------------------------------------------------
(* The cached list.                                                        *)

Reading == \E r \in Requests : req[r].pc \in {"query", "put"}

EvictedOfUsers(r) ==   \* mutant: the key is the account, not 'all'
  cache
Evicted(r) == {}

(* @CacheEvict, after the commit.  A reader may still put what it has.     *)
Evict(r) ==
  /\ req[r].pc = "evict"
  /\ cache' = Evicted(r)
  /\ suspect' = IF Reading THEN suspect \cup req[r].user ELSE {}
  /\ End(r)
  /\ UNCHANGED <<server, starts, begun, account, file, wanted, disturbed, failed>>

Expire ==
  /\ cache # {} /\ cache' = {}
  /\ suspect' = IF Reading THEN suspect ELSE {}
  /\ UNCHANGED <<server, starts, begun, account, file, req, wanted, disturbed, failed>>

FindAll(r) ==
  /\ server # "down" /\ req[r].pc = "idle" /\ cache = {} /\ begun < MaxRequests
  /\ begun' = begun + 1
  /\ req' = [req EXCEPT ![r] = [Idle EXCEPT !.pc = "query", !.kind = "list"]]
  /\ UNCHANGED <<server, starts, account, file, cache, history>>

Query(r) ==
  /\ req[r].pc = "query"
  /\ req' = [req EXCEPT ![r].pc = "put", ![r].list = {account}]
  /\ UNCHANGED <<server, starts, begun, account, file, cache, history>>

Put(r) ==
  /\ req[r].pc = "put"
  /\ cache' = req[r].list
  /\ End(r)
  /\ UNCHANGED <<server, starts, begun, account, file, history>>

-----------------------------------------------------------------------------
(* The server.                                                             *)

Start ==
  /\ server = "down" /\ starts < MaxStarts
  /\ server' = "starting" /\ starts' = starts + 1
  /\ UNCHANGED <<begun, account, file, cache, req, history>>

(* A stop, at any time; also when the row of the administrator is refused. *)
Stop ==
  /\ server # "down"
  /\ server' = "down" /\ cache' = {} /\ suspect' = {}
  /\ req' = [r \in Requests |-> Idle]
  /\ failed' = failed \cup UNION {req[r].ask["profile"] : r \in Requests}
  /\ UNCHANGED <<starts, begun, account, file, wanted, disturbed>>

Next ==
  \/ \E r \in Requests :
       \/ \E u \in Users :
            \/ \E n \in Names : Create(r, u, n)
            \/ \E names \in SUBSET Names : Update(r, u, names)
            \/ \E role \in Roles : UpdateRole(r, u, {role})
            \/ Delete(r, u) \/ InitializeAdmin(r, u)
       \/ \E f \in Files : Upload(r, f)
       \/ NoUpload(r) \/ Commit(r) \/ Fail(r) \/ CommitDelete(r) \/ Evict(r)
       \/ FindAll(r) \/ Query(r) \/ Put(r)
  \/ AdminIsThere \/ Expire \/ Start \/ Stop

Spec == Init /\ [][Next]_vars

-----------------------------------------------------------------------------
(* Properties.                                                             *)

(* Every variable keeps its type; a column holds one value at most.        *)
Domain(c) == CASE c = "name" -> Names [] c = "role" -> Roles [] c = "profile" -> Files
IsRow(row) ==
  /\ DOMAIN row = Columns
  /\ \A c \in Columns : row[c] \subseteq Domain(c) /\ Cardinality(row[c]) <= 1
TypeOK ==
  /\ server \in {"down", "starting", "up"} /\ starts \in 0 .. MaxStarts /\ begun \in 0 .. MaxRequests
  /\ DOMAIN account = Users /\ \A u \in Users : IsRow(account[u]) /\ IsRow(wanted[u])
  /\ file \in [Files -> [state : {"none", "stored", "deleted"}, for : SUBSET Users]]
  /\ \A list \in cache : \A u \in Users : IsRow(list[u])
  /\ \A r \in Requests :
       /\ req[r].pc \in Stages /\ req[r].kind \in Kinds /\ req[r].user \subseteq Users
       /\ IsRow(req[r].loaded) /\ IsRow(req[r].ask)
       /\ Cardinality(req[r].list) <= 1
  /\ Cardinality(cache) <= 1
  /\ disturbed \subseteq Users /\ failed \subseteq Files /\ suspect \subseteq Users

(* No two accounts have the same name, in whatever order registrations,    *)
(* renamings and the start-up check and commit; a stale row that is        *)
(* written back must not bring a name back that another account now has.   *)
UniqueNames ==
  \A u, v \in Users : account[u]["name"] \cap account[v]["name"] # {} => u = v

(* An image nobody refers to has one of four causes: its request is still  *)
(* at work, it failed, the server stopped, or two requests worked on the   *)
(* row of the account at the same time.                                    *)
OrphanHasCause ==
  \A f \in Stored :
    \/ \E u \in Users : f \in account[u]["profile"]
    \/ \E r \in Requests : f \in req[r].ask["profile"]
    \/ f \in failed \/ file[f].for \subseteq disturbed

(* What a request was told is changed stays so until another changes it:   *)
(* an account has the name, role and image it was last given, unless       *)
(* another request had its row loaded at the time and wrote it back.       *)
ChangesHold ==
  \A u \in Users : Exists(u) => account[u] = wanted[u] \/ u \in disturbed

(* When no request is at work, the cached list is the table, but for roles *)
(* that were changed, the administrator made at start-up, and what was     *)
(* read before an eviction and put after it.                               *)
UserListHasCause ==
  (\A r \in Requests : req[r].pc = "idle") =>
    \A list \in cache : \A u \in Users : list[u] = account[u] \/ u \in suspect
=============================================================================
