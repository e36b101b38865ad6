---------------------------- MODULE AccountsProofs ----------------------------
(***************************************************************************)
(* Proofs about Accounts, for any accounts, images and requests, any       *)
(* finite set of names, and any bounds.                                    *)
(***************************************************************************)
EXTENDS Accounts, FiniteSetTheorems, TLAPS

(* A column, a request or the cache holds one value at most.               *)
Few(S) == {X \in SUBSET S : \A x, y \in X : x = y}

Rows == {row \in [Columns -> SUBSET (Names \cup Roles \cup Files)] :
           \A c \in Columns : row[c] \in Few(Domain(c))}
Lists == [Users -> Rows]
Records == [pc : Stages, kind : Kinds, user : Few(Users), loaded : Rows, ask : Rows,
            list : Few(Lists)]

Types ==
  /\ server \in {"down", "starting", "up"}
  /\ starts \in 0 .. MaxStarts /\ begun \in 0 .. MaxRequests
  /\ account \in [Users -> Rows] /\ wanted \in [Users -> Rows]
  /\ file \in [Files -> [state : {"none", "stored", "deleted"}, for : SUBSET Users]]
  /\ cache \in Few(Lists)
  /\ req \in [Requests -> Records]
  /\ disturbed \subseteq Users /\ failed \subseteq Files /\ suspect \subseteq Users

AtWork == {r \in Requests : req[r].pc \in {"upload", "commit", "delete"}}

(* A request that makes an account is alone with it.                       *)
Alone(r) ==
  \A u \in req[r].user : /\ ~Exists(u) /\ wanted[u] = Null
                         /\ \A s \in Requests : s # r => u \notin req[s].user

(* A request that loaded an account has its row, unless another wrote it.  *)
Loaded(r) == \A u \in req[r].user : req[r].loaded = account[u] \/ u \in disturbed

StageInv ==
  /\ \A r \in AtWork : req[r].user # {}
  /\ \A r \in AtWork : IF req[r].loaded = Null THEN req[r].pc # "delete" /\ Alone(r) ELSE Loaded(r)
  /\ \A r \in Requests : /\ req[r].list # {} => req[r].pc = "put"
                         /\ req[r].ask["profile"] # {} => req[r].pc = "commit"
                         /\ req[r].pc \in {"idle", "query", "put"} => req[r].user = {}
                         /\ req[r].loaded # Null => r \in AtWork

(* An image is never passed from one account to another.                   *)
ImageOf(f, us) == file[f].state # "none" /\ (file[f].state = "stored" => file[f].for = us)

ImageInv ==
  /\ \A u \in Users : \A f \in account[u]["profile"] : ImageOf(f, {u})
  /\ \A r \in Requests : \A f \in req[r].loaded["profile"] \cup req[r].ask["profile"] :
       ImageOf(f, req[r].user)

(* Where a list differs from the table, an eviction is still to come, or   *)
(* it is suspect.                                                          *)
Follows(list) ==
  \A u \in Users : \/ list[u] = account[u] \/ u \in suspect
                   \/ \E r \in Requests : req[r].pc = "evict" /\ u \in req[r].user

ListInv ==
  /\ \A list \in cache : Follows(list)
  /\ \A r \in Requests : \A list \in req[r].list : Follows(list)

AccountsInv ==
  Types /\ StageInv /\ ImageInv /\ ListInv /\ UniqueNames /\ ChangesHold /\ OrphanHasCause

-----------------------------------------------------------------------------
(* Rows and requests.                                                      *)

LEMMA FewSmall == ASSUME NEW S PROVE {} \in Few(S) /\ \A x \in S : {x} \in Few(S)
  BY DEF Few

LEMMA FewSame == ASSUME NEW S, NEW X \in Few(S), NEW x \in X PROVE X = {x}
  BY DEF Few

LEMMA ColumnNames ==
  /\ "name" \in Columns /\ "role" \in Columns /\ "profile" \in Columns
  /\ \A c \in Columns : c = "name" \/ c = "role" \/ c = "profile"
  /\ Domain("name") = Names /\ Domain("role") = Roles /\ Domain("profile") = Files
  /\ \A c \in Columns : Domain(c) \subseteq Names \cup Roles \cup Files
  BY DEF Columns, Domain

LEMMA RowLemma ==
  ASSUME NEW n \in Few(Names), NEW o \in Few(Roles), NEW p \in Few(Files)
  PROVE  /\ Row(n, o, p) \in Rows
         /\ Row(n, o, p)["name"] = n /\ Row(n, o, p)["role"] = o
         /\ Row(n, o, p)["profile"] = p
<1>1. /\ \A c \in Columns : Row(n, o, p)[c] = IF c = "name" THEN n
                                             ELSE IF c = "role" THEN o ELSE p
      /\ Row(n, o, p) = [c \in Columns |-> Row(n, o, p)[c]]
  BY DEF Row
<1>2. \A c \in Columns : Row(n, o, p)[c] \in Few(Domain(c))
  BY <1>1, ColumnNames
<1>3. \A c \in Columns : Row(n, o, p)[c] \subseteq Names \cup Roles \cup Files
  BY <1>2, ColumnNames DEF Few
<1> QED
  BY <1>1, <1>2, <1>3, ColumnNames DEF Rows

LEMMA NewRow ==
  ASSUME NEW n \in Names, NEW o \in Roles
  PROVE  Row({n}, {o}, {}) \in Rows /\ Row({n}, {o}, {})["profile"] = {}
<1>1. {n} \in Few(Names) /\ {o} \in Few(Roles)
  BY FewSmall
<1>2. {} \in Few(Files)
  BY FewSmall
<1>3. PICK a \in Few(Names), b \in Few(Roles), c \in Few(Files) : a = {n} /\ b = {o} /\ c = {}
  BY <1>1, <1>2
<1>4. Row(a, b, c) \in Rows /\ Row(a, b, c)["profile"] = c
  BY RowLemma
<1> QED
  BY <1>3, <1>4

LEMMA NullLemma ==
  /\ Null \in Rows /\ \A c \in Columns : Null[c] = {}
  /\ Null["name"] = {} /\ Null["role"] = {} /\ Null["profile"] = {}
<1>1. {} \in Few(Names) /\ {} \in Few(Roles) /\ {} \in Few(Files)
  BY FewSmall
<1> QED
  BY <1>1, RowLemma, ColumnNames DEF Null

LEMMA SmallNames ==
  ASSUME NEW names \in SUBSET Names, Cardinality(names) <= 1
  PROVE  names \in Few(Names)
<1>1. IsFiniteSet(names) /\ Cardinality(names) \in Nat
  BY AccountConstants, FS_Subset, FS_CardinalityType
<1>2. Cardinality(names) = 0 \/ Cardinality(names) = 1
  BY <1>1
<1>3. names = {} \/ \E x : names = {x}
  BY <1>1, <1>2, FS_EmptySet, FS_Singleton
<1> QED
  BY <1>3 DEF Few

LEMMA IdleLemma ==
  /\ Idle \in Records /\ Idle.pc = "idle" /\ Idle.user = {} /\ Idle.loaded = Null
  /\ Idle.ask = Null /\ Idle.list = {}
  BY NullLemma, FewSmall DEF Idle, Records, Stages, Kinds

LEMMA ReqLemma ==
  ASSUME Types, NEW r \in Requests, NEW q \in Records, req' = [req EXCEPT ![r] = q]
  PROVE  /\ req' \in [Requests -> Records]
         /\ \A s \in Requests : req'[s] = IF s = r THEN q ELSE req[s]
  BY DEF Types

LEMMA RecordLemma ==
  ASSUME Types, NEW r \in Requests
  PROVE  /\ req[r] \in Records /\ req[r].user \in Few(Users)
         /\ req[r].loaded \in Rows /\ req[r].ask \in Rows
         /\ req[r].loaded["profile"] \in Few(Files) /\ req[r].ask["profile"] \in Few(Files)
         /\ req[r].list \in Few(Lists)
<1>1. /\ req[r] \in Records /\ req[r].user \in Few(Users)
      /\ req[r].loaded \in Rows /\ req[r].ask \in Rows /\ req[r].list \in Few(Lists)
  BY DEF Types, Records
<1> QED
  BY <1>1, ColumnNames DEF Rows

(* What is written has columns of both rows.                               *)
LEMMA WrittenLemma ==
  ASSUME Types, NEW r \in Requests
  PROVE  /\ Written(r) \in Rows
         /\ \A c \in Columns : Written(r)[c] = IF req[r].ask[c] = {} THEN req[r].loaded[c]
                                              ELSE req[r].ask[c]
         /\ Written(r)["profile"] \subseteq req[r].loaded["profile"] \cup req[r].ask["profile"]
         /\ req[r].ask["profile"] # {} => Written(r)["profile"] = req[r].ask["profile"]
<1>1. /\ \A c \in Columns : Written(r)[c] = IF req[r].ask[c] = {} THEN req[r].loaded[c]
                                           ELSE req[r].ask[c]
      /\ Written(r) = [c \in Columns |-> Written(r)[c]]
  BY DEF Written
<1>2. req[r].loaded \in Rows /\ req[r].ask \in Rows
  BY RecordLemma
<1>3. \A c \in Columns : /\ Written(r)[c] \in Few(Domain(c))
                         /\ Written(r)[c] \in SUBSET (Names \cup Roles \cup Files)
  BY <1>1, <1>2 DEF Rows
<1>4. Written(r) \in Rows
  BY <1>1, <1>3 DEF Rows
<1> QED
  BY <1>1, <1>4, ColumnNames

-----------------------------------------------------------------------------
(* Steps.                                                                  *)

(* A request begins: to make an account that is new, or with a loaded row. *)
Begins(r, u, q) ==
  /\ req[r].pc = "idle" /\ req' = [req EXCEPT ![r] = q] /\ q \in Records
  /\ q.pc \in {"upload", "commit", "delete"} /\ q.user = {u}
  /\ q.ask["profile"] = {} /\ q.list = {}
  /\ \/ q.loaded = account[u] /\ Exists(u)
     \/ q.loaded = Null /\ Fresh(u) /\ q.pc # "delete"
  /\ server' \in {"down", "starting", "up"} /\ starts' = starts /\ begun' \in 0 .. MaxRequests
  /\ UNCHANGED <<account, file, cache, history>>

Beginning ==
  \E r \in Requests, u \in Users :
    \/ \E n \in Names : Create(r, u, n)
    \/ \E names \in SUBSET Names : Update(r, u, names)
    \/ \E role \in Roles : UpdateRole(r, u, {role})
    \/ Delete(r, u) \/ InitializeAdmin(r, u)

Uploading == \E r \in Requests : NoUpload(r) \/ \E f \in Files : Upload(r, f)

Listing == Expire \/ \E r \in Requests : Evict(r) \/ FindAll(r) \/ Query(r) \/ Put(r)

Serving == Start \/ Stop \/ AdminIsThere

LEMMA StepKinds ==
  [Next]_vars => \/ Beginning \/ Uploading \/ Listing \/ Serving \/ UNCHANGED vars
                 \/ \E r \in Requests : Commit(r) \/ CommitDelete(r) \/ Fail(r)
  BY DEF Next, Beginning, Uploading, Listing, Serving

LEMMA BeginLemma ==
  ASSUME Types, NEW r \in Requests, NEW u \in Users, NEW stage \in {"upload", "commit", "delete"},
         NEW kind \in Kinds, NEW loaded \in Rows, NEW ask \in Rows, ask["profile"] = {},
         Begin(r, stage, kind, u, loaded, ask), server' \in {"down", "starting", "up"},
         \/ loaded = account[u] /\ Exists(u)
         \/ loaded = Null /\ Fresh(u) /\ stage # "delete"
  PROVE  \E q : Begins(r, u, q)
<1> DEFINE q == [pc |-> stage, kind |-> kind, user |-> {u}, loaded |-> loaded, ask |-> ask,
                 list |-> {}]
<1>1. q \in Records
  BY FewSmall DEF Records, Stages
<1>2. /\ req[r].pc = "idle" /\ req' = [req EXCEPT ![r] = q]
      /\ begun < MaxRequests /\ begun' = begun + 1
      /\ UNCHANGED <<starts, account, file, cache, history>>
  BY DEF Begin
<1>3. begun' \in 0 .. MaxRequests
  BY <1>2, AccountConstants DEF Types
<1>4. q.pc = stage /\ q.user = {u} /\ q.ask = ask /\ q.list = {} /\ q.loaded = loaded
  OBVIOUS
<1> HIDE DEF q
<1>5. Begins(r, u, q)
  BY <1>1, <1>2, <1>3, <1>4 DEF Begins
<1> QED
  BY <1>5

LEMMA BeginningLemma ==
  ASSUME Types, Beginning
  PROVE  \E r \in Requests, u \in Users : \E q : Begins(r, u, q)
<1>1. PICK r \in Requests, u \in Users :
        \/ \E n \in Names : Create(r, u, n)
        \/ \E names \in SUBSET Names : Update(r, u, names)
        \/ \E role \in Roles : UpdateRole(r, u, {role})
        \/ Delete(r, u) \/ InitializeAdmin(r, u)
  BY DEF Beginning
<1>2. account[u] \in Rows /\ Null \in Rows /\ server \in {"down", "starting", "up"}
      /\ {} \in Few(Names) /\ {} \in Few(Roles) /\ {} \in Few(Files)
      /\ "USER" \in Roles /\ "ADMIN" \in Roles /\ Null["profile"] = {}
  BY NullLemma, FewSmall DEF Types, Roles
<1>3. ASSUME NEW n \in Names, Create(r, u, n) PROVE \E q : Begins(r, u, q)
  <2>1. Row({n}, {"USER"}, {}) \in Rows /\ Row({n}, {"USER"}, {})["profile"] = {}
    BY <1>2, NewRow
  <2>2. /\ Fresh(u) /\ server' = server
        /\ Begin(r, "upload", "create", u, Null, Row({n}, {"USER"}, {}))
    BY <1>3 DEF Create
  <2>3. "create" \in Kinds
    BY DEF Kinds
  <2> QED
    BY <1>2, <2>1, <2>2, <2>3, BeginLemma
<1>4. ASSUME NEW names \in SUBSET Names, Update(r, u, names) PROVE \E q : Begins(r, u, q)
  <2>1. /\ Exists(u) /\ Cardinality(names) <= 1 /\ server' = server
        /\ Begin(r, "upload", "update", u, account[u], Row(names, {}, {}))
    BY <1>4 DEF Update
  <2>2. names \in Few(Names)
    BY <2>1, SmallNames
  <2>3. Row(names, {}, {}) \in Rows /\ Row(names, {}, {})["profile"] = {}
    BY <1>2, <2>2, RowLemma
  <2>4. "update" \in Kinds
    BY DEF Kinds
  <2> QED
    BY <1>2, <2>1, <2>3, <2>4, BeginLemma
<1>5. ASSUME NEW role \in Roles, UpdateRole(r, u, {role}) PROVE \E q : Begins(r, u, q)
  <2>1. /\ Exists(u) /\ server' = server
        /\ Begin(r, "commit", "role", u, account[u], Row({}, {role}, {}))
    BY <1>5 DEF UpdateRole
  <2>2. {role} \in Few(Roles)
    BY FewSmall
  <2>3. Row({}, {role}, {}) \in Rows /\ Row({}, {role}, {})["profile"] = {}
    BY <1>2, <2>2, RowLemma
  <2>4. "role" \in Kinds
    BY DEF Kinds
  <2> QED
    BY <1>2, <2>1, <2>3, <2>4, BeginLemma
<1>6. CASE Delete(r, u)
  <2>1. /\ Exists(u) /\ server' = server
        /\ Begin(r, "delete", "delete", u, account[u], Null)
    BY <1>6 DEF Delete
  <2>2. "delete" \in Kinds
    BY DEF Kinds
  <2> QED
    BY <1>2, <2>1, <2>2, BeginLemma
<1>7. CASE InitializeAdmin(r, u)
  <2>1. /\ Fresh(u) /\ server' = "up"
        /\ Begin(r, "commit", "admin", u, Null, Row({Admin}, {"ADMIN"}, {}))
    BY <1>7 DEF InitializeAdmin
  <2>2. /\ Row({Admin}, {"ADMIN"}, {}) \in Rows
        /\ Row({Admin}, {"ADMIN"}, {})["profile"] = {}
    BY <1>2, NewRow, AccountConstants
  <2>3. "admin" \in Kinds
    BY DEF Kinds
  <2> QED
    BY <1>2, <2>1, <2>2, <2>3, BeginLemma
<1> QED
  BY <1>1, <1>3, <1>4, <1>5, <1>6, <1>7

-----------------------------------------------------------------------------
(* Beginning.                                                              *)

LEMMA BeginStep ==
  ASSUME AccountsInv, NEW r \in Requests, NEW u \in Users, NEW q, Begins(r, u, q)
  PROVE  AccountsInv'
<1>1. /\ req[r].pc = "idle" /\ q \in Records
      /\ q.pc \in {"upload", "commit", "delete"} /\ q.user = {u}
      /\ q.ask["profile"] = {} /\ q.list = {}
      /\ \/ q.loaded = account[u] /\ Exists(u)
         \/ q.loaded = Null /\ Fresh(u) /\ q.pc # "delete"
      /\ UNCHANGED <<account, file, cache, wanted, disturbed, failed, suspect>>
  BY DEF Begins, history
<1>2. /\ req' \in [Requests -> Records]
      /\ \A s \in Requests : req'[s] = IF s = r THEN q ELSE req[s]
  BY ReqLemma DEF Begins, AccountsInv
<1>3. Types /\ StageInv /\ ImageInv /\ ListInv /\ UniqueNames /\ ChangesHold /\ OrphanHasCause
  BY DEF AccountsInv
<1>4. Types'
  BY <1>1, <1>2, <1>3 DEF Types, Begins
<1>5. /\ req[r].user = {} /\ req[r].ask["profile"] = {} /\ req[r].loaded = Null
      /\ req[r].list = {} /\ r \notin AtWork
  BY <1>1, <1>3 DEF StageInv, AtWork
<1>6. StageInv'
  <2>1. AtWork' = AtWork \cup {r}
    BY <1>1, <1>2 DEF AtWork
  <2>2. ASSUME NEW s \in AtWork, s # r
        PROVE  IF req[s].loaded = Null THEN req[s].pc # "delete" /\ Alone(s)' ELSE Loaded(s)'
    <3>1. IF req[s].loaded = Null THEN req[s].pc # "delete" /\ Alone(s) ELSE Loaded(s)
      BY <1>3 DEF StageInv
    <3>2. s \in Requests /\ req'[s] = req[s]
      BY <1>2, <2>2 DEF AtWork
    <3>3. CASE req[s].loaded = Null
      <4>1. Alone(s)
        BY <3>1, <3>3
      <4>2. u \notin req[s].user
        BY <1>1, <3>2, <4>1 DEF Alone, Fresh
      <4> QED
        BY <1>1, <1>2, <3>1, <3>2, <3>3, <4>1, <4>2 DEF Alone, Exists
    <3>4. CASE req[s].loaded # Null
      BY <1>1, <3>1, <3>2, <3>4 DEF Loaded
    <3> QED
      BY <3>3, <3>4
  <2>3. IF q.loaded = Null THEN q.pc # "delete" /\ Alone(r)' ELSE Loaded(r)'
    <3>1. CASE q.loaded = Null /\ Fresh(u) /\ q.pc # "delete"
      BY <1>1, <1>2, <3>1 DEF Alone, Fresh, Exists
    <3>2. CASE q.loaded = account[u] /\ Exists(u)
      BY <1>1, <1>2, <3>2 DEF Loaded, Exists
    <3> QED
      BY <1>1, <3>1, <3>2
  <2>4. \A s \in AtWork' : req'[s].user # {}
    BY <1>1, <1>2, <1>3, <2>1 DEF StageInv, AtWork
  <2>5. \A s \in Requests : /\ req'[s].list # {} => req'[s].pc = "put"
                            /\ req'[s].ask["profile"] # {} => req'[s].pc = "commit"
                            /\ req'[s].pc \in {"idle", "query", "put"} => req'[s].user = {}
                            /\ req'[s].loaded # Null => s \in AtWork'
    BY <1>1, <1>2, <1>3, <2>1 DEF StageInv
  <2>6. \A s \in AtWork' : IF req'[s].loaded = Null THEN req'[s].pc # "delete" /\ Alone(s)'
                                                    ELSE Loaded(s)'
    BY <1>2, <2>1, <2>2, <2>3 DEF AtWork
  <2> QED
    BY <2>4, <2>5, <2>6 DEF StageInv
<1>7. ImageInv'
  <2>1. q.loaded["profile"] \subseteq account[u]["profile"]
    BY <1>1, NullLemma
  <2>2. \A f, us : ImageOf(f, us)' <=> ImageOf(f, us)
    BY <1>1 DEF ImageOf
  <2>3. \A s \in Requests : \A f \in req'[s].loaded["profile"] \cup req'[s].ask["profile"] :
           ImageOf(f, req'[s].user)
    BY <1>1, <1>2, <1>3, <2>1 DEF ImageInv
  <2> QED
    BY <1>1, <1>3, <2>2, <2>3 DEF ImageInv
<1>8. ListInv'
  <2>1. \A list : Follows(list) => Follows(list)'
    BY <1>1, <1>2 DEF Follows
  <2> QED
    BY <1>1, <1>2, <1>3, <2>1 DEF ListInv
<1>9. UniqueNames' /\ ChangesHold'
  BY <1>1, <1>3 DEF UniqueNames, ChangesHold, Exists
<1>10. OrphanHasCause'
  BY <1>1, <1>2, <1>3, <1>5 DEF OrphanHasCause, Stored
<1> QED
  BY <1>4, <1>6, <1>7, <1>8, <1>9, <1>10 DEF AccountsInv


-----------------------------------------------------------------------------
(* Uploading.                                                              *)

(* Where only r's own record changes, and not whom it works for.           *)
Uploads(r, images) ==
  /\ req[r].pc = "upload" /\ req' \in [Requests -> Records]
  /\ \A s \in Requests : s # r => req'[s] = req[s]
  /\ req'[r].pc = "commit" /\ req'[r].user = req[r].user /\ req'[r].loaded = req[r].loaded
  /\ req'[r].list = req[r].list /\ req'[r].ask["profile"] = images
  /\ UNCHANGED <<server, starts, begun, account, cache, wanted, disturbed, failed, suspect>>
  /\ \/ images = {} /\ file' = file
     \/ \E f \in Files : /\ images = {f} /\ file[f].state = "none"
                         /\ file' = [file EXCEPT ![f] = [state |-> "stored", for |-> req[r].user]]

LEMMA UploadLemma ==
  ASSUME AccountsInv, Uploading
  PROVE  \E r \in Requests : \E images : Uploads(r, images)
<1>1. PICK r \in Requests : NoUpload(r) \/ \E f \in Files : Upload(r, f)
  BY DEF Uploading
<1>2. /\ Types /\ req \in [Requests -> Records] /\ req[r] \in Records /\ req[r].ask \in Rows
      /\ "commit" \in Stages
  BY RecordLemma DEF AccountsInv, Types, Stages
<1>3. CASE NoUpload(r)
  <2>1. /\ req[r].pc = "upload" /\ req' = [req EXCEPT ![r].pc = "commit"]
        /\ UNCHANGED <<server, starts, begun, account, file, cache, history>>
    BY <1>3 DEF NoUpload
  <2>2. /\ req' \in [Requests -> Records]
        /\ \A s \in Requests : s # r => req'[s] = req[s]
        /\ req'[r].pc = "commit" /\ req'[r].user = req[r].user /\ req'[r].loaded = req[r].loaded
        /\ req'[r].list = req[r].list /\ req'[r].ask = req[r].ask
    BY <1>2, <2>1 DEF Records
  <2>3. req[r].ask["profile"] = {}
    BY <2>1 DEF AccountsInv, StageInv
  <2>4. Uploads(r, {})
    BY <2>1, <2>2, <2>3 DEF Uploads, history
  <2> QED
    BY <2>4
<1>4. ASSUME NEW f \in Files, Upload(r, f) PROVE \E images : Uploads(r, images)
  <2>1. /\ req[r].pc = "upload" /\ file[f].state = "none"
        /\ file' = [file EXCEPT ![f] = [state |-> "stored", for |-> req[r].user]]
        /\ req' = [req EXCEPT ![r].pc = "commit", ![r].ask["profile"] = {f}]
        /\ UNCHANGED <<server, starts, begun, account, cache, history>>
    BY <1>4 DEF Upload
  <2> DEFINE ask == [req[r].ask EXCEPT !["profile"] = {f}]
  <2>2. ask \in Rows /\ ask["profile"] = {f}
    <3>1. {f} \in Few(Files)
      BY FewSmall
    <3>2. DOMAIN req[r].ask = Columns
      BY <1>2 DEF Rows
    <3>3. ask["profile"] = {f}
      BY <3>2, ColumnNames
    <3>4. \A c \in Columns : c # "profile" => ask[c] = req[r].ask[c]
      BY <3>2
    <3>5. \A c \in Columns : ask[c] \in Few(Domain(c))
      BY <1>2, <3>1, <3>3, <3>4, ColumnNames DEF Rows
    <3>6. \A c \in Columns : ask[c] \in SUBSET (Names \cup Roles \cup Files)
      BY <3>5, ColumnNames DEF Few
    <3>7. ask \in [Columns -> SUBSET (Names \cup Roles \cup Files)]
      BY <3>2, <3>6
    <3> QED
      BY <3>3, <3>5, <3>7 DEF Rows
  <2>3. /\ \A s \in Requests : s # r => req'[s] = req[s]
        /\ req'[r].pc = "commit" /\ req'[r].user = req[r].user /\ req'[r].loaded = req[r].loaded
        /\ req'[r].list = req[r].list /\ req'[r].ask = ask /\ req'[r].kind = req[r].kind
    BY <1>2, <2>1 DEF Records
  <2>4. req' \in [Requests -> Records]
    <3>1. req' = [req EXCEPT ![r] = [req[r] EXCEPT !.pc = "commit", !.ask = ask]]
      BY <1>2, <2>1
    <3> HIDE DEF ask
    <3>2. [req[r] EXCEPT !.pc = "commit", !.ask = ask] \in Records
      BY <1>2, <2>2 DEF Records
    <3> QED
      BY <1>2, <3>1, <3>2
  <2> HIDE DEF ask
  <2>5. Uploads(r, {f})
    BY <2>1, <2>2, <2>3, <2>4 DEF Uploads, history
  <2> QED
    BY <2>5
<1> QED
  BY <1>1, <1>3, <1>4

LEMMA UploadStep ==
  ASSUME AccountsInv, NEW r \in Requests, NEW images, Uploads(r, images)
  PROVE  AccountsInv'
<1>1. /\ req[r].pc = "upload" /\ req' \in [Requests -> Records]
      /\ \A s \in Requests : s # r => req'[s] = req[s]
      /\ req'[r].pc = "commit" /\ req'[r].user = req[r].user /\ req'[r].loaded = req[r].loaded
      /\ req'[r].list = req[r].list /\ req'[r].ask["profile"] = images
      /\ UNCHANGED <<server, starts, begun, account, cache, wanted, disturbed, failed, suspect>>
  BY DEF Uploads
<1>2. Types /\ StageInv /\ ImageInv /\ ListInv /\ UniqueNames /\ ChangesHold /\ OrphanHasCause
  BY DEF AccountsInv
<1>3. /\ \/ images = {} /\ file' = file
         \/ \E f \in Files : /\ images = {f} /\ file[f].state = "none"
                             /\ file' = [file EXCEPT ![f] = [state |-> "stored", for |-> req[r].user]]
      /\ file \in [Files -> [state : {"none", "stored", "deleted"}, for : SUBSET Users]]
      /\ req[r].user \in SUBSET Users
  BY <1>2, RecordLemma DEF Uploads, Types, Few
<1>4. /\ \A f \in images : f \in Files /\ file[f].state = "none"
                           /\ file'[f].state = "stored" /\ file'[f].for = req[r].user
      /\ \A f : f \notin images => file'[f] = file[f]
      /\ file' \in [Files -> [state : {"none", "stored", "deleted"}, for : SUBSET Users]]
  <2>1. CASE images = {} /\ file' = file
    BY <1>3, <2>1
  <2>2. ASSUME NEW f \in Files, images = {f}, file[f].state = "none",
               file' = [file EXCEPT ![f] = [state |-> "stored", for |-> req[r].user]]
        PROVE  <1>4!1 /\ <1>4!2 /\ <1>4!3
    BY <1>3, <2>2
  <2> QED
    BY <1>3, <2>1, <2>2
<1>5. Types'
  BY <1>1, <1>2, <1>4 DEF Types
<1>6. req[r].ask["profile"] = {} /\ \A s \in Requests : req'[s].user = req[s].user
                                                       /\ req'[s].loaded = req[s].loaded
                                                       /\ req'[s].list = req[s].list
  BY <1>1, <1>2 DEF StageInv
<1>7. StageInv'
  <2>1. AtWork' = AtWork
    BY <1>1 DEF AtWork
  <2>2. \A s \in Requests : (Alone(s) => Alone(s)') /\ (Loaded(s) => Loaded(s)')
    BY <1>1, <1>6 DEF Alone, Loaded, Exists
  <2>3. \A s \in AtWork' : IF req'[s].loaded = Null THEN req'[s].pc # "delete" /\ Alone(s)'
                                                    ELSE Loaded(s)'
    BY <1>1, <1>2, <1>6, <2>1, <2>2 DEF StageInv, AtWork
  <2>4. \A s \in AtWork' : req'[s].user # {}
    BY <1>2, <1>6, <2>1 DEF StageInv, AtWork
  <2>5. \A s \in Requests : /\ req'[s].list # {} => req'[s].pc = "put"
                            /\ req'[s].ask["profile"] # {} => req'[s].pc = "commit"
                            /\ req'[s].pc \in {"idle", "query", "put"} => req'[s].user = {}
                            /\ req'[s].loaded # Null => s \in AtWork'
    BY <1>1, <1>2, <1>6, <2>1 DEF StageInv
  <2> QED
    BY <2>3, <2>4, <2>5 DEF StageInv
<1>8. ImageInv'
  <2>1. \A f, us : ImageOf(f, us) => ImageOf(f, us)'
    BY <1>4 DEF ImageOf
  <2>2. \A f \in images : ImageOf(f, req[r].user)'
    BY <1>4, <1>1 DEF ImageOf
  <2>3. \A s \in Requests : \A f \in req'[s].loaded["profile"] \cup req'[s].ask["profile"] :
           ImageOf(f, req[s].user)'
    BY <1>1, <1>2, <2>1, <2>2 DEF ImageInv
  <2>4. \A u \in Users : \A f \in account'[u]["profile"] : ImageOf(f, {u})'
    BY <1>1, <1>2, <2>1 DEF ImageInv
  <2> QED
    BY <1>6, <2>3, <2>4 DEF ImageInv, ImageOf
<1>9. ListInv'
  <2>1. \A list : Follows(list) => Follows(list)'
    BY <1>1 DEF Follows
  <2> QED
    BY <1>1, <1>2, <1>6, <2>1 DEF ListInv
<1>10. UniqueNames' /\ ChangesHold'
  BY <1>1, <1>2 DEF UniqueNames, ChangesHold, Exists
<1>11. OrphanHasCause'
  BY <1>1, <1>2, <1>4, <1>6 DEF OrphanHasCause, Stored
<1> QED
  BY <1>5, <1>7, <1>8, <1>9, <1>10, <1>11 DEF AccountsInv

-----------------------------------------------------------------------------
(* Commits.                                                                *)

(* The row of u is written by r, which is through with it.                 *)
Writes(r, u, w) ==
  /\ r \in AtWork /\ req[r].user = {u} /\ w \in Rows
  /\ w["profile"] \subseteq req[r].loaded["profile"] \cup req[r].ask["profile"]
  /\ req[r].ask["profile"] # {} => w["profile"] = req[r].ask["profile"]
  /\ account' = [v \in Users |-> IF v \in {u} THEN w ELSE account[v]]
  /\ file' = Removed(req[r].loaded["profile"] \ w["profile"])
  /\ disturbed' = Disturbed(r)
  /\ wanted' \in [Users -> Rows] /\ \A v \in Users : v # u => wanted'[v] = wanted[v]
  /\ req' \in [Requests -> Records] /\ \A s \in Requests : s # r => req'[s] = req[s]
  /\ req'[r].loaded = Null /\ req'[r].ask = Null /\ req'[r].list = {}
  /\ \/ req'[r].pc = "evict" /\ req'[r].user = {u} /\ suspect' = suspect
     \/ req'[r].pc = "idle" /\ req'[r].user = {} /\ suspect' = suspect \cup {u}
  /\ \A v \in Users : v # u => account[v]["name"] \cap w["name"] = {}
  /\ w = Null \/ w = wanted'[u] \/ u \in disturbed'
  /\ UNCHANGED <<server, starts, begun, cache, failed>>

LEMMA EvictLater ==
  ASSUME NEW kind \in Kinds, NEW us \in Few(Users), NEW q,
         q = [Idle EXCEPT !.pc = "evict", !.kind = kind, !.user = us]
  PROVE  /\ q \in Records /\ q.pc = "evict" /\ q.user = us /\ q.loaded = Null
         /\ q.ask = Null /\ q.list = {}
  BY IdleLemma DEF Records, Stages, Idle

LEMMA CommitLemma ==
  ASSUME AccountsInv, NEW r \in Requests, Commit(r)
  PROVE  \E u \in Users : \E w : Writes(r, u, w)
<1>1. Types /\ StageInv /\ ImageInv /\ ListInv /\ UniqueNames /\ ChangesHold /\ OrphanHasCause
  BY DEF AccountsInv
<1>2. /\ req[r].pc = "commit" /\ Unique(r) /\ RowsThere(r)
      /\ account' = [u \in Users |-> IF u \in req[r].user THEN Written(r) ELSE account[u]]
      /\ file' = Removed(Orphan(r))
      /\ wanted' = [u \in Users |-> IF u \notin req[r].user THEN wanted[u] ELSE
           [c \in Columns |-> IF req[r].ask[c] = {} THEN wanted[u][c] ELSE req[r].ask[c]]]
      /\ disturbed' = Disturbed(r)
      /\ UNCHANGED <<server, starts, begun, cache, failed>>
  BY DEF Commit
<1>3. r \in AtWork /\ req[r].user \in Few(Users) /\ req[r].user # {}
  BY <1>1, <1>2, RecordLemma DEF AtWork, StageInv
<1>4. PICK u \in Users : req[r].user = {u}
  BY <1>3 DEF Few
<1>5. /\ Written(r) \in Rows
      /\ \A c \in Columns : Written(r)[c] = IF req[r].ask[c] = {} THEN req[r].loaded[c]
                                           ELSE req[r].ask[c]
      /\ Written(r)["profile"] \subseteq req[r].loaded["profile"] \cup req[r].ask["profile"]
      /\ req[r].ask["profile"] # {} => Written(r)["profile"] = req[r].ask["profile"]
  BY <1>1, WrittenLemma
<1>6. wanted'[u] = [c \in Columns |-> IF req[r].ask[c] = {} THEN wanted[u][c] ELSE req[r].ask[c]]
  BY <1>2, <1>4
<1>7. wanted' \in [Users -> Rows] /\ \A v \in Users : v # u => wanted'[v] = wanted[v]
  <2>1. wanted'[u] \in Rows
    <3>1. wanted[u] \in Rows /\ req[r].ask \in Rows
      BY <1>1, RecordLemma DEF Types
    <3>2. \A c \in Columns : /\ wanted'[u][c] \in Few(Domain(c))
                             /\ wanted'[u][c] \in SUBSET (Names \cup Roles \cup Files)
      BY <1>6, <3>1 DEF Rows
    <3>3. wanted'[u] = [c \in Columns |-> wanted'[u][c]]
      BY <1>6
    <3> QED
      BY <3>2, <3>3 DEF Rows
  <2>2. \A v \in Users : v # u => wanted'[v] = wanted[v]
    BY <1>2, <1>4
  <2>3. \A v \in Users : wanted'[v] \in Rows
    BY <1>1, <2>1, <2>2 DEF Types
  <2> QED
    BY <1>2, <2>2, <2>3
<1>8. /\ req' \in [Requests -> Records] /\ \A s \in Requests : s # r => req'[s] = req[s]
      /\ req'[r].loaded = Null /\ req'[r].ask = Null /\ req'[r].list = {}
      /\ \/ req'[r].pc = "evict" /\ req'[r].user = {u} /\ suspect' = suspect
         \/ req'[r].pc = "idle" /\ req'[r].user = {} /\ suspect' = suspect \cup {u}
  <2>1. CASE req[r].kind \in {"create", "update"}
    <3> DEFINE q == [Idle EXCEPT !.pc = "evict", !.kind = req[r].kind, !.user = req[r].user]
    <3>1. req' = [req EXCEPT ![r] = q] /\ suspect' = suspect
      BY <2>1 DEF Commit
    <3>2. req[r].kind \in Kinds
      BY <2>1 DEF Kinds
    <3>3. /\ q \in Records /\ q.pc = "evict" /\ q.user = req[r].user /\ q.loaded = Null
          /\ q.ask = Null /\ q.list = {}
      BY <1>3, <3>2, EvictLater
    <3> HIDE DEF q
    <3>4. /\ req' \in [Requests -> Records]
          /\ \A s \in Requests : req'[s] = IF s = r THEN q ELSE req[s]
      BY <1>1, <3>1, <3>3, ReqLemma
    <3> QED
      BY <1>4, <3>1, <3>3, <3>4
  <2>2. CASE req[r].kind \notin {"create", "update"}
    <3>1. req' = [req EXCEPT ![r] = Idle] /\ suspect' = suspect \cup req[r].user
      BY <2>2 DEF Commit, End
    <3>2. /\ req' \in [Requests -> Records]
          /\ \A s \in Requests : req'[s] = IF s = r THEN Idle ELSE req[s]
      BY <1>1, <3>1, IdleLemma, ReqLemma
    <3> QED
      BY <1>4, <3>1, <3>2, IdleLemma
  <2> QED
    BY <2>1, <2>2
<1>9. \A v \in Users : v # u => account[v]["name"] \cap Written(r)["name"] = {}
  BY <1>2, <1>4 DEF Unique
<1>10. Written(r) = wanted'[u] \/ u \in disturbed'
  <2>1. disturbed \subseteq disturbed'
    BY <1>2 DEF Disturbed
  <2>2. CASE req[r].loaded = wanted[u]
    BY <1>6, <2>2 DEF Written
  <2>3. CASE req[r].loaded = Null
    BY <1>1, <1>3, <1>4, <2>2, <2>3 DEF StageInv, Alone
  <2>4. CASE req[r].loaded # Null
    <3>1. Exists(u)
      BY <1>2, <1>4, <2>4 DEF RowsThere
    <3>2. req[r].loaded = account[u] \/ u \in disturbed
      BY <1>1, <1>3, <1>4, <2>4 DEF StageInv, Loaded
    <3>3. account[u] = wanted[u] \/ u \in disturbed
      BY <1>1, <3>1 DEF ChangesHold
    <3> QED
      BY <2>1, <2>2, <3>2, <3>3
  <2> QED
    BY <2>3, <2>4
<1>11. Writes(r, u, Written(r))
  BY <1>2, <1>3, <1>4, <1>5, <1>7, <1>8, <1>9, <1>10 DEF Writes, Orphan
<1> QED
  BY <1>11

LEMMA DeleteLemma ==
  ASSUME AccountsInv, NEW r \in Requests, CommitDelete(r)
  PROVE  \E u \in Users : \E w : Writes(r, u, w)
<1>1. Types /\ StageInv
  BY DEF AccountsInv
<1>0. PICK kind \in Kinds : kind = "delete"
  BY DEF Kinds
<1> DEFINE q == [Idle EXCEPT !.pc = "evict", !.kind = kind, !.user = req[r].user]
<1>2. /\ req[r].pc = "delete"
      /\ account' = [u \in Users |-> IF u \in req[r].user THEN Null ELSE account[u]]
      /\ file' = Removed(req[r].loaded["profile"])
      /\ disturbed' = Disturbed(r) /\ req' = [req EXCEPT ![r] = q]
      /\ UNCHANGED <<server, starts, begun, cache, wanted, failed, suspect>>
  BY <1>0 DEF CommitDelete
<1>3. r \in AtWork /\ req[r].user \in Few(Users) /\ req[r].user # {}
  BY <1>1, <1>2, RecordLemma DEF AtWork, StageInv
<1>4. PICK u \in Users : req[r].user = {u}
  BY <1>3 DEF Few
<1>5. /\ q \in Records /\ q.pc = "evict" /\ q.user = req[r].user /\ q.loaded = Null
      /\ q.ask = Null /\ q.list = {}
  BY <1>3, EvictLater
<1> HIDE DEF q
<1>6. /\ req' \in [Requests -> Records]
      /\ \A s \in Requests : req'[s] = IF s = r THEN q ELSE req[s]
  BY <1>1, <1>2, <1>5, ReqLemma
<1>7. req[r].ask["profile"] = {} /\ wanted \in [Users -> Rows]
  BY <1>1, <1>2 DEF StageInv, Types
<1>8. file' = Removed(req[r].loaded["profile"] \ Null["profile"])
  BY <1>2, NullLemma
<1>9. Writes(r, u, Null)
  BY <1>2, <1>3, <1>4, <1>5, <1>6, <1>7, <1>8, NullLemma DEF Writes
<1> QED
  BY <1>9

LEMMA WriteStep ==
  ASSUME AccountsInv, NEW r \in Requests, NEW u \in Users, NEW w, Writes(r, u, w)
  PROVE  AccountsInv'
<1>1. Types /\ StageInv /\ ImageInv /\ ListInv /\ UniqueNames /\ ChangesHold /\ OrphanHasCause
  BY DEF AccountsInv
<1>2. /\ r \in AtWork /\ req[r].user = {u} /\ w \in Rows
      /\ req' \in [Requests -> Records] /\ \A s \in Requests : s # r => req'[s] = req[s]
      /\ req'[r].loaded = Null /\ req'[r].ask = Null /\ req'[r].list = {}
      /\ \/ req'[r].pc = "evict" /\ req'[r].user = {u} /\ suspect' = suspect
         \/ req'[r].pc = "idle" /\ req'[r].user = {} /\ suspect' = suspect \cup {u}
      /\ UNCHANGED <<server, starts, begun, cache, failed>>
      /\ wanted' \in [Users -> Rows] /\ \A v \in Users : v # u => wanted'[v] = wanted[v]
  BY DEF Writes
<1>3. /\ account'[u] = w /\ \A v \in Users : v # u => account'[v] = account[v]
      /\ account' \in [Users -> Rows]
  <2>1. account' = [v \in Users |-> IF v \in {u} THEN w ELSE account[v]]
    BY DEF Writes
  <2> QED
    BY <1>1, <1>2, <2>1 DEF Types
<1>4. /\ file' = [f \in Files |-> IF f \in req[r].loaded["profile"] \ w["profile"]
                                    THEN [state |-> "deleted", for |-> {}] ELSE file[f]]
      /\ file' \in [Files -> [state : {"none", "stored", "deleted"}, for : SUBSET Users]]
  BY <1>1 DEF Writes, Removed, Types
<1>5. disturbed' = Disturbed(r) /\ disturbed \subseteq disturbed' /\ disturbed' \subseteq Users
  BY <1>1, <1>2 DEF Writes, Disturbed, Types
<1>6. Types'
  BY <1>1, <1>2, <1>3, <1>4, <1>5 DEF Types
<1>7. StageInv'
  <2>1. AtWork' = AtWork \ {r}
    BY <1>2 DEF AtWork
  <2>2. ASSUME NEW s \in AtWork, s # r
        PROVE  IF req'[s].loaded = Null THEN req'[s].pc # "delete" /\ Alone(s)' ELSE Loaded(s)'
    <3>1. s \in Requests /\ req'[s] = req[s]
      BY <1>2, <2>2 DEF AtWork
    <3>2. IF req[s].loaded = Null THEN req[s].pc # "delete" /\ Alone(s) ELSE Loaded(s)
      BY <1>1 DEF StageInv
    <3>3. CASE req[s].loaded = Null
      <4>1. Alone(s) /\ req[s].pc # "delete" /\ req[s].user \subseteq Users
        BY <1>1, <3>1, <3>2, <3>3, RecordLemma DEF Few
      <4>2. u \notin req[s].user
        BY <1>2, <2>2, <4>1 DEF Alone, AtWork
      <4>3. Alone(s)'
        BY <1>2, <1>3, <3>1, <4>1, <4>2 DEF Alone, Exists
      <4> QED
        BY <3>1, <3>3, <4>1, <4>3
    <3>4. CASE req[s].loaded # Null
      <4>1. Loaded(s) /\ req[s].user \in Few(Users)
        BY <1>1, <3>1, <3>2, <3>4, RecordLemma
      <4>2. ASSUME NEW v \in req[s].user
            PROVE  req[s].loaded = account'[v] \/ v \in disturbed'
        <5>1. CASE v = u
          <6>1. req[s].user = req[r].user
            BY <1>2, <4>1, <5>1 DEF Few
          <6>2. LoadedElsewhere(r)
            BY <2>2, <3>1, <3>4, <6>1 DEF LoadedElsewhere
          <6> QED
            BY <1>2, <1>5, <5>1, <6>2 DEF Disturbed
        <5>2. CASE v # u
          BY <1>3, <1>5, <4>1, <5>2 DEF Loaded, Few
        <5> QED
          BY <5>1, <5>2
      <4> QED
        BY <3>1, <3>4, <4>2 DEF Loaded
    <3> QED
      BY <3>3, <3>4
  <2>3. \A s \in AtWork' : req'[s].user # {}
    BY <1>1, <1>2, <2>1 DEF StageInv, AtWork
  <2>4. \A s \in Requests : /\ req'[s].list # {} => req'[s].pc = "put"
                            /\ req'[s].ask["profile"] # {} => req'[s].pc = "commit"
                            /\ req'[s].pc \in {"idle", "query", "put"} => req'[s].user = {}
                            /\ req'[s].loaded # Null => s \in AtWork'
    BY <1>1, <1>2, <2>1, NullLemma DEF StageInv
  <2>5. \A s \in AtWork' : IF req'[s].loaded = Null THEN req'[s].pc # "delete" /\ Alone(s)'
                                                    ELSE Loaded(s)'
    BY <2>1, <2>2
  <2> QED
    BY <2>3, <2>4, <2>5 DEF StageInv
<1>8. r \in Requests /\ w["profile"] \subseteq req[r].loaded["profile"] \cup req[r].ask["profile"]
      /\ w["profile"] \subseteq Files
  BY <1>2, ColumnNames DEF Writes, Rows, Few
<1>9. ImageInv'
  <2>1. \A f \in Files : \A us : ImageOf(f, us) => ImageOf(f, us)'
    BY <1>4 DEF ImageOf
  <2>2. ASSUME NEW v \in Users, NEW f \in account'[v]["profile"] PROVE ImageOf(f, {v})'
    <3>1. f \in Files
      BY <1>3, ColumnNames DEF Rows, Few
    <3>2. CASE v = u
      <4>1. ImageOf(f, {u})
        BY <1>1, <1>2, <1>3, <1>8, <3>2 DEF ImageInv
      <4> QED
        BY <2>1, <3>1, <3>2, <4>1
    <3>3. CASE v # u
      <4>1. ImageOf(f, {v})
        BY <1>1, <1>3, <3>3 DEF ImageInv
      <4> QED
        BY <2>1, <3>1, <4>1
    <3> QED
      BY <3>2, <3>3
  <2>3. ASSUME NEW s \in Requests,
               NEW f \in req'[s].loaded["profile"] \cup req'[s].ask["profile"]
        PROVE  ImageOf(f, req[s].user)'
    <3>1. s # r
      BY <1>2, NullLemma
    <3>2. f \in Files /\ ImageOf(f, req[s].user) /\ req'[s] = req[s]
      BY <1>1, <1>2, <3>1, RecordLemma DEF ImageInv, Few
    <3> QED
      BY <1>4, <3>2 DEF ImageOf
  <2> QED
    BY <2>2, <2>3 DEF ImageInv
<1>10. ListInv'
  <2>1. ASSUME NEW list, Follows(list) PROVE Follows(list)'
    <3>1. ASSUME NEW v \in Users
          PROVE  \/ list[v] = account'[v] \/ v \in suspect'
                 \/ \E s \in Requests : req'[s].pc = "evict" /\ v \in req'[s].user
      <4>1. CASE v = u
        BY <1>2, <4>1
      <4>2. CASE v # u
        <5>1. \/ list[v] = account[v] \/ v \in suspect
              \/ \E s \in Requests : req[s].pc = "evict" /\ v \in req[s].user
          BY <2>1 DEF Follows
        <5>2. req[r].pc # "evict"
          BY <1>2 DEF AtWork
        <5> QED
          BY <1>2, <1>3, <4>2, <5>1, <5>2
      <4> QED
        BY <4>1, <4>2
    <3> QED
      BY <3>1 DEF Follows
  <2> QED
    BY <1>1, <1>2, <2>1 DEF ListInv
<1>11. UniqueNames'
  <2>1. \A v \in Users : v # u => account[v]["name"] \cap w["name"] = {}
    BY DEF Writes
  <2> QED
    BY <1>1, <1>3, <2>1 DEF UniqueNames
<1>12. ChangesHold'
  <2>1. w = Null \/ w = wanted'[u] \/ u \in disturbed'
    BY DEF Writes
  <2> QED
    BY <1>1, <1>2, <1>3, <1>5, <2>1 DEF ChangesHold, Exists
<1>13. OrphanHasCause'
  <2>1. SUFFICES ASSUME NEW f \in Stored'
                 PROVE  \/ \E v \in Users : f \in account'[v]["profile"]
                        \/ \E s \in Requests : f \in req'[s].ask["profile"]
                        \/ f \in failed' \/ file'[f].for \subseteq disturbed'
    BY DEF OrphanHasCause
  <2>2. /\ f \in Files /\ f \in Stored /\ file'[f] = file[f]
        /\ f \notin req[r].loaded["profile"] \ w["profile"]
    BY <1>4 DEF Stored
  <2>3. \/ \E v \in Users : f \in account[v]["profile"]
        \/ \E s \in Requests : f \in req[s].ask["profile"]
        \/ f \in failed \/ file[f].for \subseteq disturbed
    BY <1>1, <2>2 DEF OrphanHasCause
  <2>4. ASSUME NEW v \in Users, f \in account[v]["profile"], v # u
        PROVE  f \in account'[v]["profile"]
    BY <1>3, <2>4
  <2>5. ASSUME f \in account[u]["profile"]
        PROVE  f \in account'[u]["profile"] \/ file'[f].for \subseteq disturbed'
    <3>1. file[f].for = {u}
      BY <1>1, <2>2, <2>5 DEF ImageInv, ImageOf, Stored
    <3>2. account[u] # Null
      BY <2>5, NullLemma
    <3>3. req[r].loaded # Null
      BY <1>1, <1>2, <3>2 DEF StageInv, Alone, Exists
    <3>4. req[r].loaded = account[u] \/ u \in disturbed
      BY <1>1, <1>2, <3>3 DEF StageInv, Loaded
    <3> QED
      BY <1>3, <1>5, <2>2, <2>5, <3>1, <3>4
  <2>6. ASSUME NEW s \in Requests, f \in req[s].ask["profile"]
        PROVE  f \in account'[u]["profile"] \/ f \in req'[s].ask["profile"]
    <3>1. req[r].ask["profile"] # {} => w["profile"] = req[r].ask["profile"]
      BY DEF Writes
    <3> QED
      BY <1>2, <1>3, <2>6, <3>1
  <2> QED
    BY <1>2, <1>5, <2>2, <2>3, <2>4, <2>5, <2>6
<1> QED
  BY <1>6, <1>7, <1>9, <1>10, <1>11, <1>12, <1>13 DEF AccountsInv

-----------------------------------------------------------------------------
(* Requests that end without a write, and a stop of the server.            *)

LEMMA LeaveStep ==
  ASSUME AccountsInv, NEW S \in SUBSET Requests, NEW gone \in SUBSET Files,
         req' = [r \in Requests |-> IF r \in S THEN Idle ELSE req[r]],
         \A r \in S : req[r].ask["profile"] \subseteq gone,
         Types', ListInv', failed' = failed \cup gone,
         UNCHANGED <<account, file, wanted, disturbed>>
  PROVE  AccountsInv'
<1>1. Types /\ StageInv /\ ImageInv /\ ListInv /\ UniqueNames /\ ChangesHold /\ OrphanHasCause
  BY DEF AccountsInv
<1>2. \A r \in Requests : req'[r] = IF r \in S THEN Idle ELSE req[r]
  OBVIOUS
<1>3. StageInv'
  <2>1. AtWork' = AtWork \ S
    BY <1>2, IdleLemma DEF AtWork
  <2>2. \A r \in AtWork' : r \in AtWork /\ r \in Requests /\ req'[r] = req[r]
    BY <1>2, <2>1 DEF AtWork
  <2>3. \A r \in AtWork' : (Alone(r) => Alone(r)') /\ (Loaded(r) => Loaded(r)')
    BY <1>2, <2>2, IdleLemma DEF Alone, Loaded, Exists
  <2>4. \A r \in AtWork' : /\ req'[r].user # {}
                           /\ IF req'[r].loaded = Null THEN req'[r].pc # "delete" /\ Alone(r)'
                                                       ELSE Loaded(r)'
    BY <1>1, <2>2, <2>3 DEF StageInv
  <2>5. \A r \in Requests : /\ req'[r].list # {} => req'[r].pc = "put"
                            /\ req'[r].ask["profile"] # {} => req'[r].pc = "commit"
                            /\ req'[r].pc \in {"idle", "query", "put"} => req'[r].user = {}
                            /\ req'[r].loaded # Null => r \in AtWork'
    BY <1>1, <1>2, <2>1, IdleLemma, NullLemma DEF StageInv
  <2> QED
    BY <2>4, <2>5 DEF StageInv
<1>4. ImageInv'
  <2>1. \A u \in Users : \A f \in account'[u]["profile"] : ImageOf(f, {u})'
    BY <1>1 DEF ImageInv, ImageOf
  <2>2. \A r \in Requests : \A f \in req'[r].loaded["profile"] \cup req'[r].ask["profile"] :
           ImageOf(f, req[r].user)'
    BY <1>1, <1>2, IdleLemma, NullLemma DEF ImageInv, ImageOf
  <2> QED
    BY <2>1, <2>2 DEF ImageInv
<1>5. UniqueNames' /\ ChangesHold'
  BY <1>1 DEF UniqueNames, ChangesHold, Exists
<1>6. OrphanHasCause'
  BY <1>1, <1>2 DEF OrphanHasCause, Stored
<1> QED
  BY <1>3, <1>4, <1>5, <1>6 DEF AccountsInv

LEMMA FailStep ==
  ASSUME AccountsInv, NEW r \in Requests, Fail(r)
  PROVE  AccountsInv'
<1>1. Types /\ ListInv /\ req[r].ask["profile"] \in SUBSET Files
  BY RecordLemma DEF AccountsInv, Few
<1>2. /\ req[r].pc \in {"upload", "commit", "delete"} /\ req' = [req EXCEPT ![r] = Idle]
      /\ failed' = failed \cup req[r].ask["profile"]
      /\ UNCHANGED <<server, starts, begun, account, file, cache, wanted, disturbed, suspect>>
  BY DEF Fail, End
<1>3. /\ req' \in [Requests -> Records]
      /\ \A s \in Requests : req'[s] = IF s = r THEN Idle ELSE req[s]
  BY <1>1, <1>2, IdleLemma, ReqLemma
<1>4. Types'
  BY <1>1, <1>2, <1>3 DEF Types
<1>5. ListInv'
  <2>1. \A list : Follows(list) => Follows(list)'
    BY <1>2, <1>3 DEF Follows
  <2> QED
    BY <1>1, <1>2, <1>3, <2>1, IdleLemma DEF ListInv
<1>6. PICK S \in SUBSET Requests : S = {r}
  OBVIOUS
<1>7. req' = [s \in Requests |-> IF s \in S THEN Idle ELSE req[s]]
  BY <1>3, <1>6
<1>8. PICK gone \in SUBSET Files : gone = req[r].ask["profile"]
  BY <1>1
<1>9. \A s \in S : req[s].ask["profile"] \subseteq gone
  BY <1>6, <1>8
<1>10. failed' = failed \cup gone /\ UNCHANGED <<account, file, wanted, disturbed>>
  BY <1>2, <1>8
<1> QED
  BY <1>4, <1>5, <1>7, <1>9, <1>10, LeaveStep

LEMMA StopStep ==
  ASSUME AccountsInv, Stop
  PROVE  AccountsInv'
<1>1. /\ server' = "down" /\ cache' = {} /\ suspect' = {}
      /\ req' = [r \in Requests |-> Idle]
      /\ failed' = failed \cup UNION {req[r].ask["profile"] : r \in Requests}
      /\ UNCHANGED <<starts, begun, account, file, wanted, disturbed>>
      /\ Types
  BY DEF Stop, AccountsInv
<1>2. \A r \in Requests : req[r].ask["profile"] \subseteq Files
  BY <1>1, RecordLemma DEF Few
<1> DEFINE gone == UNION {req[r].ask["profile"] : r \in Requests}
<1>3. gone \in SUBSET Files /\ \A r \in Requests : req[r].ask["profile"] \subseteq gone
  BY <1>2
<1>4. failed' = failed \cup gone
  BY <1>1
<1> HIDE DEF gone
<1>5. req' \in [Requests -> Records] /\ \A r \in Requests : req'[r] = Idle
  BY <1>1, IdleLemma
<1>6. {} \in Few(Lists)
  BY FewSmall
<1>7. Types'
  BY <1>1, <1>3, <1>4, <1>5, <1>6 DEF Types
<1>8. ListInv'
  BY <1>1, <1>5, IdleLemma DEF ListInv
<1>9. req' = [r \in Requests |-> IF r \in Requests THEN Idle ELSE req[r]]
  BY <1>1
<1> QED
  BY <1>1, <1>3, <1>4, <1>7, <1>8, <1>9, LeaveStep

-----------------------------------------------------------------------------
(* The cached list.                                                        *)

(* A request that is not at work with an account goes on.                  *)
LEMMA ListStep ==
  ASSUME AccountsInv, NEW r \in Requests, NEW q \in Records, req' = [req EXCEPT ![r] = q],
         req[r].pc \in {"idle", "evict", "query", "put"}, q.pc \in {"idle", "query", "put"},
         q.user = {}, q.loaded = Null, q.ask["profile"] = {}, q.list # {} => q.pc = "put",
         server' = server, starts' = starts, begun' \in 0 .. MaxRequests,
         cache' \in Few(Lists), suspect' \subseteq Users, ListInv',
         UNCHANGED <<account, file, wanted, disturbed, failed>>
  PROVE  AccountsInv'
<1>1. Types /\ StageInv /\ ImageInv /\ ListInv /\ UniqueNames /\ ChangesHold /\ OrphanHasCause
  BY DEF AccountsInv
<1>2. /\ req' \in [Requests -> Records]
      /\ \A s \in Requests : req'[s] = IF s = r THEN q ELSE req[s]
  BY <1>1, ReqLemma
<1>3. Types'
  BY <1>1, <1>2 DEF Types
<1>4. StageInv'
  <2>1. AtWork' = AtWork /\ r \notin AtWork
    BY <1>2 DEF AtWork
  <2>2. \A s \in AtWork' : s \in AtWork /\ s \in Requests /\ req'[s] = req[s]
    BY <1>2, <2>1 DEF AtWork
  <2>3. \A s \in AtWork' : (Alone(s) => Alone(s)') /\ (Loaded(s) => Loaded(s)')
    BY <1>2, <2>2 DEF Alone, Loaded, Exists
  <2>4. \A s \in AtWork' : /\ req'[s].user # {}
                           /\ IF req'[s].loaded = Null THEN req'[s].pc # "delete" /\ Alone(s)'
                                                       ELSE Loaded(s)'
    BY <1>1, <2>2, <2>3 DEF StageInv
  <2>5. \A s \in Requests : /\ req'[s].list # {} => req'[s].pc = "put"
                            /\ req'[s].ask["profile"] # {} => req'[s].pc = "commit"
                            /\ req'[s].pc \in {"idle", "query", "put"} => req'[s].user = {}
                            /\ req'[s].loaded # Null => s \in AtWork'
    BY <1>1, <1>2, <2>1, NullLemma DEF StageInv
  <2> QED
    BY <2>4, <2>5 DEF StageInv
<1>5. ImageInv'
  <2>1. \A u \in Users : \A f \in account'[u]["profile"] : ImageOf(f, {u})'
    BY <1>1 DEF ImageInv, ImageOf
  <2>2. \A s \in Requests : \A f \in req'[s].loaded["profile"] \cup req'[s].ask["profile"] :
           ImageOf(f, req[s].user)'
    BY <1>1, <1>2, NullLemma DEF ImageInv, ImageOf
  <2> QED
    BY <2>1, <2>2 DEF ImageInv
<1>6. UniqueNames' /\ ChangesHold'
  BY <1>1 DEF UniqueNames, ChangesHold, Exists
<1>7. OrphanHasCause'
  <2>1. req[r].ask["profile"] = {}
    BY <1>1 DEF StageInv
  <2> QED
    BY <1>1, <1>2, <2>1 DEF OrphanHasCause, Stored
<1> QED
  BY <1>3, <1>4, <1>5, <1>6, <1>7 DEF AccountsInv

(* Where no eviction happens, what followed the table still does.          *)
LEMMA FollowsLemma ==
  ASSUME AccountsInv, NEW r \in Requests, NEW q \in Records, req' = [req EXCEPT ![r] = q],
         req[r].pc # "evict", UNCHANGED <<account, suspect>>
  PROVE  \A list : Follows(list) => Follows(list)'
<1>1. \A s \in Requests : req'[s] = IF s = r THEN q ELSE req[s]
  BY ReqLemma DEF AccountsInv
<1> QED
  BY <1>1 DEF Follows

LEMMA EvictStep ==
  ASSUME AccountsInv, NEW r \in Requests, Evict(r)
  PROVE  AccountsInv'
<1>1. Types /\ StageInv /\ ListInv /\ req[r].user \in Few(Users)
  BY RecordLemma DEF AccountsInv
<1>2. /\ req[r].pc = "evict" /\ cache' = {} /\ req' = [req EXCEPT ![r] = Idle]
      /\ suspect' = IF Reading THEN suspect \cup req[r].user ELSE {}
      /\ UNCHANGED <<server, starts, begun, account, file, wanted, disturbed, failed>>
  BY DEF Evict, Evicted, End
<1>3. \A s \in Requests : req'[s] = IF s = r THEN Idle ELSE req[s]
  BY <1>1, <1>2, IdleLemma, ReqLemma
<1>4. ListInv'
  <2>1. ASSUME NEW s \in Requests, NEW list \in req'[s].list PROVE Follows(list)'
    <3>1. s # r /\ req'[s] = req[s]
      BY <1>3, IdleLemma
    <3>2. Reading /\ Follows(list)
      BY <1>1, <3>1 DEF StageInv, ListInv, Reading
    <3> QED
      BY <1>2, <1>3, <3>2 DEF Follows
  <2> QED
    BY <1>2, <2>1 DEF ListInv
<1>5. cache' \in Few(Lists) /\ suspect' \subseteq Users /\ begun' \in 0 .. MaxRequests
  BY <1>1, <1>2, FewSmall DEF Types, Few
<1> QED
  BY <1>2, <1>4, <1>5, IdleLemma, NullLemma, ListStep

LEMMA FindAllStep ==
  ASSUME AccountsInv, NEW r \in Requests, FindAll(r)
  PROVE  AccountsInv'
<1> DEFINE q == [Idle EXCEPT !.pc = "query", !.kind = "list"]
<1>1. Types /\ ListInv
  BY DEF AccountsInv
<1>2. /\ req[r].pc = "idle" /\ begun < MaxRequests /\ begun' = begun + 1
      /\ req' = [req EXCEPT ![r] = q]
      /\ UNCHANGED <<server, starts, account, file, cache, wanted, disturbed, failed, suspect>>
  BY DEF FindAll, history
<1>3. /\ q \in Records /\ q.pc = "query" /\ q.user = {} /\ q.loaded = Null
      /\ q.ask = Null /\ q.list = {}
  BY IdleLemma DEF Records, Stages, Kinds, Idle
<1> HIDE DEF q
<1>4. \A s \in Requests : req'[s] = IF s = r THEN q ELSE req[s]
  BY <1>1, <1>2, <1>3, ReqLemma
<1>5. ListInv'
  <2>1. \A list : Follows(list) => Follows(list)'
    BY <1>2, <1>3, FollowsLemma
  <2> QED
    BY <1>1, <1>2, <1>3, <1>4, <2>1 DEF ListInv
<1>6. cache' \in Few(Lists) /\ suspect' \subseteq Users /\ begun' \in 0 .. MaxRequests
  BY <1>1, <1>2, AccountConstants DEF Types
<1> QED
  BY <1>2, <1>3, <1>5, <1>6, NullLemma, ListStep

LEMMA QueryStep ==
  ASSUME AccountsInv, NEW r \in Requests, Query(r)
  PROVE  AccountsInv'
<1>1. Types /\ StageInv /\ ListInv /\ req[r] \in Records /\ req \in [Requests -> Records]
  BY RecordLemma DEF AccountsInv, Types
<1> DEFINE q == [req[r] EXCEPT !.pc = "put", !.list = {account}]
<1>2. /\ req[r].pc = "query" /\ req' = [req EXCEPT ![r] = q]
      /\ UNCHANGED <<server, starts, begun, account, file, cache, wanted, disturbed, failed, suspect>>
  BY <1>1 DEF Query, history
<1>3. /\ req[r].user = {} /\ req[r].loaded = Null /\ req[r].ask \in Rows
      /\ req[r].ask["profile"] = {}
  BY <1>1, <1>2, RecordLemma DEF StageInv, AtWork
<1>4. {account} \in Few(Lists)
  BY <1>1, FewSmall DEF Types, Lists
<1>5. /\ q \in Records /\ q.pc = "put" /\ q.user = {} /\ q.loaded = Null
      /\ q.ask = req[r].ask /\ q.list = {account}
  BY <1>1, <1>3, <1>4 DEF Records, Stages
<1> HIDE DEF q
<1>6. \A s \in Requests : req'[s] = IF s = r THEN q ELSE req[s]
  BY <1>1, <1>2, <1>5, ReqLemma
<1>7. ListInv'
  <2>1. \A list : Follows(list) => Follows(list)'
    BY <1>2, <1>5, FollowsLemma
  <2>2. Follows(account)'
    BY <1>2 DEF Follows
  <2> QED
    BY <1>1, <1>2, <1>5, <1>6, <2>1, <2>2 DEF ListInv
<1>8. cache' \in Few(Lists) /\ suspect' \subseteq Users /\ begun' \in 0 .. MaxRequests
  BY <1>1, <1>2 DEF Types
<1> QED
  BY <1>2, <1>3, <1>5, <1>7, <1>8, ListStep

LEMMA PutStep ==
  ASSUME AccountsInv, NEW r \in Requests, Put(r)
  PROVE  AccountsInv'
<1>1. Types /\ ListInv /\ req[r].list \in Few(Lists)
  BY RecordLemma DEF AccountsInv
<1>2. /\ req[r].pc = "put" /\ cache' = req[r].list /\ req' = [req EXCEPT ![r] = Idle]
      /\ UNCHANGED <<server, starts, begun, account, file, wanted, disturbed, failed, suspect>>
  BY DEF Put, End, history
<1>3. \A s \in Requests : req'[s] = IF s = r THEN Idle ELSE req[s]
  BY <1>1, <1>2, IdleLemma, ReqLemma
<1>4. ListInv'
  <2>1. \A list : Follows(list) => Follows(list)'
    BY <1>2, IdleLemma, FollowsLemma
  <2> QED
    BY <1>1, <1>2, <1>3, <2>1, IdleLemma DEF ListInv
<1>5. suspect' \subseteq Users /\ begun' \in 0 .. MaxRequests
  BY <1>1, <1>2 DEF Types
<1> QED
  BY <1>1, <1>2, <1>4, <1>5, IdleLemma, NullLemma, ListStep

LEMMA ExpireStep ==
  ASSUME AccountsInv, Expire
  PROVE  AccountsInv'
<1>1. Types /\ StageInv /\ ImageInv /\ ListInv /\ UniqueNames /\ ChangesHold /\ OrphanHasCause
  BY DEF AccountsInv
<1>2. /\ cache' = {} /\ suspect' = IF Reading THEN suspect ELSE {}
      /\ UNCHANGED <<server, starts, begun, account, file, req, wanted, disturbed, failed>>
  BY DEF Expire
<1>3. Types'
  BY <1>1, <1>2, FewSmall DEF Types
<1>4. StageInv' /\ ImageInv' /\ UniqueNames' /\ ChangesHold' /\ OrphanHasCause'
  BY <1>1, <1>2 DEF StageInv, ImageInv, UniqueNames, ChangesHold, OrphanHasCause, AtWork,
                    Alone, Loaded, ImageOf, Exists, Stored
<1>5. ListInv'
  <2>1. ASSUME NEW s \in Requests, NEW list \in req'[s].list PROVE Follows(list)'
    <3>1. Reading /\ Follows(list)
      BY <1>1, <1>2 DEF StageInv, ListInv, Reading
    <3> QED
      BY <1>2, <3>1 DEF Follows
  <2> QED
    BY <1>2, <2>1 DEF ListInv
<1> QED
  BY <1>3, <1>4, <1>5 DEF AccountsInv

(* Nothing but the server's own state changes.                             *)
LEMMA ServerStep ==
  ASSUME AccountsInv, Start \/ AdminIsThere \/ UNCHANGED vars
  PROVE  AccountsInv'
<1>1. Types /\ StageInv /\ ImageInv /\ ListInv /\ UniqueNames /\ ChangesHold /\ OrphanHasCause
  BY DEF AccountsInv
<1>2. UNCHANGED <<begun, account, file, cache, req, wanted, disturbed, failed, suspect>>
  BY DEF Start, AdminIsThere, vars, history
<1>3. server' \in {"down", "starting", "up"} /\ starts' \in 0 .. MaxStarts
  BY <1>1, AccountConstants DEF Start, AdminIsThere, vars, Types
<1>4. Types'
  BY <1>1, <1>2, <1>3 DEF Types
<1>5. StageInv' /\ ImageInv' /\ UniqueNames' /\ ChangesHold' /\ OrphanHasCause' /\ ListInv'
  BY <1>1, <1>2 DEF StageInv, ImageInv, UniqueNames, ChangesHold, OrphanHasCause, ListInv, AtWork,
                    Alone, Loaded, ImageOf, Exists, Stored, Follows
<1> QED
  BY <1>4, <1>5 DEF AccountsInv

-----------------------------------------------------------------------------
(* Theorems.                                                               *)

LEMMA AccountsInit ==
  ASSUME Init
  PROVE  AccountsInv
<1>1. {} \in Few(Lists) /\ Null["profile"] = {} /\ Null["name"] = {} /\ Null \in Rows
  BY FewSmall, NullLemma
<1>2. Types
  BY <1>1, IdleLemma, AccountConstants DEF Init, Types
<1>3. /\ \A r \in Requests : req[r] = Idle
      /\ \A u \in Users : account[u] = Null
      /\ cache = {} /\ \A f \in Files : file[f].state = "none"
  BY DEF Init
<1>4. StageInv
  BY <1>1, <1>3, IdleLemma DEF StageInv, AtWork
<1>5. ImageInv /\ ListInv /\ UniqueNames /\ ChangesHold /\ OrphanHasCause
  BY <1>1, <1>3, IdleLemma DEF ImageInv, ListInv, UniqueNames, ChangesHold, OrphanHasCause,
                               Exists, Stored
<1> QED
  BY <1>2, <1>4, <1>5 DEF AccountsInv

(* Every step of every request, of the cache and of the server keeps the   *)
(* invariant: what a request has loaded is the row, or its account counts  *)
(* as disturbed; an image belongs to one account for good; and a list that *)
(* differs from the table is suspect or about to be evicted.               *)
THEOREM AccountsInductive == Spec => []AccountsInv
<1>1. ASSUME AccountsInv, [Next]_vars PROVE AccountsInv'
  <2>1. CASE Beginning
    BY <1>1, <2>1, BeginningLemma, BeginStep DEF AccountsInv
  <2>2. CASE Uploading
    BY <1>1, <2>2, UploadLemma, UploadStep
  <2>3. ASSUME NEW r \in Requests, Commit(r) \/ CommitDelete(r) PROVE AccountsInv'
    BY <1>1, <2>3, CommitLemma, DeleteLemma, WriteStep
  <2>4. ASSUME NEW r \in Requests, Fail(r) PROVE AccountsInv'
    BY <1>1, <2>4, FailStep
  <2>5. CASE Listing
    BY <1>1, <2>5, EvictStep, FindAllStep, QueryStep, PutStep, ExpireStep DEF Listing
  <2>6. CASE Serving
    BY <1>1, <2>6, StopStep, ServerStep DEF Serving
  <2>7. CASE UNCHANGED vars
    BY <1>1, <2>7, ServerStep
  <2> QED
    BY <1>1, <2>1, <2>2, <2>3, <2>4, <2>5, <2>6, <2>7, StepKinds
<1> QED
  BY <1>1, AccountsInit, PTL DEF Spec

LEMMA FewIsOne ==
  ASSUME NEW S, NEW X \in Few(S)
  PROVE  X \subseteq S /\ Cardinality(X) <= 1
<1>1. CASE X = {}
  BY <1>1, FS_EmptySet
<1>2. ASSUME NEW x \in X PROVE Cardinality(X) <= 1
  <2>1. X = {x}
    BY FewSame
  <2>2. Cardinality({x}) = 1
    BY FS_Singleton
  <2> QED
    BY <2>1, <2>2
<1> QED
  BY <1>1, <1>2 DEF Few

(* TypeOK: no column, request or cache ever holds two values.              *)
THEOREM TypeCorrect == Spec => []TypeOK
<1>1. ASSUME AccountsInv PROVE TypeOK
  <2>1. Types
    BY <1>1 DEF AccountsInv
  <2>2. \A row \in Rows : IsRow(row)
    <3>1. SUFFICES ASSUME NEW row \in Rows PROVE IsRow(row)
      OBVIOUS
    <3>2. DOMAIN row = Columns /\ \A c \in Columns : row[c] \in Few(Domain(c))
      BY DEF Rows
    <3> QED
      BY <3>2, FewIsOne DEF IsRow
  <2>3. \A r \in Requests : /\ req[r].pc \in Stages /\ req[r].kind \in Kinds
                            /\ req[r].user \subseteq Users
                            /\ req[r].loaded \in Rows /\ req[r].ask \in Rows
                            /\ Cardinality(req[r].list) <= 1
    <3>1. SUFFICES ASSUME NEW r \in Requests
                   PROVE  /\ req[r].pc \in Stages /\ req[r].kind \in Kinds
                          /\ req[r].user \in Few(Users) /\ req[r].list \in Few(Lists)
                          /\ req[r].loaded \in Rows /\ req[r].ask \in Rows
      BY FewIsOne
    <3> QED
      BY <2>1 DEF Types, Records
  <2>4. Cardinality(cache) <= 1 /\ \A list \in cache : \A u \in Users : list[u] \in Rows
    BY <2>1, FewIsOne DEF Types, Lists
  <2>5. /\ DOMAIN account = Users /\ \A u \in Users : account[u] \in Rows /\ wanted[u] \in Rows
    BY <2>1 DEF Types
  <2> QED
    BY <2>1, <2>2, <2>3, <2>4, <2>5 DEF TypeOK, Types
<1> QED
  BY <1>1, AccountsInductive, PTL

(* Two accounts never have the same name, whoever checked before whom.     *)
THEOREM NamesUnique == Spec => []UniqueNames
<1>1. AccountsInv => UniqueNames
  BY DEF AccountsInv
<1> QED
  BY <1>1, AccountsInductive, PTL

(* An account has what it was last given, in every column, unless another  *)
(* request had its row at the time.                                        *)
THEOREM ChangesLast == Spec => []ChangesHold
<1>1. AccountsInv => ChangesHold
  BY DEF AccountsInv
<1> QED
  BY <1>1, AccountsInductive, PTL

(* An image nobody has is one of a request that failed or is still at      *)
(* work, or of an account two requests wrote.                              *)
THEOREM ImagesAccounted == Spec => []OrphanHasCause
<1>1. AccountsInv => OrphanHasCause
  BY DEF AccountsInv
<1> QED
  BY <1>1, AccountsInductive, PTL

(* With nothing under way the cached list is the table, except where it is *)
(* suspect.                                                                *)
THEOREM ListAccounted == Spec => []UserListHasCause
<1>1. AccountsInv => UserListHasCause
  <2>1. SUFFICES ASSUME AccountsInv, \A r \in Requests : req[r].pc = "idle",
                        NEW list \in cache, NEW u \in Users
                 PROVE  list[u] = account[u] \/ u \in suspect
    BY DEF UserListHasCause
  <2>2. Follows(list)
    BY <2>1 DEF AccountsInv, ListInv
  <2> QED
    BY <2>1, <2>2 DEF Follows
<1> QED
  BY <1>1, AccountsInductive, PTL
=============================================================================
