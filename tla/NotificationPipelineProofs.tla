--------------------- MODULE NotificationPipelineProofs ---------------------
(***************************************************************************)
(* Proofs about NotificationPipeline, for any sets of users, events and    *)
(* clients and any bounds.                                                 *)
(***************************************************************************)
EXTENDS NotificationPipeline, TLAPS

-----------------------------------------------------------------------------
(* Type correctness.                                                       *)

Tasks == {"none", "queued", "telling", "saving", "evicting", "done", "failed", "lost"}
Request == [pc : {"idle", "query", "put", "evict"},
            user : SUBSET Users, list : SUBSET Notifications]

LEMMA IdleType == Idle \in Request
  BY DEF Idle, Request

LEMMA EvictedType ==
  ASSUME TypeOK, NEW who \in SUBSET Users
  PROVE  Evicted(who) \in [Users -> SUBSET SUBSET Notifications]
  BY DEF TypeOK, Evicted

(* What an eviction does to the cache and to the history of the readers.   *)
LEMMA EvictsType ==
  ASSUME TypeOK, NEW who \in SUBSET Users, Evicts(who)
  PROVE  /\ cache' \in [Users -> SUBSET SUBSET Notifications]
         /\ late' \subseteq Clients /\ overtaken' \subseteq Users
  BY EvictedType DEF Evicts, TypeOK

LEMMA OfUserType ==
  ASSUME TypeOK, NEW who \in SUBSET Users
  PROVE  UNION {OfUser(rows, u) : u \in who} \in SUBSET Notifications
  BY DEF TypeOK, OfUser

(* A step of the pool moves one task and keeps the type of the others.     *)
LEMMA TaskStepType ==
  ASSUME TypeOK, NEW v \in Events, NEW from \in Tasks, NEW to \in Tasks,
         TaskStep(v, from, to)
  PROVE  task' \in [Events -> Tasks]
  BY DEF TypeOK, TaskStep, Tasks

(* The type invariant is inductive.                                        *)
LEMMA TypeStep == TypeOK /\ [Next]_vars => TypeOK'
<1> SUFFICES ASSUME TypeOK, [Next]_vars PROVE TypeOK'
  OBVIOUS
<1> USE DEF tables, lists
<1>1. ASSUME NEW v \in Events, NEW u \in Users, CreateMessage(v, u) \/ UpdateRole(v, u)
      PROVE  TypeOK'
  <2>1. ReceiversOf(u) \subseteq Users
    BY DEF TypeOK, ReceiversOf
  <2> QED
    BY <1>1, <2>1 DEF CreateMessage, UpdateRole, AtPublication, TypeOK
<1>2. ASSUME NEW v \in Events, Commit(v) \/ Rollback(v)
      PROVE  TypeOK'
  BY <1>2 DEF Commit, Rollback, AtCommit, TypeOK
<1>3. ASSUME NEW v \in Events, Work(v)
      PROVE  TypeOK'
  <2>1. task' \in [Events -> Tasks]
    BY <1>3, TaskStepType
       DEF Work, TaskStart, TaskTells, TaskThrows, TaskCommits, TaskRefused,
           TaskEvicts, TaskEnds, Tasks, TypeOK
  <2>2. receivers[v] \in SUBSET Users /\ keys[v] \in SUBSET Users
    BY DEF TypeOK
  <2>3. CASE TaskCommits(v)
    <3>1. {v} \X receivers[v] \subseteq Notifications
      BY <2>2 DEF Notifications
    <3> QED
      BY <2>1, <2>2, <2>3, <3>1 DEF TaskCommits, ToEvict, TypeOK, Tasks
  <2>4. CASE TaskEvicts(v)
    <3>1. PICK u \in keys[v] : Evicts({u}) /\ keys' = [keys EXCEPT ![v] = @ \ {u}]
      BY <2>4 DEF TaskEvicts
    <3>2. /\ cache' \in [Users -> SUBSET SUBSET Notifications]
          /\ late' \subseteq Clients /\ overtaken' \subseteq Users
      BY <2>2, <3>1, EvictsType
    <3> QED
      BY <2>1, <2>2, <2>4, <3>1, <3>2 DEF TaskEvicts, TypeOK, Tasks
  <2>5. CASE TaskStart(v) \/ TaskTells(v) \/ TaskThrows(v) \/ TaskRefused(v) \/ TaskEnds(v)
    BY <2>1, <2>5 DEF TaskStart, TaskTells, TaskThrows, TaskRefused, TaskEnds, TypeOK, Tasks
  <2> QED
    BY <1>3, <2>3, <2>4, <2>5 DEF Work
<1>4. ASSUME NEW c \in Clients, Serve(c)
      PROVE  TypeOK'
  <2>1. client[c] \in Request
    BY DEF TypeOK, Request
  <2>2. client[c].user \in SUBSET Users /\ client[c].list \in SUBSET Notifications
    BY <2>1 DEF Request
  <2>3. CASE Query(c)
    <3> DEFINE read == UNION {OfUser(rows, u) : u \in client[c].user}
    <3>1. read \in SUBSET Notifications
      BY <2>2, OfUserType
    <3>2. client' = [client EXCEPT ![c] = [client[c] EXCEPT !.pc = "put", !.list = read]]
      BY <2>3 DEF Query, TypeOK
    <3> HIDE DEF read
    <3>3. [client[c] EXCEPT !.pc = "put", !.list = read] \in Request
      BY <2>1, <3>1 DEF Request
    <3>4. client' \in [Clients -> Request]
      BY <3>2, <3>3 DEF TypeOK, Request
    <3>5. UNCHANGED <<users, enabled, rows, tx, receivers, task, keys, cache, deleted,
                      late, overtaken, restarts>>
      BY <2>3 DEF Query
    <3> QED
      BY <3>4, <3>5 DEF TypeOK, Request
  <2>4. CASE Put(c)
    <3>1. cache' \in [Users -> SUBSET SUBSET Notifications]
      BY <2>2, <2>4 DEF Put, TypeOK
    <3> QED
      BY <2>2, <2>4, <3>1, IdleType DEF Put, TypeOK, Request
  <2>5. CASE Evict(c)
    <3>1. /\ cache' \in [Users -> SUBSET SUBSET Notifications]
          /\ late' \subseteq Clients /\ overtaken' \subseteq Users
      BY <2>2, <2>5, EvictsType DEF Evict
    <3> QED
      BY <2>5, <3>1, IdleType DEF Evict, TypeOK, Request
  <2> QED
    BY <1>4, <2>3, <2>4, <2>5 DEF Serve
<1>5. ASSUME NEW c \in Clients, NEW u \in Users, FindAll(c, u)
      PROVE  TypeOK'
  <2>1. [Idle EXCEPT !.pc = "query", !.user = {u}] \in Request
    BY DEF Idle, Request
  <2> QED
    BY <1>5, <2>1 DEF FindAll, TypeOK, Request
<1>6. ASSUME NEW c \in Clients, NEW n \in Notifications, Delete(c, n)
      PROVE  TypeOK'
  <2>1. [Idle EXCEPT !.pc = "evict", !.user = {n[2]}] \in Request
    BY DEF Idle, Request, Notifications
  <2> QED
    BY <1>6, <2>1 DEF Delete, TypeOK, Request
<1>7. ASSUME NEW u \in Users, DeleteUser(u) \/ Toggle(u) \/ Expire(u)
      PROVE  TypeOK'
  BY <1>7 DEF DeleteUser, Toggle, Expire, TypeOK
<1>8. CASE Restart
  <2>1. task' \in [Events -> Tasks]
    BY <1>8 DEF Restart, AfterRestart, TypeOK, Tasks
  <2>2. tx' \in [Events -> {"idle", "open", "committed", "rolledBack"}]
    BY <1>8 DEF Restart, TypeOK
  <2>3. restarts' \in 0 .. MaxRestarts
    BY <1>8, PipelineConstants DEF Restart, TypeOK
  <2> QED
    BY <1>8, <2>1, <2>2, <2>3, IdleType DEF Restart, TypeOK, Tasks, Request
<1>9. CASE UNCHANGED vars
  BY <1>9 DEF vars, TypeOK
<1> QED
  BY <1>1, <1>2, <1>3, <1>4, <1>5, <1>6, <1>7, <1>8, <1>9 DEF Next, Publish

LEMMA TypeInit == Init => TypeOK
<1> SUFFICES ASSUME Init PROVE TypeOK
  OBVIOUS
<1>1. client \in [Clients -> Request]
  BY IdleType DEF Init
<1> QED
  BY <1>1, PipelineConstants DEF Init, TypeOK, Request

(* Every variable keeps its type, whatever the pool, the clients and the   *)
(* restarts do.                                                            *)
THEOREM TypeCorrect == Spec => []TypeOK
  BY TypeInit, TypeStep, PTL DEF Spec

-----------------------------------------------------------------------------
(* What is stored, and for whom.                                           *)

(* The commit, and nothing else, hands an event to the pool.               *)
Submitted == \A v \in Events : task[v] # "none" <=> tx[v] = "committed"

(* A notification was stored by a task that has done so once and for all.  *)
Stored == \A n \in rows \cup deleted : task[n[1]] \in {"evicting", "done"}

(* None of the three properties is inductive by itself: that a stored      *)
(* notification belongs to a committed event, and that it is not stored    *)
(* again after its deletion, both rest on the stage of the task.           *)
PipelineInv == TypeOK /\ Submitted /\ Stored /\ DeletedStaysDeleted /\ ReceiverExists

LEMMA PipelineInit == Init => PipelineInv
<1> SUFFICES ASSUME Init PROVE PipelineInv
  OBVIOUS
<1>1. TypeOK
  BY TypeInit
<1> QED
  BY <1>1 DEF Init, PipelineInv, Submitted, Stored, DeletedStaysDeleted, ReceiverExists

(* What a step does not touch, it preserves.                               *)
LEMMA Untouched ==
  ASSUME PipelineInv, UNCHANGED <<users, rows, deleted, tx, task>>
  PROVE  /\ Submitted' /\ Stored' /\ DeletedStaysDeleted' /\ ReceiverExists'
  BY DEF PipelineInv, Submitted, Stored, DeletedStaysDeleted, ReceiverExists

(* A task that moves on, but has not stored yet, stores nothing; one that  *)
(* has stored moves on to its end.                                         *)
LEMMA TaskMoves ==
  ASSUME PipelineInv, NEW v \in Events, NEW from \in Tasks, NEW to \in Tasks,
         TaskStep(v, from, to), from # "none", to # "none",
         from \in {"evicting", "done"} => to = "done",
         UNCHANGED <<users, rows, deleted, tx>>
  PROVE  /\ Submitted' /\ Stored' /\ DeletedStaysDeleted' /\ ReceiverExists'
<1>1. task[v] = from /\ task' = [task EXCEPT ![v] = to]
  BY DEF TaskStep
<1>2. Submitted'
  BY <1>1 DEF PipelineInv, TypeOK, Submitted
<1>3. \A n \in rows \cup deleted : n[1] \in Events
  BY DEF PipelineInv, TypeOK, Notifications
<1>4. Stored'
  BY <1>1, <1>3 DEF PipelineInv, TypeOK, Stored
<1> QED
  BY <1>2, <1>4 DEF PipelineInv, DeletedStaysDeleted, ReceiverExists

LEMMA PipelineStep == PipelineInv /\ [Next]_vars => PipelineInv'
<1> SUFFICES ASSUME PipelineInv, [Next]_vars PROVE PipelineInv'
  OBVIOUS
<1>1. TypeOK'
  BY TypeStep DEF PipelineInv
<1> DEFINE Rest == Submitted /\ Stored /\ DeletedStaysDeleted /\ ReceiverExists
<1>2. SUFFICES Rest'
  BY <1>1 DEF PipelineInv
<1>3. \A n \in rows \cup deleted : n[1] \in Events
  BY DEF PipelineInv, TypeOK, Notifications
<1> USE DEF tables, lists
<1>4. ASSUME NEW v \in Events, NEW u \in Users, CreateMessage(v, u) \/ UpdateRole(v, u)
      PROVE  Rest'
  <2>1. tx[v] = "idle" /\ tx' = [tx EXCEPT ![v] = "open"]
        /\ UNCHANGED <<users, rows, deleted, task>>
    BY <1>4 DEF CreateMessage, UpdateRole, AtPublication
  <2>2. Submitted'
    BY <2>1 DEF PipelineInv, TypeOK, Submitted
  <2> QED
    BY <2>1, <2>2 DEF PipelineInv, Stored, DeletedStaysDeleted, ReceiverExists
<1>5. ASSUME NEW v \in Events, Commit(v)
      PROVE  Rest'
  <2>1. tx[v] = "open" /\ tx' = [tx EXCEPT ![v] = "committed"]
        /\ task' = [task EXCEPT ![v] = "queued"] /\ UNCHANGED <<users, rows, deleted>>
    BY <1>5 DEF Commit, AtCommit
  <2>2. task[v] = "none"
    BY <2>1 DEF PipelineInv, Submitted
  <2>3. Submitted'
    BY <2>1 DEF PipelineInv, TypeOK, Submitted
  <2>4. Stored'
    BY <1>3, <2>1, <2>2 DEF PipelineInv, TypeOK, Stored
  <2> QED
    BY <2>1, <2>3, <2>4 DEF PipelineInv, DeletedStaysDeleted, ReceiverExists
<1>6. ASSUME NEW v \in Events, Rollback(v)
      PROVE  Rest'
  <2>1. tx[v] = "open" /\ tx' = [tx EXCEPT ![v] = "rolledBack"]
        /\ UNCHANGED <<users, rows, deleted, task>>
    BY <1>6 DEF Rollback
  <2>2. Submitted'
    BY <2>1 DEF PipelineInv, TypeOK, Submitted
  <2> QED
    BY <2>1, <2>2 DEF PipelineInv, Stored, DeletedStaysDeleted, ReceiverExists
<1>7. ASSUME NEW v \in Events, Work(v)
      PROVE  Rest'
  <2>1. CASE TaskStart(v)
    BY <2>1, TaskMoves DEF TaskStart, Tasks
  <2>2. CASE TaskTells(v)
    BY <2>2, TaskMoves DEF TaskTells, Tasks
  <2>3. CASE TaskThrows(v)
    BY <2>3, TaskMoves DEF TaskThrows, Tasks
  <2>4. CASE TaskRefused(v)
    BY <2>4, TaskMoves DEF TaskRefused, Tasks
  <2>5. CASE TaskEvicts(v)
    BY <2>5, Untouched DEF TaskEvicts
  <2>7. CASE TaskEnds(v)
    BY <2>7, TaskMoves DEF TaskEnds, Tasks
  <2>6. CASE TaskCommits(v)
    <3>1. /\ receivers[v] \subseteq users /\ task[v] = "saving"
          /\ task' = [task EXCEPT ![v] = "evicting"]
          /\ rows' = rows \cup ({v} \X receivers[v])
          /\ UNCHANGED <<users, deleted, tx>>
      BY <2>6 DEF TaskCommits, Insertable, TaskStep
    <3>2. Submitted'
      BY <3>1 DEF PipelineInv, TypeOK, Submitted
    <3>3. \A n \in {v} \X receivers[v] : n[1] = v /\ n[2] \in users
      BY <3>1
    <3>4. Stored'
      BY <1>3, <3>1, <3>3 DEF PipelineInv, TypeOK, Stored
    <3>5. DeletedStaysDeleted'
      <4>1. \A n \in deleted : n[1] # v
        BY <3>1 DEF PipelineInv, Stored
      <4> QED
        BY <3>1, <3>3, <4>1 DEF PipelineInv, DeletedStaysDeleted
    <3>6. ReceiverExists'
      BY <3>1, <3>3 DEF PipelineInv, ReceiverExists
    <3> QED
      BY <3>2, <3>4, <3>5, <3>6
  <2> QED
    BY <1>7, <2>1, <2>2, <2>3, <2>4, <2>5, <2>6, <2>7 DEF Work
<1>8. ASSUME NEW c \in Clients, Serve(c) \/ \E u \in Users : FindAll(c, u)
      PROVE  Rest'
  BY <1>8, Untouched DEF Serve, Query, Put, Evict, FindAll
<1>9. ASSUME NEW c \in Clients, NEW n \in Notifications, Delete(c, n)
      PROVE  Rest'
  <2>1. n \in rows /\ rows' = rows \ {n} /\ deleted' = deleted \cup {n}
        /\ UNCHANGED <<users, tx, task>>
    BY <1>9 DEF Delete
  <2> QED
    BY <2>1 DEF PipelineInv, Submitted, Stored, DeletedStaysDeleted, ReceiverExists
<1>10. ASSUME NEW u \in Users, DeleteUser(u)
       PROVE  Rest'
  <2>1. users' = users \ {u} /\ rows' = rows \ OfUser(rows, u)
        /\ UNCHANGED <<deleted, tx, task>>
    BY <1>10 DEF DeleteUser
  <2>2. \A n \in rows' : n \in rows /\ n[2] # u
    BY <2>1 DEF OfUser
  <2>3. ReceiverExists'
    BY <2>1, <2>2 DEF PipelineInv, ReceiverExists
  <2> QED
    BY <2>1, <2>2, <2>3 DEF PipelineInv, Submitted, Stored, DeletedStaysDeleted
<1>11. ASSUME NEW u \in Users, Toggle(u) \/ Expire(u)
       PROVE  Rest'
  BY <1>11, Untouched DEF Toggle, Expire
<1>12. CASE Restart
  <2>1. /\ tx' = [v \in Events |-> IF tx[v] = "open" THEN "rolledBack" ELSE tx[v]]
        /\ task' = [v \in Events |-> AfterRestart(v)]
        /\ UNCHANGED <<users, rows, deleted>>
    BY <1>12 DEF Restart
  <2>2. Submitted'
    BY <2>1 DEF PipelineInv, Submitted, AfterRestart
  <2>3. Stored'
    BY <1>3, <2>1 DEF PipelineInv, Stored, AfterRestart
  <2> QED
    BY <2>1, <2>2, <2>3 DEF PipelineInv, DeletedStaysDeleted, ReceiverExists
<1>13. CASE UNCHANGED vars
  BY <1>13, Untouched DEF vars
<1> QED
  BY <1>4, <1>5, <1>6, <1>7, <1>8, <1>9, <1>10, <1>11, <1>12, <1>13 DEF Next, Publish

(* The pipeline's invariant, from which the three theorems below follow.   *)
THEOREM PipelineInductive == Spec => []PipelineInv
  BY PipelineInit, PipelineStep, PTL DEF Spec

(* BasicNotificationService.create stores nothing for a message or role    *)
(* change that was rolled back.                                            *)
THEOREM CommittedOnly == Spec => []OnlyCommittedNotify
<1>1. PipelineInv => OnlyCommittedNotify
  <2> SUFFICES ASSUME PipelineInv, NEW n \in rows PROVE tx[n[1]] = "committed"
    BY DEF OnlyCommittedNotify
  <2>1. n[1] \in Events
    BY DEF PipelineInv, TypeOK, Notifications
  <2> QED
    BY <2>1 DEF PipelineInv, Submitted, Stored
<1> QED
  BY <1>1, PipelineInductive, PTL

(* A deleted notification is not stored a second time, also when a restart *)
(* meets the task that stored it before its end.                           *)
THEOREM DeletedForGood == Spec => []DeletedStaysDeleted
<1>1. PipelineInv => DeletedStaysDeleted
  BY DEF PipelineInv
<1> QED
  BY <1>1, PipelineInductive, PTL

(* No notification is stored for an account that is gone or outlives it.   *)
THEOREM ReceiversExist == Spec => []ReceiverExists
<1>1. PipelineInv => ReceiverExists
  BY DEF PipelineInv
<1> QED
  BY <1>1, PipelineInductive, PTL

-----------------------------------------------------------------------------
(* Cached lists.                                                           *)

(* A list of the user is the table's, or on the way to be evicted.         *)
Fresh(u, list) == list = OfUser(rows, u) \/ EvictionPending(u) \/ u \notin users

(* That holds of what is cached and of what a reader is about to put,      *)
(* unless the reader was overtaken by an eviction.  A request has one key. *)
ListsInv ==
  /\ \A u \in Users : u \notin overtaken => \A list \in cache[u] : Fresh(u, list)
  /\ \A c \in Clients : \A u \in client[c].user : client[c].user = {u}
  /\ \A c \in Clients : \A u \in client[c].user :
       client[c].pc = "put" /\ c \notin late => Fresh(u, client[c].list)
  /\ \A c \in late : client[c].pc = "put"
  /\ \A v \in Events : keys[v] # {} => task[v] = "evicting"

CacheInv == PipelineInv /\ ListsInv

LEMMA CacheInit == Init => CacheInv
<1> SUFFICES ASSUME Init PROVE CacheInv
  OBVIOUS
<1>1. PipelineInv
  BY PipelineInit
<1>2. ASSUME NEW c \in Clients PROVE client[c].user = {} /\ client[c].pc = "idle"
  BY DEF Init, Idle
<1> QED
  BY <1>1, <1>2 DEF Init, CacheInv, ListsInv

(* The same of the next state.                                             *)
FreshNext(u, list) ==
  list = OfUser(rows', u) \/ EvictionPending(u)' \/ u \notin users'

ListsNext ==
  /\ \A u \in Users : u \notin overtaken' => \A list \in cache'[u] : FreshNext(u, list)
  /\ \A c \in Clients : \A u \in client'[c].user : client'[c].user = {u}
  /\ \A c \in Clients : \A u \in client'[c].user :
       client'[c].pc = "put" /\ c \notin late' => FreshNext(u, client'[c].list)
  /\ \A c \in late' : client'[c].pc = "put"
  /\ \A v \in Events : keys'[v] # {} => task'[v] = "evicting"

LEMMA ListsPrimed == ListsNext => ListsInv'
  BY DEF ListsInv, ListsNext, Fresh, FreshNext, OfUser

(* A step that neither changes the rows of a user nor finishes an eviction *)
(* of its list leaves fresh what was fresh.                                *)
LEMMA FreshKept ==
  ASSUME NEW u \in Users, NEW list, Fresh(u, list),
         OfUser(rows', u) = OfUser(rows, u) \/ EvictionPending(u)' \/ u \notin users',
         EvictionPending(u) => EvictionPending(u)', users' \subseteq users
  PROVE  FreshNext(u, list)
  BY DEF Fresh, FreshNext

LEMMA CacheStep == CacheInv /\ [Next]_vars => CacheInv'
<1> SUFFICES ASSUME CacheInv, [Next]_vars PROVE CacheInv'
  OBVIOUS
<1>1. TypeOK /\ Submitted /\ ListsInv /\ PipelineInv'
  BY PipelineStep DEF CacheInv, PipelineInv
<1>2. SUFFICES ListsNext
  BY <1>1, ListsPrimed DEF CacheInv
<1>3. ASSUME NEW c \in Clients PROVE client[c] \in Request
  BY <1>1 DEF TypeOK, Request
<1> USE DEF tables, lists
(* Steps that leave lists, requests and evictions alone.                   *)
<1>4. ASSUME UNCHANGED <<lists, client, keys>>, users' \subseteq users,
             \A u \in users' : OfUser(rows', u) = OfUser(rows, u),
             \A v \in Events : task[v] = "evicting" => task'[v] = "evicting" \/ keys[v] = {}
      PROVE  ListsNext
  <2>1. ASSUME NEW u \in Users PROVE EvictionPending(u)' <=> EvictionPending(u)
    BY <1>4 DEF EvictionPending
  <2>2. ASSUME NEW u \in Users, NEW list, Fresh(u, list) PROVE FreshNext(u, list)
    BY <1>4, <2>1, <2>2 DEF Fresh, FreshNext
  <2>3. \A c \in Clients : client[c].user \subseteq Users
    BY <1>3 DEF Request
  <2>4. \A u \in Users : u \notin overtaken' => \A list \in cache'[u] : FreshNext(u, list)
    BY <1>1, <1>4, <2>2 DEF ListsInv
  <2>5. \A c \in Clients : \A u \in client'[c].user :
          client'[c].pc = "put" /\ c \notin late' => FreshNext(u, client'[c].list)
    BY <1>1, <1>4, <2>2, <2>3 DEF ListsInv
  <2>6. \A v \in Events : keys'[v] # {} => task'[v] = "evicting"
    BY <1>1, <1>4 DEF ListsInv
  <2> QED
    BY <1>1, <1>4, <2>4, <2>5, <2>6 DEF ListsInv, ListsNext
<1>5. ASSUME NEW v \in Events, Publish(v) \/ Commit(v) \/ Rollback(v) PROVE ListsNext
  <2>1. UNCHANGED <<lists, client, keys, users, rows>>
    BY <1>5 DEF Publish, CreateMessage, UpdateRole, Commit, Rollback
  <2>2. \A w \in Events : task'[w] = task[w] \/ keys[w] = {}
    <3>1. CASE Commit(v)
      <4>1. tx[v] = "open" /\ task' = [task EXCEPT ![v] = "queued"]
        BY <3>1 DEF Commit, AtCommit
      <4>2. keys[v] = {}
        BY <1>1, <4>1 DEF Submitted, ListsInv
      <4> QED BY <1>1, <4>1, <4>2 DEF TypeOK
    <3> QED BY <1>5, <3>1 DEF Publish, CreateMessage, UpdateRole, Rollback, AtPublication
  <2> QED BY <1>4, <2>1, <2>2 DEF OfUser
<1>6. ASSUME NEW v \in Events,
             TaskStart(v) \/ TaskTells(v) \/ TaskThrows(v) \/ TaskRefused(v) \/ TaskEnds(v)
      PROVE  ListsNext
  <2>1. UNCHANGED <<lists, client, keys, users, rows>>
    BY <1>6 DEF TaskStart, TaskTells, TaskThrows, TaskRefused, TaskEnds
  <2>2. \A w \in Events : task[w] = "evicting" => task'[w] = "evicting" \/ keys[w] = {}
    BY <1>1, <1>6 DEF TaskStart, TaskTells, TaskThrows, TaskRefused, TaskEnds, TaskStep, TypeOK
  <2> QED BY <1>4, <2>1, <2>2 DEF OfUser
(* The commit of a task changes the rows of those whose keys it evicts.    *)
<1>7. ASSUME NEW v \in Events, TaskCommits(v) PROVE ListsNext
  <2>1. /\ task' = [task EXCEPT ![v] = "evicting"] /\ task[v] = "saving"
        /\ rows' = rows \cup ({v} \X receivers[v])
        /\ keys' = [keys EXCEPT ![v] = receivers[v]]
        /\ UNCHANGED <<lists, client, users>>
    BY <1>7 DEF TaskCommits, ToEvict, TaskStep
  <2>2. keys[v] = {} /\ receivers[v] \subseteq Users
    BY <1>1, <2>1 DEF ListsInv, TypeOK
  <2>3. ASSUME NEW u \in Users, NEW list, Fresh(u, list) PROVE FreshNext(u, list)
    <3>1. EvictionPending(u) => EvictionPending(u)'
      BY <1>1, <2>1, <2>2 DEF EvictionPending, TypeOK
    <3>2. CASE u \in receivers[v]
      <4>1. EvictionPending(u)'
        BY <1>1, <2>1, <3>2 DEF EvictionPending, TypeOK
      <4> QED BY <4>1 DEF FreshNext
    <3>3. CASE u \notin receivers[v]
      <4>1. OfUser(rows', u) = OfUser(rows, u)
        BY <2>1, <3>3 DEF OfUser
      <4> QED BY <2>1, <2>3, <3>1, <4>1, FreshKept
    <3> QED BY <3>2, <3>3
  <2>4. \A c \in Clients : client[c].user \subseteq Users
    BY <1>3 DEF Request
  <2>5. \A u \in Users : u \notin overtaken' => \A list \in cache'[u] : FreshNext(u, list)
    BY <1>1, <2>1, <2>3 DEF ListsInv
  <2>6. \A c \in Clients : \A u \in client'[c].user :
          client'[c].pc = "put" /\ c \notin late' => FreshNext(u, client'[c].list)
    BY <1>1, <2>1, <2>3, <2>4 DEF ListsInv
  <2>7. \A w \in Events : keys'[w] # {} => task'[w] = "evicting"
    BY <1>1, <2>1 DEF ListsInv, TypeOK
  <2> QED BY <1>1, <2>1, <2>5, <2>6, <2>7 DEF ListsInv, ListsNext
(* An eviction: what is still fresh afterwards is of other users, or of a  *)
(* reader that is now late.                                                *)
<1>8. ASSUME NEW w \in Users, Evicts({w}), UNCHANGED <<rows, users>>,
             \A u \in Users : u # w /\ EvictionPending(u) => EvictionPending(u)',
             \A c \in Clients : client'[c] = client[c] \/ (client'[c] = Idle /\ client[c].pc = "evict"),
             \A v \in Events : keys'[v] # {} => task'[v] = "evicting"
      PROVE  ListsNext
  <2>1. /\ cache' = [u \in Users |-> IF u = w THEN {} ELSE cache[u]]
        /\ late' = late \cup {c \in Clients : client[c].pc = "put" /\ w \in client[c].user}
        /\ overtaken' = overtaken \ {w}
    BY <1>8 DEF Evicts, Evicted
  <2>2. ASSUME NEW u \in Users, u # w, NEW list, Fresh(u, list) PROVE FreshNext(u, list)
    BY <1>8, <2>2 DEF Fresh, FreshNext
  <2>3. \A u \in Users : u \notin overtaken' => \A list \in cache'[u] : FreshNext(u, list)
    BY <1>1, <2>1, <2>2 DEF ListsInv
  <2>4. ASSUME NEW c \in Clients, NEW u \in client'[c].user
        PROVE  /\ client'[c].user = {u}
               /\ client'[c].pc = "put" /\ c \notin late' => FreshNext(u, client'[c].list)
    <3>1. CASE client'[c] = Idle
      BY <2>4, <3>1 DEF Idle
    <3>2. CASE client'[c] = client[c]
      <4>1. u \in Users /\ client[c].user = {u}
        BY <1>1, <1>3, <2>4, <3>2 DEF ListsInv, Request
      <4>2. ASSUME client'[c].pc = "put", c \notin late' PROVE FreshNext(u, client'[c].list)
        <5>1. u # w /\ c \notin late /\ client[c].pc = "put"
          BY <2>1, <3>2, <4>1, <4>2
        <5>2. Fresh(u, client[c].list)
          BY <1>1, <4>1, <5>1 DEF ListsInv
        <5> QED BY <2>2, <3>2, <4>1, <5>1, <5>2
      <4> QED BY <3>2, <4>1, <4>2
    <3> QED BY <1>8, <3>1, <3>2
  <2>5. ASSUME NEW c \in late' PROVE client'[c].pc = "put"
    <3>1. c \in Clients /\ client[c].pc = "put"
      BY <1>1, <2>1, <2>5 DEF ListsInv, TypeOK
    <3> QED BY <1>8, <3>1
  <2> QED BY <1>8, <2>3, <2>4, <2>5 DEF ListsInv, ListsNext
<1>9. ASSUME NEW v \in Events, TaskEvicts(v) PROVE ListsNext
  <2>1. PICK w \in keys[v] : Evicts({w}) /\ keys' = [keys EXCEPT ![v] = @ \ {w}]
    BY <1>9 DEF TaskEvicts
  <2>2. UNCHANGED <<rows, users, task, client>> /\ task[v] = "evicting"
    BY <1>9 DEF TaskEvicts
  <2>3. w \in Users
    BY <1>1, <2>1 DEF TypeOK
  <2>4. ASSUME NEW u \in Users, u # w, EvictionPending(u) PROVE EvictionPending(u)'
    BY <1>1, <2>1, <2>2, <2>4 DEF EvictionPending, TypeOK
  <2>5. \A x \in Events : keys'[x] # {} => task'[x] = "evicting"
    BY <1>1, <2>1, <2>2 DEF ListsInv, TypeOK
  <2>6. \A c \in Clients :
          client'[c] = client[c] \/ (client'[c] = Idle /\ client[c].pc = "evict")
    BY <2>2
  <2>7. UNCHANGED <<rows, users>>
    BY <2>2
  <2> QED BY <1>8, <2>1, <2>3, <2>4, <2>5, <2>6, <2>7
<1>10. ASSUME NEW c \in Clients, Evict(c) PROVE ListsNext
  <2>1. /\ client[c].pc = "evict" /\ Evicts(client[c].user)
        /\ client' = [client EXCEPT ![c] = Idle]
        /\ UNCHANGED <<users, rows, keys, task>>
    BY <1>10 DEF Evict
  <2>2. \A d \in Clients : d # c => client'[d] = client[d]
    BY <1>1, <2>1 DEF TypeOK
  <2>3. client'[c] = Idle
    BY <1>1, <2>1 DEF TypeOK
  <2>4. CASE client[c].user = {}
    <3>1. /\ UNCHANGED cache /\ UNCHANGED overtaken /\ late' = late
      BY <1>1, <2>1, <2>4 DEF Evicts, Evicted, TypeOK
    <3>2. ASSUME NEW u \in Users PROVE EvictionPending(u)' <=> EvictionPending(u)
      BY <2>1, <2>2, <2>3, <2>4 DEF EvictionPending, Idle
    <3>3. ASSUME NEW u \in Users, NEW list, Fresh(u, list) PROVE FreshNext(u, list)
      BY <2>1, <3>2, <3>3 DEF Fresh, FreshNext
    <3>4. \A u \in Users : u \notin overtaken' => \A list \in cache'[u] : FreshNext(u, list)
      BY <1>1, <3>1, <3>3 DEF ListsInv
    <3>5. ASSUME NEW d \in Clients, NEW u \in client'[d].user
          PROVE  /\ client'[d].user = {u}
                 /\ client'[d].pc = "put" /\ d \notin late' => FreshNext(u, client'[d].list)
      <4>1. client'[d] = client[d]
        BY <2>2, <2>3, <3>5 DEF Idle
      <4>2. u \in Users
        BY <1>3, <3>5, <4>1 DEF Request
      <4> QED BY <1>1, <3>1, <3>3, <3>5, <4>1, <4>2 DEF ListsInv
    <3>6. \A d \in late' : client'[d].pc = "put"
      BY <1>1, <2>1, <2>2, <3>1 DEF ListsInv, TypeOK
    <3>7. \A x \in Events : keys'[x] # {} => task'[x] = "evicting"
      BY <1>1, <2>1 DEF ListsInv
    <3> QED BY <3>4, <3>5, <3>6, <3>7 DEF ListsNext
  <2>5. CASE client[c].user # {}
    <3>1. PICK w \in client[c].user : client[c].user = {w}
      BY <1>1, <2>5 DEF ListsInv
    <3>2. w \in Users
      BY <1>3, <3>1 DEF Request
    <3>3. ASSUME NEW u \in Users, u # w, EvictionPending(u) PROVE EvictionPending(u)'
      BY <2>1, <2>2, <3>1, <3>3 DEF EvictionPending
    <3>4. \A x \in Events : keys'[x] # {} => task'[x] = "evicting"
      BY <1>1, <2>1 DEF ListsInv
    <3>5. \A d \in Clients :
            client'[d] = client[d] \/ (client'[d] = Idle /\ client[d].pc = "evict")
      <4> TAKE d \in Clients
      <4>1. CASE d = c
        BY <2>1, <2>3, <4>1
      <4>2. CASE d # c
        BY <2>2, <4>2
      <4> QED BY <4>1, <4>2
    <3>6. Evicts({w})
      BY <2>1, <3>1
    <3> QED BY <1>8, <2>1, <3>2, <3>3, <3>4, <3>5, <3>6
  <2> QED BY <2>4, <2>5
(* A request takes a step that is no eviction.                             *)
<1>11. ASSUME NEW c \in Clients, UNCHANGED <<keys, task>>, users' = users,
              client[c].pc # "evict",
              \A d \in Clients : d # c => client'[d] = client[d],
              \A u \in Users : OfUser(rows', u) = OfUser(rows, u) \/ EvictionPending(u)',
              late' = late \/ late' = late \ {c},
              c \in late' => client'[c].pc = "put",
              \A u \in Users : u \notin overtaken' => \A list \in cache'[u] :
                (u \notin overtaken /\ list \in cache[u]) \/ Fresh(u, list),
              \A u \in client'[c].user :
                /\ client'[c].user = {u}
                /\ client'[c].pc = "put" /\ c \notin late' => Fresh(u, client'[c].list)
       PROVE  ListsNext
  <2>1. ASSUME NEW u \in Users, EvictionPending(u) PROVE EvictionPending(u)'
    BY <1>11, <2>1 DEF EvictionPending
  <2>2. ASSUME NEW u \in Users, NEW list, Fresh(u, list) PROVE FreshNext(u, list)
    BY <1>11, <2>1, <2>2, FreshKept
  <2>3. \A d \in Clients : client'[d].user \subseteq Users
    BY <1>1 DEF PipelineInv, TypeOK
  <2>4. ASSUME NEW u \in Users, u \notin overtaken', NEW list \in cache'[u]
        PROVE  FreshNext(u, list)
    <3>1. (u \notin overtaken /\ list \in cache[u]) \/ Fresh(u, list)
      BY <1>11, <2>4
    <3>2. Fresh(u, list)
      BY <1>1, <3>1 DEF ListsInv
    <3> QED BY <2>2, <3>2
  <2>5. ASSUME NEW d \in Clients, NEW u \in client'[d].user
        PROVE  /\ client'[d].user = {u}
               /\ client'[d].pc = "put" /\ d \notin late' => FreshNext(u, client'[d].list)
    <3>1. u \in Users
      BY <2>3, <2>5
    <3>2. CASE d = c
      BY <1>11, <2>2, <2>5, <3>1, <3>2
    <3>3. CASE d # c
      <4>1. client'[d] = client[d] /\ (d \notin late' => d \notin late)
        BY <1>11, <3>3
      <4> QED BY <1>1, <2>2, <2>5, <3>1, <4>1 DEF ListsInv
    <3> QED BY <3>2, <3>3
  <2>6. ASSUME NEW d \in late' PROVE client'[d].pc = "put"
    BY <1>1, <1>11, <2>6 DEF ListsInv, TypeOK
  <2>7. \A v \in Events : keys'[v] # {} => task'[v] = "evicting"
    BY <1>1, <1>11 DEF ListsInv
  <2> QED BY <2>4, <2>5, <2>6, <2>7 DEF ListsInv, ListsNext
<1>12. ASSUME NEW c \in Clients, NEW u \in Users, FindAll(c, u) PROVE ListsNext
  <2>1. /\ client[c].pc = "idle"
        /\ client' = [client EXCEPT ![c] = [Idle EXCEPT !.pc = "query", !.user = {u}]]
        /\ UNCHANGED <<users, rows, task, keys, lists>>
    BY <1>12 DEF FindAll
  <2>2. client'[c].pc = "query" /\ client'[c].user = {u}
    BY <1>1, <2>1 DEF TypeOK, Idle
  <2>3. \A d \in Clients : d # c => client'[d] = client[d]
    BY <1>1, <2>1 DEF TypeOK
  <2>4. c \notin late
    BY <1>1, <2>1 DEF ListsInv
  <2>5. \A w \in Users : OfUser(rows', w) = OfUser(rows, w)
    BY <2>1 DEF OfUser
  <2> QED BY <1>11, <2>1, <2>2, <2>3, <2>4, <2>5
<1>13. ASSUME NEW c \in Clients, Query(c) PROVE ListsNext
  <2> DEFINE read == UNION {OfUser(rows, u) : u \in client[c].user}
  <2>1. /\ client[c].pc = "query"
        /\ client' = [client EXCEPT ![c].pc = "put", ![c].list = read]
        /\ UNCHANGED <<users, rows, task, keys, lists>>
    BY <1>13 DEF Query
  <2>2. /\ client'[c].pc = "put" /\ client'[c].user = client[c].user
        /\ client'[c].list = read
    <3> HIDE DEF read
    <3>1. client' = [client EXCEPT ![c] = [client[c] EXCEPT !.pc = "put", !.list = read]]
      BY <1>1, <2>1 DEF TypeOK
    <3>2. client'[c] = [client[c] EXCEPT !.pc = "put", !.list = read]
      BY <1>1, <3>1 DEF TypeOK
    <3> QED BY <1>3, <3>2 DEF Request
  <2>3. \A d \in Clients : d # c => client'[d] = client[d]
    BY <1>1, <2>1 DEF TypeOK
  <2>4. ASSUME NEW u \in client'[c].user
        PROVE  client'[c].user = {u} /\ Fresh(u, client'[c].list)
    <3>1. client[c].user = {u}
      BY <1>1, <2>2, <2>4 DEF ListsInv
    <3>2. read = OfUser(rows, u)
      BY <3>1
    <3> QED BY <2>2, <3>1, <3>2 DEF Fresh, FreshNext
  <2>5. \A w \in Users : OfUser(rows', w) = OfUser(rows, w)
    BY <2>1 DEF OfUser
  <2> HIDE DEF read
  <2> QED BY <1>11, <2>1, <2>2, <2>3, <2>4, <2>5
<1>14. ASSUME NEW c \in Clients, Put(c) PROVE ListsNext
  <2>1. /\ client[c].pc = "put" /\ client' = [client EXCEPT ![c] = Idle]
        /\ cache' = [u \in Users |-> IF u \in client[c].user
                                       THEN {client[c].list} ELSE cache[u]]
        /\ late' = late \ {c}
        /\ overtaken' = IF c \in late THEN overtaken \cup client[c].user
                                      ELSE overtaken \ client[c].user
        /\ UNCHANGED <<users, rows, task, keys>>
    BY <1>14 DEF Put
  <2>2. client'[c] = Idle /\ client'[c].user = {}
    BY <1>1, <2>1 DEF TypeOK, Idle
  <2>3. \A d \in Clients : d # c => client'[d] = client[d]
    BY <1>1, <2>1 DEF TypeOK
  <2>4. ASSUME NEW u \in Users, u \notin overtaken', NEW list \in cache'[u]
        PROVE  (u \notin overtaken /\ list \in cache[u]) \/ Fresh(u, list)
    <3>1. CASE u \in client[c].user
      <4>1. c \notin late /\ list = client[c].list
        BY <2>1, <2>4, <3>1
      <4> QED BY <1>1, <2>1, <3>1, <4>1 DEF ListsInv
    <3>2. CASE u \notin client[c].user
      BY <2>1, <2>4, <3>2
    <3> QED BY <3>1, <3>2
  <2>5. \A w \in Users : OfUser(rows', w) = OfUser(rows, w)
    BY <2>1 DEF OfUser
  <2> QED BY <1>11, <2>1, <2>2, <2>3, <2>4, <2>5
<1>15. ASSUME NEW c \in Clients, NEW n \in Notifications, Delete(c, n) PROVE ListsNext
  <2>1. /\ client[c].pc = "idle" /\ rows' = rows \ {n}
        /\ client' = [client EXCEPT ![c] = [Idle EXCEPT !.pc = "evict", !.user = {n[2]}]]
        /\ UNCHANGED <<users, task, keys, lists>>
    BY <1>15 DEF Delete
  <2>2. client'[c].pc = "evict" /\ client'[c].user = {n[2]}
    BY <1>1, <2>1 DEF TypeOK, Idle
  <2>3. \A d \in Clients : d # c => client'[d] = client[d]
    BY <1>1, <2>1 DEF TypeOK
  <2>4. c \notin late
    BY <1>1, <2>1 DEF ListsInv
  <2>5. ASSUME NEW w \in Users
        PROVE  OfUser(rows', w) = OfUser(rows, w) \/ EvictionPending(w)'
    <3>1. CASE w = n[2]
      BY <2>2, <3>1 DEF EvictionPending
    <3>2. CASE w # n[2]
      BY <2>1, <3>2 DEF OfUser
    <3> QED BY <3>1, <3>2
  <2> QED BY <1>11, <2>1, <2>2, <2>3, <2>4, <2>5
<1>16. ASSUME NEW u \in Users, DeleteUser(u) PROVE ListsNext
  <2>1. /\ users' = users \ {u} /\ rows' = rows \ OfUser(rows, u)
        /\ UNCHANGED <<lists, client, keys, task>>
    BY <1>16 DEF DeleteUser
  <2>2. \A w \in users' : OfUser(rows', w) = OfUser(rows, w)
    BY <2>1 DEF OfUser
  <2> QED BY <1>4, <2>1, <2>2
<1>17. ASSUME NEW u \in Users, Toggle(u) PROVE ListsNext
  <2>1. UNCHANGED <<lists, client, keys, task, users, rows>>
    BY <1>17 DEF Toggle
  <2> QED BY <1>4, <2>1 DEF OfUser
<1>18. ASSUME NEW w \in Users, Expire(w) PROVE ListsNext
  <2>1. /\ cache' = [cache EXCEPT ![w] = {}] /\ overtaken' = overtaken \ {w}
        /\ UNCHANGED <<users, rows, client, keys, task, late>>
    BY <1>18 DEF Expire
  <2>2. ASSUME NEW u \in Users PROVE EvictionPending(u)' <=> EvictionPending(u)
    BY <2>1 DEF EvictionPending
  <2>3. ASSUME NEW u \in Users, NEW list, Fresh(u, list) PROVE FreshNext(u, list)
    BY <2>1, <2>2, <2>3 DEF Fresh, FreshNext, OfUser
  <2>4. \A u \in Users : u \notin overtaken' => \A list \in cache'[u] : FreshNext(u, list)
    BY <1>1, <2>1, <2>3 DEF ListsInv, TypeOK
  <2>5. \A c \in Clients : \A u \in client'[c].user :
          client'[c].pc = "put" /\ c \notin late' => FreshNext(u, client'[c].list)
    <3>1. \A c \in Clients : client[c].user \subseteq Users
      BY <1>3 DEF Request
    <3> QED BY <1>1, <2>1, <2>3, <3>1 DEF ListsInv
  <2> QED BY <1>1, <2>1, <2>4, <2>5 DEF ListsInv, ListsNext
<1>19. CASE Restart
  <2>1. /\ cache' = [u \in Users |-> {}] /\ client' = [c \in Clients |-> Idle]
        /\ late' = {} /\ keys' = [v \in Events |-> {}]
    BY <1>19 DEF Restart
  <2>2. \A c \in Clients : client'[c].user = {}
    BY <2>1 DEF Idle
  <2> QED BY <2>1, <2>2 DEF ListsInv, ListsNext
<1>20. CASE UNCHANGED vars
  <2>1. UNCHANGED <<lists, client, keys, task, users, rows>>
    BY <1>20 DEF vars
  <2> QED BY <1>4, <2>1 DEF OfUser
<1> QED
  BY <1>5, <1>6, <1>7, <1>9, <1>10, <1>12, <1>13, <1>14, <1>15, <1>16, <1>17, <1>18, <1>19,
     <1>20 DEF Next, Work, Serve

(* A cached list of notifications is out of date only until the eviction   *)
(* under way, or because its reader was overtaken by one: whatever tasks,  *)
(* readers, deletions and restarts there are.                              *)
THEOREM StaleListsHaveCause == Spec => []StaleHasCause
<1>1. CacheInv => StaleHasCause
  BY DEF CacheInv, PipelineInv, TypeOK, ListsInv, StaleHasCause, Fresh
<1> QED
  BY <1>1, CacheInit, CacheStep, PTL DEF Spec

-----------------------------------------------------------------------------
(* The refinement.                                                         *)

Fates == [v \in Events |-> Fate(v)]

(* Once an event has a task, the stage of the task decides on its fate.    *)
LEMMA FateOfTask ==
  ASSUME PipelineInv, NEW v \in Events, task[v] # "none"
  PROVE  tx[v] = "committed"
  BY DEF PipelineInv, Submitted

(* A step that changes one event's transaction or task changes one fate.   *)
LEMMA OneFate ==
  ASSUME NEW v \in Events, \A w \in Events \ {v} : tx'[w] = tx[w] /\ task'[w] = task[w]
  PROVE  Fates' = [Fates EXCEPT ![v] = Fate(v)']
<1>1. ASSUME NEW w \in Events \ {v}
      PROVE  Fate(w)' = Fate(w)
  <2>1. tx'[w] = tx[w] /\ task'[w] = task[w]
    OBVIOUS
  <2> QED
    BY <2>1 DEF Fate, Outcome
<1> QED
  BY <1>1 DEF Fates

LEMMA SameFates ==
  ASSUME UNCHANGED <<tx, task>>
  PROVE  Fates' = Fates
  BY DEF Fates, Fate, Outcome

LEMMA InitRefines == Init => Delivery!Init
  BY DEF Init, Delivery!Init, Fate, Outcome

LEMMA StepRefines == PipelineInv /\ [Next]_vars => [Delivery!Next]_(Delivery!delivery)
<1> SUFFICES ASSUME PipelineInv, [Next]_vars
             PROVE  Delivery!Next \/ UNCHANGED <<users, Fates, receivers, rows>>
  BY DEF Delivery!delivery, Fates
<1> USE DEF tables, lists
<1> DEFINE Stutters == UNCHANGED <<users, Fates, receivers, rows>>
<1>1. ASSUME NEW v \in Events, NEW u \in Users, CreateMessage(v, u) \/ UpdateRole(v, u)
      PROVE  Delivery!Next
  <2>1. /\ tx[v] = "idle" /\ tx' = [tx EXCEPT ![v] = "open"] /\ task' = task
        /\ UNCHANGED <<users, rows>>
    BY <1>1 DEF CreateMessage, UpdateRole, AtPublication
  <2>2. \E who \in SUBSET users : receivers' = [receivers EXCEPT ![v] = who]
    BY <1>1 DEF CreateMessage, UpdateRole, ReceiversOf
  <2>3. Fate(v) = "idle" /\ Fate(v)' = "open"
    BY <2>1 DEF Fate, Outcome, PipelineInv, TypeOK
  <2>4. Fates' = [Fates EXCEPT ![v] = "open"]
    BY <2>1, <2>3, OneFate DEF PipelineInv, TypeOK
  <2>5. Delivery!Publish(v)
    BY <2>1, <2>2, <2>3, <2>4 DEF Delivery!Publish, Delivery!Becomes, Fates
  <2> QED
    BY <2>5 DEF Delivery!Next
<1>2. ASSUME NEW v \in Events, Commit(v) \/ Rollback(v)
      PROVE  Delivery!Next
  <2>1. tx[v] = "open" /\ task[v] = "none" /\ UNCHANGED <<users, receivers, rows>>
    BY <1>2, FateOfTask DEF Commit, Rollback
  <2>2. \A w \in Events \ {v} : tx'[w] = tx[w] /\ task'[w] = task[w]
    BY <1>2 DEF Commit, Rollback, AtCommit, PipelineInv, TypeOK
  <2>3. Fate(v) = "open" /\ Fate(v)' \in {"pending", "aborted"}
    BY <1>2, <2>1 DEF Commit, Rollback, AtCommit, Fate, Outcome, PipelineInv, TypeOK
  <2>4. Fates' = [Fates EXCEPT ![v] = Fate(v)']
    BY <2>2, OneFate
  <2>5. Delivery!Settle(v)
    BY <2>1, <2>3, <2>4 DEF Delivery!Settle, Delivery!Becomes, Fates
  <2> QED
    BY <2>5 DEF Delivery!Next
<1>3. ASSUME NEW v \in Events, Work(v)
      PROVE  Delivery!Next \/ Stutters
  <2>1. task[v] # "none" /\ tx' = tx /\ UNCHANGED <<users, receivers>>
    BY <1>3 DEF Work, TaskStart, TaskTells, TaskThrows, TaskCommits, TaskRefused,
                TaskEvicts, TaskEnds, TaskStep
  <2>2. tx[v] = "committed"
    BY <2>1, FateOfTask
  <2>3. \A w \in Events \ {v} : tx'[w] = tx[w] /\ task'[w] = task[w]
    BY <1>3, <2>1 DEF Work, TaskStart, TaskTells, TaskThrows, TaskCommits, TaskRefused,
                TaskEvicts, TaskEnds, TaskStep, PipelineInv, TypeOK
  <2>4. Fates' = [Fates EXCEPT ![v] = Fate(v)']
    BY <2>3, OneFate
  <2>5. CASE TaskStart(v) \/ TaskTells(v) \/ TaskEvicts(v) \/ TaskEnds(v)
    <3>1. Fate(v)' = Fate(v) /\ rows' = rows
      BY <2>1, <2>2, <2>5 DEF TaskStart, TaskTells, TaskEvicts, TaskEnds, TaskStep, Fate,
                              Outcome, PipelineInv, TypeOK
    <3>2. Fates' = Fates
      BY <2>4, <3>1 DEF Fates
    <3> QED
      BY <2>1, <3>1, <3>2
  <2>6. CASE TaskThrows(v) \/ TaskRefused(v)
    <3>1. Fate(v) = "pending" /\ Fate(v)' = "dropped" /\ rows' = rows
      BY <2>1, <2>2, <2>6 DEF TaskThrows, TaskRefused, TaskStep, Fate, Outcome, PipelineInv, TypeOK
    <3>2. Delivery!Settle(v)
      BY <2>1, <2>4, <3>1 DEF Delivery!Settle, Delivery!Becomes, Fates
    <3> QED
      BY <3>2 DEF Delivery!Next
  <2>7. CASE TaskCommits(v)
    <3>1. /\ receivers[v] \subseteq users
          /\ rows' = rows \cup ({v} \X receivers[v])
      BY <2>7 DEF TaskCommits, Insertable
    <3>2. Fate(v) = "pending" /\ Fate(v)' = "delivered"
      BY <2>1, <2>2, <2>7 DEF TaskCommits, TaskStep, Fate, Outcome, PipelineInv, TypeOK
    <3>3. Delivery!Deliver(v)
      BY <2>1, <2>4, <3>1, <3>2 DEF Delivery!Deliver, Delivery!Becomes, Fates
    <3> QED
      BY <3>3 DEF Delivery!Next
  <2> QED
    BY <1>3, <2>5, <2>6, <2>7 DEF Work
<1>4. ASSUME NEW c \in Clients, Serve(c) \/ \E u \in Users : FindAll(c, u)
      PROVE  Stutters
  BY <1>4, SameFates DEF Serve, Query, Put, Evict, FindAll
<1>5. ASSUME NEW c \in Clients, NEW n \in Notifications, Delete(c, n)
      PROVE  Delivery!Next
  <2>1. n \in rows /\ rows' = rows \ {n} /\ UNCHANGED <<users, tx, task, receivers>>
    BY <1>5 DEF Delete
  <2>2. Delivery!Remove(n)
    BY <2>1, SameFates DEF Delivery!Remove, Fates
  <2> QED
    BY <2>1, <2>2 DEF Delivery!Next
<1>6. ASSUME NEW u \in Users, DeleteUser(u)
      PROVE  Delivery!Next
  <2>1. /\ users' = users \ {u} /\ rows' = {n \in rows : n[2] # u}
        /\ UNCHANGED <<tx, task, receivers>>
    BY <1>6 DEF DeleteUser, OfUser
  <2>2. Delivery!CloseAccount(u)
    BY <2>1, SameFates DEF Delivery!CloseAccount, Fates
  <2> QED
    BY <2>2 DEF Delivery!Next
<1>7. ASSUME NEW u \in Users, Toggle(u) \/ Expire(u)
      PROVE  Stutters
  BY <1>7, SameFates DEF Toggle, Expire
<1>8. CASE Restart
  <2>1. /\ tx' = [v \in Events |-> IF tx[v] = "open" THEN "rolledBack" ELSE tx[v]]
        /\ task' = [v \in Events |-> AfterRestart(v)]
        /\ UNCHANGED <<users, rows, receivers>>
    BY <1>8 DEF Restart
  <2>2. ASSUME NEW v \in Events
        PROVE  Fate(v)' = Delivery!AfterCrash(Fate(v))
    <3>1. CASE task[v] = "none"
      <4>1. task'[v] = "none"
        BY <2>1, <3>1 DEF AfterRestart
      <4>2. tx[v] \in {"idle", "open", "committed", "rolledBack"}
        BY DEF PipelineInv, TypeOK
      <4>3. CASE tx[v] = "open"
        <5>1. tx'[v] = "rolledBack"
          BY <2>1, <4>3
        <5> QED
          BY <4>3, <5>1 DEF Fate, Delivery!AfterCrash
      <4>4. CASE tx[v] # "open"
        <5>1. tx'[v] = tx[v]
          BY <2>1, <4>4
        <5> QED
          BY <3>1, <4>2, <4>4, <5>1 DEF Fate, Delivery!AfterCrash, PipelineInv, Submitted
      <4> QED
        BY <4>3, <4>4
    <3>2. CASE task[v] # "none"
      <4>1. tx[v] = "committed"
        BY <3>2, FateOfTask
      <4> QED
        BY <2>1, <3>2, <4>1 DEF Fate, Outcome, AfterRestart, Delivery!AfterCrash, PipelineInv, TypeOK
    <3> QED
      BY <3>1, <3>2
  <2>3. Delivery!Crash
    BY <2>1, <2>2 DEF Delivery!Crash
  <2> QED
    BY <2>3 DEF Delivery!Next
<1>9. CASE UNCHANGED vars
  BY <1>9, SameFates DEF vars
<1> QED
  BY <1>1, <1>2, <1>3, <1>4, <1>5, <1>6, <1>7, <1>8, <1>9 DEF Next, Publish

(* The pipeline of pool, transactions and foreign key implements the       *)
(* delivery that notifications promise, for any users, events, clients and *)
(* bounds.                                                                 *)
THEOREM PipelineDelivers == Spec => DeliverySpec
<1>1. Spec => Delivery!Spec
  BY InitRefines, StepRefines, PipelineInductive, PTL DEF Spec, Delivery!Spec
<1> QED
  BY <1>1 DEF DeliverySpec
=============================================================================
