------------------------ MODULE NotificationPipeline ------------------------
(***************************************************************************)
(* From an event to the list a user sees.  A message or a role change      *)
(* publishes a NotificationCreateEvent in its transaction; after the       *)
(* commit a pool thread stores one notification per receiver, pushes it on *)
(* the SSE streams and, after its own commit, evicts the cached lists.     *)
(* Lists are read through the cache "notifications", by user.              *)
(*                                                                         *)
(* A notification is the pair of its event and its receiver.               *)
(***************************************************************************)
EXTENDS FiniteSets, Naturals

CONSTANTS
  Users,
  Events,        \* transactions that publish a NotificationCreateEvent
  Clients,       \* requests to /api/notifications that may be in flight
  MaxBusy,       \* bound: clients and pool tasks between two steps at a time
  MaxRestarts    \* bound: restarts of the server

ASSUME PipelineConstants == MaxBusy \in Nat /\ MaxRestarts \in Nat

VARIABLES
  users,        \* accounts in the users table
  enabled,      \* read statuses of the channel with notificationEnabled
  tx,           \* event -> the transaction that publishes it
  receivers,    \* event -> NotificationCreateEvent.receivers
  task,         \* event -> its task in propagatingExecutor
  keys,         \* event -> users whose cached list its task has still to evict
  rows,         \* the notifications table
  cache,        \* user -> cached list, if there is one
  client,       \* client -> its request
  deleted,      \* history: notifications their user deleted
  late,         \* history: readers whose key was evicted since their query
  overtaken,    \* history: users whose cached list such a reader has put
  restarts

vars == <<users, enabled, tx, receivers, task, keys, rows, cache, client, deleted,
          late, overtaken, restarts>>
tables == <<users, enabled, rows>>
lists == <<cache, late, overtaken>>

Notifications == Events \X Users
OfUser(table, u) == {n \in table : n[2] = u}

Idle == [pc |-> "idle", user |-> {}, list |-> {}]

Init ==
  /\ users = Users /\ enabled \in SUBSET Users
  /\ tx = [v \in Events |-> "idle"] /\ receivers = [v \in Events |-> {}]
  /\ task = [v \in Events |-> "none"] /\ keys = [v \in Events |-> {}]
  /\ rows = {} /\ cache = [u \in Users |-> {}]
  /\ client = [c \in Clients |-> Idle]
  /\ deleted = {} /\ late = {} /\ overtaken = {} /\ restarts = 0

TaskAtRest(v) == task[v] \in {"none", "queued", "done", "failed", "lost"}
MayStart ==
  Cardinality({c \in Clients : client[c].pc # "idle"}) +
  Cardinality({v \in Events : ~TaskAtRest(v)}) < MaxBusy

-----------------------------------------------------------------------------
(* The publishing transactions.                                            *)

(* Everybody who wants to know of the channel's messages, but the author.  *)
ReceiversOf(author) == (enabled \cap users) \ {author}

(* The listener waits for the commit: TransactionPhase.AFTER_COMMIT.       *)
AtPublicationQueued(v) == [task EXCEPT ![v] = "queued"]  \* mutant: it does not wait
AtPublication(v) == task
AtCommitNothing(v) == task                   \* mutant: it does not hear of the commit
AtCommit(v) == [task EXCEPT ![v] = "queued"]

CreateMessage(v, author) ==
  /\ tx[v] = "idle" /\ author \in users
  /\ tx' = [tx EXCEPT ![v] = "open"]
  /\ receivers' = [receivers EXCEPT ![v] = ReceiversOf(author)]
  /\ task' = AtPublication(v)
  /\ UNCHANGED <<tables, keys, lists, client, deleted, restarts>>

UpdateRole(v, u) ==
  /\ tx[v] = "idle" /\ u \in users
  /\ tx' = [tx EXCEPT ![v] = "open"]
  /\ receivers' = [receivers EXCEPT ![v] = {u}]
  /\ task' = AtPublication(v)
  /\ UNCHANGED <<tables, keys, lists, client, deleted, restarts>>

Commit(v) ==
  /\ tx[v] = "open"
  /\ tx' = [tx EXCEPT ![v] = "committed"]
  /\ task' = AtCommit(v)
  /\ UNCHANGED <<tables, receivers, keys, lists, client, deleted, restarts>>

(* A constraint, an exception after the publication, a lost connection.    *)
Rollback(v) ==
  /\ tx[v] = "open"
  /\ tx' = [tx EXCEPT ![v] = "rolledBack"]
  /\ UNCHANGED <<tables, receivers, task, keys, lists, client, deleted, restarts>>

-----------------------------------------------------------------------------
(* BasicNotificationService.create in a pool thread.                       *)

TaskStep(v, from, to) == task[v] = from /\ task' = [task EXCEPT ![v] = to]

TaskStart(v) ==
  /\ TaskStep(v, "queued", "telling") /\ MayStart
  /\ UNCHANGED <<tables, tx, receivers, keys, lists, client, deleted, restarts>>

(* sendNotification, for every receiver, before the commit.                *)
TaskTells(v) ==
  /\ TaskStep(v, "telling", "saving")
  /\ UNCHANGED <<tables, tx, receivers, keys, lists, client, deleted, restarts>>

(* It throws when a stream of a receiver was completed meanwhile.          *)
TaskThrows(v) ==
  /\ TaskStep(v, "telling", "failed")
  /\ UNCHANGED <<tables, tx, receivers, keys, lists, client, deleted, restarts>>

(* One transaction inserts the notifications of all receivers; the foreign *)
(* key refuses it if one of them is gone.                                  *)
Insertable(v) == receivers[v] \subseteq users

ToEvictEnabled(v) == receivers[v] \cap enabled  \* mutant: a role change is forgotten
ToEvict(v) == receivers[v]

TaskCommits(v) ==
  /\ Insertable(v)
  /\ TaskStep(v, "saving", "evicting")
  /\ rows' = rows \cup ({v} \X receivers[v])
  /\ keys' = [keys EXCEPT ![v] = ToEvict(v)]
  /\ UNCHANGED <<users, enabled, tx, receivers, lists, client, deleted, restarts>>

TaskRefused(v) ==
  /\ ~ Insertable(v)
  /\ TaskStep(v, "saving", "failed")
  /\ UNCHANGED <<tables, tx, receivers, keys, lists, client, deleted, restarts>>

(* onNotificationChange, one user after the other.  Readers that have      *)
(* queried already put their lists later.                                  *)
EvictedRest(who) == [u \in who |-> {}]       \* mutant: the other keys are lost
Evicted(who) == [u \in Users |-> IF u \in who THEN {} ELSE cache[u]]

Evicts(who) ==
  /\ cache' = Evicted(who)
  /\ late' = late \cup {c \in Clients : client[c].pc = "put" /\ client[c].user \cap who # {}}
  /\ overtaken' = overtaken \ who

TaskEvicts(v) ==
  /\ task[v] = "evicting"
  /\ \E u \in keys[v] :
       Evicts({u}) /\ keys' = [keys EXCEPT ![v] = @ \ {u}]
  /\ UNCHANGED <<tables, tx, receivers, task, client, deleted, restarts>>

TaskEnds(v) ==
  /\ TaskStep(v, "evicting", "done") /\ keys[v] = {}
  /\ UNCHANGED <<tables, tx, receivers, keys, lists, client, deleted, restarts>>

-----------------------------------------------------------------------------
(* GET and DELETE of /api/notifications.                                   *)

(* @Cacheable looks the key up and, on a miss, calls the method.           *)
FindAll(c, u) ==
  /\ client[c].pc = "idle" /\ MayStart /\ u \in users /\ cache[u] = {}
  /\ client' = [client EXCEPT ![c] = [Idle EXCEPT !.pc = "query", !.user = {u}]]
  /\ UNCHANGED <<tables, tx, receivers, task, keys, lists, deleted, restarts>>

Query(c) ==
  /\ client[c].pc = "query"
  /\ client' = [client EXCEPT ![c].pc = "put",
                  ![c].list = UNION {OfUser(rows, u) : u \in client[c].user}]
  /\ UNCHANGED <<tables, tx, receivers, task, keys, lists, deleted, restarts>>

Put(c) ==
  /\ client[c].pc = "put"
  /\ cache' = [u \in Users |-> IF u \in client[c].user
                                 THEN {client[c].list} ELSE cache[u]]
  /\ client' = [client EXCEPT ![c] = Idle]
  /\ late' = late \ {c}
  /\ overtaken' = IF c \in late THEN overtaken \cup client[c].user
                                ELSE overtaken \ client[c].user
  /\ UNCHANGED <<tables, tx, receivers, task, keys, deleted, restarts>>

Delete(c, n) ==
  /\ client[c].pc = "idle" /\ MayStart /\ n \in rows
  /\ rows' = rows \ {n}
  /\ deleted' = deleted \cup {n}
  /\ client' = [client EXCEPT ![c] = [Idle EXCEPT !.pc = "evict", !.user = {n[2]}]]
  /\ UNCHANGED <<users, enabled, tx, receivers, task, keys, lists, restarts>>

Evict(c) ==
  /\ client[c].pc = "evict"
  /\ Evicts(client[c].user)
  /\ client' = [client EXCEPT ![c] = Idle]
  /\ UNCHANGED <<tables, tx, receivers, task, keys, deleted, restarts>>

-----------------------------------------------------------------------------
(* Around the pipeline.                                                    *)

(* The notifications and read statuses of an account go with it (ON DELETE *)
(* CASCADE), its cached list does not.                                     *)
DeleteUser(u) ==
  /\ u \in users
  /\ users' = users \ {u} /\ enabled' = enabled \ {u}
  /\ rows' = rows \ OfUser(rows, u)
  /\ UNCHANGED <<tx, receivers, task, keys, lists, client, deleted, restarts>>

(* ReadStatus.notificationEnabled is switched.                             *)
Toggle(u) ==
  /\ u \in users
  /\ enabled' = IF u \in enabled THEN enabled \ {u} ELSE enabled \cup {u}
  /\ UNCHANGED <<users, rows, tx, receivers, task, keys, lists, client, deleted, restarts>>

(* expireAfterWrite, expireAfterAccess, maximumSize.                       *)
Expire(u) ==
  /\ cache[u] # {}
  /\ cache' = [cache EXCEPT ![u] = {}]
  /\ overtaken' = overtaken \ {u}
  /\ UNCHANGED <<tables, tx, receivers, task, keys, client, deleted, late, restarts>>

(* The queue of the pool, the cache and open transactions are in memory.   *)
AfterRestart(v) ==
  CASE task[v] \in {"none", "done", "failed"} -> task[v]
    [] task[v] = "evicting" -> "done"
    [] OTHER -> "lost"

Restart ==
  /\ restarts < MaxRestarts
  /\ restarts' = restarts + 1
  /\ tx' = [v \in Events |-> IF tx[v] = "open" THEN "rolledBack" ELSE tx[v]]
  /\ task' = [v \in Events |-> AfterRestart(v)]
  /\ keys' = [v \in Events |-> {}]
  /\ cache' = [u \in Users |-> {}] /\ client' = [c \in Clients |-> Idle]
  /\ late' = {} /\ overtaken' = {}
  /\ UNCHANGED <<tables, receivers, deleted>>

Publish(v) == \E u \in Users : CreateMessage(v, u) \/ UpdateRole(v, u)

Work(v) == TaskStart(v) \/ TaskTells(v) \/ TaskThrows(v) \/ TaskCommits(v)
           \/ TaskRefused(v) \/ TaskEvicts(v) \/ TaskEnds(v)

Serve(c) == Query(c) \/ Put(c) \/ Evict(c)

Next ==
  \/ \E v \in Events : Publish(v) \/ Commit(v) \/ Rollback(v) \/ Work(v)
  \/ \E c \in Clients : \/ Serve(c)
                        \/ \E u \in Users : FindAll(c, u)
                        \/ \E n \in Notifications : Delete(c, n)
  \/ \E u \in Users : DeleteUser(u) \/ Toggle(u) \/ Expire(u)
  \/ Restart

Spec == Init /\ [][Next]_vars

(* Pool and servlet threads are scheduled.                                 *)
Fairness ==
  /\ \A v \in Events : WF_vars(Work(v))
  /\ \A c \in Clients : WF_vars(Serve(c))

FairSpec == Spec /\ Fairness

-----------------------------------------------------------------------------
(* Properties.                                                             *)

(* Every variable keeps its type.                                          *)
TypeOK ==
  /\ users \subseteq Users /\ enabled \subseteq Users
  /\ tx \in [Events -> {"idle", "open", "committed", "rolledBack"}]
  /\ receivers \in [Events -> SUBSET Users]
  /\ task \in [Events -> {"none", "queued", "telling", "saving", "evicting", "done",
                          "failed", "lost"}]
  /\ keys \in [Events -> SUBSET Users]
  /\ rows \subseteq Notifications /\ deleted \subseteq Notifications
  /\ cache \in [Users -> SUBSET SUBSET Notifications]
  /\ client \in [Clients -> [pc : {"idle", "query", "put", "evict"},
                             user : SUBSET Users, list : SUBSET Notifications]]
  /\ late \subseteq Clients /\ overtaken \subseteq Users
  /\ restarts \in 0 .. MaxRestarts

(* Nothing is stored for a message or role change that was rolled back.    *)
OnlyCommittedNotify == \A n \in rows : tx[n[1]] = "committed"

(* A notification that its user deleted does not come back.                *)
DeletedStaysDeleted == rows \cap deleted = {}

(* No notification outlives its receiver, in whatever order the account is *)
(* deleted and the pool stores the notification.                           *)
ReceiverExists == \A n \in rows : n[2] \in users

(* Somebody who changed the user's rows is on the way to evict the list.   *)
EvictionPending(u) ==
  \/ \E v \in Events : u \in keys[v]
  \/ \E c \in Clients : client[c].pc = "evict" /\ u \in client[c].user

(* A cached list differs from the table only as long as the eviction is    *)
(* still to come, or if it was put by a reader that had queried before the *)
(* last eviction: a list read in time is never out of date for longer than *)
(* it takes to evict it.  (Lists of deleted accounts are left behind.)     *)
StaleHasCause ==
  \A u \in users : \A list \in cache[u] :
    list = OfUser(rows, u) \/ EvictionPending(u) \/ u \in overtaken

(* A committed event reaches each receiver, unless a receiver's account is *)
(* deleted, the push on a stream throws, or a restart loses the queue: no  *)
(* event is dropped on the way to the pool or in it.                       *)
CommittedIsHandled ==
  \A v \in Events : tx[v] = "committed" ~>
    \/ task[v] \in {"failed", "lost"}
    \/ \A u \in receivers[v] : u \notin users \/ <<v, u>> \in rows \cup deleted

(* What became of an event, for its receivers.                             *)
Outcome(v) ==
  CASE task[v] \in {"evicting", "done"} -> "delivered"
    [] task[v] \in {"failed", "lost"} -> "dropped"
    [] OTHER -> "pending"

Fate(v) ==
  CASE tx[v] = "committed" -> Outcome(v)
    [] tx[v] = "rolledBack" -> "aborted"
    [] OTHER -> tx[v]

Delivery == INSTANCE NotificationDelivery WITH
  accounts <- users,
  fate <- [v \in Events |-> Fate(v)],
  addressees <- receivers,
  inbox <- rows

(* Pool, transactions and foreign key together deliver each event once and *)
(* to all its receivers or to none, whatever the streams, the deletions of *)
(* accounts and a restart do.                                              *)
DeliverySpec == Delivery!Spec
=============================================================================
