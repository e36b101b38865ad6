--------------------------- MODULE ChannelDirectory ---------------------------
(***************************************************************************)
(* Public and private channels, the read statuses that make an account a   *)
(* participant, and the cache "channels" that keeps for each account the   *)
(* list of the channels it sees.  Requests run concurrently; one step is   *)
(* what a thread does up to a query, a commit or an access to the cache.   *)
(*                                                                         *)
(* An entry of a list is a channel with its name; a name is known by how   *)
(* often it was changed.                                                   *)
(***************************************************************************)
EXTENDS FiniteSets, Naturals

CONSTANTS
  Users,
  Channels,      \* channels ever created
  Requests,      \* requests that may be in flight together
  MaxRenames     \* bound: changes of a channel's name

ASSUME DirectoryConstants == MaxRenames \in Nat

VARIABLES
  users,         \* accounts in the users table
  channels,      \* channel -> type of its row, or why there is none
  name,          \* channel -> its name
  statuses,      \* rows of read_statuses, each with the request that made it
  cache,         \* account -> cached list, if there is one
  req,           \* request -> what it is doing
  cause          \* history: <<u, c>> if the cache of u may be wrong about c

tables == <<users, channels, name, statuses>>
vars == <<users, channels, name, statuses, cache, req, cause>>

Types == {"PUBLIC", "PRIVATE"}
Existing == {c \in Channels : channels[c] \in Types}
OfType(t) == {c \in Channels : channels[c] = t}
Members(c) == {s.user : s \in {x \in statuses : x.channel = c}}
JoinedBy(u) == {s.channel : s \in {x \in statuses : x.user = u}}

Entry(c) == <<c, name[c]>>
Entries == Channels \X (0 .. MaxRenames)

Stages == {"idle", "pushPublic", "evictAll", "pushPrivate", "commitPrivate", "pushDelete",
           "commitDelete", "evict", "commitStatus", "public", "private", "put"}
Idle == [pc |-> "idle", channel |-> {}, who |-> {}, list |-> {}]

Init ==
  /\ users = Users
  /\ channels = [c \in Channels |-> "none"] /\ name = [c \in Channels |-> 0]
  /\ statuses = {} /\ cache = [u \in Users |-> {}]
  /\ req = [r \in Requests |-> Idle]
  /\ cause = {}

Goto(r, stage) == req' = [req EXCEPT ![r].pc = stage]
End(r) == req' = [req EXCEPT ![r] = Idle]
Begin(r, stage, c, who) ==
  /\ req[r].pc = "idle"
  /\ req' = [req EXCEPT ![r] = [Idle EXCEPT !.pc = stage, !.channel = {c}, !.who = who]]

(* A channel in creation has no row that others see.                       *)
Fresh(c) == channels[c] = "none" /\ \A r \in Requests : c \notin req[r].channel

-----------------------------------------------------------------------------
(* The cache.                                                              *)

(* Requests that looked for the list of u and have not put it yet.         *)
Reading(u) ==
  \E r \in Requests : req[r].pc \in {"public", "private", "put"} /\ u \in req[r].who

EvictedRest(who) == [u \in who |-> {}]   \* mutant: the other keys are lost
Evicted(who) == [u \in Users |-> IF u \in who THEN {} ELSE cache[u]]

Overtaken(who, cs) == {u \in who : Reading(u)} \X cs

Expire(u) ==
  /\ cache[u] # {}
  /\ cache' = Evicted({u})
  /\ UNCHANGED <<tables, req, cause>>

-----------------------------------------------------------------------------
(* createChannelPublic has no transaction of its own: save commits, then   *)
(* the refresh events are sent, then @CacheEvict clears the cache.         *)

CreatePublic(r, c) ==
  /\ Fresh(c) /\ Begin(r, "pushPublic", c, {})
  /\ channels' = [channels EXCEPT ![c] = "PUBLIC"]
  /\ UNCHANGED <<users, name, statuses, cache, cause>>

PushPublic(r) == req[r].pc = "pushPublic" /\ Goto(r, "evictAll")
                 /\ UNCHANGED <<tables, cache, cause>>

(* A completed stream: the exception skips the eviction.                   *)
PushPublicThrows(r) ==
  /\ req[r].pc = "pushPublic"
  /\ cause' = cause \cup (Users \X req[r].channel)
  /\ End(r)
  /\ UNCHANGED <<tables, cache>>

EvictAll(r) ==
  /\ req[r].pc = "evictAll"
  /\ cache' = Evicted(Users)
  /\ cause' = cause \cup Overtaken(Users, req[r].channel)
  /\ End(r)
  /\ UNCHANGED tables

-----------------------------------------------------------------------------
(* createChannelPrivate, in one transaction; its listener evicts the lists *)
(* of the participants after the commit.                                   *)

(* @Size(min = 2); readStatusService.create looks each participant up.     *)
CreatePrivate(r, c, who) ==
  /\ Fresh(c) /\ who \subseteq users /\ Cardinality(who) >= 2
  /\ Begin(r, "pushPrivate", c, who)
  /\ UNCHANGED <<tables, cache, cause>>

PushPrivate(r) == req[r].pc = "pushPrivate" /\ Goto(r, "commitPrivate")
                  /\ UNCHANGED <<tables, cache, cause>>

(* An exception of the push, a constraint: nothing is left of it.          *)
Rollback(r) ==
  /\ req[r].pc \in {"pushPrivate", "pushDelete", "commitPrivate", "commitDelete"}
  /\ End(r)
  /\ UNCHANGED <<tables, cache, cause>>

Rows(r, who, cs) == [user : who, channel : cs, by : {r}]

(* The foreign key of read_statuses refuses a participant that is gone.    *)
Insertable(r) == req[r].who \subseteq users

CommitPrivate(r) ==
  /\ req[r].pc = "commitPrivate" /\ Insertable(r)
  /\ channels' = [c \in Channels |-> IF c \in req[r].channel THEN "PRIVATE" ELSE channels[c]]
  /\ statuses' = statuses \cup Rows(r, req[r].who, req[r].channel)
  /\ Goto(r, "evict")
  /\ UNCHANGED <<users, name, cache, cause>>

(* onPrivateChannelCreate and onChannelDelete.                             *)
Evict(r) ==
  /\ req[r].pc = "evict"
  /\ cache' = Evicted(req[r].who)
  /\ cause' = cause \cup Overtaken(req[r].who, req[r].channel)
  /\ End(r)
  /\ UNCHANGED tables

-----------------------------------------------------------------------------
(* delete: the participants, read before the commit, are the ones whose    *)
(* lists are evicted; a public channel is in everybody's list.             *)

ListingMembers(c) == Members(c)   \* mutant: a public channel is not told apart
Listing(c) == IF channels[c] = "PUBLIC" THEN Users ELSE Members(c)

DeleteChannel(r, c) ==
  /\ c \in Existing
  /\ Begin(r, "pushDelete", c, Listing(c))
  /\ UNCHANGED <<tables, cache, cause>>

PushDelete(r) == req[r].pc = "pushDelete" /\ Goto(r, "commitDelete")
                 /\ UNCHANGED <<tables, cache, cause>>

(* The read statuses go with the channel; deleting it twice is a failure.  *)
CommitDelete(r) ==
  /\ req[r].pc = "commitDelete" /\ req[r].channel \subseteq Existing
  /\ channels' = [c \in Channels |-> IF c \in req[r].channel THEN "deleted" ELSE channels[c]]
  /\ statuses' = {s \in statuses : s.channel \notin req[r].channel}
  /\ cause' = cause \cup
       UNION {(Members(c) \ req[r].who) \X {c} : c \in req[r].channel}
  /\ Goto(r, "evict")
  /\ UNCHANGED <<users, name, cache>>

-----------------------------------------------------------------------------
(* update: a private channel has no name.  No cached list is evicted.      *)
Renameable(c) == channels[c] = "PUBLIC"

UpdateChannel(c) ==
  /\ Renameable(c) /\ name[c] < MaxRenames
  /\ name' = [name EXCEPT ![c] = @ + 1]
  /\ cause' = cause \cup (Users \X {c})
  /\ UNCHANGED <<users, channels, statuses, cache, req>>

-----------------------------------------------------------------------------
(* BasicReadStatusService.create, for oneself: the checks, then the commit *)
(* with its foreign keys and UNIQUE (channel_id, user_id).  It evicts      *)
(* nothing.                                                                *)

CreateReadStatus(r, u, c) ==
  /\ c \in Existing /\ u \in users /\ u \notin Members(c)
  /\ Begin(r, "commitStatus", c, {u})
  /\ UNCHANGED <<tables, cache, cause>>

Joinable(r) ==
  /\ req[r].channel \subseteq Existing /\ req[r].who \subseteq users
  /\ \A c \in req[r].channel : Members(c) \cap req[r].who = {}

CommitStatus(r) ==
  /\ req[r].pc = "commitStatus"
  /\ IF Joinable(r)
       THEN /\ statuses' = statuses \cup Rows(r, req[r].who, req[r].channel)
            /\ cause' = cause \cup (req[r].who \X req[r].channel)
       ELSE UNCHANGED <<statuses, cause>>
  /\ End(r)
  /\ UNCHANGED <<users, channels, name, cache>>

-----------------------------------------------------------------------------
(* findAllByUserId through @Cacheable: public and private channels are two *)
(* queries, with no transaction around them.                               *)

FindAll(r, u) ==
  /\ req[r].pc = "idle" /\ u \in users /\ cache[u] = {}
  /\ req' = [req EXCEPT ![r] = [Idle EXCEPT !.pc = "public", !.who = {u}]]
  /\ UNCHANGED <<tables, cache, cause>>

QueryPublic(r) ==
  /\ req[r].pc = "public"
  /\ req' = [req EXCEPT ![r].pc = "private",
                        ![r].list = {Entry(c) : c \in OfType("PUBLIC")}]
  /\ UNCHANGED <<tables, cache, cause>>

PrivateOfAll(u) == OfType("PRIVATE")   \* mutant: not only those of the account
PrivateOf(u) == OfType("PRIVATE") \cap JoinedBy(u)

QueryPrivate(r) ==
  /\ req[r].pc = "private"
  /\ req' = [req EXCEPT ![r].pc = "put",
       ![r].list = @ \cup {Entry(c) : c \in UNION {PrivateOf(u) : u \in req[r].who}}]
  /\ UNCHANGED <<tables, cache, cause>>

Put(r) ==
  /\ req[r].pc = "put"
  /\ cache' = [u \in Users |-> IF u \in req[r].who THEN {req[r].list} ELSE cache[u]]
  /\ End(r)
  /\ UNCHANGED <<tables, cause>>

-----------------------------------------------------------------------------
(* BasicUserService.delete: the read statuses go with the account.         *)
DeleteUser(u) ==
  /\ u \in users
  /\ users' = users \ {u}
  /\ statuses' = {s \in statuses : s.user # u}
  /\ UNCHANGED <<channels, name, cache, req, cause>>

Arrive(r) ==
  \/ \E c \in Channels : \/ CreatePublic(r, c) \/ DeleteChannel(r, c)
                         \/ \E who \in SUBSET Users : CreatePrivate(r, c, who)
                         \/ \E u \in Users : CreateReadStatus(r, u, c)
  \/ \E u \in Users : FindAll(r, u)

Proceed(r) ==
  \/ PushPublic(r) \/ PushPublicThrows(r) \/ EvictAll(r)
  \/ PushPrivate(r) \/ CommitPrivate(r) \/ PushDelete(r) \/ CommitDelete(r)
  \/ Rollback(r) \/ Evict(r) \/ CommitStatus(r)
  \/ QueryPublic(r) \/ QueryPrivate(r) \/ Put(r)

Next ==
  \/ \E r \in Requests : Arrive(r) \/ Proceed(r)
  \/ \E c \in Channels : UpdateChannel(c)
  \/ \E u \in Users : DeleteUser(u) \/ Expire(u)

Spec == Init /\ [][Next]_vars

-----------------------------------------------------------------------------
(* Properties.                                                             *)

(* Every variable keeps its type.                                          *)
TypeOK ==
  /\ users \subseteq Users
  /\ channels \in [Channels -> Types \cup {"none", "deleted"}]
  /\ name \in [Channels -> 0 .. MaxRenames]
  /\ statuses \subseteq [user : Users, channel : Channels, by : Requests]
  /\ cache \in [Users -> SUBSET SUBSET Entries]
  /\ \A u \in Users : Cardinality(cache[u]) <= 1
  /\ req \in [Requests -> [pc : Stages, channel : SUBSET Channels, who : SUBSET Users,
                           list : SUBSET Entries]]
  /\ cause \subseteq Users \X Channels

Visible(u) == {Entry(c) : c \in OfType("PUBLIC") \cup PrivateOf(u)}
Quiet == \A r \in Requests : req[r].pc = "idle"
Differences(a, b) == {e[1] : e \in (a \ b) \cup (b \ a)}

(* A cached list shows a private channel to its participants only.         *)
PrivateListedToMembers ==
  \A u \in users : \A list \in cache[u] : \A e \in list :
    channels[e[1]] = "PRIVATE" => u \in Members(e[1])

(* When no request is at work, a cached list differs from the tables for   *)
(* one of five reasons only: the channel was renamed, the account joined a *)
(* private channel later, an exception of the push skipped the eviction, a *)
(* deletion did not know of a participant that had just joined, or the     *)
(* list was read before an eviction and put after it.                      *)
WrongListHasCause ==
  Quiet => \A u \in users : \A list \in cache[u] :
    {u} \X Differences(list, Visible(u)) \subseteq cause
=============================================================================
