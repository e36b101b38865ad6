-------------------------- MODULE SseEmitterManager --------------------------
(***************************************************************************)
(* The connection map of the SSE streams and the threads that use it:      *)
(* servlet threads that subscribe, container threads that run an emitter's *)
(* callbacks, threads that send an event, and the ping scheduler.          *)
(*                                                                         *)
(* userConnections maps a user to a copy-on-write list.  A list is known   *)
(* by the emitter whose subscription created it, an Optional or a nullable *)
(* reference is a set of at most one element, and one step of the model is *)
(* one call on a concurrent collection.                                    *)
(***************************************************************************)
EXTENDS FiniteSets, Sequences, Naturals

CONSTANTS
  Users,
  Emitters,    \* streams ever opened; each has a thread for its subscription
               \* and, later, for its callback
  Senders,     \* calls of send, each with one event
  Ping,        \* the scheduler thread of sendPingToAllConnections
  FreshId,     \* an event id drawn at random for one delivery
  MaxBusy      \* bound: threads inside the manager at the same time

ASSUME SseConstants ==
  /\ Senders \cap Emitters = {} /\ Ping \notin Senders \cup Emitters
  /\ FreshId \notin Senders

VARIABLES
  userConnections,  \* user -> its list, if it is mapped
  heap,             \* list -> the emitters in it
  eventCache,       \* user -> events recorded for it, oldest first
  emitter,          \* emitter -> life of the stream and the user it is for
  thread,           \* what each thread is doing
  received,         \* history: what the client of each emitter was sent
  overlapped        \* history: emitters whose subscription met a removal

state == <<userConnections, heap, eventCache, emitter, thread, received>>
vars == <<state, overlapped>>

Threads == Emitters \cup Senders \cup {Ping}

(* A broken stream lost its client and nobody noticed; a failed one was    *)
(* completed with an error and its callback is still to come.              *)
Lives == {"new", "open", "broken", "failed", "complete"}

Stages == {"idle", "done", "add", "replay", "lookup", "cache", "copy", "deliver",
           "get", "drop", "check", "unmap"}

Idle == [pc |-> "idle", users |-> {}, at |-> {}, list |-> {}, todo |-> {},
         victim |-> {}, lastId |-> {}]

Lists == Emitters
Ids == Senders \cup {FreshId}

-----------------------------------------------------------------------------
Init ==
  /\ userConnections = [u \in Users |-> {}]
  /\ heap = [l \in Lists |-> {}]
  /\ eventCache = [u \in Users |-> <<>>]
  /\ emitter = [e \in Emitters |-> [life |-> "new", user |-> {}]]
  /\ thread = [t \in Threads |-> Idle]
  /\ received = [e \in Emitters |-> {}]
  /\ overlapped = {}

AtRest(t) == thread[t].pc \in {"idle", "done"}
MayStart == Cardinality({t \in Threads : ~AtRest(t)}) < MaxBusy
Goto(t, stage) == thread' = [thread EXCEPT ![t].pc = stage]
In(lists) == UNION {heap[l] : l \in lists}
Mapped == {u \in Users : userConnections[u] # {}}

-----------------------------------------------------------------------------
(* subscribe(userId, lastEventId): the id is one that a client of the user *)
(* got, or there is none.                                                  *)
IdsOf(u) == UNION {{r.id : r \in received[e]} :
                     e \in {x \in Emitters : u \in emitter[x].user}}

(* mutant: every subscription brings a list of its own *)
ComputeAlways(u, e) == userConnections[u] \cup {e}

ComputeIfAbsent(u, e) ==
  IF userConnections[u] = {} THEN {e} ELSE userConnections[u]

Subscribe(e, u, lastId) ==
  /\ emitter[e].life = "new" /\ MayStart
  /\ emitter' = [emitter EXCEPT ![e] = [life |-> "open", user |-> {u}]]
  /\ userConnections' = [userConnections EXCEPT ![u] = ComputeIfAbsent(u, e)]
  /\ thread' = [thread EXCEPT ![e] = [Idle EXCEPT !.pc = "add", !.at = {u},
                   !.list = ComputeIfAbsent(u, e), !.lastId = lastId]]
  /\ UNCHANGED <<heap, eventCache, received>>

SubscribeAdd(e) ==
  /\ thread[e].pc = "add"
  /\ heap' = [l \in Lists |-> IF l \in thread[e].list THEN heap[l] \cup {e} ELSE heap[l]]
  /\ Goto(e, "replay")
  /\ UNCHANGED <<userConnections, eventCache, emitter, received>>

(* The events recorded after the one with the given id.                    *)
After(events, ids) ==
  {events[i] : i \in {j \in DOMAIN events :
                        \E k \in 1 .. (j - 1) : events[k] \in ids}}

(* The stream has no client yet: what is sent to it is buffered.           *)
SubscribeReplay(e) ==
  /\ thread[e].pc = "replay"
  /\ received' = [received EXCEPT ![e] = @ \cup
       {[event |-> v, id |-> v] : v \in UNION {After(eventCache[u], thread[e].lastId) :
                                                 u \in thread[e].at}}]
  /\ thread' = [thread EXCEPT ![e] = Idle]
  /\ UNCHANGED <<userConnections, heap, eventCache, emitter>>

-----------------------------------------------------------------------------
(* The life of a stream outside the manager.                               *)

ClientLeaves(e) ==
  /\ emitter[e].life = "open" /\ AtRest(e)
  /\ emitter' = [emitter EXCEPT ![e].life = "broken"]
  /\ UNCHANGED <<userConnections, heap, eventCache, thread, received>>

(* The container completes the stream (end, timeout or error) and runs the *)
(* callback, which calls removeEmitter.                                    *)
Complete(e) ==
  /\ emitter[e].life \in {"open", "broken", "failed"} /\ AtRest(e) /\ MayStart
  /\ emitter' = [emitter EXCEPT ![e].life = "complete"]
  /\ thread' = [thread EXCEPT ![e] = [Idle EXCEPT !.pc = "get",
                   !.at = emitter[e].user, !.victim = {e}]]
  /\ UNCHANGED <<userConnections, heap, eventCache, received>>

-----------------------------------------------------------------------------
(* removeEmitter(userId, emitter), in a callback thread or inside a loop.  *)

Return(t) ==
  thread' = [thread EXCEPT ![t] =
    IF t \in Emitters THEN Idle
    ELSE [@ EXCEPT !.pc = "deliver", !.list = {}, !.victim = {}]]

RemoveGet(t) ==
  /\ thread[t].pc = "get"
  /\ LET list == UNION {userConnections[u] : u \in thread[t].at} IN
     IF list = {}
       THEN Return(t)
       ELSE thread' = [thread EXCEPT ![t].pc = "drop", ![t].list = list]
  /\ UNCHANGED <<userConnections, heap, eventCache, emitter, received>>

(* mutant: the emitter stays in the list *)
DropNothing(l, victims) == heap[l]

Drop(l, victims) == heap[l] \ victims

RemoveDrop(t) ==
  /\ thread[t].pc = "drop"
  /\ heap' = [l \in Lists |-> IF l \in thread[t].list
                                THEN Drop(l, thread[t].victim) ELSE heap[l]]
  /\ Goto(t, "check")
  /\ UNCHANGED <<userConnections, eventCache, emitter, received>>

(* mutant: the list leaves the map with the first of its streams *)
EmptiedAlways(list) == TRUE

Emptied(list) == In(list) = {}

RemoveCheck(t) ==
  /\ thread[t].pc = "check"
  /\ IF Emptied(thread[t].list) THEN Goto(t, "unmap") ELSE Return(t)
  /\ UNCHANGED <<userConnections, heap, eventCache, emitter, received>>

RemoveUnmap(t) ==
  /\ thread[t].pc = "unmap"
  /\ userConnections' = [u \in Users |-> IF u \in thread[t].at
                                           THEN {} ELSE userConnections[u]]
  /\ Return(t)
  /\ UNCHANGED <<heap, eventCache, emitter, received>>

-----------------------------------------------------------------------------
(* send, the refresh events that call it for several users, and the ping.  *)

(* sendNotification and sendFileUploadStatus name one user, a channel      *)
(* refresh names some, a users refresh takes the keys of the map.          *)
Send(s, users) ==
  /\ thread[s].pc = "idle" /\ MayStart
  /\ thread' = [thread EXCEPT ![s] = [Idle EXCEPT !.pc = "lookup", !.users = users]]
  /\ UNCHANGED <<userConnections, heap, eventCache, emitter, received>>

(* mutant: the ping reaches nobody *)
PingedNobody == {}

Pinged == Mapped

SendPing ==
  /\ thread[Ping].pc = "idle" /\ MayStart /\ Mapped # {}
  /\ thread' = [thread EXCEPT ![Ping] = [Idle EXCEPT !.pc = "lookup", !.users = Pinged]]
  /\ UNCHANGED <<userConnections, heap, eventCache, emitter, received>>

(* The scheduler starts over at the next rate, a send is over.             *)
Finish(t) ==
  thread' = [thread EXCEPT ![t] =
               [Idle EXCEPT !.pc = IF t = Ping THEN "idle" ELSE "done"]]

NextUser(t) ==
  IF thread[t].users = {}
    THEN Finish(t)
    ELSE thread' = [thread EXCEPT ![t] = [Idle EXCEPT !.pc = "lookup",
                                                      !.users = thread[t].users]]

Lookup(t) ==
  /\ thread[t].pc = "lookup"
  /\ IF thread[t].users = {}
       THEN Finish(t)
       ELSE \E u \in thread[t].users :
              thread' = [thread EXCEPT ![t] = [Idle EXCEPT
                !.pc = IF userConnections[u] = {} THEN "lookup"
                       ELSE IF t = Ping THEN "copy" ELSE "cache",
                !.users = thread[t].users \ {u}, !.at = {u},
                !.list = userConnections[u]]]
  /\ UNCHANGED <<userConnections, heap, eventCache, emitter, received>>

Remember(s, users) ==
  [u \in Users |-> IF u \in users THEN Append(eventCache[u], s) ELSE eventCache[u]]

(* A user with no stream at this moment misses the event, cache included.  *)
SendCache(s) ==
  /\ thread[s].pc = "cache"
  /\ IF In(thread[s].list) = {}
       THEN NextUser(s) /\ UNCHANGED eventCache
       ELSE Goto(s, "copy") /\ eventCache' = Remember(s, thread[s].at)
  /\ UNCHANGED <<userConnections, heap, emitter, received>>

(* The copy of the list that the loop goes through.                        *)
Copy(t) ==
  /\ thread[t].pc = "copy"
  /\ thread' = [thread EXCEPT ![t].pc = "deliver", ![t].todo = In(thread[t].list),
                              ![t].list = {}]
  /\ UNCHANGED <<userConnections, heap, eventCache, emitter, received>>

(* The id a client sees is drawn for the delivery.                         *)
IdSent(s) == FreshId

Deliver(t, e) ==
  /\ thread[t].pc = "deliver" /\ e \in thread[t].todo
  /\ emitter[e].life = "open"
  /\ thread' = [thread EXCEPT ![t].todo = @ \ {e}]
  /\ received' = IF t = Ping THEN received ELSE
       [received EXCEPT ![e] = @ \cup {[event |-> t, id |-> IdSent(t)]}]
  /\ UNCHANGED <<userConnections, heap, eventCache, emitter>>

(* completeWithError.                                                      *)
LifeAfterError(e) == "failed"

(* The catch block goes on with removeEmitter, then with the loop.         *)
Catch(t, e) == [thread[t] EXCEPT !.pc = "get", !.todo = @ \ {e}, !.victim = {e}]

(* IOException: the client is gone.                                        *)
DeliverFails(t, e) ==
  /\ thread[t].pc = "deliver" /\ e \in thread[t].todo
  /\ emitter[e].life = "broken"
  /\ emitter' = [emitter EXCEPT ![e].life = LifeAfterError(e)]
  /\ thread' = [thread EXCEPT ![t] = Catch(t, e)]
  /\ UNCHANGED <<userConnections, heap, eventCache, received>>

(* IllegalStateException: the stream was completed since the copy.  It is  *)
(* not caught, and whoever called gets it.                                 *)
DeliverThrows(t, e) ==
  /\ thread[t].pc = "deliver" /\ e \in thread[t].todo
  /\ emitter[e].life \in {"failed", "complete"}
  /\ Finish(t)
  /\ UNCHANGED <<userConnections, heap, eventCache, emitter, received>>

LoopEnd(t) ==
  /\ thread[t].pc = "deliver" /\ thread[t].todo = {}
  /\ NextUser(t)
  /\ UNCHANGED <<userConnections, heap, eventCache, emitter, received>>

-----------------------------------------------------------------------------
Proceed(t) ==
  \/ t \in Emitters /\ (SubscribeAdd(t) \/ SubscribeReplay(t))
  \/ RemoveGet(t) \/ RemoveDrop(t) \/ RemoveCheck(t) \/ RemoveUnmap(t)
  \/ Lookup(t) \/ Copy(t) \/ LoopEnd(t)
  \/ t \in Senders /\ SendCache(t)
  \/ \E e \in Emitters : Deliver(t, e) \/ DeliverFails(t, e) \/ DeliverThrows(t, e)

Start ==
  \/ \E e \in Emitters, u \in Users :
       \E lastId \in {{}} \cup {{i} : i \in IdsOf(u)} : Subscribe(e, u, lastId)
  \/ \E s \in Senders :
       \/ \E u \in Users : Send(s, {u})
       \/ Send(s, Mapped)
  \/ SendPing

Step ==
  \/ \E t \in Threads : Proceed(t)
  \/ Start
  \/ \E e \in Emitters : ClientLeaves(e) \/ Complete(e)

(* Subscriptions between computeIfAbsent and add while a removal of the    *)
(* same user is between its get and its remove.                            *)
Overlapping ==
  {e \in Emitters : /\ thread[e].pc = "add"
                    /\ \E t \in Threads : /\ thread[t].pc \in {"drop", "check", "unmap"}
                                          /\ thread[t].at = thread[e].at}

Next == Step /\ overlapped' = overlapped \cup Overlapping'

Spec == Init /\ [][Next]_vars

(* Threads are scheduled, the ping is run at its rate, and the container   *)
(* calls back for a stream that was completed with an error.               *)
Fairness ==
  /\ \A t \in Threads : WF_state(Proceed(t))
  /\ WF_state(SendPing)
  /\ \A e \in Emitters : WF_state(emitter[e].life = "failed" /\ Complete(e))

FairSpec == Spec /\ Fairness

-----------------------------------------------------------------------------
(* Properties.                                                             *)

(* Every variable keeps its type, and a user has one list.                 *)
TypeOK ==
  /\ userConnections \in [Users -> SUBSET Lists]
  /\ \A u \in Users : Cardinality(userConnections[u]) <= 1
  /\ heap \in [Lists -> SUBSET Emitters]
  /\ eventCache \in [Users -> Seq(Senders)]
  /\ emitter \in [Emitters -> [life : Lives, user : SUBSET Users]]
  /\ thread \in [Threads -> [pc : Stages, users : SUBSET Users, at : SUBSET Users,
       list : SUBSET Lists, todo : SUBSET Emitters, victim : SUBSET Emitters,
       lastId : SUBSET Ids]]
  /\ received \in [Emitters -> SUBSET [event : Senders, id : Ids]]
  /\ overlapped \subseteq Emitters

Quiet == \A t \in Threads : AtRest(t)
Reachable(e) == \E u \in emitter[e].user : e \in In(userConnections[u])

(* When no thread is at work, no list holds a stream whose callback ran:   *)
(* the callbacks leave nothing behind.                                     *)
NoDeadRetained == Quiet => \A e \in Emitters : emitter[e].life = "complete" => ~Reachable(e)

(* When no thread is at work, an open stream is in the list its user is    *)
(* mapped to, where the next event and the ping find it, unless its own    *)
(* subscription overlapped a removal of the same user: one that found the  *)
(* list empty before the stream was added, or still looked at a list that  *)
(* had left the map and removed the one that replaced it.                  *)
LostHasCause ==
  Quiet => \A e \in Emitters :
    emitter[e].life = "open" => Reachable(e) \/ e \in overlapped

(* A stream whose client is gone is dropped: the ping finds it.            *)
BrokenIsDropped ==
  \A e \in Emitters : emitter[e].life = "broken" ~> ~Reachable(e)
=============================================================================
