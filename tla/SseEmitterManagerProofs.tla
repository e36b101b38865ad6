------------------------ MODULE SseEmitterManagerProofs ------------------------
(***************************************************************************)
(* Proofs about SseEmitterManager, for any users, streams, senders and     *)
(* threads at work at once.                                                *)
(***************************************************************************)
EXTENDS SseEmitterManager, FiniteSetTheorems, TLAPS

(* Sets of at most one element: optionals and nullable references.         *)
Few(S) == {X \in SUBSET S : \A x, y \in X : x = y}

Records == [pc : Stages, users : SUBSET Users, at : Few(Users), list : Few(Lists),
            todo : SUBSET Emitters, victim : SUBSET Emitters, lastId : SUBSET Ids]

(* What is cached and what was sent keep their types.                      *)
Archive ==
  /\ eventCache \in [Users -> Seq(Senders)]
  /\ received \in [Emitters -> SUBSET [event : Senders, id : Ids]]

(* The types the other conjuncts rest on.                                  *)
Types ==
  /\ userConnections \in [Users -> Few(Lists)]
  /\ heap \in [Lists -> SUBSET Emitters]
  /\ emitter \in [Emitters -> [life : Lives, user : Few(Users)]]
  /\ thread \in [Threads -> Records]
  /\ overlapped \subseteq Emitters

(* After get, a removal works with the list it got.                        *)
Removing == {"drop", "check", "unmap"}

(* What the thread of a stream does, and for whom; a removal never has an  *)
(* open stream for its victim.                                             *)
RoleInv ==
  /\ \A e \in Emitters :
       /\ thread[e].pc \in {"idle", "add", "replay", "get"} \cup Removing
       /\ thread[e].pc # "idle" => thread[e].at = emitter[e].user
       /\ thread[e].pc \in {"add", "replay"} => emitter[e].life = "open"
       /\ thread[e].pc \in {"get"} \cup Removing => emitter[e].life = "complete"
       /\ thread[e].pc \in {"get", "drop"} => e \in thread[e].victim
  /\ \A t \in Threads : \A e \in thread[t].victim : emitter[e].life \in {"failed", "complete"}

(* The list of a stream that was never subscribed is nowhere.              *)
NewInv ==
  \A l \in Emitters : emitter[l].life = "new" =>
    /\ heap[l] = {} /\ \A u \in Users : l \notin userConnections[u]
    /\ \A e \in Emitters : thread[e].pc = "add" => l \notin thread[e].list

Safe(e) == emitter[e].life = "open" /\ thread[e].pc # "add" /\ e \notin overlapped

(* A removal works with the list in the map as long as that list has a     *)
(* stream to lose.                                                         *)
MapInv ==
  /\ Overlapping \subseteq overlapped
  /\ \A e \in Emitters : thread[e].pc = "add" /\ e \notin overlapped =>
       \E u \in emitter[e].user :
         thread[e].list = userConnections[u] /\ userConnections[u] # {}
  /\ \A e \in Emitters : Safe(e) => Reachable(e)
  /\ \A t \in Threads, e \in Emitters :
       thread[t].pc \in Removing /\ Safe(e) /\ thread[t].at = emitter[e].user =>
         /\ thread[t].pc # "unmap"
         /\ \A u \in thread[t].at : thread[t].list = userConnections[u]

(* A removal that has its list finds its stream in no other list that is   *)
(* mapped.                                                                 *)
DeadInv ==
  \A e \in Emitters : emitter[e].life = "complete" =>
    /\ thread[e].pc \notin {"get", "drop"} => ~Reachable(e)
    /\ thread[e].pc = "drop" =>
         \A u \in emitter[e].user : \A l \in userConnections[u] :
           e \in heap[l] => l \in thread[e].list

ManagerInv == Types /\ RoleInv /\ NewInv /\ MapInv /\ DeadInv

-----------------------------------------------------------------------------
(* Records of threads.                                                     *)

LEMMA FewOne ==
  ASSUME NEW S
  PROVE  /\ {} \in Few(S) /\ \A x \in S : {x} \in Few(S)
         /\ \A X \in Few(S) : \A x \in X : X = {x} /\ x \in S
         /\ \A X \in Few(S) : X = {} \/ \E x \in S : X = {x}
  BY DEF Few

LEMMA Threading ==
  /\ Emitters \subseteq Threads /\ Senders \subseteq Threads /\ Ping \in Threads
  /\ Ping \notin Emitters /\ Ping \notin Senders
  /\ \A t \in Threads : t \notin Emitters => t \in Senders \/ t = Ping
  /\ \A s \in Senders : s \notin Emitters
  BY SseConstants DEF Threads

LEMMA IdleLemma ==
  /\ Idle \in Records /\ Idle.pc = "idle" /\ Idle.victim = {}
  /\ Idle.users = {} /\ Idle.at = {} /\ Idle.list = {} /\ Idle.todo = {} /\ Idle.lastId = {}
<1>1. {} \in Few(Users) /\ {} \in Few(Lists)
  BY FewOne
<1> QED
  BY <1>1 DEF Idle, Records, Stages

LEMMA RecordLemma ==
  ASSUME Types, NEW t \in Threads
  PROVE  /\ thread[t] \in Records /\ thread[t].users \subseteq Users
         /\ thread[t].at \in Few(Users) /\ thread[t].list \in Few(Lists)
         /\ thread[t].todo \subseteq Emitters /\ thread[t].victim \subseteq Emitters
         /\ thread[t].pc \in Stages /\ thread[t].lastId \subseteq Ids
  BY DEF Types, Records

LEMMA ThreadLemma ==
  ASSUME Types, NEW t \in Threads, NEW q \in Records, thread' = [thread EXCEPT ![t] = q]
  PROVE  /\ thread' \in [Threads -> Records]
         /\ \A s \in Threads : thread'[s] = IF s = t THEN q ELSE thread[s]
  BY DEF Types

LEMMA FinishLemma ==
  ASSUME NEW t \in Threads, Finish(t)
  PROVE  \E q \in Records : /\ thread' = [thread EXCEPT ![t] = q]
                            /\ q.pc \in {"idle", "done"} /\ q.victim = {}
<1> DEFINE q == [Idle EXCEPT !.pc = IF t = Ping THEN "idle" ELSE "done"]
<1>1. q \in Records /\ q.pc \in {"idle", "done"} /\ q.victim = {}
  BY IdleLemma DEF Records, Stages
<1>2. thread' = [thread EXCEPT ![t] = q]
  BY DEF Finish
<1> HIDE DEF q
<1> QED
  BY <1>1, <1>2

LEMMA NextUserLemma ==
  ASSUME Types, NEW t \in Threads, NextUser(t)
  PROVE  \E q \in Records : /\ thread' = [thread EXCEPT ![t] = q]
                            /\ q.pc \in {"idle", "done", "lookup"} /\ q.victim = {}
<1>1. CASE thread[t].users = {}
  BY <1>1, FinishLemma DEF NextUser
<1>2. CASE thread[t].users # {}
  <2> DEFINE q == [Idle EXCEPT !.pc = "lookup", !.users = thread[t].users]
  <2>1. thread[t].users \in SUBSET Users
    BY RecordLemma
  <2>2. q \in Records /\ q.pc = "lookup" /\ q.victim = {}
    BY <2>1, IdleLemma DEF Records, Stages
  <2>3. thread' = [thread EXCEPT ![t] = q]
    BY <1>2 DEF NextUser
  <2> HIDE DEF q
  <2> QED
    BY <2>2, <2>3
<1> QED
  BY <1>1, <1>2

-----------------------------------------------------------------------------
(* Steps that leave map and lists alone.                                   *)

(* What may happen to streams while thread t makes a step.                 *)
Ages(t) ==
  /\ emitter' \in [Emitters -> [life : Lives, user : Few(Users)]]
  /\ \A e \in Emitters :
       /\ emitter'[e].user = emitter[e].user
       /\ \/ emitter'[e].life = emitter[e].life
          \/ emitter[e].life = "open" /\ emitter'[e].life = "broken"
          \/ emitter[e].life = "broken" /\ emitter'[e].life = "failed"
          \/ e = t /\ emitter[e].life \in {"open", "broken", "failed"}
                   /\ emitter'[e].life = "complete"

Small(t, q) ==
  /\ t \in Threads /\ q \in Records /\ thread' = [thread EXCEPT ![t] = q]
  /\ thread[t].pc # "add" /\ q.pc # "add" /\ Ages(t)
  /\ UNCHANGED <<userConnections, heap>> /\ overlapped' = overlapped \cup Overlapping'

LEMMA SmallStep ==
  ASSUME ManagerInv, NEW t, NEW q, Small(t, q), RoleInv',
         q.pc \in Removing => \A e \in Emitters : Safe(e) /\ q.at = emitter[e].user =>
           q.pc # "unmap" /\ \A u \in q.at : q.list = userConnections[u],
         t \in Emitters /\ emitter'[t].life = "complete" =>
           /\ q.pc \notin {"get", "drop"} => ~Reachable(t)
           /\ q.pc = "drop" => \A u \in emitter[t].user : \A l \in userConnections[u] :
                                 t \in heap[l] => l \in q.list
  PROVE  ManagerInv'
<1>1. Types /\ RoleInv /\ NewInv /\ MapInv /\ DeadInv
  BY DEF ManagerInv
<1>2. /\ t \in Threads /\ q \in Records /\ thread[t].pc # "add" /\ q.pc # "add"
      /\ UNCHANGED <<userConnections, heap>> /\ overlapped' = overlapped \cup Overlapping'
      /\ emitter' \in [Emitters -> [life : Lives, user : Few(Users)]]
  BY DEF Small, Ages
<1>3. /\ thread' \in [Threads -> Records]
      /\ \A s \in Threads : thread'[s] = IF s = t THEN q ELSE thread[s]
  BY <1>1, ThreadLemma DEF Small
<1>4. Overlapping' \subseteq Emitters
  BY DEF Overlapping
<1>5. Types'
  BY <1>1, <1>2, <1>3, <1>4 DEF Types
<1>6. \A e \in Emitters : /\ emitter'[e].user = emitter[e].user
                          /\ emitter'[e].life \in {"new", "open"} => emitter[e].life = emitter'[e].life
                          /\ emitter'[e].life = "complete" => emitter[e].life = "complete" \/ e = t
  BY DEF Small, Ages
<1>7. \A e \in Emitters : thread'[e].pc = "add" => e # t /\ thread[e].pc = "add"
                                                  /\ thread'[e] = thread[e]
  BY <1>2, <1>3, Threading
<1>8. NewInv'
  BY <1>1, <1>2, <1>6, <1>7 DEF NewInv
<1>9. \A e \in Emitters : Reachable(e)' <=> Reachable(e)
  BY <1>2, <1>6 DEF Reachable, In
<1>10. \A e \in Emitters : Safe(e)' => Safe(e)
  BY <1>2, <1>3, <1>6, <1>7, Threading DEF Safe
<1>11. MapInv'
  <2>1. Overlapping' \subseteq overlapped'
    BY <1>2
  <2>2. ASSUME NEW e \in Emitters, thread'[e].pc = "add", e \notin overlapped'
        PROVE  \E u \in emitter'[e].user :
                 thread'[e].list = userConnections'[u] /\ userConnections'[u] # {}
    BY <1>1, <1>2, <1>6, <1>7, <2>2 DEF MapInv
  <2>3. \A e \in Emitters : Safe(e)' => Reachable(e)'
    BY <1>1, <1>9, <1>10 DEF MapInv
  <2>4. ASSUME NEW s \in Threads, NEW e \in Emitters,
               thread'[s].pc \in Removing, Safe(e)', thread'[s].at = emitter'[e].user
        PROVE  /\ thread'[s].pc # "unmap"
               /\ \A u \in thread'[s].at : thread'[s].list = userConnections'[u]
    <3>1. Safe(e) /\ emitter'[e].user = emitter[e].user
      BY <1>6, <1>10, <2>4
    <3>2. CASE s = t
      BY <1>2, <1>3, <2>4, <3>1, <3>2
    <3>3. CASE s # t
      BY <1>1, <1>2, <1>3, <2>4, <3>1, <3>3 DEF MapInv
    <3> QED
      BY <3>2, <3>3
  <2> QED
    BY <2>1, <2>2, <2>3, <2>4 DEF MapInv
<1>12. DeadInv'
  <2>1. ASSUME NEW e \in Emitters, emitter'[e].life = "complete"
        PROVE  /\ thread'[e].pc \notin {"get", "drop"} => ~Reachable(e)'
               /\ thread'[e].pc = "drop" =>
                    \A u \in emitter'[e].user : \A l \in userConnections'[u] :
                      e \in heap'[l] => l \in thread'[e].list
    <3>1. CASE e = t
      BY <1>2, <1>3, <1>6, <1>9, <2>1, <3>1
    <3>2. CASE e # t
      <4>1. emitter[e].life = "complete" /\ thread'[e] = thread[e]
        BY <1>3, <1>6, <2>1, <3>2, Threading
      <4> QED
        BY <1>1, <1>2, <1>6, <1>9, <4>1 DEF DeadInv
    <3> QED
      BY <3>1, <3>2
  <2> QED
    BY <2>1 DEF DeadInv
<1> QED
  BY <1>5, <1>8, <1>11, <1>12 DEF ManagerInv

(* A step of a send or of the ping.                                        *)
Loops(t, q) ==
  /\ Small(t, q) /\ t \notin Emitters
  /\ q.pc \in {"idle", "done", "lookup", "cache", "copy", "deliver", "get"}
  /\ \A e \in Emitters : \/ emitter'[e].life = emitter[e].life
                         \/ emitter[e].life = "broken" /\ emitter'[e].life = "failed"
  /\ \A e \in q.victim : emitter'[e].life \in {"failed", "complete"}

LEMMA LoopStep ==
  ASSUME ManagerInv, NEW t, NEW q, Loops(t, q)
  PROVE  ManagerInv'
<1>1. Types /\ RoleInv /\ Small(t, q) /\ t \in Threads /\ t \notin Emitters
  BY DEF ManagerInv, Loops, Small
<1>2. \A s \in Threads : thread'[s] = IF s = t THEN q ELSE thread[s]
  BY <1>1, ThreadLemma DEF Small
<1>3. \A e \in Emitters : thread'[e] = thread[e] /\ emitter'[e].user = emitter[e].user
  BY <1>1, <1>2, Threading DEF Small, Ages
<1>4. \A e \in Emitters : \/ emitter'[e].life = emitter[e].life
                          \/ emitter[e].life = "broken" /\ emitter'[e].life = "failed"
  BY DEF Loops
<1>5. \A e \in Emitters :
       /\ thread'[e].pc \in {"idle", "add", "replay", "get"} \cup Removing
       /\ thread'[e].pc # "idle" => thread'[e].at = emitter'[e].user
       /\ thread'[e].pc \in {"add", "replay"} => emitter'[e].life = "open"
       /\ thread'[e].pc \in {"get"} \cup Removing => emitter'[e].life = "complete"
       /\ thread'[e].pc \in {"get", "drop"} => e \in thread'[e].victim
  BY <1>1, <1>3, <1>4 DEF RoleInv
<1>6. ASSUME NEW s \in Threads, NEW e \in thread'[s].victim
      PROVE  emitter'[e].life \in {"failed", "complete"}
  <2>1. CASE s = t
    BY <1>2, <1>6, <2>1 DEF Loops
  <2>2. CASE s # t
    <3>1. e \in thread[s].victim
      BY <1>2, <1>6, <2>2
    <3>2. e \in Emitters /\ emitter[e].life \in {"failed", "complete"}
      BY <1>1, <3>1, RecordLemma DEF RoleInv
    <3> QED
      BY <1>4, <3>2
  <2> QED
    BY <2>1, <2>2
<1>7. RoleInv'
  BY <1>5, <1>6 DEF RoleInv
<1>8. q.pc \notin Removing
  BY DEF Loops, Removing
<1> QED
  BY <1>1, <1>7, <1>8, SmallStep

(* Where no stream changes.                                                *)
LEMMA LoopLemma ==
  ASSUME ManagerInv, NEW t \in Threads, t \notin Emitters, NEW q \in Records,
         thread' = [thread EXCEPT ![t] = q], thread[t].pc # "add",
         q.pc \in {"idle", "done", "lookup", "cache", "copy", "deliver"},
         q.victim \subseteq thread[t].victim,
         UNCHANGED <<userConnections, heap, emitter>>, overlapped' = overlapped \cup Overlapping'
  PROVE  ManagerInv'
<1>1. Ages(t)
  BY DEF Ages, ManagerInv, Types
<1>2. Small(t, q)
  BY <1>1 DEF Small
<1>3. \A e \in q.victim : emitter'[e].life \in {"failed", "complete"}
  BY DEF ManagerInv, RoleInv
<1>4. Loops(t, q)
  BY <1>2, <1>3 DEF Loops
<1> QED
  BY <1>4, LoopStep

-----------------------------------------------------------------------------
(* The steps of sends and of the ping.                                     *)

Shared == <<userConnections, heap, emitter>>
Overlaps == overlapped' = overlapped \cup Overlapping'

LEMMA LoopPc ==
  ASSUME RoleInv, NEW t \in Threads,
         thread[t].pc \in {"lookup", "cache", "copy", "deliver", "done"}
  PROVE  t \notin Emitters
  BY DEF RoleInv, Removing

LEMMA StartLoop ==
  ASSUME ManagerInv, NEW t \in Threads, t \notin Emitters, thread[t].pc = "idle",
         NEW users \in SUBSET Users,
         thread' = [thread EXCEPT ![t] = [Idle EXCEPT !.pc = "lookup", !.users = users]],
         UNCHANGED Shared, Overlaps
  PROVE  ManagerInv'
<1> DEFINE q == [Idle EXCEPT !.pc = "lookup", !.users = users]
<1>1. q \in Records /\ q.pc = "lookup" /\ q.victim = {}
  BY IdleLemma DEF Records, Stages
<1>2. thread' = [thread EXCEPT ![t] = q]
  OBVIOUS
<1> HIDE DEF q
<1> QED
  BY <1>1, <1>2, LoopLemma DEF Shared, Overlaps

LEMMA FinishStep ==
  ASSUME ManagerInv, NEW t \in Threads, t \notin Emitters, thread[t].pc # "add",
         Finish(t) \/ NextUser(t), UNCHANGED Shared, Overlaps
  PROVE  ManagerInv'
<1>1. PICK q \in Records : /\ thread' = [thread EXCEPT ![t] = q]
                           /\ q.pc \in {"idle", "done", "lookup"} /\ q.victim = {}
  BY FinishLemma, NextUserLemma DEF ManagerInv
<1> QED
  BY <1>1, LoopLemma DEF Shared, Overlaps

LEMMA LookupStep ==
  ASSUME ManagerInv, NEW t \in Threads, Lookup(t), Overlaps
  PROVE  ManagerInv'
<1>1. Types /\ RoleInv /\ thread[t].pc = "lookup" /\ UNCHANGED Shared
  BY DEF ManagerInv, Lookup, Shared
<1>2. t \notin Emitters
  BY <1>1, LoopPc
<1>3. CASE thread[t].users = {}
  <2>1. Finish(t)
    BY <1>3 DEF Lookup
  <2> QED
    BY <1>1, <1>2, <2>1, FinishStep
<1>4. CASE thread[t].users # {}
  <2>1. PICK u \in thread[t].users :
          thread' = [thread EXCEPT ![t] = [Idle EXCEPT
                !.pc = IF userConnections[u] = {} THEN "lookup"
                       ELSE IF t = Ping THEN "copy" ELSE "cache",
                !.users = thread[t].users \ {u}, !.at = {u},
                !.list = userConnections[u]]]
    BY <1>4 DEF Lookup
  <2> DEFINE q == [Idle EXCEPT
                !.pc = IF userConnections[u] = {} THEN "lookup"
                       ELSE IF t = Ping THEN "copy" ELSE "cache",
                !.users = thread[t].users \ {u}, !.at = {u},
                !.list = userConnections[u]]
  <2>2. u \in Users /\ thread[t].users \ {u} \in SUBSET Users
    BY <1>1, RecordLemma
  <2>3. {u} \in Few(Users) /\ userConnections[u] \in Few(Lists)
    BY <1>1, <2>2, FewOne DEF Types
  <2>4. q \in Records /\ q.pc \in {"lookup", "copy", "cache"} /\ q.victim = {}
    BY <2>2, <2>3, IdleLemma DEF Records, Stages
  <2>5. thread' = [thread EXCEPT ![t] = q]
    BY <2>1
  <2> HIDE DEF q
  <2> QED
    BY <1>1, <1>2, <2>4, <2>5, LoopLemma DEF Shared, Overlaps
<1> QED
  BY <1>3, <1>4

LEMMA SendCacheStep ==
  ASSUME ManagerInv, NEW s \in Senders, SendCache(s), Overlaps
  PROVE  ManagerInv'
<1>1. Types /\ RoleInv /\ thread[s].pc = "cache" /\ UNCHANGED Shared
  BY DEF ManagerInv, SendCache, Shared
<1>2. s \in Threads /\ s \notin Emitters
  BY Threading
<1>3. CASE NextUser(s)
  BY <1>1, <1>2, <1>3, FinishStep
<1>4. CASE Goto(s, "copy")
  <2>1. thread[s] \in Records
    BY <1>1, <1>2, RecordLemma
  <2> DEFINE q == [thread[s] EXCEPT !.pc = "copy"]
  <2>2. q \in Records /\ q.pc = "copy" /\ q.victim = thread[s].victim
    BY <2>1 DEF Records, Stages
  <2>3. thread' = [thread EXCEPT ![s] = q]
    BY <1>4 DEF Goto
  <2> HIDE DEF q
  <2> QED
    BY <1>1, <1>2, <2>2, <2>3, LoopLemma DEF Shared, Overlaps
<1> QED
  BY <1>3, <1>4 DEF SendCache

LEMMA CopyStep ==
  ASSUME ManagerInv, NEW t \in Threads, Copy(t), Overlaps
  PROVE  ManagerInv'
<1>1. /\ Types /\ RoleInv /\ thread[t].pc = "copy" /\ UNCHANGED Shared
      /\ thread' = [thread EXCEPT ![t].pc = "deliver", ![t].todo = In(thread[t].list),
                                  ![t].list = {}]
  BY DEF ManagerInv, Copy, Shared
<1>2. t \notin Emitters
  BY <1>1, LoopPc
<1>3. thread[t] \in Records /\ thread[t].list \in Few(Lists) /\ {} \in Few(Lists)
  BY <1>1, RecordLemma, FewOne
<1>4. In(thread[t].list) \in SUBSET Emitters
  <2>1. \A l \in thread[t].list : l \in Lists
    BY <1>3 DEF Few
  <2>2. \A l \in Lists : heap[l] \subseteq Emitters
    BY <1>1 DEF Types
  <2> QED
    BY <2>1, <2>2 DEF In
<1> DEFINE q == [thread[t] EXCEPT !.pc = "deliver", !.todo = In(thread[t].list), !.list = {}]
<1>5. q \in Records /\ q.pc = "deliver" /\ q.victim = thread[t].victim
  BY <1>3, <1>4 DEF Records, Stages
<1>6. thread' = [thread EXCEPT ![t] = q]
  BY <1>1 DEF Types
<1> HIDE DEF q
<1> QED
  BY <1>1, <1>2, <1>5, <1>6, LoopLemma DEF Shared, Overlaps

LEMMA DeliverStep ==
  ASSUME ManagerInv, NEW t \in Threads, NEW e \in Emitters,
         Deliver(t, e) \/ DeliverFails(t, e) \/ DeliverThrows(t, e) \/ LoopEnd(t), Overlaps
  PROVE  ManagerInv'
<1>1. Types /\ RoleInv /\ thread[t].pc = "deliver" /\ UNCHANGED <<userConnections, heap>>
  BY DEF ManagerInv, Deliver, DeliverFails, DeliverThrows, LoopEnd
<1>2. t \notin Emitters
  BY <1>1, LoopPc
<1>3. /\ thread[t] \in Records /\ thread[t].todo \ {e} \in SUBSET Emitters
      /\ {e} \in SUBSET Emitters
  BY <1>1, RecordLemma
<1>4. CASE DeliverThrows(t, e) \/ LoopEnd(t)
  <2>1. (Finish(t) \/ NextUser(t)) /\ UNCHANGED Shared
    BY <1>4 DEF DeliverThrows, LoopEnd, Shared
  <2> QED
    BY <1>1, <1>2, <2>1, FinishStep
<1>5. CASE Deliver(t, e)
  <2> DEFINE q == [thread[t] EXCEPT !.todo = thread[t].todo \ {e}]
  <2>1. q \in Records /\ q.pc = "deliver" /\ q.victim = thread[t].victim
    BY <1>1, <1>3 DEF Records, Stages
  <2>2. thread' = [thread EXCEPT ![t] = q] /\ UNCHANGED Shared
    BY <1>5 DEF Deliver, Shared
  <2> HIDE DEF q
  <2> QED
    BY <1>1, <1>2, <2>1, <2>2, LoopLemma DEF Shared, Overlaps
<1>6. CASE DeliverFails(t, e)
  <2> DEFINE q == [thread[t] EXCEPT !.pc = "get", !.todo = thread[t].todo \ {e}, !.victim = {e}]
  <2>1. q \in Records /\ q.pc = "get" /\ q.victim = {e}
    BY <1>1, <1>3 DEF Records, Stages
  <2>2. /\ thread' = [thread EXCEPT ![t] = q]
        /\ emitter[e].life = "broken" /\ emitter' = [emitter EXCEPT ![e].life = "failed"]
    BY <1>6 DEF DeliverFails, Catch, LifeAfterError
  <2> HIDE DEF q
  <2>3. /\ emitter' \in [Emitters -> [life : Lives, user : Few(Users)]]
        /\ \A d \in Emitters : /\ emitter'[d].user = emitter[d].user
                               /\ d # e => emitter'[d] = emitter[d]
        /\ emitter'[e].life = "failed"
    BY <1>1, <2>2 DEF Types, Lives
  <2>4. Ages(t)
    BY <2>2, <2>3 DEF Ages
  <2>5. Small(t, q)
    BY <1>1, <2>1, <2>2, <2>4 DEF Small, Overlaps
  <2>6. Loops(t, q)
    BY <1>2, <2>1, <2>2, <2>3, <2>5 DEF Loops
  <2> QED
    BY <2>6, LoopStep
<1> QED
  BY <1>4, <1>5, <1>6

-----------------------------------------------------------------------------
(* Steps of subscriptions and removals that leave map and lists alone.     *)

(* Thread t keeps its role or gives it up.                                 *)
KeepsRole(t, q) ==
  /\ q \in Records /\ thread' = [thread EXCEPT ![t] = q]
  /\ q.victim \subseteq thread[t].victim
  /\ t \in Emitters =>
       /\ q.pc \in {"idle", "replay"} \cup Removing
       /\ q.pc # "idle" => q.at = thread[t].at /\ thread[t].pc # "idle"
       /\ q.pc = "replay" => thread[t].pc = "add"
       /\ q.pc \in Removing => thread[t].pc \in {"get"} \cup Removing
       /\ q.pc = "drop" => thread[t].pc = "get" /\ q.victim = thread[t].victim

LEMMA RoleStep ==
  ASSUME Types, RoleInv, NEW t \in Threads, NEW q, KeepsRole(t, q), UNCHANGED emitter
  PROVE  RoleInv'
<1>1. \A s \in Threads : thread'[s] = IF s = t THEN q ELSE thread[s]
  BY ThreadLemma DEF KeepsRole
<1>2. ASSUME NEW e \in Emitters
      PROVE  /\ thread'[e].pc \in {"idle", "add", "replay", "get"} \cup Removing
             /\ thread'[e].pc # "idle" => thread'[e].at = emitter'[e].user
             /\ thread'[e].pc \in {"add", "replay"} => emitter'[e].life = "open"
             /\ thread'[e].pc \in {"get"} \cup Removing => emitter'[e].life = "complete"
             /\ thread'[e].pc \in {"get", "drop"} => e \in thread'[e].victim
  <2>1. e \in Threads
    BY Threading
  <2>2. CASE e # t
    BY <1>1, <2>1, <2>2 DEF RoleInv
  <2>3. CASE e = t
    <3>1. thread'[e] = q
      BY <1>1, <2>1, <2>3
    <3>2. /\ thread[e].pc # "idle" => thread[e].at = emitter[e].user
          /\ thread[e].pc = "add" => emitter[e].life = "open"
          /\ thread[e].pc \in {"get"} \cup Removing => emitter[e].life = "complete"
          /\ thread[e].pc = "get" => e \in thread[e].victim
      BY DEF RoleInv
    <3>3. /\ q.pc \in {"idle", "replay"} \cup Removing
          /\ q.pc # "idle" => q.at = thread[e].at /\ thread[e].pc # "idle"
          /\ q.pc = "replay" => thread[e].pc = "add"
          /\ q.pc \in Removing => thread[e].pc \in {"get"} \cup Removing
          /\ q.pc = "drop" => thread[e].pc = "get" /\ q.victim = thread[e].victim
      BY <2>3 DEF KeepsRole
    <3> QED
      BY <3>1, <3>2, <3>3 DEF Removing
  <2> QED
    BY <2>2, <2>3
<1>3. \A s \in Threads : \A e \in thread'[s].victim : emitter'[e].life \in {"failed", "complete"}
  BY <1>1 DEF RoleInv, KeepsRole
<1> QED
  BY <1>2, <1>3 DEF RoleInv

LEMMA RoleOnly ==
  ASSUME ManagerInv, NEW t \in Threads, NEW q, KeepsRole(t, q), thread[t].pc # "add",
         q.pc # "add", UNCHANGED Shared, Overlaps,
         q.pc \in Removing => \A e \in Emitters : Safe(e) /\ q.at = emitter[e].user =>
           q.pc # "unmap" /\ \A u \in q.at : q.list = userConnections[u],
         t \in Emitters /\ emitter[t].life = "complete" =>
           /\ q.pc \notin {"get", "drop"} => ~Reachable(t)
           /\ q.pc = "drop" => \A u \in emitter[t].user : \A l \in userConnections[u] :
                                 t \in heap[l] => l \in q.list
  PROVE  ManagerInv'
<1>1. Types /\ RoleInv /\ UNCHANGED <<userConnections, heap, emitter>>
  BY DEF ManagerInv, Shared
<1>2. RoleInv'
  BY <1>1, RoleStep
<1>3. Ages(t)
  BY <1>1 DEF Ages, Types
<1>4. Small(t, q)
  BY <1>1, <1>3 DEF Small, KeepsRole, Overlaps
<1> QED
  BY <1>1, <1>2, <1>4, SmallStep

(* What Return makes of a removal.                                         *)
LEMMA ReturnLemma ==
  ASSUME Types, RoleInv, NEW t \in Threads, thread[t].pc \in {"get"} \cup Removing, Return(t)
  PROVE  \E q \in Records : /\ KeepsRole(t, q)
                            /\ q.pc = IF t \in Emitters THEN "idle" ELSE "deliver"
<1>1. thread[t] \in Records /\ {} \in Few(Lists)
  BY RecordLemma, FewOne
<1> DEFINE q == IF t \in Emitters THEN Idle
                ELSE [thread[t] EXCEPT !.pc = "deliver", !.list = {}, !.victim = {}]
<1>2. CASE t \in Emitters
  <2>1. q \in Records /\ q.pc = "idle" /\ q.victim = {}
    BY <1>2, IdleLemma
  <2>2. thread' = [thread EXCEPT ![t] = q]
    BY <1>2 DEF Return
  <2> HIDE DEF q
  <2>3. KeepsRole(t, q)
    BY <2>1, <2>2 DEF KeepsRole, Removing
  <2> QED
    BY <1>2, <2>1, <2>3
<1>3. CASE t \notin Emitters
  <2>1. q \in Records /\ q.pc = "deliver" /\ q.victim = {}
    BY <1>1, <1>3 DEF Records, Stages
  <2>2. thread' = [thread EXCEPT ![t] = q]
    BY <1>3 DEF Return
  <2> HIDE DEF q
  <2>3. KeepsRole(t, q)
    BY <1>3, <2>1, <2>2 DEF KeepsRole
  <2> QED
    BY <1>3, <2>1, <2>3
<1> QED
  BY <1>2, <1>3

LEMMA SubscribeReplayStep ==
  ASSUME ManagerInv, NEW e \in Emitters, SubscribeReplay(e), Overlaps
  PROVE  ManagerInv'
<1>1. /\ Types /\ RoleInv /\ e \in Threads /\ thread[e].pc = "replay"
      /\ thread' = [thread EXCEPT ![e] = Idle] /\ UNCHANGED Shared
  BY Threading DEF ManagerInv, SubscribeReplay, Shared
<1>2. emitter[e].life = "open"
  BY <1>1 DEF RoleInv
<1>3. KeepsRole(e, Idle)
  BY <1>1, IdleLemma DEF KeepsRole, Removing
<1> QED
  BY <1>1, <1>2, <1>3, IdleLemma, RoleOnly DEF Removing

LEMMA RemoveGetStep ==
  ASSUME ManagerInv, NEW t \in Threads, RemoveGet(t), Overlaps
  PROVE  ManagerInv'
<1> DEFINE list == UNION {userConnections[u] : u \in thread[t].at}
<1>1. /\ Types /\ RoleInv /\ thread[t].pc = "get" /\ UNCHANGED Shared
      /\ IF list = {} THEN Return(t)
         ELSE thread' = [thread EXCEPT ![t].pc = "drop", ![t].list = list]
  BY DEF ManagerInv, RemoveGet, Shared
<1>2. /\ thread[t] \in Records /\ thread[t].at \in Few(Users)
      /\ t \in Emitters => thread[t].at = emitter[t].user
  BY <1>1, RecordLemma DEF RoleInv
<1>3. \A u \in thread[t].at : list = userConnections[u] /\ u \in Users
  BY <1>2 DEF Few
<1>4. CASE list = {}
  <2>1. PICK q \in Records : /\ KeepsRole(t, q)
                             /\ q.pc = IF t \in Emitters THEN "idle" ELSE "deliver"
    BY <1>1, <1>4, ReturnLemma
  <2>2. t \in Emitters => ~Reachable(t)
    BY <1>2, <1>3, <1>4 DEF Reachable, In
  <2> QED
    BY <1>1, <2>1, <2>2, RoleOnly DEF Removing
<1>5. CASE list # {}
  <2>1. PICK u \in thread[t].at : list = userConnections[u] /\ u \in Users
    BY <1>3, <1>5
  <2>2. list \in Few(Lists)
    <3>1. userConnections[u] \in Few(Lists)
      BY <1>1, <2>1 DEF Types
    <3> HIDE DEF list
    <3> QED
      BY <2>1, <3>1
  <2> DEFINE q == [thread[t] EXCEPT !.pc = "drop", !.list = list]
  <2>3. /\ q \in Records /\ q.pc = "drop" /\ q.victim = thread[t].victim
        /\ q.at = thread[t].at /\ q.list = list
    BY <1>2, <2>2 DEF Records, Stages
  <2>4. thread' = [thread EXCEPT ![t] = q]
    BY <1>1, <1>5 DEF Types
  <2> HIDE DEF q
  <2>5. KeepsRole(t, q)
    BY <1>1, <2>3, <2>4 DEF KeepsRole, Removing
  <2>6. \A v \in q.at : q.list = userConnections[v]
    BY <1>3, <2>3
  <2>7. t \in Emitters => \A v \in emitter[t].user : \A l \in userConnections[v] : l \in q.list
    BY <1>2, <2>3, <2>6
  <2> QED
    BY <1>1, <2>3, <2>5, <2>6, <2>7, RoleOnly
<1> QED
  BY <1>4, <1>5

LEMMA RemoveCheckStep ==
  ASSUME ManagerInv, NEW t \in Threads, RemoveCheck(t), Overlaps
  PROVE  ManagerInv'
<1>1. /\ Types /\ RoleInv /\ MapInv /\ DeadInv /\ thread[t].pc = "check" /\ UNCHANGED Shared
      /\ IF Emptied(thread[t].list) THEN Goto(t, "unmap") ELSE Return(t)
  BY DEF ManagerInv, RemoveCheck, Shared
<1>2. t \in Emitters /\ emitter[t].life = "complete" => ~Reachable(t)
  BY <1>1 DEF DeadInv
<1>3. CASE ~Emptied(thread[t].list)
  <2>1. PICK q \in Records : /\ KeepsRole(t, q)
                             /\ q.pc = IF t \in Emitters THEN "idle" ELSE "deliver"
    BY <1>1, <1>3, ReturnLemma DEF Removing
  <2> QED
    BY <1>1, <1>2, <2>1, RoleOnly DEF Removing
<1>4. CASE Emptied(thread[t].list)
  <2> DEFINE q == [thread[t] EXCEPT !.pc = "unmap"]
  <2>1. thread[t] \in Records
    BY <1>1, RecordLemma
  <2>2. /\ q \in Records /\ q.pc = "unmap" /\ q.victim = thread[t].victim
        /\ q.at = thread[t].at /\ q.list = thread[t].list
    BY <2>1 DEF Records, Stages
  <2>3. thread' = [thread EXCEPT ![t] = q]
    BY <1>1, <1>4 DEF Goto
  <2> HIDE DEF q
  <2>4. KeepsRole(t, q)
    BY <1>1, <2>2, <2>3 DEF KeepsRole, Removing
  <2>5. ASSUME NEW e \in Emitters, Safe(e), q.at = emitter[e].user
        PROVE  FALSE
    <3>1. \A u \in thread[t].at : thread[t].list = userConnections[u]
      BY <1>1, <2>2, <2>5 DEF MapInv, Removing
    <3>2. PICK u \in emitter[e].user : e \in In(userConnections[u])
      BY <1>1, <2>5 DEF MapInv, Reachable
    <3>3. e \in In(thread[t].list)
      BY <2>2, <2>5, <3>1, <3>2
    <3> QED
      BY <1>4, <3>3 DEF Emptied
  <2> QED
    BY <1>1, <1>2, <2>2, <2>4, <2>5, RoleOnly
<1> QED
  BY <1>3, <1>4

-----------------------------------------------------------------------------
(* Steps that change a list or the map.                                    *)

LEMMA RemoveDropStep ==
  ASSUME ManagerInv, NEW t \in Threads, RemoveDrop(t), Overlaps
  PROVE  ManagerInv'
<1>1. /\ Types /\ RoleInv /\ NewInv /\ MapInv /\ DeadInv
      /\ thread[t].pc = "drop" /\ UNCHANGED <<userConnections, emitter>>
      /\ Goto(t, "check") /\ overlapped' = overlapped \cup Overlapping'
  BY DEF ManagerInv, RemoveDrop, Overlaps
<1> DEFINE q == [thread[t] EXCEPT !.pc = "check"]
<1>2. thread[t] \in Records
  BY <1>1, RecordLemma
<1>3. /\ q \in Records /\ q.pc = "check" /\ q.victim = thread[t].victim
      /\ q.at = thread[t].at /\ q.list = thread[t].list
  BY <1>2 DEF Records, Stages
<1>4. thread' = [thread EXCEPT ![t] = q]
  BY <1>1 DEF Goto
<1> HIDE DEF q
<1>5. KeepsRole(t, q)
  BY <1>1, <1>3, <1>4 DEF KeepsRole, Removing
<1>6. /\ \A s \in Threads : thread'[s] = IF s = t THEN q ELSE thread[s]
      /\ thread' \in [Threads -> Records]
  BY <1>1, <1>3, <1>4, ThreadLemma
<1>7. RoleInv'
  BY <1>1, <1>5, RoleStep
<1>8. /\ heap' \in [Lists -> SUBSET Emitters]
      /\ \A l \in Lists : heap'[l] = IF l \in thread[t].list
                                       THEN heap[l] \ thread[t].victim ELSE heap[l]
  BY <1>1 DEF RemoveDrop, Drop, Types
<1>9. Overlapping' \subseteq Emitters
  BY DEF Overlapping
<1>10. Types'
  BY <1>1, <1>6, <1>8, <1>9 DEF Types
<1>11. \A e \in Emitters : thread'[e].pc = "add" => thread'[e] = thread[e] /\ thread[e].pc = "add"
  BY <1>3, <1>6, Threading
<1>12. \A l \in Lists : heap'[l] \subseteq heap[l]
  BY <1>8
<1>13. NewInv'
  <2>1. \A l \in Emitters : l \in Lists
    BY DEF Lists
  <2> QED
    BY <1>1, <1>11, <1>12, <2>1 DEF NewInv
<1>14. \A u \in Users : userConnections[u] \subseteq Lists
  BY <1>1, FewOne DEF Types, Few
<1>15. \A e \in Emitters : emitter[e].user \subseteq Users
  BY <1>1 DEF Types, Few
<1>16. \A e \in Emitters : Safe(e)' => Safe(e)
  BY <1>1, <1>3, <1>6, Threading DEF Safe
<1>17. MapInv'
  <2>1. \A e \in Emitters : thread'[e].pc = "add" /\ e \notin overlapped' =>
          \E u \in emitter'[e].user :
            thread'[e].list = userConnections'[u] /\ userConnections'[u] # {}
    BY <1>1, <1>11 DEF MapInv
  <2>2. ASSUME NEW e \in Emitters, Safe(e)'
        PROVE  Reachable(e)'
    <3>1. Safe(e)
      BY <1>16, <2>2
    <3>2. PICK u \in emitter[e].user : e \in In(userConnections[u])
      BY <1>1, <3>1 DEF MapInv, Reachable
    <3>3. PICK l \in userConnections[u] : e \in heap[l]
      BY <3>2 DEF In
    <3>4. e \notin thread[t].victim
      BY <1>1, <3>1 DEF RoleInv, Safe
    <3>5. e \in heap'[l]
      BY <1>8, <1>14, <1>15, <3>3, <3>4
    <3> QED
      BY <1>1, <3>3, <3>5 DEF Reachable, In
  <2>3. ASSUME NEW s \in Threads, NEW e \in Emitters,
               thread'[s].pc \in Removing, Safe(e)', thread'[s].at = emitter'[e].user
        PROVE  /\ thread'[s].pc # "unmap"
               /\ \A u \in thread'[s].at : thread'[s].list = userConnections'[u]
    <3>1. Safe(e) /\ thread'[s].at = thread[s].at /\ thread'[s].list = thread[s].list
      BY <1>3, <1>6, <1>16, <2>3
    <3>2. thread[s].pc \in Removing /\ (thread'[s].pc = thread[s].pc \/ thread'[s].pc = "check")
      BY <1>1, <1>3, <1>6, <2>3 DEF Removing
    <3> QED
      BY <1>1, <2>3, <3>1, <3>2 DEF MapInv
  <2> QED
    BY <1>1, <2>1, <2>2, <2>3 DEF MapInv
<1>18. DeadInv'
  <2>1. \A e \in Emitters : Reachable(e)' => Reachable(e)
    <3>1. SUFFICES ASSUME NEW e \in Emitters, Reachable(e)' PROVE Reachable(e)
      OBVIOUS
    <3>2. PICK u \in emitter[e].user : \E l \in userConnections[u] : e \in heap'[l]
      BY <1>1, <3>1 DEF Reachable, In
    <3>3. \E l \in userConnections[u] : e \in heap[l]
      BY <1>12, <1>14, <1>15, <3>2
    <3> QED
      BY <3>2, <3>3 DEF Reachable, In
  <2>2. ASSUME NEW e \in Emitters, emitter'[e].life = "complete"
        PROVE  /\ thread'[e].pc \notin {"get", "drop"} => ~Reachable(e)'
               /\ thread'[e].pc = "drop" =>
                    \A u \in emitter'[e].user : \A l \in userConnections'[u] :
                      e \in heap'[l] => l \in thread'[e].list
    <3>1. CASE e # t
      <4>1. thread'[e] = thread[e] /\ emitter[e].life = "complete"
        BY <1>1, <1>6, <2>2, <3>1, Threading
      <4>2. \A u \in emitter[e].user : \A l \in userConnections[u] : heap'[l] \subseteq heap[l]
        BY <1>12, <1>14, <1>15
      <4> QED
        BY <1>1, <2>1, <4>1, <4>2 DEF DeadInv
    <3>2. CASE e = t
      <4>1. thread'[e].pc = "check" /\ thread[e].pc = "drop" /\ emitter[e].life = "complete"
        BY <1>1, <1>3, <1>6, <2>2, <3>2
      <4>2. e \in thread[t].victim
        BY <1>1, <3>2 DEF RoleInv
      <4>3. ASSUME NEW u \in emitter[e].user, NEW l \in userConnections[u]
            PROVE  e \notin heap'[l]
        <5>1. e \in heap[l] => l \in thread[e].list
          BY <1>1, <4>1 DEF DeadInv
        <5>2. l \in Lists
          BY <1>14, <1>15
        <5> QED
          BY <1>8, <3>2, <4>2, <5>1, <5>2
      <4>4. ~Reachable(e)'
        BY <1>1, <4>3 DEF Reachable, In
      <4> QED
        BY <4>1, <4>4
    <3> QED
      BY <3>1, <3>2
  <2> QED
    BY <2>2 DEF DeadInv
<1> QED
  BY <1>7, <1>10, <1>13, <1>17, <1>18 DEF ManagerInv

LEMMA RemoveUnmapStep ==
  ASSUME ManagerInv, NEW t \in Threads, RemoveUnmap(t), Overlaps
  PROVE  ManagerInv'
<1>1. /\ Types /\ RoleInv /\ NewInv /\ MapInv /\ DeadInv
      /\ thread[t].pc = "unmap" /\ UNCHANGED <<heap, emitter>>
      /\ Return(t) /\ overlapped' = overlapped \cup Overlapping'
  BY DEF ManagerInv, RemoveUnmap, Overlaps
<1>2. PICK q \in Records : /\ KeepsRole(t, q)
                           /\ q.pc = IF t \in Emitters THEN "idle" ELSE "deliver"
  BY <1>1, ReturnLemma DEF Removing
<1>3. /\ \A s \in Threads : thread'[s] = IF s = t THEN q ELSE thread[s]
      /\ thread' \in [Threads -> Records]
  BY <1>1, <1>2, ThreadLemma DEF KeepsRole
<1>4. RoleInv'
  BY <1>1, <1>2, RoleStep
<1>5. \A u \in Users : userConnections'[u] = IF u \in thread[t].at THEN {} ELSE userConnections[u]
  BY DEF RemoveUnmap
<1>6. Types'
  <2>1. userConnections' \in [Users -> Few(Lists)]
    <3>1. userConnections' = [u \in Users |-> IF u \in thread[t].at THEN {} ELSE userConnections[u]]
      BY DEF RemoveUnmap
    <3> QED
      BY <1>1, <3>1, FewOne DEF Types
  <2>2. Overlapping' \subseteq Emitters
    BY DEF Overlapping
  <2> QED
    BY <1>1, <1>3, <2>1, <2>2 DEF Types
<1>7. \A e \in Emitters : thread'[e].pc = "add" => thread'[e] = thread[e] /\ thread[e].pc = "add"
  BY <1>2, <1>3, Threading
<1>8. \A u \in Users : userConnections'[u] \subseteq userConnections[u]
  BY <1>5
<1>9. NewInv'
  BY <1>1, <1>7, <1>8 DEF NewInv
<1>10. \A e \in Emitters : emitter[e].user \in Few(Users)
  BY <1>1 DEF Types
<1>11. thread[t].at \in Few(Users)
  BY <1>1, RecordLemma
<1>12. ASSUME NEW e \in Emitters, NEW u \in emitter[e].user, u \in thread[t].at
       PROVE  thread[t].at = emitter[e].user
  <2>1. thread[t].at = {u}
    BY <1>11, <1>12 DEF Few
  <2>2. emitter[e].user = {u}
    BY <1>10 DEF Few
  <2> QED
    BY <2>1, <2>2
<1>13. \A e \in Emitters : Safe(e)' => Safe(e)
  BY <1>1, <1>3, Threading DEF Safe
<1>14. ASSUME NEW e \in Emitters, Safe(e)
       PROVE  \A u \in emitter[e].user : u \in Users /\ userConnections'[u] = userConnections[u]
  <2>1. thread[t].at # emitter[e].user
    BY <1>1, <1>14 DEF MapInv, Removing
  <2>2. \A u \in emitter[e].user : u \notin thread[t].at
    BY <1>12, <2>1
  <2> QED
    BY <1>5, <1>10, <2>2 DEF Few
<1>15. MapInv'
  <2>1. ASSUME NEW e \in Emitters, thread'[e].pc = "add", e \notin overlapped'
        PROVE  \E u \in emitter'[e].user :
                 thread'[e].list = userConnections'[u] /\ userConnections'[u] # {}
    <3>1. thread'[e] = thread[e] /\ thread[e].pc = "add" /\ e \notin overlapped
      BY <1>1, <1>7, <2>1
    <3>2. PICK u \in emitter[e].user :
            thread[e].list = userConnections[u] /\ userConnections[u] # {}
      BY <1>1, <3>1 DEF MapInv
    <3>3. thread[e].at = emitter[e].user
      BY <1>1, <3>1 DEF RoleInv
    <3>4. u \notin thread[t].at
      <4>1. SUFFICES ASSUME u \in thread[t].at PROVE FALSE
        OBVIOUS
      <4>2. thread[t].at = thread[e].at
        BY <1>12, <3>3, <4>1
      <4>3. e \in Overlapping
        BY <1>1, <3>1, <4>2 DEF Overlapping
      <4> QED
        BY <1>1, <3>1, <4>3 DEF MapInv
    <3>5. userConnections'[u] = userConnections[u]
      BY <1>5, <1>10, <3>4 DEF Few
    <3> QED
      BY <1>1, <3>1, <3>2, <3>5
  <2>2. ASSUME NEW e \in Emitters, Safe(e)'
        PROVE  Reachable(e)'
    <3>1. Safe(e)
      BY <1>13, <2>2
    <3>2. Reachable(e) /\ \A u \in emitter[e].user : userConnections'[u] = userConnections[u]
      BY <1>1, <1>14, <3>1 DEF MapInv
    <3> QED
      BY <1>1, <3>2 DEF Reachable, In
  <2>3. ASSUME NEW s \in Threads, NEW e \in Emitters,
               thread'[s].pc \in Removing, Safe(e)', thread'[s].at = emitter'[e].user
        PROVE  /\ thread'[s].pc # "unmap"
               /\ \A u \in thread'[s].at : thread'[s].list = userConnections'[u]
    <3>1. Safe(e) /\ emitter'[e].user = emitter[e].user
      BY <1>1, <1>13, <2>3
    <3>2. thread'[s] = thread[s]
      BY <1>2, <1>3, <2>3 DEF Removing
    <3>3. /\ thread[s].pc # "unmap"
          /\ \A u \in thread[s].at : thread[s].list = userConnections[u]
      BY <1>1, <2>3, <3>1, <3>2 DEF MapInv
    <3> QED
      BY <1>14, <2>3, <3>1, <3>2, <3>3
  <2> QED
    BY <1>1, <2>1, <2>2, <2>3 DEF MapInv
<1>16. DeadInv'
  <2>1. ASSUME NEW e \in Emitters, emitter'[e].life = "complete"
        PROVE  /\ thread'[e].pc \notin {"get", "drop"} => ~Reachable(e)'
               /\ thread'[e].pc = "drop" =>
                    \A u \in emitter'[e].user : \A l \in userConnections'[u] :
                      e \in heap'[l] => l \in thread'[e].list
    <3>1. \A u \in emitter[e].user : userConnections'[u] \subseteq userConnections[u]
      BY <1>8, <1>10 DEF Few
    <3>2. Reachable(e)' => Reachable(e)
      BY <1>1, <3>1 DEF Reachable, In
    <3>3. \/ thread'[e] = thread[e]
          \/ thread'[e].pc \notin {"get", "drop"} /\ thread[e].pc \notin {"get", "drop"}
      BY <1>1, <1>2, <1>3, Threading
    <3> QED
      BY <1>1, <2>1, <3>1, <3>2, <3>3 DEF DeadInv
  <2> QED
    BY <2>1 DEF DeadInv
<1> QED
  BY <1>4, <1>6, <1>9, <1>15, <1>16 DEF ManagerInv

LEMMA ClientLeavesStep ==
  ASSUME ManagerInv, NEW e \in Emitters, ClientLeaves(e), Overlaps
  PROVE  ManagerInv'
<1>1. /\ Types /\ RoleInv /\ emitter[e].life = "open" /\ AtRest(e)
      /\ emitter' = [emitter EXCEPT ![e].life = "broken"]
      /\ UNCHANGED <<userConnections, heap, thread>>
  BY DEF ManagerInv, ClientLeaves
<1>2. e \in Threads /\ thread[e] \in Records /\ thread[e].pc = "idle"
  BY <1>1, Threading, RecordLemma DEF RoleInv, AtRest, Removing
<1>3. thread' = [thread EXCEPT ![e] = thread[e]]
  BY <1>1 DEF Types
<1>4. /\ emitter' \in [Emitters -> [life : Lives, user : Few(Users)]]
      /\ \A d \in Emitters : /\ emitter'[d].user = emitter[d].user
                             /\ d # e => emitter'[d] = emitter[d]
      /\ emitter'[e].life = "broken"
  BY <1>1 DEF Types, Lives
<1>5. Ages(e)
  BY <1>1, <1>4 DEF Ages
<1>6. Small(e, thread[e])
  BY <1>1, <1>2, <1>3, <1>5 DEF Small, Overlaps
<1>7. \A t \in Threads : \A d \in thread[t].victim : d \in Emitters /\ d # e
  BY <1>1, RecordLemma DEF RoleInv
<1>8. RoleInv'
  BY <1>1, <1>2, <1>4, <1>7 DEF RoleInv, Removing
<1> QED
  BY <1>2, <1>4, <1>6, <1>8, SmallStep DEF Removing

LEMMA CompleteStep ==
  ASSUME ManagerInv, NEW e \in Emitters, Complete(e), Overlaps
  PROVE  ManagerInv'
<1> DEFINE q == [Idle EXCEPT !.pc = "get", !.at = emitter[e].user, !.victim = {e}]
<1>1. /\ Types /\ RoleInv /\ emitter[e].life \in {"open", "broken", "failed"} /\ AtRest(e)
      /\ emitter' = [emitter EXCEPT ![e].life = "complete"]
      /\ thread' = [thread EXCEPT ![e] = q]
      /\ UNCHANGED <<userConnections, heap>>
  BY DEF ManagerInv, Complete
<1>2. e \in Threads /\ thread[e].pc = "idle"
  BY <1>1, Threading DEF RoleInv, AtRest, Removing
<1>3. emitter[e].user \in Few(Users)
  BY <1>1 DEF Types
<1>4. q \in Records /\ q.pc = "get" /\ q.at = emitter[e].user /\ q.victim = {e}
  BY <1>3, IdleLemma DEF Records, Stages
<1> HIDE DEF q
<1>5. \A s \in Threads : thread'[s] = IF s = e THEN q ELSE thread[s]
  BY <1>1, <1>2, <1>4, ThreadLemma
<1>6. /\ emitter' \in [Emitters -> [life : Lives, user : Few(Users)]]
      /\ \A d \in Emitters : /\ emitter'[d].user = emitter[d].user
                             /\ d # e => emitter'[d] = emitter[d]
      /\ emitter'[e].life = "complete"
  BY <1>1 DEF Types, Lives
<1>7. Ages(e)
  BY <1>1, <1>6 DEF Ages
<1>8. Small(e, q)
  BY <1>1, <1>2, <1>4, <1>7 DEF Small, Overlaps
<1>9. RoleInv'
  <2>1. ASSUME NEW d \in Emitters
        PROVE  /\ thread'[d].pc \in {"idle", "add", "replay", "get"} \cup Removing
               /\ thread'[d].pc # "idle" => thread'[d].at = emitter'[d].user
               /\ thread'[d].pc \in {"add", "replay"} => emitter'[d].life = "open"
               /\ thread'[d].pc \in {"get"} \cup Removing => emitter'[d].life = "complete"
               /\ thread'[d].pc \in {"get", "drop"} => d \in thread'[d].victim
    <3>1. CASE d = e
      BY <1>2, <1>4, <1>5, <1>6, <3>1 DEF Removing
    <3>2. CASE d # e
      BY <1>1, <1>5, <1>6, <3>2, Threading DEF RoleInv
    <3> QED
      BY <3>1, <3>2
  <2>2. ASSUME NEW s \in Threads, NEW d \in thread'[s].victim
        PROVE  emitter'[d].life \in {"failed", "complete"}
    <3>1. CASE s = e
      BY <1>4, <1>5, <1>6, <2>2, <3>1
    <3>2. CASE s # e
      <4>1. d \in thread[s].victim
        BY <1>5, <2>2, <3>2
      <4>2. d \in Emitters /\ emitter[d].life \in {"failed", "complete"}
        BY <1>1, <4>1, RecordLemma DEF RoleInv
      <4> QED
        BY <1>6, <4>2
    <3> QED
      BY <3>1, <3>2
  <2> QED
    BY <2>1, <2>2 DEF RoleInv
<1> QED
  BY <1>4, <1>8, <1>9, SmallStep DEF Removing

(* The role of thread e, whose stream is open and was new or open before.  *)
LEMMA SubscriberRole ==
  ASSUME Types, RoleInv, NEW e \in Emitters, NEW q \in Records,
         thread' = [thread EXCEPT ![e] = q],
         \A d \in Emitters : d # e => emitter'[d] = emitter[d],
         emitter[e].life \in {"new", "open"}, emitter'[e].life = "open",
         q.pc \in {"add", "replay"}, q.at = emitter'[e].user, q.victim = {}
  PROVE  RoleInv'
<1>1. \A s \in Threads : thread'[s] = IF s = e THEN q ELSE thread[s]
  BY ThreadLemma, Threading
<1>2. ASSUME NEW d \in Emitters
      PROVE  /\ thread'[d].pc \in {"idle", "add", "replay", "get"} \cup Removing
             /\ thread'[d].pc # "idle" => thread'[d].at = emitter'[d].user
             /\ thread'[d].pc \in {"add", "replay"} => emitter'[d].life = "open"
             /\ thread'[d].pc \in {"get"} \cup Removing => emitter'[d].life = "complete"
             /\ thread'[d].pc \in {"get", "drop"} => d \in thread'[d].victim
  <2>1. CASE d = e
    BY <1>1, <2>1, Threading DEF Removing
  <2>2. CASE d # e
    BY <1>1, <2>2, Threading DEF RoleInv
  <2> QED
    BY <2>1, <2>2
<1>3. ASSUME NEW s \in Threads, NEW d \in thread'[s].victim
      PROVE  emitter'[d].life \in {"failed", "complete"}
  <2>1. d \in thread[s].victim
    BY <1>1, <1>3
  <2>2. d \in Emitters /\ emitter[d].life \in {"failed", "complete"}
    BY <2>1, RecordLemma DEF RoleInv
  <2> QED
    BY <2>2
<1> QED
  BY <1>2, <1>3 DEF RoleInv

LEMMA SubscribeStep ==
  ASSUME ManagerInv, NEW e \in Emitters, NEW u \in Users, NEW lastId \in SUBSET Ids,
         Subscribe(e, u, lastId), Overlaps
  PROVE  ManagerInv'
<1> DEFINE list == ComputeIfAbsent(u, e)
           q == [Idle EXCEPT !.pc = "add", !.at = {u}, !.list = list, !.lastId = lastId]
<1>1. /\ Types /\ RoleInv /\ NewInv /\ MapInv /\ DeadInv /\ emitter[e].life = "new"
      /\ emitter' = [emitter EXCEPT ![e] = [life |-> "open", user |-> {u}]]
      /\ userConnections' = [userConnections EXCEPT ![u] = list]
      /\ thread' = [thread EXCEPT ![e] = q]
      /\ heap' = heap /\ overlapped' = overlapped \cup Overlapping'
  BY DEF ManagerInv, Subscribe, Overlaps
<1>2. /\ list \in Few(Lists) /\ list # {} /\ {u} \in Few(Users)
      /\ userConnections[u] = {} => list = {e}
      /\ userConnections[u] # {} => list = userConnections[u]
  BY <1>1, FewOne DEF ComputeIfAbsent, Types, Lists
<1> HIDE DEF list
<1>3. q \in Records /\ q.pc = "add" /\ q.at = {u} /\ q.list = list /\ q.victim = {}
  BY <1>2, IdleLemma DEF Records, Stages
<1> HIDE DEF q
<1>4. /\ e \in Threads /\ thread' \in [Threads -> Records]
      /\ \A s \in Threads : thread'[s] = IF s = e THEN q ELSE thread[s]
  <2>1. Types /\ e \in Threads /\ thread' = [thread EXCEPT ![e] = q]
    BY <1>1, Threading
  <2> QED
    BY <1>3, <2>1, ThreadLemma
<1>5. /\ emitter' \in [Emitters -> [life : Lives, user : Few(Users)]]
      /\ \A d \in Emitters : d # e => emitter'[d] = emitter[d]
      /\ emitter'[e].life = "open" /\ emitter'[e].user = {u}
  BY <1>1, <1>2 DEF Types, Lives
<1>6. /\ userConnections' \in [Users -> Few(Lists)]
      /\ \A w \in Users : userConnections'[w] = IF w = u THEN list ELSE userConnections[w]
  BY <1>1, <1>2 DEF Types
<1>7. Overlapping' \subseteq Emitters
  BY DEF Overlapping
<1>8. Types'
  BY <1>1, <1>4, <1>5, <1>6, <1>7 DEF Types
<1>9. RoleInv'
  BY <1>1, <1>3, <1>5, SubscriberRole
<1>10. \A w \in Users : userConnections[w] # {} => userConnections'[w] = userConnections[w]
  BY <1>2, <1>6
<1>11. \A d \in Emitters : emitter[d].user \in Few(Users)
  BY <1>1 DEF Types
<1>12. \A d \in Emitters : d # e => d \in Threads /\ thread'[d] = thread[d]
  BY <1>4, Threading
<1>13. NewInv'
  <2>1. ASSUME NEW l \in Emitters, emitter'[l].life = "new"
        PROVE  /\ heap'[l] = {} /\ \A w \in Users : l \notin userConnections'[w]
               /\ \A d \in Emitters : thread'[d].pc = "add" => l \notin thread'[d].list
    <3>1. l # e /\ emitter[l].life = "new"
      BY <1>5, <2>1
    <3>2. /\ heap[l] = {} /\ \A w \in Users : l \notin userConnections[w]
          /\ \A d \in Emitters : thread[d].pc = "add" => l \notin thread[d].list
      BY <1>1, <3>1 DEF NewInv
    <3>3. l \notin list
      BY <1>2, <3>1, <3>2
    <3> QED
      BY <1>1, <1>3, <1>4, <1>6, <1>12, <3>2, <3>3
  <2> QED
    BY <2>1 DEF NewInv
<1>14. ASSUME NEW d \in Emitters, Safe(d)'
       PROVE  d # e /\ Safe(d) /\ emitter'[d] = emitter[d]
  BY <1>1, <1>3, <1>4, <1>5, <1>12, <1>14 DEF Safe
<1>15. MapInv'
  <2>1. ASSUME NEW d \in Emitters, thread'[d].pc = "add", d \notin overlapped'
        PROVE  \E w \in emitter'[d].user :
                 thread'[d].list = userConnections'[w] /\ userConnections'[w] # {}
    <3>1. CASE d = e
      BY <1>2, <1>3, <1>4, <1>5, <1>6, <3>1
    <3>2. CASE d # e
      <4>1. thread[d].pc = "add" /\ d \notin overlapped
        BY <1>1, <1>12, <2>1, <3>2
      <4>2. PICK w \in emitter[d].user :
              thread[d].list = userConnections[w] /\ userConnections[w] # {}
        BY <1>1, <4>1 DEF MapInv
      <4>3. userConnections'[w] = userConnections[w]
        BY <1>10, <1>11, <4>2 DEF Few
      <4> QED
        BY <1>5, <1>12, <3>2, <4>2, <4>3
    <3> QED
      BY <3>1, <3>2
  <2>2. ASSUME NEW d \in Emitters, Safe(d)'
        PROVE  Reachable(d)' /\ \E w \in emitter[d].user : userConnections[w] # {}
    <3>1. PICK w \in emitter[d].user : d \in In(userConnections[w])
      BY <1>1, <1>14, <2>2 DEF MapInv, Reachable
    <3>2. userConnections[w] # {} /\ w \in Users
      <4>1. \A v \in emitter[d].user : v \in Users
        BY <1>11 DEF Few
      <4> QED
        BY <3>1, <4>1 DEF In
    <3>3. PICK l \in userConnections[w] : d \in heap[l]
      BY <3>1 DEF In
    <3>4. l \in userConnections'[w] /\ d \in heap'[l] /\ w \in emitter'[d].user
      BY <1>1, <1>10, <1>14, <2>2, <3>2, <3>3
    <3> QED
      BY <3>2, <3>4 DEF Reachable, In
  <2>3. ASSUME NEW s \in Threads, NEW d \in Emitters,
               thread'[s].pc \in Removing, Safe(d)', thread'[s].at = emitter'[d].user
        PROVE  /\ thread'[s].pc # "unmap"
               /\ \A w \in thread'[s].at : thread'[s].list = userConnections'[w]
    <3>1. thread'[s] = thread[s]
      BY <1>3, <1>4, <2>3 DEF Removing
    <3>2. /\ thread[s].pc # "unmap"
          /\ \A w \in thread[s].at : thread[s].list = userConnections[w]
      BY <1>1, <1>14, <2>3, <3>1 DEF MapInv
    <3>3. PICK v \in emitter[d].user : userConnections[v] # {}
      BY <2>2, <2>3
    <3>4. \A w \in emitter[d].user : w = v /\ w \in Users
      BY <1>11, <3>3 DEF Few
    <3>5. \A w \in emitter[d].user : userConnections'[w] = userConnections[w]
      BY <1>10, <3>3, <3>4
    <3> QED
      BY <1>14, <2>3, <3>1, <3>2, <3>5
  <2> QED
    BY <1>1, <2>1, <2>2, <2>3 DEF MapInv
<1>16. DeadInv'
  <2>1. ASSUME NEW d \in Emitters, emitter'[d].life = "complete"
        PROVE  /\ thread'[d].pc \notin {"get", "drop"} => ~Reachable(d)'
               /\ thread'[d].pc = "drop" =>
                    \A w \in emitter'[d].user : \A l \in userConnections'[w] :
                      d \in heap'[l] => l \in thread'[d].list
    <3>1. d # e /\ emitter'[d] = emitter[d] /\ thread'[d] = thread[d]
      BY <1>5, <1>12, <2>1
    <3>2. heap[e] = {}
      BY <1>1 DEF NewInv
    <3>3. \A w \in emitter[d].user : \A l \in userConnections'[w] :
            d \in heap[l] => l \in userConnections[w]
      BY <1>2, <1>6, <1>11, <3>2 DEF Few
    <3>4. Reachable(d)' => Reachable(d)
      <4>1. SUFFICES ASSUME Reachable(d)' PROVE Reachable(d)
        OBVIOUS
      <4>2. PICK w \in emitter[d].user : \E l \in userConnections'[w] : d \in heap[l]
        BY <1>1, <3>1, <4>1 DEF Reachable, In
      <4>3. \E l \in userConnections[w] : d \in heap[l]
        BY <3>3, <4>2
      <4> QED
        BY <4>2, <4>3 DEF Reachable, In
    <3> QED
      BY <1>1, <2>1, <3>1, <3>3, <3>4 DEF DeadInv
  <2> QED
    BY <2>1 DEF DeadInv
<1> QED
  BY <1>8, <1>9, <1>13, <1>15, <1>16 DEF ManagerInv

LEMMA SubscribeAddStep ==
  ASSUME ManagerInv, NEW e \in Emitters, SubscribeAdd(e), Overlaps
  PROVE  ManagerInv'
<1> DEFINE q == [thread[e] EXCEPT !.pc = "replay"]
<1>1. /\ Types /\ RoleInv /\ NewInv /\ MapInv /\ DeadInv /\ thread[e].pc = "add"
      /\ thread' = [thread EXCEPT ![e] = q]
      /\ heap' = [l \in Lists |-> IF l \in thread[e].list THEN heap[l] \cup {e} ELSE heap[l]]
      /\ UNCHANGED <<userConnections, emitter>> /\ overlapped' = overlapped \cup Overlapping'
  BY DEF ManagerInv, SubscribeAdd, Goto, Overlaps
<1>2. e \in Threads /\ emitter[e].life = "open"
  BY <1>1, Threading DEF RoleInv
<1>3. thread[e] \in Records
  BY <1>1, <1>2, RecordLemma
<1>4. /\ q \in Records /\ q.pc = "replay" /\ q.at = thread[e].at
      /\ q.victim = thread[e].victim
  BY <1>3 DEF Records, Stages
<1> HIDE DEF q
<1>5. /\ thread' \in [Threads -> Records]
      /\ \A s \in Threads : thread'[s] = IF s = e THEN q ELSE thread[s]
  <2>1. Types /\ e \in Threads /\ thread' = [thread EXCEPT ![e] = q]
    BY <1>1, <1>2
  <2> QED
    BY <1>4, <2>1, ThreadLemma
<1>6. \A d \in Emitters : d # e => d \in Threads /\ thread'[d] = thread[d]
  BY <1>5, Threading
<1>7. KeepsRole(e, q)
  BY <1>1, <1>4 DEF KeepsRole, Removing
<1>8. RoleInv'
  BY <1>1, <1>2, <1>7, RoleStep
<1>9. /\ heap' \in [Lists -> SUBSET Emitters]
      /\ \A l \in Lists : heap'[l] = IF l \in thread[e].list THEN heap[l] \cup {e} ELSE heap[l]
  BY <1>1 DEF Types
<1>10. Types'
  <2>1. Overlapping' \subseteq Emitters
    BY DEF Overlapping
  <2> QED
    BY <1>1, <1>5, <1>9, <2>1 DEF Types
<1>11. \A d \in Emitters : \A w \in emitter[d].user : w \in Users /\ userConnections[w] \subseteq Lists
  BY <1>1 DEF Types, Few
<1>12. \A d \in Emitters : thread'[d].pc = "add" => d # e /\ thread[d].pc = "add" /\ thread'[d] = thread[d]
  BY <1>2, <1>4, <1>5, <1>6
<1>13. NewInv'
  <2>1. \A l \in Emitters : emitter[l].life = "new" => heap'[l] = heap[l]
    BY <1>1, <1>9 DEF NewInv, Lists
  <2> QED
    BY <1>1, <1>12, <2>1 DEF NewInv
<1>14. \A d \in Emitters : Safe(d)' => emitter[d].life = "open" /\ d \notin overlapped
                                         /\ (d # e => Safe(d))
  BY <1>1, <1>6 DEF Safe
<1>15. MapInv'
  <2>1. \A d \in Emitters : thread'[d].pc = "add" /\ d \notin overlapped' =>
          \E w \in emitter'[d].user :
            thread'[d].list = userConnections'[w] /\ userConnections'[w] # {}
    BY <1>1, <1>12 DEF MapInv
  <2>2. ASSUME NEW d \in Emitters, Safe(d)'
        PROVE  Reachable(d)'
    <3>1. \E w \in emitter[d].user : \E l \in userConnections[w] : d \in heap'[l]
      <4>1. CASE d = e
        <5>1. PICK w \in emitter[e].user :
                thread[e].list = userConnections[w] /\ userConnections[w] # {}
          BY <1>1, <1>14, <2>2, <4>1 DEF MapInv
        <5>2. PICK l \in userConnections[w] : TRUE
          BY <5>1
        <5>3. l \in Lists /\ l \in thread[e].list
          BY <1>11, <5>1, <5>2
        <5>4. e \in heap'[l]
          BY <1>9, <5>3
        <5> QED
          BY <4>1, <5>2, <5>4
      <4>2. CASE d # e
        <5>1. PICK w \in emitter[d].user : \E l \in userConnections[w] : d \in heap[l]
          BY <1>1, <1>14, <2>2, <4>2 DEF MapInv, Reachable, In
        <5>2. \A l \in userConnections[w] : heap[l] \subseteq heap'[l]
          BY <1>9, <1>11
        <5> QED
          BY <5>1, <5>2
      <4> QED
        BY <4>1, <4>2
    <3> QED
      BY <1>1, <3>1 DEF Reachable, In
  <2>3. ASSUME NEW s \in Threads, NEW d \in Emitters,
               thread'[s].pc \in Removing, Safe(d)', thread'[s].at = emitter'[d].user
        PROVE  /\ thread'[s].pc # "unmap"
               /\ \A w \in thread'[s].at : thread'[s].list = userConnections'[w]
    <3>1. thread'[s] = thread[s]
      BY <1>4, <1>5, <2>3 DEF Removing
    <3>2. d # e
      <4>1. SUFFICES ASSUME d = e PROVE FALSE
        OBVIOUS
      <4>2. thread[s].at = thread[e].at /\ thread[s].pc \in {"drop", "check", "unmap"}
        BY <1>1, <2>3, <3>1, <4>1 DEF RoleInv, Removing
      <4>3. e \in Overlapping
        BY <1>1, <4>2 DEF Overlapping
      <4> QED
        BY <1>1, <1>14, <2>3, <4>1, <4>3 DEF MapInv
    <3> QED
      BY <1>1, <1>14, <2>3, <3>1, <3>2 DEF MapInv
  <2> QED
    BY <1>1, <2>1, <2>2, <2>3 DEF MapInv
<1>16. DeadInv'
  <2>1. ASSUME NEW d \in Emitters, emitter'[d].life = "complete"
        PROVE  /\ thread'[d].pc \notin {"get", "drop"} => ~Reachable(d)'
               /\ thread'[d].pc = "drop" =>
                    \A w \in emitter'[d].user : \A l \in userConnections'[w] :
                      d \in heap'[l] => l \in thread'[d].list
    <3>1. d # e /\ emitter[d].life = "complete" /\ thread'[d] = thread[d]
      BY <1>1, <1>2, <1>6, <2>1
    <3>2. \A w \in emitter[d].user : \A l \in userConnections[w] :
            d \in heap'[l] => d \in heap[l]
      BY <1>9, <1>11, <3>1
    <3>3. Reachable(d)' => Reachable(d)
      BY <1>1, <3>2 DEF Reachable, In
    <3> QED
      BY <1>1, <3>1, <3>2, <3>3 DEF DeadInv
  <2> QED
    BY <2>1 DEF DeadInv
<1> QED
  BY <1>8, <1>10, <1>13, <1>15, <1>16 DEF ManagerInv

-----------------------------------------------------------------------------
(* What is cached and what was sent.                                       *)

LEMMA ArchiveStep ==
  ASSUME Archive, ManagerInv, Step
  PROVE  Archive'
<1>1. Types /\ RoleInv
  BY DEF ManagerInv
<1>2. CASE UNCHANGED <<eventCache, received>>
  BY <1>2 DEF Archive
<1>3. ASSUME NEW e \in Emitters, SubscribeReplay(e)
      PROVE  Archive'
  <2>1. eventCache' = eventCache
    BY <1>3 DEF SubscribeReplay
  <2> DEFINE events == UNION {After(eventCache[u], thread[e].lastId) : u \in thread[e].at}
             batch == {[event |-> v, id |-> v] : v \in events}
  <2>2. thread[e].at \subseteq Users
    BY <1>1, RecordLemma, Threading DEF Few
  <2>3. \A u \in Users : \A j \in DOMAIN eventCache[u] : eventCache[u][j] \in Senders
    BY DEF Archive
  <2>4. \A u \in Users : After(eventCache[u], thread[e].lastId) \subseteq Senders
    BY <2>3 DEF After
  <2>5. events \subseteq Senders
    BY <2>2, <2>4
  <2> HIDE DEF events
  <2>6. batch \subseteq [event : Senders, id : Ids]
    BY <2>5 DEF Ids
  <2>7. received' = [received EXCEPT ![e] = @ \cup batch]
    BY <1>3 DEF SubscribeReplay, events
  <2> HIDE DEF batch
  <2> QED
    BY <2>1, <2>6, <2>7 DEF Archive
<1>4. ASSUME NEW s \in Senders, SendCache(s), eventCache' # eventCache
      PROVE  Archive'
  <2>1. eventCache' = Remember(s, thread[s].at) /\ received' = received
    BY <1>4 DEF SendCache
  <2>2. \A u \in Users : Append(eventCache[u], s) \in Seq(Senders)
    BY DEF Archive
  <2> QED
    BY <2>1, <2>2 DEF Archive, Remember
<1>5. ASSUME NEW t \in Threads, NEW e \in Emitters, Deliver(t, e), received' # received
      PROVE  Archive'
  <2>1. t \notin Emitters
    BY <1>1, <1>5, LoopPc DEF Deliver
  <2>2. t \in Senders
    BY <1>5, <2>1, Threading DEF Deliver
  <2> DEFINE sent == [event |-> t, id |-> IdSent(t)]
  <2>3. sent \in [event : Senders, id : Ids]
    BY <2>2 DEF IdSent, Ids
  <2>4. received' = [received EXCEPT ![e] = @ \cup {sent}] /\ eventCache' = eventCache
    BY <1>5 DEF Deliver
  <2> HIDE DEF sent
  <2> QED
    BY <2>3, <2>4 DEF Archive
<1>6. ASSUME NEW t \in Threads, Proceed(t)
      PROVE  Archive'
  <2>1. CASE t \in Emitters /\ (SubscribeAdd(t) \/ SubscribeReplay(t))
    BY <1>2, <1>3, <2>1 DEF SubscribeAdd
  <2>2. CASE RemoveGet(t) \/ RemoveDrop(t) \/ RemoveCheck(t) \/ RemoveUnmap(t)
    BY <1>2, <2>2 DEF RemoveGet, RemoveDrop, RemoveCheck, RemoveUnmap
  <2>3. CASE Lookup(t) \/ Copy(t) \/ LoopEnd(t)
    BY <1>2, <2>3 DEF Lookup, Copy, LoopEnd
  <2>4. CASE t \in Senders /\ SendCache(t)
    <3>1. received' = received
      BY <2>4 DEF SendCache
    <3> QED
      BY <1>2, <1>4, <2>4, <3>1
  <2>5. ASSUME NEW e \in Emitters, Deliver(t, e) \/ DeliverFails(t, e) \/ DeliverThrows(t, e)
        PROVE  Archive'
    <3>1. CASE Deliver(t, e)
      <4>1. eventCache' = eventCache
        BY <3>1 DEF Deliver
      <4> QED
        BY <1>2, <1>5, <3>1, <4>1
    <3>2. CASE DeliverFails(t, e) \/ DeliverThrows(t, e)
      BY <1>2, <3>2 DEF DeliverFails, DeliverThrows
    <3> QED
      BY <2>5, <3>1, <3>2
  <2> QED
    BY <1>6, <2>1, <2>2, <2>3, <2>4, <2>5 DEF Proceed
<1>7. Start => UNCHANGED <<eventCache, received>>
  BY DEF Start, Subscribe, Send, SendPing
<1>8. ASSUME NEW e \in Emitters, ClientLeaves(e) \/ Complete(e)
      PROVE  UNCHANGED <<eventCache, received>>
  BY <1>8 DEF ClientLeaves, Complete
<1> QED
  BY <1>2, <1>6, <1>7, <1>8 DEF Step

-----------------------------------------------------------------------------
(* The invariant and what follows from it.                                 *)

LEMMA ProceedStep ==
  ASSUME ManagerInv, NEW t \in Threads, Proceed(t), Overlaps
  PROVE  ManagerInv'
<1>1. CASE t \in Emitters /\ (SubscribeAdd(t) \/ SubscribeReplay(t))
  BY <1>1, SubscribeAddStep, SubscribeReplayStep
<1>2. CASE RemoveGet(t) \/ RemoveDrop(t) \/ RemoveCheck(t) \/ RemoveUnmap(t)
  BY <1>2, RemoveGetStep, RemoveDropStep, RemoveCheckStep, RemoveUnmapStep
<1>3. CASE Lookup(t) \/ Copy(t)
  BY <1>3, LookupStep, CopyStep
<1>4. CASE LoopEnd(t)
  <2>1. t \notin Emitters /\ thread[t].pc # "add" /\ NextUser(t) /\ UNCHANGED Shared
    BY <1>4, LoopPc DEF LoopEnd, ManagerInv, Shared
  <2> QED
    BY <2>1, FinishStep
<1>5. CASE t \in Senders /\ SendCache(t)
  BY <1>5, SendCacheStep
<1>6. ASSUME NEW e \in Emitters, Deliver(t, e) \/ DeliverFails(t, e) \/ DeliverThrows(t, e)
      PROVE  ManagerInv'
  BY <1>6, DeliverStep
<1> QED
  BY <1>1, <1>2, <1>3, <1>4, <1>5, <1>6 DEF Proceed

LEMMA StartStep ==
  ASSUME ManagerInv, Archive, Start, Overlaps
  PROVE  ManagerInv'
<1>1. ASSUME NEW e \in Emitters, NEW u \in Users,
             NEW lastId \in {{}} \cup {{i} : i \in IdsOf(u)}, Subscribe(e, u, lastId)
      PROVE  ManagerInv'
  <2>1. \A d \in Emitters : \A r \in received[d] : r.id \in Ids
    BY DEF Archive
  <2>2. IdsOf(u) \subseteq Ids
    BY <2>1 DEF IdsOf
  <2>3. lastId \in SUBSET Ids
    BY <2>2
  <2> QED
    BY <1>1, <2>3, SubscribeStep
<1>2. Mapped \in SUBSET Users /\ \A u \in Users : {u} \in SUBSET Users
  BY DEF Mapped
<1>3. ASSUME NEW s \in Senders, NEW users \in SUBSET Users, Send(s, users)
      PROVE  ManagerInv'
  <2>1. s \in Threads /\ s \notin Emitters
    BY Threading
  <2> QED
    BY <1>3, <2>1, StartLoop DEF Send, Shared
<1>4. CASE SendPing
  BY <1>2, <1>4, StartLoop, Threading DEF SendPing, Pinged, Shared
<1> QED
  BY <1>1, <1>2, <1>3, <1>4 DEF Start

(* The map of connections, the lists, the streams and the threads agree in *)
(* every state: lists are shared only as computeIfAbsent shares them, a    *)
(* removal never has an open stream for its victim, and it finds no stream *)
(* to lose but one whose subscription it overlapped.                       *)
THEOREM ManagerInductive == Spec => [](ManagerInv /\ Archive)
<1>1. Init => ManagerInv /\ Archive
  <2> SUFFICES ASSUME Init PROVE ManagerInv /\ Archive
    OBVIOUS
  <2>1. /\ \A e \in Emitters : emitter[e].life = "new" /\ emitter[e].user = {}
        /\ \A t \in Threads : thread[t] = Idle
        /\ \A u \in Users : userConnections[u] = {} /\ \A l \in Lists : heap[l] = {}
        /\ overlapped = {}
    BY DEF Init
  <2>2. Overlapping = {}
    BY <2>1, IdleLemma, Threading DEF Overlapping
  <2>3. Types
    BY <2>1, IdleLemma, FewOne DEF Init, Types, Lives
  <2>4. RoleInv
    BY <2>1, IdleLemma, Threading DEF RoleInv, Removing
  <2>5. NewInv
    <3>1. \A l \in Emitters : heap[l] = {}
      BY DEF Init, Lists
    <3> QED
      BY <2>1, <3>1, IdleLemma, Threading DEF NewInv
  <2>6. MapInv
    BY <2>1, <2>2, IdleLemma, Threading DEF MapInv, Safe, Removing
  <2>7. DeadInv
    BY <2>1 DEF DeadInv
  <2>8. Archive
    BY DEF Init, Archive
  <2> QED
    BY <2>3, <2>4, <2>5, <2>6, <2>7, <2>8 DEF ManagerInv
<1>2. ManagerInv /\ Archive /\ [Next]_vars => (ManagerInv /\ Archive)'
  <2> SUFFICES ASSUME ManagerInv, Archive, [Next]_vars PROVE ManagerInv' /\ Archive'
    OBVIOUS
  <2>1. CASE Next
    <3>1. Step /\ Overlaps
      BY <2>1 DEF Next, Overlaps
    <3>2. Archive'
      BY <3>1, ArchiveStep
    <3>3. ManagerInv'
      BY <3>1, ProceedStep, StartStep, ClientLeavesStep, CompleteStep DEF Step
    <3> QED
      BY <3>2, <3>3
  <2>2. CASE UNCHANGED vars
    <3>1. ManagerInv'
      BY <2>2 DEF vars, state, ManagerInv, Types, RoleInv, NewInv, MapInv, DeadInv, Safe,
                  Reachable, In, Overlapping
    <3>2. Archive'
      BY <2>2 DEF vars, state, Archive
    <3> QED
      BY <3>1, <3>2
  <2> QED
    BY <2>1, <2>2
<1> QED
  BY <1>1, <1>2, PTL DEF Spec

(* Every variable keeps its type, whatever the number of streams, senders  *)
(* and users, and a user never has two lists.                              *)
THEOREM TypeCorrect == Spec => []TypeOK
<1>1. ManagerInv /\ Archive => TypeOK
  <2> SUFFICES ASSUME ManagerInv, Archive PROVE TypeOK
    OBVIOUS
  <2>1. \A u \in Users : Cardinality(userConnections[u]) <= 1
    <3>1. SUFFICES ASSUME NEW u \in Users PROVE Cardinality(userConnections[u]) <= 1
      OBVIOUS
    <3>2. userConnections[u] \in Few(Lists)
      BY DEF ManagerInv, Types
    <3>3. userConnections[u] = {} \/ \E x \in Lists : userConnections[u] = {x}
      BY <3>2, FewOne
    <3>4. CASE userConnections[u] = {}
      BY <3>4, FS_EmptySet
    <3>5. ASSUME NEW x \in Lists, userConnections[u] = {x}
          PROVE  Cardinality(userConnections[u]) <= 1
      <4>1. Cardinality({x}) = 1
        BY FS_Singleton
      <4> QED
        BY <3>5, <4>1
    <3> QED
      BY <3>3, <3>4, <3>5
  <2>2. \A S : Few(S) \subseteq SUBSET S
    BY DEF Few
  <2>3. userConnections \in [Users -> SUBSET Lists]
    BY <2>2 DEF ManagerInv, Types
  <2>4. emitter \in [Emitters -> [life : Lives, user : SUBSET Users]]
    BY <2>2 DEF ManagerInv, Types
  <2>5. thread \in [Threads -> [pc : Stages, users : SUBSET Users, at : SUBSET Users,
          list : SUBSET Lists, todo : SUBSET Emitters, victim : SUBSET Emitters,
          lastId : SUBSET Ids]]
    BY <2>2 DEF ManagerInv, Types, Records
  <2> QED
    BY <2>1, <2>3, <2>4, <2>5 DEF TypeOK, ManagerInv, Types, Archive
<1> QED
  BY <1>1, ManagerInductive, PTL

(* Once every callback and every loop is through, no stream that was       *)
(* completed is in a list its user is mapped to: the callbacks and the     *)
(* loops leave nothing behind.                                             *)
THEOREM NoneRetained == Spec => []NoDeadRetained
<1>1. ManagerInv => NoDeadRetained
  <2> SUFFICES ASSUME ManagerInv, Quiet, NEW e \in Emitters, emitter[e].life = "complete"
               PROVE  ~Reachable(e)
    BY DEF NoDeadRetained
  <2>1. thread[e].pc \in {"idle", "done"}
    BY Threading DEF Quiet, AtRest
  <2> QED
    BY <2>1 DEF ManagerInv, DeadInv
<1> QED
  BY <1>1, ManagerInductive, PTL

(* An open stream that no event and no ping would find was subscribed      *)
(* while a removal of the same user was under way: there is no other way   *)
(* for the manager to lose a stream.                                       *)
THEOREM LossesExplained == Spec => []LostHasCause
<1>1. ManagerInv => LostHasCause
  <2> SUFFICES ASSUME ManagerInv, Quiet, NEW e \in Emitters, emitter[e].life = "open",
                      e \notin overlapped
               PROVE  Reachable(e)
    BY DEF LostHasCause
  <2>1. thread[e].pc \in {"idle", "done"}
    BY Threading DEF Quiet, AtRest
  <2>2. Safe(e)
    BY <2>1 DEF Safe
  <2> QED
    BY <2>2 DEF ManagerInv, MapInv
<1> QED
  BY <1>1, ManagerInductive, PTL
=============================================================================
