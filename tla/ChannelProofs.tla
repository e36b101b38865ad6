---------------------------- MODULE ChannelProofs ----------------------------
(***************************************************************************)
(* Proofs about the messages of a channel (MessagePaging), for any         *)
(* authors, any finite set of messages, any page size and any bound of the *)
(* clock; and about the channels and their lists (ChannelDirectory), for   *)
(* any users, channels and requests.  The two have no name in common.      *)
(***************************************************************************)
EXTENDS MessagePaging, ChannelDirectory, FiniteSetTheorems, WellFoundedInduction, TLAPS

Left == {m \in Stored : Before(m, reader.cursor)}
Times == 0 .. MaxTime

(* Whatever changes the tables and leaves the client alone.                *)
Write ==
  \/ \E m \in Messages : \/ \E a \in Authors : Create(m, a)
                         \/ CreateCommits(m) \/ CreateFails(m) \/ Delete(m)
  \/ ChannelDeleted \/ Tick \/ \E u \in Authors : AuthorDeleted(u)

LEMMA StepKinds == [PagingNext]_pagingVars => Write \/ Ask \/ Query \/ UNCHANGED pagingVars
  BY DEF PagingNext, Write

-----------------------------------------------------------------------------
(* Pages.                                                                  *)

LEMMA FiniteMessages ==
  ASSUME NEW S \in SUBSET Messages
  PROVE  IsFiniteSet(S) /\ Cardinality(S) \in Nat
  BY PagingConstants, FS_Subset, FS_CardinalityType

(* A page holds PageSize messages at most; it is everything that is left   *)
(* unless there are more than PageSize.                                    *)
LEMMA PageLemma ==
  ASSUME NEW rows \in SUBSET Messages, NEW p \in Pages(rows)
  PROVE  /\ p \in SUBSET rows
         /\ Cardinality(p) <= PageSize
         /\ HasNext(rows) => p # {}
         /\ ~HasNext(rows) => p = rows
<1>1. p \in SUBSET rows /\ p \in SUBSET Messages
  BY DEF Pages
<1>2. /\ IsFiniteSet(rows) /\ Cardinality(rows) \in Nat
      /\ IsFiniteSet(p) /\ Cardinality(p) \in Nat
  BY <1>1, FiniteMessages
<1>3. Cardinality(p) = IF Cardinality(rows) < PageSize THEN Cardinality(rows) ELSE PageSize
  BY DEF Pages
<1>4. PageSize \in Nat \ {0}
  BY PagingConstants
<1>5. Cardinality(p) <= PageSize
  BY <1>2, <1>3, <1>4
<1>6. ASSUME HasNext(rows) PROVE p # {}
  <2>1. Cardinality(p) # 0
    BY <1>2, <1>3, <1>4, <1>6 DEF HasNext
  <2> QED
    BY <2>1, FS_EmptySet
<1>7. ASSUME ~HasNext(rows) PROVE p = rows
  <2>1. Cardinality(rows) = Cardinality(p)
    BY <1>2, <1>3, <1>4, <1>7 DEF HasNext
  <2> QED
    BY <1>1, <1>2, <2>1, FS_Subset
<1> QED
  BY <1>1, <1>5, <1>6, <1>7

LEMMA Smallest ==
  ASSUME NEW S \in SUBSET Nat, S # {}
  PROVE  \E x \in S : \A y \in S : x <= y
<1>1. PICK x \in S : \A y \in S : <<y, x>> \notin OpToRel(<, Nat)
  BY WFMin, NatLessThanWellFounded
<1>2. \A y \in S : ~(y < x)
  BY <1>1 DEF OpToRel
<1> QED
  BY <1>2

(* The last message of a page is one of its oldest.                        *)
LEMMA LastLemma ==
  ASSUME PagingTypeOK, NEW p \in SUBSET Messages
  PROVE  /\ Last(p) \in SUBSET Times
         /\ \A t \in Last(p) : \E x \in p : msg[x].time = t
         /\ \A t \in Last(p), m \in p : t <= msg[m].time
         /\ \A s, t \in Last(p) : s = t
         /\ p # {} => Last(p) # {}
<1>1. \A m \in p : msg[m].time \in Times
  BY DEF PagingTypeOK, Times
<1>2. Times \subseteq Nat
  BY PagingConstants DEF Times
<1>3. \A t \in Last(p) : \E x \in p : msg[x].time = t /\ \A n \in p : msg[x].time <= msg[n].time
  BY DEF Last
<1>4. ASSUME NEW s \in Last(p), NEW t \in Last(p) PROVE s = t
  <2>1. PICK x \in p : msg[x].time = s /\ \A n \in p : msg[x].time <= msg[n].time
    BY <1>3
  <2>2. PICK y \in p : msg[y].time = t /\ \A n \in p : msg[y].time <= msg[n].time
    BY <1>3
  <2>3. s <= t /\ t <= s /\ s \in Nat /\ t \in Nat
    BY <1>1, <1>2, <2>1, <2>2
  <2> QED
    BY <2>3
<1>5. ASSUME p # {} PROVE Last(p) # {}
  <2> DEFINE T == {msg[m].time : m \in p}
  <2>1. T \in SUBSET Nat /\ T # {}
    BY <1>1, <1>2, <1>5
  <2>2. PICK s \in T : \A y \in T : s <= y
    BY <2>1, Smallest
  <2>3. PICK x \in p : msg[x].time = s
    OBVIOUS
  <2>4. \A n \in p : msg[x].time <= msg[n].time
    BY <2>2, <2>3
  <2> QED
    BY <2>3, <2>4 DEF Last
<1> QED
  BY <1>1, <1>3, <1>4, <1>5

LEMMA OneAtMost ==
  ASSUME NEW S, \A s, t \in S : s = t
  PROVE  Cardinality(S) <= 1
<1>1. CASE S = {}
  BY <1>1, FS_EmptySet
<1>2. CASE S # {}
  <2>1. PICK s \in S : TRUE
    BY <1>2
  <2>2. S = {s}
    BY <2>1
  <2>3. Cardinality({s}) = 1
    BY FS_Singleton
  <2> QED
    BY <2>2, <2>3
<1> QED
  BY <1>1, <1>2

-----------------------------------------------------------------------------
(* Type correctness.                                                       *)

LEMMA TypeInit == PagingInit => PagingTypeOK
<1> SUFFICES ASSUME PagingInit PROVE PagingTypeOK
  OBVIOUS
<1>1. Cardinality({}) = 0
  BY FS_EmptySet
<1> QED
  BY <1>1, PagingConstants DEF PagingInit, PagingTypeOK, NoPage, States, ReaderStages

LEMMA TypeWrite == PagingTypeOK /\ Write => PagingTypeOK'
<1> SUFFICES ASSUME PagingTypeOK, Write PROVE PagingTypeOK'
  OBVIOUS
<1>0. reader' = reader
  BY DEF Write, Create, CreateCommits, CreateFails, Delete, ChannelDeleted, AuthorDeleted, Tick
<1>1. /\ now' \in 0 .. MaxTime /\ authors' \subseteq Authors /\ channel' \in BOOLEAN
  <2>1. CASE Tick
    BY <2>1, PagingConstants DEF Tick, PagingTypeOK
  <2>2. CASE \E u \in Authors : AuthorDeleted(u)
    BY <2>2 DEF AuthorDeleted, PagingTypeOK
  <2>3. CASE ChannelDeleted
    BY <2>3 DEF ChannelDeleted, PagingTypeOK
  <2>4. ASSUME NEW m \in Messages,
               (\E a \in Authors : Create(m, a)) \/ CreateCommits(m) \/ CreateFails(m) \/ Delete(m)
        PROVE  now' = now /\ authors' = authors /\ channel' = channel
    BY <2>4 DEF Create, CreateCommits, CreateFails, Delete
  <2> QED
    BY <2>1, <2>2, <2>3, <2>4 DEF Write, PagingTypeOK
<1> DEFINE Rows1 == [state : States, time : 0 .. MaxTime, author : SUBSET Authors]
<1>2. msg' \in [Messages -> Rows1]
  <2>1. ASSUME NEW m \in Messages, NEW a \in Authors, Create(m, a) PROVE msg' \in [Messages -> Rows1]
    BY <2>1 DEF Create, PagingTypeOK, States
  <2>2. ASSUME NEW m \in Messages, CreateCommits(m) \/ CreateFails(m) \/ Delete(m)
        PROVE  msg' \in [Messages -> Rows1]
    BY <2>2 DEF CreateCommits, CreateFails, Delete, PagingTypeOK, States
  <2>3. CASE ChannelDeleted
    BY <2>3 DEF ChannelDeleted, PagingTypeOK, States
  <2>4. ASSUME NEW u \in Authors, AuthorDeleted(u) PROVE msg' \in [Messages -> Rows1]
    BY <2>4 DEF AuthorDeleted, PagingTypeOK, States
  <2>5. CASE Tick
    BY <2>5 DEF Tick, PagingTypeOK
  <2> QED
    BY <2>1, <2>2, <2>3, <2>4, <2>5 DEF Write
<1> QED
  BY <1>0, <1>1, <1>2 DEF PagingTypeOK

LEMMA TypeQuery == PagingTypeOK /\ Query => PagingTypeOK'
<1> SUFFICES ASSUME PagingTypeOK, Query PROVE PagingTypeOK'
  OBVIOUS
<1>1. Left \in SUBSET Messages
  BY DEF Left, Stored
<1>2. PICK p \in Pages(Left) :
        reader' = [pc |-> IF HasNext(Left) THEN "shown" ELSE "end",
                   cursor |-> IF HasNext(Left) THEN Last(p) ELSE {},
                   page |-> p, seen |-> reader.seen \cup reader.page,
                   start |-> IF reader.cursor = {} THEN Left ELSE reader.start]
  BY DEF Query, Left
<1>3. p \in SUBSET Messages /\ Cardinality(p) <= PageSize
  BY <1>1, PageLemma
<1>4. reader'.cursor \in SUBSET (0 .. MaxTime) /\ Cardinality(reader'.cursor) <= 1
  <2>1. Last(p) \in SUBSET (0 .. MaxTime) /\ Cardinality(Last(p)) <= 1
    BY <1>3, LastLemma, OneAtMost DEF Times
  <2>2. Cardinality({}) = 0
    BY FS_EmptySet
  <2> QED
    BY <1>2, <2>1, <2>2
<1>5. reader' \in [pc : ReaderStages, cursor : SUBSET (0 .. MaxTime), page : SUBSET Messages,
                   seen : SUBSET Messages, start : SUBSET Messages]
  BY <1>1, <1>2, <1>3, <1>4 DEF PagingTypeOK, ReaderStages
<1>6. Cardinality(reader'.page) <= PageSize
  BY <1>2, <1>3
<1> QED
  BY <1>4, <1>5, <1>6 DEF PagingTypeOK, Query

LEMMA TypeAsk == PagingTypeOK /\ Ask => PagingTypeOK'
  BY DEF PagingTypeOK, Ask, ReaderStages

LEMMA TypeStep == PagingTypeOK /\ [PagingNext]_pagingVars => PagingTypeOK'
<1>1. PagingTypeOK /\ UNCHANGED pagingVars => PagingTypeOK'
  BY DEF PagingTypeOK, pagingVars
<1> QED
  BY <1>1, StepKinds, TypeWrite, TypeAsk, TypeQuery

(* Every reachable state is well typed: no page holds more than PageSize   *)
(* messages and no answer carries two cursors, for every page size.        *)
THEOREM TypeCorrect == PagingSpec => []PagingTypeOK
  BY TypeInit, TypeStep, PTL DEF PagingSpec

-----------------------------------------------------------------------------
(* Messages keep their times.                                              *)

(* A message that was read is in the table or was deleted.                 *)
Settled(m) == msg[m].state \in {"stored", "deleted"}

(* Whatever happens to the tables, a message that was in the table keeps   *)
(* its creation time and does not come back once it is deleted.            *)
LEMMA WriteKeeps ==
  ASSUME PagingTypeOK, Write, NEW m \in Messages, Settled(m)
  PROVE  /\ Settled(m)'
         /\ msg'[m].time = msg[m].time
         /\ m \in Stored' => m \in Stored
<1>1. ASSUME NEW n \in Messages,
             (\E a \in Authors : Create(n, a)) \/ CreateCommits(n) \/ CreateFails(n)
      PROVE  m # n /\ msg'[m] = msg[m]
  BY <1>1 DEF Create, CreateCommits, CreateFails, Settled, PagingTypeOK
<1>2. ASSUME NEW n \in Messages, Delete(n)
      PROVE  /\ msg'[m].state = IF m = n THEN "deleted" ELSE msg[m].state
             /\ msg'[m].time = msg[m].time
  BY <1>2 DEF Delete, PagingTypeOK
<1>3. CASE ChannelDeleted
  <2>1. /\ msg'[m].state = "deleted"
        /\ msg'[m].time = msg[m].time
    BY <1>3 DEF ChannelDeleted, PagingTypeOK, Stored, Settled
  <2> QED
    BY <2>1 DEF Settled, Stored
<1>4. ASSUME NEW u \in Authors, AuthorDeleted(u)
      PROVE  msg'[m].state = msg[m].state /\ msg'[m].time = msg[m].time
  BY <1>4 DEF AuthorDeleted, PagingTypeOK
<1>5. CASE Tick
  BY <1>5 DEF Tick, Settled, Stored
<1> QED
  BY <1>1, <1>2, <1>3, <1>4, <1>5 DEF Write, Settled, Stored

-----------------------------------------------------------------------------
(* No dangling message.                                                    *)

LEMMA DanglingStep ==
  PagingTypeOK /\ NoDanglingMessage /\ [PagingNext]_pagingVars => NoDanglingMessage'
<1> SUFFICES ASSUME PagingTypeOK, NoDanglingMessage, [PagingNext]_pagingVars,
                    NEW m \in Messages, msg'[m].state = "stored"
             PROVE  channel' /\ msg'[m].author \subseteq authors'
  BY DEF NoDanglingMessage, Stored
<1> USE DEF PagingTypeOK, NoDanglingMessage, Stored
<1>1. ASSUME NEW n \in Messages, NEW a \in Authors, Create(n, a)
      PROVE  channel' /\ msg'[m].author \subseteq authors'
  BY <1>1 DEF Create
<1>2. ASSUME NEW n \in Messages, CreateCommits(n)
      PROVE  channel' /\ msg'[m].author \subseteq authors'
  <2>1. CASE m = n
    BY <1>2, <2>1 DEF CreateCommits, KeysHold
  <2>2. CASE m # n
    BY <1>2, <2>2 DEF CreateCommits
  <2> QED
    BY <2>1, <2>2
<1>3. ASSUME NEW n \in Messages, CreateFails(n) \/ Delete(n)
      PROVE  channel' /\ msg'[m].author \subseteq authors'
  BY <1>3 DEF CreateFails, Delete
<1>4. CASE ChannelDeleted
  BY <1>4 DEF ChannelDeleted
<1>5. ASSUME NEW u \in Authors, AuthorDeleted(u)
      PROVE  channel' /\ msg'[m].author \subseteq authors'
  <2>1. m \in Stored /\ msg'[m].author = msg[m].author \ {u}
    BY <1>5 DEF AuthorDeleted
  <2> QED
    BY <1>5, <2>1 DEF AuthorDeleted
<1>6. CASE Ask \/ Query \/ Tick \/ UNCHANGED pagingVars
  BY <1>6 DEF Ask, Query, Tick, pagingVars
<1> QED
  BY <1>1, <1>2, <1>3, <1>4, <1>5, <1>6 DEF PagingNext

(* A message that is found in the table belongs to a channel and to an     *)
(* author that exist (or to none), in any order of creations and           *)
(* deletions, for any number of authors and messages.                      *)
THEOREM NoDangling == PagingSpec => []NoDanglingMessage
<1>1. PagingInit => NoDanglingMessage
  BY DEF PagingInit, NoDanglingMessage, Stored
<1> QED
  BY <1>1, DanglingStep, TypeCorrect, PTL DEF PagingSpec

-----------------------------------------------------------------------------
(* What the client has been shown.                                         *)

Shown == reader.seen \cup reader.page

(* What it was shown, or found when it began, was in the table.            *)
ShownSettled == \A m \in Shown \cup reader.start : Settled(m)

(* It has no cursor exactly before the first page, and at the end.         *)
CursorWhenShown ==
  /\ reader.pc \in {"idle", "query"} /\ reader.cursor = {} => Shown = {}
  /\ reader.pc = "idle" => reader.cursor = {}
  /\ reader.pc = "shown" => reader.cursor # {}

(* Nothing that was shown is older than the cursor.                        *)
ShownAbove == \A t \in reader.cursor, m \in Shown : t <= msg[m].time

(* What was there from the start and is not older than the cursor was      *)
(* shown, or shares its creation time with a message that was.             *)
ShownComplete ==
  \A t \in reader.cursor, m \in reader.start \cap Stored :
    t <= msg[m].time => \E n \in Shown : n = m \/ msg[n].time = msg[m].time

PagingInv ==
  /\ ShownSettled /\ CursorWhenShown /\ ShownAbove /\ ShownComplete
  /\ PagesDescend /\ MissedOnlyAtTie

LEMMA PagingStarts == PagingInit => PagingInv
  BY DEF PagingInit, NoPage, PagingInv, ShownSettled, CursorWhenShown, ShownAbove, ShownComplete,
         PagesDescend, MissedOnlyAtTie, Shown

LEMMA PagingWrite == PagingTypeOK /\ PagingInv /\ Write => PagingInv'
<1> SUFFICES ASSUME PagingTypeOK, PagingInv, Write PROVE PagingInv'
  OBVIOUS
<1>1. reader' = reader
  BY DEF Write, Create, CreateCommits, CreateFails, Delete, ChannelDeleted, AuthorDeleted, Tick
<1>2. Shown \cup reader.start \subseteq Messages
  BY DEF PagingTypeOK, Shown
<1>3. \A m \in Shown \cup reader.start :
        Settled(m)' /\ msg'[m].time = msg[m].time /\ (m \in Stored' => m \in Stored)
  BY <1>2, WriteKeeps DEF PagingInv, ShownSettled
<1>4. Shown' = Shown
  BY <1>1 DEF Shown
<1>5. ShownSettled' /\ CursorWhenShown'
  BY <1>1, <1>3, <1>4 DEF PagingInv, ShownSettled, CursorWhenShown
<1>6. ShownAbove'
  BY <1>1, <1>3, <1>4 DEF PagingInv, ShownAbove
<1>7. ShownComplete'
  BY <1>1, <1>3, <1>4 DEF PagingInv, ShownComplete
<1>8. PagesDescend'
  BY <1>1, <1>3 DEF PagingInv, PagesDescend, Shown
<1>9. MissedOnlyAtTie'
  BY <1>1, <1>3 DEF PagingInv, MissedOnlyAtTie, Shown
<1> QED
  BY <1>5, <1>6, <1>7, <1>8, <1>9 DEF PagingInv

(* Without the channel no message is in the table, so none was missed.     *)
LEMMA PagingAsk == PagingTypeOK /\ NoDanglingMessage /\ PagingInv /\ Ask => PagingInv'
<1> SUFFICES ASSUME PagingTypeOK, NoDanglingMessage, PagingInv, Ask PROVE PagingInv'
  OBVIOUS
<1>1. /\ reader'.pc = IF channel THEN "query" ELSE "end"
      /\ reader'.cursor = reader.cursor /\ reader'.page = reader.page
      /\ reader'.seen = reader.seen /\ reader'.start = reader.start
      /\ reader.pc \in {"idle", "shown"} /\ msg' = msg
  BY DEF Ask, PagingTypeOK
<1>2. Shown' = Shown /\ Stored' = Stored
  BY <1>1 DEF Shown, Stored
<1>3. ShownSettled' /\ ShownAbove' /\ ShownComplete' /\ PagesDescend'
  BY <1>1, <1>2
     DEF PagingInv, ShownSettled, Settled, ShownAbove, ShownComplete, PagesDescend
<1>4. CursorWhenShown'
  BY <1>1, <1>2 DEF PagingInv, CursorWhenShown
<1>5. MissedOnlyAtTie'
  <2>1. CASE channel
    BY <1>1, <2>1 DEF MissedOnlyAtTie
  <2>2. CASE ~channel
    BY <1>2, <2>2 DEF MissedOnlyAtTie, NoDanglingMessage
  <2> QED
    BY <2>1, <2>2
<1> QED
  BY <1>3, <1>4, <1>5 DEF PagingInv

LEMMA PagingQuery == PagingTypeOK /\ PagingInv /\ Query => PagingInv'
<1> SUFFICES ASSUME PagingTypeOK, PagingInv, Query PROVE PagingInv'
  OBVIOUS
<1>1. Left \in SUBSET Messages
  BY DEF Left, Stored
<1>2. PICK p \in Pages(Left) :
        reader' = [pc |-> IF HasNext(Left) THEN "shown" ELSE "end",
                   cursor |-> IF HasNext(Left) THEN Last(p) ELSE {},
                   page |-> p, seen |-> reader.seen \cup reader.page,
                   start |-> IF reader.cursor = {} THEN Left ELSE reader.start]
  BY DEF Query, Left
<1>3. /\ p \in SUBSET Left /\ p \in SUBSET Messages
      /\ HasNext(Left) => p # {}
      /\ ~HasNext(Left) => p = Left
      /\ \A m \in p, n \in Left \ p : msg[m].time >= msg[n].time
  BY <1>1, <1>2, PageLemma DEF Pages
<1>4. /\ Shown' = Shown \cup p
      /\ Shown \cup reader.start \cup Left \subseteq Messages
      /\ msg' = msg /\ Stored' = Stored /\ reader.pc = "query"
  BY <1>1, <1>2 DEF Shown, PagingTypeOK, Query, Stored
<1>5. /\ \A m \in Messages : msg[m].time \in Nat
      /\ reader.cursor \subseteq Nat
  BY PagingConstants DEF PagingTypeOK
<1>6. /\ reader.cursor = {} => Shown = {} /\ Left = Stored
      /\ \A m \in Left : m \in Stored /\ \A t \in reader.cursor : msg[m].time < t
      /\ \A m \in Stored \ Left : \E t \in reader.cursor : t <= msg[m].time
  BY <1>4, <1>5 DEF Left, Before, Stored, PagingInv, CursorWhenShown
(* The new page is older than all that was shown before it.                *)
<1>7. \A m \in p, n \in Shown : msg[m].time < msg[n].time
  <2> SUFFICES ASSUME NEW m \in p, NEW n \in Shown PROVE msg[m].time < msg[n].time
    OBVIOUS
  <2>1. PICK t \in reader.cursor : TRUE
    BY <1>6
  <2>2. msg[m].time < t /\ t <= msg[n].time
    BY <1>3, <1>6 DEF PagingInv, ShownAbove
  <2> QED
    BY <1>3, <1>4, <1>5, <2>2
<1>8. PagesDescend'
  BY <1>2, <1>4, <1>7 DEF PagesDescend, Shown
<1>9. ShownSettled'
  <2>1. \A m \in Left : Settled(m)
    BY DEF Left, Stored, Settled
  <2> QED
    BY <1>2, <1>3, <1>4, <2>1 DEF PagingInv, ShownSettled, Settled
<1>10. CursorWhenShown'
  BY <1>2, <1>3, LastLemma DEF CursorWhenShown
<1>11. ShownAbove'
  <2> SUFFICES ASSUME HasNext(Left), NEW t \in Last(p), NEW m \in Shown \cup p
               PROVE  t <= msg[m].time
    BY <1>2, <1>4 DEF ShownAbove
  <2>1. CASE m \in p
    BY <1>3, <2>1, LastLemma
  <2>2. CASE m \in Shown
    <3>1. PICK x \in p : msg[x].time = t
      BY <1>3, LastLemma
    <3>2. msg[x].time < msg[m].time
      BY <1>7, <2>2
    <3> QED
      BY <1>3, <1>4, <1>5, <2>2, <3>1, <3>2
  <2> QED
    BY <2>1, <2>2
(* What was there from the start was shown or is one of the rows.          *)
<1>12. ASSUME NEW m \in reader'.start \cap Stored, m \notin Left
       PROVE  \E n \in Shown : n = m \/ msg[n].time = msg[m].time
  <2>1. PICK t \in reader.cursor : t <= msg[m].time
    BY <1>6, <1>12
  <2>2. m \in reader.start
    BY <1>2, <2>1
  <2> QED
    BY <2>1, <2>2 DEF PagingInv, ShownComplete
<1>13. ShownComplete'
  <2> SUFFICES ASSUME HasNext(Left), NEW t \in Last(p), NEW m \in reader'.start \cap Stored,
                      t <= msg[m].time
               PROVE  \E n \in Shown \cup p : n = m \/ msg[n].time = msg[m].time
    BY <1>2, <1>4 DEF ShownComplete
  <2>1. CASE m \notin Left
    BY <1>12, <2>1
  <2>2. CASE m \in Left \ p
    <3>1. PICK x \in p : msg[x].time = t
      BY <1>3, LastLemma
    <3>2. msg[x].time = msg[m].time
      BY <1>3, <1>4, <1>5, <2>2, <3>1
    <3> QED
      BY <3>1, <3>2
  <2> QED
    BY <2>1, <2>2
<1>14. MissedOnlyAtTie'
  <2> SUFFICES ASSUME ~HasNext(Left), NEW m \in reader'.start \cap Stored
               PROVE  \E n \in Shown \cup p : n = m \/ msg[n].time = msg[m].time
    BY <1>2, <1>4 DEF MissedOnlyAtTie, Shown
  <2> QED
    BY <1>3, <1>12
<1> QED
  BY <1>8, <1>9, <1>10, <1>11, <1>13, <1>14 DEF PagingInv

LEMMA PagingStep ==
  PagingTypeOK /\ NoDanglingMessage /\ PagingInv /\ [PagingNext]_pagingVars => PagingInv'
<1>1. PagingInv /\ UNCHANGED pagingVars => PagingInv'
  BY DEF PagingInv, ShownSettled, Settled, CursorWhenShown, ShownAbove, ShownComplete,
         PagesDescend, MissedOnlyAtTie, Shown, Stored, pagingVars
<1> QED
  BY <1>1, StepKinds, PagingWrite, PagingAsk, PagingQuery

LEMMA PagingCorrect == PagingSpec => []PagingInv
  BY PagingStarts, PagingStep, TypeCorrect, NoDangling, PTL DEF PagingSpec

(* Pages only get older: no message is shown twice, whatever is sent or    *)
(* deleted between two requests, for every page size.                      *)
THEOREM PagesNeverGoBack == PagingSpec => []PagesDescend
<1>1. PagingInv => PagesDescend
  BY DEF PagingInv
<1> QED
  BY <1>1, PagingCorrect, PTL

(* Who reads to the end misses nothing that stayed there all along, unless *)
(* it has the creation time of a message that was shown.                   *)
THEOREM NothingMissed == PagingSpec => []MissedOnlyAtTie
<1>1. PagingInv => MissedOnlyAtTie
  BY DEF PagingInv
<1> QED
  BY <1>1, PagingCorrect, PTL

-----------------------------------------------------------------------------
(* The channels and their lists.                                           *)

(* The stages of a request that works on a channel without a row, and of   *)
(* one that looks for a list.                                              *)
Creating == {"pushPrivate", "commitPrivate"}
Deleting == {"pushDelete", "commitDelete"}
Looking == {"public", "private", "put"}

(* TypeOK, with at most one list in place of a cardinality.                *)
DirectoryTypes ==
  /\ users \subseteq Users
  /\ channels \in [Channels -> Types \cup {"none", "deleted"}]
  /\ name \in [Channels -> 0 .. MaxRenames]
  /\ statuses \subseteq [user : Users, channel : Channels, by : Requests]
  /\ cache \in [Users -> SUBSET SUBSET Entries]
  /\ \A u \in Users : \A a, b \in cache[u] : a = b
  /\ req \in [Requests -> [pc : Stages, channel : SUBSET Channels, who : SUBSET Users,
                           list : SUBSET Entries]]
  /\ cause \subseteq Users \X Channels

(* The foreign keys of read_statuses.                                      *)
StatusesInv ==
  \A s \in statuses : s.user \in users /\ channels[s.channel] \in Types

(* A channel in creation is that of one request; a list is looked for by   *)
(* one account; everybody's list is to be evicted for a public channel.    *)
WorkInv ==
  \A r \in Requests :
    /\ \A c \in req[r].channel : channels[c] = "none" <=> req[r].pc \in Creating
    /\ req[r].pc \in Creating =>
         \A q \in Requests : q # r => req[q].channel \cap req[r].channel = {}
    /\ req[r].pc \in Looking => \A x, y \in req[r].who : x = y
    /\ req[r].pc \in Deleting =>
         \A c \in req[r].channel : channels[c] = "PUBLIC" => req[r].who = Users

(* A list, cached or about to be, names channels that exist or did, and    *)
(* private ones to their participants only.                                *)
Showable(u, c) ==
  channels[c] # "none" /\ (channels[c] = "PRIVATE" => u \in Members(c))

ShownInv ==
  \A u \in users :
    /\ \A list \in cache[u] : \A e \in list : Showable(u, e[1])
    /\ \A r \in Requests : u \in req[r].who /\ req[r].pc \in {"private", "put"} =>
         \A e \in req[r].list : Showable(u, e[1])

(* What a list should say of a channel.                                    *)
Sees(u, c) ==
  channels[c] = "PUBLIC" \/ (channels[c] = "PRIVATE" /\ u \in Members(c))

Says(list, c, seen) ==
  \A e \in Entries : e[1] = c => (e \in list <=> e = Entry(c) /\ seen)

(* A request that will evict the list of u because of c.                   *)
WillEvict(r, u, c) ==
  /\ c \in req[r].channel
  /\ req[r].pc \in {"pushPublic", "evictAll"} \/ (req[r].pc = "evict" /\ u \in req[r].who)

Excused(u, c) == <<u, c>> \in cause \/ \E r \in Requests : WillEvict(r, u, c)

(* A list, cached or about to be, is right about a channel, unless an      *)
(* eviction is to come or there is a cause.                                *)
Right(u, c) ==
  /\ \A list \in cache[u] : Says(list, c, Sees(u, c))
  /\ \A r \in Requests : u \in req[r].who =>
       /\ req[r].pc = "put" => Says(req[r].list, c, Sees(u, c))
       /\ req[r].pc = "private" => Says(req[r].list, c, channels[c] = "PUBLIC")

ListsInv == \A u \in users, c \in Channels : Excused(u, c) \/ Right(u, c)

DirectoryInv == DirectoryTypes /\ StatusesInv /\ WorkInv /\ ShownInv /\ ListsInv

-----------------------------------------------------------------------------
(* Steps.                                                                  *)

Begins(r) ==
  \E c \in Channels : \/ CreatePublic(r, c) \/ DeleteChannel(r, c)
                      \/ \E who \in SUBSET Users : CreatePrivate(r, c, who)
                      \/ \E u \in Users : CreateReadStatus(r, u, c)

Moves(r) ==
  \/ PushPublic(r) \/ PushPublicThrows(r) \/ EvictAll(r)
  \/ PushPrivate(r) \/ CommitPrivate(r) \/ PushDelete(r) \/ CommitDelete(r)
  \/ Rollback(r) \/ Evict(r) \/ CommitStatus(r)

Looks(r) == QueryPublic(r) \/ QueryPrivate(r) \/ Put(r)

Otherwise ==
  \/ \E c \in Channels : UpdateChannel(c)
  \/ \E u \in Users : DeleteUser(u) \/ Expire(u)

LEMMA DirectorySteps ==
  [Next]_vars => \/ \E r \in Requests : Begins(r) \/ Moves(r) \/ Looks(r)
                 \/ \E r \in Requests, u \in Users : FindAll(r, u)
                 \/ Otherwise \/ UNCHANGED vars
  BY DEF Next, Arrive, Proceed, Begins, Moves, Looks, Otherwise

(* What a step of a request does to its record.                            *)
RequestTypes == [pc : Stages, channel : SUBSET Channels, who : SUBSET Users,
                 list : SUBSET Entries]

OthersKeep(r) == \A q \in Requests : q # r => req'[q] = req[q]

LEMMA SetFacts ==
  ASSUME DirectoryTypes, NEW r \in Requests, NEW q \in RequestTypes,
         req' = [req EXCEPT ![r] = q]
  PROVE  OthersKeep(r) /\ req'[r] = q /\ req' \in [Requests -> RequestTypes]
  BY DEF DirectoryTypes, RequestTypes, OthersKeep

LEMMA BeginFacts ==
  ASSUME DirectoryTypes, NEW r \in Requests, NEW stage \in Stages, NEW c \in Channels,
         NEW who \in SUBSET Users, Begin(r, stage, c, who)
  PROVE  /\ OthersKeep(r) /\ req' \in [Requests -> RequestTypes]
         /\ req[r].pc = "idle"
         /\ req'[r].pc = stage /\ req'[r].channel = {c} /\ req'[r].who = who
<1> DEFINE q == [Idle EXCEPT !.pc = stage, !.channel = {c}, !.who = who]
<1>1. /\ q \in RequestTypes /\ q.pc = stage /\ q.channel = {c} /\ q.who = who
  BY DEF Idle, RequestTypes
<1>2. req' = [req EXCEPT ![r] = q] /\ req[r].pc = "idle"
  BY DEF Begin
<1> HIDE DEF q
<1> QED
  BY <1>1, <1>2, SetFacts

LEMMA GotoFacts ==
  ASSUME DirectoryTypes, NEW r \in Requests, NEW stage \in Stages, Goto(r, stage)
  PROVE  /\ OthersKeep(r) /\ req' \in [Requests -> RequestTypes]
         /\ req'[r].pc = stage /\ req'[r].channel = req[r].channel
         /\ req'[r].who = req[r].who
<1> DEFINE q == [req[r] EXCEPT !.pc = stage]
<1>1. /\ q \in RequestTypes /\ q.pc = stage /\ q.channel = req[r].channel
      /\ q.who = req[r].who
  BY DEF DirectoryTypes, RequestTypes
<1>2. req' = [req EXCEPT ![r] = q]
  BY DEF Goto, DirectoryTypes
<1> HIDE DEF q
<1> QED
  BY <1>1, <1>2, SetFacts

LEMMA EndFacts ==
  ASSUME DirectoryTypes, NEW r \in Requests, End(r)
  PROVE  /\ OthersKeep(r) /\ req' \in [Requests -> RequestTypes]
         /\ req'[r].pc = "idle" /\ req'[r].channel = {} /\ req'[r].who = {}
<1>1. /\ Idle \in RequestTypes /\ Idle.pc = "idle" /\ Idle.channel = {} /\ Idle.who = {}
  BY DEF Idle, RequestTypes, Stages
<1>2. req' = [req EXCEPT ![r] = Idle]
  BY DEF End
<1> QED
  BY <1>1, <1>2, SetFacts

LEMMA FindAllFacts ==
  ASSUME DirectoryTypes, NEW r \in Requests, NEW u \in Users, FindAll(r, u)
  PROVE  /\ OthersKeep(r) /\ req' \in [Requests -> RequestTypes]
         /\ req[r].pc = "idle" /\ req'[r].pc = "public"
         /\ req'[r].channel = {} /\ req'[r].who = {u}
<1> DEFINE q == [Idle EXCEPT !.pc = "public", !.who = {u}]
<1>1. /\ q \in RequestTypes /\ q.pc = "public" /\ q.channel = {} /\ q.who = {u}
  BY DEF Idle, RequestTypes, Stages
<1>2. req' = [req EXCEPT ![r] = q] /\ req[r].pc = "idle"
  BY DEF FindAll
<1> HIDE DEF q
<1> QED
  BY <1>1, <1>2, SetFacts

LEMMA EntryType ==
  ASSUME DirectoryTypes, NEW c \in Channels
  PROVE  Entry(c) \in Entries /\ Entry(c)[1] = c
  BY DEF DirectoryTypes, Entry, Entries

LEMMA QueryPublicFacts ==
  ASSUME DirectoryTypes, NEW r \in Requests, QueryPublic(r)
  PROVE  /\ OthersKeep(r) /\ req' \in [Requests -> RequestTypes]
         /\ req[r].pc = "public" /\ req'[r].pc = "private"
         /\ req'[r].channel = req[r].channel /\ req'[r].who = req[r].who
         /\ req'[r].list = {Entry(c) : c \in OfType("PUBLIC")}
<1> DEFINE l == {Entry(c) : c \in OfType("PUBLIC")}
           q == [req[r] EXCEPT !.pc = "private", !.list = l]
<1>1. l \in SUBSET Entries
  BY EntryType DEF OfType
<1>2. /\ q \in RequestTypes /\ q.pc = "private" /\ q.channel = req[r].channel
      /\ q.who = req[r].who /\ q.list = l
  <2> HIDE DEF l
  <2> QED
    BY <1>1 DEF DirectoryTypes, RequestTypes, Stages
<1>3. req' = [req EXCEPT ![r] = q] /\ req[r].pc = "public"
  BY DEF QueryPublic, DirectoryTypes
<1>4. OthersKeep(r) /\ req'[r] = q /\ req' \in [Requests -> RequestTypes]
  <2> HIDE DEF q
  <2> QED
    BY <1>2, <1>3, SetFacts
<1> HIDE DEF q
<1> QED
  BY <1>2, <1>3, <1>4

LEMMA QueryPrivateFacts ==
  ASSUME DirectoryTypes, NEW r \in Requests, QueryPrivate(r)
  PROVE  /\ OthersKeep(r) /\ req' \in [Requests -> RequestTypes]
         /\ req[r].pc = "private" /\ req'[r].pc = "put"
         /\ req'[r].channel = req[r].channel /\ req'[r].who = req[r].who
         /\ req'[r].list =
              req[r].list \cup {Entry(c) : c \in UNION {PrivateOf(u) : u \in req[r].who}}
<1> DEFINE l == req[r].list \cup {Entry(c) : c \in UNION {PrivateOf(u) : u \in req[r].who}}
           q == [req[r] EXCEPT !.pc = "put", !.list = l]
<1>1. l \in SUBSET Entries
  <2>1. \A c \in UNION {PrivateOf(u) : u \in req[r].who} : c \in Channels
    BY DEF PrivateOf, OfType
  <2> QED
    BY <2>1, EntryType DEF DirectoryTypes
<1>2. /\ q \in RequestTypes /\ q.pc = "put" /\ q.channel = req[r].channel
      /\ q.who = req[r].who /\ q.list = l
  <2> HIDE DEF l
  <2> QED
    BY <1>1 DEF DirectoryTypes, RequestTypes, Stages
<1>3. req' = [req EXCEPT ![r] = q] /\ req[r].pc = "private"
  BY DEF QueryPrivate, DirectoryTypes
<1>4. OthersKeep(r) /\ req'[r] = q /\ req' \in [Requests -> RequestTypes]
  <2> HIDE DEF q
  <2> QED
    BY <1>2, <1>3, SetFacts
<1> HIDE DEF q
<1> QED
  BY <1>2, <1>3, <1>4

-----------------------------------------------------------------------------
(* Types.                                                                  *)

LEMMA BeginsTypes ==
  ASSUME DirectoryTypes, NEW r \in Requests, Begins(r)
  PROVE  DirectoryTypes'
<1>1. PICK c \in Channels : \/ CreatePublic(r, c) \/ DeleteChannel(r, c)
                            \/ \E who \in SUBSET Users : CreatePrivate(r, c, who)
                            \/ \E u \in Users : CreateReadStatus(r, u, c)
  BY DEF Begins
<1>2. PICK stage \in Stages, who \in SUBSET Users : Begin(r, stage, c, who)
  <2>1. /\ {} \in SUBSET Users /\ Listing(c) \in SUBSET Users
        /\ \A u \in Users : {u} \in SUBSET Users
        /\ {"pushPublic", "pushDelete", "pushPrivate", "commitStatus"} \subseteq Stages
    BY DEF Listing, Members, DirectoryTypes, Stages
  <2> QED
    BY <1>1, <2>1 DEF CreatePublic, DeleteChannel, CreatePrivate, CreateReadStatus
<1>3. req' \in [Requests -> RequestTypes]
  BY <1>2, BeginFacts
<1>4. UNCHANGED <<users, name, statuses, cache, cause>>
  BY DEF Begins, CreatePublic, DeleteChannel, CreatePrivate, CreateReadStatus, tables
<1>5. channels' \in [Channels -> Types \cup {"none", "deleted"}]
  BY DEF Begins, CreatePublic, DeleteChannel, CreatePrivate, CreateReadStatus, tables,
         DirectoryTypes, Types
<1> QED
  BY <1>3, <1>4, <1>5 DEF DirectoryTypes, RequestTypes

LEMMA MovesTypes ==
  ASSUME DirectoryTypes, NEW r \in Requests, Moves(r)
  PROVE  DirectoryTypes'
<1>1. req' \in [Requests -> RequestTypes]
  BY GotoFacts, EndFacts
     DEF Moves, PushPublic, PushPublicThrows, EvictAll, PushPrivate, CommitPrivate, PushDelete,
         CommitDelete, Rollback, Evict, CommitStatus, Stages
<1>2. users' = users /\ name' = name
  BY DEF Moves, PushPublic, PushPublicThrows, EvictAll, PushPrivate, CommitPrivate, PushDelete,
         CommitDelete, Rollback, Evict, CommitStatus, tables
<1>3. req[r].channel \subseteq Channels /\ req[r].who \subseteq Users
  BY DEF DirectoryTypes
<1>4. channels' \in [Channels -> Types \cup {"none", "deleted"}]
  BY DEF Moves, PushPublic, PushPublicThrows, EvictAll, PushPrivate, CommitPrivate, PushDelete,
         CommitDelete, Rollback, Evict, CommitStatus, tables, DirectoryTypes, Types
<1>5. statuses' \subseteq [user : Users, channel : Channels, by : Requests]
  <2>1. Rows(r, req[r].who, req[r].channel) \subseteq
          [user : Users, channel : Channels, by : Requests]
    BY <1>3 DEF Rows
  <2>2. \/ statuses' \subseteq statuses
        \/ statuses' = statuses \cup Rows(r, req[r].who, req[r].channel)
    BY DEF Moves, PushPublic, PushPublicThrows, EvictAll, PushPrivate, CommitPrivate,
           PushDelete, CommitDelete, Rollback, Evict, CommitStatus, tables
  <2> QED
    BY <2>1, <2>2 DEF DirectoryTypes
<1>6. /\ cache' \in [Users -> SUBSET SUBSET Entries]
      /\ \A u \in Users : \A a, b \in cache'[u] : a = b
  <2>1. cache' = cache \/ \E who : cache' = Evicted(who)
    BY DEF Moves, PushPublic, PushPublicThrows, EvictAll, PushPrivate, CommitPrivate,
           PushDelete, CommitDelete, Rollback, Evict, CommitStatus
  <2> QED
    BY <2>1 DEF DirectoryTypes, Evicted
<1>7. cause' \subseteq Users \X Channels
  <2>1. \A cs \in SUBSET Channels, who \in SUBSET Users :
          Overtaken(who, cs) \subseteq Users \X Channels
    BY DEF Overtaken
  <2>2. UNION {(Members(c) \ req[r].who) \X {c} : c \in req[r].channel}
          \subseteq Users \X Channels
    BY <1>3 DEF Members, DirectoryTypes
  <2>3. Users \X req[r].channel \subseteq Users \X Channels
        /\ req[r].who \X req[r].channel \subseteq Users \X Channels
    BY <1>3
  <2>4. \/ cause' = cause
        \/ cause' = cause \cup (Users \X req[r].channel)
        \/ cause' = cause \cup Overtaken(Users, req[r].channel)
        \/ cause' = cause \cup Overtaken(req[r].who, req[r].channel)
        \/ cause' = cause \cup UNION {(Members(c) \ req[r].who) \X {c} : c \in req[r].channel}
        \/ cause' = cause \cup (req[r].who \X req[r].channel)
    BY DEF Moves, PushPublic, PushPublicThrows, EvictAll, PushPrivate, CommitPrivate,
           PushDelete, CommitDelete, Rollback, Evict, CommitStatus
  <2>5. cause \subseteq Users \X Channels
    BY DEF DirectoryTypes
  <2> QED
    BY <1>3, <2>1, <2>2, <2>3, <2>4, <2>5
<1> QED
  BY <1>1, <1>2, <1>4, <1>5, <1>6, <1>7 DEF DirectoryTypes, RequestTypes

LEMMA LooksTypes ==
  ASSUME DirectoryTypes, NEW r \in Requests, Looks(r)
  PROVE  DirectoryTypes'
<1>1. req' \in [Requests -> RequestTypes]
  BY QueryPublicFacts, QueryPrivateFacts, EndFacts DEF Looks, Put
<1>2. UNCHANGED <<tables, cause>>
  BY DEF Looks, QueryPublic, QueryPrivate, Put
<1>3. /\ cache' \in [Users -> SUBSET SUBSET Entries]
      /\ \A u \in Users : \A a, b \in cache'[u] : a = b
  BY DEF Looks, QueryPublic, QueryPrivate, Put, DirectoryTypes
<1> QED
  BY <1>1, <1>2, <1>3 DEF DirectoryTypes, RequestTypes, tables

LEMMA TypesStep ==
  ASSUME DirectoryTypes, [Next]_vars
  PROVE  DirectoryTypes'
<1>1. ASSUME NEW r \in Requests, NEW u \in Users, FindAll(r, u)
      PROVE  DirectoryTypes'
  <2>1. req' \in [Requests -> RequestTypes]
    BY <1>1, FindAllFacts
  <2> QED
    BY <1>1, <2>1 DEF FindAll, DirectoryTypes, RequestTypes, tables
<1>2. ASSUME NEW c \in Channels, UpdateChannel(c)
      PROVE  DirectoryTypes'
  <2>1. name' \in [Channels -> 0 .. MaxRenames]
    BY <1>2, DirectoryConstants DEF UpdateChannel, DirectoryTypes
  <2>2. cause' \subseteq Users \X Channels
    BY <1>2 DEF UpdateChannel, DirectoryTypes
  <2> QED
    BY <1>2, <2>1, <2>2 DEF UpdateChannel, DirectoryTypes
<1>3. ASSUME NEW u \in Users, DeleteUser(u)
      PROVE  DirectoryTypes'
  BY <1>3 DEF DeleteUser, DirectoryTypes
<1>4. ASSUME NEW u \in Users, Expire(u)
      PROVE  DirectoryTypes'
  BY <1>4 DEF Expire, Evicted, DirectoryTypes, tables
<1>5. CASE UNCHANGED vars
  BY <1>5 DEF vars, tables, DirectoryTypes
<1> QED
  BY <1>1, <1>2, <1>3, <1>4, <1>5, BeginsTypes, MovesTypes, LooksTypes, DirectorySteps
     DEF Otherwise

-----------------------------------------------------------------------------
(* The tables.                                                             *)

Writes ==
  \/ \E r \in Requests : \/ CommitPrivate(r) \/ CommitDelete(r) \/ CommitStatus(r)
                         \/ \E c \in Channels : CreatePublic(r, c)
  \/ \E c \in Channels : UpdateChannel(c)
  \/ \E u \in Users : DeleteUser(u)

LEMMA TablesStep == [Next]_vars => Writes \/ UNCHANGED tables
<1> SUFFICES ASSUME [Next]_vars PROVE Writes \/ UNCHANGED tables
  OBVIOUS
<1>1. ASSUME NEW r \in Requests, Begins(r) PROVE Writes \/ UNCHANGED tables
  BY <1>1 DEF Begins, DeleteChannel, CreatePrivate, CreateReadStatus, Writes
<1>2. ASSUME NEW r \in Requests, Moves(r) PROVE Writes \/ UNCHANGED tables
  BY <1>2 DEF Moves, PushPublic, PushPublicThrows, EvictAll, PushPrivate, PushDelete, Rollback,
              Evict, Writes
<1>3. ASSUME NEW r \in Requests, Looks(r) PROVE UNCHANGED tables
  BY <1>3 DEF Looks, QueryPublic, QueryPrivate, Put
<1>4. ASSUME NEW r \in Requests, NEW u \in Users, FindAll(r, u) PROVE UNCHANGED tables
  BY <1>4 DEF FindAll
<1>5. CASE Otherwise
  BY <1>5 DEF Otherwise, Expire, Writes
<1> QED
  BY <1>1, <1>2, <1>3, <1>4, <1>5, DirectorySteps DEF vars, tables

LEMMA StatusesStep ==
  ASSUME DirectoryTypes, StatusesInv, WorkInv, [Next]_vars
  PROVE  StatusesInv'
<1>1. CASE UNCHANGED tables
  BY <1>1 DEF tables, StatusesInv
<1>2. ASSUME NEW r \in Requests, NEW c \in Channels, CreatePublic(r, c)
      PROVE  StatusesInv'
  BY <1>2 DEF CreatePublic, StatusesInv, DirectoryTypes, Types
<1>3. ASSUME NEW r \in Requests, CommitPrivate(r)
      PROVE  StatusesInv'
  <2>1. /\ statuses' = statuses \cup Rows(r, req[r].who, req[r].channel)
        /\ req[r].who \subseteq users /\ users' = users
        /\ \A c \in Channels : channels'[c] =
             IF c \in req[r].channel THEN "PRIVATE" ELSE channels[c]
    BY <1>3 DEF CommitPrivate, Insertable
  <2>2. \A s \in Rows(r, req[r].who, req[r].channel) :
          s.user \in req[r].who /\ s.channel \in req[r].channel
    BY DEF Rows
  <2>3. req[r].channel \subseteq Channels /\ \A s \in statuses : s.channel \in Channels
    BY DEF DirectoryTypes
  <2> QED
    BY <2>1, <2>2, <2>3 DEF StatusesInv, Types
<1>4. ASSUME NEW r \in Requests, CommitDelete(r)
      PROVE  StatusesInv'
  BY <1>4 DEF CommitDelete, StatusesInv, DirectoryTypes
<1>5. ASSUME NEW r \in Requests, CommitStatus(r)
      PROVE  StatusesInv'
  <2>1. users' = users /\ channels' = channels
    BY <1>5 DEF CommitStatus
  <2>2. CASE statuses' = statuses
    BY <2>1, <2>2 DEF StatusesInv
  <2>3. CASE Joinable(r) /\ statuses' = statuses \cup Rows(r, req[r].who, req[r].channel)
    <3>1. \A s \in Rows(r, req[r].who, req[r].channel) :
            s.user \in req[r].who /\ s.channel \in req[r].channel
      BY DEF Rows
    <3> QED
      BY <2>1, <2>3, <3>1 DEF StatusesInv, Joinable, Existing
  <2> QED
    BY <1>5, <2>2, <2>3 DEF CommitStatus
<1>6. ASSUME NEW c \in Channels, UpdateChannel(c)
      PROVE  StatusesInv'
  BY <1>6 DEF UpdateChannel, StatusesInv
<1>7. ASSUME NEW u \in Users, DeleteUser(u)
      PROVE  StatusesInv'
  BY <1>7 DEF DeleteUser, StatusesInv
<1> QED
  BY <1>1, <1>2, <1>3, <1>4, <1>5, <1>6, <1>7, TablesStep DEF Writes

(* A channel that has or had a row keeps its type until it is deleted.     *)
LEMMA ChannelsStep ==
  ASSUME DirectoryTypes, WorkInv, [Next]_vars, NEW c \in Channels
  PROVE  /\ channels[c] # "none" => channels'[c] \in {channels[c], "deleted"}
         /\ channels[c] = "deleted" => channels'[c] = "deleted"
<1>1. CASE UNCHANGED tables
  BY <1>1 DEF tables
<1>2. ASSUME NEW r \in Requests, NEW d \in Channels, CreatePublic(r, d)
      PROVE  channels[c] # "none" => channels'[c] = channels[c]
  BY <1>2 DEF CreatePublic, Fresh, DirectoryTypes
<1>3. ASSUME NEW r \in Requests, CommitPrivate(r)
      PROVE  channels[c] # "none" => channels'[c] = channels[c]
  BY <1>3 DEF CommitPrivate, WorkInv, Creating
<1>4. ASSUME NEW r \in Requests, CommitDelete(r)
      PROVE  channels'[c] \in {channels[c], "deleted"}
  BY <1>4 DEF CommitDelete
<1>5. (\E r \in Requests : CommitStatus(r)) \/ (\E d \in Channels : UpdateChannel(d))
        \/ (\E u \in Users : DeleteUser(u)) => channels' = channels
  BY DEF CommitStatus, UpdateChannel, DeleteUser
<1> QED
  BY <1>1, <1>2, <1>3, <1>4, <1>5, TablesStep DEF Writes

-----------------------------------------------------------------------------
(* The requests.                                                           *)

LEMMA WorkKept ==
  ASSUME DirectoryTypes, WorkInv, NEW r \in Requests, OthersKeep(r), channels' = channels,
         req'[r].channel \subseteq req[r].channel,
         req'[r].channel # {} => (req'[r].pc \in Creating <=> req[r].pc \in Creating),
         req'[r].pc \in Creating => req[r].pc \in Creating,
         req'[r].pc \in Looking => \A x, y \in req'[r].who : x = y,
         req'[r].pc \in Deleting => req[r].pc \in Deleting /\ req'[r].who = req[r].who
  PROVE  WorkInv'
<1> SUFFICES ASSUME NEW q \in Requests
             PROVE  /\ \A c \in req'[q].channel : channels'[c] = "none" <=> req'[q].pc \in Creating
                    /\ req'[q].pc \in Creating =>
                         \A p \in Requests : p # q => req'[p].channel \cap req'[q].channel = {}
                    /\ req'[q].pc \in Looking => \A x, y \in req'[q].who : x = y
                    /\ req'[q].pc \in Deleting =>
                         \A c \in req'[q].channel : channels'[c] = "PUBLIC" => req'[q].who = Users
  BY DEF WorkInv, Creating, Looking, Deleting
<1>1. \A p \in Requests : req'[p].channel \subseteq req[p].channel
  BY DEF OthersKeep
<1>2. req'[q].pc \in Creating => req[q].pc \in Creating
  BY DEF OthersKeep
<1>3. req'[q].pc \in Creating =>
        \A p \in Requests : p # q => req'[p].channel \cap req'[q].channel = {}
  BY <1>1, <1>2 DEF WorkInv
<1>4. CASE q = r
  BY <1>3, <1>4 DEF WorkInv
<1>5. CASE q # r
  BY <1>3, <1>5 DEF WorkInv, OthersKeep
<1> QED
  BY <1>4, <1>5

(* A request that begins with a channel nobody else is creating.           *)
LEMMA WorkBegun ==
  ASSUME DirectoryTypes, WorkInv, NEW r \in Requests, NEW c \in Channels, OthersKeep(r),
         req'[r].channel = {c}, req'[r].pc \notin Looking,
         channels'[c] = "none" <=> req'[r].pc \in Creating,
         \A d \in Channels : d # c => channels'[d] = channels[d],
         \A q \in Requests : req[q].pc \in Creating => c \notin req[q].channel,
         req'[r].pc \in Creating \/ channels[c] = "none" =>
           \A q \in Requests : c \notin req[q].channel,
         channels[c] # "none" => channels'[c] = channels[c],
         req'[r].pc \in Deleting => (channels'[c] = "PUBLIC" => req'[r].who = Users)
  PROVE  WorkInv'
<1> SUFFICES ASSUME NEW q \in Requests
             PROVE  /\ \A d \in req'[q].channel : channels'[d] = "none" <=> req'[q].pc \in Creating
                    /\ req'[q].pc \in Creating =>
                         \A p \in Requests : p # q => req'[p].channel \cap req'[q].channel = {}
                    /\ req'[q].pc \in Looking => \A x, y \in req'[q].who : x = y
                    /\ req'[q].pc \in Deleting =>
                         \A d \in req'[q].channel : channels'[d] = "PUBLIC" => req'[q].who = Users
  BY DEF WorkInv, Creating, Looking, Deleting
<1>1. CASE q = r
  <2>1. req'[q].pc \in Creating =>
          \A p \in Requests : p # q => req'[p].channel \cap req'[q].channel = {}
    BY <1>1 DEF OthersKeep
  <2> QED
    BY <1>1, <2>1
<1>2. CASE q # r
  <2>1. req'[q] = req[q] /\ req[q].channel \subseteq Channels
    BY <1>2 DEF OthersKeep, DirectoryTypes
  <2>2. \A d \in req[q].channel : channels'[d] = channels[d]
    BY <2>1
  <2>3. req'[q].pc \in Creating =>
          \A p \in Requests : p # q => req'[p].channel \cap req'[q].channel = {}
    <3>1. ASSUME NEW p \in Requests, p # q, req[q].pc \in Creating
          PROVE  req'[p].channel \cap req[q].channel = {}
      <4>1. CASE p = r
        BY <3>1, <4>1
      <4>2. CASE p # r
        BY <3>1, <4>2 DEF OthersKeep, WorkInv
      <4> QED
        BY <4>1, <4>2
    <3> QED
      BY <2>1, <3>1
  <2> QED
    BY <2>1, <2>2, <2>3 DEF WorkInv
<1> QED
  BY <1>1, <1>2

LEMMA BeginsWork ==
  ASSUME DirectoryTypes, WorkInv, NEW r \in Requests, Begins(r)
  PROVE  WorkInv'
<1>1. PICK c \in Channels : \/ CreatePublic(r, c) \/ DeleteChannel(r, c)
                            \/ \E who \in SUBSET Users : CreatePrivate(r, c, who)
                            \/ \E u \in Users : CreateReadStatus(r, u, c)
  BY DEF Begins
<1>2. /\ {} \in SUBSET Users /\ Listing(c) \in SUBSET Users
      /\ \A u \in Users : {u} \in SUBSET Users
      /\ {"pushPublic", "pushDelete", "pushPrivate", "commitStatus"} \subseteq Stages
  BY DEF Listing, Members, DirectoryTypes, Stages
<1>3. channels[c] \in Types => \A q \in Requests : req[q].pc \in Creating => c \notin req[q].channel
  BY DEF WorkInv, Types
<1>4. Fresh(c) => channels[c] = "none" /\ \A q \in Requests : c \notin req[q].channel
  BY DEF Fresh
<1>5. CASE CreatePublic(r, c)
  <2>1. OthersKeep(r) /\ req'[r].channel = {c} /\ req'[r].pc = "pushPublic"
    BY <1>2, <1>5, BeginFacts DEF CreatePublic
  <2>2. channels'[c] = "PUBLIC" /\ \A d \in Channels : d # c => channels'[d] = channels[d]
    BY <1>5 DEF CreatePublic, DirectoryTypes
  <2>3. Fresh(c)
    BY <1>5 DEF CreatePublic
  <2> QED
    BY <1>4, <2>1, <2>2, <2>3, WorkBegun DEF Creating, Looking, Deleting
<1>6. CASE DeleteChannel(r, c)
  <2>1. /\ OthersKeep(r) /\ req'[r].channel = {c} /\ req'[r].pc = "pushDelete"
        /\ req'[r].who = Listing(c)
    BY <1>2, <1>6, BeginFacts DEF DeleteChannel
  <2>2. channels' = channels /\ channels[c] \in Types
    BY <1>6 DEF DeleteChannel, tables, Existing
  <2>3. channels[c] = "PUBLIC" => Listing(c) = Users
    BY DEF Listing
  <2> QED
    BY <1>3, <2>1, <2>2, <2>3, WorkBegun DEF Creating, Looking, Deleting, Types
<1>7. ASSUME NEW who \in SUBSET Users, CreatePrivate(r, c, who)
      PROVE  WorkInv'
  <2>1. OthersKeep(r) /\ req'[r].channel = {c} /\ req'[r].pc = "pushPrivate"
    BY <1>2, <1>7, BeginFacts DEF CreatePrivate
  <2>2. channels' = channels /\ Fresh(c)
    BY <1>7 DEF CreatePrivate, tables
  <2> QED
    BY <1>4, <2>1, <2>2, WorkBegun DEF Creating, Looking, Deleting
<1>8. ASSUME NEW u \in Users, CreateReadStatus(r, u, c)
      PROVE  WorkInv'
  <2>1. OthersKeep(r) /\ req'[r].channel = {c} /\ req'[r].pc = "commitStatus"
    BY <1>2, <1>8, BeginFacts DEF CreateReadStatus
  <2>2. channels' = channels /\ channels[c] \in Types
    BY <1>8 DEF CreateReadStatus, tables, Existing
  <2> QED
    BY <1>3, <2>1, <2>2, WorkBegun DEF Creating, Looking, Deleting, Types
<1> QED
  BY <1>1, <1>5, <1>6, <1>7, <1>8

LEMMA MovesWork ==
  ASSUME DirectoryTypes, WorkInv, NEW r \in Requests, Moves(r)
  PROVE  WorkInv'
<1> USE DEF Creating, Looking, Deleting
<1>1. {"evictAll", "commitPrivate", "evict", "commitDelete"} \subseteq Stages
  BY DEF Stages
<1>2. CASE PushPublic(r) \/ PushPrivate(r) \/ PushDelete(r)
  <2>1. PICK stage \in {"evictAll", "commitPrivate", "commitDelete"} : Goto(r, stage)
    BY <1>2 DEF PushPublic, PushPrivate, PushDelete
  <2>2. /\ OthersKeep(r) /\ req'[r].pc = stage /\ req'[r].channel = req[r].channel
        /\ req'[r].who = req[r].who
    BY <1>1, <2>1, GotoFacts
  <2>3. /\ channels' = channels
        /\ req'[r].pc \in Creating <=> req[r].pc \in Creating
        /\ req'[r].pc \in Deleting <=> req[r].pc \in Deleting
        /\ req'[r].pc \notin Looking
    <3>1. CASE PushPublic(r)
      <4>1. req'[r].pc = "evictAll"
        BY <1>1, <3>1, GotoFacts DEF PushPublic
      <4> QED
        BY <3>1, <4>1 DEF PushPublic, tables
    <3>2. CASE PushPrivate(r)
      <4>1. req'[r].pc = "commitPrivate"
        BY <1>1, <3>2, GotoFacts DEF PushPrivate
      <4> QED
        BY <3>2, <4>1 DEF PushPrivate, tables
    <3>3. CASE PushDelete(r)
      <4>1. req'[r].pc = "commitDelete"
        BY <1>1, <3>3, GotoFacts DEF PushDelete
      <4> QED
        BY <3>3, <4>1 DEF PushDelete, tables
    <3> QED
      BY <1>2, <3>1, <3>2, <3>3
  <2> QED
    BY <2>2, <2>3, WorkKept
<1>3. CASE PushPublicThrows(r) \/ EvictAll(r) \/ Rollback(r) \/ Evict(r) \/ CommitStatus(r)
  <2>1. End(r) /\ channels' = channels
    BY <1>3 DEF PushPublicThrows, EvictAll, Rollback, Evict, CommitStatus, tables
  <2>2. OthersKeep(r) /\ req'[r].pc = "idle" /\ req'[r].channel = {}
    BY <2>1, EndFacts
  <2> QED
    BY <2>1, <2>2, WorkKept
<1>4. CASE CommitPrivate(r) \/ CommitDelete(r)
  <2>1. PICK type \in {"PRIVATE", "deleted"} :
          channels' = [c \in Channels |-> IF c \in req[r].channel THEN type ELSE channels[c]]
    BY <1>4 DEF CommitPrivate, CommitDelete
  <2>2. /\ OthersKeep(r) /\ req'[r].pc = "evict" /\ req'[r].channel = req[r].channel
    BY <1>1, <1>4, GotoFacts DEF CommitPrivate, CommitDelete
  <2>3. \A q \in Requests : q # r /\ req[q].pc \in Creating =>
          req[q].channel \cap req[r].channel = {}
    BY DEF WorkInv
  <2>4. \A q \in Requests : q # r =>
          \A c \in req[q].channel : channels'[c] = "none" <=> channels[c] = "none"
    <3>1. SUFFICES ASSUME NEW q \in Requests, q # r, NEW c \in req[q].channel,
                          c \in req[r].channel
                   PROVE  channels[c] # "none" /\ channels'[c] # "none"
      BY <2>1 DEF DirectoryTypes
    <3>2. c \in Channels
      BY <3>1 DEF DirectoryTypes
    <3>3. channels'[c] # "none"
      BY <2>1, <3>1, <3>2
    <3>4. CASE CommitDelete(r)
      BY <3>1, <3>4 DEF CommitDelete, Existing, Types
    <3>5. CASE CommitPrivate(r)
      BY <3>1, <3>5 DEF CommitPrivate, WorkInv
    <3> QED
      BY <1>4, <3>3, <3>4, <3>5
  <2>5. SUFFICES ASSUME NEW q \in Requests
                 PROVE  /\ \A c \in req'[q].channel :
                             channels'[c] = "none" <=> req'[q].pc \in Creating
                        /\ req'[q].pc \in Creating =>
                             \A p \in Requests : p # q =>
                               req'[p].channel \cap req'[q].channel = {}
                        /\ req'[q].pc \in Looking => \A x, y \in req'[q].who : x = y
                        /\ req'[q].pc \in Deleting =>
                             \A c \in req'[q].channel : channels'[c] = "PUBLIC" =>
                               req'[q].who = Users
    BY DEF WorkInv
  <2>6. \A p \in Requests : req'[p].channel = req[p].channel /\ req[p].channel \subseteq Channels
    BY <2>2 DEF OthersKeep, DirectoryTypes
  <2>7. CASE q = r
    <3>1. \A c \in req'[q].channel : channels'[c] # "none"
      BY <2>1, <2>6, <2>7
    <3> QED
      BY <2>2, <2>7, <3>1
  <2>8. CASE q # r
    <3>1. req'[q] = req[q]
      BY <2>2, <2>8 DEF OthersKeep
    <3>2. \A c \in req[q].channel : channels'[c] = "PUBLIC" => channels[c] = "PUBLIC"
      BY <2>1, <2>6
    <3> QED
      BY <2>4, <2>6, <2>8, <3>1, <3>2 DEF WorkInv
  <2> QED
    BY <2>7, <2>8
<1> QED
  BY <1>2, <1>3, <1>4 DEF Moves

LEMMA WorkStep ==
  ASSUME DirectoryTypes, WorkInv, [Next]_vars
  PROVE  WorkInv'
<1>1. ASSUME NEW r \in Requests, NEW u \in Users, FindAll(r, u)
      PROVE  WorkInv'
  <2>1. /\ OthersKeep(r) /\ req'[r].pc = "public" /\ req'[r].channel = {}
        /\ req'[r].who = {u}
    BY <1>1, FindAllFacts
  <2>2. channels' = channels
    BY <1>1 DEF FindAll, tables
  <2> QED
    BY <2>1, <2>2, WorkKept DEF Creating, Looking, Deleting
<1>2. ASSUME NEW r \in Requests, Looks(r)
      PROVE  WorkInv'
  <2>1. channels' = channels
    BY <1>2 DEF Looks, QueryPublic, QueryPrivate, Put, tables
  <2>2. CASE QueryPublic(r) \/ QueryPrivate(r)
    <3>1. /\ OthersKeep(r) /\ req'[r].channel = req[r].channel /\ req'[r].who = req[r].who
          /\ req[r].pc \in {"public", "private"} /\ req'[r].pc \in {"private", "put"}
      BY <2>2, QueryPublicFacts, QueryPrivateFacts
    <3>2. \A x, y \in req[r].who : x = y
      BY <3>1 DEF WorkInv, Looking
    <3> QED
      BY <2>1, <3>1, <3>2, WorkKept DEF Creating, Looking, Deleting
  <2>3. CASE Put(r)
    <3>1. OthersKeep(r) /\ req'[r].pc = "idle" /\ req'[r].channel = {}
      BY <2>3, EndFacts DEF Put
    <3> QED
      BY <2>1, <3>1, WorkKept DEF Creating, Looking, Deleting
  <2> QED
    BY <1>2, <2>2, <2>3 DEF Looks
<1>3. CASE Otherwise \/ UNCHANGED vars
  <2>1. channels' = channels /\ req' = req
    BY <1>3 DEF Otherwise, UpdateChannel, DeleteUser, Expire, vars, tables
  <2> QED
    BY <2>1 DEF WorkInv, Creating, Looking, Deleting
<1> QED
  BY <1>1, <1>2, <1>3, BeginsWork, MovesWork, DirectorySteps

-----------------------------------------------------------------------------
(* The lists.                                                              *)

(* No list is read or put.                                                 *)
Keeps ==
  /\ \A u \in Users : cache'[u] \subseteq cache[u]
  /\ \A q \in Requests : req'[q].pc \in {"private", "put"} => req'[q] = req[q]

LEMMA RequestKeeps ==
  ASSUME NEW r \in Requests, OthersKeep(r), req'[r].pc \notin {"private", "put"}
  PROVE  \A q \in Requests : req'[q].pc \in {"private", "put"} => req'[q] = req[q]
  BY DEF OthersKeep

LEMMA BeginsKeeps ==
  ASSUME DirectoryTypes, NEW r \in Requests, Begins(r)
  PROVE  /\ OthersKeep(r) /\ req[r].pc = "idle" /\ UNCHANGED <<cache, cause>>
         /\ req'[r].pc \in {"pushPublic", "pushDelete", "pushPrivate", "commitStatus"}
<1>1. PICK c \in Channels : \/ CreatePublic(r, c) \/ DeleteChannel(r, c)
                            \/ \E who \in SUBSET Users : CreatePrivate(r, c, who)
                            \/ \E u \in Users : CreateReadStatus(r, u, c)
  BY DEF Begins
<1>2. /\ {} \in SUBSET Users /\ Listing(c) \in SUBSET Users
      /\ \A u \in Users : {u} \in SUBSET Users
      /\ {"pushPublic", "pushDelete", "pushPrivate", "commitStatus"} \subseteq Stages
  BY DEF Listing, Members, DirectoryTypes, Stages
<1>3. PICK stage \in {"pushPublic", "pushDelete", "pushPrivate", "commitStatus"},
           who \in SUBSET Users : Begin(r, stage, c, who)
  BY <1>1, <1>2 DEF CreatePublic, DeleteChannel, CreatePrivate, CreateReadStatus
<1>4. OthersKeep(r) /\ req[r].pc = "idle" /\ req'[r].pc = stage
  BY <1>2, <1>3, BeginFacts
<1>5. UNCHANGED <<cache, cause>>
  BY <1>1 DEF CreatePublic, DeleteChannel, CreatePrivate, CreateReadStatus
<1> QED
  BY <1>4, <1>5

LEMMA MovesKeeps ==
  ASSUME DirectoryTypes, NEW r \in Requests, Moves(r)
  PROVE  /\ OthersKeep(r) /\ req'[r].pc \notin {"private", "put"}
         /\ \A u \in Users : cache'[u] \subseteq cache[u]
         /\ cause \subseteq cause'
<1>1. {"evictAll", "commitPrivate", "evict", "commitDelete"} \subseteq Stages
  BY DEF Stages
<1>2. End(r) \/ \E stage \in {"evictAll", "commitPrivate", "evict", "commitDelete"} :
                  Goto(r, stage)
  BY DEF Moves, PushPublic, PushPublicThrows, EvictAll, PushPrivate, CommitPrivate, PushDelete,
         CommitDelete, Rollback, Evict, CommitStatus
<1>3. OthersKeep(r) /\ req'[r].pc \notin {"private", "put"}
  BY <1>1, <1>2, EndFacts, GotoFacts
<1>4. cause \subseteq cause'
  BY DEF Moves, PushPublic, PushPublicThrows, EvictAll, PushPrivate, CommitPrivate, PushDelete,
         CommitDelete, Rollback, Evict, CommitStatus
<1>5. \A u \in Users : cache'[u] \subseteq cache[u]
  <2>1. cache' = cache \/ \E who : cache' = Evicted(who)
    BY DEF Moves, PushPublic, PushPublicThrows, EvictAll, PushPrivate, CommitPrivate,
           PushDelete, CommitDelete, Rollback, Evict, CommitStatus
  <2> QED
    BY <2>1 DEF Evicted
<1> QED
  BY <1>3, <1>4, <1>5

LEMMA KeepsStep ==
  ASSUME DirectoryTypes, [Next]_vars
  PROVE  Keeps \/ \E r \in Requests : Looks(r)
<1>1. ASSUME NEW r \in Requests, Begins(r) PROVE Keeps
  <2>1. /\ OthersKeep(r) /\ cache' = cache /\ req'[r].pc \notin {"private", "put"}
    BY <1>1, BeginsKeeps
  <2> QED
    BY <2>1, RequestKeeps DEF Keeps
<1>2. ASSUME NEW r \in Requests, Moves(r) PROVE Keeps
  BY <1>2, MovesKeeps, RequestKeeps DEF Keeps
<1>3. ASSUME NEW r \in Requests, NEW u \in Users, FindAll(r, u) PROVE Keeps
  <2>1. OthersKeep(r) /\ req'[r].pc \notin {"private", "put"} /\ cache' = cache
    BY <1>3, FindAllFacts DEF FindAll
  <2> QED
    BY <2>1, RequestKeeps DEF Keeps
<1>4. CASE Otherwise
  BY <1>4 DEF Otherwise, UpdateChannel, DeleteUser, Expire, Evicted, Keeps
<1>5. CASE UNCHANGED vars
  BY <1>5 DEF vars, Keeps
<1> QED
  BY <1>1, <1>2, <1>3, <1>4, <1>5, DirectorySteps

LEMMA LooksKeeps ==
  ASSUME DirectoryTypes, NEW r \in Requests, Looks(r)
  PROVE  /\ OthersKeep(r) /\ UNCHANGED <<tables, cause>>
         /\ req[r].pc \in Looking /\ req'[r].pc \in {"private", "put", "idle"}
<1>1. UNCHANGED <<tables, cause>>
  BY DEF Looks, QueryPublic, QueryPrivate, Put
<1>2. CASE QueryPublic(r) \/ QueryPrivate(r)
  BY <1>1, <1>2, QueryPublicFacts, QueryPrivateFacts DEF Looking
<1>3. CASE Put(r)
  BY <1>1, <1>3, EndFacts DEF Put, Looking
<1> QED
  BY <1>2, <1>3 DEF Looks

-----------------------------------------------------------------------------
(* Private channels.                                                       *)

LEMMA MemberFacts ==
  ASSUME NEW u, NEW c
  PROVE  /\ u \in Members(c) <=> \E s \in statuses : s.channel = c /\ s.user = u
         /\ c \in JoinedBy(u) <=> u \in Members(c)
  BY DEF Members, JoinedBy

LEMMA MemberFactsPrime ==
  ASSUME NEW u, NEW c
  PROVE  u \in Members(c)' <=> \E s \in statuses' : s.channel = c /\ s.user = u
  BY DEF Members

LEMMA ShowableStays ==
  ASSUME DirectoryTypes, WorkInv, [Next]_vars, NEW u \in users', NEW c \in Channels,
         Showable(u, c)
  PROVE  Showable(u, c)'
<1>1. channels'[c] # "none" /\ (channels'[c] = "PRIVATE" => channels[c] = "PRIVATE")
  BY ChannelsStep DEF Showable
<1>2. ASSUME channels'[c] = "PRIVATE", NEW s \in statuses, s.channel = c, s.user = u
      PROVE  s \in statuses'
  <2>1. CASE UNCHANGED tables
    BY <2>1 DEF tables
  <2>2. CASE \E r \in Requests : CommitPrivate(r) \/ CommitStatus(r) \/
                                 \E d \in Channels : CreatePublic(r, d)
    BY <2>2 DEF CommitPrivate, CommitStatus, CreatePublic
  <2>3. ASSUME NEW r \in Requests, CommitDelete(r)
        PROVE  s \in statuses'
    BY <1>2, <2>3 DEF CommitDelete
  <2>4. CASE \E d \in Channels : UpdateChannel(d)
    BY <2>4 DEF UpdateChannel
  <2>5. ASSUME NEW w \in Users, DeleteUser(w)
        PROVE  s \in statuses'
    BY <1>2, <2>5 DEF DeleteUser
  <2> QED
    BY <2>1, <2>2, <2>3, <2>4, <2>5, TablesStep DEF Writes
<1>3. channels'[c] = "PRIVATE" => u \in Members(c)'
  <2> SUFFICES ASSUME channels'[c] = "PRIVATE" PROVE u \in Members(c)'
    OBVIOUS
  <2>1. PICK s \in statuses : s.channel = c /\ s.user = u
    BY <1>1, MemberFacts DEF Showable
  <2>2. s \in statuses'
    BY <1>2, <2>1
  <2> QED
    BY <2>1, <2>2, MemberFactsPrime
<1> QED
  BY <1>1, <1>3 DEF Showable

LEMMA UsersStep == ASSUME DirectoryTypes, [Next]_vars PROVE users' \subseteq users
<1>1. CASE UNCHANGED tables
  BY <1>1 DEF tables
<1>2. CASE Writes
  BY <1>2 DEF Writes, CommitPrivate, CommitDelete, CommitStatus, CreatePublic, UpdateChannel,
              DeleteUser
<1> QED
  BY <1>1, <1>2, TablesStep

LEMMA ShownStep ==
  ASSUME DirectoryTypes, DirectoryTypes', WorkInv, ShownInv, [Next]_vars
  PROVE  ShownInv'
<1>1. SUFFICES ASSUME NEW u \in users'
               PROVE  /\ \A list \in cache'[u] : \A e \in list : Showable(u, e[1])'
                      /\ \A r \in Requests : u \in req'[r].who /\ req'[r].pc \in {"private", "put"} =>
                           \A e \in req'[r].list : Showable(u, e[1])'
  BY DEF ShownInv
<1>2. u \in users /\ u \in Users
  BY UsersStep DEF DirectoryTypes
<1>3. \A c \in Channels : Showable(u, c) => Showable(u, c)'
  BY ShowableStays
<1>4. \A e \in Entries : e[1] \in Channels
  BY DEF Entries
<1>5. /\ \A list \in cache[u] : \A e \in list : e[1] \in Channels
      /\ \A r \in Requests : \A e \in req[r].list : e[1] \in Channels
  BY <1>2, <1>4 DEF DirectoryTypes
<1>6. /\ \A list \in cache[u] : \A e \in list : Showable(u, e[1])'
      /\ \A r \in Requests : u \in req[r].who /\ req[r].pc \in {"private", "put"} =>
           \A e \in req[r].list : Showable(u, e[1])'
  BY <1>2, <1>3, <1>5 DEF ShownInv
<1>7. CASE Keeps
  BY <1>2, <1>6, <1>7 DEF Keeps
<1>8. ASSUME NEW r \in Requests, QueryPublic(r)
      PROVE  /\ \A list \in cache'[u] : \A e \in list : Showable(u, e[1])'
             /\ \A q \in Requests : u \in req'[q].who /\ req'[q].pc \in {"private", "put"} =>
                  \A e \in req'[q].list : Showable(u, e[1])'
  <2>1. OthersKeep(r) /\ req'[r].list = {Entry(c) : c \in OfType("PUBLIC")} /\ cache' = cache
    BY <1>8, QueryPublicFacts DEF QueryPublic
  <2>2. \A c \in OfType("PUBLIC") : Entry(c)[1] = c /\ c \in Channels /\ Showable(u, c)
    BY EntryType DEF OfType, Showable
  <2>3. \A e \in req'[r].list : Showable(u, e[1])'
    BY <1>3, <2>1, <2>2
  <2> QED
    BY <1>6, <2>1, <2>3 DEF OthersKeep
<1>9. ASSUME NEW r \in Requests, QueryPrivate(r)
      PROVE  /\ \A list \in cache'[u] : \A e \in list : Showable(u, e[1])'
             /\ \A q \in Requests : u \in req'[q].who /\ req'[q].pc \in {"private", "put"} =>
                  \A e \in req'[q].list : Showable(u, e[1])'
  <2>1. /\ OthersKeep(r) /\ req'[r].who = req[r].who /\ req[r].pc = "private" /\ cache' = cache
        /\ req'[r].list =
             req[r].list \cup {Entry(c) : c \in UNION {PrivateOf(w) : w \in req[r].who}}
    BY <1>9, QueryPrivateFacts DEF QueryPrivate
  <2>2. ASSUME u \in req[r].who, NEW e \in req'[r].list
        PROVE  Showable(u, e[1])'
    <3>1. CASE e \in req[r].list
      BY <1>6, <2>1, <2>2, <3>1
    <3>2. CASE e \notin req[r].list
      <4>1. PICK w \in req[r].who : \E c \in PrivateOf(w) : e = Entry(c)
        BY <2>1, <2>2, <3>2
      <4>2. w = u
        BY <2>1, <2>2, <4>1 DEF WorkInv, Looking
      <4>3. PICK c \in PrivateOf(u) : e = Entry(c)
        BY <4>1, <4>2
      <4>4. c \in Channels /\ Showable(u, c)
        BY <4>3, MemberFacts DEF PrivateOf, OfType, Showable
      <4> QED
        BY <1>3, <4>3, <4>4, EntryType
    <3> QED
      BY <3>1, <3>2
  <2> QED
    BY <1>6, <2>1, <2>2 DEF OthersKeep
<1>10. ASSUME NEW r \in Requests, Put(r)
       PROVE  /\ \A list \in cache'[u] : \A e \in list : Showable(u, e[1])'
              /\ \A q \in Requests : u \in req'[q].who /\ req'[q].pc \in {"private", "put"} =>
                   \A e \in req'[q].list : Showable(u, e[1])'
  <2>1. OthersKeep(r) /\ req'[r].pc = "idle"
    BY <1>10, EndFacts DEF Put
  <2>2. cache'[u] = (IF u \in req[r].who THEN {req[r].list} ELSE cache[u]) /\ req[r].pc = "put"
    BY <1>2, <1>10 DEF Put
  <2> QED
    BY <1>6, <2>1, <2>2 DEF OthersKeep
<1> QED
  BY <1>7, <1>8, <1>9, <1>10, KeepsStep DEF Looks

-----------------------------------------------------------------------------
(* Lists that are out of date.                                             *)

NoneLooks(u) ==
  \A q \in Requests : u \in req[q].who => req[q].pc \notin {"private", "put"}

(* An eviction that was to come takes place, leaves a cause or is still to *)
(* come.                                                                   *)
LEMMA EvictionStep ==
  ASSUME DirectoryTypes, NEW r \in Requests, NEW u \in Users, NEW c \in Channels,
         [Next]_vars, WillEvict(r, u, c)
  PROVE  Excused(u, c)' \/ (cache'[u] = {} /\ NoneLooks(u)')
<1>1. /\ c \in req[r].channel
      /\ req[r].pc \in {"pushPublic", "evictAll"} \/ (req[r].pc = "evict" /\ u \in req[r].who)
  BY DEF WillEvict
<1>2. CASE req'[r] = req[r]
  BY <1>2 DEF Excused, WillEvict
<1>3. CASE PushPublic(r)
  <2>1. req'[r].pc = "evictAll" /\ req'[r].channel = req[r].channel
    BY <1>3, GotoFacts DEF PushPublic, Stages
  <2> QED
    BY <1>1, <2>1 DEF Excused, WillEvict
<1>4. CASE PushPublicThrows(r)
  BY <1>1, <1>4 DEF PushPublicThrows, Excused
<1>5. CASE EvictAll(r) \/ Evict(r)
  <2>1. PICK who \in {Users, req[r].who} :
          /\ u \in who /\ End(r) /\ cache' = Evicted(who)
          /\ cause' = cause \cup Overtaken(who, req[r].channel)
    BY <1>1, <1>5 DEF EvictAll, Evict
  <2>2. OthersKeep(r) /\ req'[r].who = {} /\ cache'[u] = {}
    BY <2>1, EndFacts DEF Evicted
  <2>3. CASE Reading(u)
    BY <1>1, <2>1, <2>3 DEF Overtaken, Excused
  <2>4. CASE ~Reading(u)
    BY <2>2, <2>4 DEF Reading, NoneLooks, OthersKeep
  <2> QED
    BY <2>3, <2>4
<1>6. ASSUME NEW q \in Requests, Begins(q) \/ Moves(q) \/ Looks(q) \/ \E w \in Users : FindAll(q, w)
      PROVE  req'[r] = req[r] \/ PushPublic(r) \/ PushPublicThrows(r) \/ EvictAll(r) \/ Evict(r)
  <2>1. OthersKeep(q)
    BY <1>6, BeginsKeeps, MovesKeeps, LooksKeeps, FindAllFacts
  <2>2. CASE q # r
    BY <2>1, <2>2 DEF OthersKeep
  <2>3. CASE q = r
    <3>1. ~Begins(r)
      BY <1>1, BeginsKeeps
    <3>2. ~Looks(r) /\ ~ \E w \in Users : FindAll(r, w)
      BY <1>1, LooksKeeps, FindAllFacts DEF Looking
    <3>3. Moves(r) => PushPublic(r) \/ PushPublicThrows(r) \/ EvictAll(r) \/ Evict(r)
      BY <1>1 DEF Moves, PushPrivate, CommitPrivate, PushDelete, CommitDelete, Rollback,
                  CommitStatus
    <3> QED
      BY <1>6, <2>3, <3>1, <3>2, <3>3
  <2> QED
    BY <2>2, <2>3
<1>7. CASE Otherwise \/ UNCHANGED vars
  <2>1. req' = req
    BY <1>7 DEF Otherwise, UpdateChannel, DeleteUser, Expire, vars
  <2> QED
    BY <1>2, <2>1
<1> QED
  BY <1>2, <1>3, <1>4, <1>5, <1>6, <1>7, DirectorySteps

LEMMA CauseStep == ASSUME DirectoryTypes, [Next]_vars PROVE cause \subseteq cause'
<1>1. ASSUME NEW r \in Requests, Begins(r) \/ Looks(r) PROVE cause' = cause
  BY <1>1, BeginsKeeps, LooksKeeps
<1>2. ASSUME NEW r \in Requests, Moves(r) PROVE cause \subseteq cause'
  BY <1>2, MovesKeeps
<1>3. ASSUME NEW r \in Requests, NEW u \in Users, FindAll(r, u) PROVE cause' = cause
  BY <1>3 DEF FindAll
<1>4. CASE Otherwise
  BY <1>4 DEF Otherwise, UpdateChannel, DeleteUser, Expire
<1> QED
  BY <1>1, <1>2, <1>3, <1>4, DirectorySteps DEF vars

LEMMA ExcusedStep ==
  ASSUME DirectoryTypes, NEW u \in Users, NEW c \in Channels, [Next]_vars, Excused(u, c)
  PROVE  Excused(u, c)' \/ (cache'[u] = {} /\ NoneLooks(u)')
  BY EvictionStep, CauseStep DEF Excused

(* What a list should say of a channel changes only with an excuse.        *)
LEMMA SameMembers ==
  ASSUME NEW u, NEW c, \A s : s.channel = c /\ s.user = u => (s \in statuses' <=> s \in statuses)
  PROVE  u \in Members(c)' <=> u \in Members(c)
  BY MemberFacts, MemberFactsPrime

Same(u, c) ==
  /\ name'[c] = name[c]
  /\ channels'[c] = "PUBLIC" <=> channels[c] = "PUBLIC"
  /\ Sees(u, c)' <=> Sees(u, c)

LEMMA SameLemma ==
  ASSUME NEW u, NEW c, name'[c] = name[c], channels'[c] = channels[c],
         \A s : s.channel = c /\ s.user = u => (s \in statuses' <=> s \in statuses)
  PROVE  Same(u, c)
<1>1. u \in Members(c)' <=> u \in Members(c)
  BY SameMembers
<1> QED
  BY <1>1 DEF Same, Sees

LEMMA SeesStep ==
  ASSUME DirectoryTypes, StatusesInv, WorkInv, [Next]_vars, NEW u \in users', NEW c \in Channels,
         ~Excused(u, c)'
  PROVE  Same(u, c)
<1>0. u \in users /\ u \in Users
  BY UsersStep DEF DirectoryTypes
<1>1. CASE UNCHANGED tables
  BY <1>1, SameLemma DEF tables
<1>2. ASSUME NEW r \in Requests, NEW d \in Channels, CreatePublic(r, d)
      PROVE  Same(u, c)
  <2>1. req'[r].pc = "pushPublic" /\ req'[r].channel = {d}
    BY <1>2, BeginFacts DEF CreatePublic, Stages
  <2>2. c # d
    BY <2>1 DEF Excused, WillEvict
  <2> QED
    BY <1>2, <2>2, SameLemma DEF CreatePublic, DirectoryTypes
<1>3. ASSUME NEW r \in Requests, CommitPrivate(r)
      PROVE  Same(u, c)
  <2>1. /\ req'[r].pc = "evict" /\ req'[r].channel = req[r].channel
        /\ req'[r].who = req[r].who
    BY <1>3, GotoFacts DEF CommitPrivate, Stages
  <2>2. /\ name' = name /\ statuses' = statuses \cup Rows(r, req[r].who, req[r].channel)
        /\ channels'[c] = IF c \in req[r].channel THEN "PRIVATE" ELSE channels[c]
    BY <1>3 DEF CommitPrivate
  <2>3. \A s \in Rows(r, req[r].who, req[r].channel) :
          s.user \in req[r].who /\ s.channel \in req[r].channel
    BY DEF Rows
  <2>4. CASE c \notin req[r].channel
    BY <2>2, <2>3, <2>4, SameLemma
  <2>5. CASE c \in req[r].channel
    <3>1. u \notin req[r].who
      BY <2>1, <2>5 DEF Excused, WillEvict
    <3>2. channels[c] = "none"
      BY <1>3, <2>5 DEF CommitPrivate, WorkInv, Creating
    <3>3. \A s \in statuses' : s.channel = c => s.user # u
      BY <2>2, <2>3, <3>1, <3>2 DEF StatusesInv, Types
    <3>4. u \notin Members(c)'
      BY <3>3, MemberFactsPrime
    <3> QED
      BY <2>2, <2>5, <3>2, <3>4 DEF Same, Sees
  <2> QED
    BY <2>4, <2>5
<1>4. ASSUME NEW r \in Requests, CommitDelete(r)
      PROVE  Same(u, c)
  <2>1. /\ req'[r].pc = "evict" /\ req'[r].channel = req[r].channel
        /\ req'[r].who = req[r].who
    BY <1>4, GotoFacts DEF CommitDelete, Stages
  <2>2. /\ name' = name /\ statuses' = {s \in statuses : s.channel \notin req[r].channel}
        /\ channels'[c] = IF c \in req[r].channel THEN "deleted" ELSE channels[c]
        /\ UNION {(Members(d) \ req[r].who) \X {d} : d \in req[r].channel} \subseteq cause'
    BY <1>4 DEF CommitDelete
  <2>3. CASE c \notin req[r].channel
    BY <2>2, <2>3, SameLemma
  <2>4. CASE c \in req[r].channel
    <3>1. u \notin req[r].who
      BY <2>1, <2>4 DEF Excused, WillEvict
    <3>2. u \notin Members(c)
      BY <2>2, <2>4, <3>1 DEF Excused
    <3>3. channels[c] # "PUBLIC"
      BY <1>0, <1>4, <2>4, <3>1 DEF CommitDelete, WorkInv, Deleting
    <3> QED
      BY <2>2, <2>4, <3>2, <3>3 DEF Same, Sees
  <2> QED
    BY <2>3, <2>4
<1>5. ASSUME NEW r \in Requests, CommitStatus(r)
      PROVE  Same(u, c)
  <2>1. name' = name /\ channels' = channels
    BY <1>5 DEF CommitStatus
  <2>2. CASE statuses' = statuses
    BY <2>1, <2>2, SameLemma
  <2>3. CASE /\ statuses' = statuses \cup Rows(r, req[r].who, req[r].channel)
             /\ cause' = cause \cup (req[r].who \X req[r].channel)
    <3>1. ~(u \in req[r].who /\ c \in req[r].channel)
      BY <2>3 DEF Excused
    <3>2. \A s \in Rows(r, req[r].who, req[r].channel) :
            s.user \in req[r].who /\ s.channel \in req[r].channel
      BY DEF Rows
    <3> QED
      BY <2>1, <2>3, <3>1, <3>2, SameLemma
  <2> QED
    BY <1>5, <2>2, <2>3 DEF CommitStatus
<1>6. ASSUME NEW d \in Channels, UpdateChannel(d)
      PROVE  Same(u, c)
  <2>1. cause' = cause \cup (Users \X {d})
    BY <1>6 DEF UpdateChannel
  <2>2. c # d
    BY <1>0, <2>1 DEF Excused
  <2> QED
    BY <1>6, <2>2, SameLemma DEF UpdateChannel, DirectoryTypes
<1>7. ASSUME NEW w \in Users, DeleteUser(w)
      PROVE  Same(u, c)
  <2>1. u # w
    BY <1>7 DEF DeleteUser
  <2> QED
    BY <1>7, <2>1, SameLemma DEF DeleteUser
<1> QED
  BY <1>1, <1>2, <1>3, <1>4, <1>5, <1>6, <1>7, TablesStep DEF Writes

LEMMA EntryOf ==
  ASSUME NEW c
  PROVE  Entry(c)[1] = c /\ (name'[c] = name[c] => Entry(c)' = Entry(c))
  BY DEF Entry

LEMMA ListsKept ==
  ASSUME DirectoryTypes, StatusesInv, WorkInv, ListsInv, [Next]_vars, Keeps
  PROVE  ListsInv'
<1>1. SUFFICES ASSUME NEW u \in users', NEW c \in Channels, ~Excused(u, c)'
               PROVE  Right(u, c)'
  BY DEF ListsInv
<1>2. u \in users /\ u \in Users
  BY UsersStep DEF DirectoryTypes
<1>3. CASE Excused(u, c)
  <2>1. cache'[u] = {} /\ NoneLooks(u)'
    BY <1>1, <1>2, <1>3, ExcusedStep
  <2> QED
    BY <2>1 DEF Right, NoneLooks
<1>4. CASE Right(u, c)
  <2>1. Same(u, c)
    BY <1>1, SeesStep
  <2>2. Entry(c)' = Entry(c)
    BY <2>1, EntryOf DEF Same
  <2>3. \A list \in cache'[u] : Says(list, c, Sees(u, c))'
    <3>1. \A list \in cache'[u] : Says(list, c, Sees(u, c))
      BY <1>2, <1>4 DEF Right, Keeps
    <3> QED
      BY <2>1, <2>2, <3>1 DEF Same, Says, Entries
  <2>4. ASSUME NEW r \in Requests, u \in req'[r].who, req'[r].pc \in {"private", "put"}
        PROVE  /\ req'[r].pc = "put" => Says(req[r].list, c, Sees(u, c))'
               /\ req'[r].pc = "private" => Says(req[r].list, c, channels[c] = "PUBLIC")'
    <3>1. req'[r] = req[r]
      BY <2>4 DEF Keeps
    <3>2. /\ req'[r].pc = "put" => Says(req[r].list, c, Sees(u, c))
          /\ req'[r].pc = "private" => Says(req[r].list, c, channels[c] = "PUBLIC")
      BY <1>4, <2>4, <3>1 DEF Right
    <3> QED
      BY <2>1, <2>2, <3>1, <3>2 DEF Same, Says, Entries
  <2> QED
    BY <2>3, <2>4 DEF Right
<1> QED
  BY <1>2, <1>3, <1>4 DEF ListsInv

LEMMA LooksExcused ==
  ASSUME DirectoryTypes, NEW r \in Requests, Looks(r), NEW u, NEW c
  PROVE  Excused(u, c) => Excused(u, c)'
<1>1. OthersKeep(r) /\ cause' = cause /\ req[r].pc \in Looking
  BY LooksKeeps
<1> QED
  BY <1>1 DEF OthersKeep, Excused, WillEvict, Looking

LEMMA ListsLooked ==
  ASSUME DirectoryTypes, WorkInv, ListsInv, NEW r \in Requests, Looks(r)
  PROVE  ListsInv'
<1>1. SUFFICES ASSUME NEW u \in users', NEW c \in Channels, ~Excused(u, c)'
               PROVE  Right(u, c)'
  BY DEF ListsInv
<1>2. UNCHANGED tables /\ OthersKeep(r)
  BY LooksKeeps
<1>3. u \in users /\ u \in Users
  BY <1>2 DEF DirectoryTypes, tables
<1>4. Right(u, c)
  BY <1>1, <1>3, LooksExcused DEF ListsInv
<1>5. Entry(c)' = Entry(c) /\ Sees(u, c)' = Sees(u, c) /\ channels' = channels
  BY <1>2 DEF tables, Entry, Sees, Members
<1>6. ASSUME NEW q \in Requests, q # r, u \in req'[q].who
      PROVE  /\ req'[q].pc = "put" => Says(req[q].list, c, Sees(u, c))'
             /\ req'[q].pc = "private" => Says(req[q].list, c, channels[c] = "PUBLIC")'
  <2>1. req'[q] = req[q]
    BY <1>2, <1>6 DEF OthersKeep
  <2>2. /\ req[q].pc = "put" => Says(req[q].list, c, Sees(u, c))
        /\ req[q].pc = "private" => Says(req[q].list, c, channels[c] = "PUBLIC")
    BY <1>4, <1>6, <2>1 DEF Right
  <2> QED
    BY <1>5, <2>1, <2>2 DEF Says, Entries
<1>7. ASSUME cache' = cache
      PROVE  \A list \in cache'[u] : Says(list, c, Sees(u, c))'
  <2>1. \A list \in cache'[u] : Says(list, c, Sees(u, c))
    BY <1>4, <1>7 DEF Right
  <2> QED
    BY <1>5, <2>1 DEF Says, Entries
<1>8. CASE QueryPublic(r)
  <2>1. /\ req'[r].pc = "private" /\ req'[r].list = {Entry(d) : d \in OfType("PUBLIC")}
        /\ cache' = cache
    BY <1>8, QueryPublicFacts DEF QueryPublic
  <2>2. \A e : e[1] = c => (e \in req'[r].list <=> e = Entry(c) /\ channels[c] = "PUBLIC")
    BY <2>1, EntryOf DEF OfType
  <2>3. Says(req[r].list, c, channels[c] = "PUBLIC")'
    BY <1>5, <2>2 DEF Says, Entries
  <2> QED
    BY <1>6, <1>7, <2>1, <2>3 DEF Right
<1>9. CASE QueryPrivate(r)
  <2>1. /\ req[r].pc = "private" /\ req'[r].pc = "put" /\ req'[r].who = req[r].who
        /\ cache' = cache
        /\ req'[r].list =
             req[r].list \cup {Entry(d) : d \in UNION {PrivateOf(w) : w \in req[r].who}}
    BY <1>9, QueryPrivateFacts DEF QueryPrivate
  <2>2. ASSUME u \in req[r].who
        PROVE  Says(req[r].list, c, Sees(u, c))'
    <3>1. Says(req[r].list, c, channels[c] = "PUBLIC")
      BY <1>4, <2>1, <2>2 DEF Right
    <3>2. \A w \in req[r].who : w = u
      BY <2>1, <2>2 DEF WorkInv, Looking
    <3>3. UNION {PrivateOf(w) : w \in req[r].who} = PrivateOf(u)
      BY <2>2, <3>2
    <3>4. \A e : e[1] = c => (e \in req'[r].list <=>
                               e \in req[r].list \/ (e = Entry(c) /\ c \in PrivateOf(u)))
      <4>1. req'[r].list = req[r].list \cup {Entry(d) : d \in PrivateOf(u)}
        BY <2>1, <3>3
      <4> QED
        BY <4>1, EntryOf
    <3>5. c \in PrivateOf(u) <=> channels[c] = "PRIVATE" /\ u \in Members(c)
      BY MemberFacts DEF PrivateOf, OfType
    <3>6. \A e \in Entries : e[1] = c => (e \in req'[r].list <=> e = Entry(c) /\ Sees(u, c))
      BY <3>1, <3>4, <3>5 DEF Says, Sees
    <3> QED
      BY <1>5, <3>6 DEF Says, Entries
  <2> QED
    BY <1>6, <1>7, <2>1, <2>2 DEF Right
<1>10. CASE Put(r)
  <2>1. /\ req'[r].pc = "idle" /\ req[r].pc = "put"
        /\ cache'[u] = IF u \in req[r].who THEN {req[r].list} ELSE cache[u]
    BY <1>3, <1>10, EndFacts DEF Put
  <2>2. \A list \in cache'[u] : Says(list, c, Sees(u, c))
    BY <1>4, <2>1 DEF Right
  <2>3. \A list \in cache'[u] : Says(list, c, Sees(u, c))'
    BY <1>5, <2>2 DEF Says, Entries
  <2> QED
    BY <1>6, <2>1, <2>3 DEF Right
<1> QED
  BY <1>8, <1>9, <1>10 DEF Looks

LEMMA ListsStep ==
  ASSUME DirectoryTypes, StatusesInv, WorkInv, ListsInv, [Next]_vars
  PROVE  ListsInv'
  BY KeepsStep, ListsKept, ListsLooked

-----------------------------------------------------------------------------
(* Theorems.                                                               *)

LEMMA DirectoryInit == ASSUME Init PROVE DirectoryInv
<1>1. Idle.pc = "idle" /\ Idle.channel = {} /\ Idle.who = {} /\ Idle \in RequestTypes
  BY DEF Idle, RequestTypes, Stages
<1>2. \A r \in Requests : req[r] = Idle
  BY DEF Init
<1>3. DirectoryTypes
  BY <1>1, DirectoryConstants DEF Init, DirectoryTypes, RequestTypes, Types
<1>4. StatusesInv
  BY DEF Init, StatusesInv
<1>5. WorkInv
  BY <1>1, <1>2 DEF WorkInv, Creating, Looking, Deleting
<1>6. ShownInv
  BY <1>1, <1>2 DEF Init, ShownInv, DirectoryTypes
<1>7. ListsInv
  BY <1>1, <1>2 DEF Init, ListsInv, Right
<1> QED
  BY <1>3, <1>4, <1>5, <1>6, <1>7 DEF DirectoryInv

(* DirectoryInv holds in every reachable state.                            *)
THEOREM DirectoryInductive == Spec => []DirectoryInv
<1>1. DirectoryInv /\ [Next]_vars => DirectoryInv'
  BY TypesStep, StatusesStep, WorkStep, ShownStep, ListsStep DEF DirectoryInv
<1> QED
  BY <1>1, DirectoryInit, PTL DEF Spec

(* Every variable keeps its type, and an account has one cached list at    *)
(* most.                                                                   *)
THEOREM DirectoryTypeCorrect == Spec => []TypeOK
<1>1. DirectoryInv => TypeOK
  <2> SUFFICES ASSUME DirectoryInv PROVE TypeOK
    OBVIOUS
  <2>1. ASSUME NEW u \in Users PROVE Cardinality(cache[u]) <= 1
    <3>1. CASE cache[u] = {}
      BY <3>1, FS_EmptySet
    <3>2. CASE cache[u] # {}
      <4>1. PICK list \in cache[u] : cache[u] = {list}
        BY <3>2 DEF DirectoryInv, DirectoryTypes
      <4>2. Cardinality({list}) = 1
        BY FS_Singleton
      <4> QED
        BY <4>1, <4>2
    <3> QED
      BY <3>1, <3>2
  <2> QED
    BY <2>1 DEF DirectoryInv, DirectoryTypes, TypeOK
<1> QED
  BY <1>1, DirectoryInductive, PTL

(* For any accounts, channels and requests: no list, however old, shows an *)
(* account a private channel it is not a participant of.                   *)
THEOREM PrivateStaysPrivate == Spec => []PrivateListedToMembers
<1>1. DirectoryInv => PrivateListedToMembers
  BY DEF DirectoryInv, ShownInv, Showable, PrivateListedToMembers
<1> QED
  BY <1>1, DirectoryInductive, PTL

LEMMA VisibleLemma ==
  ASSUME NEW u, NEW c \in Channels, NEW e, e[1] = c
  PROVE  e \in Visible(u) <=> e = Entry(c) /\ Sees(u, c)
<1>1. \A d \in Channels : d \in OfType("PUBLIC") \cup PrivateOf(u) <=> Sees(u, d)
  BY MemberFacts DEF OfType, PrivateOf, Sees
<1>2. \A d \in OfType("PUBLIC") \cup PrivateOf(u) : d \in Channels
  BY DEF OfType, PrivateOf
<1> QED
  BY <1>1, <1>2, EntryOf DEF Visible

(* For any accounts, channels and requests: with no request at work, a     *)
(* cached list is wrong about a channel only if it was renamed, joined     *)
(* later, pushed with an exception, deleted past a participant, or put     *)
(* after an eviction that it was read before.                              *)
THEOREM ListsAccounted == Spec => []WrongListHasCause
<1>1. DirectoryInv => WrongListHasCause
  <2> SUFFICES ASSUME DirectoryInv, Quiet, NEW u \in users, NEW list \in cache[u],
                      NEW c \in Differences(list, Visible(u))
               PROVE  <<u, c>> \in cause
    BY DEF WrongListHasCause
  <2>1. u \in Users /\ list \subseteq Entries
    BY DEF DirectoryInv, DirectoryTypes
  <2>2. Visible(u) \subseteq Entries
    <3>1. \A d \in OfType("PUBLIC") \cup PrivateOf(u) : Entry(d) \in Entries
      BY EntryType DEF OfType, PrivateOf, DirectoryInv
    <3> QED
      BY <3>1 DEF Visible
  <2>3. PICK e \in (list \ Visible(u)) \cup (Visible(u) \ list) : c = e[1]
    BY DEF Differences
  <2>4. e \in Entries /\ c \in Channels
    BY <2>1, <2>2, <2>3 DEF Entries
  <2>5. ~Says(list, c, Sees(u, c))
    BY <2>3, <2>4, VisibleLemma DEF Says
  <2>6. Excused(u, c)
    BY <2>4, <2>5 DEF DirectoryInv, ListsInv, Right
  <2> QED
    BY <2>6 DEF Quiet, Excused, WillEvict
<1> QED
  BY <1>1, DirectoryInductive, PTL
=============================================================================
