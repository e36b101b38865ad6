------------------------- MODULE ClientMessagesProofs -------------------------
(***************************************************************************)
(* Proofs about ClientMessages, for any channels, any number of messages   *)
(* and fetches, and any page size.                                         *)
(***************************************************************************)
EXTENDS ClientMessages, FiniteSetTheorems, WellFoundedInduction, TLAPS

Visible(m) == sent[m].pc \in {"stored", "pushed"}
Within(m, c) == Visible(m) /\ sent[m].channel = c
Clean == "overtaken" \notin spoiled
Heard == newMessages \cup wire \cup unheard
Pushed(m) == sent[m].pc = "pushed" /\ sent[m].channel = active

(* TypeOK without its last clause about the scroller.                      *)
Types ==
  /\ sent \in [Messages -> [pc : {"none", "saving", "stored", "pushed"},
                            channel : Optional(Channels)]]
  /\ active \in Optional(Channels)
  /\ messages \subseteq Messages /\ newMessages \subseteq Messages
  /\ pagination \in [nextCursor : 1 .. Newest, hasNext : BOOLEAN]
  /\ triggered \in BOOLEAN
  /\ fetch \in [Fetches -> [pc : {"idle", "asked", "served"}, channel : Optional(Channels),
                            cursor : 1 .. Newest, page : SUBSET Messages,
                            next : [nextCursor : 1 .. Newest, hasNext : BOOLEAN]]]
  /\ socket \in {"down", "connecting", "up", "broken"}
  /\ subscriptions \subseteq Channels
  /\ live \in {"none", "asked", "on"}
  /\ wire \subseteq Messages /\ unheard \subseteq Messages
  /\ lost \subseteq Channels /\ spoiled \subseteq {"failed", "overtaken"}

(* The store's entries: that of the open channel, and those a lost         *)
(* connection left over.                                                   *)
EntriesInv ==
  /\ subscriptions \subseteq active \cup lost
  /\ socket \in {"down", "connecting"} => subscriptions \subseteq lost
  /\ socket \in {"up", "broken"} /\ active # {} /\ live = "none" => active \subseteq lost

(* Pushes belong to the open channel.                                      *)
PushInv ==
  /\ \A m \in Messages : sent[m].pc # "none" => sent[m].channel # {}
  /\ \A m \in newMessages \cup wire : Pushed(m)

(* A cursor names a message, and an older one is there.                    *)
Continues(next, c) ==
  next.hasNext => /\ next.nextCursor \in Messages
                  /\ \E m \in Messages : Within(m, c) /\ m < next.nextCursor

(* What a fetch carries back.                                              *)
Carries(f) ==
  /\ \A m \in fetch[f].page : Within(m, fetch[f].channel) /\ Older(m, fetch[f].cursor)
  /\ Continues(fetch[f].next, fetch[f].channel)
  /\ fetch[f].next.hasNext =>
       /\ Older(fetch[f].next.nextCursor, fetch[f].cursor)
       /\ \A m \in fetch[f].page : fetch[f].next.nextCursor <= m

ServedInv == \A f \in Fetches : fetch[f].pc = "served" => Carries(f)

(* A fetch that no other overtook: the first of its channel finds an empty *)
(* view, a later one was asked for by the scroller and brings something.   *)
FetchFits(f) ==
  IF fetch[f].cursor = Newest
    THEN messages = {} /\ pagination = NoPage /\ ~triggered
    ELSE /\ triggered /\ pagination.hasNext /\ fetch[f].cursor = pagination.nextCursor
         /\ fetch[f].pc = "served" => fetch[f].page # {}

(* The view, as long as no fetch came back to a channel it was not for.    *)
ViewFits ==
  /\ active = {} => InFlight = {} /\ messages = {} /\ pagination = NoPage /\ ~triggered
  /\ \A f \in InFlight : fetch[f].channel = active /\ FetchFits(f)
  /\ \A f, g \in InFlight : f = g
  /\ \A m \in messages : Within(m, active)
  /\ Continues(pagination, active)
  /\ pagination.hasNext => \A m \in messages : pagination.nextCursor <= m
  /\ triggered => pagination.hasNext

ViewInv == Clean => ViewFits

(* Where a pushed message of the open channel is: with the view, or older  *)
(* than the cursor, or covered by the fetch that is in flight.             *)
Covers(shown, next, m) == m \in shown \cup Heard \/ (next.hasNext /\ m < next.nextCursor)

CoverInv ==
  active # {} /\ spoiled = {} =>
    /\ triggered => InFlight # {}
    /\ \A m \in Messages : Pushed(m) =>
         Covers(messages, pagination, m) \/ \E f \in InFlight : fetch[f].cursor = Newest
    /\ \A f \in InFlight : fetch[f].pc = "served" =>
         \A m \in Messages : Pushed(m) /\ Older(m, fetch[f].cursor) =>
           Covers(fetch[f].page, fetch[f].next, m)

ClientInv == Types /\ EntriesInv /\ PushInv /\ ServedInv /\ ViewInv /\ CoverInv

-----------------------------------------------------------------------------
(* Steps, grouped by what they touch.                                      *)

SendStep == \E m \in Messages : \/ \E c \in Channels : Create(m, c)
                                \/ Commit(m) \/ Broadcast(m)

LinkStep == Connected \/ Subscribed \/ Breaks \/ Closed \/ \E m \in Messages : Received(m)

FetchStep == \E f \in Fetches : Served(f) \/ Fetched(f) \/ FetchFails(f) \/ LoadMore(f)

ShowStep == Leave \/ \E f \in Fetches, c \in Channels : Open(f, c)

LEMMA StepKinds ==
  [Next]_vars => SendStep \/ LinkStep \/ FetchStep \/ ShowStep \/ UNCHANGED vars
  BY DEF Next, SendStep, LinkStep, FetchStep, ShowStep

-----------------------------------------------------------------------------
(* Pages.                                                                  *)

LEMMA Numbers ==
  /\ Newest \in Nat /\ Newest \notin Messages /\ Newest \in 1 .. Newest
  /\ \A m \in Messages : m \in Nat /\ m \in 1 .. Newest
  BY ClientConstants DEF Messages, Newest

LEMMA FiniteMessages ==
  ASSUME NEW S \in SUBSET Messages
  PROVE  IsFiniteSet(S) /\ Cardinality(S) \in Nat
<1>1. IsFiniteSet(Messages)
  BY ClientConstants, FS_Interval DEF Messages
<1> QED
  BY <1>1, FS_Subset, FS_CardinalityType

LEMMA Smallest ==
  ASSUME NEW S \in SUBSET Nat, S # {}
  PROVE  \E x \in S : \A y \in S : x <= y
<1>1. PICK x \in S : \A y \in S : <<y, x>> \notin OpToRel(<, Nat)
  BY WFMin, NatLessThanWellFounded
<1>2. \A y \in S : ~(y < x)
  BY <1>1 DEF OpToRel
<1> QED
  BY <1>2

LEMMA Largest ==
  ASSUME NEW S \in SUBSET Messages, S # {}
  PROVE  \E x \in S : \A y \in S : y <= x
<1> DEFINE T == {MaxMessages - y : y \in S}
<1>1. \A y \in S : y \in Nat /\ MaxMessages - y \in Nat
  BY ClientConstants DEF Messages
<1>2. T \in SUBSET Nat /\ T # {}
  BY <1>1
<1>3. PICK t \in T : \A u \in T : t <= u
  BY <1>2, Smallest
<1>4. PICK x \in S : t = MaxMessages - x
  OBVIOUS
<1>5. \A y \in S : MaxMessages - x <= MaxMessages - y
  BY <1>3, <1>4
<1> QED
  BY <1>1, <1>5, ClientConstants

(* What a page leaves out is older than all it holds.                      *)
LEMMA PageIsNewest ==
  ASSUME NEW rows \in SUBSET Messages, NEW m \in Page(rows), NEW n \in rows \ Page(rows)
  PROVE  n < m
<1> DEFINE Above(k) == {x \in rows : x > k}
<1>1. /\ m \in rows /\ Cardinality(Above(m)) < PageSize /\ ~(Cardinality(Above(n)) < PageSize)
      /\ m \in Nat /\ n \in Nat /\ m # n
  BY ClientConstants DEF Page, Messages
<1>2. SUFFICES ASSUME n > m PROVE FALSE
  BY <1>1
<1>3. \A x \in rows : x > n => x > m
  BY <1>1, <1>2, Numbers
<1>4. Above(n) \in SUBSET Above(m)
  BY <1>3
<1>5. Above(m) \in SUBSET Messages /\ Above(n) \in SUBSET Messages
  OBVIOUS
<1>6. /\ Cardinality(Above(n)) <= Cardinality(Above(m))
      /\ Cardinality(Above(n)) \in Nat /\ Cardinality(Above(m)) \in Nat
  BY <1>4, <1>5, FiniteMessages, FS_Subset
<1> QED
  BY <1>1, <1>6, ClientConstants

LEMMA PageIsFilled ==
  ASSUME NEW rows \in SUBSET Messages, rows # {}
  PROVE  Page(rows) # {}
<1>1. PICK x \in rows : \A y \in rows : y <= x
  BY Largest
<1>2. \A y \in rows : ~(y > x)
  BY <1>1, Numbers
<1>3. {y \in rows : y > x} = {}
  BY <1>2
<1>4. Cardinality({y \in rows : y > x}) = 0
  BY <1>3, FS_EmptySet
<1>5. x \in Page(rows)
  BY <1>4, ClientConstants DEF Page
<1> QED
  BY <1>5

(* A slice loses nothing: a row is on the page or older than the cursor,   *)
(* and the cursor is the oldest message of the page.                       *)
LEMMA SliceLemma ==
  ASSUME NEW rows \in SUBSET Messages
  PROVE  /\ Page(rows) \in SUBSET rows
         /\ Slice(rows) \in [nextCursor : 1 .. Newest, hasNext : BOOLEAN]
         /\ Slice(rows).hasNext =>
              /\ Slice(rows).nextCursor \in rows
              /\ \A m \in Page(rows) : Slice(rows).nextCursor <= m
              /\ \E m \in rows : m < Slice(rows).nextCursor
         /\ \A m \in rows :
              m \in Page(rows) \/ (Slice(rows).hasNext /\ m < Slice(rows).nextCursor)
<1>1. Page(rows) \in SUBSET rows
  BY DEF Page
<1>2. NoPage \in [nextCursor : 1 .. Newest, hasNext : BOOLEAN] /\ ~NoPage.hasNext
  BY ClientConstants DEF NoPage, Newest
<1>3. CASE Page(rows) = rows
  BY <1>1, <1>2, <1>3 DEF Slice
<1>4. CASE Page(rows) # rows
  <2>1. PICK n \in rows : n \notin Page(rows)
    BY <1>1, <1>4
  <2>2. Page(rows) \in SUBSET Nat /\ Page(rows) # {}
    <3>1. Page(rows) # {}
      BY <2>1, PageIsFilled
    <3>2. \A m \in Page(rows) : m \in Nat
      BY <1>1, Numbers
    <3> QED
      BY <3>1, <3>2
  <2>3. \E m \in Page(rows) : \A k \in Page(rows) : m <= k
    BY <2>2, Smallest
  <2> DEFINE c == CHOOSE m \in Page(rows) : \A k \in Page(rows) : m <= k
  <2>4. c \in Page(rows) /\ \A k \in Page(rows) : c <= k
    BY <2>3
  <2>5. Slice(rows) = [nextCursor |-> c, hasNext |-> TRUE]
    BY <1>4 DEF Slice
  <2>6. \A m \in rows : m \in Page(rows) \/ m < c
    BY <2>4, PageIsNewest
  <2>7. c \in rows /\ c \in 1 .. Newest
    BY <1>1, <2>4, Numbers
  <2> HIDE DEF c
  <2> QED
    BY <1>1, <2>1, <2>4, <2>5, <2>6, <2>7
<1> QED
  BY <1>3, <1>4

-----------------------------------------------------------------------------
(* Types.                                                                  *)

LEMMA NoFetchType ==
  /\ NoPage \in [nextCursor : 1 .. Newest, hasNext : BOOLEAN] /\ ~NoPage.hasNext
  /\ NoFetch \in [pc : {"idle", "asked", "served"}, channel : Optional(Channels),
                  cursor : 1 .. Newest, page : SUBSET Messages,
                  next : [nextCursor : 1 .. Newest, hasNext : BOOLEAN]]
  BY Numbers DEF NoFetch, NoPage, Optional

LEMMA TypesInit == Init => Types
<1> SUFFICES ASSUME Init PROVE Types
  OBVIOUS
<1>1. {} \in Optional(Channels)
  BY DEF Optional
<1>2. sent \in [Messages -> [pc : {"none", "saving", "stored", "pushed"},
                             channel : Optional(Channels)]]
  BY <1>1 DEF Init
<1>3. fetch \in [Fetches -> [pc : {"idle", "asked", "served"}, channel : Optional(Channels),
                             cursor : 1 .. Newest, page : SUBSET Messages,
                             next : [nextCursor : 1 .. Newest, hasNext : BOOLEAN]]]
  BY NoFetchType DEF Init
<1> QED
  BY <1>1, <1>2, <1>3, NoFetchType DEF Init, Types

LEMMA TypesSend == Types /\ SendStep => Types'
<1> SUFFICES ASSUME Types, SendStep PROVE Types'
  OBVIOUS
<1>1. PICK m \in Messages : (\E c \in Channels : Create(m, c)) \/ Commit(m) \/ Broadcast(m)
  BY DEF SendStep
<1>2. CASE \E c \in Channels : Create(m, c)
  BY <1>2 DEF Create, Types, view, link, history, Optional
<1>3. CASE Commit(m)
  BY <1>3 DEF Commit, Types, view, link, history
<1>4. CASE Broadcast(m)
  BY <1>4 DEF Broadcast, Types, view
<1> QED
  BY <1>1, <1>2, <1>3, <1>4

LEMMA TypesLink == Types /\ LinkStep => Types'
<1> SUFFICES ASSUME Types, LinkStep PROVE Types'
  OBVIOUS
<1>1. CASE Connected
  BY <1>1 DEF Connected, Subscribe, Types, view, history, Optional
<1>2. CASE Subscribed
  BY <1>2 DEF Subscribed, Types, view, history
<1>3. CASE Breaks
  BY <1>3 DEF Breaks, Types, view
<1>4. CASE Closed
  BY <1>4 DEF Closed, Types, view, Optional
<1>5. CASE \E m \in Messages : Received(m)
  BY <1>5 DEF Received, Types, history
<1> QED
  BY <1>1, <1>2, <1>3, <1>4, <1>5 DEF LinkStep

LEMMA RowsLemma ==
  ASSUME NEW c, NEW cursor
  PROVE  /\ Rows(c, cursor) \in SUBSET Messages
         /\ \A m \in Messages : m \in Rows(c, cursor) <=> Within(m, c) /\ Older(m, cursor)
  BY DEF Rows, Within, Visible

(* What a served fetch is given.                                           *)
LEMMA ServedLemma ==
  ASSUME Types, NEW f \in Fetches, Served(f)
  PROVE  \E rows \in SUBSET Messages :
           /\ rows = Rows(fetch[f].channel, fetch[f].cursor)
           /\ fetch[f].pc = "asked"
           /\ fetch' = [fetch EXCEPT ![f].pc = "served", ![f].page = Page(rows),
                                     ![f].next = Slice(rows)]
           /\ UNCHANGED <<sent, view, link, history>>
  BY RowsLemma DEF Served

LEMMA TypesFetch == Types /\ FetchStep => Types'
<1> SUFFICES ASSUME Types, FetchStep PROVE Types'
  OBVIOUS
<1>1. PICK f \in Fetches : Served(f) \/ Fetched(f) \/ FetchFails(f) \/ LoadMore(f)
  BY DEF FetchStep
<1>2. CASE Served(f)
  <2>1. PICK rows \in SUBSET Messages :
           /\ fetch' = [fetch EXCEPT ![f].pc = "served", ![f].page = Page(rows),
                                     ![f].next = Slice(rows)]
           /\ UNCHANGED <<sent, view, link, history>>
    BY <1>2, ServedLemma
  <2>2. /\ Page(rows) \in SUBSET Messages
        /\ Slice(rows) \in [nextCursor : 1 .. Newest, hasNext : BOOLEAN]
    BY SliceLemma
  <2>3. fetch' \in [Fetches -> [pc : {"idle", "asked", "served"}, channel : Optional(Channels),
                                cursor : 1 .. Newest, page : SUBSET Messages,
                                next : [nextCursor : 1 .. Newest, hasNext : BOOLEAN]]]
    <3> DEFINE page == Page(rows)
               next == Slice(rows)
               new == [fetch[f] EXCEPT !.pc = "served", !.page = page, !.next = next]
    <3>0. /\ fetch[f] \in [pc : {"idle", "asked", "served"}, channel : Optional(Channels),
                            cursor : 1 .. Newest, page : SUBSET Messages,
                            next : [nextCursor : 1 .. Newest, hasNext : BOOLEAN]]
          /\ page \in SUBSET Messages
          /\ next \in [nextCursor : 1 .. Newest, hasNext : BOOLEAN]
      BY <2>2 DEF Types
    <3>1. new \in [pc : {"idle", "asked", "served"}, channel : Optional(Channels),
                   cursor : 1 .. Newest, page : SUBSET Messages,
                   next : [nextCursor : 1 .. Newest, hasNext : BOOLEAN]]
      <4> HIDE DEF page, next
      <4> QED
        BY <3>0
    <3>2. fetch' = [fetch EXCEPT ![f] = new]
      BY <2>1 DEF Types
    <3> HIDE DEF new
    <3> QED
      BY <3>1, <3>2 DEF Types
  <2> QED
    BY <2>1, <2>3 DEF Types, view, link, history
<1>3. CASE Fetched(f)
  BY NoFetchType, <1>3 DEF Fetched, Types, link, history
<1>4. CASE FetchFails(f)
  BY NoFetchType, <1>4 DEF FetchFails, Types, view, link
<1>5. CASE LoadMore(f)
  <2> DEFINE new == [NoFetch EXCEPT !.pc = "asked", !.channel = active,
                                    !.cursor = pagination.nextCursor]
  <2>1. new \in [pc : {"idle", "asked", "served"}, channel : Optional(Channels),
                 cursor : 1 .. Newest, page : SUBSET Messages,
                 next : [nextCursor : 1 .. Newest, hasNext : BOOLEAN]]
    BY NoFetchType DEF Types
  <2>2. fetch' = [fetch EXCEPT ![f] = new]
    BY <1>5 DEF LoadMore, Ask
  <2> HIDE DEF new
  <2> QED
    BY <1>5, <2>1, <2>2 DEF LoadMore, Types, link, history
<1> QED
  BY <1>1, <1>2, <1>3, <1>4, <1>5

LEMMA TypesShow == Types /\ ShowStep => Types'
<1> SUFFICES ASSUME Types, ShowStep PROVE Types'
  OBVIOUS
<1>1. ASSUME NEW c \in Optional(Channels), Show(c)
      PROVE  /\ sent' = sent /\ lost' = lost /\ active' \in Optional(Channels)
             /\ messages' \subseteq Messages /\ newMessages' \subseteq Messages
             /\ pagination' \in [nextCursor : 1 .. Newest, hasNext : BOOLEAN]
             /\ triggered' \in BOOLEAN
             /\ socket' \in {"down", "connecting", "up", "broken"}
             /\ subscriptions' \subseteq Channels
             /\ live' \in {"none", "asked", "on"}
             /\ wire' \subseteq Messages /\ unheard' \subseteq Messages
             /\ spoiled' \subseteq {"failed", "overtaken"}
  <2>1. c \subseteq Channels
    BY DEF Optional
  <2>2. /\ sent' = sent /\ lost' = lost /\ active' = c /\ triggered' \in BOOLEAN
        /\ wire' = {} /\ unheard' = {}
        /\ socket' = socket \/ socket' = "connecting"
    BY <1>1 DEF Show, TriggeredAfterClear
  <2>3. /\ messages' \subseteq messages /\ newMessages' \subseteq newMessages
        /\ pagination' = pagination \/ pagination' = NoPage
    BY <1>1 DEF Show, Cleared
  <2>4. /\ live' \in {"none", "asked"}
        /\ subscriptions' \subseteq subscriptions \cup c
    BY <1>1 DEF Show, Unsubscribed, Subscribe
  <2>5. spoiled' \subseteq {"failed", "overtaken"}
    BY <1>1 DEF Show
  <2> QED
    BY <2>1, <2>2, <2>3, <2>4, <2>5, NoFetchType DEF Types
<1>2. CASE Leave
  <2>1. Show({}) /\ fetch' = fetch /\ {} \in Optional(Channels)
    BY <1>2 DEF Leave, Optional
  <2> QED
    BY <1>1, <2>1 DEF Types
<1>3. ASSUME NEW f \in Fetches, NEW c \in Channels, Open(f, c)
      PROVE  Types'
  <2>1. Show({c}) /\ {c} \in Optional(Channels)
    BY <1>3 DEF Open, Optional
  <2>2. fetch' = [fetch EXCEPT ![f] = [NoFetch EXCEPT !.pc = "asked", !.channel = {c},
                                                     !.cursor = Newest]]
    BY <1>3 DEF Open, Ask
  <2>3. [NoFetch EXCEPT !.pc = "asked", !.channel = {c}, !.cursor = Newest]
          \in [pc : {"idle", "asked", "served"}, channel : Optional(Channels),
               cursor : 1 .. Newest, page : SUBSET Messages,
               next : [nextCursor : 1 .. Newest, hasNext : BOOLEAN]]
    BY NoFetchType, Numbers, <2>1
  <2> QED
    BY <1>1, <2>1, <2>2, <2>3 DEF Types
<1> QED
  BY <1>2, <1>3 DEF ShowStep

LEMMA TypesStep == Types /\ [Next]_vars => Types'
<1>1. Types /\ UNCHANGED vars => Types'
  BY DEF Types, vars, view, link, history
<1> QED
  BY <1>1, StepKinds, TypesSend, TypesLink, TypesFetch, TypesShow

-----------------------------------------------------------------------------
(* The entries of the store.                                               *)

LEMMA EntriesStep == Types /\ EntriesInv /\ [Next]_vars => EntriesInv'
<1> SUFFICES ASSUME Types, EntriesInv, [Next]_vars PROVE EntriesInv'
  OBVIOUS
<1>1. CASE SendStep \/ FetchStep \/ UNCHANGED vars
  <2>1. UNCHANGED <<active, subscriptions, lost, socket, live>>
    BY <1>1 DEF SendStep, FetchStep, Create, Commit, Broadcast, Served, Fetched, FetchFails,
                LoadMore, vars, view, link, history
  <2> QED
    BY <2>1 DEF EntriesInv
<1>2. CASE LinkStep
  <2>1. CASE Connected
    BY <2>1 DEF Connected, Subscribe, view, history, EntriesInv
  <2>2. CASE Subscribed
    BY <2>2 DEF Subscribed, view, history, EntriesInv
  <2>3. CASE Breaks
    BY <2>3 DEF Breaks, view, EntriesInv
  <2>4. CASE Closed
    BY <2>4 DEF Closed, view, EntriesInv
  <2>5. CASE \E m \in Messages : Received(m)
    BY <2>5 DEF Received, history, EntriesInv
  <2> QED
    BY <1>2, <2>1, <2>2, <2>3, <2>4, <2>5 DEF LinkStep
<1>3. CASE ShowStep
  <2>1. PICK c : Show(c)
    BY <1>3 DEF ShowStep, Leave, Open
  <2>2. lost' = lost /\ active' = c
    BY <2>1 DEF Show
  <2>3. CASE IsConnected
    <3>1. /\ subscriptions' = (subscriptions \ active) \cup c
          /\ live' = IF c = {} \/ c \subseteq subscriptions \ active THEN "none" ELSE "asked"
          /\ socket' = socket /\ socket \in {"up", "broken"}
      BY <2>1, <2>3 DEF Show, Unsubscribed, Subscribe, IsConnected
    <3> QED
      BY <2>2, <3>1 DEF EntriesInv
  <2>4. CASE ~IsConnected
    <3>1. /\ subscriptions' = subscriptions /\ socket \in {"down", "connecting"}
          /\ socket' \in {"down", "connecting"}
      BY <2>1, <2>4 DEF Show, IsConnected, Types
    <3> QED
      BY <2>2, <3>1 DEF EntriesInv
  <2> QED
    BY <2>3, <2>4
<1> QED
  BY <1>1, <1>2, <1>3, StepKinds

-----------------------------------------------------------------------------
(* Messages and pushes.                                                    *)

(* What is stored stays stored, in its channel.                            *)
LEMMA SentStays ==
  ASSUME Types, [Next]_vars, NEW m \in Messages
  PROVE  /\ sent[m].pc # "none" => sent'[m].channel = sent[m].channel /\ sent'[m].pc # "none"
         /\ Visible(m) => Visible(m)'
         /\ sent[m].pc = "pushed" => sent'[m].pc = "pushed"
         /\ \A c : Within(m, c) => Within(m, c)'
<1>1. CASE sent' = sent
  BY <1>1 DEF Within, Visible
<1>2. CASE SendStep
  <2>1. PICK n \in Messages : (\E c \in Channels : Create(n, c)) \/ Commit(n) \/ Broadcast(n)
    BY <1>2 DEF SendStep
  <2>2. CASE \E c \in Channels : Create(n, c)
    BY <2>2 DEF Create, Types, Within, Visible
  <2>3. CASE Commit(n)
    BY <2>3 DEF Commit, Types, Within, Visible
  <2>4. CASE Broadcast(n)
    BY <2>4 DEF Broadcast, Types, Within, Visible
  <2> QED
    BY <2>1, <2>2, <2>3, <2>4
<1>3. LinkStep \/ FetchStep \/ ShowStep \/ UNCHANGED vars => sent' = sent
  BY DEF LinkStep, FetchStep, ShowStep, Connected, Subscribed, Breaks, Closed, Received,
         Served, Fetched, FetchFails, LoadMore, Leave, Open, Show, vars
<1> QED
  BY <1>1, <1>2, <1>3, StepKinds

LEMMA PushStep == Types /\ PushInv /\ [Next]_vars => PushInv'
<1> SUFFICES ASSUME Types, PushInv, [Next]_vars PROVE PushInv'
  OBVIOUS
<1>0. ASSUME NEW m \in Messages, sent'[m].pc # "none"
      PROVE  sent'[m].channel # {}
  <2>1. CASE SendStep
    <3>1. PICK n \in Messages : (\E c \in Channels : Create(n, c)) \/ Commit(n) \/ Broadcast(n)
      BY <2>1 DEF SendStep
    <3>2. ASSUME NEW c \in Channels, Create(n, c)
          PROVE  sent'[m].channel # {}
      <4>1. sent'[m] = IF m = n THEN [pc |-> "saving", channel |-> {c}] ELSE sent[m]
        BY <3>2 DEF Create, Types
      <4> QED
        BY <1>0, <4>1 DEF PushInv
    <3>3. CASE Commit(n)
      BY <1>0, <3>3 DEF Commit, Types, PushInv
    <3>4. CASE Broadcast(n)
      BY <1>0, <3>4 DEF Broadcast, Types, PushInv
    <3> QED
      BY <3>1, <3>2, <3>3, <3>4
  <2>2. LinkStep \/ FetchStep \/ ShowStep \/ UNCHANGED vars => sent' = sent
    BY DEF LinkStep, FetchStep, ShowStep, Connected, Subscribed, Breaks, Closed, Received,
           Served, Fetched, FetchFails, LoadMore, Leave, Open, Show, vars
  <2> QED
    BY <1>0, <2>1, <2>2, StepKinds DEF PushInv
<1>1. \A m \in newMessages \cup wire : m \in Messages
  BY DEF Types
<1>2. ASSUME active' = active, NEW m \in newMessages' \cup wire', m \in newMessages \cup wire
      PROVE  Pushed(m)'
  BY <1>1, <1>2, SentStays DEF PushInv, Pushed
<1>3. CASE SendStep
  <2>1. PICK n \in Messages : (\E c \in Channels : Create(n, c)) \/ Commit(n) \/ Broadcast(n)
    BY <1>3 DEF SendStep
  <2>2. active' = active /\ newMessages' = newMessages
    BY <2>1 DEF Create, Commit, Broadcast, view
  <2>3. CASE wire' = wire
    BY <1>0, <1>2, <2>2, <2>3 DEF PushInv
  <2>4. CASE wire' # wire
    <3>1. Broadcast(n) /\ wire' = wire \cup {n} /\ sent[n].channel = active
      BY <2>1, <2>4 DEF Create, Commit, Broadcast, link
    <3>2. Pushed(n)'
      BY <2>2, <3>1 DEF Broadcast, Types, Pushed
    <3> QED
      BY <1>0, <1>2, <2>2, <3>1, <3>2 DEF PushInv
  <2> QED
    BY <2>3, <2>4
<1>4. CASE LinkStep \/ FetchStep \/ UNCHANGED vars
  <2>1. active' = active /\ newMessages' \cup wire' \subseteq newMessages \cup wire
    BY <1>4 DEF LinkStep, FetchStep, Connected, Subscribed, Breaks, Closed, Received,
                Served, Fetched, FetchFails, LoadMore, vars, view, link, history
  <2> QED
    BY <1>0, <1>2, <2>1 DEF PushInv
<1>5. CASE ShowStep
  <2>1. wire' = {} /\ newMessages' = (IF active = {} THEN newMessages ELSE {})
    BY <1>5 DEF ShowStep, Leave, Open, Show, Cleared
  <2>2. active = {} => newMessages = {}
    BY <1>1 DEF PushInv, Pushed
  <2> QED
    BY <1>0, <2>1, <2>2 DEF PushInv
<1> QED
  BY <1>3, <1>4, <1>5, StepKinds

-----------------------------------------------------------------------------
(* Fetches.                                                                *)

LEMMA Fetching ==
  ASSUME Types, [Next]_vars, NEW f \in Fetches
  PROVE  \/ fetch'[f] = fetch[f]
         \/ fetch'[f].pc # "served"
         \/ Served(f)
<1>1. CASE SendStep \/ LinkStep \/ UNCHANGED vars
  BY <1>1 DEF SendStep, LinkStep, Create, Commit, Broadcast, Connected, Subscribed, Breaks,
              Closed, Received, vars
<1>2. CASE ShowStep
  <2>1. CASE Leave
    BY <2>1 DEF Leave
  <2>2. CASE \E g \in Fetches, c \in Channels : Open(g, c)
    BY <2>2 DEF Open, Ask, Types, NoFetch
  <2> QED
    BY <1>2, <2>1, <2>2 DEF ShowStep
<1>3. CASE FetchStep
  <2>1. PICK g \in Fetches : Served(g) \/ Fetched(g) \/ FetchFails(g) \/ LoadMore(g)
    BY <1>3 DEF FetchStep
  <2>2. CASE Served(g)
    BY <2>2 DEF Served, Types
  <2>3. CASE Fetched(g) \/ FetchFails(g)
    BY <2>3 DEF Fetched, FetchFails, Types, NoFetch
  <2>4. CASE LoadMore(g)
    BY <2>4 DEF LoadMore, Ask, Types, NoFetch
  <2> QED
    BY <2>1, <2>2, <2>3, <2>4
<1> QED
  BY <1>1, <1>2, <1>3, StepKinds

(* A fetch that is served now.                                             *)
LEMMA ServedNow ==
  ASSUME Types, NEW f \in Fetches, Served(f)
  PROVE  \E rows \in SUBSET Messages :
           /\ \A m \in Messages :
                m \in rows <=> Within(m, fetch[f].channel) /\ Older(m, fetch[f].cursor)
           /\ fetch[f].pc = "asked" /\ fetch'[f].pc = "served"
           /\ fetch'[f].channel = fetch[f].channel /\ fetch'[f].cursor = fetch[f].cursor
           /\ fetch'[f].page = Page(rows) /\ fetch'[f].next = Slice(rows)
           /\ \A g \in Fetches : g # f => fetch'[g] = fetch[g]
           /\ UNCHANGED <<sent, view, link, history>>
<1>1. PICK rows \in SUBSET Messages :
        /\ rows = Rows(fetch[f].channel, fetch[f].cursor)
        /\ fetch[f].pc = "asked"
        /\ fetch' = [fetch EXCEPT ![f].pc = "served", ![f].page = Page(rows),
                                  ![f].next = Slice(rows)]
        /\ UNCHANGED <<sent, view, link, history>>
  BY ServedLemma
<1>2. \A m \in Messages : m \in rows <=> Within(m, fetch[f].channel) /\ Older(m, fetch[f].cursor)
  BY <1>1, RowsLemma
<1>3. /\ fetch'[f].pc = "served"
      /\ fetch'[f].channel = fetch[f].channel /\ fetch'[f].cursor = fetch[f].cursor
      /\ fetch'[f].page = Page(rows) /\ fetch'[f].next = Slice(rows)
      /\ \A g \in Fetches : g # f => fetch'[g] = fetch[g]
  BY <1>1 DEF Types
<1> QED
  BY <1>1, <1>2, <1>3

LEMMA ServedStep == Types /\ ServedInv /\ [Next]_vars => ServedInv'
<1> SUFFICES ASSUME Types, ServedInv, [Next]_vars,
                    NEW f \in Fetches, fetch'[f].pc = "served"
             PROVE  Carries(f)'
  BY DEF ServedInv
<1>1. \A m \in Messages : \A c : Within(m, c) => Within(m, c)'
  BY SentStays
<1>2. CASE fetch'[f] = fetch[f]
  <2>1. Carries(f)
    BY <1>2 DEF ServedInv
  <2>2. fetch[f].page \subseteq Messages
    BY DEF Types
  <2> QED
    BY <1>1, <1>2, <2>1, <2>2 DEF Carries, Continues, Within, Visible
<1>3. CASE Served(f)
  <2>1. PICK rows \in SUBSET Messages :
           /\ \A m \in Messages :
                m \in rows <=> Within(m, fetch[f].channel) /\ Older(m, fetch[f].cursor)
           /\ fetch'[f].channel = fetch[f].channel /\ fetch'[f].cursor = fetch[f].cursor
           /\ fetch'[f].page = Page(rows) /\ fetch'[f].next = Slice(rows)
           /\ sent' = sent
    BY <1>3, ServedNow
  <2>2. \A m \in rows : Within(m, fetch[f].channel)' /\ Older(m, fetch[f].cursor)
    BY <2>1 DEF Within, Visible
  <2>3. /\ Page(rows) \in SUBSET rows
        /\ Slice(rows).hasNext =>
              /\ Slice(rows).nextCursor \in rows
              /\ \A m \in Page(rows) : Slice(rows).nextCursor <= m
              /\ \E m \in rows : m < Slice(rows).nextCursor
    BY SliceLemma
  <2> QED
    BY <2>1, <2>2, <2>3 DEF Carries, Continues, Within, Visible
<1> QED
  BY <1>2, <1>3, Fetching

-----------------------------------------------------------------------------
(* The view, while no fetch was overtaken.                                 *)

LEMMA WasClean == Types /\ [Next]_vars /\ ~ShowStep => (Clean' => Clean) /\ spoiled \subseteq spoiled'
  BY StepKinds DEF SendStep, LinkStep, FetchStep, Create, Commit, Broadcast, Connected,
     Subscribed, Breaks, Closed, Received, Served, Fetched, FetchFails, LoadMore, vars,
     history, Clean

(* The only fetch of a view comes back.                                    *)
LEMMA FetchedLemma ==
  ASSUME Types, ServedInv, ViewFits, NEW f \in Fetches, Fetched(f)
  PROVE  /\ f \in InFlight /\ Carries(f) /\ FetchFits(f)
         /\ active # {} /\ active' = active /\ sent' = sent /\ fetch[f].channel = active
         /\ InFlight' = {} /\ ~triggered'
         /\ messages' = messages \cup fetch[f].page /\ pagination' = fetch[f].next
<1>1. /\ fetch[f].pc = "served" /\ fetch' = [fetch EXCEPT ![f] = NoFetch]
      /\ active' = active /\ sent' = sent
      /\ messages' = messages \cup fetch[f].page /\ pagination' = fetch[f].next
      /\ triggered' = (triggered /\ messages' = messages)
  BY DEF Fetched
<1>2. f \in InFlight /\ Carries(f)
  BY <1>1 DEF InFlight, ServedInv
<1>3. FetchFits(f) /\ active # {} /\ fetch[f].channel = active
  BY <1>2 DEF ViewFits
<1>4. InFlight' = {}
  <2>1. \A g \in Fetches : g # f => fetch[g].pc = "idle"
    BY <1>2 DEF ViewFits, InFlight
  <2> QED
    BY <1>1, <2>1 DEF InFlight, NoFetch, Types
<1>5. ~triggered'
  <2>1. CASE fetch[f].cursor = Newest
    BY <1>1, <1>3, <2>1 DEF FetchFits
  <2>2. CASE fetch[f].cursor # Newest
    <3>1. /\ pagination.hasNext /\ fetch[f].cursor = pagination.nextCursor
          /\ fetch[f].page # {}
      BY <1>1, <1>3, <2>2 DEF FetchFits
    <3>2. PICK p \in fetch[f].page : TRUE
      BY <3>1
    <3>3. p < pagination.nextCursor /\ p \in Messages /\ pagination.nextCursor \in Messages
      BY <1>2, <2>2, <3>1, <3>2 DEF Carries, Older, Types, ViewFits, Continues
    <3>4. p \notin messages
      <4>1. p \in Nat /\ pagination.nextCursor \in Nat
        BY <3>3, Numbers
      <4>2. p \in messages => pagination.nextCursor <= p
        BY <3>1 DEF ViewFits
      <4> QED
        BY <3>3, <4>1, <4>2
    <3> QED
      BY <1>1, <3>2, <3>4
  <2> QED
    BY <2>1, <2>2
<1> QED
  BY <1>1, <1>2, <1>3, <1>4, <1>5

(* The scroller asks for a page: no other fetch is under way.              *)
LEMMA LoadMoreLemma ==
  ASSUME Types, ViewFits, NEW f \in Fetches, LoadMore(f)
  PROVE  /\ InFlight' = {f} /\ InFlight = {} /\ fetch'[f].pc = "asked"
         /\ fetch'[f].channel = active /\ fetch'[f].cursor = pagination.nextCursor
         /\ active # {} /\ pagination.hasNext /\ triggered' = TRUE
         /\ UNCHANGED <<sent, active, messages, pagination, link, history>>
         /\ newMessages' = newMessages
<1>1. /\ active # {} /\ pagination.hasNext /\ ~triggered /\ triggered' = TRUE
      /\ fetch' = [fetch EXCEPT ![f] = [NoFetch EXCEPT !.pc = "asked", !.channel = active,
                                                      !.cursor = pagination.nextCursor]]
      /\ UNCHANGED <<sent, active, messages, newMessages, pagination, link, history>>
  BY DEF LoadMore, Ask
<1>2. InFlight = {}
  <2>1. ASSUME NEW g \in InFlight PROVE FALSE
    <3>1. FetchFits(g)
      BY DEF ViewFits
    <3> QED
      BY <1>1, <3>1, NoFetchType DEF FetchFits
  <2> QED
    BY <2>1
<1>3. /\ fetch'[f].pc = "asked" /\ fetch'[f].channel = active
      /\ fetch'[f].cursor = pagination.nextCursor
      /\ \A g \in Fetches : g # f => fetch'[g] = fetch[g]
  BY <1>1 DEF Types, NoFetch
<1>4. InFlight' = {f}
  BY <1>2, <1>3 DEF InFlight
<1> QED
  BY <1>1, <1>2, <1>3, <1>4

(* A channel is opened, or left, and nothing is left of the one before.    *)
LEMMA ShowLemma ==
  ASSUME Types, ViewInv, Clean', NEW c, Show(c)
  PROVE  /\ InFlight = {} /\ active' = c /\ messages' = {} /\ pagination' = NoPage
         /\ ~triggered'
<1>1. /\ active' = c /\ messages' = Cleared(messages) /\ triggered' = FALSE
      /\ pagination' = IF active = {} THEN pagination ELSE NoPage
      /\ spoiled' = {x \in {"overtaken"} : \/ \E f \in Fetches : fetch[f].pc # "idle"
                                           \/ active = {} /\ x \in spoiled}
  BY DEF Show, TriggeredAfterClear
<1>2. ~(\E f \in Fetches : fetch[f].pc # "idle") /\ (active = {} => Clean)
  BY <1>1 DEF Clean
<1>3. InFlight = {}
  BY <1>2 DEF InFlight
<1>4. active = {} => messages = {} /\ pagination = NoPage
  BY <1>2 DEF ViewInv, ViewFits
<1> QED
  BY <1>1, <1>3, <1>4 DEF Cleared

LEMMA OpenLemma ==
  ASSUME Types, ViewInv, Clean', NEW f \in Fetches, NEW c \in Channels, Open(f, c)
  PROVE  /\ InFlight' = {f} /\ fetch'[f].pc = "asked" /\ fetch'[f].cursor = Newest
         /\ fetch'[f].channel = {c} /\ active' = {c}
         /\ messages' = {} /\ pagination' = NoPage /\ ~triggered'
<1>1. /\ Show({c})
      /\ fetch' = [fetch EXCEPT ![f] = [NoFetch EXCEPT !.pc = "asked", !.channel = {c},
                                                       !.cursor = Newest]]
  BY DEF Open, Ask
<1>2. /\ InFlight = {} /\ active' = {c} /\ messages' = {} /\ pagination' = NoPage
      /\ ~triggered'
  BY <1>1, ShowLemma
<1>3. /\ fetch'[f].pc = "asked" /\ fetch'[f].channel = {c} /\ fetch'[f].cursor = Newest
      /\ \A g \in Fetches : g # f => fetch'[g] = fetch[g]
  BY <1>1 DEF Types, NoFetch
<1>4. InFlight' = {f}
  BY <1>2, <1>3 DEF InFlight
<1> QED
  BY <1>2, <1>3, <1>4

LEMMA ViewQuiet ==
  ASSUME Types, ViewFits, [Next]_vars, UNCHANGED <<active, messages, pagination, triggered, fetch>>
  PROVE  ViewFits'
<1>1. \A m \in Messages : \A c : Within(m, c) => Within(m, c)'
  BY SentStays
<1>2. InFlight' = InFlight
  BY DEF InFlight
<1>3. \A m \in messages' : Within(m, active)'
  BY <1>1 DEF ViewFits, Types, Within, Visible
<1>4. Continues(pagination, active)'
  BY <1>1 DEF ViewFits, Continues, Within, Visible
<1>5. \A f \in InFlight' : (fetch[f].channel = active /\ FetchFits(f))'
  BY <1>2 DEF ViewFits, FetchFits
<1> QED
  BY <1>2, <1>3, <1>4, <1>5 DEF ViewFits

LEMMA ViewServed ==
  ASSUME Types, ViewFits, NEW f \in Fetches, Served(f)
  PROVE  ViewFits' /\ InFlight' = InFlight /\ f \in InFlight
<1>1. PICK rows \in SUBSET Messages :
        /\ \A m \in Messages :
             m \in rows <=> Within(m, fetch[f].channel) /\ Older(m, fetch[f].cursor)
        /\ fetch[f].pc = "asked" /\ fetch'[f].pc = "served"
        /\ fetch'[f].channel = fetch[f].channel /\ fetch'[f].cursor = fetch[f].cursor
        /\ fetch'[f].page = Page(rows)
        /\ \A g \in Fetches : g # f => fetch'[g] = fetch[g]
        /\ UNCHANGED <<sent, view, link, history>>
  BY ServedNow
<1>2. f \in InFlight /\ InFlight' = InFlight
  BY <1>1 DEF InFlight
<1>3. /\ fetch[f].channel = active /\ FetchFits(f) /\ Continues(pagination, active)
      /\ UNCHANGED <<active, messages, pagination, triggered>>
  BY <1>1, <1>2 DEF ViewFits, view
<1>4. fetch[f].cursor # Newest => Page(rows) # {}
  <2>1. SUFFICES ASSUME fetch[f].cursor # Newest PROVE rows # {}
    BY PageIsFilled
  <2>2. PICK m \in Messages : Within(m, active) /\ m < pagination.nextCursor
    BY <1>3, <2>1 DEF FetchFits, Continues
  <2>3. Older(m, fetch[f].cursor)
    BY <1>3, <2>1, <2>2 DEF FetchFits, Older
  <2> QED
    BY <1>1, <1>3, <2>2, <2>3
<1>5. ASSUME NEW g \in InFlight' PROVE (fetch[g].channel = active /\ FetchFits(g))'
  <2>1. g = f
    BY <1>2 DEF ViewFits
  <2> QED
    BY <1>1, <1>3, <1>4, <2>1 DEF FetchFits
<1> QED
  BY <1>1, <1>2, <1>3, <1>5 DEF ViewFits, Continues, Within, Visible

LEMMA ViewFetched ==
  ASSUME Types, ServedInv, ViewFits, NEW f \in Fetches, Fetched(f)
  PROVE  ViewFits'
<1>1. /\ f \in InFlight /\ Carries(f) /\ FetchFits(f)
      /\ active # {} /\ active' = active /\ sent' = sent /\ fetch[f].channel = active
      /\ InFlight' = {} /\ ~triggered'
      /\ messages' = messages \cup fetch[f].page /\ pagination' = fetch[f].next
  BY FetchedLemma
<1>2. \A m \in messages' : Within(m, active)'
  BY <1>1 DEF Carries, ViewFits, Within, Visible
<1>3. Continues(pagination, active)'
  BY <1>1 DEF Carries, Continues, Within, Visible
<1>4. ASSUME pagination'.hasNext, NEW m \in messages' PROVE pagination'.nextCursor <= m
  <2>1. CASE m \in fetch[f].page
    BY <1>1, <1>4, <2>1 DEF Carries
  <2>2. CASE m \in messages
    <3>1. /\ fetch[f].cursor # Newest /\ pagination.hasNext
          /\ fetch[f].cursor = pagination.nextCursor
      BY <1>1, <2>2 DEF FetchFits
    <3>2. pagination.nextCursor <= m /\ fetch[f].next.nextCursor < pagination.nextCursor
      BY <1>1, <1>4, <2>2, <3>1 DEF ViewFits, Carries, Older
    <3>3. m \in Nat /\ pagination.nextCursor \in Nat /\ fetch[f].next.nextCursor \in Nat
      BY <1>1, <1>4, <2>2, <3>1, Numbers DEF Types, ViewFits, Carries, Continues
    <3> QED
      BY <1>1, <3>2, <3>3
  <2> QED
    BY <1>1, <2>1, <2>2
<1> QED
  BY <1>1, <1>2, <1>3, <1>4 DEF ViewFits

LEMMA ViewStep == Types /\ ServedInv /\ ViewInv /\ [Next]_vars => ViewInv'
<1> SUFFICES ASSUME Types, ServedInv, ViewInv, [Next]_vars, Clean' PROVE ViewFits'
  BY DEF ViewInv
<1>1. CASE ShowStep
  <2>1. CASE Leave
    <3>1. Show({}) /\ fetch' = fetch
      BY <2>1 DEF Leave
    <3>2. InFlight' = InFlight
      BY <3>1 DEF InFlight
    <3> QED
      BY <3>1, <3>2, ShowLemma, NoFetchType DEF ViewFits, Continues
  <2>2. ASSUME NEW f \in Fetches, NEW c \in Channels, Open(f, c) PROVE ViewFits'
    <3>1. /\ InFlight' = {f} /\ fetch'[f].pc = "asked" /\ fetch'[f].cursor = Newest
          /\ fetch'[f].channel = {c} /\ active' = {c}
          /\ messages' = {} /\ pagination' = NoPage /\ ~triggered'
      BY <2>2, OpenLemma
    <3> QED
      BY <3>1, NoFetchType DEF ViewFits, Continues, FetchFits
  <2> QED
    BY <1>1, <2>1, <2>2 DEF ShowStep
<1>2. CASE ~ShowStep
  <2>0. ViewFits
    BY <1>2, WasClean DEF ViewInv
  <2>1. CASE SendStep \/ LinkStep \/ UNCHANGED vars
    <3>1. UNCHANGED <<active, messages, pagination, triggered, fetch>>
      BY <2>1 DEF SendStep, LinkStep, Create, Commit, Broadcast, Connected, Subscribed, Breaks,
                  Closed, Received, vars, view
    <3> QED
      BY <2>0, <3>1, ViewQuiet
  <2>2. ASSUME NEW f \in Fetches, Served(f) PROVE ViewFits'
    BY <2>0, <2>2, ViewServed
  <2>3. ASSUME NEW f \in Fetches, Fetched(f) PROVE ViewFits'
    BY <2>0, <2>3, ViewFetched
  <2>4. ASSUME NEW f \in Fetches, FetchFails(f) PROVE ViewFits'
    <3>1. /\ fetch[f].pc # "idle" /\ fetch' = [fetch EXCEPT ![f] = NoFetch]
          /\ UNCHANGED <<sent, active, messages, pagination, triggered>>
      BY <2>4 DEF FetchFails, view
    <3>2. InFlight' = {}
      <4>1. \A g \in Fetches : g # f => fetch[g].pc = "idle"
        BY <2>0, <3>1 DEF ViewFits, InFlight
      <4> QED
        BY <3>1, <4>1 DEF InFlight, NoFetch, Types
    <3> QED
      BY <2>0, <3>1, <3>2 DEF ViewFits, Continues, Within, Visible
  <2>5. ASSUME NEW f \in Fetches, LoadMore(f) PROVE ViewFits'
    <3>1. /\ InFlight' = {f} /\ fetch'[f].pc = "asked"
          /\ fetch'[f].channel = active /\ fetch'[f].cursor = pagination.nextCursor
          /\ active # {} /\ pagination.hasNext /\ triggered' = TRUE
          /\ UNCHANGED <<sent, active, messages, pagination>>
      BY <2>0, <2>5, LoadMoreLemma
    <3>2. pagination.nextCursor # Newest
      BY <2>0, <3>1, Numbers DEF ViewFits, Continues
    <3> QED
      BY <2>0, <3>1, <3>2 DEF ViewFits, Continues, FetchFits, Within, Visible
  <2> QED
    BY <1>2, <2>1, <2>2, <2>3, <2>4, <2>5, StepKinds DEF FetchStep
<1> QED
  BY <1>1, <1>2

-----------------------------------------------------------------------------
(* Nothing falls between fetches and pushes.                               *)

LEMMA HeardStays ==
  ASSUME Types, PushInv, [Next]_vars, ~ShowStep
  PROVE  /\ active' = active /\ Heard \subseteq Heard'
         /\ \A m \in Messages : Pushed(m)' => Pushed(m) \/ m \in Heard'
<1>1. CASE SendStep
  <2>1. PICK n \in Messages : (\E c \in Channels : Create(n, c)) \/ Commit(n) \/ Broadcast(n)
    BY <1>1 DEF SendStep
  <2>2. ASSUME NEW c \in Channels, Create(n, c)
        PROVE  /\ active' = active /\ Heard' = Heard
               /\ \A m \in Messages : Pushed(m)' => Pushed(m)
    BY <2>2 DEF Create, view, link, history, Heard, Pushed, Types
  <2>3. CASE Commit(n)
    BY <2>3 DEF Commit, view, link, history, Heard, Pushed, Types
  <2>4. CASE Broadcast(n)
    <3>1. /\ active' = active /\ newMessages' = newMessages
          /\ wire \subseteq wire' /\ unheard \subseteq unheard'
          /\ sent[n].channel = active => n \in wire' \cup unheard'
      BY <2>4 DEF Broadcast, view
    <3>2. \A m \in Messages : m # n => sent'[m] = sent[m]
      BY <2>4 DEF Broadcast, Types
    <3>3. sent'[n].channel = sent[n].channel
      BY <2>4 DEF Broadcast, Types
    <3> QED
      BY <3>1, <3>2, <3>3 DEF Heard, Pushed
  <2> QED
    BY <2>1, <2>2, <2>3, <2>4
<1>2. CASE LinkStep \/ FetchStep \/ UNCHANGED vars
  <2>1. sent' = sent /\ active' = active
    BY <1>2 DEF LinkStep, FetchStep, Connected, Subscribed, Breaks, Closed, Received, Served,
                Fetched, FetchFails, LoadMore, vars, view
  <2>2. Heard \subseteq Heard'
    BY <1>2 DEF LinkStep, FetchStep, Connected, Subscribed, Breaks, Closed, Received, Served,
                Fetched, FetchFails, LoadMore, vars, view, link, history, Heard
  <2> QED
    BY <2>1, <2>2 DEF Pushed
<1> QED
  BY <1>1, <1>2, StepKinds

(* Once a view is covered it stays so, while its fetches are the same.     *)
LEMMA CoverQuiet ==
  ASSUME Types, PushInv, CoverInv, active # {}, spoiled = {}, [Next]_vars, ~ShowStep,
         UNCHANGED <<messages, pagination, triggered, fetch>>
  PROVE  CoverInv'
<1>1. /\ active' = active /\ Heard \subseteq Heard' /\ InFlight' = InFlight
      /\ \A m \in Messages : Pushed(m)' => Pushed(m) \/ m \in Heard'
  BY HeardStays DEF InFlight
<1>2. triggered' => InFlight' # {}
  BY <1>1 DEF CoverInv
<1>3. ASSUME NEW m \in Messages, Pushed(m)'
      PROVE  Covers(messages, pagination, m)' \/ \E f \in InFlight' : fetch'[f].cursor = Newest
  BY <1>1, <1>3 DEF CoverInv, Covers
<1>4. ASSUME NEW f \in InFlight', fetch'[f].pc = "served",
             NEW m \in Messages, Pushed(m)', Older(m, fetch'[f].cursor)
      PROVE  Covers(fetch[f].page, fetch[f].next, m)'
  BY <1>1, <1>4 DEF CoverInv, Covers
<1> QED
  BY <1>2, <1>3, <1>4 DEF CoverInv

(* A page holds all that is visible by now, or leaves it to the next one.  *)
LEMMA CoverServed ==
  ASSUME Types, PushInv, ViewFits, CoverInv, active # {}, spoiled = {},
         NEW f \in Fetches, Served(f)
  PROVE  CoverInv'
<1>1. PICK rows \in SUBSET Messages :
        /\ \A m \in Messages :
             m \in rows <=> Within(m, fetch[f].channel) /\ Older(m, fetch[f].cursor)
        /\ fetch'[f].pc = "served" /\ fetch'[f].cursor = fetch[f].cursor
        /\ fetch'[f].page = Page(rows) /\ fetch'[f].next = Slice(rows)
        /\ \A g \in Fetches : g # f => fetch'[g] = fetch[g]
        /\ UNCHANGED <<sent, view, link, history>>
  BY ServedNow
<1>2. f \in InFlight /\ InFlight' = InFlight /\ fetch[f].channel = active
  BY ViewServed DEF ViewFits
<1>3. /\ UNCHANGED <<active, messages, pagination, triggered>> /\ Heard' = Heard
      /\ \A m : Pushed(m)' <=> Pushed(m)
  BY <1>1 DEF view, link, history, Heard, Pushed
<1>4. triggered' => InFlight' # {}
  BY <1>2
<1>5. ASSUME NEW m \in Messages, Pushed(m)'
      PROVE  Covers(messages, pagination, m)' \/ \E g \in InFlight' : fetch'[g].cursor = Newest
  <2>1. \A g \in InFlight : fetch'[g].cursor = fetch[g].cursor
    BY <1>1 DEF InFlight
  <2> QED
    BY <1>2, <1>3, <1>5, <2>1 DEF CoverInv, Covers
<1>6. ASSUME NEW g \in InFlight', NEW m \in Messages, Pushed(m)', Older(m, fetch'[g].cursor)
      PROVE  Covers(fetch[g].page, fetch[g].next, m)'
  <2>1. g = f
    BY <1>2 DEF ViewFits
  <2>2. m \in rows
    BY <1>1, <1>2, <1>3, <1>6, <2>1 DEF Pushed, Within, Visible
  <2>3. m \in Page(rows) \/ (Slice(rows).hasNext /\ m < Slice(rows).nextCursor)
    BY <2>2, SliceLemma
  <2> QED
    BY <1>1, <2>1, <2>3 DEF Covers
<1> QED
  BY <1>4, <1>5, <1>6 DEF CoverInv

LEMMA CoverFetched ==
  ASSUME Types, ServedInv, ViewFits, CoverInv, active # {}, spoiled = {},
         NEW f \in Fetches, Fetched(f)
  PROVE  CoverInv'
<1>1. /\ f \in InFlight /\ FetchFits(f)
      /\ active' = active /\ sent' = sent
      /\ InFlight' = {} /\ ~triggered'
      /\ messages' = messages \cup fetch[f].page /\ pagination' = fetch[f].next
  BY FetchedLemma
<1>2. fetch[f].pc = "served" /\ Heard' = Heard
  BY DEF Fetched, link, history, Heard
<1>3. ASSUME NEW m \in Messages, Pushed(m)'
      PROVE  Covers(messages, pagination, m)'
  <2>1. Pushed(m)
    BY <1>1, <1>3 DEF Pushed
  <2>2. \/ Covers(messages, pagination, m)
        \/ \E g \in InFlight : fetch[g].cursor = Newest
    BY <2>1 DEF CoverInv
  <2>3. Older(m, fetch[f].cursor) => Covers(fetch[f].page, fetch[f].next, m)
    BY <1>1, <1>2, <2>1 DEF CoverInv
  <2>4. CASE fetch[f].cursor = Newest
    BY <1>1, <1>2, <2>3, <2>4 DEF Older, Covers
  <2>5. CASE fetch[f].cursor # Newest
    <3>1. fetch[f].cursor = pagination.nextCursor
      BY <1>1, <2>5 DEF FetchFits
    <3>2. Covers(messages, pagination, m)
      BY <1>1, <2>2, <2>5 DEF ViewFits
    <3> QED
      BY <1>1, <1>2, <2>3, <3>1, <3>2 DEF Older, Covers
  <2> QED
    BY <2>4, <2>5
<1> QED
  BY <1>1, <1>3 DEF CoverInv

LEMMA CoverLoadMore ==
  ASSUME Types, ViewFits, CoverInv, active # {}, spoiled = {}, NEW f \in Fetches, LoadMore(f)
  PROVE  CoverInv'
<1>1. /\ InFlight' = {f} /\ InFlight = {} /\ fetch'[f].pc = "asked"
      /\ UNCHANGED <<sent, active, messages, pagination, link, history>>
      /\ newMessages' = newMessages
  BY LoadMoreLemma
<1>2. Heard' = Heard /\ \A m : Pushed(m)' <=> Pushed(m)
  BY <1>1 DEF Heard, Pushed, link, history
<1>3. \A m \in Messages : Pushed(m)' => Covers(messages, pagination, m)'
  BY <1>1, <1>2 DEF CoverInv, Covers
<1> QED
  BY <1>1, <1>3 DEF CoverInv

LEMMA CoverOpen ==
  ASSUME Types, ViewInv, NEW f \in Fetches, NEW c \in Channels, Open(f, c)
  PROVE  CoverInv'
<1> SUFFICES ASSUME spoiled' = {} PROVE CoverInv'
  BY DEF CoverInv
<1>1. /\ InFlight' = {f} /\ fetch'[f].pc = "asked" /\ fetch'[f].cursor = Newest /\ ~triggered'
  BY OpenLemma DEF Clean
<1> QED
  BY <1>1 DEF CoverInv

LEMMA CoverStep ==
  Types /\ PushInv /\ ServedInv /\ ViewInv /\ CoverInv /\ [Next]_vars => CoverInv'
<1> SUFFICES ASSUME Types, PushInv, ServedInv, ViewInv, CoverInv, [Next]_vars,
                    active' # {}, spoiled' = {}
             PROVE  CoverInv'
  BY DEF CoverInv
<1>1. CASE ShowStep
  <2>1. ~Leave
    BY DEF Leave, Show
  <2> QED
    BY <1>1, <2>1, CoverOpen DEF ShowStep
<1>2. CASE ~ShowStep
  <2>0. active # {} /\ spoiled = {} /\ ViewFits
    BY <1>2, WasClean, HeardStays DEF ViewInv, Clean
  <2>1. CASE SendStep \/ LinkStep \/ UNCHANGED vars
    <3>1. UNCHANGED <<messages, pagination, triggered, fetch>>
      BY <2>1 DEF SendStep, LinkStep, Create, Commit, Broadcast, Connected, Subscribed, Breaks,
                  Closed, Received, vars, view
    <3> QED
      BY <1>2, <2>0, <3>1, CoverQuiet
  <2>2. \A f \in Fetches : ~FetchFails(f)
    BY DEF FetchFails
  <2> QED
    BY <1>2, <2>0, <2>1, <2>2, StepKinds, CoverServed, CoverFetched, CoverLoadMore DEF FetchStep
<1> QED
  BY <1>1, <1>2

-----------------------------------------------------------------------------
(* Theorems.                                                               *)

LEMMA ClientInit == Init => ClientInv
<1> SUFFICES ASSUME Init PROVE ClientInv
  OBVIOUS
<1>1. Types
  BY TypesInit
<1>2. EntriesInv
  BY DEF Init, EntriesInv
<1>3. PushInv
  BY DEF Init, PushInv
<1>4. \A f \in Fetches : fetch[f].pc = "idle"
  BY DEF Init, NoFetch
<1>5. ServedInv /\ InFlight = {}
  BY <1>4 DEF ServedInv, InFlight
<1>6. ViewInv
  BY <1>5, NoFetchType DEF Init, ViewInv, ViewFits, Continues
<1>7. CoverInv
  BY DEF Init, CoverInv
<1> QED
  BY <1>1, <1>2, <1>3, <1>5, <1>6, <1>7 DEF ClientInv

(* ClientInv holds in every reachable state.                               *)
THEOREM ClientInductive == Spec => []ClientInv
<1>1. ClientInv /\ [Next]_vars => ClientInv'
  BY TypesStep, EntriesStep, PushStep, ServedStep, ViewStep, CoverStep DEF ClientInv
<1> QED
  BY <1>1, ClientInit, PTL DEF Spec

(* Every variable of the store keeps its type, and the scroller waits only *)
(* for a page that is there: a page the scroller asked for always brings a *)
(* message that was not shown.                                             *)
THEOREM TypeCorrect == Spec => []TypeOK
<1>1. ClientInv => TypeOK
  <2>1. Types /\ ViewInv => (triggered => pagination.hasNext \/ "overtaken" \in spoiled)
    BY DEF ViewInv, ViewFits, Clean
  <2> QED
    BY <2>1 DEF ClientInv, Types, TypeOK
<1> QED
  BY <1>1, ClientInductive, PTL

(* No message falls between the fetches and the pushes of a view, for any  *)
(* page size and whatever order creation, commit, push and fetch come in.  *)
THEOREM NothingFallsThrough == Spec => []ViewIsComplete
<1>1. ClientInv => ViewIsComplete
  <2> SUFFICES ASSUME ClientInv, active # {}, spoiled = {},
                      \A f \in InFlight : fetch[f].cursor # Newest,
                      NEW m \in Messages, Pushed(m)
               PROVE  m \in messages \cup newMessages \cup wire \cup unheard \/ ToBeLoaded(m)
    BY DEF ViewIsComplete, Pushed
  <2>1. Covers(messages, pagination, m) /\ (triggered => InFlight # {})
    BY DEF ClientInv, CoverInv
  <2> QED
    BY <2>1 DEF Covers, Heard, ToBeLoaded, Older
<1> QED
  BY <1>1, ClientInductive, PTL

(* A message of another channel is shown only after a fetch that was under *)
(* way when the channel changed; a push never brings one.                  *)
THEOREM ForeignOnlyByFetch == Spec => []ForeignHasCause
<1>1. ClientInv => ForeignHasCause
  BY DEF ClientInv, PushInv, Pushed, ViewInv, ViewFits, Clean, Within, ForeignHasCause
<1> QED
  BY <1>1, ClientInductive, PTL

(* A page that is connected hears its channel, unless a connection was     *)
(* lost while that channel was open.                                       *)
THEOREM DeafOnlyAfterLoss == Spec => []DeafHasCause
<1>1. ClientInv => DeafHasCause
  BY DEF ClientInv, EntriesInv, DeafHasCause
<1> QED
  BY <1>1, ClientInductive, PTL
=============================================================================
