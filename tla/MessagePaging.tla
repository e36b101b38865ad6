---------------------------- MODULE MessagePaging ----------------------------
(***************************************************************************)
(* The messages of a channel, written and deleted by several requests, and *)
(* a client that reads them newest first, page by page: the cursor of a    *)
(* page is the creation time of the last message of the page before it.    *)
(*                                                                         *)
(* A message that is being saved has its creation time and is not visible  *)
(* yet; a deleted one keeps its time in the record, for the properties.    *)
(* Its content does not matter here and is left out.                       *)
(***************************************************************************)
EXTENDS FiniteSets, Naturals

CONSTANTS
  Authors,      \* accounts that may write to the channel
  Messages,     \* messages ever sent to the channel
  PageSize,     \* size of the Pageable
  MaxTime       \* bound: last instant of the clock

ASSUME PagingConstants ==
  IsFiniteSet(Messages) /\ PageSize \in Nat \ {0} /\ MaxTime \in Nat

VARIABLES
  now,          \* the clock
  authors,      \* accounts in the users table
  channel,      \* whether the row of the channel exists
  msg,          \* message -> its state, creation time and author
  reader        \* the client that pages through the channel

pagingVars == <<now, authors, channel, msg, reader>>

States == {"unsent", "saving", "stored", "failed", "deleted"}

(* cursor: the one the next request carries; page: the last page received; *)
(* seen: the pages before it; start: what was stored when it began.        *)
ReaderStages == {"idle", "query", "shown", "end"}
NoPage == [pc |-> "idle", cursor |-> {}, page |-> {}, seen |-> {}, start |-> {}]

PagingInit ==
  /\ now = 0 /\ authors = Authors /\ channel = TRUE
  /\ msg = [m \in Messages |-> [state |-> "unsent", time |-> 0, author |-> {}]]
  /\ reader = NoPage

Stored == {m \in Messages : msg[m].state = "stored"}

-----------------------------------------------------------------------------
(* create, in one transaction.                                             *)

(* The author and the channel are there; createdAt is taken from the clock *)
(* when the entity is saved, not when the transaction commits.             *)
Create(m, a) ==
  /\ msg[m].state = "unsent" /\ a \in authors /\ channel
  /\ msg' = [msg EXCEPT ![m] = [state |-> "saving", time |-> now, author |-> {a}]]
  /\ UNCHANGED <<now, authors, channel, reader>>

(* The foreign keys of messages.                                           *)
KeysUnchecked(m) == TRUE   \* mutant: they are not checked
KeysHold(m) == channel /\ msg[m].author \subseteq authors

CreateCommits(m) ==
  /\ msg[m].state = "saving"
  /\ msg' = [msg EXCEPT ![m].state = IF KeysHold(m) THEN "stored" ELSE "failed"]
  /\ UNCHANGED <<now, authors, channel, reader>>

(* Whatever else rolls it back: an attachment, the publication, a crash.   *)
CreateFails(m) ==
  /\ msg[m].state = "saving"
  /\ msg' = [msg EXCEPT ![m].state = "failed"]
  /\ UNCHANGED <<now, authors, channel, reader>>

-----------------------------------------------------------------------------
(* Deletions.                                                              *)

Delete(m) ==
  /\ msg[m].state = "stored"
  /\ msg' = [msg EXCEPT ![m].state = "deleted"]
  /\ UNCHANGED <<now, authors, channel, reader>>

(* BasicChannelService.delete: ON DELETE CASCADE.                          *)
ChannelDeleted ==
  /\ channel
  /\ channel' = FALSE
  /\ msg' = [m \in Messages |-> IF m \in Stored
                                  THEN [msg[m] EXCEPT !.state = "deleted"] ELSE msg[m]]
  /\ UNCHANGED <<now, authors, reader>>

(* BasicUserService.delete: ON DELETE SET NULL.                            *)
AuthorDeleted(u) ==
  /\ u \in authors
  /\ authors' = authors \ {u}
  /\ msg' = [m \in Messages |-> IF m \in Stored
                                  THEN [msg[m] EXCEPT !.author = @ \ {u}] ELSE msg[m]]
  /\ UNCHANGED <<now, channel, reader>>

-----------------------------------------------------------------------------
(* findAllByChannelId.                                                     *)

(* The channel is looked up first; without it the request fails.           *)
Ask ==
  /\ reader.pc \in {"idle", "shown"}
  /\ reader' = [reader EXCEPT !.pc = IF channel THEN "query" ELSE "end"]
  /\ UNCHANGED <<now, authors, channel, msg>>

BeforeOrAt(m, cursor) ==   \* mutant: createdAt <= :cursor
  \A t \in cursor : msg[m].time <= t
Before(m, cursor) == \A t \in cursor : msg[m].time < t

(* ORDER BY createdAt DESC LIMIT PageSize: the order of messages with the  *)
(* same time is up to the database.                                        *)
PagesOneMore(rows) ==   \* mutant: the row that tells whether there are more is kept
  {p \in SUBSET rows :
     /\ Cardinality(p) = IF Cardinality(rows) <= PageSize THEN Cardinality(rows) ELSE PageSize + 1
     /\ \A m \in p, n \in rows \ p : msg[m].time >= msg[n].time}
Pages(rows) ==
  {p \in SUBSET rows :
     /\ Cardinality(p) = IF Cardinality(rows) < PageSize THEN Cardinality(rows) ELSE PageSize
     /\ \A m \in p, n \in rows \ p : msg[m].time >= msg[n].time}

(* A slice asks for one row more than the page holds.                      *)
HasNextAfterTwo(rows) == Cardinality(rows) > PageSize + 1   \* mutant: off by one
HasNext(rows) == Cardinality(rows) > PageSize

(* nextCursor: the time of the last message of the page.                   *)
Last(page) == {msg[m].time : m \in {x \in page : \A n \in page : msg[x].time <= msg[n].time}}

Query ==
  /\ reader.pc = "query"
  /\ LET rows == {m \in Stored : Before(m, reader.cursor)} IN
     \E p \in Pages(rows) :
       reader' = [pc |-> IF HasNext(rows) THEN "shown" ELSE "end",
                  cursor |-> IF HasNext(rows) THEN Last(p) ELSE {},
                  page |-> p, seen |-> reader.seen \cup reader.page,
                  start |-> IF reader.cursor = {} THEN rows ELSE reader.start]
  /\ UNCHANGED <<now, authors, channel, msg>>

Tick ==
  /\ now < MaxTime
  /\ now' = now + 1
  /\ UNCHANGED <<authors, channel, msg, reader>>

PagingNext ==
  \/ \E m \in Messages : \/ \E a \in Authors : Create(m, a)
                         \/ CreateCommits(m) \/ CreateFails(m) \/ Delete(m)
  \/ ChannelDeleted \/ \E u \in Authors : AuthorDeleted(u)
  \/ Ask \/ Query \/ Tick

PagingSpec == PagingInit /\ [][PagingNext]_pagingVars

-----------------------------------------------------------------------------
(* Properties.                                                             *)

(* Every variable keeps its type; a page holds PageSize messages at most,  *)
(* and there is one cursor.                                                *)
PagingTypeOK ==
  /\ now \in 0 .. MaxTime /\ authors \subseteq Authors /\ channel \in BOOLEAN
  /\ msg \in [Messages -> [state : States, time : 0 .. MaxTime, author : SUBSET Authors]]
  /\ reader \in [pc : ReaderStages, cursor : SUBSET (0 .. MaxTime), page : SUBSET Messages,
                 seen : SUBSET Messages, start : SUBSET Messages]
  /\ Cardinality(reader.page) <= PageSize /\ Cardinality(reader.cursor) <= 1

(* Every page is older than all pages before it, whatever is written or    *)
(* deleted between two requests: no message is shown twice, and paging     *)
(* cannot go on for ever.                                                  *)
PagesDescend == \A m \in reader.page, n \in reader.seen : msg[m].time < msg[n].time

(* A message that was there when the client began, and still is when it    *)
(* was told that nothing is left, was shown to it; or one that was shown   *)
(* has the same creation time.                                             *)
MissedOnlyAtTie ==
  reader.pc = "end" =>
    \A m \in reader.start \cap Stored :
      \E n \in reader.seen \cup reader.page : n = m \/ msg[n].time = msg[m].time

(* A stored message is in a channel that exists, and its author, if it has *)
(* one, is an account that exists, in whatever order a message, its        *)
(* channel and its author are created and deleted.                         *)
NoDanglingMessage == \A m \in Stored : channel /\ msg[m].author \subseteq authors
=============================================================================
