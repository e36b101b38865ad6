--------------------------- MODULE ClientMessages ---------------------------
(***************************************************************************)
(* The messages a page shows.  Two ways lead to them: pages fetched over   *)
(* HTTP, newest first, and messages pushed over the STOMP connection to    *)
(* the subscription of the channel that is open.  Neither knows of the     *)
(* other, and a fetch does not know which channel is open when it returns. *)
(*                                                                         *)
(* Messages are numbered in the order of their creation times; they are    *)
(* committed, and then pushed, in any order.  What happens to them later   *)
(* (changed, deleted) is never pushed, and is left out.                    *)
(***************************************************************************)
EXTENDS FiniteSets, Naturals

CONSTANTS
  Channels,
  MaxMessages,  \* bound: messages sent
  PageSize,     \* messages of a page
  Fetches       \* fetches that may be in flight

ASSUME ClientConstants ==
  /\ MaxMessages \in Nat /\ PageSize \in Nat \ {0}

VARIABLES
  sent,         \* the server: message -> its channel and how far it is
  active,       \* the open channel, if there is one
  messages, newMessages,   \* what the view shows: fetched, and pushed
  pagination,   \* nextCursor and hasNext
  triggered,    \* the scroller waits for a page it asked for
  fetch,        \* fetch -> where it is
  socket,       \* the STOMP connection
  subscriptions, \* the store's record of subscriptions: channels
  live,         \* the subscription of the view at the server
  wire,         \* pushed to that subscription, not received yet
  unheard,      \* history: pushed without a subscription, or lost with one
  lost,         \* history: channels that were open when a connection was lost
  spoiled       \* history: what went wrong with the fetches of this view

view == <<active, messages, newMessages, pagination, triggered>>
link == <<socket, subscriptions, live, wire>>
history == <<unheard, lost, spoiled>>
vars == <<sent, view, fetch, link, history>>

Messages == 1 .. MaxMessages
Newest == MaxMessages + 1
NoPage == [nextCursor |-> Newest, hasNext |-> FALSE]
Optional(S) == {{}} \cup {{x} : x \in S}

NoFetch == [pc |-> "idle", channel |-> {}, cursor |-> Newest, page |-> {}, next |-> NoPage]

Init ==
  /\ sent = [m \in Messages |-> [pc |-> "none", channel |-> {}]]
  /\ active = {} /\ messages = {} /\ newMessages = {}
  /\ pagination = NoPage /\ triggered = FALSE
  /\ fetch = [f \in Fetches |-> NoFetch]
  /\ socket = "down" /\ subscriptions = {} /\ live = "none" /\ wire = {}
  /\ unheard = {} /\ lost = {} /\ spoiled = {}

-----------------------------------------------------------------------------
(* Messages sent by anybody, over HTTP or STOMP.                           *)

(* The creation time is taken before the commit.                           *)
Create(m, c) ==
  /\ sent[m].pc = "none" /\ \A n \in Messages : n < m => sent[n].pc # "none"
  /\ sent' = [sent EXCEPT ![m] = [pc |-> "saving", channel |-> {c}]]
  /\ UNCHANGED <<view, fetch, link, history>>

Commit(m) ==
  /\ sent[m].pc = "saving"
  /\ sent' = [sent EXCEPT ![m].pc = "stored"]
  /\ UNCHANGED <<view, fetch, link, history>>

(* convertAndSend, after the transaction: to those who are subscribed.     *)
Broadcast(m) ==
  /\ sent[m].pc = "stored"
  /\ sent' = [sent EXCEPT ![m].pc = "pushed"]
  /\ IF sent[m].channel = active /\ live = "on" /\ socket = "up"
       THEN wire' = wire \cup {m} /\ UNCHANGED unheard
       ELSE /\ unheard' = IF sent[m].channel = active THEN unheard \cup {m} ELSE unheard
            /\ UNCHANGED wire
  /\ UNCHANGED <<view, fetch, socket, subscriptions, live, lost, spoiled>>

-----------------------------------------------------------------------------
(* Fetches.                                                                *)

OlderByTwo(m, cursor) == cursor = Newest \/ m + 1 < cursor   \* mutant: one too far

Older(m, cursor) == cursor = Newest \/ m < cursor

Rows(c, cursor) ==
  {m \in Messages : /\ sent[m].pc \in {"stored", "pushed"}
                    /\ sent[m].channel = c /\ Older(m, cursor)}

(* The newest PageSize rows.                                               *)
Page(rows) == {m \in rows : Cardinality({n \in rows : n > m}) < PageSize}

Slice(rows) ==
  IF Page(rows) = rows THEN NoPage
  ELSE [nextCursor |-> CHOOSE m \in Page(rows) : \A n \in Page(rows) : m <= n,
        hasNext |-> TRUE]

Ask(f, c, cursor) ==
  /\ fetch[f].pc = "idle"
  /\ fetch' = [fetch EXCEPT ![f] = [NoFetch EXCEPT !.pc = "asked", !.channel = c,
                                                   !.cursor = cursor]]

Served(f) ==
  /\ fetch[f].pc = "asked"
  /\ LET rows == Rows(fetch[f].channel, fetch[f].cursor) IN
     fetch' = [fetch EXCEPT ![f].pc = "served", ![f].page = Page(rows),
                            ![f].next = Slice(rows)]
  /\ UNCHANGED <<sent, view, link, history>>

(* Added to whatever is shown by now; the scroller sees the length change. *)
Fetched(f) ==
  /\ fetch[f].pc = "served"
  /\ messages' = messages \cup fetch[f].page
  /\ pagination' = fetch[f].next
  /\ triggered' = (triggered /\ messages' = messages)
  /\ fetch' = [fetch EXCEPT ![f] = NoFetch]
  /\ UNCHANGED <<sent, active, newMessages, link, history>>

(* The store logs the error and does nothing.                              *)
FetchFails(f) ==
  /\ fetch[f].pc # "idle"
  /\ fetch' = [fetch EXCEPT ![f] = NoFetch]
  /\ spoiled' = spoiled \cup {"failed"}
  /\ UNCHANGED <<sent, view, link, unheard, lost>>

(* loadMoreMessages, when the view is scrolled to its end.                 *)
LoadMore(f) ==
  /\ active # {} /\ pagination.hasNext /\ ~triggered
  /\ Ask(f, active, pagination.nextCursor)
  /\ triggered' = TRUE
  /\ UNCHANGED <<sent, active, messages, newMessages, pagination, link, history>>

-----------------------------------------------------------------------------
(* The connection.  socket is "broken" while the server or the network has *)
(* lost it and the page has not noticed: isConnected is still set.         *)

IsConnected == socket \in {"up", "broken"}

(* subscribe: not if the store has an entry, also one of a lost connection. *)
Subscribe(c, entries) ==
  /\ subscriptions' = entries \cup c
  /\ live' = IF c = {} \/ c \subseteq entries THEN "none" ELSE "asked"

Connected ==
  /\ socket = "connecting" /\ socket' = "up"
  /\ Subscribe(active, subscriptions)
  /\ UNCHANGED <<sent, view, fetch, wire, history>>

Subscribed ==
  /\ socket = "up" /\ live = "asked" /\ live' = "on"
  /\ UNCHANGED <<sent, view, fetch, socket, subscriptions, wire, history>>

Received(m) ==
  /\ m \in wire
  /\ wire' = wire \ {m} /\ newMessages' = newMessages \cup {m}
  /\ UNCHANGED <<sent, active, messages, pagination, triggered, fetch>>
  /\ UNCHANGED <<socket, subscriptions, live, history>>

Breaks ==
  /\ socket = "up" /\ socket' = "broken"
  /\ wire' = {} /\ unheard' = unheard \cup wire
  /\ UNCHANGED <<sent, view, fetch, subscriptions, live, lost, spoiled>>

(* onWebSocketClose: the entries stay, and the client, which would connect *)
(* again, is given the same closed socket.                                 *)
Closed ==
  /\ socket # "down" /\ socket' = "down"
  /\ live' = "none"
  /\ wire' = {} /\ unheard' = unheard \cup wire
  /\ lost' = lost \cup active
  /\ UNCHANGED <<sent, view, fetch, subscriptions, spoiled>>

-----------------------------------------------------------------------------
(* setActiveChannel: the effects of the view of the old channel are        *)
(* cleaned up, and those of the new one run.                               *)

ClearedNever(shown) == shown   \* mutant: the cleanup does not clear

Cleared(shown) == IF active = {} THEN shown ELSE {}

UnsubscribedKept == subscriptions   \* mutant: the entry is not deleted

Unsubscribed == IF IsConnected THEN subscriptions \ active ELSE subscriptions

TriggeredStill == triggered   \* mutant: the scroller is not reset

TriggeredAfterClear == FALSE

Show(c) ==
  /\ active' = c
  /\ messages' = Cleared(messages) /\ newMessages' = Cleared(newMessages)
  /\ pagination' = IF active = {} THEN pagination ELSE NoPage
  /\ triggered' = TriggeredAfterClear
  /\ IF IsConnected THEN Subscribe(c, Unsubscribed)
                    ELSE live' = "none" /\ UNCHANGED subscriptions
  /\ socket' = IF socket = "down" /\ c # {} THEN "connecting" ELSE socket
  /\ wire' = {} /\ unheard' = {}
  /\ spoiled' = {x \in {"overtaken"} : \/ \E f \in Fetches : fetch[f].pc # "idle"
                                       \/ active = {} /\ x \in spoiled}
  /\ UNCHANGED <<sent, lost>>

Open(f, c) == active # {c} /\ Show({c}) /\ Ask(f, {c}, Newest)

(* The channel of a notification is not in the list (any more).            *)
Leave == active # {} /\ Show({}) /\ UNCHANGED fetch

-----------------------------------------------------------------------------
Next ==
  \/ \E m \in Messages : \/ \E c \in Channels : Create(m, c)
                         \/ Commit(m) \/ Broadcast(m) \/ Received(m)
  \/ \E f \in Fetches : \/ Served(f) \/ Fetched(f) \/ FetchFails(f) \/ LoadMore(f)
                        \/ \E c \in Channels : Open(f, c)
  \/ Connected \/ Subscribed \/ Breaks \/ Closed \/ Leave

Spec == Init /\ [][Next]_vars

-----------------------------------------------------------------------------
(* Properties.                                                             *)

(* Every variable keeps its type, and the scroller waits only for a page   *)
(* that is there.                                                          *)
TypeOK ==
  /\ sent \in [Messages -> [pc : {"none", "saving", "stored", "pushed"},
                            channel : Optional(Channels)]]
  /\ active \in Optional(Channels)
  /\ messages \subseteq Messages /\ newMessages \subseteq Messages
  /\ pagination \in [nextCursor : 1 .. Newest, hasNext : BOOLEAN]
  /\ triggered \in BOOLEAN
  /\ triggered => pagination.hasNext \/ "overtaken" \in spoiled
  /\ fetch \in [Fetches -> [pc : {"idle", "asked", "served"}, channel : Optional(Channels),
                            cursor : 1 .. Newest, page : SUBSET Messages,
                            next : [nextCursor : 1 .. Newest, hasNext : BOOLEAN]]]
  /\ socket \in {"down", "connecting", "up", "broken"}
  /\ subscriptions \subseteq Channels
  /\ live \in {"none", "asked", "on"}
  /\ wire \subseteq Messages /\ unheard \subseteq Messages
  /\ lost \subseteq Channels /\ spoiled \subseteq {"failed", "overtaken"}

InFlight == {f \in Fetches : fetch[f].pc # "idle"}

(* Still to come: older than the cursor, and the scroller may ask for it.  *)
ToBeLoaded(m) ==
  /\ pagination.hasNext /\ Older(m, pagination.nextCursor)
  /\ triggered => InFlight # {}

(* Between fetches and pushes no message falls through: once the first     *)
(* page is there, every message that was pushed to the channel is shown,   *)
(* is on its way, or can be scrolled to; unless its push found no          *)
(* subscription of the view, or was lost with the connection, or a fetch   *)
(* failed or belonged to another channel.                                  *)
ViewIsComplete ==
  active # {} /\ spoiled = {} /\ (\A f \in InFlight : fetch[f].cursor # Newest) =>
    \A m \in Messages : sent[m].pc = "pushed" /\ sent[m].channel = active =>
      m \in messages \cup newMessages \cup wire \cup unheard \/ ToBeLoaded(m)

(* A message of another channel is shown only if the user changed the      *)
(* channel while a fetch was in flight; pushes never show one.             *)
ForeignHasCause ==
  active # {} =>
    /\ \A m \in newMessages \cup wire : sent[m].channel = active
    /\ \A m \in messages : sent[m].channel = active \/ "overtaken" \in spoiled

(* A page with a connection hears the open channel, unless a connection    *)
(* was lost while that channel was open: its entry is then left over.      *)
DeafHasCause ==
  socket = "up" /\ active # {} /\ live = "none" => active \subseteq lost
=============================================================================
