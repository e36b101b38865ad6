--------------------------- MODULE ClientTabsProofs ---------------------------
(***************************************************************************)
(* Proofs about ClientTabs, for any users and tabs, any finite set of      *)
(* requests, and any number of logins and of restarts.                     *)
(***************************************************************************)
EXTENDS ClientTabs, FiniteSetTheorems, TLAPS

(* What a message or a store can hold: one value at most.                  *)
Few(S) == {X \in SUBSET S : \A x, y \in X : x = y}

Logins == {q \in Requests : req[q].pc \in LoginStages}

(* What is accepted and is not so thanks to a restart.                     *)
Steady == good \ revived

(* Each token the server accepts, but those that a restart brought back,   *)
(* is that of a session in its table: none is forgotten there.             *)
Revocable == Steady \subseteq UNION {current[u] : u \in Users}

(* The server.  A token says how many there were when it was handed out,   *)
(* so that a new one is none of them.                                      *)
ServerInv ==
  /\ current \in [Users -> SUBSET issued]
  /\ good \subseteq issued
  /\ \A u \in Users : \A k \in current[u] : k.user = u
  /\ \A k \in Steady : \E u \in Users : k \in current[u]
  /\ IsFiniteSet(issued)
  /\ issued \subseteq [user : Users, n : 1 .. Cardinality(issued)]

(* TypeOK, with what is needed to keep it.                                 *)
PageRecords == [user : Few(Users), token : Few(issued)]
StreamRecords == [state : {"none", "connecting", "open", "closed", "failed"},
                  token : Few(issued), heard : BOOLEAN]
RequestRecords == [pc : Stages, tab : Few(Tabs), user : Few(Users), token : Few(issued)]

PageInv ==
  /\ jar \in Few(issued) /\ displaced \subseteq good /\ revived \subseteq good
  /\ restarts \in 0 .. MaxRestarts
  /\ tab \in [Tabs -> PageRecords]
  /\ stream \in [Tabs -> StreamRecords]
  /\ req \in [Requests -> RequestRecords]
  /\ subscribed \subseteq Tabs /\ reused \subseteq Tabs
  /\ \A r \in Requests : req[r].pc = "welcome" => req[r].user # {}

(* The bound of the logins.                                                *)
BoundInv == Cardinality(issued) + Cardinality(Logins) <= MaxLogins

(* A good token that a page has, or had, is that of the cookie in the jar, *)
(* or its cookie was displaced; the session a logout was answered for is   *)
(* closed.                                                                 *)
CookieInv ==
  /\ \A t \in Tabs : tab[t].token \cap Steady \subseteq jar \cup displaced
  /\ SignedOutIsDead
  /\ \A r \in Requests : req[r].pc = "farewell" => req[r].token \cap Steady = {}

(* The first user's subscription is that of the stream of the page.        *)
StreamInv ==
  /\ FirstUserIsServed
  /\ \A t \in (subscribed \cap Watched) \ reused :
       stream[t].heard \/ stream[t].state \in {"closed", "failed"}

-----------------------------------------------------------------------------
(* Steps.                                                                  *)

(* The ways the server changes while it runs.                              *)
Changes ==
  \/ \E ks : Withdraw(ks)
  \/ \E u \in Users : \E k : CloseSession(u, k)
  \/ \E u \in Users : Registry!Open(u, Fresh(u)) /\ UNCHANGED history

Served == \E r \in Requests : LoginServed(r) \/ LogoutServed(r)

Quiet ==
  \E r \in Requests : ApiServed(r) \/ LogoutAfterRefusal(r) \/ \E t \in Tabs : Click(r, t)

Answered ==
  \E r \in Requests :
    Forget(r) \/ \E t \in Tabs : LoginAnswered(r, t) \/ LogoutAnswered(r, t)

Streaming == \E t \in Tabs : StreamAnswered(t) \/ StreamEnds(t)

Reloaded == \E t \in Tabs : Reload(t)

LEMMA StepKinds ==
  [Next]_vars => \/ Served \/ Quiet \/ Answered \/ Streaming \/ Reloaded \/ Elsewhere
                 \/ Restart \/ UNCHANGED vars
  BY DEF Next, Answer, Served, Quiet, Answered, Streaming, Reloaded

LEMMA ServedChanges ==
  ASSUME ServerInv, PageInv, Served \/ Elsewhere
  PROVE  Changes \/ UNCHANGED <<server, history>>
<1>1. CASE Elsewhere
  BY <1>1 DEF Elsewhere, Changes
<1>2. ASSUME NEW r \in Requests, LoginServed(r)
      PROVE  Changes \/ UNCHANGED <<server, history>>
  <2>1. CASE UNCHANGED <<server, history>>
    BY <2>1
  <2>2. ASSUME NEW u \in req[r].user, FindSession(r, u) \/ DeleteSession(r, u) \/ InsertSession(r, u)
        PROVE  Changes \/ UNCHANGED <<server, history>>
    <3>1. u \in Users
      BY DEF PageInv, RequestRecords, Few
    <3> QED
      BY <2>2, <3>1 DEF FindSession, DeleteSession, InsertSession, Changes
  <2> QED
    BY <1>2, <2>1, <2>2 DEF LoginServed
<1>3. ASSUME NEW r \in Requests, LogoutServed(r)
      PROVE  Changes \/ UNCHANGED <<server, history>>
  <2>1. CASE UNCHANGED <<server, history>>
    BY <2>1
  <2>2. CASE \E k \in req[r].token : Withdraw({k})
    BY <2>2 DEF Changes
  <2>3. CASE \E k \in req[r].token : CloseSession(k.user, k)
    <3>1. PICK k \in req[r].token : CloseSession(k.user, k)
      BY <2>3
    <3>2. k \in issued
      BY <3>1 DEF PageInv, RequestRecords, Few
    <3>3. k.user \in Users
      BY <3>2 DEF ServerInv
    <3> QED
      BY <3>1, <3>3 DEF Changes
  <2> QED
    BY <1>3, <2>1, <2>2, <2>3 DEF LogoutServed
<1> QED
  BY <1>1, <1>2, <1>3 DEF Served

LEMMA ServerQuiet ==
  Quiet \/ Answered \/ Streaming \/ Reloaded \/ UNCHANGED vars => UNCHANGED <<server, revived>>
  BY DEF Quiet, Answered, Streaming, Reloaded, ApiServed, LogoutAfterRefusal, Forget, Click,
     Api, Logout, Login, LoginAnswered, LogoutAnswered, StreamAnswered, StreamEnds, Reload,
     history, vars

-----------------------------------------------------------------------------
(* The server.                                                             *)

LEMMA FreshIsNew ==
  ASSUME ServerInv, NEW u \in Users
  PROVE  /\ Fresh(u) \notin issued /\ Fresh(u).user = u
         /\ Cardinality(issued \cup {Fresh(u)}) = Cardinality(issued) + 1
         /\ IsFiniteSet(issued \cup {Fresh(u)})
         /\ Cardinality(issued) \in Nat
         /\ Fresh(u) \in [user : Users, n : 1 .. Cardinality(issued) + 1]
<1>1. Cardinality(issued) \in Nat
  BY FS_CardinalityType DEF ServerInv
<1>2. Fresh(u).n = Cardinality(issued) + 1 /\ Fresh(u).user = u
  BY DEF Fresh
<1>3. Fresh(u) \notin issued
  BY <1>1, <1>2 DEF ServerInv
<1>4. /\ Cardinality(issued \cup {Fresh(u)}) = Cardinality(issued) + 1
      /\ IsFiniteSet(issued \cup {Fresh(u)})
  BY <1>3, FS_AddElement DEF ServerInv
<1>5. Fresh(u) \in [user : Users, n : 1 .. Cardinality(issued) + 1]
  BY <1>1 DEF Fresh
<1> QED
  BY <1>1, <1>2, <1>3, <1>4, <1>5

(* What a change may do: a token in good standing was so, or is new.       *)
LEMMA ChangeLemma ==
  ASSUME ServerInv, Changes
  PROVE  /\ ServerInv' /\ issued \subseteq issued'
         /\ \A k \in issued : k \in Steady' => k \in Steady
<1>1. ASSUME NEW ks, Withdraw(ks)
      PROVE  /\ ServerInv' /\ issued' = issued /\ Steady' \subseteq Steady
  <2>1. /\ good' = good \ ks /\ revived' = revived \ ks
        /\ UNCHANGED <<current, issued>>
    BY <1>1 DEF Withdraw, Registry!Revoke
  <2>2. Steady' \subseteq Steady
    BY <2>1 DEF Steady
  <2> QED
    BY <2>1, <2>2 DEF ServerInv
<1>2. ASSUME NEW u \in Users, NEW k, CloseSession(u, k)
      PROVE  /\ ServerInv' /\ issued' = issued /\ Steady' = Steady
  <2>1. /\ k \notin good /\ current' = [current EXCEPT ![u] = current[u] \ {k}]
        /\ good' = good /\ issued' = issued /\ revived' = revived
    BY <1>2 DEF CloseSession, Registry!Close, Registry!Refused, history
  <2>2. \A w \in Users : current'[w] = IF w = u THEN current[w] \ {k} ELSE current[w]
    BY <2>1 DEF ServerInv
  <2>3. Steady' = Steady /\ k \notin Steady
    BY <2>1 DEF Steady
  <2> QED
    BY <2>1, <2>2, <2>3 DEF ServerInv
<1>3. ASSUME NEW u \in Users, Registry!Open(u, Fresh(u)), UNCHANGED history
      PROVE  /\ ServerInv' /\ issued \subseteq issued' /\ Steady' \subseteq Steady \cup {Fresh(u)}
  <2>1. /\ current' = [current EXCEPT ![u] = current[u] \cup {Fresh(u)}]
        /\ issued' = issued \cup {Fresh(u)}
        /\ good' \subseteq good \cup {Fresh(u)} /\ revived' = revived
    BY <1>3 DEF Registry!Open, Registry!HandOut, history
  <2>2. \A w \in Users :
          current'[w] = IF w = u THEN current[w] \cup {Fresh(u)} ELSE current[w]
    BY <2>1 DEF ServerInv
  <2>3. Steady' \subseteq Steady \cup {Fresh(u)}
    BY <2>1 DEF Steady
  <2>4. /\ current' \in [Users -> SUBSET issued'] /\ good' \subseteq issued'
    <3>1. current' \in [Users -> SUBSET (issued \cup {Fresh(u)})]
      BY <2>1 DEF ServerInv
    <3>2. current' \in [Users -> SUBSET issued']
      BY <2>1, <3>1
    <3>3. good' \subseteq issued'
      BY <2>1 DEF ServerInv
    <3> QED
      BY <3>2, <3>3
  <2>5. \A w \in Users : \A k \in current'[w] : k.user = w
    <3>1. Fresh(u).user = u
      BY FreshIsNew
    <3>2. \A w \in Users : \A k \in current[w] : k.user = w
      BY DEF ServerInv
    <3> QED
      BY <2>2, <3>1, <3>2
  <2>6. \A k \in Steady' : \E w \in Users : k \in current'[w]
    BY <2>2, <2>3 DEF ServerInv
  <2>7. /\ IsFiniteSet(issued') /\ Cardinality(issued') = Cardinality(issued) + 1
    BY <2>1, FreshIsNew
  <2>8. issued' \subseteq [user : Users, n : 1 .. Cardinality(issued')]
    <3>1. Cardinality(issued) \in Nat
      BY FreshIsNew
    <3>2. issued \subseteq [user : Users, n : 1 .. Cardinality(issued) + 1]
      BY <3>1 DEF ServerInv
    <3> QED
      BY <2>1, <2>7, <3>2, FreshIsNew
  <2> QED
    BY <2>1, <2>3, <2>4, <2>5, <2>6, <2>7, <2>8 DEF ServerInv
<1> QED
  BY <1>1, <1>2, <1>3, FreshIsNew DEF Changes

(* What a restart brings back is set apart.                                *)
LEMMA RestartLemma ==
  ASSUME ServerInv, Restart
  PROVE  ServerInv' /\ issued' = issued /\ Steady' = Steady /\ good \subseteq good'
<1>1. /\ UNCHANGED <<current, issued>> /\ good \subseteq good' /\ good' \subseteq good \cup issued
      /\ revived' = revived \cup (good' \ good)
  BY DEF Restart, Registry!Restart
<1>2. Steady' = Steady
  BY <1>1 DEF Steady
<1> QED
  BY <1>1, <1>2 DEF ServerInv

LEMMA ServerStep ==
  ASSUME ServerInv, PageInv, [Next]_vars
  PROVE  /\ ServerInv' /\ issued \subseteq issued'
         /\ \A k \in issued : k \in Steady' => k \in Steady
<1>1. CASE UNCHANGED <<server, revived>>
  BY <1>1 DEF server, ServerInv, Steady
<1>2. CASE Restart
  BY <1>2, RestartLemma
<1> QED
  BY <1>1, <1>2, ChangeLemma, ServedChanges, ServerQuiet, StepKinds DEF history

-----------------------------------------------------------------------------
(* Records.                                                                *)

LEMMA FewGrows == ASSUME NEW S, NEW T, S \subseteq T PROVE Few(S) \subseteq Few(T)
  BY DEF Few

LEMMA FewSmall == ASSUME NEW S PROVE {} \in Few(S) /\ \A x \in S : {x} \in Few(S)
  BY DEF Few

LEMMA IdleRecord ==
  /\ Idle \in RequestRecords /\ Idle.pc = "idle"
  /\ NoStream \in StreamRecords /\ NoStream.state = "none"
  BY FewSmall DEF Idle, NoStream, RequestRecords, StreamRecords, Stages

(* The records stay what they are when tokens are handed out.              *)
LEMMA RecordsGrow ==
  ASSUME issued \subseteq issued'
  PROVE  /\ PageRecords \subseteq PageRecords' /\ StreamRecords \subseteq StreamRecords'
         /\ RequestRecords \subseteq RequestRecords' /\ Few(issued) \subseteq Few(issued')
<1>1. Few(issued) \subseteq Few(issued')
  BY FewGrows
<1> QED
  BY <1>1 DEF PageRecords, StreamRecords, RequestRecords

LEMMA TokensIssued ==
  PageInv => /\ \A t \in Tabs : tab[t].token \subseteq issued /\ stream[t].token \subseteq issued
             /\ \A r \in Requests : req[r].token \subseteq issued
  BY DEF PageInv, PageRecords, StreamRecords, RequestRecords, Few

-----------------------------------------------------------------------------
(* Requests.                                                               *)

(* What a request may become: one that logs in was one already, or the     *)
(* bound allows it; one that was answered with a logout had its session    *)
(* closed.                                                                 *)
Becomes(r, q) ==
  /\ req' = [req EXCEPT ![r] = q] /\ q \in RequestRecords'
  /\ q.pc = "welcome" => q.user # {}
  /\ q.pc = "farewell" => q.token \cap Steady' = {}
  /\ q.pc \in LoginStages => \/ req[r].pc \in LoginStages
                             \/ Cardinality(issued) + Cardinality(Logins) < MaxLogins

LEMMA EndBecomes ==
  ASSUME PageInv, issued \subseteq issued', NEW r \in Requests, End(r)
  PROVE  \E q : Becomes(r, q)
<1>1. Idle \in RequestRecords' /\ Idle.pc = "idle"
  BY IdleRecord, RecordsGrow
<1>2. Becomes(r, Idle)
  BY <1>1 DEF End, Becomes, LoginStages
<1> QED
  BY <1>2

LEMMA GotoBecomes ==
  ASSUME PageInv, issued \subseteq issued', NEW r \in Requests, NEW stage \in Stages,
         Goto(r, stage), stage # "welcome",
         stage = "farewell" => req[r].token \cap Steady' = {},
         stage \in LoginStages => req[r].pc \in LoginStages
  PROVE  \E q : Becomes(r, q)
<1> DEFINE new == [req[r] EXCEPT !.pc = stage]
<1>1. new \in RequestRecords /\ new.pc = stage /\ new.token = req[r].token
  BY DEF PageInv, RequestRecords
<1>2. req' = [req EXCEPT ![r] = new]
  BY DEF Goto, PageInv
<1> HIDE DEF new
<1>3. Becomes(r, new)
  BY <1>1, <1>2, RecordsGrow DEF Becomes
<1> QED
  BY <1>3

LEMMA TakesBecomes ==
  ASSUME PageInv, issued \subseteq issued', NEW r \in Requests, NEW k \in Few(issued'),
         NEW stage \in {"delete", "insert", "welcome", "logout"},
         req' = [req EXCEPT ![r].pc = stage, ![r].token = k],
         stage = "welcome" => req[r].user # {},
         stage \in LoginStages => req[r].pc \in LoginStages
  PROVE  \E q : Becomes(r, q)
<1> DEFINE new == [req[r] EXCEPT !.pc = stage, !.token = k]
<1>1. req[r] \in RequestRecords'
  BY RecordsGrow DEF PageInv
<1>2. new \in RequestRecords' /\ new.pc = stage /\ new.user = req[r].user
  BY <1>1 DEF RequestRecords, Stages, LoginStages, Answers
<1>3. req' = [req EXCEPT ![r] = new]
  BY DEF PageInv
<1> HIDE DEF new
<1>4. Becomes(r, new)
  BY <1>2, <1>3 DEF Becomes
<1> QED
  BY <1>4

LEMMA SentBecomes ==
  ASSUME PageInv, issued \subseteq issued', NEW r \in Requests, NEW t \in Tabs,
         NEW stage \in {"login", "api", "logout"}, NEW u \in Few(Users), NEW k \in Few(issued),
         Sent(r, stage, t, u, k),
         stage = "login" => Cardinality(issued) + Cardinality(Logins) < MaxLogins
  PROVE  \E q : Becomes(r, q)
<1> DEFINE new == [pc |-> stage, tab |-> {t}, user |-> u, token |-> k]
<1>1. new \in RequestRecords /\ new.pc = stage
  BY FewSmall DEF RequestRecords, Stages, LoginStages
<1>2. req' = [req EXCEPT ![r] = new]
  BY DEF Sent
<1> HIDE DEF new
<1>3. new \in RequestRecords'
  BY <1>1, RecordsGrow
<1>4. Becomes(r, new)
  BY <1>1, <1>2, <1>3 DEF Becomes, LoginStages
<1> QED
  BY <1>4

LEMMA LoginBecomes ==
  ASSUME ServerInv, PageInv, issued \subseteq issued', NEW r \in Requests, LoginServed(r)
  PROVE  \E q : Becomes(r, q)
<1>1. CASE End(r)
  BY <1>1, EndBecomes
<1>2. ASSUME NEW u \in req[r].user, FindSession(r, u)
      PROVE  \E q : Becomes(r, q)
  <2>1. req[r].pc = "login"
    BY <1>2 DEF FindSession
  <2>2. CASE Goto(r, "insert")
    BY <2>1, <2>2, GotoBecomes DEF Stages, LoginStages
  <2>3. ASSUME NEW k \in current[u], Withdraw({k}),
               req' = [req EXCEPT ![r].pc = "delete", ![r].token = {k}]
        PROVE  \E q : Becomes(r, q)
    <3>1. k \in issued'
      BY DEF ServerInv, PageInv, RequestRecords, Few
    <3>2. {k} \in Few(issued')
      BY <3>1, FewSmall
    <3> QED
      BY <2>1, <2>3, <3>2, TakesBecomes DEF LoginStages
  <2> QED
    BY <1>2, <2>2, <2>3 DEF FindSession
<1>3. ASSUME NEW u \in req[r].user, DeleteSession(r, u)
      PROVE  \E q : Becomes(r, q)
  <2>1. req[r].pc = "delete" /\ req' = [req EXCEPT ![r].pc = "insert", ![r].token = {}]
    BY <1>3 DEF DeleteSession
  <2>2. {} \in Few(issued')
    BY FewSmall
  <2> QED
    BY <2>1, <2>2, TakesBecomes DEF LoginStages
<1>4. ASSUME NEW u \in req[r].user, InsertSession(r, u)
      PROVE  \E q : Becomes(r, q)
  <2>1. req' = [req EXCEPT ![r].pc = "welcome", ![r].token = {Fresh(u)}]
    BY <1>4 DEF InsertSession
  <2>2. Fresh(u) \in issued'
    BY <1>4 DEF InsertSession, Registry!Open, Registry!HandOut
  <2>3. {Fresh(u)} \in Few(issued')
    BY <2>2, FewSmall
  <2> QED
    BY <1>4, <2>1, <2>3, TakesBecomes DEF LoginStages
<1> QED
  BY <1>1, <1>2, <1>3, <1>4 DEF LoginServed

LEMMA LogoutBecomes ==
  ASSUME PageInv, issued \subseteq issued', NEW r \in Requests, LogoutServed(r)
  PROVE  UNCHANGED req \/ \E q : Becomes(r, q)
<1>1. CASE req[r].token = {} /\ Goto(r, "farewell")
  BY <1>1, GotoBecomes DEF Stages, Answers, LoginStages
<1>2. CASE Goto(r, "failed")
  BY <1>2, GotoBecomes DEF Stages, Answers, LoginStages
<1>3. ASSUME NEW k \in req[r].token, CloseSession(k.user, k), Goto(r, "farewell")
      PROVE  \E q : Becomes(r, q)
  <2>1. k \notin good /\ good' = good
    BY <1>3 DEF CloseSession, Registry!Close, Registry!Refused
  <2>2. req[r].token = {k}
    BY DEF PageInv, RequestRecords, Few
  <2>3. req[r].token \cap Steady' = {}
    BY <2>1, <2>2 DEF Steady
  <2> QED
    BY <1>3, <2>3, GotoBecomes DEF Stages, Answers, LoginStages
<1> QED
  BY <1>1, <1>2, <1>3 DEF LogoutServed

LEMMA QuietBecomes ==
  ASSUME PageInv, issued \subseteq issued', Quiet
  PROVE  \E r \in Requests : \E q : Becomes(r, q)
<1>1. ASSUME NEW r \in Requests, ApiServed(r)
      PROVE  \E q : Becomes(r, q)
  <2>1. End(r) \/ Goto(r, "refused")
    BY <1>1 DEF ApiServed
  <2> QED
    BY <2>1, EndBecomes, GotoBecomes DEF Stages, Answers, LoginStages
<1>2. jar \in Few(issued) /\ {} \in Few(issued) /\ {} \in Few(Users)
      /\ \A u \in Users : {u} \in Few(Users)
  BY FewSmall DEF PageInv
<1>3. ASSUME NEW r \in Requests, LogoutAfterRefusal(r)
      PROVE  \E q : Becomes(r, q)
  <2>1. req' = [req EXCEPT ![r].pc = "logout", ![r].token = jar]
    BY <1>3 DEF LogoutAfterRefusal, Cookie
  <2>2. jar \in Few(issued')
    BY <1>2, RecordsGrow
  <2> QED
    BY <2>1, <2>2, TakesBecomes DEF LoginStages
<1>4. ASSUME NEW r \in Requests, NEW t \in Tabs, Click(r, t)
      PROVE  \E q : Becomes(r, q)
  <2>1. CASE Sent(r, "api", t, {}, tab[t].token)
    <3>1. tab[t].token \in Few(issued)
      BY DEF PageInv, PageRecords
    <3> QED
      BY <1>2, <2>1, <3>1, SentBecomes
  <2>2. CASE Sent(r, "logout", t, {}, jar)
    BY <1>2, <2>2, SentBecomes
  <2>3. ASSUME NEW u \in Users, Sent(r, "login", t, {u}, {}),
               Cardinality(issued) + Cardinality(Logins) < MaxLogins
        PROVE  \E q : Becomes(r, q)
    BY <1>2, <2>3, SentBecomes
  <2> QED
    BY <1>4, <2>1, <2>2, <2>3 DEF Click, Api, Logout, Login, Cookie, Logins
<1> QED
  BY <1>1, <1>3, <1>4 DEF Quiet

LEMMA RequestMoves ==
  ASSUME ServerInv, PageInv, [Next]_vars, ~Reloaded, ~Restart
  PROVE  UNCHANGED req \/ \E r \in Requests : \E q : Becomes(r, q)
<1>1. issued \subseteq issued'
  BY ServerStep
<1>2. CASE Served
  BY <1>1, <1>2, LoginBecomes, LogoutBecomes DEF Served
<1>3. CASE Answered
  <2>1. PICK r \in Requests : End(r)
    BY <1>3 DEF Answered, Forget, LoginAnswered, LogoutAnswered
  <2> QED
    BY <1>1, <2>1, EndBecomes
<1>4. CASE Streaming \/ Elsewhere \/ UNCHANGED vars
  BY <1>4 DEF Streaming, StreamAnswered, StreamEnds, Elsewhere, vars
<1> QED
  BY <1>1, <1>2, <1>3, <1>4, QuietBecomes, StepKinds

(* A page that is loaded again waits for none; a restart loses them all.   *)
LEMMA RequestLosses ==
  ASSUME PageInv, Reloaded \/ Restart
  PROVE  /\ issued' = issued /\ req' \in [Requests -> RequestRecords]
         /\ \A r \in Requests :
              \/ req'[r].pc = "idle"
              \/ /\ UNCHANGED good
                 /\ req'[r].pc = req[r].pc /\ req'[r].user = req[r].user
                 /\ req'[r].token = req[r].token
<1>1. CASE Restart
  BY <1>1, IdleRecord DEF Restart, Registry!Restart
<1>2. CASE Reloaded
  <2>1. PICK t \in Tabs : /\ req' = [r \in Requests |-> [req[r] EXCEPT !.tab = req[r].tab \ {t}]]
                          /\ issued' = issued /\ good' = good
    BY <1>2 DEF Reloaded, Reload, server
  <2>2. ASSUME NEW r \in Requests
        PROVE  [req[r] EXCEPT !.tab = req[r].tab \ {t}] \in RequestRecords
    <3>1. req[r].tab \ {t} \in Few(Tabs)
      BY DEF PageInv, RequestRecords, Few
    <3> QED
      BY <3>1 DEF PageInv, RequestRecords
  <2> QED
    BY <2>1, <2>2 DEF PageInv, RequestRecords
<1> QED
  BY <1>1, <1>2

(* What PageInv and CookieInv say of the requests.                         *)
LEMMA RequestStep ==
  ASSUME ServerInv, PageInv, CookieInv, [Next]_vars
  PROVE  /\ req' \in [Requests -> RequestRecords]'
         /\ \A p \in Requests : req'[p].pc = "welcome" => req'[p].user # {}
         /\ \A p \in Requests : req'[p].pc = "farewell" => req'[p].token \cap Steady' = {}
<1>1. issued \subseteq issued' /\ \A k \in issued : k \in Steady' => k \in Steady
  BY ServerStep
<1>2. RequestRecords \subseteq RequestRecords'
  BY <1>1, RecordsGrow
<1>3. \A p \in Requests : req[p].pc = "farewell" => req[p].token \cap Steady' = {}
  BY <1>1, TokensIssued DEF CookieInv
<1>4. CASE UNCHANGED req
  BY <1>2, <1>3, <1>4 DEF PageInv
<1>5. CASE Reloaded \/ Restart
  BY <1>2, <1>3, <1>5, RequestLosses DEF PageInv
<1>6. ASSUME NEW r \in Requests, NEW q, Becomes(r, q)
      PROVE  /\ req' \in [Requests -> RequestRecords]'
             /\ \A p \in Requests : req'[p].pc = "welcome" => req'[p].user # {}
             /\ \A p \in Requests : req'[p].pc = "farewell" => req'[p].token \cap Steady' = {}
  <2>1. req \in [Requests -> RequestRecords']
    BY <1>2 DEF PageInv
  <2>2. req' \in [Requests -> RequestRecords']
    BY <1>6, <2>1 DEF Becomes
  <2>3. \A p \in Requests : req'[p] = IF p = r THEN q ELSE req[p]
    BY <1>6 DEF Becomes, PageInv
  <2> QED
    BY <1>3, <1>6, <2>2, <2>3 DEF Becomes, PageInv
<1> QED
  BY <1>4, <1>5, <1>6, RequestMoves

-----------------------------------------------------------------------------
(* The page.                                                               *)

(* subscribe changes the stream of the tab, and what is recorded of it.    *)
LEMMA HeardLemma ==
  ASSUME PageInv, NEW t \in Tabs, NEW s \in StreamRecords, NEW b \in BOOLEAN, Heard(t, s, b)
  PROVE  /\ stream' \in [Tabs -> StreamRecords]
         /\ subscribed' \subseteq Tabs
         /\ \A v \in Tabs : v # t =>
              stream'[v] = stream[v] /\ (v \in subscribed' <=> v \in subscribed)
         /\ stream'[t].state = s.state /\ stream'[t].token = s.token
         /\ t \in subscribed => t \in subscribed' /\ stream'[t] = s
         /\ t \notin subscribed => (t \in subscribed' => stream'[t].heard)
         /\ b /\ s.state = "open" /\ t \notin subscribed => stream'[t].heard
<1>1. CASE b /\ s.state = "open" /\ t \notin subscribed
  <2> DEFINE new == [s EXCEPT !.heard = TRUE]
  <2>1. /\ new \in StreamRecords /\ new.state = s.state /\ new.token = s.token /\ new.heard
    BY DEF StreamRecords
  <2>2. stream' = [stream EXCEPT ![t] = new] /\ subscribed' = subscribed \cup {t}
    BY <1>1 DEF Heard
  <2> HIDE DEF new
  <2> QED
    BY <1>1, <2>1, <2>2 DEF PageInv
<1>2. CASE ~(b /\ s.state = "open" /\ t \notin subscribed)
  <2>1. stream' = [stream EXCEPT ![t] = s] /\ subscribed' = subscribed
    BY <1>2 DEF Heard
  <2> QED
    BY <1>2, <2>1 DEF PageInv
<1> QED
  BY <1>1, <1>2

LEMMA ConnectedLemma ==
  ASSUME PageInv, NEW t \in Tabs, NEW k \in Few(issued)
  PROVE  /\ Connected(t, k) \in StreamRecords
         /\ t \in Watched /\ stream[t].state = "none" =>
              Connected(t, k).state = "connecting" /\ Connected(t, k).token = k
<1>1. stream[t] \in StreamRecords
  BY DEF PageInv
<1>2. [state |-> "connecting", token |-> k, heard |-> FALSE] \in StreamRecords
  BY DEF StreamRecords
<1> QED
  BY <1>1, <1>2 DEF Connected

(* What the answers do to the cookie: one that is good and leaves the jar  *)
(* is displaced, or its session was closed.                                *)
LEMMA CookieLemma ==
  ASSUME PageInv, CookieInv, NEW r \in Requests, StoreCookie(r)
  PROVE  /\ jar' \in Few(issued)
         /\ displaced \subseteq displaced' /\ displaced' \subseteq displaced \cup good
         /\ jar \cap Steady \subseteq jar' \cup displaced'
         /\ req[r].pc \in {"farewell", "failed"} => jar' = {}
         /\ req[r].pc = "welcome" => jar' = req[r].token
<1>1. CASE req[r].pc = "welcome"
  BY <1>1 DEF StoreCookie, JarAfter, JarAfterLogin, PageInv, RequestRecords, Steady
<1>2. CASE req[r].pc = "farewell"
  <2>1. jar' = {} /\ displaced' = displaced \cup ((good \cap jar) \ req[r].token)
    BY <1>2 DEF StoreCookie, JarAfter
  <2>2. req[r].token \cap Steady = {}
    BY <1>2 DEF CookieInv
  <2> QED
    BY <1>2, <2>1, <2>2, FewSmall DEF Steady
<1>3. CASE req[r].pc = "failed"
  <2>1. jar' = {} /\ displaced' = displaced \cup (good \cap jar)
    BY <1>3 DEF StoreCookie, JarAfter, JarAfterFailure
  <2> QED
    BY <1>3, <2>1, FewSmall DEF Steady
<1>4. CASE req[r].pc \notin {"welcome", "farewell", "failed"}
  BY <1>4 DEF StoreCookie, JarAfter, PageInv
<1> QED
  BY <1>1, <1>2, <1>3, <1>4

LEMMA RecordsSame ==
  issued' = issued => /\ PageRecords' = PageRecords /\ StreamRecords' = StreamRecords
                      /\ RequestRecords' = RequestRecords /\ Few(issued)' = Few(issued)
  BY DEF PageRecords, StreamRecords, RequestRecords

(* The part of PageInv that is not about requests.                         *)
StoresInv ==
  /\ jar \in Few(issued) /\ displaced \subseteq good /\ revived \subseteq good
  /\ restarts \in 0 .. MaxRestarts
  /\ tab \in [Tabs -> PageRecords]
  /\ stream \in [Tabs -> StreamRecords]
  /\ subscribed \subseteq Tabs /\ reused \subseteq Tabs

LEMMA StoresLogin ==
  ASSUME PageInv, CookieInv, NEW r \in Requests, NEW t \in Tabs, LoginAnswered(r, t)
  PROVE  StoresInv'
<1>1. /\ tab' = [tab EXCEPT ![t] = [user |-> req[r].user, token |-> req[r].token]]
      /\ Heard(t, Connected(t, req[r].token), TRUE)
      /\ reused' \subseteq reused \cup {t}
      /\ StoreCookie(r) /\ UNCHANGED <<server, restarts, revived>>
  BY DEF LoginAnswered
<1>2. req[r].token \in Few(issued) /\ req[r].user \in Few(Users)
  BY DEF PageInv, RequestRecords
<1>3. [user |-> req[r].user, token |-> req[r].token] \in PageRecords
  BY <1>2 DEF PageRecords
<1>4. tab' \in [Tabs -> PageRecords]
  BY <1>1, <1>3 DEF PageInv
<1>5. stream' \in [Tabs -> StreamRecords] /\ subscribed' \subseteq Tabs
  BY <1>1, <1>2, ConnectedLemma, HeardLemma
<1>6. jar' \in Few(issued) /\ displaced' \subseteq displaced \cup good
  BY <1>1, CookieLemma
<1> QED
  BY <1>1, <1>4, <1>5, <1>6, RecordsSame DEF StoresInv, PageInv, server

LEMMA StoresLogout ==
  ASSUME PageInv, CookieInv, NEW r \in Requests,
         Forget(r) \/ \E t \in Tabs : LogoutAnswered(r, t)
  PROVE  StoresInv'
<1>1. /\ UNCHANGED <<server, stream, subscribed, reused, restarts, revived>>
      /\ StoreCookie(r) \/ UNCHANGED <<jar, displaced>>
      /\ tab' = tab \/ \E t \in Tabs : tab' = [tab EXCEPT ![t].user = {}]
  BY DEF Forget, LogoutAnswered, page
<1>2. \A t \in Tabs : [tab[t] EXCEPT !.user = {}] \in PageRecords
  BY FewSmall DEF PageInv, PageRecords
<1>3. tab' \in [Tabs -> PageRecords]
  BY <1>1, <1>2 DEF PageInv
<1>4. jar' \in Few(issued) /\ displaced' \subseteq displaced \cup good
  BY <1>1, CookieLemma DEF PageInv
<1> QED
  BY <1>1, <1>3, <1>4, RecordsSame DEF StoresInv, PageInv, server

LEMMA StoresStreaming ==
  ASSUME PageInv, NEW t \in Tabs, StreamAnswered(t) \/ StreamEnds(t)
  PROVE  StoresInv'
<1>1. UNCHANGED <<server, jar, tab, reused, restarts, history>>
  BY DEF StreamAnswered, StreamEnds
<1>2. stream[t] \in StreamRecords
  BY DEF PageInv
<1>3. stream' \in [Tabs -> StreamRecords] /\ subscribed' \subseteq Tabs
  <2>1. CASE StreamEnds(t)
    <3>1. [stream[t] EXCEPT !.state = "connecting"] \in StreamRecords
      BY <1>2 DEF StreamRecords
    <3>2. stream' = [stream EXCEPT ![t] = [stream[t] EXCEPT !.state = "connecting"]]
          /\ subscribed' = subscribed
      BY <2>1 DEF StreamEnds, AfterEnd, PageInv
    <3> QED
      BY <3>1, <3>2 DEF PageInv
  <2>2. CASE Heard(t, [stream[t] EXCEPT !.state = "open"], SignedIn(t))
    <3>1. [stream[t] EXCEPT !.state = "open"] \in StreamRecords
      BY <1>2 DEF StreamRecords
    <3>2. SignedIn(t) \in BOOLEAN
      BY DEF SignedIn
    <3> QED
      BY <2>2, <3>1, <3>2, HeardLemma
  <2>3. ASSUME NEW end \in {"closed", "failed"}, UNCHANGED subscribed,
               stream' = [stream EXCEPT ![t] = [NoStream EXCEPT !.state = end]]
        PROVE  stream' \in [Tabs -> StreamRecords] /\ subscribed' \subseteq Tabs
    <3>1. [NoStream EXCEPT !.state = end] \in StreamRecords
      BY FewSmall DEF StreamRecords, NoStream
    <3> QED
      BY <2>3, <3>1 DEF PageInv
  <2> QED
    BY <2>1, <2>2, <2>3 DEF StreamAnswered
<1> QED
  BY <1>1, <1>3, RecordsSame DEF StoresInv, PageInv, server, history

LEMMA StoresReload ==
  ASSUME PageInv, NEW t \in Tabs, Reload(t)
  PROVE  StoresInv'
<1>1. /\ tab' = [tab EXCEPT ![t] = [user |-> {}, token |-> {}]]
      /\ stream' = [stream EXCEPT ![t] = NoStream]
      /\ subscribed' \subseteq subscribed /\ reused' \subseteq reused
      /\ UNCHANGED <<server, jar, restarts, history>>
  BY DEF Reload
<1>2. [user |-> {}, token |-> {}] \in PageRecords
  BY FewSmall DEF PageRecords
<1>3. tab' \in [Tabs -> PageRecords] /\ stream' \in [Tabs -> StreamRecords]
  BY <1>1, <1>2, IdleRecord DEF PageInv
<1> QED
  BY <1>1, <1>3, RecordsSame DEF StoresInv, PageInv, server, history

LEMMA StoresRestart ==
  ASSUME ServerInv, PageInv, Restart
  PROVE  StoresInv'
<1>1. /\ restarts < MaxRestarts /\ restarts' = restarts + 1
      /\ revived' = revived \cup (good' \ good)
      /\ UNCHANGED <<jar, tab, subscribed, reused, displaced>>
      /\ issued' = issued /\ good \subseteq good'
  BY RestartLemma DEF Restart
<1>2. restarts' \in 0 .. MaxRestarts
  BY <1>1, TabsConstants DEF PageInv
<1>3. stream' \in [Tabs -> StreamRecords]
  <2>1. \A t \in Tabs : [stream[t] EXCEPT !.state = "connecting"] \in StreamRecords
    BY DEF PageInv, StreamRecords
  <2>2. stream' = [t \in Tabs |-> IF stream[t].state = "open"
                     THEN [stream[t] EXCEPT !.state = "connecting"] ELSE stream[t]]
    BY DEF Restart, AfterEnd
  <2> QED
    BY <2>1, <2>2 DEF PageInv
<1> QED
  BY <1>1, <1>2, <1>3, RecordsSame DEF StoresInv, PageInv

(* What was displaced is still good, or withdrawn.                         *)
LEMMA HistoryGood ==
  ASSUME ServerInv, PageInv, Changes
  PROVE  /\ displaced' \subseteq good' /\ revived' \subseteq good'
         /\ \A k \in displaced : k \in good' => k \in displaced'
<1>1. ASSUME NEW ks, Withdraw(ks)
      PROVE  good' = good \ ks /\ displaced' = displaced \ ks /\ revived' = revived \ ks
  BY <1>1 DEF Withdraw
<1>2. ASSUME NEW u \in Users, NEW k, CloseSession(u, k)
      PROVE  good' = good /\ displaced' = displaced /\ revived' = revived
  BY <1>2 DEF CloseSession, Registry!Close, history
<1>3. ASSUME NEW u \in Users, Registry!Open(u, Fresh(u)), UNCHANGED history
      PROVE  good \subseteq good' /\ displaced' = displaced /\ revived' = revived
  BY <1>3 DEF Registry!Open, Registry!HandOut, history
<1> QED
  BY <1>1, <1>2, <1>3 DEF Changes, PageInv

LEMMA StoresElse ==
  ASSUME ServerInv, PageInv, [Next]_vars, Served \/ Elsewhere \/ Quiet \/ UNCHANGED vars
  PROVE  StoresInv' /\ UNCHANGED <<jar, page>> /\ (\A k \in displaced : k \in good' => k \in displaced')
<1>1. UNCHANGED <<jar, page, restarts>>
  BY DEF Served, Elsewhere, Quiet, LoginServed, LogoutServed, ApiServed,
         LogoutAfterRefusal, Click, Api, Logout, Login, vars
<1>2. /\ displaced' \subseteq good' /\ revived' \subseteq good'
      /\ \A k \in displaced : k \in good' => k \in displaced'
  <2>1. CASE Served \/ Elsewhere
    BY <2>1, ServedChanges, HistoryGood DEF PageInv, server, history
  <2>2. CASE Quiet \/ UNCHANGED vars
    <3>1. UNCHANGED <<server, history>>
      BY <2>2 DEF Quiet, ApiServed, LogoutAfterRefusal, Click, Api, Logout, Login, vars
    <3> QED
      BY <3>1 DEF PageInv, server, history
  <2> QED
    BY <2>1, <2>2
<1>3. /\ PageRecords \subseteq PageRecords' /\ StreamRecords \subseteq StreamRecords'
      /\ Few(issued) \subseteq Few(issued)'
  BY ServerStep, RecordsGrow
<1>4. /\ jar' \in Few(issued)' /\ tab' \in [Tabs -> PageRecords]'
      /\ stream' \in [Tabs -> StreamRecords]'
  BY <1>1, <1>3 DEF PageInv, page
<1>5. restarts' \in 0 .. MaxRestarts /\ subscribed' \subseteq Tabs /\ reused' \subseteq Tabs
  BY <1>1 DEF PageInv, page
<1>6. StoresInv'
  BY <1>2, <1>4, <1>5 DEF StoresInv
<1> QED
  BY <1>1, <1>2, <1>6

LEMMA PageStep == ServerInv /\ PageInv /\ CookieInv /\ [Next]_vars => PageInv'
<1> SUFFICES ASSUME ServerInv, PageInv, CookieInv, [Next]_vars PROVE PageInv'
  OBVIOUS
<1>1. StoresInv'
  <2>1. CASE Answered
    BY <2>1, StoresLogin, StoresLogout DEF Answered
  <2>2. CASE Streaming \/ Reloaded
    BY <2>2, StoresStreaming, StoresReload DEF Streaming, Reloaded
  <2> QED
    BY <2>1, <2>2, StoresRestart, StoresElse, StepKinds
<1>2. /\ req' \in [Requests -> RequestRecords]'
      /\ \A p \in Requests : req'[p].pc = "welcome" => req'[p].user # {}
  BY RequestStep
<1> QED
  BY <1>1, <1>2 DEF StoresInv, PageInv

-----------------------------------------------------------------------------
(* The bound of the logins.                                                *)

LEMMA FiniteLogins ==
  /\ IsFiniteSet(Logins) /\ Cardinality(Logins) \in Nat
  /\ \A r \in Requests : Cardinality({r}) = 1
  BY TabsConstants, FS_Subset, FS_CardinalityType, FS_Singleton DEF Logins

(* Only a login that is answered hands out a token, and it is one no more. *)
LEMMA HandedOut ==
  ASSUME ServerInv, PageInv, [Next]_vars, issued' # issued
  PROVE  \E r \in Logins, u \in Users : issued' = issued \cup {Fresh(u)} /\ Logins' = Logins \ {r}
<1>1. \A ks : Withdraw(ks) => issued' = issued
  BY DEF Withdraw, Registry!Revoke
<1>2. \A u : \A k : CloseSession(u, k) => issued' = issued
  BY DEF CloseSession, Registry!Close
<1>3. ~Elsewhere /\ ~Restart
  BY <1>1, <1>2, RestartLemma DEF Elsewhere
<1>4. \A r \in Requests : ~LogoutServed(r)
  BY <1>1, <1>2 DEF LogoutServed, server
<1>5. PICK r \in Requests : LoginServed(r)
  BY <1>3, <1>4, StepKinds, ServerQuiet DEF Served, server
<1>6. PICK u \in req[r].user : InsertSession(r, u)
  BY <1>1, <1>2, <1>5 DEF LoginServed, FindSession, DeleteSession, server
<1>7. /\ req[r].pc = "insert" /\ issued' = issued \cup {Fresh(u)}
      /\ req' = [req EXCEPT ![r].pc = "welcome", ![r].token = {Fresh(u)}]
  BY <1>6 DEF InsertSession, Registry!Open, Registry!HandOut
<1>8. u \in Users
  BY <1>6 DEF PageInv, RequestRecords, Few
<1>9. \A q \in Requests : req'[q].pc = IF q = r THEN "welcome" ELSE req[q].pc
  <2> DEFINE new == [req[r] EXCEPT !.pc = "welcome", !.token = {Fresh(u)}]
  <2>1. new.pc = "welcome"
    BY DEF PageInv, RequestRecords
  <2>2. req' = [req EXCEPT ![r] = new]
    BY <1>7 DEF PageInv
  <2> HIDE DEF new
  <2> QED
    BY <2>1, <2>2 DEF PageInv
<1>10. r \in Logins /\ Logins' = Logins \ {r}
  <2>1. \A q \in Requests : req'[q].pc \in LoginStages <=> req[q].pc \in LoginStages /\ q # r
    BY <1>9 DEF LoginStages
  <2> QED
    BY <1>7, <2>1 DEF Logins, LoginStages
<1> QED
  BY <1>7, <1>8, <1>10

(* The requests that log in: one more only if the bound allows it.         *)
LEMMA LoginsStay ==
  ASSUME ServerInv, PageInv, [Next]_vars
  PROVE  \/ Logins' \subseteq Logins
         \/ /\ Cardinality(issued) + Cardinality(Logins) < MaxLogins
            /\ \E r \in Requests : Logins' \subseteq Logins \cup {r}
<1>1. UNCHANGED req => Logins' \subseteq Logins
  BY DEF Logins
<1>2. CASE Reloaded \/ Restart
  <2>1. \A p \in Requests : req'[p].pc = req[p].pc \/ req'[p].pc = "idle"
    BY <1>2, RequestLosses
  <2> QED
    BY <2>1 DEF Logins, LoginStages
<1>3. ASSUME NEW r \in Requests, NEW q, Becomes(r, q)
      PROVE  /\ Logins' \subseteq Logins \cup {r}
             /\ \/ Logins' \subseteq Logins
                \/ Cardinality(issued) + Cardinality(Logins) < MaxLogins
  <2>1. \A p \in Requests : req'[p] = IF p = r THEN q ELSE req[p]
    BY <1>3 DEF Becomes, PageInv
  <2>2. \A p \in Requests : p # r => (req'[p].pc \in LoginStages => req[p].pc \in LoginStages)
    BY <2>1
  <2>3. req'[r].pc \in LoginStages => \/ req[r].pc \in LoginStages
                                      \/ Cardinality(issued) + Cardinality(Logins) < MaxLogins
    BY <1>3, <2>1 DEF Becomes
  <2> QED
    BY <2>2, <2>3 DEF Logins
<1> QED
  BY <1>1, <1>2, <1>3, RequestMoves

LEMMA BoundStep == ServerInv /\ PageInv /\ BoundInv /\ [Next]_vars => BoundInv'
<1> SUFFICES ASSUME ServerInv, PageInv, BoundInv, [Next]_vars PROVE BoundInv'
  OBVIOUS
<1>0. Cardinality(issued) \in Nat /\ MaxLogins \in Nat
  BY TabsConstants, FS_CardinalityType DEF ServerInv
<1>1. CASE issued' # issued
  <2>1. PICK r \in Logins, u \in Users : issued' = issued \cup {Fresh(u)} /\ Logins' = Logins \ {r}
    BY <1>1, HandedOut
  <2>2. Cardinality(issued') = Cardinality(issued) + 1
    BY <2>1, FreshIsNew
  <2>3. Cardinality(Logins') = Cardinality(Logins) - 1
    BY <2>1, FiniteLogins, FS_RemoveElement
  <2> QED
    BY <1>0, <2>2, <2>3, FiniteLogins DEF BoundInv
<1>2. CASE issued' = issued
  <2>1. CASE Logins' \subseteq Logins
    <3>1. Cardinality(Logins') <= Cardinality(Logins) /\ Cardinality(Logins') \in Nat
      BY <2>1, FiniteLogins, FS_Subset, FS_CardinalityType
    <3> QED
      BY <1>0, <1>2, <3>1, FiniteLogins DEF BoundInv
  <2>2. ASSUME Cardinality(issued) + Cardinality(Logins) < MaxLogins,
               NEW r \in Requests, Logins' \subseteq Logins \cup {r}
        PROVE  BoundInv'
    <3>1. /\ IsFiniteSet(Logins \cup {r})
          /\ Cardinality(Logins \cup {r}) = IF r \in Logins THEN Cardinality(Logins)
                                                            ELSE Cardinality(Logins) + 1
      BY FiniteLogins, FS_AddElement
    <3>2. IsFiniteSet(Logins') /\ Cardinality(Logins') <= Cardinality(Logins \cup {r})
      BY <2>2, <3>1, FS_Subset
    <3>3. Cardinality(Logins') \in Nat
      BY <3>2, FS_CardinalityType
    <3> QED
      BY <1>0, <1>2, <2>2, <3>1, <3>2, <3>3, FiniteLogins DEF BoundInv
  <2> QED
    BY <1>2, <2>1, <2>2, LoginsStay
<1> QED
  BY <1>1, <1>2

-----------------------------------------------------------------------------
(* Cookies.                                                                *)

(* The jar that a logout empties held the cookie of a session that is      *)
(* closed by now, or another's, which is displaced.                        *)
LEMMA CookieStep == ServerInv /\ PageInv /\ CookieInv /\ [Next]_vars => CookieInv'
<1> SUFFICES ASSUME ServerInv, PageInv, CookieInv, [Next]_vars PROVE CookieInv'
  OBVIOUS
<1>1. \A r \in Requests : req'[r].pc = "farewell" => req'[r].token \cap Steady' = {}
  BY RequestStep
<1>2. \A k \in issued : k \in Steady' => k \in Steady /\ k \in good'
  BY ServerStep DEF Steady
<1>3. \A t \in Tabs : tab[t].token \subseteq issued
  BY TokensIssued
(* It is enough to say what holds of each page by itself.                  *)
<1>4. ASSUME \A t \in Tabs :
               /\ tab'[t].token \cap Steady' \subseteq jar' \cup displaced'
               /\ tab'[t].user = {} => tab'[t].token \cap Steady' \subseteq displaced'
      PROVE  CookieInv'
  BY <1>1, <1>4 DEF CookieInv, SignedOutIsDead, SignedIn, Steady
<1>5. \A t \in Tabs :
        /\ tab[t].token \cap Steady' \subseteq jar \cup displaced
        /\ tab[t].user = {} => tab[t].token \cap Steady' \subseteq displaced
  BY <1>2, <1>3 DEF CookieInv, SignedOutIsDead, SignedIn, Steady
<1>6. CASE Served \/ Elsewhere \/ Quiet \/ UNCHANGED vars
  <2>1. jar' = jar /\ tab' = tab /\ (\A k \in displaced : k \in good' => k \in displaced')
    BY <1>6, StoresElse DEF page
  <2>2. \A k \in displaced : k \in Steady' => k \in displaced'
    BY <2>1 DEF Steady
  <2> QED
    BY <1>4, <1>5, <2>1, <2>2
<1>7. CASE Streaming \/ Restart
  <2>1. UNCHANGED <<jar, tab, displaced>>
    BY <1>7 DEF Streaming, StreamAnswered, StreamEnds, Restart, history
  <2> QED
    BY <1>4, <1>5, <2>1
<1>8. ASSUME NEW r \in Requests, StoreCookie(r), UNCHANGED <<server, revived>>
      PROVE  /\ displaced \subseteq displaced' /\ Steady' = Steady
             /\ \A t \in Tabs : tab[t].token \cap Steady' \subseteq jar' \cup displaced'
  <2>1. /\ displaced \subseteq displaced' /\ jar \cap Steady \subseteq jar' \cup displaced'
    BY <1>8, CookieLemma
  <2>2. Steady' = Steady
    BY <1>8 DEF Steady, server
  <2> QED
    BY <1>5, <2>1, <2>2
<1>9. ASSUME NEW r \in Requests, NEW t \in Tabs, LoginAnswered(r, t)
      PROVE  CookieInv'
  <2>1. /\ req[r].pc = "welcome" /\ StoreCookie(r) /\ UNCHANGED <<server, revived>>
        /\ tab' = [tab EXCEPT ![t] = [user |-> req[r].user, token |-> req[r].token]]
    BY <1>9 DEF LoginAnswered
  <2>2. \A v \in Tabs : tab'[v] = IF v = t THEN [user |-> req[r].user, token |-> req[r].token]
                                          ELSE tab[v]
    BY <2>1 DEF PageInv
  <2>3. req[r].user # {} /\ jar' = req[r].token
    BY <2>1, CookieLemma DEF PageInv
  <2>4. \A v \in Tabs : tab'[v].token \cap Steady' \subseteq jar' \cup displaced'
    BY <1>8, <2>1, <2>2, <2>3
  <2>5. \A v \in Tabs : tab'[v].user = {} => tab'[v].token \cap Steady' \subseteq displaced'
    BY <1>5, <1>8, <2>1, <2>2, <2>3
  <2> QED
    BY <1>4, <2>4, <2>5
<1>10. ASSUME NEW r \in Requests, NEW t \in Tabs, LogoutAnswered(r, t)
      PROVE  CookieInv'
  <2>1. /\ req[r].pc \in {"farewell", "failed"} /\ StoreCookie(r)
        /\ UNCHANGED <<server, revived>>
        /\ tab' = tab \/ tab' = [tab EXCEPT ![t].user = {}]
    BY <1>10 DEF LogoutAnswered
  <2>2. \A v \in Tabs : tab'[v].token = tab[v].token
    BY <2>1 DEF PageInv, PageRecords
  <2>3. jar' = {}
    BY <2>1, CookieLemma
  <2> QED
    BY <1>4, <1>8, <2>1, <2>2, <2>3
<1>11. ASSUME NEW r \in Requests, Forget(r)
      PROVE  CookieInv'
  <2>1. /\ StoreCookie(r) \/ UNCHANGED <<jar, displaced>>
        /\ tab' = tab /\ UNCHANGED <<server, revived>>
    BY <1>11 DEF Forget, page
  <2> QED
    BY <1>4, <1>5, <1>8, <2>1
<1>12. ASSUME NEW t \in Tabs, Reload(t)
      PROVE  CookieInv'
  <2>1. /\ tab' = [tab EXCEPT ![t] = [user |-> {}, token |-> {}]]
        /\ UNCHANGED <<jar, displaced>>
    BY <1>12 DEF Reload, history
  <2>2. \A v \in Tabs : tab'[v] = IF v = t THEN [user |-> {}, token |-> {}] ELSE tab[v]
    BY <2>1 DEF PageInv
  <2> QED
    BY <1>4, <1>5, <2>1, <2>2
<1> QED
  BY <1>6, <1>7, <1>9, <1>10, <1>11, <1>12, StepKinds DEF Answered, Reloaded

-----------------------------------------------------------------------------
(* Streams.                                                                *)

LEMMA StreamStep == ServerInv /\ PageInv /\ CookieInv /\ StreamInv /\ [Next]_vars => StreamInv'
<1> SUFFICES ASSUME ServerInv, PageInv, CookieInv, StreamInv, [Next]_vars PROVE StreamInv'
  OBVIOUS
<1>1. \A k \in issued : k \in Steady' => k \in Steady
  BY ServerStep
<1>2. /\ \A t \in Tabs : tab[t].token \subseteq issued
      /\ Watched \subseteq Tabs
  BY TokensIssued, TabsConstants
(* It is enough to say what holds of each page by itself.                  *)
<1> DEFINE Served1(t) == tab[t].user # {} /\ tab[t].token \subseteq Steady =>
                           \/ stream[t].state = "failed"
                           \/ /\ stream[t].state \notin {"none", "closed"}
                              /\ stream[t].token = tab[t].token
                              /\ stream[t].state = "open" => stream[t].heard
<1> DEFINE Followed(t) == t \in subscribed =>
                            stream[t].heard \/ stream[t].state \in {"closed", "failed"}
<1>3. \A t \in Watched \ reused : Served1(t) /\ Followed(t)
  BY DEF StreamInv, FirstUserIsServed, SignedIn, Steady
<1>4. ASSUME \A t \in Watched : t \notin reused' => Served1(t)' /\ Followed(t)'
      PROVE  StreamInv'
  BY <1>4 DEF StreamInv, FirstUserIsServed, SignedIn, Steady
<1>5. ASSUME NEW t \in Watched, t \notin reused,
             tab'[t].token = tab[t].token, tab'[t].user # {} => tab[t].user # {},
             stream'[t].token = stream[t].token, stream'[t].heard = stream[t].heard,
             t \in subscribed' => t \in subscribed,
             \/ stream'[t].state = stream[t].state
             \/ stream[t].state = "open" /\ stream'[t].state = "connecting"
      PROVE  Served1(t)' /\ Followed(t)'
  <2>1. Served1(t) /\ Followed(t)
    BY <1>3, <1>5
  <2>2. tab'[t].token \subseteq Steady' => tab[t].token \subseteq Steady
    BY <1>1, <1>2, <1>5
  <2> QED
    BY <1>5, <2>1, <2>2
<1> HIDE DEF Served1, Followed
<1>6. CASE Served \/ Elsewhere \/ Quiet \/ UNCHANGED vars
  <2>1. UNCHANGED <<tab, stream, subscribed, reused>>
    BY <1>6, StoresElse DEF page
  <2> QED
    BY <1>4, <1>5, <2>1
<1>7. CASE Restart
  <2>1. /\ UNCHANGED <<tab, subscribed, reused>>
        /\ stream' = [t \in Tabs |-> IF stream[t].state = "open"
                        THEN [stream[t] EXCEPT !.state = "connecting"] ELSE stream[t]]
    BY <1>7 DEF Restart, AfterEnd
  <2>2. \A t \in Tabs : /\ stream'[t].token = stream[t].token
                        /\ stream'[t].heard = stream[t].heard
                        /\ \/ stream'[t].state = stream[t].state
                           \/ stream[t].state = "open" /\ stream'[t].state = "connecting"
    BY <2>1 DEF PageInv, StreamRecords
  <2> QED
    BY <1>2, <1>4, <1>5, <2>1, <2>2
<1>8. ASSUME NEW r \in Requests, NEW t \in Tabs, LoginAnswered(r, t)
      PROVE  StreamInv'
  <2>1. /\ tab' = [tab EXCEPT ![t] = [user |-> req[r].user, token |-> req[r].token]]
        /\ Heard(t, Connected(t, req[r].token), TRUE)
        /\ reused' = (IF stream[t] = NoStream THEN reused ELSE reused \cup {t})
    BY <1>8 DEF LoginAnswered
  <2>2. req[r].token \in Few(issued)
    BY DEF PageInv, RequestRecords
  <2> DEFINE s == Connected(t, req[r].token)
  <2>3. /\ s \in StreamRecords
        /\ t \in Watched /\ stream[t].state = "none" =>
             s.state = "connecting" /\ s.token = req[r].token
    BY <2>2, ConnectedLemma
  <2>4. /\ \A v \in Tabs : v # t =>
             stream'[v] = stream[v] /\ (v \in subscribed' <=> v \in subscribed)
        /\ stream'[t].state = s.state /\ stream'[t].token = s.token
        /\ t \notin subscribed => (t \in subscribed' => stream'[t].heard)
    BY <2>1, <2>3, HeardLemma
  <2> HIDE DEF s
  <2>5. \A v \in Tabs : v # t => tab'[v] = tab[v] /\ (v \in reused' <=> v \in reused)
    BY <2>1 DEF PageInv
  <2>6. tab'[t].token = req[r].token
    BY <2>1 DEF PageInv
  <2>7. t \in Watched /\ t \notin reused' =>
          /\ stream[t].state = "none" /\ t \notin subscribed
    <3>1. stream[t] = NoStream \/ t \in reused'
      BY <2>1
    <3>2. NoStream.state = "none" /\ ~NoStream.heard
      BY DEF NoStream
    <3>3. t \in Watched /\ t \notin reused /\ stream[t] = NoStream => t \notin subscribed
      BY <1>3, <3>2 DEF Followed
    <3> QED
      BY <2>1, <3>1, <3>2, <3>3
  <2>8. t \in Watched /\ t \notin reused' => Served1(t)' /\ Followed(t)'
    BY <2>3, <2>4, <2>6, <2>7 DEF Served1, Followed
  <2>9. \A v \in Watched : v # t /\ v \notin reused' => Served1(v)' /\ Followed(v)'
    BY <1>2, <1>5, <2>4, <2>5
  <2> QED
    BY <1>4, <2>8, <2>9
<1>9. ASSUME NEW r \in Requests, Forget(r) \/ \E t \in Tabs : LogoutAnswered(r, t)
      PROVE  StreamInv'
  <2>1. /\ UNCHANGED <<stream, subscribed, reused>>
        /\ tab' = tab \/ \E t \in Tabs : tab' = [tab EXCEPT ![t].user = {}]
    BY <1>9 DEF Forget, LogoutAnswered, page
  <2>2. \A v \in Tabs : tab'[v].token = tab[v].token /\ (tab'[v].user # {} => tab[v].user # {})
    BY <2>1 DEF PageInv, PageRecords
  <2> QED
    BY <1>2, <1>4, <1>5, <2>1, <2>2
<1>10. ASSUME NEW t \in Tabs, StreamAnswered(t)
      PROVE  StreamInv'
  <2>1. stream[t].state = "connecting" /\ UNCHANGED <<server, tab, reused, revived>>
    BY <1>10 DEF StreamAnswered, history
  <2>2. Steady' = Steady
    BY <2>1 DEF Steady, server
  <2>3. CASE Heard(t, [stream[t] EXCEPT !.state = "open"], SignedIn(t))
    <3> DEFINE s == [stream[t] EXCEPT !.state = "open"]
    <3>1. /\ s \in StreamRecords /\ s.state = "open"
          /\ s.token = stream[t].token /\ s.heard = stream[t].heard
      BY DEF PageInv, StreamRecords
    <3>2. Heard(t, s, SignedIn(t)) /\ SignedIn(t) \in BOOLEAN
      BY <2>3 DEF SignedIn
    <3> HIDE DEF s
    <3>3. /\ \A v \in Tabs : v # t =>
               stream'[v] = stream[v] /\ (v \in subscribed' <=> v \in subscribed)
          /\ stream'[t].state = "open" /\ stream'[t].token = stream[t].token
          /\ t \in subscribed => stream'[t] = s
          /\ t \notin subscribed => (t \in subscribed' => stream'[t].heard)
          /\ SignedIn(t) /\ t \notin subscribed => stream'[t].heard
      BY <3>1, <3>2, HeardLemma
    <3>4. t \in Watched /\ t \notin reused => Served1(t)' /\ Followed(t)'
      BY <1>3, <2>1, <2>2, <3>1, <3>3 DEF Served1, Followed, SignedIn
    <3>5. \A v \in Watched : v # t /\ v \notin reused => Served1(v)' /\ Followed(v)'
      BY <1>2, <1>5, <2>1, <3>3
    <3> QED
      BY <1>4, <2>1, <3>4, <3>5
  <2>4. ASSUME NEW end \in {"closed", "failed"}, UNCHANGED subscribed,
               end = "closed" => ~(stream[t].token \subseteq good),
               stream' = [stream EXCEPT ![t] = [NoStream EXCEPT !.state = end]]
        PROVE  StreamInv'
    <3>1. stream'[t].state = end /\ \A v \in Tabs : v # t => stream'[v] = stream[v]
      BY <2>4 DEF PageInv, NoStream
    <3>2. end = "closed" => ~(stream[t].token \subseteq Steady)
      BY <2>4 DEF Steady
    <3>3. t \in Watched /\ t \notin reused => Served1(t)' /\ Followed(t)'
      BY <1>3, <2>1, <2>2, <3>1, <3>2 DEF Served1, Followed
    <3>4. \A v \in Watched : v # t /\ v \notin reused => Served1(v)' /\ Followed(v)'
      BY <1>2, <1>5, <2>1, <2>4, <3>1
    <3> QED
      BY <1>4, <2>1, <3>3, <3>4
  <2> QED
    BY <1>10, <2>3, <2>4 DEF StreamAnswered
<1>11. ASSUME NEW t \in Tabs, StreamEnds(t)
      PROVE  StreamInv'
  <2>1. /\ stream[t].state = "open" /\ stream' = [stream EXCEPT ![t].state = "connecting"]
        /\ UNCHANGED <<tab, subscribed, reused>>
    BY <1>11 DEF StreamEnds, AfterEnd
  <2>2. \A v \in Tabs : /\ stream'[v].token = stream[v].token
                        /\ stream'[v].heard = stream[v].heard
                        /\ \/ stream'[v].state = stream[v].state
                           \/ stream[v].state = "open" /\ stream'[v].state = "connecting"
    BY <2>1 DEF PageInv, StreamRecords
  <2> QED
    BY <1>2, <1>4, <1>5, <2>1, <2>2
<1>12. ASSUME NEW t \in Tabs, Reload(t)
      PROVE  StreamInv'
  <2>1. /\ tab' = [tab EXCEPT ![t] = [user |-> {}, token |-> {}]]
        /\ stream' = [stream EXCEPT ![t] = NoStream]
        /\ subscribed' = subscribed \ {t} /\ reused' = reused \ {t}
    BY <1>12 DEF Reload
  <2>2. \A v \in Tabs : v # t => tab'[v] = tab[v] /\ stream'[v] = stream[v]
    BY <2>1 DEF PageInv
  <2>3. tab'[t].user = {}
    BY <2>1 DEF PageInv
  <2>4. t \in Watched => Served1(t)' /\ Followed(t)'
    BY <2>1, <2>3 DEF Served1, Followed
  <2>5. \A v \in Watched : v # t /\ v \notin reused' => Served1(v)' /\ Followed(v)'
    BY <1>2, <1>5, <2>1, <2>2
  <2> QED
    BY <1>4, <2>4, <2>5
<1> QED
  BY <1>6, <1>7, <1>8, <1>9, <1>10, <1>11, <1>12, StepKinds DEF Answered, Streaming, Reloaded

-----------------------------------------------------------------------------
(* Theorems.                                                               *)

TabsInv == ServerInv /\ PageInv /\ BoundInv /\ CookieInv /\ StreamInv

LEMMA TabsInit == Init => TabsInv
<1> SUFFICES ASSUME Init PROVE TabsInv
  OBVIOUS
<1>1. current = [u \in Users |-> {}] /\ good = {} /\ issued = {} /\ Cardinality(issued) = 0
  BY FS_EmptySet DEF Init, Registry!Init
<1>2. ServerInv
  BY <1>1, FS_EmptySet DEF ServerInv, Steady
<1>3. PageInv
  <2>1. [user |-> {}, token |-> {}] \in PageRecords /\ {} \in Few(issued)
    BY FewSmall DEF PageRecords
  <2>2. restarts \in 0 .. MaxRestarts
    BY TabsConstants DEF Init
  <2> QED
    BY <2>1, <2>2, IdleRecord DEF Init, PageInv
<1>4. Logins = {}
  BY DEF Init, Logins, Idle, LoginStages
<1>5. BoundInv
  BY <1>1, <1>4, TabsConstants, FS_EmptySet DEF BoundInv
<1>6. CookieInv
  BY <1>1, IdleRecord DEF Init, CookieInv, SignedOutIsDead, Steady
<1>7. StreamInv
  BY TabsConstants DEF Init, StreamInv, FirstUserIsServed, SignedIn
<1> QED
  BY <1>2, <1>3, <1>5, <1>6, <1>7 DEF TabsInv

(* TabsInv holds in every reachable state.                                 *)
THEOREM TabsInductive == Spec => []TabsInv
<1>1. TabsInv /\ [Next]_vars => TabsInv'
  BY ServerStep, PageStep, BoundStep, CookieStep, StreamStep DEF TabsInv
<1> QED
  BY <1>1, TabsInit, PTL DEF Spec

LEMMA FewAreOptional == ASSUME NEW S PROVE Few(S) \subseteq Optional(S)
<1> SUFFICES ASSUME NEW X \in Few(S) PROVE Cardinality(X) <= 1
  BY DEF Few, Optional
<1>1. CASE X = {}
  BY <1>1, FS_EmptySet
<1>2. CASE X # {}
  <2>1. PICK x \in X : X = {x}
    BY <1>2 DEF Few
  <2>2. Cardinality({x}) = 1
    BY FS_Singleton
  <2> QED
    BY <2>1, <2>2
<1> QED
  BY <1>1, <1>2

(* Every variable keeps its type, a browser has one cookie, and no token   *)
(* is handed out beyond the bound or twice.                                *)
THEOREM TypeCorrect == Spec => []TypeOK
<1>1. TabsInv => TypeOK
  <2> SUFFICES ASSUME TabsInv PROVE TypeOK
    OBVIOUS
  <2>0. Cardinality(issued) \in Nat /\ MaxLogins \in Nat
    BY TabsConstants, FS_CardinalityType DEF TabsInv, ServerInv
  <2>1. Registry!TypeOK
    BY DEF TabsInv, ServerInv, Registry!TypeOK
  <2>2. issued \subseteq Token
    <3>1. Cardinality(issued) <= MaxLogins
      BY <2>0, FiniteLogins DEF TabsInv, BoundInv
    <3>2. 1 .. Cardinality(issued) \subseteq 1 .. MaxLogins
      BY <2>0, <3>1
    <3> QED
      BY <3>2 DEF TabsInv, ServerInv, Token
  <2>3. /\ Few(issued) \subseteq Optional(issued) /\ Few(Users) \subseteq Optional(Users)
        /\ Few(Tabs) \subseteq Optional(Tabs)
    BY FewAreOptional
  <2>4. /\ PageRecords \subseteq [user : Optional(Users), token : Optional(issued)]
        /\ StreamRecords \subseteq [state : {"none", "connecting", "open", "closed", "failed"},
                                    token : Optional(issued), heard : BOOLEAN]
        /\ RequestRecords \subseteq [pc : Stages, tab : Optional(Tabs), user : Optional(Users),
                                     token : Optional(issued)]
    BY <2>3 DEF PageRecords, StreamRecords, RequestRecords
  <2>5. /\ tab \in [Tabs -> [user : Optional(Users), token : Optional(issued)]]
        /\ stream \in [Tabs -> [state : {"none", "connecting", "open", "closed", "failed"},
                                token : Optional(issued), heard : BOOLEAN]]
        /\ req \in [Requests -> [pc : Stages, tab : Optional(Tabs), user : Optional(Users),
                                 token : Optional(issued)]]
    BY <2>4 DEF TabsInv, PageInv
  <2> QED
    BY <2>1, <2>2, <2>3, <2>5 DEF TabsInv, PageInv, TypeOK
<1> QED
  BY <1>1, TabsInductive, PTL

(* For any number of tabs, users, logins and restarts: an access token     *)
(* that a page keeps after its user signed out is dead, unless its cookie  *)
(* was displaced or a restart brought it back.                             *)
THEOREM SignedOutForGood == Spec => []SignedOutIsDead
<1>1. TabsInv => SignedOutIsDead
  BY DEF TabsInv, CookieInv
<1> QED
  BY <1>1, TabsInductive, PTL

(* For any number of tabs, users, logins and restarts: the first user of a *)
(* page is served by its stream while the session is good, and was never   *)
(* refused, unless an error of the server ended the stream.                *)
THEOREM FirstUserServed == Spec => []FirstUserIsServed
<1>1. TabsInv => FirstUserIsServed
  BY DEF TabsInv, StreamInv
<1> QED
  BY <1>1, TabsInductive, PTL

(* Whatever the tabs and other devices do, also when logins of an account  *)
(* overlap or fail half-way: no access token stays good whose session is   *)
(* gone from the table, where the next logout or login would look for it.  *)
THEOREM GoodIsRevocable == Spec => []Revocable
<1>1. TabsInv => Revocable
  BY DEF TabsInv, ServerInv, Revocable
<1> QED
  BY <1>1, TabsInductive, PTL

-----------------------------------------------------------------------------
(* The browser's server is a session registry.                             *)

LEMMA ChangesRegistry ==
  ASSUME ServerInv, Changes
  PROVE  Registry!Next
<1>1. ASSUME NEW ks, Withdraw(ks) PROVE Registry!Next
  BY <1>1 DEF Withdraw, Registry!Next
<1>2. ASSUME NEW u \in Users, NEW k, CloseSession(u, k) PROVE Registry!Next
  <2>1. k \in current[u] /\ Registry!Close(u, k)
    BY <1>2 DEF CloseSession, Registry!Close, Registry!Refused
  <2> QED
    BY <2>1 DEF Registry!Next
<1>3. ASSUME NEW u \in Users, Registry!Open(u, Fresh(u)) PROVE Registry!Next
  <2>1. Fresh(u) \in issued'
    BY <1>3 DEF Registry!Open, Registry!HandOut
  <2> QED
    BY <1>3, <2>1 DEF Registry!Next
<1> QED
  BY <1>1, <1>2, <1>3 DEF Changes

(* Whatever the tabs do, a step of the browser's world is a step of the    *)
(* registry or none: the server that the tabs talk to does nothing that    *)
(* the registry does not promise.                                          *)
THEOREM BrowserUsesRegistry == Spec => Registry!Spec
<1>1. Init => Registry!Init
  BY DEF Init
<1>2. TabsInv /\ [Next]_vars => [Registry!Next]_Registry!registry
  <2> SUFFICES ASSUME TabsInv, [Next]_vars PROVE [Registry!Next]_Registry!registry
    OBVIOUS
  <2>1. Changes \/ Registry!Restart \/ UNCHANGED server
    BY ServedChanges, ServerQuiet, StepKinds DEF TabsInv, Restart
  <2> QED
    BY <2>1, ChangesRegistry DEF TabsInv, server, Registry!registry, Registry!Next
<1> QED
  BY <1>1, <1>2, TabsInductive, PTL DEF Spec, Registry!Spec
=============================================================================
