----------------------------- MODULE ClientTabs -----------------------------
(***************************************************************************)
(* The browser side of a login: the tabs of one browser, each with the     *)
(* stores of its page (who is signed in, the access token, the SSE         *)
(* stream), and the jar with the REFRESH-TOKEN cookie that they share.     *)
(* The server they talk to is SessionRegistry: a session is known here by  *)
(* its access token, and its cookie is written as the same token.  No page *)
(* sends a refresh token as a bearer token.                                *)
(*                                                                         *)
(* A request is answered in two steps, at the server and in the page.  A   *)
(* page that gets 401 asks for a refresh, which the server refuses as well *)
(* (the request carries no bearer token), and then logs out.               *)
(***************************************************************************)
EXTENDS FiniteSets, Naturals

CONSTANTS
  Users, Tabs,
  Watched,      \* bound: tabs whose stream is followed; streams change
                \* nothing but themselves
  Requests,     \* requests of the browser that may be in flight
  MaxLogins,    \* bound: logins
  MaxRestarts   \* bound: restarts of the server

ASSUME TabsConstants ==
  /\ MaxLogins \in Nat /\ MaxRestarts \in Nat
  /\ IsFiniteSet(Requests) /\ Watched \subseteq Tabs

VARIABLES
  current, good, issued,   \* the server: see SessionRegistry
  jar,        \* the REFRESH-TOKEN cookie
  tab,        \* tab -> currentUser and accessToken of its page
  stream,     \* tab -> its EventSource and whether events of it are heard
  subscribed, \* tabs whose page has "users.refresh" in its subscriptions
  req,        \* request -> where it is
  restarts,   \* how often the server was restarted
  displaced,  \* history: good tokens whose cookie left the jar, but for the
              \* logout that was to close their session
  revived,    \* history: good tokens that were refused before a restart
  reused      \* history: tabs whose page was logged in more than once

server == <<current, good, issued>>
page == <<tab, stream, subscribed, reused>>
history == <<displaced, revived>>
vars == <<server, jar, page, req, restarts, history>>

Registry == INSTANCE SessionRegistry WITH refresh <- {}

Token == [user : Users, n : 1 .. MaxLogins]
Optional(S) == {x \in SUBSET S : Cardinality(x) <= 1}

LoginStages == {"login", "delete", "insert"}
Answers == {"welcome", "refused", "farewell", "failed"}
Stages == {"idle", "api", "logout"} \cup LoginStages \cup Answers

(* A tab that was reloaded no longer waits for the request.                *)
Idle == [pc |-> "idle", tab |-> {}, user |-> {}, token |-> {}]

(* The answers a request may wait for, and the token or cookie it carries. *)
Sent(r, stage, t, u, k) ==
  /\ req[r].pc = "idle"
  /\ req' = [req EXCEPT ![r] = [pc |-> stage, tab |-> {t}, user |-> u, token |-> k]]

Goto(r, stage) == req' = [req EXCEPT ![r].pc = stage]
End(r) == req' = [req EXCEPT ![r] = Idle]

SignedIn(t) == tab[t].user # {}

NoStream == [state |-> "none", token |-> {}, heard |-> FALSE]

Init ==
  /\ Registry!Init
  /\ jar = {} /\ restarts = 0 /\ displaced = {} /\ revived = {}
  /\ reused = {} /\ subscribed = {}
  /\ tab = [t \in Tabs |-> [user |-> {}, token |-> {}]]
  /\ stream = [t \in Tabs |-> NoStream]
  /\ req = [r \in Requests |-> Idle]

-----------------------------------------------------------------------------
(* The server.                                                             *)

Fresh(u) == [user |-> u, n |-> Cardinality(issued) + 1]

Withdraw(ks) ==
  /\ good' = good \ ks /\ Registry!Revoke
  /\ displaced' = displaced \ ks /\ revived' = revived \ ks

CloseSession(u, k) == Registry!Close(u, k) /\ UNCHANGED history

(* A login withdraws and closes the session it finds and then opens its    *)
(* own, whatever another login did meanwhile.  Two sessions, a session     *)
(* that is gone, or a failure of the database is an exception.             *)
FindSession(r, u) ==
  /\ req[r].pc = "login"
  /\ \/ /\ current[u] = {} /\ Goto(r, "insert")
        /\ UNCHANGED <<server, history>>
     \/ \E k \in current[u] :
          /\ current[u] = {k} /\ Withdraw({k})
          /\ req' = [req EXCEPT ![r].pc = "delete", ![r].token = {k}]

DeleteSession(r, u) ==
  /\ req[r].pc = "delete"
  /\ \E k \in req[r].token : CloseSession(u, k)
  /\ req' = [req EXCEPT ![r].pc = "insert", ![r].token = {}]

InsertSession(r, u) ==
  /\ req[r].pc = "insert"
  /\ Registry!Open(u, Fresh(u)) /\ UNCHANGED history
  /\ req' = [req EXCEPT ![r].pc = "welcome", ![r].token = {Fresh(u)}]

LoginServed(r) ==
  /\ \/ \E u \in req[r].user :
          FindSession(r, u) \/ DeleteSession(r, u) \/ InsertSession(r, u)
     \/ req[r].pc \in LoginStages /\ End(r) /\ UNCHANGED <<server, history>>
  /\ UNCHANGED <<jar, page, restarts>>

ApiServed(r) ==
  /\ req[r].pc = "api"
  /\ IF req[r].token \subseteq good THEN End(r) ELSE Goto(r, "refused")
  /\ UNCHANGED <<server, jar, page, restarts, history>>

(* Without a cookie there is nothing to invalidate and all is well; a      *)
(* cookie without a row is an exception, as is a failure of the database.  *)
LogoutServed(r) ==
  /\ req[r].pc = "logout"
  /\ \/ /\ req[r].token = {}
        /\ Goto(r, "farewell") /\ UNCHANGED <<server, history>>
     \/ /\ req[r].token # {}
        /\ Goto(r, "failed") /\ UNCHANGED <<server, history>>
     \/ \E k \in req[r].token :
          \/ k \in current[k.user] \cap good /\ Withdraw({k}) /\ UNCHANGED req
          \/ CloseSession(k.user, k) /\ Goto(r, "farewell")
  /\ UNCHANGED <<jar, page, restarts>>

(* Tokens expire; another device or an administrator ends a session.       *)
Elsewhere ==
  /\ \/ \E k \in good : Withdraw({k})
     \/ \E u \in Users : \E k \in current[u] : CloseSession(u, k)
  /\ UNCHANGED <<jar, page, req, restarts>>

-----------------------------------------------------------------------------
(* Requests of a page.                                                     *)

(* The login form is there while nobody is signed in.                      *)
Login(r, t, u) ==
  /\ ~SignedIn(t)
  /\ Cardinality(issued) + Cardinality({q \in Requests : req[q].pc \in LoginStages}) < MaxLogins
  /\ Sent(r, "login", t, {u}, {})
  /\ UNCHANGED <<server, jar, page, restarts, history>>

Api(r, t) ==
  /\ SignedIn(t)
  /\ Sent(r, "api", t, {}, tab[t].token)
  /\ UNCHANGED <<server, jar, page, restarts, history>>

(* The cookie travels with the request, whichever tab it came from.        *)
Cookie == jar

Logout(r, t) ==
  /\ SignedIn(t)
  /\ Sent(r, "logout", t, {}, Cookie)
  /\ UNCHANGED <<server, jar, page, restarts, history>>

(* 401: the refresh was refused too.                                       *)
LogoutAfterRefusal(r) ==
  /\ req[r].pc = "refused"
  /\ req' = [req EXCEPT ![r].pc = "logout", ![r].token = Cookie]
  /\ UNCHANGED <<server, jar, page, restarts, history>>

-----------------------------------------------------------------------------
(* Answers.                                                                *)

(* mutant: the new cookie has another path and is kept beside the old one *)
JarBoth(k) == jar \cup k

(* mutant: without withCredentials the browser drops the cookie of a login *)
JarKeptAtLogin(k) == jar

JarAfterLogin(k) == k

(* connect: only if the store knows of no stream, open or on its way.      *)
Connected(t, k) ==
  IF t \in Watched /\ stream[t].state \in {"none", "closed", "failed"}
    THEN [state |-> "connecting", token |-> k, heard |-> FALSE] ELSE stream[t]

(* subscribe: once for a name, whichever stream the page has by then.      *)
Heard(t, s, signedIn) ==
  IF signedIn /\ s.state = "open" /\ t \notin subscribed
    THEN stream' = [stream EXCEPT ![t] = [s EXCEPT !.heard = TRUE]]
         /\ subscribed' = subscribed \cup {t}
    ELSE stream' = [stream EXCEPT ![t] = s] /\ UNCHANGED subscribed

(* mutant: the handler that deletes the cookie runs after the one that throws *)
JarKept == jar

(* The cookie is deleted before the session is looked for.                 *)
JarAfterFailure == {}

JarAfter(r) ==
  CASE req[r].pc = "welcome" -> JarAfterLogin(req[r].token)
    [] req[r].pc = "farewell" -> {}
    [] req[r].pc = "failed" -> JarAfterFailure
    [] OTHER -> jar

StoreCookie(r) ==
  /\ jar' = JarAfter(r)
  /\ displaced' = displaced \cup
       ((good \cap (jar \ JarAfter(r))) \
          (IF req[r].pc = "farewell" THEN req[r].token ELSE {}))

LoginAnswered(r, t) ==
  /\ req[r].pc = "welcome" /\ t \in req[r].tab
  /\ StoreCookie(r)
  /\ tab' = [tab EXCEPT ![t] = [user |-> req[r].user, token |-> req[r].token]]
  /\ Heard(t, Connected(t, req[r].token), TRUE)
  /\ reused' = IF stream[t] = NoStream THEN reused ELSE reused \cup {t}
  /\ End(r)
  /\ UNCHANGED <<server, restarts, revived>>

(* Only currentUser is cleared.                                            *)
LogoutAnswered(r, t) ==
  /\ req[r].pc \in {"farewell", "failed"} /\ t \in req[r].tab
  /\ StoreCookie(r)
  /\ tab' = IF req[r].pc = "failed" THEN tab ELSE [tab EXCEPT ![t].user = {}]
  /\ End(r)
  /\ UNCHANGED <<server, stream, subscribed, reused, restarts, revived>>

(* Nobody waits for the answer any more; its headers may have come before  *)
(* the page was loaded again, and then the browser keeps its cookie.       *)
Forget(r) ==
  /\ req[r].pc \in Answers /\ req[r].tab = {}
  /\ StoreCookie(r) \/ UNCHANGED <<jar, displaced>>
  /\ End(r)
  /\ UNCHANGED <<server, page, restarts, revived>>

-----------------------------------------------------------------------------
(* The stream of a page.                                                   *)

(* The headers of the first attempt are those of every later one.  Any     *)
(* answer but 200 closes the stream for good: the filter's 401 ("closed")  *)
(* and an error of the server, of its database for one ("failed").         *)
StreamAnswered(t) ==
  /\ stream[t].state = "connecting"
  /\ \/ /\ stream[t].token \subseteq good
        /\ Heard(t, [stream[t] EXCEPT !.state = "open"], SignedIn(t))
     \/ \E end \in {"closed", "failed"} :
          /\ end = "closed" => ~(stream[t].token \subseteq good)
          /\ stream' = [stream EXCEPT ![t] = [NoStream EXCEPT !.state = end]]
          /\ UNCHANGED subscribed
  /\ UNCHANGED <<server, jar, tab, reused, req, restarts, history>>

(* mutant: a stream that ends is not opened again *)
AfterEndClosed == "closed"

AfterEnd == "connecting"

(* The emitter times out, the network fails.                               *)
StreamEnds(t) ==
  /\ stream[t].state = "open"
  /\ stream' = [stream EXCEPT ![t].state = AfterEnd]
  /\ UNCHANGED <<server, jar, tab, subscribed, reused, req, restarts, history>>

(* Every connection is lost, and the requests with them; an answer that    *)
(* comes through is one that came before.                                  *)
Restart ==
  /\ restarts < MaxRestarts
  /\ restarts' = restarts + 1
  /\ Registry!Restart /\ revived' = revived \cup (good' \ good)
  /\ req' = [r \in Requests |-> Idle]
  /\ stream' = [t \in Tabs |-> IF stream[t].state = "open"
                  THEN [stream[t] EXCEPT !.state = AfterEnd] ELSE stream[t]]
  /\ UNCHANGED <<jar, tab, subscribed, reused, displaced>>

(* The stores are in memory, and GET /auth/me carries no bearer token: a   *)
(* page that is loaded again has nobody signed in.                         *)
Reload(t) ==
  /\ tab' = [tab EXCEPT ![t] = [user |-> {}, token |-> {}]]
  /\ stream' = [stream EXCEPT ![t] = NoStream]
  /\ subscribed' = subscribed \ {t} /\ reused' = reused \ {t}
  /\ req' = [r \in Requests |-> [req[r] EXCEPT !.tab = @ \ {t}]]
  /\ UNCHANGED <<server, jar, restarts, history>>

-----------------------------------------------------------------------------
Answer(r) ==
  \/ LoginServed(r) \/ ApiServed(r) \/ LogoutServed(r)
  \/ LogoutAfterRefusal(r) \/ Forget(r)
  \/ \E t \in Tabs : LoginAnswered(r, t) \/ LogoutAnswered(r, t)

Leave(r) ==
  /\ req[r].pc \in {"refused", "logout", "farewell", "failed"}
  /\ LogoutAfterRefusal(r) \/ LogoutServed(r) \/ \E t \in req[r].tab : LogoutAnswered(r, t)

Click(r, t) == Api(r, t) \/ Logout(r, t) \/ \E u \in Users : Login(r, t, u)

Next ==
  \/ \E r \in Requests : Answer(r) \/ \E t \in Tabs : Click(r, t)
  \/ \E t \in Tabs : StreamAnswered(t) \/ StreamEnds(t) \/ Reload(t)
  \/ Elsewhere \/ Restart

Spec == Init /\ [][Next]_vars

(* A page that is refused logs out, and its requests are answered.         *)
FairSpec == Spec /\ \A r \in Requests : WF_vars(Leave(r))

-----------------------------------------------------------------------------
(* Properties.                                                             *)

(* Every variable keeps its type, and the jar holds one cookie.            *)
TypeOK ==
  /\ Registry!TypeOK /\ issued \subseteq Token
  /\ jar \in Optional(issued) /\ displaced \subseteq good /\ revived \subseteq good
  /\ restarts \in 0 .. MaxRestarts
  /\ tab \in [Tabs -> [user : Optional(Users), token : Optional(issued)]]
  /\ stream \in [Tabs -> [state : {"none", "connecting", "open", "closed", "failed"},
                          token : Optional(issued), heard : BOOLEAN]]
  /\ req \in [Requests -> [pc : Stages, tab : Optional(Tabs), user : Optional(Users),
                           token : Optional(issued)]]
  /\ subscribed \subseteq Tabs /\ reused \subseteq Tabs

(* The access token a page keeps after its user signed out is dead, unless *)
(* a restart brought it back, or its cookie had left the jar before: with  *)
(* the answer to another login or to a late logout, of any page, or to a   *)
(* logout that failed.  Then a logout closes another session, or none.     *)
SignedOutIsDead ==
  \A t \in Tabs : ~SignedIn(t) => tab[t].token \cap good \subseteq displaced \cup revived

(* Until a page is logged in a second time, its user is served: while the  *)
(* session is good, and was never refused, the stream carries its token,   *)
(* is given up only after an error of the server, and is heard once it is  *)
(* open.                                                                   *)
FirstUserIsServed ==
  \A t \in Watched \ reused : SignedIn(t) /\ tab[t].token \subseteq good \ revived =>
    \/ stream[t].state = "failed"
    \/ /\ stream[t].state \notin {"none", "closed"}
       /\ stream[t].token = tab[t].token
       /\ stream[t].state = "open" => stream[t].heard

(* A tab is not refused for ever: a page that keeps getting 401 gets back  *)
(* to the login form, also when the logout it tries fails.                 *)
RefusedSignsOut ==
  \A t \in Tabs :
    []<>(\E r \in Requests : req[r].pc = "refused" /\ t \in req[r].tab) => []<>(~SignedIn(t))
=============================================================================
