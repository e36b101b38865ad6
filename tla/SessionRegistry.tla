--------------------------- MODULE SessionRegistry ---------------------------
(***************************************************************************)
(* What the login sessions promise, without clock, blacklist or requests:  *)
(* the access token of a session is refused before the session is replaced *)
(* or closed, and no token the server refuses is accepted again, but for a *)
(* restart.  Refresh tokens are accepted like access tokens and belong to  *)
(* no session: they stay good until they expire, also after a logout.      *)
(*                                                                         *)
(* JwtSessions implements this registry as long as requests do not         *)
(* overlap; ClientTabs uses it as the server the browser talks to.         *)
(***************************************************************************)
CONSTANT Users

VARIABLES
  current,   \* account -> access tokens of its sessions
  good,      \* tokens the server accepts as bearer tokens
  issued,    \* access tokens ever handed out
  refresh    \* refresh tokens ever handed out

registry == <<current, good, issued, refresh>>

Init ==
  /\ current = [u \in Users |-> {}]
  /\ good = {} /\ issued = {} /\ refresh = {}

(* Tokens handed out are good, unless the access token equals one that was *)
(* revoked within the same second.                                         *)
HandOut(t) ==
  /\ issued' = issued \cup {t} /\ refresh \subseteq refresh'
  /\ good' \in {good \cup s : s \in SUBSET ({t} \cup (refresh' \ refresh))}

(* A login: it opens a session whatever sessions there are.                *)
Open(u, t) ==
  /\ t.user = u
  /\ current' = [current EXCEPT ![u] = @ \cup {t}]
  /\ HandOut(t)

Refused(u) == current[u] \ good

(* A rotation.                                                             *)
Rotate(u, old, t) ==
  /\ old \in Refused(u) /\ t.user = u
  /\ current' = [current EXCEPT ![u] = (@ \ {old}) \cup {t}]
  /\ HandOut(t)

(* A logout or a role change, or the first half of a login.                *)
Close(u, t) ==
  /\ t \in Refused(u)
  /\ current' = [current EXCEPT ![u] = @ \ {t}]
  /\ UNCHANGED <<good, issued, refresh>>

(* Tokens that are blacklisted, expire, or lose their account.             *)
Revoke ==
  /\ good' \subseteq good
  /\ UNCHANGED <<current, issued, refresh>>

(* The blacklist is in memory.                                             *)
Restart ==
  /\ good' \in {good \cup s : s \in SUBSET (issued \cup refresh)}
  /\ UNCHANGED <<current, issued, refresh>>

Next ==
  \/ \E u \in Users : \E t \in issued' :
       Open(u, t) \/ \E old \in current[u] : Rotate(u, old, t)
  \/ \E u \in Users : \E t \in current[u] : Close(u, t)
  \/ Revoke \/ Restart

Spec == Init /\ [][Next]_registry

-----------------------------------------------------------------------------
(* Every variable keeps its type, and a session is its account's own.      *)
TypeOK ==
  /\ current \in [Users -> SUBSET issued]
  /\ good \subseteq issued \cup refresh
  /\ \A u \in Users : \A t \in current[u] : t.user = u

(* One session an account.                                                 *)
OneSession == \A u \in Users : \A s, t \in current[u] : s = t
=============================================================================
