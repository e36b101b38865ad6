---------------------------- MODULE BinaryUpload ----------------------------
(***************************************************************************)
(* The upload of a file: BasicBinaryContentService.create inserts a row in *)
(* a transaction of its own and hands the bytes to the storage.  The local *)
(* storage writes them later, in a pool thread, with retries; S3 writes    *)
(* them on the spot.  The status of the row is set by the two callbacks on *)
(* the future that put returns, and a callback runs where it happens to:   *)
(* in the request, if the future is already completed when the callback is *)
(* registered, and in the pool thread that completes the future otherwise. *)
(* Every transaction holds one of the pooled database connections: the     *)
(* caller's keeps its own while create waits for a second one.             *)
(***************************************************************************)
EXTENDS FiniteSets, Naturals

CONSTANTS
  Uploads,       \* calls of create
  Storages,      \* values of discodeit.storage.type: "local", "s3"
  MaxAttempts,   \* @Retryable(maxAttempts)
  PoolSize,      \* threads of propagatingExecutor
  MaxConnections,  \* connections of the data source
  MaxRestarts    \* bound: restarts of the server

ASSUME UploadConstants ==
  /\ Storages \subseteq {"local", "s3"}
  /\ MaxAttempts \in Nat \ {0} /\ PoolSize \in Nat \ {0}
  /\ MaxConnections \in Nat \ {0} /\ MaxRestarts \in Nat

VARIABLES
  storage,    \* the storage the server was started with
  request,    \* the thread that called create
  inTx,       \* status of the row as its transaction sees it
  row,        \* status of the committed row
  task,       \* put in the pool, up to the completion of its future
  attempts,   \* attempts of put made
  file,       \* the file in the storage
  accept,     \* the callback of thenAccept and the future it returns
  rescue,     \* the callback of exceptionally
  missed,     \* history: uploads whose status was set before the row was there
  starved,    \* history: uploads whose status update got no connection
  restarts

vars == <<storage, request, inTx, row, task, attempts, file, accept, rescue,
          missed, starved, restarts>>

Requests == {"idle", "called", "saved", "accepted", "registered", "committed", "linked",
             "abandoned", "failed"}
Statuses == {"none", "WAITING", "SUCCESS", "FAILED"}
Tasks == {"none", "queued", "running", "backoff", "recover", "ok", "error", "lost"}
Files == {"none", "partial", "full"}
Runners == {"nobody", "request", "pool"}
Callback == [pc : {"unset", "waiting", "update", "tell", "done", "unsent", "error",
                   "skipped", "lost"},
             by : Runners]

Unset == [pc |-> "unset", by |-> "nobody"]

-----------------------------------------------------------------------------
Init ==
  /\ storage \in Storages
  /\ request = [u \in Uploads |-> "idle"]
  /\ inTx = [u \in Uploads |-> "none"] /\ row = [u \in Uploads |-> "none"]
  /\ task = [u \in Uploads |-> "none"] /\ attempts = [u \in Uploads |-> 0]
  /\ file = [u \in Uploads |-> "none"]
  /\ accept = [u \in Uploads |-> Unset] /\ rescue = [u \in Uploads |-> Unset]
  /\ missed = {} /\ starved = {} /\ restarts = 0

Future(u) == IF task[u] \in {"ok", "error"} THEN task[u] ELSE "pending"

Running(cb, by) == cb.pc \in {"update", "tell"} /\ cb.by = by
RequestBusy(u) == Running(accept[u], "request") \/ Running(rescue[u], "request")
OnThread(u) ==
  \/ task[u] \in {"running", "backoff", "recover"}
  \/ Running(accept[u], "pool") \/ Running(rescue[u], "pool")
Busy == Cardinality({u \in Uploads : OnThread(u)})

-----------------------------------------------------------------------------
(* The request: create inside the transaction of its caller.               *)

Callbacks == <<accept, rescue, missed, starved>>

(* Connections held: the caller's, and in create one more.                 *)
InCreate == {"saved", "accepted", "registered"}
InCaller == {"called", "committed"} \cup InCreate
Free == MaxConnections - Cardinality({u \in Uploads : request[u] \in InCaller})
                       - Cardinality({u \in Uploads : request[u] \in InCreate})

(* The caller's transaction, up to its call of create.                     *)
Call(u) ==
  /\ request[u] = "idle" /\ Free > 0
  /\ request' = [request EXCEPT ![u] = "called"]
  /\ UNCHANGED <<storage, inTx, row, task, attempts, file, Callbacks, restarts>>

(* mutant: a caller waits for its second connection without limit *)
GivesUpNever == FALSE

(* connectionTimeout: whoever waits for a connection gets an exception.    *)
GivesUp == Free = 0

CreateTimesOut(u) ==
  /\ request[u] = "called" /\ GivesUp
  /\ request' = [request EXCEPT ![u] = "failed"]
  /\ UNCHANGED <<storage, inTx, row, task, attempts, file, Callbacks, restarts>>

(* INSERT, then put: submitted to the pool, or done here.                  *)
SaveLocal(u) ==
  /\ storage = "local" /\ request[u] = "called" /\ Free > 0
  /\ request' = [request EXCEPT ![u] = "saved"]
  /\ inTx' = [inTx EXCEPT ![u] = "WAITING"]
  /\ task' = [task EXCEPT ![u] = "queued"]
  /\ UNCHANGED <<storage, row, attempts, file, Callbacks, restarts>>

SaveS3(u) ==
  /\ storage = "s3" /\ request[u] = "called" /\ Free > 0
  /\ request' = [request EXCEPT ![u] = "saved"]
  /\ inTx' = [inTx EXCEPT ![u] = "WAITING"]
  /\ task' = [task EXCEPT ![u] = "ok"]
  /\ attempts' = [attempts EXCEPT ![u] = 1]
  /\ file' = [file EXCEPT ![u] = "full"]
  /\ UNCHANGED <<storage, row, Callbacks, restarts>>

(* mutant: the exception is logged, and the row kept *)
RowAfterS3Error(u) == [row EXCEPT ![u] = "SUCCESS"]

(* putObject threw: create throws, and both transactions are rolled back. *)
RowRolledBack(u) == row

SaveS3Fails(u) ==
  /\ storage = "s3" /\ request[u] = "called" /\ Free > 0
  /\ request' = [request EXCEPT ![u] = "failed"]
  /\ attempts' = [attempts EXCEPT ![u] = 1]
  /\ row' = RowRolledBack(u)
  /\ UNCHANGED <<storage, inTx, task, file, Callbacks, restarts>>

(* thenAccept on the future of put.                                        *)
Accepting(u, by) ==
  CASE Future(u) = "ok" -> [pc |-> "update", by |-> by]
    [] Future(u) = "error" -> [pc |-> "error", by |-> by]
    [] OTHER -> [pc |-> "waiting", by |-> "nobody"]

RegisterAccept(u) ==
  /\ request[u] = "saved"
  /\ request' = [request EXCEPT ![u] = "accepted"]
  /\ accept' = [accept EXCEPT ![u] = Accepting(u, "request")]
  /\ UNCHANGED <<storage, inTx, row, task, attempts, file, rescue, missed, starved, restarts>>

(* mutant: exceptionally is forgotten *)
RescuingNothing(outcome, by) ==
  IF outcome \in {"done", "unsent", "error"} THEN [pc |-> "skipped", by |-> by]
  ELSE [pc |-> "waiting", by |-> "nobody"]

(* exceptionally on the future of thenAccept.                              *)
Rescuing(outcome, by) ==
  CASE outcome \in {"unsent", "error"} -> [pc |-> "update", by |-> by]
    [] outcome = "done" -> [pc |-> "skipped", by |-> by]
    [] OTHER -> [pc |-> "waiting", by |-> "nobody"]

RegisterExceptionally(u) ==
  /\ request[u] = "accepted" /\ ~RequestBusy(u)
  /\ request' = [request EXCEPT ![u] = "registered"]
  /\ rescue' = [rescue EXCEPT ![u] = Rescuing(accept[u].pc, "request")]
  /\ UNCHANGED <<storage, inTx, row, task, attempts, file, accept, missed, starved, restarts>>

(* The commit of REQUIRES_NEW.                                             *)
Committed(u) == [row EXCEPT ![u] = inTx[u]]

Commit(u) ==
  /\ request[u] = "registered" /\ ~RequestBusy(u)
  /\ request' = [request EXCEPT ![u] = "committed"]
  /\ row' = Committed(u)
  /\ UNCHANGED <<storage, inTx, task, attempts, file, Callbacks, restarts>>

(* The transaction of the caller: it commits a reference to the row, or it *)
(* is rolled back and leaves the row without an owner.                     *)
CallerEnds(u) ==
  /\ request[u] = "committed"
  /\ \E outcome \in {"linked", "abandoned"} :
       request' = [request EXCEPT ![u] = outcome]
  /\ UNCHANGED <<storage, inTx, row, task, attempts, file, Callbacks, restarts>>

-----------------------------------------------------------------------------
(* The pool thread: put with its retries, then whatever waits for it.      *)

(* The two callbacks once put has completed.                               *)
Completed(u, outcome) ==
  /\ task' = [task EXCEPT ![u] = outcome]
  /\ accept' = [accept EXCEPT ![u] =
       IF accept[u].pc # "waiting" THEN @
       ELSE [pc |-> IF outcome = "ok" THEN "update" ELSE "error", by |-> "pool"]]
  /\ rescue' = [rescue EXCEPT ![u] =
       IF rescue[u].pc = "waiting" /\ outcome = "error" /\ accept[u].pc = "waiting"
         THEN Rescuing("error", "pool") ELSE @]

PutStart(u) ==
  /\ \/ task[u] = "queued" /\ Busy < PoolSize
     \/ task[u] = "backoff"
  /\ task' = [task EXCEPT ![u] = "running"]
  /\ attempts' = [attempts EXCEPT ![u] = @ + 1]
  /\ UNCHANGED <<storage, request, inTx, row, file, Callbacks, restarts>>

PutWrites(u) ==
  /\ task[u] = "running"
  /\ file' = [file EXCEPT ![u] = "full"]
  /\ Completed(u, "ok")
  /\ UNCHANGED <<storage, request, inTx, row, attempts, missed, starved, restarts>>

(* mutant: one attempt too many *)
RetriesOnceMore(u) == attempts[u] <= MaxAttempts

Retries(u) == attempts[u] < MaxAttempts

(* IOException, wrapped in FileException: the file may be there in part.   *)
PutFails(u) ==
  /\ task[u] = "running"
  /\ \E left \in {"none", "partial"} : file' = [file EXCEPT ![u] = left]
  /\ task' = [task EXCEPT ![u] = IF Retries(u) THEN "backoff" ELSE "recover"]
  /\ UNCHANGED <<storage, request, inTx, row, attempts, Callbacks, restarts>>

(* Any other exception is neither retried nor recovered.                   *)
PutThrows(u) ==
  /\ task[u] = "running"
  /\ Completed(u, "error")
  /\ UNCHANGED <<storage, request, inTx, row, attempts, file, missed, starved, restarts>>

(* recover completes the future with the id.  The ASYNC_FAILED event it     *)
(* publishes has no effect: the listener runs after the commit of a        *)
(* transaction, and there is none here.                                    *)
Recover(u) ==
  /\ task[u] = "recover"
  /\ Completed(u, "ok")
  /\ UNCHANGED <<storage, request, inTx, row, attempts, file, missed, starved, restarts>>

(* Its query of the account may fail.                                      *)
RecoverThrows(u) ==
  /\ task[u] = "recover"
  /\ Completed(u, "error")
  /\ UNCHANGED <<storage, request, inTx, row, attempts, file, missed, starved, restarts>>

-----------------------------------------------------------------------------
(* The callbacks.                                                          *)

(* UPDATE ... WHERE id = :id.  In the request it is part of the            *)
(* transaction that holds the INSERT; elsewhere it is one of its own, with *)
(* a connection of its own, and finds the row only if that one committed.  *)
SetStatus(u, by, status) ==
  IF by = "request"
    THEN inTx' = [inTx EXCEPT ![u] = status] /\ UNCHANGED <<row, missed>>
    ELSE /\ Free > 0 /\ UNCHANGED inTx
         /\ row' = [row EXCEPT ![u] = IF @ = "none" THEN @ ELSE status]
         /\ missed' = IF row[u] = "none" THEN missed \cup {u} ELSE missed

(* mutant: the statuses are swapped *)
StatusOfOther(outcome) == IF outcome = "error" THEN "SUCCESS" ELSE "FAILED"

StatusOf(outcome) == IF outcome = "error" THEN "FAILED" ELSE "SUCCESS"

AcceptUpdates(u) ==
  /\ accept[u].pc = "update"
  /\ SetStatus(u, accept[u].by, StatusOf("ok"))
  /\ accept' = [accept EXCEPT ![u].pc = "tell"]
  /\ UNCHANGED <<storage, request, task, attempts, file, rescue, starved, restarts>>

(* No connection for it: an exception of the first callback is the turn of *)
(* the second, and one of the second ends the matter.                      *)
UpdateStarves(u) ==
  /\ GivesUp /\ starved' = starved \cup {u}
  /\ \/ /\ accept[u] = [pc |-> "update", by |-> "pool"]
        /\ accept' = [accept EXCEPT ![u].pc = "error"]
        /\ rescue' = [rescue EXCEPT ![u] =
             IF @.pc = "waiting" THEN Rescuing("error", "pool") ELSE @]
     \/ /\ rescue[u] = [pc |-> "update", by |-> "pool"]
        /\ rescue' = [rescue EXCEPT ![u].pc = "error"]
        /\ UNCHANGED accept
  /\ UNCHANGED <<storage, request, inTx, row, task, attempts, file, missed,
                 restarts>>

(* sendFileUploadStatus returns, or it throws when it meets a completed    *)
(* stream.  Of the first callback that is the turn of exceptionally; of    *)
(* the second it ends in a future nobody looks at.                         *)
AcceptTells(u) ==
  /\ accept[u].pc = "tell"
  /\ \E outcome \in {"done", "unsent"} :
       /\ accept' = [accept EXCEPT ![u].pc = outcome]
       /\ rescue' = [rescue EXCEPT ![u] =
            IF @.pc = "waiting" THEN Rescuing(outcome, accept[u].by) ELSE @]
  /\ UNCHANGED <<storage, request, inTx, row, task, attempts, file, missed, starved, restarts>>

RescueUpdates(u) ==
  /\ rescue[u].pc = "update"
  /\ SetStatus(u, rescue[u].by, StatusOf("error"))
  /\ rescue' = [rescue EXCEPT ![u].pc = "tell"]
  /\ UNCHANGED <<storage, request, task, attempts, file, accept, starved, restarts>>

RescueTells(u) ==
  /\ rescue[u].pc = "tell"
  /\ \E outcome \in {"done", "unsent"} : rescue' = [rescue EXCEPT ![u].pc = outcome]
  /\ UNCHANGED <<storage, request, inTx, row, task, attempts, file, accept, missed, starved,
                 restarts>>

-----------------------------------------------------------------------------
(* A restart: transactions in progress are rolled back, the pool's queue   *)
(* and the futures with their callbacks are gone, rows and files stay.     *)
Lost(cb) ==
  IF cb.pc \in {"waiting", "update", "tell"} THEN [cb EXCEPT !.pc = "lost"] ELSE cb

Restart ==
  /\ restarts < MaxRestarts
  /\ restarts' = restarts + 1
  /\ request' = [u \in Uploads |->
       IF request[u] \in {"called"} \cup InCreate THEN "failed"
       ELSE IF request[u] = "committed" THEN "abandoned" ELSE request[u]]
  /\ task' = [u \in Uploads |-> IF task[u] = "none" THEN "none"
                                ELSE IF Future(u) = "pending" THEN "lost" ELSE task[u]]
  /\ accept' = [u \in Uploads |-> Lost(accept[u])]
  /\ rescue' = [u \in Uploads |-> Lost(rescue[u])]
  /\ UNCHANGED <<storage, inTx, row, attempts, file, missed, starved>>

RequestStep(u) ==
  \/ Call(u) \/ CreateTimesOut(u) \/ SaveLocal(u) \/ SaveS3(u) \/ SaveS3Fails(u)
  \/ RegisterAccept(u) \/ RegisterExceptionally(u) \/ Commit(u) \/ CallerEnds(u)

PoolStep(u) ==
  \/ PutStart(u) \/ PutWrites(u) \/ PutFails(u) \/ PutThrows(u)
  \/ Recover(u) \/ RecoverThrows(u)

CallbackStep(u) ==
  \/ AcceptUpdates(u) \/ AcceptTells(u) \/ RescueUpdates(u) \/ RescueTells(u)
  \/ UpdateStarves(u)

Next ==
  \/ \E u \in Uploads : RequestStep(u) \/ PoolStep(u) \/ CallbackStep(u)
  \/ Restart

Spec == Init /\ [][Next]_vars

(* Servlet threads and pool threads are scheduled.                         *)
Fairness ==
  \A u \in Uploads : /\ WF_vars(request[u] # "idle" /\ RequestStep(u))
                     /\ WF_vars(PoolStep(u)) /\ WF_vars(CallbackStep(u))

FairSpec == Spec /\ Fairness

-----------------------------------------------------------------------------
(* Properties.                                                             *)

(* Every variable keeps its type; put is attempted MaxAttempts times at    *)
(* most, and the pool has PoolSize threads.                                *)
TypeOK ==
  /\ storage \in Storages
  /\ request \in [Uploads -> Requests]
  /\ inTx \in [Uploads -> Statuses] /\ row \in [Uploads -> Statuses]
  /\ task \in [Uploads -> Tasks] /\ attempts \in [Uploads -> 0 .. MaxAttempts]
  /\ file \in [Uploads -> Files]
  /\ accept \in [Uploads -> Callback] /\ rescue \in [Uploads -> Callback]
  /\ missed \subseteq Uploads /\ starved \subseteq Uploads /\ restarts \in 0 .. MaxRestarts
  /\ Busy <= PoolSize

HasCommitted(u) == request[u] \in {"committed", "linked", "abandoned"}

(* Somebody has still something to do for the upload.                      *)
AtWork(u) ==
  \/ task[u] \in {"queued", "running", "backoff", "recover"}
  \/ accept[u].pc \in {"update", "tell"} \/ rescue[u].pc \in {"update", "tell"}

(* sendFileUploadStatus has returned, for one of the callbacks.            *)
Told(u) == accept[u].pc = "done" \/ rescue[u].pc = "done"

(* The only ways to a FAILED upload are a put that ended with an           *)
(* exception and, after a put that did not, a first status event that      *)
(* could not be sent or a first status update that got no connection.      *)
FailedHasCause ==
  \A u \in Uploads : row[u] = "FAILED" =>
    task[u] = "error" \/ (task[u] = "ok" /\ (accept[u].pc = "unsent" \/ u \in starved))

(* A committed row that nobody works on any more says WAITING only if the  *)
(* status was set before the row was committed, or got no connection, or   *)
(* a restart has lost the callbacks.                                       *)
WaitingOnlyIfMissed ==
  \A u \in Uploads : HasCommitted(u) /\ ~AtWork(u) /\ row[u] = "WAITING"
    => u \in missed \cup starved \/ rescue[u].pc = "lost"

(* A SUCCESS upload can be downloaded: its file is stored in full.         *)
SuccessIsStored == \A u \in Uploads : row[u] = "SUCCESS" => file[u] = "full"

(* With S3 the status is final when create returns, and a row means that   *)
(* the object is in the bucket.                                            *)
SettledAtCommit ==
  storage = "s3" => \A u \in Uploads :
    /\ HasCommitted(u) => row[u] \in {"SUCCESS", "FAILED"}
    /\ row[u] # "none" => file[u] = "full"

(* Whoever uploads a file is answered with an error, or the event about    *)
(* its status is sent in the end: also when every connection is held by a  *)
(* caller that waits for a second one, and when every thread of the pool   *)
(* waits between two attempts.  The exceptions are an event that could not *)
(* be sent either time, a status update without a connection, and a        *)
(* restart that has lost the callbacks.                                    *)
UploaderIsTold ==
  \A u \in Uploads : request[u] = "called" ~>
    \/ request[u] = "failed" \/ Told(u)
    \/ u \in starved \/ rescue[u].pc \in {"unsent", "lost"}
=============================================================================
