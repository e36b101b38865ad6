-------------------------- MODULE BinaryUploadProofs --------------------------
(***************************************************************************)
(* Proofs about BinaryUpload, for any set of uploads, any number of        *)
(* attempts, pool threads, connections and restarts, and both storages.    *)
(***************************************************************************)
EXTENDS BinaryUpload, FiniteSetTheorems, TLAPS

Final == {"SUCCESS", "FAILED"}

(* How far a request came, in its row and in its two callbacks.            *)
Flow(u) ==
  /\ request[u] \in {"idle", "called"} => task[u] = "none" /\ attempts[u] = 0
  /\ request[u] \in {"idle", "called", "saved"} => accept[u] = Unset
  /\ request[u] \in {"idle", "called", "saved", "accepted"} => rescue[u] = Unset
  /\ request[u] = "accepted" => accept[u].pc # "unset"
  /\ request[u] = "registered" => rescue[u].pc # "unset" /\ accept[u].pc # "unset"
  /\ accept[u].pc \in {"update", "tell"} => accept[u].by # "nobody"
  /\ rescue[u].pc \in {"update", "tell"} => rescue[u].by # "nobody"
  /\ Running(accept[u], "request") => request[u] = "accepted"
  /\ Running(rescue[u], "request") => request[u] = "registered"
  /\ request[u] \in InCreate =>
       /\ inTx[u] # "none" /\ task[u] \notin {"none", "lost"}
       /\ accept[u].pc # "lost" /\ rescue[u].pc # "lost"
  /\ HasCommitted(u) <=> row[u] # "none"
  /\ HasCommitted(u) => rescue[u].pc # "unset"
  /\ HasCommitted(u) /\ inTx[u] \in Final => row[u] \in Final

(* A callback that waits has something to wait for.                        *)
Chain(u) ==
  /\ accept[u].pc = "waiting" => task[u] \in {"queued", "running", "backoff", "recover"}
  /\ rescue[u].pc = "waiting" => accept[u].pc \in {"waiting", "update", "tell"}
  /\ accept[u].pc # "skipped"

(* Attempts are counted up to the last one.                                *)
Tries(u) ==
  /\ task[u] = "queued" => attempts[u] = 0
  /\ task[u] = "backoff" => attempts[u] < MaxAttempts

(* What it takes to come to FAILED.                                        *)
Cause(u) ==
  task[u] = "error" \/ (task[u] = "ok" /\ (accept[u].pc = "unsent" \/ u \in starved))

Causes(u) ==
  /\ accept[u].pc \in {"update", "tell", "done", "unsent"} => task[u] = "ok"
  /\ accept[u].pc = "error" => Cause(u)
  /\ rescue[u].pc \in {"update", "tell"} => Cause(u)
  /\ inTx[u] = "FAILED" \/ row[u] = "FAILED" => Cause(u)

(* A status that was set is in the row, or will be at the commit, or came  *)
(* too early for either.                                                   *)
Effect(u) == u \in missed \/ inTx[u] \in Final \/ row[u] \in Final

Effects(u) ==
  /\ accept[u].pc \in {"tell", "done", "unsent"} => Effect(u)
  /\ rescue[u].pc \in {"tell", "done", "unsent", "skipped"} => Effect(u)
  /\ rescue[u].pc = "error" => u \in starved

(* With S3 the put is over when create goes on, and no pool thread runs.   *)
OnTheSpot(u) ==
  /\ u \notin missed /\ u \notin starved
  /\ task[u] \in {"none", "ok"}
  /\ request[u] \in InCreate \/ HasCommitted(u) => task[u] = "ok" /\ file[u] = "full"
  /\ accept[u].pc # "waiting" /\ accept[u].by # "pool"
  /\ rescue[u].pc \notin {"waiting", "error"} /\ rescue[u].by # "pool"
  /\ HasCommitted(u) => inTx[u] \in Final

UploadInv(u) ==
  /\ Flow(u) /\ Chain(u) /\ Tries(u) /\ Causes(u) /\ Effects(u)
  /\ storage = "s3" => OnTheSpot(u)

OnThreads == {u \in Uploads : OnThread(u)}

IInv == TypeOK /\ IsFiniteSet(OnThreads) /\ \A u \in Uploads : UploadInv(u)

-----------------------------------------------------------------------------
(* A step of one upload leaves the others alone.                           *)
Step(u) == RequestStep(u) \/ PoolStep(u) \/ CallbackStep(u)

LEMMA OthersKeep ==
  ASSUME TypeOK, NEW u \in Uploads, Step(u), NEW w \in Uploads, w # u
  PROVE  /\ request'[w] = request[w] /\ inTx'[w] = inTx[w] /\ row'[w] = row[w]
         /\ task'[w] = task[w] /\ attempts'[w] = attempts[w] /\ file'[w] = file[w]
         /\ accept'[w] = accept[w] /\ rescue'[w] = rescue[w]
         /\ (w \in missed' <=> w \in missed) /\ (w \in starved' <=> w \in starved)
         /\ storage' = storage
<1> USE DEF TypeOK
<1>1. CASE RequestStep(u)
  BY <1>1 DEF RequestStep, Call, CreateTimesOut, SaveLocal, SaveS3, SaveS3Fails,
     RowRolledBack, RegisterAccept, RegisterExceptionally, Commit, Committed,
     CallerEnds, Callbacks
<1>2. CASE PoolStep(u)
  BY <1>2 DEF PoolStep, PutStart, PutWrites, PutFails, PutThrows, Recover,
     RecoverThrows, Completed, Callbacks
<1>3. CASE CallbackStep(u)
  BY <1>3 DEF CallbackStep, AcceptUpdates, AcceptTells, RescueUpdates, RescueTells,
     UpdateStarves, SetStatus
<1> QED
  BY <1>1, <1>2, <1>3 DEF Step

LEMMA OthersInv ==
  ASSUME IInv, NEW u \in Uploads, Step(u), NEW w \in Uploads, w # u
  PROVE  UploadInv(w)'
<1>1. UploadInv(w) /\ TypeOK
  BY DEF IInv
<1> QED
  BY <1>1, OthersKeep DEF UploadInv, Flow, Chain, Tries, Causes, Cause, Effects, Effect,
     OnTheSpot, HasCommitted, Running

LEMMA RequestInv ==
  ASSUME IInv, NEW u \in Uploads, RequestStep(u)
  PROVE  UploadInv(u)'
<1>1. UploadInv(u) /\ TypeOK
  BY DEF IInv
<1> USE <1>1 DEF TypeOK, UploadInv, Flow, Chain, Tries, Causes, Cause, Effects, Effect,
     OnTheSpot, HasCommitted, Running, Unset, Final, InCreate, Callbacks
<1>2. CASE Call(u)
  BY <1>2 DEF Call
<1>3. CASE CreateTimesOut(u)
  BY <1>3 DEF CreateTimesOut
<1>4. CASE SaveLocal(u)
  BY <1>4 DEF SaveLocal
<1>5. CASE SaveS3(u)
  BY <1>5 DEF SaveS3
<1>6. CASE SaveS3Fails(u)
  BY <1>6 DEF SaveS3Fails, RowRolledBack
<1>7. CASE RegisterAccept(u)
  <2>1. /\ request[u] = "saved" /\ request'[u] = "accepted"
        /\ accept'[u] = Accepting(u, "request")
        /\ UNCHANGED <<storage, inTx, row, task, attempts, file, rescue,
                       missed, starved>>
    BY <1>7 DEF RegisterAccept
  <2>2. task[u] \in {"queued", "running", "backoff", "recover", "ok", "error"}
    BY <2>1 DEF Tasks
  <2>3. /\ task[u] = "ok" => accept'[u].pc = "update" /\ accept'[u].by = "request"
        /\ task[u] = "error" => accept'[u].pc = "error" /\ accept'[u].by = "request"
        /\ task[u] \notin {"ok", "error"} =>
             accept'[u].pc = "waiting" /\ accept'[u].by = "nobody"
    BY <2>1 DEF Accepting, Future
  <2> QED BY <2>1, <2>2, <2>3
<1>8. CASE RegisterExceptionally(u)
  <2>1. /\ request[u] = "accepted" /\ ~Running(accept[u], "request")
        /\ request' = [request EXCEPT ![u] = "registered"]
        /\ rescue' = [rescue EXCEPT ![u] = Rescuing(accept[u].pc, "request")]
        /\ UNCHANGED <<storage, inTx, row, task, attempts, file, accept,
                       missed, starved>>
    BY <1>8 DEF RegisterExceptionally, RequestBusy
  <2>2. /\ request'[u] = "registered"
        /\ rescue'[u] = Rescuing(accept[u].pc, "request")
    BY <2>1
  <2>3. accept[u] \in Callback /\ accept[u].pc # "unset"
    BY <2>1
  <2>4. CASE accept[u].pc \in {"unsent", "error"}
    <3>1. rescue'[u].pc = "update" /\ rescue'[u].by = "request"
      BY <2>2, <2>4 DEF Rescuing
    <3> QED BY <2>1, <2>2, <2>4, <3>1
  <2>5. CASE accept[u].pc = "done"
    <3>1. rescue'[u].pc = "skipped" /\ rescue'[u].by = "request"
      BY <2>2, <2>5 DEF Rescuing
    <3> QED BY <2>1, <2>2, <2>5, <3>1
  <2>6. CASE accept[u].pc \notin {"unsent", "error", "done"}
    <3>1. rescue'[u].pc = "waiting" /\ rescue'[u].by = "nobody"
      BY <2>2, <2>6 DEF Rescuing
    <3>2. accept[u].pc \in {"waiting", "update", "tell"}
      BY <2>1, <2>3, <2>6 DEF Callback
    <3>3. storage # "s3"
      BY <2>1, <2>3, <3>2 DEF Callback, Runners
    <3> QED BY <2>1, <2>2, <3>1, <3>2, <3>3
  <2> QED BY <2>4, <2>5, <2>6
<1>9. CASE Commit(u)
  <2>1. /\ request[u] = "registered" /\ ~Running(rescue[u], "request")
        /\ request' = [request EXCEPT ![u] = "committed"]
        /\ row' = [row EXCEPT ![u] = inTx[u]]
        /\ UNCHANGED <<storage, inTx, task, attempts, file, accept, rescue,
                       missed, starved>>
    BY <1>9 DEF Commit, Committed, RequestBusy
  <2>2. request'[u] = "committed" /\ row'[u] = inTx[u] /\ row[u] = "none"
    BY <2>1
  <2>3. inTx[u] # "none" /\ rescue[u].pc # "unset"
    BY <2>1
  <2>4. /\ rescue[u].pc \in {"unset", "waiting", "update", "tell", "done", "unsent",
                             "error", "skipped", "lost"}
        /\ rescue[u].by \in Runners
    BY DEF Callback
  <2>5. ASSUME storage = "s3" PROVE inTx[u] \in Final
    BY <2>1, <2>2, <2>3, <2>4, <2>5 DEF Runners
  <2> QED BY <2>1, <2>2, <2>3, <2>5
<1>10. CASE CallerEnds(u)
  BY <1>10 DEF CallerEnds
<1> QED
  BY <1>2, <1>3, <1>4, <1>5, <1>6, <1>7, <1>8, <1>9, <1>10 DEF RequestStep

LEMMA PoolInv ==
  ASSUME IInv, NEW u \in Uploads, PoolStep(u)
  PROVE  UploadInv(u)'
<1>1. UploadInv(u) /\ TypeOK
  BY DEF IInv
<1> USE <1>1 DEF TypeOK, UploadInv, Flow, Chain, Tries, Causes, Cause, Effects, Effect,
     OnTheSpot, HasCommitted, Running, Unset, Final, InCreate, Callbacks
<1>2. CASE PutStart(u)
  BY <1>2 DEF PutStart
<1>3. CASE PutFails(u)
  BY <1>3 DEF PutFails, Retries
<1>4. ASSUME NEW outcome \in {"ok", "error"}, task[u] \in {"running", "recover"},
             Completed(u, outcome), file' \in [Uploads -> Files],
             UNCHANGED <<storage, request, inTx, row, attempts, missed, starved>>
      PROVE  UploadInv(u)'
  <2>1. task'[u] = outcome /\ request[u] \notin {"idle", "called"} /\ storage # "s3"
    BY <1>4 DEF Completed
  <2>2. /\ accept[u].pc # "waiting" => accept'[u] = accept[u]
        /\ accept[u].pc = "waiting" =>
             accept'[u] = [pc |-> IF outcome = "ok" THEN "update" ELSE "error",
                           by |-> "pool"]
    BY <1>4 DEF Completed
  <2>3. \/ /\ rescue'[u] = rescue[u]
           /\ rescue[u].pc # "waiting" \/ outcome = "ok" \/ accept[u].pc # "waiting"
        \/ /\ rescue[u].pc = "waiting" /\ outcome = "error"
           /\ rescue'[u].pc = "update" /\ rescue'[u].by = "pool"
    BY <1>4 DEF Completed, Rescuing
  <2>4. accept[u].pc \notin {"update", "tell", "done", "unsent", "error"}
    BY <1>4
  <2>5. rescue[u].pc \notin {"update", "tell"} /\ inTx[u] # "FAILED" /\ row[u] # "FAILED"
    BY <1>4
  <2>6. Flow(u)'
    BY <1>4, <2>1, <2>2, <2>3, <2>4
  <2>7. Causes(u)'
    BY <1>4, <2>1, <2>2, <2>3, <2>4, <2>5
  <2>8. Effects(u)'
    BY <1>4, <2>2, <2>3, <2>4
  <2>9. Chain(u)'
    BY <1>4, <2>1, <2>2, <2>3, <2>4
  <2> QED BY <1>4, <2>1, <2>6, <2>7, <2>8, <2>9
<1>5. CASE PutWrites(u)
  BY <1>4, <1>5 DEF PutWrites, Files
<1>6. CASE PutThrows(u)
  BY <1>4, <1>6 DEF PutThrows
<1>7. CASE Recover(u)
  BY <1>4, <1>7 DEF Recover
<1>8. CASE RecoverThrows(u)
  BY <1>4, <1>8 DEF RecoverThrows
<1> QED
  BY <1>2, <1>3, <1>5, <1>6, <1>7, <1>8 DEF PoolStep

(* A status that is set, in the transaction or in the row.                 *)
LEMMA CallbackInv ==
  ASSUME IInv, NEW u \in Uploads, CallbackStep(u)
  PROVE  UploadInv(u)'
<1>1. UploadInv(u) /\ TypeOK
  BY DEF IInv
<1> USE <1>1 DEF TypeOK, UploadInv, Flow, Chain, Tries, Causes, Cause, Effects, Effect,
     OnTheSpot, HasCommitted, Running, Unset, Final, InCreate, Callbacks
<1>2. CASE AcceptUpdates(u)
  <2>1. accept'[u].pc = "tell" /\ accept'[u].by = accept[u].by /\ rescue'[u] = rescue[u]
    BY <1>2 DEF AcceptUpdates, Callback
  <2>2. CASE accept[u].by = "request"
    BY <1>2, <2>1, <2>2 DEF AcceptUpdates, SetStatus, StatusOf
  <2>3. CASE accept[u].by # "request"
    BY <1>2, <2>1, <2>3 DEF AcceptUpdates, SetStatus, StatusOf, Callback, Runners
  <2> QED BY <2>2, <2>3
<1>3. CASE RescueUpdates(u)
  <2>1. rescue'[u].pc = "tell" /\ rescue'[u].by = rescue[u].by /\ accept'[u] = accept[u]
    BY <1>3 DEF RescueUpdates, Callback
  <2>2. CASE rescue[u].by = "request"
    BY <1>3, <2>1, <2>2 DEF RescueUpdates, SetStatus, StatusOf
  <2>3. CASE rescue[u].by # "request"
    BY <1>3, <2>1, <2>3 DEF RescueUpdates, SetStatus, StatusOf, Callback, Runners
  <2> QED BY <2>2, <2>3
<1>4. CASE AcceptTells(u)
  <2>1. PICK outcome \in {"done", "unsent"} :
          /\ accept'[u].pc = outcome /\ accept'[u].by = accept[u].by
          /\ rescue'[u] = IF rescue[u].pc = "waiting"
                            THEN Rescuing(outcome, accept[u].by) ELSE rescue[u]
    BY <1>4 DEF AcceptTells, Callback
  <2>2. /\ accept[u].pc = "tell"
        /\ UNCHANGED <<storage, request, inTx, row, task, attempts, file, missed, starved>>
    BY <1>4 DEF AcceptTells
  <2>3. task[u] = "ok"
    BY <2>2
  <2>4. accept[u].by # "nobody" /\ (accept[u].by = "request" => request[u] = "accepted")
    BY <2>2
  <2>5. CASE rescue[u].pc # "waiting"
    BY <2>1, <2>2, <2>3, <2>5
  <2>6. CASE rescue[u].pc = "waiting" /\ outcome = "unsent"
    <3>1. rescue'[u].pc = "update" /\ rescue'[u].by = accept[u].by
      BY <2>1, <2>6 DEF Rescuing
    <3>2. request[u] # "accepted"
      BY <2>6
    <3> QED BY <2>1, <2>2, <2>3, <2>4, <2>6, <3>1, <3>2
  <2>7. CASE rescue[u].pc = "waiting" /\ outcome = "done"
    <3>1. rescue'[u].pc = "skipped" /\ rescue'[u].by = accept[u].by
      BY <2>1, <2>7 DEF Rescuing
    <3> QED BY <2>1, <2>2, <2>3, <2>4, <2>7, <3>1
  <2> QED BY <2>5, <2>6, <2>7
<1>5. CASE RescueTells(u)
  <2>1. /\ rescue'[u].pc \in {"done", "unsent"} /\ rescue'[u].by = rescue[u].by
        /\ rescue[u].pc = "tell"
        /\ UNCHANGED <<storage, request, inTx, row, task, attempts, file, accept, missed,
                       starved>>
    BY <1>5 DEF RescueTells, Callback
  <2> QED BY <2>1
<1>6. CASE UpdateStarves(u)
  <2>1. /\ u \in starved' /\ starved \subseteq starved'
        /\ UNCHANGED <<storage, request, inTx, row, task, attempts, file, missed>>
    BY <1>6 DEF UpdateStarves
  <2>2. CASE accept[u] = [pc |-> "update", by |-> "pool"]
    <3>1. accept[u].pc = "update" /\ accept[u].by = "pool"
      BY <2>2
    <3>2. CASE accept'[u].pc = "error"
      <4>1. accept'[u].by = "pool"
        BY <1>6, <2>2, <3>2 DEF UpdateStarves
      <4>2. \/ rescue'[u] = rescue[u] /\ rescue[u].pc # "waiting"
            \/ /\ rescue[u].pc = "waiting"
               /\ rescue'[u].pc = "update" /\ rescue'[u].by = "pool"
        BY <1>6, <3>1, <3>2 DEF UpdateStarves, Rescuing
      <4> QED BY <2>1, <3>1, <3>2, <4>1, <4>2
    <3>3. CASE accept'[u].pc # "error"
      <4>1. /\ accept'[u] = accept[u] /\ rescue[u].pc = "update"
            /\ rescue[u].by = "pool"
            /\ rescue'[u].pc = "error" /\ rescue'[u].by = "pool"
        BY <1>6, <3>3 DEF UpdateStarves
      <4> QED BY <2>1, <3>1, <4>1
    <3> QED BY <3>2, <3>3
  <2>3. CASE accept[u] # [pc |-> "update", by |-> "pool"]
    <3>1. /\ accept'[u] = accept[u] /\ rescue[u].pc = "update"
          /\ rescue[u].by = "pool"
          /\ rescue'[u].pc = "error" /\ rescue'[u].by = "pool"
      BY <1>6, <2>3 DEF UpdateStarves
    <3> QED BY <2>1, <3>1
  <2> QED BY <2>2, <2>3
<1> QED
  BY <1>2, <1>3, <1>4, <1>5, <1>6 DEF CallbackStep

LEMMA RestartInv ==
  ASSUME IInv, Restart, NEW u \in Uploads
  PROVE  UploadInv(u)'
<1>1. UploadInv(u) /\ TypeOK
  BY DEF IInv
<1>2. /\ request'[u] = IF request[u] \in {"called"} \cup InCreate THEN "failed"
                      ELSE IF request[u] = "committed" THEN "abandoned" ELSE request[u]
      /\ task'[u] = IF task[u] = "none" THEN "none"
                    ELSE IF Future(u) = "pending" THEN "lost" ELSE task[u]
      /\ accept'[u] = Lost(accept[u]) /\ rescue'[u] = Lost(rescue[u])
      /\ UNCHANGED <<storage, inTx, row, attempts, file, missed, starved>>
  BY DEF Restart
<1>3. ASSUME NEW cb \in Callback
      PROVE  /\ Lost(cb).by = cb.by
             /\ Lost(cb).pc = IF cb.pc \in {"waiting", "update", "tell"} THEN "lost"
                             ELSE cb.pc
             /\ cb.pc = "unset" => Lost(cb) = cb
  BY DEF Lost, Callback
<1>4. accept[u] \in Callback /\ rescue[u] \in Callback /\ task[u] \in Tasks
  BY <1>1 DEF TypeOK
<1>5. ASSUME accept[u] = Unset PROVE accept'[u] = Unset
  BY <1>2, <1>3, <1>4, <1>5 DEF Unset
<1>6. ASSUME rescue[u] = Unset PROVE rescue'[u] = Unset
  BY <1>2, <1>3, <1>4, <1>6 DEF Unset
<1> QED
  BY <1>1, <1>2, <1>3, <1>4, <1>5, <1>6 DEF TypeOK, UploadInv, Flow, Chain, Tries, Causes, Cause, Effects, Effect,
     OnTheSpot, HasCommitted, Running, Unset, Final, InCreate, Future

-----------------------------------------------------------------------------
(* Types.                                                                  *)

Variables ==
  /\ storage \in Storages
  /\ request \in [Uploads -> Requests]
  /\ inTx \in [Uploads -> Statuses] /\ row \in [Uploads -> Statuses]
  /\ task \in [Uploads -> Tasks] /\ attempts \in [Uploads -> 0 .. MaxAttempts]
  /\ file \in [Uploads -> Files]
  /\ accept \in [Uploads -> Callback] /\ rescue \in [Uploads -> Callback]
  /\ missed \subseteq Uploads /\ starved \subseteq Uploads /\ restarts \in 0 .. MaxRestarts

LEMMA TypeParts == TypeOK <=> Variables /\ Cardinality(OnThreads) <= PoolSize
  BY DEF TypeOK, Variables, OnThreads, Busy

LEMMA RescuingType ==
  ASSUME NEW outcome, NEW by \in Runners PROVE Rescuing(outcome, by) \in Callback
  BY DEF Rescuing, Callback, Runners

LEMMA AcceptingType ==
  ASSUME NEW u, NEW by \in Runners PROVE Accepting(u, by) \in Callback
  BY DEF Accepting, Callback, Runners

LEMMA CompletedType ==
  ASSUME Variables, NEW u \in Uploads, NEW outcome \in {"ok", "error"},
         Completed(u, outcome)
  PROVE  /\ task' \in [Uploads -> Tasks]
         /\ accept' \in [Uploads -> Callback] /\ rescue' \in [Uploads -> Callback]
<1>1. /\ [pc |-> IF outcome = "ok" THEN "update" ELSE "error", by |-> "pool"] \in Callback
      /\ Rescuing("error", "pool") \in Callback
  BY RescuingType DEF Callback, Runners
<1> QED
  BY <1>1 DEF Variables, Completed, Tasks

LEMMA RequestType ==
  ASSUME Variables, NEW u \in Uploads, RequestStep(u) PROVE Variables'
<1> USE DEF Variables, Requests, Statuses, Tasks, Files, Callbacks
<1>1. CASE Call(u) \/ CreateTimesOut(u) \/ CallerEnds(u)
  BY <1>1 DEF Call, CreateTimesOut, CallerEnds
<1>2. CASE SaveLocal(u)
  BY <1>2 DEF SaveLocal
<1>3. CASE SaveS3(u) \/ SaveS3Fails(u)
  BY <1>3, UploadConstants DEF SaveS3, SaveS3Fails, RowRolledBack
<1>4. CASE RegisterAccept(u)
  BY <1>4, AcceptingType DEF RegisterAccept, Runners
<1>5. CASE RegisterExceptionally(u)
  BY <1>5, RescuingType DEF RegisterExceptionally, Runners
<1>6. CASE Commit(u)
  BY <1>6 DEF Commit, Committed
<1> QED
  BY <1>1, <1>2, <1>3, <1>4, <1>5, <1>6 DEF RequestStep

LEMMA PoolType ==
  ASSUME Variables, NEW u \in Uploads, Tries(u), PoolStep(u) PROVE Variables'
<1>1. CASE PutStart(u)
  BY <1>1, UploadConstants DEF Variables, PutStart, Tries, Tasks, Callbacks
<1>2. CASE PutFails(u)
  BY <1>2 DEF Variables, PutFails, Tasks, Files, Callbacks
<1>3. CASE PutWrites(u) \/ PutThrows(u) \/ Recover(u) \/ RecoverThrows(u)
  <2>1. /\ task' \in [Uploads -> Tasks]
        /\ accept' \in [Uploads -> Callback] /\ rescue' \in [Uploads -> Callback]
    BY <1>3, CompletedType DEF PutWrites, PutThrows, Recover, RecoverThrows
  <2>2. file' \in [Uploads -> Files]
    BY <1>3 DEF Variables, PutWrites, PutThrows, Recover, RecoverThrows, Files
  <2>3. UNCHANGED <<storage, request, inTx, row, attempts, missed, starved, restarts>>
    BY <1>3 DEF PutWrites, PutThrows, Recover, RecoverThrows
  <2> QED BY <2>1, <2>2, <2>3 DEF Variables
<1> QED
  BY <1>1, <1>2, <1>3 DEF PoolStep

LEMMA SetStatusType ==
  ASSUME Variables, NEW u \in Uploads, NEW by, NEW status \in Statuses,
         SetStatus(u, by, status)
  PROVE  /\ inTx' \in [Uploads -> Statuses] /\ row' \in [Uploads -> Statuses]
         /\ missed' \subseteq Uploads
  BY DEF Variables, SetStatus, Statuses

LEMMA CallbackType ==
  ASSUME Variables, NEW u \in Uploads, CallbackStep(u) PROVE Variables'
<1>1. ASSUME NEW cb \in Callback, NEW stage \in {"tell", "done", "unsent", "error"}
      PROVE  [cb EXCEPT !.pc = stage] \in Callback
  BY DEF Callback
<1>2. accept[u] \in Callback /\ rescue[u] \in Callback /\ accept[u].by \in Runners
  BY DEF Variables, Callback
<1>3. CASE AcceptUpdates(u)
  <2>1. accept' \in [Uploads -> Callback]
    BY <1>1, <1>3 DEF Variables, AcceptUpdates
  <2>2. /\ inTx' \in [Uploads -> Statuses] /\ row' \in [Uploads -> Statuses]
        /\ missed' \subseteq Uploads
    BY <1>3, SetStatusType DEF AcceptUpdates, StatusOf, Statuses
  <2> QED BY <1>3, <2>1, <2>2 DEF Variables, AcceptUpdates
<1>4. CASE RescueUpdates(u)
  <2>1. rescue' \in [Uploads -> Callback]
    BY <1>1, <1>4 DEF Variables, RescueUpdates
  <2>2. /\ inTx' \in [Uploads -> Statuses] /\ row' \in [Uploads -> Statuses]
        /\ missed' \subseteq Uploads
    BY <1>4, SetStatusType DEF RescueUpdates, StatusOf, Statuses
  <2> QED BY <1>4, <2>1, <2>2 DEF Variables, RescueUpdates
<1>5. CASE AcceptTells(u)
  <2>1. accept' \in [Uploads -> Callback] /\ rescue' \in [Uploads -> Callback]
    <3>1. PICK outcome \in {"done", "unsent"} :
            /\ accept' = [accept EXCEPT ![u].pc = outcome]
            /\ rescue' = [rescue EXCEPT ![u] =
                 IF @.pc = "waiting" THEN Rescuing(outcome, accept[u].by) ELSE @]
      BY <1>5 DEF AcceptTells
    <3>2. /\ [accept[u] EXCEPT !.pc = outcome] \in Callback
          /\ Rescuing(outcome, accept[u].by) \in Callback
      BY <1>1, <1>2, RescuingType
    <3> QED BY <3>1, <3>2 DEF Variables
  <2> QED BY <1>5, <2>1 DEF Variables, AcceptTells
<1>6. CASE RescueTells(u)
  <2>1. rescue' \in [Uploads -> Callback]
    <3>1. PICK outcome \in {"done", "unsent"} :
            rescue' = [rescue EXCEPT ![u].pc = outcome]
      BY <1>6 DEF RescueTells
    <3>2. [rescue[u] EXCEPT !.pc = outcome] \in Callback
      BY <1>1, <1>2
    <3> QED BY <3>1, <3>2 DEF Variables
  <2> QED BY <1>6, <2>1 DEF Variables, RescueTells
<1>7. CASE UpdateStarves(u)
  <2>1. Rescuing("error", "pool") \in Callback
    BY RescuingType DEF Runners
  <2>2. accept' \in [Uploads -> Callback] /\ rescue' \in [Uploads -> Callback]
    BY <1>1, <1>2, <1>7, <2>1 DEF Variables, UpdateStarves
  <2> QED BY <1>7, <2>2 DEF Variables, UpdateStarves
<1> QED
  BY <1>3, <1>4, <1>5, <1>6, <1>7 DEF CallbackStep

LEMMA RestartType == ASSUME Variables, Restart PROVE Variables'
<1>1. ASSUME NEW cb \in Callback PROVE Lost(cb) \in Callback
  BY DEF Lost, Callback
<1> QED
  BY <1>1, UploadConstants DEF Variables, Restart, Requests, Tasks

(* The pool.  Only the start of a queued put takes a thread.               *)
LEMMA ThreadTaken ==
  ASSUME IInv, NEW u \in Uploads, Step(u)
  PROVE  \/ OnThreads' \subseteq OnThreads
         \/ OnThreads' \subseteq OnThreads \cup {u} /\ Cardinality(OnThreads) < PoolSize
<1>1. TypeOK /\ UploadInv(u)
  BY DEF IInv
<1>2. \A w \in Uploads : w # u => (OnThread(w)' <=> OnThread(w))
  BY <1>1, OthersKeep DEF OnThread, Running
<1>3. CASE ~(PutStart(u) /\ task[u] = "queued")
  <2>1. OnThread(u)' => OnThread(u)
    <3>1. CASE RequestStep(u)
      BY <1>1, <3>1 DEF TypeOK, RequestStep, Call, CreateTimesOut, SaveLocal, SaveS3,
         SaveS3Fails, RegisterAccept, RegisterExceptionally, Commit, CallerEnds,
         Callbacks, OnThread, Running, Accepting, Rescuing
    <3>2. CASE PoolStep(u)
      BY <1>1, <1>3, <3>2 DEF TypeOK, PoolStep, PutStart, PutWrites, PutFails,
         PutThrows, Recover, RecoverThrows, OnThread
    <3>3. CASE AcceptUpdates(u) \/ RescueUpdates(u) \/ RescueTells(u)
      BY <1>1, <3>3 DEF TypeOK, Callback, AcceptUpdates, RescueUpdates, RescueTells,
         OnThread, Running
    <3>4. CASE AcceptTells(u)
      BY <1>1, <3>4 DEF TypeOK, Callback, AcceptTells, OnThread, Running, Rescuing
    <3>5. CASE UpdateStarves(u)
      BY <1>1, <3>5 DEF TypeOK, Callback, UpdateStarves, OnThread, Running, Rescuing
    <3> QED BY <3>1, <3>2, <3>3, <3>4, <3>5 DEF Step, CallbackStep
  <2> QED BY <1>2, <2>1 DEF OnThreads
<1>4. CASE PutStart(u) /\ task[u] = "queued"
  <2>1. Cardinality(OnThreads) < PoolSize
    BY <1>4 DEF PutStart, Busy, OnThreads
  <2> QED BY <1>2, <2>1 DEF OnThreads
<1> QED
  BY <1>3, <1>4

LEMMA PoolBound ==
  ASSUME IInv, [Next]_vars
  PROVE  IsFiniteSet(OnThreads)' /\ (Cardinality(OnThreads) <= PoolSize)'
<1>1. /\ IsFiniteSet(OnThreads) /\ Cardinality(OnThreads) \in Nat
      /\ Cardinality(OnThreads) <= PoolSize /\ PoolSize \in Nat
  BY TypeParts, FS_CardinalityType, UploadConstants DEF IInv
<1>2. ASSUME OnThreads' \subseteq OnThreads
      PROVE  IsFiniteSet(OnThreads') /\ Cardinality(OnThreads') <= PoolSize
  <2>1. /\ IsFiniteSet(OnThreads') /\ Cardinality(OnThreads') \in Nat
        /\ Cardinality(OnThreads') <= Cardinality(OnThreads)
    BY <1>1, <1>2, FS_Subset, FS_CardinalityType
  <2> QED BY <1>1, <2>1
<1>3. ASSUME NEW u \in Uploads, Step(u)
      PROVE  IsFiniteSet(OnThreads') /\ Cardinality(OnThreads') <= PoolSize
  <2>1. CASE OnThreads' \subseteq OnThreads
    BY <1>2, <2>1
  <2>2. CASE OnThreads' \subseteq OnThreads \cup {u} /\ Cardinality(OnThreads) < PoolSize
    <3>1. /\ IsFiniteSet(OnThreads \cup {u})
          /\ Cardinality(OnThreads \cup {u}) <= Cardinality(OnThreads) + 1
          /\ Cardinality(OnThreads \cup {u}) \in Nat
      <4>1. /\ IsFiniteSet(OnThreads \cup {u})
            /\ \/ Cardinality(OnThreads \cup {u}) = Cardinality(OnThreads)
               \/ Cardinality(OnThreads \cup {u}) = Cardinality(OnThreads) + 1
        BY <1>1, FS_AddElement
      <4> QED BY <1>1, <4>1
    <3>2. /\ IsFiniteSet(OnThreads') /\ Cardinality(OnThreads') \in Nat
          /\ Cardinality(OnThreads') <= Cardinality(OnThreads \cup {u})
      BY <2>2, <3>1, FS_Subset, FS_CardinalityType
    <3> QED BY <1>1, <2>2, <3>1, <3>2
  <2> QED BY <1>3, <2>1, <2>2, ThreadTaken
<1>4. ASSUME Restart \/ UNCHANGED vars PROVE OnThreads' \subseteq OnThreads
<2>1. ASSUME Restart, NEW u \in Uploads, OnThread(u)' PROVE OnThread(u)
  <3>1. /\ task'[u] = IF task[u] = "none" THEN "none"
                      ELSE IF Future(u) = "pending" THEN "lost" ELSE task[u]
        /\ accept'[u] = Lost(accept[u]) /\ rescue'[u] = Lost(rescue[u])
    BY <2>1 DEF Restart
  <3>2. accept[u] \in Callback /\ rescue[u] \in Callback
    BY TypeParts DEF IInv, Variables
  <3>3. ASSUME NEW cb \in Callback PROVE Lost(cb).pc \notin {"update", "tell"}
    BY DEF Lost, Callback
  <3> QED BY <2>1, <3>1, <3>2, <3>3 DEF OnThread, Running, Future
<2> QED
  BY <1>4, <2>1 DEF vars, OnThreads, OnThread, Running
<1> QED
  BY <1>2, <1>3, <1>4 DEF Next, Step

-----------------------------------------------------------------------------
(* The invariant.                                                          *)

LEMMA InitInv == Init => IInv
<1> SUFFICES ASSUME Init PROVE IInv
  OBVIOUS
<1>1. OnThreads = {}
  BY DEF Init, OnThreads, OnThread, Running, Unset
<1>2. IsFiniteSet(OnThreads) /\ Cardinality(OnThreads) <= PoolSize
  BY <1>1, FS_EmptySet, UploadConstants
<1>3. Variables
  BY UploadConstants DEF Init, Variables, Requests, Statuses, Tasks, Files, Callback,
     Runners, Unset
<1>4. ASSUME NEW u \in Uploads PROVE UploadInv(u)
  BY DEF Init, UploadInv, Flow, Chain, Tries, Causes, Cause, Effects, Effect, OnTheSpot,
     HasCommitted, Running, Unset, Final, InCreate
<1> QED
  BY <1>2, <1>3, <1>4, TypeParts DEF IInv

LEMMA StepInv == IInv /\ [Next]_vars => IInv'
<1> SUFFICES ASSUME IInv, [Next]_vars PROVE IInv'
  OBVIOUS
<1>1. Variables /\ \A u \in Uploads : UploadInv(u)
  BY TypeParts DEF IInv
<1>2. ASSUME NEW u \in Uploads, Step(u)
      PROVE  Variables' /\ \A w \in Uploads : UploadInv(w)'
  <2>1. Variables'
    BY <1>1, <1>2, RequestType, PoolType, CallbackType DEF Step, UploadInv
  <2>2. UploadInv(u)'
    BY <1>2, RequestInv, PoolInv, CallbackInv DEF Step
  <2> QED BY <1>2, <2>1, <2>2, OthersInv
<1>3. ASSUME Restart PROVE Variables' /\ \A w \in Uploads : UploadInv(w)'
  BY <1>1, <1>3, RestartType, RestartInv
<1>4. ASSUME UNCHANGED vars PROVE Variables' /\ \A w \in Uploads : UploadInv(w)'
  BY <1>1, <1>4 DEF vars, Variables, UploadInv, Flow, Chain, Tries, Causes, Cause, Effects,
     Effect, OnTheSpot, HasCommitted, Running
<1>5. Variables' /\ \A w \in Uploads : UploadInv(w)'
  BY <1>2, <1>3, <1>4 DEF Next, Step
<1>6. IsFiniteSet(OnThreads)' /\ TypeOK'
  BY <1>5, PoolBound DEF TypeOK, Variables, OnThreads, Busy
<1> QED
  BY <1>5, <1>6 DEF IInv

(* How requests, pool threads and callbacks stand to the rows, for every   *)
(* upload and every storage.                                               *)
THEOREM UploadInductive == Spec => []IInv
  BY InitInv, StepInv, PTL DEF Spec

(* The variables keep their types, a put is attempted MaxAttempts times at *)
(* most, and puts and callbacks never occupy more than PoolSize threads.   *)
THEOREM TypeCorrect == Spec => []TypeOK
<1>1. IInv => TypeOK
  BY DEF IInv
<1> QED
  BY <1>1, UploadInductive, PTL

(* An upload is only marked FAILED after a put that ended with an          *)
(* exception or, after a put that did not, a status event that could not   *)
(* be sent or a status update without a connection.                        *)
THEOREM FailureHasCause == Spec => []FailedHasCause
<1>1. IInv => FailedHasCause
  BY DEF IInv, UploadInv, Causes, Cause, FailedHasCause
<1> QED
  BY <1>1, UploadInductive, PTL

(* A row that nobody works on any more still says WAITING only if the      *)
(* status was set too early, could not be set, or was lost in a restart.   *)
THEOREM WaitingHasCause == Spec => []WaitingOnlyIfMissed
<1>1. IInv => WaitingOnlyIfMissed
  <2> SUFFICES ASSUME IInv, NEW u \in Uploads, HasCommitted(u), ~AtWork(u),
                      row[u] = "WAITING", rescue[u].pc # "lost"
               PROVE  u \in missed \cup starved
    BY DEF WaitingOnlyIfMissed
  <2>1. Flow(u) /\ Chain(u) /\ Effects(u) /\ rescue[u] \in Callback
    BY DEF IInv, UploadInv, TypeOK
  <2>2. rescue[u].pc # "unset"
    BY <2>1 DEF IInv, UploadInv, Flow, HasCommitted
  <2>3. rescue[u].pc \in {"done", "unsent", "skipped", "error"}
    BY <2>1, <2>2 DEF Chain, AtWork, Callback
  <2> QED BY <2>1, <2>3 DEF Flow, Effects, Effect, Final
<1> QED
  BY <1>1, UploadInductive, PTL

(* With S3 the row carries its final status when it is committed, and its  *)
(* file is stored.                                                         *)
THEOREM S3SettlesAtCommit == Spec => []SettledAtCommit
<1>1. IInv => SettledAtCommit
  <2> SUFFICES ASSUME IInv, storage = "s3", NEW u \in Uploads
               PROVE  /\ HasCommitted(u) => row[u] \in {"SUCCESS", "FAILED"}
                      /\ row[u] # "none" => file[u] = "full"
    BY DEF SettledAtCommit
  <2>1. Flow(u) /\ OnTheSpot(u)
    BY DEF IInv, UploadInv
  <2> QED BY <2>1 DEF Flow, OnTheSpot, Final
<1> QED
  BY <1>1, UploadInductive, PTL
=============================================================================
