---------------------------- MODULE WritePipeline ----------------------------
(***************************************************************************)
(* The write path of the Firestore client on one phone in detail: the      *)
(* mutation queues of its users in LevelDB, SyncEngine with the completion *)
(* callbacks, RemoteStore with the write pipeline, the write stream and    *)
(* the wire, and changes of the user.  It implements Firestore.tla, which  *)
(* the other modules are built on, with one "device" per user.             *)
(*                                                                         *)
(* Every action is one task of the worker queue, or the backend's.  The    *)
(* backend (external) takes the messages of a stream in order; what is on  *)
(* the wire when a stream is closed is lost.                               *)
(*                                                                         *)
(* Bounds: MaxWrites writes, MaxFailures broken, refused or restarted      *)
(* streams, changes of user and ends of the process in all.                *)
(***************************************************************************)
EXTENDS Integers, Sequences, FiniteSetsExt, SequencesExt

CONSTANTS Accounts,     \* the users of the phone, signed in one after the other
          Docs,
          MaxPipeline,  \* kMaxPendingWrites
          MaxWrites, MaxFailures

ASSUME WritePipelineAssumption ==
  /\ MaxPipeline \in Nat \ {0}
  /\ MaxWrites \in Nat /\ MaxFailures \in Nat

VARIABLES db,         \* document -> the write it was last set by, 0 at the start
          user,       \* current_user_
          batches,    \* user -> mutation queue
          nextId,     \* next_batch_id_ of the queue that is loaded
          callbacks,  \* mutation_callbacks_: [user, id, n], n the write waited for
          pipeline,   \* write_pipeline_
          stream,     \* state_, "ready" when the handshake is complete
          idle,       \* the idleness timer runs
          up, down,   \* messages on the wire
          count,      \* writes made
          failures,   \* of the bound
          ran         \* history: <<n, m>>, the answer of n ran the callback of m

wireVars   == <<pipeline, stream, idle, up, down>>
diskVars   == <<batches, nextId>>
clientVars == <<user, diskVars, callbacks, ran>>
boundVars  == <<count, failures>>
allVars    == <<db, clientVars, wireVars, boundVars>>

Ids == 1..MaxWrites

(* What opens the stream: a message like a write of no number. *)
Handshake == [id |-> 0, n |-> 0, doc |-> CHOOSE doc \in Docs : TRUE]

Opened  == {"open", "ready"}
Started == Opened \cup {"starting", "backoff"}

PipelineInit ==
  /\ db = [x \in Docs |-> 0]
  /\ user \in Accounts
  /\ batches = [u \in Accounts |-> <<>>]
  /\ nextId = 1
  /\ callbacks = {} /\ ran = {}
  /\ pipeline = <<>>
  /\ stream = "initial"
  /\ idle = FALSE
  /\ up = <<>> /\ down = <<>>
  /\ count = 0 /\ failures = 0

Failing == failures < MaxFailures /\ failures' = failures + 1

-----------------------------------------------------------------------------
(* RemoteStore::FillWritePipeline: from pipe, a pipeline of the queue, the
   pipeline is filled; what is added is sent if the stream, in state st and
   with sent on its wire, is ready, and the stream is started if need be. *)

Rest(queue, pipe) ==
  LET later == {i \in DOMAIN queue : pipe = <<>> \/ queue[i].id > Last(pipe).id}
  IN  IF later = {} THEN <<>> ELSE SubSeq(queue, Min(later), Len(queue))

Filled(queue, pipe) ==
  LET rest == Rest(queue, pipe)
      room == MaxPipeline - Len(pipe)
  IN  pipe \o SubSeq(rest, 1, Min({room, Len(rest)}))

Start(st) == IF st = "error" THEN "backoff" ELSE "starting"

(* Variant: what is added is sent on a stream that is merely open. *)
FillWritePipeline_SendsEarly(queue, pipe, st, sent) ==
  LET new == SubSeq(Filled(queue, pipe), Len(pipe) + 1, Len(Filled(queue, pipe)))
  IN  /\ pipeline' = pipe \o new
      /\ up' = IF st \in Opened THEN sent \o new ELSE sent
      /\ stream' = IF pipeline' # <<>> /\ st \notin Started THEN Start(st) ELSE st
      /\ idle' = (st \in Opened /\ up' = sent /\ (idle \/ pipeline' = <<>>))

FillWritePipeline(queue, pipe, st, sent) ==
  LET new == SubSeq(Filled(queue, pipe), Len(pipe) + 1, Len(Filled(queue, pipe)))
  IN  /\ pipeline' = pipe \o new
      /\ up' = IF st = "ready" THEN sent \o new ELSE sent
      /\ stream' = IF pipeline' # <<>> /\ st \notin Started THEN Start(st) ELSE st
      /\ idle' = (st \in Opened /\ up' = sent /\ (idle \/ pipeline' = <<>>))

(* SyncEngine::NotifyUser; the variant does not erase the callback. *)
NotifyUser_Keeps(batch) ==
  /\ ran' = ran \cup {<<batch.n, c.n>> : c \in {c \in callbacks : c.user = user /\ c.id = batch.id}}
  /\ UNCHANGED callbacks

NotifyUser(batch) ==
  LET found == {c \in callbacks : c.user = user /\ c.id = batch.id}
  IN  /\ ran' = ran \cup {<<batch.n, c.n>> : c \in found}
      /\ callbacks' = callbacks \ found

Removed(batch) ==
  RemoveAt(batches[user], CHOOSE i \in DOMAIN batches[user] : batches[user][i].id = batch.id)

-----------------------------------------------------------------------------
(* SyncEngine::WriteMutations; insert keeps a callback that is there. *)
WriteMutations(doc) ==
  /\ count < MaxWrites
  /\ count' = count + 1
  /\ batches' = [batches EXCEPT ![user] =
                   Append(@, [id |-> nextId, n |-> count', doc |-> doc])]
  /\ nextId' = nextId + 1
  /\ callbacks' = IF \E c \in callbacks : c.user = user /\ c.id = nextId
                  THEN callbacks
                  ELSE callbacks \cup {[user |-> user, id |-> nextId, n |-> count']}
  /\ FillWritePipeline(batches'[user], pipeline, stream, up)
  /\ UNCHANGED <<db, user, down, failures, ran>>

(* The stream opens and the client asks for a handshake. *)
OnWriteStreamOpen ==
  /\ stream = "starting"
  /\ stream' = "open"
  /\ up' = <<Handshake>>
  /\ UNCHANGED <<db, clientVars, boundVars, pipeline, idle, down>>

BackoffElapsed ==
  /\ stream = "backoff"
  /\ stream' = "starting"
  /\ UNCHANGED <<db, clientVars, boundVars, pipeline, idle, up, down>>

Arrives(message) == down # <<>> /\ Head(down) = message /\ down' = Tail(down)

(* The whole pipeline is sent. *)
OnWriteStreamHandshakeComplete ==
  /\ Arrives("handshake")
  /\ stream' = "ready"
  /\ up' = up \o pipeline
  /\ idle' = (idle /\ pipeline = <<>>)
  /\ UNCHANGED <<db, clientVars, boundVars, pipeline>>

(* Variant: the slot that has become free is not filled. *)
OnWriteStreamMutationResult_NoRefill ==
  /\ Arrives("ok")
  /\ batches' = [batches EXCEPT ![user] = Removed(Head(pipeline))]
  /\ NotifyUser(Head(pipeline))
  /\ pipeline' = Tail(pipeline)
  /\ UNCHANGED <<db, user, nextId, boundVars, stream, idle, up>>

(* The result is that of the first write in the pipeline. *)
OnWriteStreamMutationResult ==
  /\ Arrives("ok")
  /\ batches' = [batches EXCEPT ![user] = Removed(Head(pipeline))]
  /\ NotifyUser(Head(pipeline))
  /\ FillWritePipeline(batches'[user], Tail(pipeline), stream, up)
  /\ UNCHANGED <<db, user, nextId, boundVars>>

(* A permanent error after the handshake: HandleWriteError gives up the first
   write; the stream starts again without a pause. *)
HandleWriteError ==
  /\ Arrives("refused") /\ stream = "ready" /\ pipeline # <<>>
  /\ batches' = [batches EXCEPT ![user] = Removed(Head(pipeline))]
  /\ NotifyUser(Head(pipeline))
  /\ FillWritePipeline(batches'[user], Tail(pipeline), "initial", <<>>)
  /\ UNCHANGED <<db, user, nextId, boundVars>>

(* Any other error leaves the pipeline; the stream starts again if it is
   needed, after a pause. *)
CloseWithError ==
  /\ stream' = IF pipeline = <<>> THEN "error" ELSE "backoff"
  /\ idle' = FALSE /\ up' = <<>> /\ down' = <<>>
  /\ UNCHANGED <<db, clientVars, count, pipeline>>

HandleHandshakeError ==
  /\ Arrives("refused") /\ (stream = "open" \/ pipeline = <<>>)
  /\ stream' = IF pipeline = <<>> THEN "error" ELSE "backoff"
  /\ idle' = FALSE /\ up' = <<>>
  /\ UNCHANGED <<db, clientVars, boundVars, pipeline>>

Broken ==
  /\ stream \in Opened \cup {"starting"}
  /\ Failing
  /\ CloseWithError

(* Nothing was written for a while: the stream is stopped. *)
IdleTimeout ==
  /\ idle
  /\ stream' = "initial"
  /\ idle' = FALSE /\ up' = <<>> /\ down' = <<>>
  /\ UNCHANGED <<db, clientVars, boundVars, pipeline>>

-----------------------------------------------------------------------------
(* LevelDbMutationQueue::Start looks for the highest id of all users, in the
   last row of each. *)
LoadNextBatchId ==
  1 + Max({0} \cup {Last(batches[u]).id : u \in {v \in Accounts : batches[v] # <<>>}})

(* RemoteStore::RestartNetwork: the pipeline is dropped and filled anew. *)
RestartNetwork_KeepsPipeline(u) ==
  /\ FillWritePipeline(batches[u], pipeline, "initial", <<>>)
  /\ down' = <<>>

RestartNetwork(u) ==
  /\ FillWritePipeline(batches[u], <<>>, "initial", <<>>)
  /\ down' = <<>>

(* SyncEngine::HandleCredentialChange, also with a new token of the same user;
   RestartNetwork is called when the connectivity changes, too. *)
HandleCredentialChange(u) ==
  /\ Failing
  /\ user' = u
  /\ nextId' = IF u = user THEN nextId ELSE LoadNextBatchId
  /\ RestartNetwork(u)
  /\ UNCHANGED <<db, batches, callbacks, count, ran>>

(* The process ends and is started again: the callbacks are gone. *)
Restart ==
  /\ Failing
  /\ callbacks' = {}
  /\ nextId' = LoadNextBatchId
  /\ RestartNetwork(user)
  /\ UNCHANGED <<db, user, batches, count, ran>>

-----------------------------------------------------------------------------
(* The backend: a handshake or a write is answered, or refused, which ends the
   stream. *)
Receive ==
  /\ up # <<>> /\ "refused" \notin ToSet(down)
  /\ up' = Tail(up)
  /\ \/ /\ down' = Append(down, IF Head(up) = Handshake THEN "handshake" ELSE "ok")
        /\ db' = IF Head(up) = Handshake THEN db
                 ELSE [db EXCEPT ![Head(up).doc] = Head(up).n]
        /\ UNCHANGED failures
     \/ /\ Failing
        /\ down' = Append(down, "refused")
        /\ UNCHANGED db
  /\ UNCHANGED <<clientVars, count, pipeline, stream, idle>>

-----------------------------------------------------------------------------
Stream ==
  \/ OnWriteStreamOpen \/ BackoffElapsed \/ OnWriteStreamHandshakeComplete
  \/ OnWriteStreamMutationResult \/ HandleWriteError \/ HandleHandshakeError

PipelineNext ==
  \/ \E doc \in Docs : WriteMutations(doc)
  \/ \E u \in Accounts : HandleCredentialChange(u)
  \/ Stream \/ Receive \/ Broken \/ IdleTimeout \/ Restart

PipelineSpec == PipelineInit /\ [][PipelineNext]_allVars

(* The client's tasks run, and the backend answers a stream that stays open. *)
FairPipelineSpec == PipelineSpec /\ WF_allVars(Stream) /\ WF_allVars(Receive)

-----------------------------------------------------------------------------
(* Properties. *)

Answers == Cardinality({i \in DOMAIN down : down[i] = "ok"})

(* The HARD_ASSERTs of the write path hold: the pipeline is never over-full,
   results come while writes wait for them (remote_store.cc:437), a handshake
   is answered once, what is answered or refused is still in the queue of the
   user it came from (local_store.cc:231, leveldb_mutation_queue.cc:196), and
   the idle stream is stopped only when it is not needed (remote_store.cc:456). *)
AssertionsHold ==
  /\ Len(pipeline) <= MaxPipeline
  /\ Answers <= Len(pipeline)
  /\ Handshake \in ToSet(up) \/ "handshake" \in ToSet(down) => stream = "open"
  /\ \A i \in DOMAIN pipeline : pipeline[i] \in ToSet(batches[user])
  /\ idle => pipeline = <<>> /\ stream \in Opened

(* The answer of a write runs the callback given with that write, and no
   other's, although ids start again from what is left in the queues after a
   change of user or a restart and callbacks wait for their user's return. *)
OwnCallback == \A x \in ran : x[1] = x[2]

(* Firestore.tla with a queue for each user of the phone. *)
Waiting(u, b) == \E c \in callbacks : c.user = u /\ c.id = b.id /\ c.n = b.n

AbstractQueue ==
  [u \in Accounts |-> [i \in DOMAIN batches[u] |->
     [doc  |-> batches[u][i].doc, val |-> batches[u][i].n,
      then |-> IF Waiting(u, batches[u][i]) THEN "done" ELSE "none"]]]

AbstractApplied == [u \in Accounts |-> IF u = user THEN Answers ELSE 0]

Store == INSTANCE Firestore WITH
  Devices <- Accounts, queue <- AbstractQueue, applied <- AbstractApplied

StoreNext ==
  \/ \E u \in Accounts :
       \/ Store!Commit(u) \/ Store!Reopen(u)
       \/ \E w \in [doc : Docs, val : 1..MaxWrites, then : {"done"}] : Store!Enqueue(u, w)
       \/ (Store!Answered(u) \/ Store!Refused(u)) /\ Store!Dequeue(u) /\ UNCHANGED db
  \/ /\ \A u \in Accounts : \A i \in DOMAIN batches[u] : ~Waiting(u, batches[u][i])'
     /\ UNCHANGED <<db, batches>>
     /\ Answers' = 0

(* The client implements the abstract one: the backend applies the writes of
   the signed-in user in queue order, each is answered in that order and with
   its callback, a reopened stream starts from the first unanswered write, a
   change of user is no more than that, and the end of the process leaves the
   queues. *)
StoreSpec ==
  /\ \A u \in Accounts : batches[u] = <<>>
  /\ [][StoreNext]_(Store!storeVars)

(* A write does not stay queued while its user stays signed in: the stream is
   started, restarted and refilled whenever there is something to send. *)
Queued(u, n) == \E b \in ToSet(batches[u]) : b.n = n

WritesAnswered ==
  \A u \in Accounts, n \in 1..MaxWrites :
    (Queued(u, n) /\ user = u) ~> (~Queued(u, n) \/ user # u)
=============================================================================
