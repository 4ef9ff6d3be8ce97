------------------------------ MODULE Firestore ------------------------------
(***************************************************************************)
(* The Firestore client of every phone, and the backend's documents, as    *)
(* far as the app can tell them apart.                                     *)
(*                                                                         *)
(* A write is appended to the phone's persistent mutation queue and sent   *)
(* up the write stream.  The backend applies the writes of one phone in    *)
(* queue order and answers them in that order; the answer takes the write  *)
(* off the queue and runs its completion block on the main queue.  When    *)
(* the stream is reopened every write that was sent but not answered is    *)
(* sent again, so the backend may apply it twice.                          *)
(*                                                                         *)
(* A write is a record with at least the fields doc (the document it       *)
(* addresses), val (what it stores there) and then (which completion block *)
(* its answer runs, "none" when there is none).  The value of an           *)
(* existence-only document (setData([:]) / delete()) is TRUE or FALSE.     *)
(***************************************************************************)
EXTENDS Integers, Sequences

CONSTANTS Devices,     \* the phones
          MaxPipeline  \* kMaxPendingWrites: writes sent and not yet answered

ASSUME PipelineAssumption == MaxPipeline \in Nat \ {0}

VARIABLES db,      \* document -> value, at the backend
          queue,   \* phone -> its mutation queue, oldest first
          applied  \* phone -> how many of these, from the front, are applied

storeVars == <<db, queue, applied>>

(* The backend applies the next write of the phone's pipeline. *)
Commit(d) ==
  /\ applied[d] < Len(queue[d])
  /\ applied[d] < MaxPipeline
  /\ LET w == queue[d][applied[d] + 1]
     IN  db' = [db EXCEPT ![w.doc] = w.val]
  /\ applied' = [applied EXCEPT ![d] = @ + 1]
  /\ UNCHANGED queue

(* The write stream is reopened: the whole pipeline is sent once more. *)
Reopen(d) ==
  /\ applied[d] > 0
  /\ applied' = [applied EXCEPT ![d] = 0]
  /\ UNCHANGED <<db, queue>>

(* A new write enters the mutation queue. *)
Enqueue(d, w) ==
  /\ queue' = [queue EXCEPT ![d] = Append(@, w)]
  /\ UNCHANGED <<db, applied>>

(* A list of writes enters the mutation queue, in its order. *)
EnqueueAll(d, ws) ==
  /\ queue' = [queue EXCEPT ![d] = @ \o ws]
  /\ UNCHANGED <<db, applied>>

(* Variants of Answered: the count is not brought down; answers wait until
   the pipeline is full. *)
Answered_KeepsCount(d) ==
  /\ queue[d] # <<>>
  /\ applied[d] > 0
  /\ UNCHANGED applied

Answered_WhenFull(d) ==
  /\ queue[d] # <<>>
  /\ applied[d] = MaxPipeline
  /\ applied' = [applied EXCEPT ![d] = @ - 1]

(* The phone learns that its oldest write was applied ... *)
Answered(d) == 
  /\ queue[d] # <<>>
  /\ applied[d] > 0
  /\ applied' = [applied EXCEPT ![d] = @ - 1]

(* ... or that the backend refuses it for good; every write before it has
   been answered and the stream was closed, so nothing after it is applied. *)
Refused(d) ==
  /\ queue[d] # <<>>
  /\ applied[d] = 0
  /\ UNCHANGED applied

(* Either answer removes the write; its completion block runs and may write. *)
Dequeue(d) ==
  queue' = [queue EXCEPT ![d] = Tail(@)]

DequeueThenEnqueue(d, w) ==
  queue' = [queue EXCEPT ![d] = Append(Tail(@), w)]

(* What a read returns on phone d: the phone's own pending writes overlay
   what the backend holds. *)
PendingOn(d, doc) ==
  {i \in 1..Len(queue[d]) : queue[d][i].doc = doc}

LocalView(d, doc) ==
  IF PendingOn(d, doc) = {}
  THEN db[doc]
  ELSE LET i == CHOOSE i \in PendingOn(d, doc) :
                  \A j \in PendingOn(d, doc) : j <= i
       IN  queue[d][i].val

(* The process dies: the queue is on disk and survives, the completion blocks
   do not, and what was not answered will be sent again. *)
Forgotten(w) == [w EXCEPT !.then = "none"]

LoseProcess(d) ==
  /\ queue' = [queue EXCEPT ![d] = [i \in DOMAIN @ |-> Forgotten(@[i])]]
  /\ applied' = [applied EXCEPT ![d] = 0]
  /\ UNCHANGED db
==============================================================================
