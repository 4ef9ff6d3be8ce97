------------------------------ MODULE LikesProof ------------------------------
(***************************************************************************)
(* Proofs about Likes.tla, for any number of phones, users, posts, taps    *)
(* and faults: no counter is set below zero, nobody is notified of a like  *)
(* that was not stored, the two flags of a like are a directory, and the   *)
(* counter of a post is the number of its likers.                          *)
(***************************************************************************)
EXTENDS Likes, QueueFacts, FiniteSetTheorems, TLAPS

-----------------------------------------------------------------------------
(* The inductive invariant.  A counter is set to one less only for a tap on a
   cell that showed a like, whatever has become of the cell since; so the tap
   has to be remembered as sensible in the block, in the writes and in the
   completion, which computes the number once more. *)

Sensible(tap) == tap.like \/ tap.likes > 0

Vals    == Nat \cup BOOLEAN
Records == [doc : Docs, val : Vals, then : {"user", "done", "none"}, tap : Taps]

(* A write of phone d: a number for a counter and a flag for a flag; the two
   flags of a tap tell what the tap did, and a notification is of a like that
   was stored. *)
LikeWrite(d, w) ==
  /\ WriteOK(w)
  /\ Sensible(w.tap)
  /\ w.then \in {"user", "done"} => w.val = w.tap.like
  /\ w.then = "done" => w.doc = UserLikeDoc(Account[d], w.tap.post)
  /\ \A p \in Posts, u \in Users : w.doc = NotificationDoc(p, u) => <<u, p>> \in wasLiked

(* The last write of a like that is applied has stored it. *)
AppliedLike(d, w) ==
  w.then = "done" /\ w.tap.like => <<Account[d], w.tap.post>> \in wasLiked

LikeBlock(b) ==
  /\ Sensible(b.tap)
  /\ b.kind = "notify" => <<Account[b.dev], b.tap.post>> \in wasLiked

DocumentsOK ==
  /\ DOMAIN db = Docs
  /\ \A x \in Docs : IF x \in Counters THEN db[x] \in Nat ELSE db[x] \in BOOLEAN

StoreOK ==
  /\ DocumentsOK
  /\ queue \in [Devices -> Seq(Records)]
  /\ applied \in [Devices -> Nat]
  /\ \A d \in Devices : applied[d] <= Len(queue[d])

QueueOK(d) ==
  /\ \A i \in 1..Len(queue[d]) : LikeWrite(d, queue[d][i])
  /\ \A i \in 1..applied[d] : AppliedLike(d, queue[d][i])

ScreensOK ==
  /\ taps \in [Devices -> 0..MaxTaps]
  /\ listed \in [Devices -> BOOLEAN]
  /\ list \in [Devices -> [Posts -> Item]]
  /\ cells \in [Devices -> [Posts -> Item]]
  /\ mark \in [Devices -> Nat]
  /\ \A d \in Devices : mark[d] <= taps[d]

OthersOK ==
  /\ fetching \in [Devices -> BOOLEAN]
  /\ checks \subseteq Devices \X Posts
  /\ failed \in [Devices -> {"none", "crash", "reject", "readfail"}]
  /\ wasLiked \subseteq Users \X Posts
  /\ stale \subseteq Posts

LikesInv ==
  /\ StoreOK
  /\ ScreensOK
  /\ OthersOK
  /\ \A d \in Devices : QueueOK(d)
  /\ blocks \subseteq Blocks
  /\ \A b \in blocks : LikeBlock(b)
  /\ LikedFirst

LEMMA InvType == LikesInv => TypeOK
<1> SUFFICES ASSUME LikesInv PROVE TypeOK
  OBVIOUS
<1>1. \A d \in Devices : \A i \in 1..Len(queue[d]) : WriteOK(queue[d][i])
  BY DEF LikesInv, QueueOK, LikeWrite
<1>2. ASSUME NEW d \in Devices PROVE applied[d] \in 0..Len(queue[d])
  <2>1. applied[d] \in Nat /\ Len(queue[d]) \in Nat /\ applied[d] <= Len(queue[d])
    BY DEF LikesInv, StoreOK
  <2> QED BY <2>1
<1>3. ASSUME NEW d \in Devices PROVE mark[d] \in 0..taps[d]
  <2>1. mark[d] \in Nat /\ taps[d] \in 0..MaxTaps /\ mark[d] <= taps[d]
    BY DEF LikesInv, ScreensOK
  <2> QED BY <2>1, LikesAssumption DEF LikesAssumption
<1> QED BY <1>1, <1>2, <1>3 DEF LikesInv, StoreOK, DocumentsOK, ScreensOK, OthersOK, TypeOK

-----------------------------------------------------------------------------
(* The documents. *)

LEMMA AccountType == \A d \in Devices : Account[d] \in Users
BY PhoneAssumption DEF PhoneAssumption

LEMMA DocsType ==
  ASSUME NEW u \in Users, NEW p \in Posts
  PROVE  /\ LikesDoc(p) \in Counters /\ LikesDoc(p) \in Docs
         /\ PostLikeDoc(p, u) \in Docs \ Counters
         /\ UserLikeDoc(u, p) \in Docs \ Counters
         /\ NotificationDoc(p, u) \in Docs \ Counters
<1>1. /\ PostLikeDoc(p, u)[1] = "post-likes" /\ NotificationDoc(p, u)[1] = "user-notifications"
      /\ UserLikeDoc(u, p)[1] = "user-likes"
  BY DEF PostLikeDoc, UserLikeDoc, NotificationDoc
<1>2. \A x \in Counters : x[1] = "posts"
  BY DEF Counters, LikesDoc
<1>3. LikesDoc(p) \in Counters
  BY DEF Counters
<1>4. /\ PostLikeDoc(p, u) \in Docs /\ UserLikeDoc(u, p) \in Docs
      /\ NotificationDoc(p, u) \in Docs
  BY DEF Docs, Flags, PostLikeDoc, UserLikeDoc, NotificationDoc
<1> QED BY <1>1, <1>2, <1>3, <1>4 DEF Docs

LEMMA DocsApart ==
  ASSUME NEW u, NEW p, NEW v, NEW q
  PROVE  /\ LikesDoc(p) # NotificationDoc(q, v)
         /\ PostLikeDoc(p, u) # NotificationDoc(q, v)
         /\ UserLikeDoc(u, p) # NotificationDoc(q, v)
         /\ NotificationDoc(p, u) = NotificationDoc(q, v) => p = q /\ u = v
         /\ UserLikeDoc(u, p) = UserLikeDoc(v, q) => p = q /\ u = v
<1>1. /\ LikesDoc(p)[1] = "posts" /\ PostLikeDoc(p, u)[1] = "post-likes"
      /\ NotificationDoc(q, v)[1] = "user-notifications" /\ UserLikeDoc(u, p)[1] = "user-likes"
  BY DEF LikesDoc, PostLikeDoc, UserLikeDoc, NotificationDoc
<1>2. NotificationDoc(p, u) = NotificationDoc(q, v) => p = q /\ u = v
  BY DEF NotificationDoc
<1>3. UserLikeDoc(u, p) = UserLikeDoc(v, q) => p = q /\ u = v
  BY DEF UserLikeDoc
<1> QED BY <1>1, <1>2, <1>3

LEMMA TapsType ==
  ASSUME NEW tap \in Taps
  PROVE  /\ tap.n \in 1..MaxTaps /\ tap.post \in Posts /\ tap.like \in BOOLEAN
         /\ tap.likes \in Nat
         /\ Sensible(tap) => Outcome(tap) \in Nat
BY DEF Taps, Sensible, Outcome

-----------------------------------------------------------------------------
(* The initial state. *)

LEMMA InitLikesInv == Init => LikesInv
<1> SUFFICES ASSUME Init PROVE LikesInv
  OBVIOUS
<1> USE DEF Init
<1>1. ASSUME NEW p \in Posts PROVE Cardinality({y \in InitLikes : y[2] = p}) \in Nat
  <2> DEFINE S == {y \in InitLikes : y[2] = p}
  <2>1. IsFiniteSet(Users \X {p})
    BY LikesAssumption, FS_Singleton, FS_Product DEF LikesAssumption
  <2>2. S \subseteq Users \X {p}
    BY LikesAssumption DEF LikesAssumption
  <2> QED BY <2>1, <2>2, FS_Subset, FS_CardinalityType
<1>2. DocumentsOK
  <2>1. ASSUME NEW x \in Counters PROVE db[x] \in Nat
    <3>1. PICK p \in Posts : x = LikesDoc(p)
      BY DEF Counters
    <3>2. x[2] = p /\ x \in Docs
      BY <3>1 DEF LikesDoc, Docs
    <3>3. db[x] = Cardinality({y \in InitLikes : y[2] = p})
      BY <2>1, <3>2
    <3> QED BY <1>1, <3>3
  <2>2. ASSUME NEW x \in Docs \ Counters PROVE db[x] \in BOOLEAN
    <3>1. db[x] = (x[1] # "user-notifications" /\ <<x[3], x[2]>> \in InitLikes)
      BY <2>2
    <3> QED BY <3>1
  <2> QED BY <2>1, <2>2 DEF DocumentsOK
<1>3. \A d \in Devices : queue[d] = <<>> /\ applied[d] = 0 /\ Len(queue[d]) = 0
  OBVIOUS
<1>4. StoreOK
  <2>1. queue \in [Devices -> Seq(Records)] /\ applied \in [Devices -> Nat]
    OBVIOUS
  <2> QED BY <1>2, <1>3, <2>1 DEF StoreOK
<1>5. \A d \in Devices : QueueOK(d)
  <2>1. 1..0 = {}
    OBVIOUS
  <2> QED BY <1>3, <2>1 DEF QueueOK
<1>6. ScreensOK
  <2>1. [p \in Posts |-> Blank] \in [Posts -> Item]
    BY DEF Blank, Item
  <2>2. taps \in [Devices -> 0..MaxTaps] /\ mark \in [Devices -> Nat]
    BY LikesAssumption DEF LikesAssumption
  <2>3. ASSUME NEW d \in Devices PROVE mark[d] <= taps[d]
    <3>1. mark[d] = 0 /\ taps[d] = 0
      OBVIOUS
    <3> QED BY <3>1
  <2>4. listed \in [Devices -> BOOLEAN]
    OBVIOUS
  <2>5. list \in [Devices -> [Posts -> Item]] /\ cells = list
    BY <2>1
  <2> QED BY <2>2, <2>3, <2>4, <2>5 DEF ScreensOK
<1>7. OthersOK
  BY LikesAssumption DEF OthersOK, LikesAssumption, NoFailures
<1>8. LikedFirst
  <2>1. ASSUME NEW p \in Posts, NEW u \in Users PROVE ~db[NotificationDoc(p, u)]
    <3>1. NotificationDoc(p, u) \in Docs \ Counters /\ NotificationDoc(p, u)[1] = "user-notifications"
      BY DocsType DEF NotificationDoc
    <3> QED BY <3>1
  <2> QED BY <2>1 DEF LikedFirst
<1>9. blocks = {}
  OBVIOUS
<1> QED BY <1>4, <1>5, <1>6, <1>7, <1>8, <1>9 DEF LikesInv

-----------------------------------------------------------------------------
(* The store: nothing that was liked is forgotten, and the queue operations of
   Firestore.tla keep what is known of the writes. *)

LEMMA WriteStays ==
  ASSUME wasLiked \subseteq wasLiked', NEW d, NEW w, LikeWrite(d, w)
  PROVE  LikeWrite(d, w)'
BY DEF LikeWrite

LEMMA AppliedStays ==
  ASSUME wasLiked \subseteq wasLiked', NEW d, NEW w, AppliedLike(d, w)
  PROVE  AppliedLike(d, w)'
BY DEF AppliedLike

LEMMA BlockStays ==
  ASSUME wasLiked \subseteq wasLiked', NEW b, LikeBlock(b)
  PROVE  LikeBlock(b)'
BY DEF LikeBlock

LEMMA QueueNext ==
  ASSUME NEW d \in Devices, NEW q, NEW a, queue'[d] = q, applied'[d] = a,
         \A i \in 1..Len(q) : LikeWrite(d, q[i])',
         \A i \in 1..a : AppliedLike(d, q[i])'
  PROVE  QueueOK(d)'
BY DEF QueueOK, LikeWrite, AppliedLike

LEMMA QueueParts ==
  ASSUME wasLiked \subseteq wasLiked', NEW d \in Devices, NEW q, NEW a,
         queue'[d] = q, applied'[d] = a,
         \A i \in 1..Len(q) : LikeWrite(d, q[i]),
         \A i \in 1..a : AppliedLike(d, q[i])
  PROVE  QueueOK(d)'
<1>1. \A i \in 1..Len(q) : LikeWrite(d, q[i])'
  BY WriteStays
<1>2. \A i \in 1..a : AppliedLike(d, q[i])'
  BY AppliedStays
<1> QED BY <1>1, <1>2, QueueNext

LEMMA SameQueue ==
  ASSUME wasLiked \subseteq wasLiked', NEW d \in Devices, QueueOK(d),
         queue'[d] = queue[d], applied'[d] = applied[d]
  PROVE  QueueOK(d)'
BY QueueParts DEF QueueOK

QueuesOK == StoreOK /\ \A d \in Devices : QueueOK(d)

LEMMA StoreUnchanged ==
  ASSUME QueuesOK, UNCHANGED storeVars, UNCHANGED wasLiked
  PROVE  QueuesOK'
<1>1. StoreOK'
  BY DEF QueuesOK, StoreOK, DocumentsOK, storeVars
<1>2. ASSUME NEW d \in Devices PROVE QueueOK(d)'
  BY SameQueue DEF QueuesOK, storeVars
<1> QED BY <1>1, <1>2 DEF QueuesOK

LEMMA EnqueueKeeps ==
  ASSUME QueuesOK, UNCHANGED wasLiked, NEW d \in Devices, NEW w \in Records,
         LikeWrite(d, w), Enqueue(d, w)
  PROVE  QueuesOK'
<1>1. /\ queue \in [Devices -> Seq(Records)] /\ applied \in [Devices -> Nat]
      /\ queue' = [queue EXCEPT ![d] = Append(queue[d], w)] /\ applied' = applied
      /\ \A e \in Devices : applied[e] <= Len(queue[e])
  BY DEF QueuesOK, StoreOK, Enqueue
<1>2. /\ Len(queue[d]) \in Nat /\ Len(queue'[d]) = Len(queue[d]) + 1
      /\ \A i \in 1..Len(queue[d]) : queue'[d][i] = queue[d][i]
      /\ queue'[d][Len(queue[d]) + 1] = w
  BY <1>1
<1>3. StoreOK'
  BY <1>1, <1>2 DEF QueuesOK, StoreOK, DocumentsOK, Enqueue
<1>4. ASSUME NEW i \in 1..Len(queue'[d]) PROVE LikeWrite(d, queue'[d][i])
  <2>1. CASE i \in 1..Len(queue[d])
    BY <1>2, <2>1 DEF QueuesOK, QueueOK
  <2>2. CASE i = Len(queue[d]) + 1
    BY <1>2, <2>2
  <2> QED BY <1>2, <2>1, <2>2
<1>5. ASSUME NEW i \in 1..applied'[d] PROVE AppliedLike(d, queue'[d][i])
  <2>1. i \in 1..applied[d] /\ i \in 1..Len(queue[d])
    BY <1>1, <1>2
  <2> QED BY <1>2, <2>1 DEF QueuesOK, QueueOK
<1>6. QueueOK(d)'
  BY <1>4, <1>5, QueueParts
<1>7. ASSUME NEW e \in Devices \ {d} PROVE QueueOK(e)'
  BY <1>1, SameQueue DEF QueuesOK
<1> QED BY <1>3, <1>6, <1>7 DEF QueuesOK

(* What an answer finds. *)
LEMMA AnswerFacts ==
  ASSUME QueuesOK, NEW d \in Devices, NEW then, Answer(d, then)
  PROVE  /\ queue[d] \in Seq(Records) /\ queue[d] # <<>>
         /\ Oldest(d) \in Records /\ Oldest(d).then = then
         /\ LikeWrite(d, Oldest(d))
         /\ applied[d] > 0 => AppliedLike(d, Oldest(d))
         /\ applied' \in [Devices -> Nat]
         /\ applied'[d] = applied[d] - 1 \/ (applied'[d] = 0 /\ applied[d] = 0)
         /\ \A e \in Devices \ {d} : applied'[e] = applied[e]
<1>1. /\ queue[d] \in Seq(Records) /\ queue[d] # <<>> /\ Len(queue[d]) \in Nat \ {0}
      /\ applied \in [Devices -> Nat]
  BY DEF QueuesOK, StoreOK, Answer, Answered, Refused
<1>2. Oldest(d) = queue[d][1] /\ 1 \in 1..Len(queue[d]) /\ Oldest(d) \in Records
  BY <1>1 DEF Oldest
<1>3. LikeWrite(d, Oldest(d))
  BY <1>2 DEF QueuesOK, QueueOK
<1>4. applied[d] > 0 => AppliedLike(d, Oldest(d))
  <2>1. applied[d] > 0 => 1 \in 1..applied[d]
    BY <1>1
  <2> QED BY <1>2, <2>1 DEF QueuesOK, QueueOK
<1>5. /\ applied' \in [Devices -> Nat]
      /\ applied'[d] = applied[d] - 1 \/ (applied'[d] = 0 /\ applied[d] = 0)
      /\ \A e \in Devices \ {d} : applied'[e] = applied[e]
  BY <1>1 DEF Answer, Answered, Refused
<1> QED BY <1>1, <1>2, <1>3, <1>4, <1>5 DEF Answer

(* The answer takes the oldest write off, and may put one at the end. *)
LEMMA AnswerKeeps ==
  ASSUME QueuesOK, UNCHANGED <<db, wasLiked>>, NEW d \in Devices, NEW then, Answer(d, then),
         \/ Dequeue(d)
         \/ \E w \in Records : DequeueThenEnqueue(d, w) /\ LikeWrite(d, w)
  PROVE  QueuesOK'
<1>1. /\ queue \in [Devices -> Seq(Records)] /\ applied \in [Devices -> Nat]
      /\ \A e \in Devices : applied[e] <= Len(queue[e])
      /\ queue[d] \in Seq(Records) /\ queue[d] # <<>>
      /\ applied' \in [Devices -> Nat]
      /\ applied'[d] = applied[d] - 1 \/ (applied'[d] = 0 /\ applied[d] = 0)
      /\ \A e \in Devices \ {d} : applied'[e] = applied[e]
  BY AnswerFacts DEF QueuesOK, StoreOK
<1>2. /\ Tail(queue[d]) \in Seq(Records) /\ Len(queue[d]) \in Nat \ {0}
      /\ Len(Tail(queue[d])) = Len(queue[d]) - 1
      /\ \A i \in 1..Len(queue[d]) - 1 : Tail(queue[d])[i] = queue[d][i + 1]
  BY <1>1, TailFacts
<1>3. /\ queue' \in [Devices -> Seq(Records)]
      /\ \A e \in Devices \ {d} : queue'[e] = queue[e]
      /\ \A i \in 1..Len(queue[d]) - 1 : queue'[d][i] = queue[d][i + 1]
      /\ Len(queue'[d]) \in {Len(queue[d]) - 1, Len(queue[d])}
      /\ Len(queue'[d]) = Len(queue[d]) => LikeWrite(d, queue'[d][Len(queue[d])])
  <2>1. CASE Dequeue(d)
    <3>1. /\ queue' \in [Devices -> Seq(Records)] /\ queue'[d] = Tail(queue[d])
          /\ \A e \in Devices \ {d} : queue'[e] = queue[e]
      BY <1>1, <1>2, <2>1 DEF Dequeue
    <3>2. Len(queue'[d]) = Len(queue[d]) - 1 /\ Len(queue'[d]) # Len(queue[d])
      BY <1>2, <3>1
    <3> QED BY <1>2, <3>1, <3>2
  <2>2. ASSUME NEW w \in Records, DequeueThenEnqueue(d, w), LikeWrite(d, w)
        PROVE  /\ queue' \in [Devices -> Seq(Records)]
               /\ \A e \in Devices \ {d} : queue'[e] = queue[e]
               /\ \A i \in 1..Len(queue[d]) - 1 : queue'[d][i] = queue[d][i + 1]
               /\ Len(queue'[d]) = Len(queue[d])
               /\ queue'[d][Len(queue[d])] = w
    <3>1. queue' = [queue EXCEPT ![d] = Append(Tail(queue[d]), w)]
      BY <2>2 DEF DequeueThenEnqueue
    <3> QED BY <1>1, <1>2, <3>1
  <2> QED BY <2>1, <2>2
<1>4. StoreOK'
  <2>1. ASSUME NEW e \in Devices PROVE applied'[e] <= Len(queue'[e])
    <3>1. CASE e = d
      <4>1. /\ applied[d] \in Nat /\ applied[d] <= Len(queue[d])
            /\ Len(queue'[d]) = Len(queue[d]) - 1 \/ Len(queue'[d]) = Len(queue[d])
        BY <1>1, <1>3
      <4>2. Len(queue[d]) \in Nat \ {0}
        BY <1>2
      <4>3. applied'[d] <= Len(queue'[d])
        <5>1. applied'[d] = applied[d] - 1 \/ applied'[d] = 0
          BY <1>1
        <5> QED BY <4>1, <4>2, <5>1
      <4> QED BY <3>1, <4>3
    <3>2. CASE e # d
      BY <1>1, <1>3, <3>2
    <3> QED BY <3>1, <3>2
  <2> QED BY <1>1, <1>3, <2>1 DEF QueuesOK, StoreOK, DocumentsOK
<1>5. ASSUME NEW i \in 1..Len(queue'[d]) PROVE LikeWrite(d, queue'[d][i])
  <2>1. CASE i \in 1..Len(queue[d]) - 1
    <3>1. i + 1 \in 1..Len(queue[d])
      BY <1>2, <2>1
    <3> QED BY <1>3, <2>1, <3>1 DEF QueuesOK, QueueOK
  <2>2. CASE i \notin 1..Len(queue[d]) - 1
    <3>1. i = Len(queue[d]) /\ Len(queue'[d]) = Len(queue[d])
      BY <1>2, <1>3, <2>2
    <3> QED BY <1>3, <3>1
  <2> QED BY <2>1, <2>2
<1>6. ASSUME NEW i \in 1..applied'[d] PROVE AppliedLike(d, queue'[d][i])
  <2>1. i \in 1..Len(queue[d]) - 1 /\ i + 1 \in 1..applied[d]
    BY <1>1, <1>2
  <2> QED BY <1>3, <2>1 DEF QueuesOK, QueueOK
<1>7. QueueOK(d)'
  BY <1>5, <1>6, QueueParts
<1>8. ASSUME NEW e \in Devices \ {d} PROVE QueueOK(e)'
  BY <1>1, <1>3, SameQueue DEF QueuesOK
<1> QED BY <1>4, <1>7, <1>8 DEF QueuesOK

(* A reopened stream takes nothing back, the end of a process only callbacks. *)
LEMMA ResetKeeps ==
  ASSUME QueuesOK, UNCHANGED wasLiked, NEW d \in Devices, Reopen(d) \/ LoseProcess(d)
  PROVE  QueuesOK'
<1>1. /\ queue \in [Devices -> Seq(Records)] /\ applied \in [Devices -> Nat]
      /\ queue[d] \in Seq(Records) /\ Len(queue[d]) \in Nat
      /\ \A e \in Devices : applied[e] <= Len(queue[e])
  BY DEF QueuesOK, StoreOK
<1>2. /\ db' = db /\ applied' = [applied EXCEPT ![d] = 0] /\ applied'[d] = 0
      /\ 1..0 = {}
  BY <1>1 DEF Reopen, LoseProcess
<1> DEFINE q == [i \in DOMAIN queue[d] |-> Forgotten(queue[d][i])]
<1>3. /\ q \in Seq(Records) /\ Len(q) = Len(queue[d])
      /\ \A i \in 1..Len(q) : LikeWrite(d, q[i])
  <2>1. ASSUME NEW i \in 1..Len(queue[d])
        PROVE  Forgotten(queue[d][i]) \in Records /\ LikeWrite(d, Forgotten(queue[d][i]))
    <3>1. queue[d][i] \in Records /\ LikeWrite(d, queue[d][i])
      BY <1>1, <2>1 DEF QueuesOK, QueueOK
    <3>2. /\ Forgotten(queue[d][i]) \in Records
          /\ Forgotten(queue[d][i]).doc = queue[d][i].doc
          /\ Forgotten(queue[d][i]).val = queue[d][i].val
          /\ Forgotten(queue[d][i]).tap = queue[d][i].tap
          /\ Forgotten(queue[d][i]).then = "none"
      BY <3>1 DEF Forgotten, Records
    <3> QED BY <3>1, <3>2 DEF LikeWrite, WriteOK
  <2>2. \A w \in Records : Forgotten(w) \in Records
    BY DEF Forgotten, Records
  <2>3. q \in Seq(Records) /\ Len(q) = Len(queue[d])
    BY <1>1, <2>2
  <2>4. \A i \in 1..Len(queue[d]) : q[i] = Forgotten(queue[d][i])
    BY <1>1
  <2> HIDE DEF q
  <2> QED BY <2>1, <2>3, <2>4
<1> HIDE DEF q
<1>4. CASE queue' = queue
  <2>1. StoreOK'
    BY <1>1, <1>2, <1>4 DEF QueuesOK, StoreOK, DocumentsOK
  <2>2. QueueOK(d)'
    BY <1>2, <1>4, QueueParts DEF QueuesOK, QueueOK
  <2>3. ASSUME NEW e \in Devices \ {d} PROVE QueueOK(e)'
    BY <1>1, <1>2, <1>4, SameQueue DEF QueuesOK
  <2> QED BY <2>1, <2>2, <2>3 DEF QueuesOK
<1>5. CASE queue' = [queue EXCEPT ![d] = q]
  <2>1. StoreOK'
    BY <1>1, <1>2, <1>3, <1>5 DEF QueuesOK, StoreOK, DocumentsOK
  <2>2. QueueOK(d)'
    BY <1>1, <1>2, <1>3, <1>5, QueueParts
  <2>3. ASSUME NEW e \in Devices \ {d} PROVE QueueOK(e)'
    BY <1>1, <1>2, <1>5, SameQueue DEF QueuesOK
  <2> QED BY <2>1, <2>2, <2>3 DEF QueuesOK
<1> QED BY <1>4, <1>5 DEF Reopen, LoseProcess, q

(* The backend stores a number in a counter and a flag in a flag; the last
   flag of a like makes it known; a notification is of a like that is. *)
LEMMA ApplyKeeps ==
  ASSUME QueuesOK, OthersOK, LikedFirst, NEW d \in Devices, Apply(d),
         NEW q, q = queue[d], NEW a, a = applied[d], NEW w, w = q[a + 1]
  PROVE  QueuesOK' /\ LikedFirst' /\ OthersOK'
<1>1. /\ queue \in [Devices -> Seq(Records)] /\ applied \in [Devices -> Nat]
      /\ \A e \in Devices : applied[e] <= Len(queue[e])
      /\ DocumentsOK
      /\ wasLiked \subseteq Users \X Posts
  BY DEF QueuesOK, StoreOK, OthersOK
<1>2. /\ a \in Nat /\ a + 1 \in 1..Len(q) /\ q \in Seq(Records)
      /\ db' = [db EXCEPT ![w.doc] = w.val]
      /\ applied' = [applied EXCEPT ![d] = a + 1] /\ queue' = queue
      /\ wasLiked' = wasLiked \cup {x \in Users \X Posts : db'[UserLikeDoc(x[1], x[2])]}
      /\ a < Len(q)
  BY <1>1 DEF Apply, Commit
<1>3. w \in Records /\ LikeWrite(d, w)
  BY <1>2 DEF QueuesOK, QueueOK
<1>4. /\ w.doc \in Docs /\ w.tap \in Taps /\ w.tap.post \in Posts /\ Account[d] \in Users
      /\ w.tap.like \in BOOLEAN
      /\ IF w.doc \in Counters THEN w.val \in Nat ELSE w.val \in BOOLEAN
  BY <1>3, AccountType, TapsType DEF Records, LikeWrite, WriteOK
<1>5. /\ DOMAIN db' = Docs
      /\ \A x \in Docs : db'[x] = IF x = w.doc THEN w.val ELSE db[x]
  BY <1>1, <1>2, <1>4 DEF DocumentsOK
<1>6. DocumentsOK'
  <2>1. ASSUME NEW x \in Docs
        PROVE  IF x \in Counters THEN db'[x] \in Nat ELSE db'[x] \in BOOLEAN
    <3>1. CASE x = w.doc
      BY <1>4, <1>5, <3>1
    <3>2. CASE x # w.doc
      BY <1>1, <1>5, <3>2 DEF DocumentsOK
    <3> QED BY <3>1, <3>2
  <2> QED BY <1>5, <2>1 DEF DocumentsOK
<1>7. StoreOK'
  <2>1. ASSUME NEW e \in Devices PROVE applied'[e] <= Len(queue'[e])
    <3>1. CASE e = d
      BY <1>1, <1>2, <3>1
    <3>2. CASE e # d
      BY <1>1, <1>2, <3>2
    <3> QED BY <3>1, <3>2
  <2> QED BY <1>1, <1>2, <1>6, <2>1 DEF StoreOK
<1>8. LikedFirst'
  <2>1. ASSUME NEW p \in Posts, NEW u \in Users, db'[NotificationDoc(p, u)]
        PROVE  <<u, p>> \in wasLiked'
    <3>1. NotificationDoc(p, u) \in Docs
      BY DocsType
    <3>2. CASE NotificationDoc(p, u) = w.doc
      BY <1>2, <1>3, <3>2 DEF LikeWrite
    <3>3. CASE NotificationDoc(p, u) # w.doc
      <4>1. db[NotificationDoc(p, u)]
        BY <1>5, <2>1, <3>1, <3>3
      <4> QED BY <1>2, <4>1 DEF LikedFirst
    <3> QED BY <3>2, <3>3
  <2> QED BY <2>1 DEF LikedFirst
<1>9. AppliedLike(d, w)'
  <2>1. ASSUME w.then = "done", w.tap.like PROVE <<Account[d], w.tap.post>> \in wasLiked'
    <3>1. w.val = w.tap.like /\ w.doc = UserLikeDoc(Account[d], w.tap.post)
      BY <1>3, <2>1 DEF LikeWrite
    <3>2. db'[UserLikeDoc(Account[d], w.tap.post)]
      BY <1>4, <1>5, <2>1, <3>1
    <3>3. <<Account[d], w.tap.post>> \in
            {x \in Users \X Posts : db'[UserLikeDoc(x[1], x[2])]}
      BY <1>4, <3>2
    <3> QED BY <1>2, <3>3
  <2> QED BY <2>1 DEF AppliedLike
<1>10. wasLiked \subseteq wasLiked'
  BY <1>2
<1>11. QueueOK(d)'
  <2>1. queue'[d] = q /\ applied'[d] = a + 1
    BY <1>1, <1>2
  <2>2. ASSUME NEW i \in 1..Len(q) PROVE LikeWrite(d, q[i])'
    <3>1. LikeWrite(d, q[i])
      BY <2>2 DEF QueuesOK, QueueOK
    <3> QED BY <1>10, <3>1, WriteStays
  <2>3. ASSUME NEW i \in 1..(a + 1) PROVE AppliedLike(d, q[i])'
    <3>1. CASE i = a + 1
      BY <1>9, <3>1
    <3>2. CASE i \in 1..a
      <4>1. AppliedLike(d, q[i])
        BY <3>2 DEF QueuesOK, QueueOK
      <4> QED BY <1>10, <4>1, AppliedStays
    <3> QED BY <1>2, <2>3, <3>1, <3>2
  <2> QED BY <2>1, <2>2, <2>3, QueueNext
<1>12. ASSUME NEW e \in Devices \ {d} PROVE QueueOK(e)'
  BY <1>1, <1>2, <1>10, SameQueue DEF QueuesOK
<1>13. OthersOK'
  BY <1>1, <1>2 DEF OthersOK, Apply, reads
<1> QED BY <1>7, <1>8, <1>11, <1>12, <1>13 DEF QueuesOK

(* A read returns a number for a counter and a flag for a flag. *)
LEMMA LocalViewType ==
  ASSUME QueuesOK, NEW d \in Devices, NEW x \in Docs
  PROVE  IF x \in Counters THEN LocalView(d, x) \in Nat ELSE LocalView(d, x) \in BOOLEAN
<1>1. CASE PendingOn(d, x) = {}
  BY <1>1 DEF LocalView, QueuesOK, StoreOK, DocumentsOK
<1>2. CASE PendingOn(d, x) # {}
  <2> DEFINE P == PendingOn(d, x)
             last == CHOOSE i \in P : \A j \in P : j <= i
  <2>1. P \subseteq 1..Len(queue[d]) /\ Len(queue[d]) \in Nat
    BY DEF PendingOn, QueuesOK, StoreOK
  <2>2. \E i \in P : \A j \in P : j <= i
    BY <1>2, <2>1, LastExists
  <2>3. last \in P
    BY <2>2
  <2>4. LikeWrite(d, queue[d][last]) /\ queue[d][last].doc = x
    BY <2>1, <2>3 DEF QueuesOK, QueueOK, PendingOn
  <2>5. LocalView(d, x) = queue[d][last].val
    BY <1>2 DEF LocalView
  <2> HIDE DEF last
  <2> QED BY <2>4, <2>5 DEF LikeWrite, WriteOK
<1> QED BY <1>1, <1>2

-----------------------------------------------------------------------------
(* The screens. *)

LEMMA ShowPostsKeeps ==
  ASSUME ScreensOK, NEW d \in Devices, NEW posts \in [Posts -> Item],
         ShowPosts(d, posts), UNCHANGED taps, listed' \in [Devices -> BOOLEAN]
  PROVE  ScreensOK'
<1>1. taps[d] \in Nat /\ taps[d] <= taps[d] /\ mark \in [Devices -> Nat]
      /\ \A e \in Devices : mark[e] <= taps[e]
  BY LikesAssumption DEF ScreensOK, LikesAssumption
<1>2. mark' = [mark EXCEPT ![d] = taps[d]]
  BY DEF ShowPosts
<1>3. mark' \in [Devices -> Nat] /\ \A e \in Devices : mark'[e] <= taps[e]
  BY <1>1, <1>2
<1>4. list' \in [Devices -> [Posts -> Item]] /\ cells' \in [Devices -> [Posts -> Item]]
  BY DEF ShowPosts, ScreensOK
<1> QED BY <1>3, <1>4 DEF ScreensOK

LEMMA BlankFeed == [p \in Posts |-> Blank] \in [Posts -> Item]
BY DEF Blank, Item

LEMMA NumberUpdate ==
  ASSUME ScreensOK, NEW d \in Devices, NEW p \in Posts, NEW n \in Nat
  PROVE  [cells EXCEPT ![d][p].likes = n] \in [Devices -> [Posts -> Item]]
<1>1. cells[d][p] \in Item
  BY DEF ScreensOK
<1>2. [cells[d][p] EXCEPT !.likes = n] \in Item
  BY <1>1 DEF Item
<1>3. \A r \in Item : [cells EXCEPT ![d] = [cells[d] EXCEPT ![p] = r]]
                        \in [Devices -> [Posts -> Item]]
  BY DEF ScreensOK
<1> QED BY <1>2, <1>3

LEMMA HeartUpdate ==
  ASSUME NEW f \in [Devices -> [Posts -> Item]], NEW d \in Devices, NEW p \in Posts,
         NEW v \in BOOLEAN
  PROVE  /\ [f EXCEPT ![d][p].didLike = v] \in [Devices -> [Posts -> Item]]
         /\ [f[d] EXCEPT ![p].didLike = v] \in [Posts -> Item]
<1>1. f[d][p] \in Item
  OBVIOUS
<1>2. [f[d][p] EXCEPT !.didLike = v] \in Item
  BY <1>1 DEF Item
<1>3. \A r \in Item : /\ [f EXCEPT ![d] = [f[d] EXCEPT ![p] = r]]
                           \in [Devices -> [Posts -> Item]]
                      /\ [f[d] EXCEPT ![p] = r] \in [Posts -> Item]
  OBVIOUS
<1> QED BY <1>2, <1>3

LEMMA FailsType ==
  ASSUME OthersOK, NEW d \in Devices, NEW fault, Fails(d, fault)
  PROVE  failed' \in [Devices -> {"none", "crash", "reject", "readfail"}]
BY PhoneAssumption DEF OthersOK, Fails, PhoneAssumption

LEMMA AnswerFails ==
  ASSUME OthersOK, NEW d \in Devices, NEW then, Answer(d, then)
  PROVE  failed' \in [Devices -> {"none", "crash", "reject", "readfail"}]
BY FailsType DEF Answer, OthersOK

-----------------------------------------------------------------------------
(* Every action keeps the invariant. *)

BlocksOK == blocks \subseteq Blocks /\ \A b \in blocks : LikeBlock(b)

LEMMA UserStepKeeps ==
  ASSUME LikesInv, NEW d \in Devices, UserStep(d)
  PROVE  LikesInv'
<1>1. /\ QueuesOK /\ ScreensOK /\ OthersOK /\ BlocksOK /\ LikedFirst
      /\ UNCHANGED storeVars /\ UNCHANGED wasLiked
  BY DEF LikesInv, QueuesOK, BlocksOK, UserStep, Appear, Refresh, TapLike, history
<1>2. QueuesOK' /\ LikedFirst'
  BY <1>1, StoreUnchanged DEF LikedFirst, storeVars
<1>3. ASSUME ScreensOK', OthersOK', BlocksOK' PROVE LikesInv'
  BY <1>2, <1>3 DEF LikesInv, QueuesOK, BlocksOK
<1>4. ASSUME UNCHANGED blocks PROVE BlocksOK'
  BY <1>1, <1>4 DEF BlocksOK, LikeBlock
<1>5. CASE Appear(d)
  <2>1. ScreensOK' /\ OthersOK'
    BY <1>1, <1>5 DEF Appear, ScreensOK, OthersOK, screens, history
  <2> QED BY <1>3, <1>4, <1>5, <2>1 DEF Appear
<1>6. CASE Refresh(d)
  <2>1. listed' \in [Devices -> BOOLEAN]
    BY <1>1, <1>6 DEF Refresh, ScreensOK
  <2>2. ScreensOK'
    BY <1>1, <1>6, <2>1, ShowPostsKeeps, BlankFeed DEF Refresh
  <2>3. OthersOK'
    BY <1>1, <1>6 DEF Refresh, OthersOK, history
  <2> QED BY <1>3, <1>4, <1>6, <2>2, <2>3 DEF Refresh
<1>7. ASSUME NEW p \in Posts, TapLike(d, p) PROVE LikesInv'
  <2>1. /\ cells \in [Devices -> [Posts -> Item]] /\ cells[d][p] \in Item
        /\ cells[d][p].didLike \in BOOLEAN /\ cells[d][p].likes \in Nat
    BY <1>1 DEF ScreensOK, Item
  <2>2. taps[d] \in Nat /\ taps[d] < MaxTaps /\ MaxTaps \in Nat /\ taps[d] + 1 \in 1..MaxTaps
    BY <1>1, <1>7, LikesAssumption DEF TapLike, ScreensOK, LikesAssumption
  <2>3. ScreensOK'
    <3>1. cells' \in [Devices -> [Posts -> Item]]
      BY <1>7, <2>1, HeartUpdate DEF TapLike
    <3>2. taps' = [taps EXCEPT ![d] = taps[d] + 1] /\ UNCHANGED <<listed, list, mark>>
      BY <1>7 DEF TapLike
    <3>3. taps' \in [Devices -> 0..MaxTaps]
      BY <1>1, <2>2, <3>2 DEF ScreensOK
    <3>4. ASSUME NEW e \in Devices PROVE mark[e] <= taps'[e]
      <4>1. mark[e] \in Nat /\ mark[e] <= taps[e] /\ taps[e] \in 0..MaxTaps
        BY <1>1 DEF ScreensOK
      <4>2. taps'[e] = taps[e] \/ taps'[e] = taps[e] + 1
        BY <1>1, <3>2 DEF ScreensOK
      <4> QED BY <2>2, <4>1, <4>2
    <3> QED BY <1>1, <3>1, <3>2, <3>3, <3>4 DEF ScreensOK
  <2>4. OthersOK'
    <3>1. stale' \subseteq Posts
      BY <1>1, <1>7 DEF TapLike, OthersOK
    <3> QED BY <1>1, <1>7, <3>1 DEF TapLike, OthersOK, reads
  <2> DEFINE tap == [n |-> taps[d] + 1, post |-> p, like |-> ~cells[d][p].didLike,
                     likes |-> cells[d][p].likes]
             new == [dev |-> d, kind |-> "count", tap |-> tap]
  <2>5. CASE CanAct(cells[d][p])
    <3>1. tap \in Taps
      BY <2>1, <2>2 DEF Taps
    <3>2. new \in Blocks
      BY <3>1 DEF Blocks
    <3>3. Sensible(tap)
      BY <2>1, <2>5 DEF CanAct, Sensible
    <3>4. blocks' = blocks \cup {new} /\ wasLiked' = wasLiked
      BY <1>7, <2>5 DEF TapLike
    <3>5. LikeBlock(new)
      BY <3>3 DEF LikeBlock
    <3> HIDE DEF new
    <3>6. ASSUME NEW b \in blocks' PROVE LikeBlock(b)'
      <4>1. LikeBlock(b)
        BY <1>1, <3>4, <3>5 DEF BlocksOK
      <4> QED BY <3>4, <4>1, BlockStays
    <3>7. blocks' \subseteq Blocks
      BY <1>1, <3>2, <3>4 DEF BlocksOK
    <3>8. BlocksOK'
      BY <3>6, <3>7 DEF BlocksOK
    <3> QED BY <1>3, <2>3, <2>4, <3>8
  <2>6. CASE ~CanAct(cells[d][p])
    <3>1. UNCHANGED blocks
      BY <1>7, <2>6 DEF TapLike
    <3> QED BY <1>3, <1>4, <2>3, <2>4, <3>1
  <2> QED BY <2>5, <2>6
<1> QED BY <1>5, <1>6, <1>7 DEF UserStep

LEMMA ReadStepKeeps ==
  ASSUME LikesInv, NEW d \in Devices, ReadStep(d)
  PROVE  LikesInv'
<1>1. /\ QueuesOK /\ ScreensOK /\ OthersOK /\ BlocksOK /\ LikedFirst
      /\ UNCHANGED storeVars /\ UNCHANGED wasLiked /\ UNCHANGED blocks
  BY DEF LikesInv, QueuesOK, BlocksOK, ReadStep, PostsArrive, LikedArrives, ReadFails, history
<1>2. QueuesOK' /\ LikedFirst' /\ BlocksOK'
  BY <1>1, StoreUnchanged DEF LikedFirst, storeVars, BlocksOK, LikeBlock
<1>3. ASSUME ScreensOK', OthersOK' PROVE LikesInv'
  BY <1>2, <1>3 DEF LikesInv, QueuesOK, BlocksOK
<1>4. CASE PostsArrive(d)
  <2> DEFINE posts == [p \in Posts |-> [likes |-> LocalView(d, LikesDoc(p)), didLike |-> FALSE]]
  <2>1. \A p \in Posts : LocalView(d, LikesDoc(p)) \in Nat
    <3> SUFFICES ASSUME NEW p \in Posts PROVE LocalView(d, LikesDoc(p)) \in Nat
      OBVIOUS
    <3>1. LikesDoc(p) \in Counters /\ LikesDoc(p) \in Docs
      BY DEF Counters, Docs
    <3> QED BY <1>1, <3>1, LocalViewType
  <2>2. posts \in [Posts -> Item]
    BY <2>1 DEF Item
  <2>3. listed' \in [Devices -> BOOLEAN]
    BY <1>1, <1>4 DEF PostsArrive, ScreensOK
  <2>4. ShowPosts(d, posts) /\ UNCHANGED taps
    BY <1>4 DEF PostsArrive
  <2> HIDE DEF posts
  <2>5. ScreensOK'
    BY <1>1, <2>2, <2>3, <2>4, ShowPostsKeeps
  <2>6. OthersOK'
    BY <1>1, <1>4 DEF PostsArrive, OthersOK, history
  <2> QED BY <1>3, <2>5, <2>6
<1>5. ASSUME NEW p \in Posts, LikedArrives(d, p) PROVE LikesInv'
  <2> DEFINE v == LocalView(d, UserLikeDoc(Account[d], p))
  <2>1. v \in BOOLEAN
    <3>1. Account[d] \in Users
      BY AccountType
    <3>2. UserLikeDoc(Account[d], p) \in Docs \ Counters
      BY <3>1, DocsType
    <3> QED BY <1>1, <3>2, LocalViewType
  <2>2. [list[d] EXCEPT ![p].didLike = v] \in [Posts -> Item]
    BY <1>1, <2>1, HeartUpdate DEF ScreensOK
  <2>3. UNCHANGED <<taps, listed>> /\ listed' \in [Devices -> BOOLEAN]
    BY <1>1, <1>5 DEF LikedArrives, ScreensOK
  <2>4. \/ ShowPosts(d, [list[d] EXCEPT ![p].didLike = v])
        \/ UNCHANGED <<list, cells, mark>>
    BY <1>5 DEF LikedArrives
  <2>5. ScreensOK'
    <3>1. CASE UNCHANGED <<list, cells, mark>>
      BY <1>1, <2>3, <3>1 DEF ScreensOK
    <3> HIDE DEF v
    <3> QED BY <1>1, <2>2, <2>3, <2>4, <3>1, ShowPostsKeeps
  <2>6. OthersOK'
    BY <1>1, <1>5 DEF LikedArrives, OthersOK, history
  <2> QED BY <1>3, <2>5, <2>6
<1>6. CASE ReadFails(d)
  <2>1. failed' \in [Devices -> {"none", "crash", "reject", "readfail"}]
    BY <1>1, <1>6, FailsType DEF ReadFails
  <2>2. fetching' \in [Devices -> BOOLEAN] /\ checks' \subseteq Devices \X Posts
    BY <1>1, <1>6 DEF ReadFails, OthersOK
  <2>3. OthersOK'
    BY <1>1, <1>6, <2>1, <2>2 DEF ReadFails, OthersOK, history
  <2>4. ScreensOK'
    BY <1>1, <1>6 DEF ReadFails, ScreensOK, screens
  <2> QED BY <1>3, <2>3, <2>4
<1> QED BY <1>4, <1>5, <1>6 DEF ReadStep

LEMMA BlockStepKeeps ==
  ASSUME LikesInv, NEW d \in Devices, BlockStep(d)
  PROVE  LikesInv'
<1>1. /\ QueuesOK /\ ScreensOK /\ OthersOK /\ BlocksOK /\ LikedFirst
  BY DEF LikesInv, QueuesOK, BlocksOK
<1>2. PICK b \in blocks : /\ b.dev = d
                          /\ RunCountBlock(b) \/ RunFlagBlock(b) \/ RunNotifyBlock(b)
  BY DEF BlockStep
<1>3. /\ b \in Blocks /\ b.tap \in Taps /\ b.dev \in Devices /\ LikeBlock(b)
      /\ b.tap.post \in Posts /\ b.tap.like \in BOOLEAN
      /\ Account[d] \in Users /\ Sensible(b.tap) /\ Outcome(b.tap) \in Nat
  <2>1. b \in Blocks /\ b.tap \in Taps /\ LikeBlock(b) /\ b.dev \in Devices
    BY <1>1 DEF BlocksOK, Blocks
  <2> QED BY <2>1, TapsType, AccountType DEF LikeBlock
<1>4. /\ UNCHANGED <<taps, fetching, checks, listed, list, cells, mark, failed, wasLiked, stale>>
      /\ db' = db
      /\ blocks' \subseteq Blocks
      /\ \A c \in blocks' : LikeBlock(c)
  <2>1. CASE RunCountBlock(b)
    <3> DEFINE c == [b EXCEPT !.kind = "flag"]
    <3>1. c \in Blocks /\ c.kind = "flag" /\ c.tap = b.tap /\ c.dev = b.dev
      BY <1>3 DEF Blocks
    <3>2. LikeBlock(c)
      BY <1>3, <3>1 DEF LikeBlock
    <3>3. blocks' = (blocks \ {b}) \cup {c}
      BY <2>1 DEF RunCountBlock
    <3> HIDE DEF c
    <3> QED BY <1>1, <2>1, <3>1, <3>2, <3>3
        DEF RunCountBlock, BlocksOK, reads, screens, history, Enqueue
  <2>2. CASE RunFlagBlock(b)
    BY <1>1, <2>2 DEF RunFlagBlock, BlocksOK, reads, screens, history, Enqueue
  <2>3. CASE RunNotifyBlock(b)
    BY <1>1, <2>3 DEF RunNotifyBlock, BlocksOK, reads, screens, history, Enqueue
  <2> QED BY <1>2, <2>1, <2>2, <2>3
<1>5. BlocksOK'
  BY <1>4, BlockStays DEF BlocksOK
<1>6. ScreensOK' /\ OthersOK' /\ LikedFirst'
  BY <1>1, <1>4 DEF ScreensOK, OthersOK, LikedFirst
<1>7. QueuesOK'
  <2>1. CASE RunCountBlock(b)
    <3> DEFINE w == [doc |-> LikesDoc(b.tap.post), val |-> Outcome(b.tap),
                     then |-> "none", tap |-> b.tap]
    <3>1. /\ LikesDoc(b.tap.post) \in Counters /\ LikesDoc(b.tap.post) \in Docs
          /\ Outcome(b.tap) \in Vals
      BY <1>3 DEF Counters, Docs, Vals
    <3>2. w \in Records /\ WriteOK(w)
      BY <1>3, <3>1 DEF Records, WriteOK
    <3>3. LikeWrite(d, w)
      BY <1>3, <3>2, DocsApart DEF LikeWrite
    <3>4. Enqueue(d, w)
      BY <1>2, <2>1 DEF RunCountBlock
    <3> HIDE DEF w
    <3> QED BY <1>1, <1>4, <3>2, <3>3, <3>4, EnqueueKeeps
  <2>2. CASE RunFlagBlock(b)
    <3> DEFINE w == [doc |-> PostLikeDoc(b.tap.post, Account[d]), val |-> b.tap.like,
                     then |-> "user", tap |-> b.tap]
    <3>1. PostLikeDoc(b.tap.post, Account[d]) \in Docs \ Counters /\ b.tap.like \in Vals
      BY <1>3, DocsType DEF Vals
    <3>2. w \in Records /\ WriteOK(w)
      BY <1>3, <3>1 DEF Records, WriteOK
    <3>3. LikeWrite(d, w)
      BY <1>3, <3>2, DocsApart DEF LikeWrite
    <3>4. Enqueue(d, w)
      BY <1>2, <2>2 DEF RunFlagBlock
    <3> HIDE DEF w
    <3> QED BY <1>1, <1>4, <3>2, <3>3, <3>4, EnqueueKeeps
  <2>3. CASE RunNotifyBlock(b)
    <3> DEFINE w == [doc |-> NotificationDoc(b.tap.post, Account[d]), val |-> TRUE,
                     then |-> "none", tap |-> b.tap]
    <3>1. NotificationDoc(b.tap.post, Account[d]) \in Docs \ Counters /\ TRUE \in Vals
      BY <1>3, DocsType DEF Vals
    <3>2. w \in Records /\ WriteOK(w)
      BY <1>3, <3>1 DEF Records, WriteOK
    <3>3. <<Account[d], b.tap.post>> \in wasLiked
      BY <1>2, <1>3, <2>3 DEF RunNotifyBlock, LikeBlock
    <3>4. LikeWrite(d, w)
      BY <1>3, <3>2, <3>3, DocsApart DEF LikeWrite
    <3>5. Enqueue(d, w)
      BY <1>2, <2>3 DEF RunNotifyBlock
    <3> HIDE DEF w
    <3> QED BY <1>1, <1>4, <3>2, <3>4, <3>5, EnqueueKeeps
  <2> QED BY <1>2, <2>1, <2>2, <2>3
<1> QED BY <1>5, <1>6, <1>7 DEF LikesInv, QueuesOK, BlocksOK

(* The completion writes the number it computes from the tap into a cell. *)
LEMMA CellShowsKeeps ==
  ASSUME ScreensOK, NEW d \in Devices, NEW tap \in Taps, NEW n \in Nat, CellShows(d, tap, n),
         UNCHANGED <<taps, listed, list, mark>>
  PROVE  ScreensOK'
<1>1. cells' \in [Devices -> [Posts -> Item]]
  <2>1. tap.post \in Posts
    BY TapsType
  <2>2. CASE UNCHANGED cells
    BY <2>2 DEF ScreensOK
  <2>3. ASSUME NEW p \in Posts, cells' = [cells EXCEPT ![d][p].likes = n]
        PROVE  cells' \in [Devices -> [Posts -> Item]]
    BY <2>3, NumberUpdate
  <2> QED BY <2>1, <2>2, <2>3 DEF CellShows
<1> QED BY <1>1 DEF ScreensOK

LEMMA AnswerAnyKeeps ==
  ASSUME LikesInv, NEW d \in Devices, AnswerAny(d)
  PROVE  LikesInv'
<1>1. /\ QueuesOK /\ ScreensOK /\ OthersOK /\ BlocksOK /\ LikedFirst
  BY DEF LikesInv, QueuesOK, BlocksOK
<1>2. PICK then : Answer(d, then)
  BY DEF AnswerAny, AnswerUser, AnswerDone, AnswerSilent
<1>3. /\ UNCHANGED <<db, taps, fetching, checks, listed, list, mark, wasLiked, stale>>
      /\ failed' \in [Devices -> {"none", "crash", "reject", "readfail"}]
  BY <1>1, <1>2, AnswerFails
  DEF AnswerAny, AnswerUser, AnswerDone, AnswerSilent, reads, screens, history
<1>4. OthersOK' /\ LikedFirst'
  BY <1>1, <1>3 DEF OthersOK, LikedFirst
<1>5. ASSUME UNCHANGED <<cells, blocks>> PROVE ScreensOK' /\ BlocksOK'
  BY <1>1, <1>3, <1>5 DEF ScreensOK, BlocksOK, LikeBlock
<1>6. ASSUME QueuesOK', ScreensOK', BlocksOK' PROVE LikesInv'
  BY <1>4, <1>6 DEF LikesInv, QueuesOK, BlocksOK
<1>7. CASE AnswerUser(d)
  <2> DEFINE w == [Oldest(d) EXCEPT !.doc = UserLikeDoc(Account[d], Oldest(d).tap.post),
                                    !.then = "done"]
  <2>1. /\ Answer(d, "user") /\ DequeueThenEnqueue(d, w) /\ UNCHANGED <<cells, blocks>>
    BY <1>7 DEF AnswerUser, screens
  <2>2. Oldest(d) \in Records /\ Oldest(d).then = "user" /\ LikeWrite(d, Oldest(d))
    BY <1>1, <2>1, AnswerFacts
  <2>3. /\ Oldest(d).tap \in Taps /\ Oldest(d).tap.post \in Posts /\ Account[d] \in Users
        /\ Oldest(d).tap.like \in BOOLEAN /\ Sensible(Oldest(d).tap)
        /\ Oldest(d).val = Oldest(d).tap.like
    BY <2>2, TapsType, AccountType DEF Records, LikeWrite
  <2>4. UserLikeDoc(Account[d], Oldest(d).tap.post) \in Docs \ Counters
    BY <2>3, DocsType
  <2>5. /\ w \in Records
        /\ w.doc = UserLikeDoc(Account[d], Oldest(d).tap.post) /\ w.then = "done"
        /\ w.val = Oldest(d).tap.like /\ w.tap = Oldest(d).tap
    BY <2>2, <2>3, <2>4 DEF Records
  <2> HIDE DEF w
  <2>6. WriteOK(w)
    BY <2>3, <2>4, <2>5 DEF WriteOK
  <2>7. LikeWrite(d, w)
    BY <2>3, <2>5, <2>6, DocsApart DEF LikeWrite
  <2>8. QueuesOK'
    BY <1>1, <1>3, <2>1, <2>5, <2>7, AnswerKeeps
  <2> QED BY <1>5, <1>6, <2>1, <2>8
<1>8. CASE AnswerDone(d)
  <2>1. Answer(d, "done") /\ Dequeue(d)
    BY <1>8 DEF AnswerDone
  <2>2. QueuesOK'
    BY <1>1, <1>3, <2>1, AnswerKeeps
  <2>3. CASE UNCHANGED <<cells, blocks>>
    BY <1>5, <1>6, <2>2, <2>3
  <2>4. ASSUME NEW tap, tap = Oldest(d).tap, applied[d] > 0,
               CellShows(d, tap, Outcome(tap)), blocks' = blocks \cup Notification(d, tap)
        PROVE  LikesInv'
    <3>1. /\ tap \in Taps /\ Sensible(tap) /\ Outcome(tap) \in Nat
          /\ tap.like => <<Account[d], tap.post>> \in wasLiked
      <4>1. /\ Oldest(d) \in Records /\ Oldest(d).then = "done"
            /\ LikeWrite(d, Oldest(d)) /\ AppliedLike(d, Oldest(d))
        BY <1>1, <2>1, <2>4, AnswerFacts
      <4>2. tap \in Taps
        BY <2>4, <4>1 DEF Records
      <4> QED BY <2>4, <4>1, <4>2, TapsType DEF LikeWrite, AppliedLike
    <3>2. ScreensOK'
      BY <1>1, <1>3, <2>4, <3>1, CellShowsKeeps
    <3>3. ASSUME NEW b \in Notification(d, tap) PROVE b \in Blocks /\ LikeBlock(b)
      <4>1. b = [dev |-> d, kind |-> "notify", tap |-> tap] /\ tap.like
        BY <3>3 DEF Notification
      <4> QED BY <3>1, <4>1 DEF Blocks, LikeBlock
    <3>4. BlocksOK'
      <4>1. blocks' \subseteq Blocks /\ \A b \in blocks' : LikeBlock(b)
        BY <1>1, <2>4, <3>3 DEF BlocksOK
      <4> QED BY <1>3, <4>1, BlockStays DEF BlocksOK
    <3> QED BY <1>6, <2>2, <3>2, <3>4
  <2> QED BY <1>8, <2>3, <2>4 DEF AnswerDone
<1>9. CASE AnswerSilent(d)
  <2>1. Answer(d, "none") /\ Dequeue(d) /\ UNCHANGED <<cells, blocks>>
    BY <1>9 DEF AnswerSilent, screens
  <2>2. QueuesOK'
    BY <1>1, <1>3, <2>1, AnswerKeeps
  <2> QED BY <1>5, <1>6, <2>1, <2>2
<1> QED BY <1>7, <1>8, <1>9 DEF AnswerAny

LEMMA CrashKeeps ==
  ASSUME LikesInv, NEW d \in Devices, Crash(d)
  PROVE  LikesInv'
<1>1. /\ QueuesOK /\ ScreensOK /\ OthersOK /\ BlocksOK /\ LikedFirst
      /\ db' = db /\ UNCHANGED <<wasLiked, taps>>
  BY DEF LikesInv, QueuesOK, BlocksOK, Crash, history, LoseProcess
<1>2. QueuesOK'
  BY <1>1, ResetKeeps DEF Crash
<1>3. ScreensOK'
  <2>1. listed' \in [Devices -> BOOLEAN]
    BY <1>1 DEF Crash, ScreensOK
  <2> QED BY <1>1, <2>1, ShowPostsKeeps, BlankFeed DEF Crash
<1>4. OthersOK'
  <2>1. failed' \in [Devices -> {"none", "crash", "reject", "readfail"}]
    BY <1>1, FailsType DEF Crash
  <2>2. fetching' \in [Devices -> BOOLEAN] /\ checks' \subseteq Devices \X Posts
    BY <1>1 DEF Crash, OthersOK
  <2> QED BY <1>1, <2>1, <2>2 DEF Crash, OthersOK, history
<1>5. BlocksOK' /\ LikedFirst'
  BY <1>1 DEF Crash, BlocksOK, LikeBlock, LikedFirst
<1> QED BY <1>2, <1>3, <1>4, <1>5 DEF LikesInv, QueuesOK, BlocksOK

LEMMA StepLikes == LikesInv /\ [Next]_vars => LikesInv'
<1> SUFFICES ASSUME LikesInv, [Next]_vars PROVE LikesInv'
  OBVIOUS
<1>1. /\ QueuesOK /\ ScreensOK /\ OthersOK /\ BlocksOK /\ LikedFirst
  BY DEF LikesInv, QueuesOK, BlocksOK
<1>2. ASSUME NEW d \in Devices, Apply(d) PROVE LikesInv'
  <2>1. QueuesOK' /\ LikedFirst' /\ OthersOK'
    BY <1>1, <1>2, ApplyKeeps
  <2>2. UNCHANGED <<taps, blocks, screens>> /\ wasLiked \subseteq wasLiked'
    BY <1>2 DEF Apply
  <2>3. ScreensOK'
    BY <1>1, <2>2 DEF ScreensOK, screens
  <2>4. BlocksOK'
    BY <1>1, <2>2, BlockStays DEF BlocksOK
  <2> QED BY <2>1, <2>3, <2>4 DEF LikesInv, QueuesOK, BlocksOK
<1>3. ASSUME UNCHANGED likesVars PROVE ScreensOK' /\ OthersOK' /\ BlocksOK'
  BY <1>1, <1>3
  DEF likesVars, reads, screens, history, ScreensOK, OthersOK, BlocksOK, LikeBlock
<1>4. ASSUME NEW d \in Devices, Resend(d) PROVE LikesInv'
  <2>1. UNCHANGED likesVars /\ UNCHANGED <<db, wasLiked>>
    BY <1>4 DEF Resend, Reopen, likesVars, history
  <2>2. QueuesOK'
    BY <1>1, <1>4, <2>1, ResetKeeps DEF Resend
  <2>3. LikedFirst'
    BY <1>1, <2>1 DEF LikedFirst
  <2> QED BY <1>3, <2>1, <2>2, <2>3 DEF LikesInv, QueuesOK, BlocksOK
<1>5. CASE UNCHANGED vars
  <2>1. UNCHANGED likesVars /\ UNCHANGED storeVars /\ UNCHANGED wasLiked
    BY <1>5 DEF vars, likesVars, history
  <2>2. QueuesOK' /\ LikedFirst'
    BY <1>1, <2>1, StoreUnchanged DEF LikedFirst, storeVars
  <2> QED BY <1>3, <2>1, <2>2 DEF LikesInv, QueuesOK, BlocksOK
<1> QED BY <1>2, <1>4, <1>5, UserStepKeeps, ReadStepKeeps, BlockStepKeeps, AnswerAnyKeeps,
           CrashKeeps DEF Next

(* Likes is type correct; in particular no counter is ever set below zero: an
   unlike that was allowed had a number to take from, and the number it sets is
   computed from what its tap saw, whatever the cell shows by then. *)
THEOREM LikesTypeCorrect == Spec => []TypeOK
<1>1. Spec => []LikesInv
  BY InitLikesInv, StepLikes, PTL DEF Spec
<1> QED BY <1>1, InvType, PTL

(* A post's owner is notified only of likes that were stored under the user
   who likes, refused writes, lost processes and resent writes included. *)
THEOREM LikedFirstCorrect == Spec => []LikedFirst
<1>1. Spec => []LikesInv
  BY InitLikesInv, StepLikes, PTL DEF Spec
<1>2. LikesInv => LikedFirst
  BY DEF LikesInv
<1> QED BY <1>1, <1>2, PTL

-----------------------------------------------------------------------------
(* LikesAreDirectory.  The invariant follows the life of the two flags of one
   pair, as QueueFacts.tla describes it: the first write, of kind "user", is
   the flag at the post, the second the flag at the user. *)

PairInv(d, p) ==
  PairOK("post", "user", queue[d], applied[d], p,
         db[PostLikeDoc(p, Account[d])], db[UserLikeDoc(Account[d], p)])

(* A write of the flag at the post is to the phone's own flag, one of the flag
   at the user to the user's own list, no other write of a sound phone is to
   either collection, and no write is to the pairs of another account. *)
ShapeOf(d, w) ==
  /\ w.then = "user" => w.doc = PostLikeDoc(w.tap.post, Account[d])
  /\ w.then = "done" => w.doc = UserLikeDoc(Account[d], w.tap.post)
  /\ w.then = "none" /\ Sound(d) =>
       \A u \in Users, p \in Posts : w.doc # PostLikeDoc(p, u) /\ w.doc # UserLikeDoc(u, p)
  /\ \A u \in Users, p \in Posts :
       w.doc = PostLikeDoc(p, u) \/ w.doc = UserLikeDoc(u, p) => u = Account[d]

Shape == \A d \in Devices : \A i \in 1..Len(queue[d]) : ShapeOf(d, queue[d][i])

FlagsInv ==
  /\ LikesInv
  /\ Shape
  /\ \A d \in Devices, p \in Posts : Sole(d) /\ Sound(d) => PairInv(d, p)

-----------------------------------------------------------------------------
(* What a step does to the store, seen from the queue of one phone. *)

(* A write is added that is no second one, and has its shape. *)
Extends(d) ==
  /\ UNCHANGED <<db, applied, failed>>
  /\ \E q \in Seq(Records) :
       /\ queue' = [queue EXCEPT ![d] = q]
       /\ Len(q) = Len(queue[d]) + 1
       /\ \A i \in 1..Len(queue[d]) : q[i] = queue[d][i]
       /\ q[Len(q)].then # "done" /\ ShapeOf(d, q[Len(q)])

(* An answer to a phone that stays sound, or the end of its soundness. *)
Answers(d) ==
  \/ /\ UNCHANGED <<db, failed>> /\ Answered(d)
     /\ \/ Oldest(d).then # "user" /\ Dequeue(d)
        \/ /\ Oldest(d).then = "user"
           /\ DequeueThenEnqueue(d, [Oldest(d) EXCEPT
                !.doc = UserLikeDoc(Account[d], Oldest(d).tap.post), !.then = "done"])
  \/ /\ UNCHANGED <<db, applied>>
     /\ Fails(d, "reject")
     /\ queue[d] # <<>>
     /\ \/ Dequeue(d)
        \/ /\ Oldest(d).then = "user"
           /\ DequeueThenEnqueue(d, [Oldest(d) EXCEPT
                !.doc = UserLikeDoc(Account[d], Oldest(d).tap.post), !.then = "done"])

(* The kinds of documents are different, and a flag names its pair. *)
LEMMA PairDocs ==
  ASSUME NEW u, NEW p, NEW u2, NEW p2
  PROVE  /\ PostLikeDoc(p, u) = PostLikeDoc(p2, u2) => u = u2 /\ p = p2
         /\ UserLikeDoc(u, p) = UserLikeDoc(u2, p2) => u = u2 /\ p = p2
         /\ PostLikeDoc(p, u) # UserLikeDoc(u2, p2)
         /\ NotificationDoc(p, u) # PostLikeDoc(p2, u2)
         /\ NotificationDoc(p, u) # UserLikeDoc(u2, p2)
         /\ LikesDoc(p) # PostLikeDoc(p2, u2)
         /\ LikesDoc(p) # UserLikeDoc(u2, p2)
<1>1. /\ LikesDoc(p)[1] = "posts" /\ PostLikeDoc(p2, u2)[1] = "post-likes"
      /\ NotificationDoc(p, u)[1] = "user-notifications"
      /\ PostLikeDoc(p, u)[1] = "post-likes" /\ UserLikeDoc(u2, p2)[1] = "user-likes"
  BY DEF LikesDoc, PostLikeDoc, UserLikeDoc, NotificationDoc
<1>2. PostLikeDoc(p, u) = PostLikeDoc(p2, u2) => u = u2 /\ p = p2
  BY DEF PostLikeDoc
<1>3. UserLikeDoc(u, p) = UserLikeDoc(u2, p2) => u = u2 /\ p = p2
  BY DEF UserLikeDoc
<1> QED BY <1>1, <1>2, <1>3

LEMMA AppendExtends ==
  ASSUME StoreOK, NEW d \in Devices, NEW w \in Records, w.then # "done", ShapeOf(d, w),
         Enqueue(d, w), UNCHANGED failed
  PROVE  Extends(d)
<1> DEFINE q == Append(queue[d], w)
<1>1. queue[d] \in Seq(Records)
  BY DEF StoreOK
<1>2. /\ q \in Seq(Records)
      /\ Len(q) = Len(queue[d]) + 1
      /\ \A i \in 1..Len(queue[d]) : q[i] = queue[d][i]
      /\ q[Len(q)] = w
  BY <1>1, AppendFacts
<1>3. queue' = [queue EXCEPT ![d] = q] /\ UNCHANGED <<db, applied>>
  BY DEF Enqueue
<1> HIDE DEF q
<1> QED BY <1>2, <1>3 DEF Extends

(* The writes of the three blocks. *)
LEMMA BlockKind ==
  ASSUME LikesInv, NEW b \in blocks,
         RunCountBlock(b) \/ RunFlagBlock(b) \/ RunNotifyBlock(b)
  PROVE  b.dev \in Devices /\ Extends(b.dev)
<1> DEFINE d == b.dev
<1>1. /\ d \in Devices /\ b.tap \in Taps /\ b.tap.post \in Posts /\ Account[d] \in Users
      /\ b.tap.like \in BOOLEAN /\ Outcome(b.tap) \in Nat /\ StoreOK
  BY AccountType, TapsType DEF LikesInv, LikeBlock, Blocks
<1> HIDE DEF d
<1>2. CASE RunCountBlock(b)
  <2> DEFINE w == [doc |-> LikesDoc(b.tap.post), val |-> Outcome(b.tap),
                   then |-> "none", tap |-> b.tap]
  <2>1. w \in Records
    BY <1>1, DocsType DEF Records, Vals
  <2>2. w.then # "done" /\ ShapeOf(d, w)
    BY PairDocs DEF ShapeOf
  <2>3. Enqueue(d, w) /\ UNCHANGED failed
    BY <1>2 DEF RunCountBlock, d
  <2> HIDE DEF w
  <2> QED BY <1>1, <2>1, <2>2, <2>3, AppendExtends DEF d
<1>3. CASE RunFlagBlock(b)
  <2> DEFINE w == [doc |-> PostLikeDoc(b.tap.post, Account[d]), val |-> b.tap.like,
                   then |-> "user", tap |-> b.tap]
  <2>1. w \in Records
    BY <1>1, DocsType DEF Records, Vals
  <2>2. w.then # "done" /\ ShapeOf(d, w)
    BY PairDocs DEF ShapeOf
  <2>3. Enqueue(d, w) /\ UNCHANGED failed
    BY <1>3 DEF RunFlagBlock, d
  <2> HIDE DEF w
  <2> QED BY <1>1, <2>1, <2>2, <2>3, AppendExtends DEF d
<1>4. CASE RunNotifyBlock(b)
  <2> DEFINE w == [doc |-> NotificationDoc(b.tap.post, Account[d]), val |-> TRUE,
                   then |-> "none", tap |-> b.tap]
  <2>1. w \in Records
    BY <1>1, DocsType DEF Records, Vals
  <2>2. w.then # "done" /\ ShapeOf(d, w)
    BY PairDocs DEF ShapeOf
  <2>3. Enqueue(d, w) /\ UNCHANGED failed
    BY <1>4 DEF RunNotifyBlock, d
  <2> HIDE DEF w
  <2> QED BY <1>1, <2>1, <2>2, <2>3, AppendExtends DEF d
<1> QED BY <1>2, <1>3, <1>4

LEMMA AnswerKind ==
  ASSUME NEW d \in Devices, AnswerAny(d)
  PROVE  Answers(d)
<1>1. CASE AnswerUser(d)
  BY <1>1 DEF AnswerUser, Answer, Refused, Answers
<1>2. CASE AnswerDone(d)
  BY <1>2 DEF AnswerDone, Answer, Refused, Answers
<1>3. CASE AnswerSilent(d)
  BY <1>3 DEF AnswerSilent, Answer, Refused, Answers
<1> QED BY <1>1, <1>2, <1>3 DEF AnswerAny

(* Every step, as far as the two flags are concerned. *)
StoreStep ==
  \/ /\ UNCHANGED storeVars
     /\ UNCHANGED failed \/ \E d \in Devices : Fails(d, "readfail")
  \/ \E d \in Devices : Extends(d) \/ Answers(d)
  \/ \E d \in Devices : (Commit(d) \/ Reopen(d)) /\ UNCHANGED failed
  \/ \E d \in Devices : LoseProcess(d) /\ Fails(d, "crash")

LEMMA StepKind ==
  ASSUME LikesInv, [Next]_vars
  PROVE  StoreStep
<1>1. ASSUME NEW d \in Devices, UserStep(d) PROVE StoreStep
  BY <1>1 DEF UserStep, Appear, Refresh, TapLike, StoreStep
<1>2. ASSUME NEW d \in Devices, ReadStep(d) PROVE StoreStep
  BY <1>2 DEF ReadStep, PostsArrive, LikedArrives, ReadFails, StoreStep
<1>3. ASSUME NEW d \in Devices, BlockStep(d) PROVE StoreStep
  BY <1>3, BlockKind DEF BlockStep, StoreStep
<1>4. ASSUME NEW d \in Devices, AnswerAny(d) PROVE StoreStep
  BY <1>4, AnswerKind DEF StoreStep
<1>5. ASSUME NEW d \in Devices, Apply(d) \/ Resend(d) PROVE StoreStep
  BY <1>5 DEF Apply, Resend, likesVars, StoreStep
<1>6. ASSUME NEW d \in Devices, Crash(d) PROVE StoreStep
  BY <1>6 DEF Crash, StoreStep
<1>7. CASE UNCHANGED vars
  BY <1>7 DEF vars, likesVars, StoreStep
<1> QED BY <1>1, <1>2, <1>3, <1>4, <1>5, <1>6, <1>7 DEF Next

-----------------------------------------------------------------------------
(* FlagsInv is inductive. *)

(* At the start both flags of a pair say whether the post is liked. *)
LEMMA InitAgrees ==
  ASSUME Init, NEW u \in Users, NEW p \in Posts
  PROVE  /\ db[PostLikeDoc(p, u)] = db[UserLikeDoc(u, p)]
         /\ db[PostLikeDoc(p, u)] \in BOOLEAN
<1> DEFINE x == PostLikeDoc(p, u)
           y == UserLikeDoc(u, p)
<1>1. x \in Docs \ Counters /\ x[1] = "post-likes" /\ x[2] = p /\ x[3] = u
  BY DocsType DEF PostLikeDoc
<1>2. y \in Docs \ Counters /\ y[1] = "user-likes" /\ y[2] = p /\ y[3] = u
  BY DocsType DEF UserLikeDoc
<1> HIDE DEF x, y
<1>0. \A z \in Docs \ Counters :
        z[1] # "user-notifications" => db[z] = (<<z[3], z[2]>> \in InitLikes)
  BY DEF Init
<1>3. db[x] = (<<u, p>> \in InitLikes)
  BY <1>0, <1>1
<1>4. db[y] = (<<u, p>> \in InitLikes)
  BY <1>0, <1>2
<1> QED BY <1>3, <1>4 DEF x, y

LEMMA InitFlags == Init => FlagsInv
<1> SUFFICES ASSUME Init PROVE FlagsInv
  OBVIOUS
<1>1. LikesInv
  BY InitLikesInv
<1>2. \A d \in Devices : queue[d] = <<>> /\ applied[d] = 0 /\ Len(queue[d]) = 0
  BY DEF Init
<1>3. Shape
  BY <1>2 DEF Shape
<1>4. ASSUME NEW d \in Devices, NEW p \in Posts PROVE PairInv(d, p)
  <2>1. db[PostLikeDoc(p, Account[d])] = db[UserLikeDoc(Account[d], p)]
    BY AccountType, InitAgrees
  <2> QED BY <1>2, <2>1 DEF PairInv, PairOK, FirstStored, SecondStored, SecondWillAgree
<1> QED BY <1>1, <1>3, <1>4 DEF FlagsInv

(* The shape of a write already queued does not change. *)
LEMMA ShapeStays ==
  ASSUME NEW d \in Devices, NEW w, ShapeOf(d, w), Sound(d)' => Sound(d)
  PROVE  ShapeOf(d, w)'
BY DEF ShapeOf

LEMMA ExtendsKeeps ==
  ASSUME FlagsInv, NEW d \in Devices, Extends(d)
  PROVE  /\ Shape'
         /\ \A e \in Devices, p \in Posts : Sole(e) /\ Sound(e)' => PairInv(e, p)'
<1>1. PICK q \in Seq(Records) :
        /\ queue' = [queue EXCEPT ![d] = q]
        /\ Len(q) = Len(queue[d]) + 1
        /\ \A i \in 1..Len(queue[d]) : q[i] = queue[d][i]
        /\ q[Len(q)].then # "done" /\ ShapeOf(d, q[Len(q)])
  BY DEF Extends
<1>2. UNCHANGED <<db, applied, failed>> /\ \A e \in Devices : Sound(e)' = Sound(e)
  BY DEF Extends, Sound
<1>3. /\ \A e \in Devices : queue[e] \in Seq(Records) /\ applied[e] \in Nat
                             /\ applied[e] <= Len(queue[e]) /\ Len(queue[e]) \in Nat
      /\ queue'[d] = q /\ \A e \in Devices \ {d} : queue'[e] = queue[e]
  BY <1>1 DEF FlagsInv, LikesInv, StoreOK, OthersOK
<1>4. ASSUME NEW e \in Devices, NEW i \in 1..Len(queue'[e]) PROVE ShapeOf(e, queue'[e][i])
  <2>1. CASE e = d
    <3>1. i \in 1..Len(queue[d]) \/ i = Len(q)
      BY <1>1, <1>3, <1>4, <2>1
    <3> QED BY <1>1, <1>3, <2>1, <3>1 DEF FlagsInv, Shape
  <2>2. CASE e # d
    BY <1>3, <1>4, <2>2 DEF FlagsInv, Shape
  <2> QED BY <2>1, <2>2
<1>5. Shape'
  BY <1>2, <1>4, ShapeStays DEF Shape
<1>6. ASSUME NEW e \in Devices, NEW p \in Posts, Sole(e), Sound(e)' PROVE PairInv(e, p)'
  <2>1. PairInv(e, p)
    BY <1>2, <1>6 DEF FlagsInv
  <2>2. CASE e = d
    <3> DEFINE old == queue[d]
               first == db[PostLikeDoc(p, Account[d])]
               second == db[UserLikeDoc(Account[d], p)]
    <3>1. old \in Seq(Records) /\ applied[d] \in Nat /\ applied[d] <= Len(old)
          /\ PairOK("post", "user", old, applied[d], p, first, second)
      BY <1>3, <2>1, <2>2 DEF PairInv
    <3>2. /\ Len(old) <= Len(q) /\ \A i \in 1..Len(old) : q[i] = old[i]
          /\ \A i \in Len(old)+1..Len(q) : q[i].then # "done"
      <4>1. Len(old) \in Nat /\ Len(q) = Len(old) + 1
        BY <1>1, <1>3
      <4>2. Len(old) <= Len(q) /\ \A i \in Len(old)+1..Len(q) : i = Len(q)
        BY <4>1
      <4> QED BY <1>1, <4>2
    <3> HIDE DEF old, first, second
    <3>3. PairOK("post", "user", q, applied[d], p, first, second)
      BY <3>1, <3>2, ExtendPair
    <3> QED BY <1>2, <1>3, <2>2, <3>3 DEF PairInv, first, second
  <2>3. CASE e # d
    BY <1>2, <1>3, <2>1, <2>3 DEF PairInv
  <2> QED BY <2>2, <2>3
<1> QED BY <1>5, <1>6

LEMMA AnswersKeeps ==
  ASSUME FlagsInv, NEW d \in Devices, Answers(d)
  PROVE  /\ Shape'
         /\ \A e \in Devices, p \in Posts : Sole(e) /\ Sound(e)' => PairInv(e, p)'
<1> DEFINE w == [Oldest(d) EXCEPT
             !.doc = UserLikeDoc(Account[d], Oldest(d).tap.post), !.then = "done"]
<1>1. /\ queue[d] \in Seq(Records) /\ queue[d] # <<>> /\ Len(queue[d]) \in Nat \ {0}
      /\ Oldest(d) = queue[d][1] /\ queue[d][1] \in Records
      /\ applied \in [Devices -> Nat] /\ applied[d] <= Len(queue[d])
  BY DEF FlagsInv, LikesInv, StoreOK, OthersOK, Answers, Answered, Oldest
<1>2. /\ Tail(queue[d]) \in Seq(Records) /\ Len(Tail(queue[d])) = Len(queue[d]) - 1
      /\ \A i \in 1..Len(queue[d])-1 : Tail(queue[d])[i] = queue[d][i + 1]
  BY <1>1, TailFacts
<1>3. Oldest(d).then = "user" =>
        /\ w \in Records /\ w.then = "done" /\ w.val = Oldest(d).val
        /\ w.tap.post = Oldest(d).tap.post /\ ShapeOf(d, w)
  <2>1. Oldest(d).tap.post \in Posts /\ Account[d] \in Users
    BY <1>1, AccountType DEF Records, Taps
  <2>2. w \in Records /\ w.then = "done" /\ w.val = Oldest(d).val
        /\ w.tap.post = Oldest(d).tap.post
        /\ w.doc = UserLikeDoc(Account[d], Oldest(d).tap.post)
    BY <1>1, <2>1, DocsType DEF Records
  <2> HIDE DEF w
  <2> QED BY <2>2, PairDocs DEF ShapeOf
<1> HIDE DEF w
<1>4. /\ db' = db
      /\ \/ queue' = [queue EXCEPT ![d] = Tail(queue[d])]
         \/ /\ Oldest(d).then = "user"
            /\ queue' = [queue EXCEPT ![d] = Append(Tail(queue[d]), w)]
      /\ \A e \in Devices : Sound(e)' => Sound(e)
  <2>1. Sound(d)' => Sound(d)
    BY DEF Answers, Fails, Sound, FlagsInv, LikesInv, StoreOK, OthersOK
  <2>2. \A e \in Devices \ {d} : Sound(e)' => Sound(e)
    BY DEF Answers, Fails, Sound, FlagsInv, LikesInv, StoreOK, OthersOK
  <2> QED BY <2>1, <2>2 DEF Answers, Dequeue, DequeueThenEnqueue, w
<1>5. \A e \in Devices \ {d} : queue'[e] = queue[e]
  BY <1>4 DEF FlagsInv, LikesInv, StoreOK, OthersOK
<1>6. ASSUME NEW i \in 1..Len(queue'[d]) PROVE ShapeOf(d, queue'[d][i])
  <2>1. CASE queue'[d] = Tail(queue[d])
    BY <1>1, <1>2, <1>6, <2>1 DEF FlagsInv, Shape
  <2>2. CASE Oldest(d).then = "user" /\ queue'[d] = Append(Tail(queue[d]), w)
    <3>1. i \in 1..Len(queue[d])-1 \/ i = Len(queue[d])
      BY <1>1, <1>2, <1>3, <1>6, <2>2
    <3>2. CASE i = Len(queue[d])
      <4>1. queue'[d][i] = w
        BY <1>2, <1>3, <2>2, <3>2
      <4> QED BY <1>3, <2>2, <4>1
    <3>3. CASE i \in 1..Len(queue[d])-1
      <4>1. queue'[d][i] = queue[d][i + 1] /\ i + 1 \in 1..Len(queue[d])
        BY <1>1, <1>2, <1>3, <2>2, <3>3
      <4> QED BY <4>1 DEF FlagsInv, Shape
    <3> QED BY <3>1, <3>2, <3>3
  <2> QED BY <1>4, <2>1, <2>2 DEF FlagsInv, LikesInv, StoreOK, OthersOK
<1>7. Shape'
  BY <1>4, <1>5, <1>6, ShapeStays DEF Shape, FlagsInv
<1>8. ASSUME NEW p \in Posts, Sole(d), Sound(d)' PROVE PairInv(d, p)'
  <2>1. /\ Answered(d)
        /\ \/ Oldest(d).then # "user" /\ queue'[d] = Tail(queue[d])
           \/ Oldest(d).then = "user" /\ queue'[d] = Append(Tail(queue[d]), w)
    BY <1>8
    DEF Answers, Fails, Sound, Dequeue, DequeueThenEnqueue, w, FlagsInv, LikesInv, StoreOK, OthersOK
  <2>2. applied[d] \in Nat \ {0} /\ applied'[d] = applied[d] - 1
    BY <1>1, <2>1 DEF Answered
  <2>3. PairInv(d, p)
    BY <1>4, <1>8 DEF FlagsInv
  <2>4. CASE Oldest(d).then # "user" /\ queue'[d] = Tail(queue[d])
    <3> DEFINE q == Tail(queue[d])
               first == db[PostLikeDoc(p, Account[d])]
               second == db[UserLikeDoc(Account[d], p)]
    <3>1. q \in Seq(Records) /\ Len(q) = Len(queue[d]) - 1 /\ q = queue'[d]
          /\ \A i \in 1..Len(q) : q[i] = queue[d][i + 1]
      BY <1>2, <2>4
    <3>2. PairOK("post", "user", queue[d], applied[d], p, first, second)
      BY <2>3 DEF PairInv
    <3> HIDE DEF q, first, second
    <3>3. PairOK("post", "user", q, applied[d] - 1, p, first, second)
      BY <1>1, <2>2, <2>4, <3>1, <3>2, AnswerPair
    <3> QED BY <1>4, <2>2, <3>1, <3>3 DEF PairInv, first, second
  <2>5. CASE Oldest(d).then = "user" /\ queue'[d] = Append(Tail(queue[d]), w)
    <3> DEFINE q == Append(Tail(queue[d]), w)
    <3>1. /\ q \in Seq(Records) /\ Len(q) = Len(queue[d])
          /\ \A i \in 1..Len(queue[d])-1 : q[i] = queue[d][i + 1]
          /\ q[Len(queue[d])] = w
      BY <1>1, <1>2, <1>3, <2>5
    <3>2. q = queue'[d]
      BY <2>5
    <3> DEFINE first == db[PostLikeDoc(p, Account[d])]
               second == db[UserLikeDoc(Account[d], p)]
    <3>3. PairOK("post", "user", queue[d], applied[d], p, first, second)
      BY <2>3 DEF PairInv
    <3> HIDE DEF q, first, second
    <3>4. PairOK("post", "user", q, applied[d] - 1, p, first, second)
      BY <1>1, <1>3, <2>2, <2>5, <3>1, <3>3, MirrorPair
    <3> QED BY <1>4, <2>2, <3>2, <3>4 DEF PairInv, first, second
  <2> QED BY <2>1, <2>4, <2>5
<1>9. ASSUME NEW e \in Devices, e # d, NEW p \in Posts, Sole(e), Sound(e)' PROVE PairInv(e, p)'
  <2>1. applied'[e] = applied[e]
    BY <1>1, <1>9 DEF Answers, Answered
  <2>2. PairInv(e, p)
    BY <1>4, <1>9 DEF FlagsInv
  <2> QED BY <1>4, <1>5, <1>9, <2>1, <2>2 DEF PairInv
<1> QED BY <1>7, <1>8, <1>9

LEMMA CommitKeeps ==
  ASSUME FlagsInv, NEW d \in Devices, Commit(d), UNCHANGED failed
  PROVE  /\ Shape'
         /\ \A e \in Devices, p \in Posts : Sole(e) /\ Sound(e)' => PairInv(e, p)'
<1> DEFINE w == queue[d][applied[d] + 1]
<1>1. /\ queue[d] \in Seq(Records) /\ applied[d] \in Nat /\ applied[d] < Len(queue[d])
      /\ w \in Records /\ ShapeOf(d, w)
      /\ \A x \in Docs : db'[x] = IF x = w.doc THEN w.val ELSE db[x]
      /\ queue' = queue /\ applied' = [applied EXCEPT ![d] = applied[d] + 1]
      /\ applied \in [Devices -> Nat]
  <2>1. queue[d] \in Seq(Records) /\ applied[d] \in Nat /\ applied[d] < Len(queue[d])
    BY DEF FlagsInv, LikesInv, StoreOK, OthersOK, Commit
  <2>2. w \in Records /\ ShapeOf(d, w)
    BY <2>1 DEF FlagsInv, Shape
  <2>3. \A x \in Docs : db'[x] = IF x = w.doc THEN w.val ELSE db[x]
    BY DEF FlagsInv, LikesInv, StoreOK, DocumentsOK, Commit
  <2> QED BY <2>1, <2>2, <2>3 DEF FlagsInv, LikesInv, StoreOK, Commit
<1> HIDE DEF w
<1>2. \A e \in Devices : Sound(e)' = Sound(e)
  BY DEF Sound
<1>3. Shape'
  BY <1>1, <1>2, ShapeStays DEF Shape, FlagsInv
<1>4. ASSUME NEW e \in Devices, NEW p \in Posts, Sole(e), Sound(e)' PROVE PairInv(e, p)'
  <2> DEFINE x == PostLikeDoc(p, Account[e])
             y == UserLikeDoc(Account[e], p)
  <2>1. PairInv(e, p) /\ Account[e] \in Users /\ x \in Docs /\ y \in Docs /\ Sound(e)
    BY <1>2, <1>4, AccountType, DocsType DEF FlagsInv
  <2>2. CASE e # d
    <3>1. w.doc # x /\ w.doc # y
      <4>1. Account[d] # Account[e]
        BY <1>4, <2>2 DEF Sole
      <4> QED BY <1>1, <2>1, <4>1 DEF ShapeOf
    <3>2. db'[x] = db[x] /\ db'[y] = db[y]
      BY <1>1, <2>1, <3>1
    <3> QED BY <1>1, <2>1, <2>2, <3>2 DEF PairInv
  <2>3. CASE e = d
    <3>1. db'[x] = IF Awaits("post", w, "user", p) THEN w.val ELSE db[x]
      <4>1. w.doc = x <=> Awaits("post", w, "user", p)
        BY <1>1, <2>1, <2>3, PairDocs DEF ShapeOf, Awaits, Records
      <4> QED BY <1>1, <2>1, <4>1
    <3>2. db'[y] = IF Awaits("post", w, "done", p) THEN w.val ELSE db[y]
      <4>1. w.doc = y <=> Awaits("post", w, "done", p)
        BY <1>1, <2>1, <2>3, PairDocs DEF ShapeOf, Awaits, Records
      <4> QED BY <1>1, <2>1, <4>1
    <3>3. PairOK("post", "user", queue[d], applied[d], p, db[x], db[y])
      BY <2>1, <2>3 DEF PairInv
    <3> HIDE DEF x, y
    <3>4. PairOK("post", "user", queue[d], applied[d] + 1, p, db'[x], db'[y])
      BY <1>1, <3>1, <3>2, <3>3, CommitPair DEF w
    <3> QED BY <1>1, <2>3, <3>4 DEF PairInv, x, y
  <2> QED BY <2>2, <2>3
<1> QED BY <1>3, <1>4

LEMMA ReopenKeeps ==
  ASSUME FlagsInv, NEW d \in Devices, Reopen(d), UNCHANGED failed
  PROVE  /\ Shape'
         /\ \A e \in Devices, p \in Posts : Sole(e) /\ Sound(e)' => PairInv(e, p)'
<1>1. \A e \in Devices : Sound(e)' = Sound(e)
  BY DEF Sound
<1>2. queue' = queue /\ db' = db
      /\ \A e \in Devices : applied'[e] = IF e = d THEN 0 ELSE applied[e]
  BY DEF Reopen, FlagsInv, LikesInv, StoreOK, OthersOK
<1>3. Shape'
  BY <1>1, <1>2, ShapeStays DEF Shape, FlagsInv
<1>4. ASSUME NEW e \in Devices, NEW p \in Posts, Sole(e), Sound(e)' PROVE PairInv(e, p)'
  <2>1. PairInv(e, p)
    BY <1>1, <1>4 DEF FlagsInv
  <2> QED BY <1>2, <2>1, RestartPair DEF PairInv
<1> QED BY <1>3, <1>4

(* The process dies: its phone is not sound any more, and the writes it leaves
   behind still are to the pairs of its account. *)
LEMMA LoseProcessKeeps ==
  ASSUME FlagsInv, NEW d \in Devices, LoseProcess(d), Fails(d, "crash")
  PROVE  /\ Shape'
         /\ \A e \in Devices, p \in Posts : Sole(e) /\ Sound(e)' => PairInv(e, p)'
<1>1. ~Sound(d)' /\ \A e \in Devices \ {d} : Sound(e)' = Sound(e)
  BY DEF Fails, Sound, FlagsInv, LikesInv, StoreOK, OthersOK
<1>2. /\ db' = db
      /\ queue'[d] = [i \in DOMAIN queue[d] |-> Forgotten(queue[d][i])]
      /\ \A e \in Devices \ {d} : queue'[e] = queue[e] /\ applied'[e] = applied[e]
      /\ queue[d] \in Seq(Records)
  BY DEF LoseProcess, FlagsInv, LikesInv, StoreOK, OthersOK
<1>3. ASSUME NEW i \in 1..Len(queue'[d]), NEW w, w = queue'[d][i] PROVE ShapeOf(d, w)'
  <2>1. i \in 1..Len(queue[d]) /\ w = Forgotten(queue[d][i]) /\ queue[d][i] \in Records
    BY <1>2, <1>3
  <2>2. ShapeOf(d, queue[d][i])
    BY <2>1 DEF FlagsInv, Shape
  <2>3. w.then = "none" /\ w.doc = queue[d][i].doc
    BY <2>1 DEF Forgotten, Records
  <2> QED BY <1>1, <2>2, <2>3 DEF ShapeOf
<1>4. ASSUME NEW e \in Devices, e # d, NEW i \in 1..Len(queue'[e]), NEW w, w = queue'[e][i]
      PROVE  ShapeOf(e, w)'
  <2>1. ShapeOf(e, w) /\ Sound(e)' = Sound(e)
    BY <1>1, <1>2, <1>4 DEF FlagsInv, Shape
  <2> QED BY <2>1, ShapeStays
<1>5. Shape'
  BY <1>3, <1>4 DEF Shape
<1>6. ASSUME NEW e \in Devices, NEW p \in Posts, Sole(e), Sound(e)' PROVE PairInv(e, p)'
  BY <1>1, <1>2, <1>6 DEF FlagsInv, PairInv
<1> QED BY <1>5, <1>6

LEMMA StepFlags == FlagsInv /\ [Next]_vars => FlagsInv'
<1> SUFFICES ASSUME FlagsInv, [Next]_vars PROVE FlagsInv'
  OBVIOUS
<1>1. LikesInv'
  BY StepLikes DEF FlagsInv
<1>2. StoreStep
  BY StepKind DEF FlagsInv
<1>3. Shape' /\ \A e \in Devices, p \in Posts : Sole(e) /\ Sound(e)' => PairInv(e, p)'
  <2>1. CASE UNCHANGED storeVars /\ (UNCHANGED failed \/ \E d \in Devices : Fails(d, "readfail"))
    <3>1. \A e \in Devices : Sound(e)' => Sound(e)
      BY <2>1 DEF Fails, Sound, FlagsInv, LikesInv, StoreOK, OthersOK
    <3> QED BY <2>1, <3>1, ShapeStays DEF storeVars, Shape, FlagsInv, PairInv
  <2>2. CASE \E d \in Devices : Extends(d) \/ Answers(d)
    BY <2>2, ExtendsKeeps, AnswersKeeps
  <2>3. CASE \E d \in Devices : (Commit(d) \/ Reopen(d)) /\ UNCHANGED failed
    BY <2>3, CommitKeeps, ReopenKeeps
  <2>4. CASE \E d \in Devices : LoseProcess(d) /\ Fails(d, "crash")
    BY <2>4, LoseProcessKeeps
  <2> QED BY <1>2, <2>1, <2>2, <2>3, <2>4 DEF StoreStep
<1> QED BY <1>1, <1>3 DEF FlagsInv, Sole

-----------------------------------------------------------------------------
(* Liking implements the directory.  Each kind of step is a step of the
   directory, or none: what is shown below of the pairs in the two collections,
   of those being written, and of those nobody will finish. *)

PostFlags  == [x \in PairList |-> db[PostLikeDoc(x[2], x[1])]]
UserFlags == [x \in PairList |-> db[UserLikeDoc(x[1], x[2])]]

WrittenPairs == {x \in PairList : \E d \in Devices : Account[d] = x[1] /\ Writing(d, x[2])}
BusyPairs    == LostPairs \cup WrittenPairs

DirStep == Dir!Next \/ UNCHANGED <<PostFlags, UserFlags, BusyPairs, LostPairs>>

LEMMA SameDocs == UNCHANGED db => UNCHANGED <<PostFlags, UserFlags>>
BY DEF PostFlags, UserFlags

LEMMA SameLost ==
  ASSUME \A d \in Devices : Sound(d)' = Sound(d)
  PROVE  LostPairs' = LostPairs
BY DEF LostPairs, Sole

LEMMA SameWritten ==
  ASSUME \A d \in Devices, p \in Posts : Writing(d, p)' <=> Writing(d, p)
  PROVE  WrittenPairs' = WrittenPairs
BY DEF WrittenPairs, PairList

(* A phone that died or had a write refused abandons the pairs of its account. *)
LEMMA AbandonStep ==
  ASSUME LikesInv, NEW d \in Devices, NEW fault \in {"crash", "reject"}, Fails(d, fault),
         UNCHANGED db, \A e \in Devices \ {d} : queue'[e] = queue[e]
  PROVE  Dir!Next
<1> DEFINE S == {x \in PairList : x[1] = Account[d]}
<1>1. ~Sound(d)' /\ \A e \in Devices \ {d} : Sound(e)' = Sound(e)
  BY DEF Fails, Sound, LikesInv, StoreOK, OthersOK
<1>2. LostPairs' = LostPairs \cup S
  <2>1. ASSUME NEW x \in PairList PROVE x \in LostPairs' <=> x \in LostPairs \/ x \in S
    BY <1>1 DEF LostPairs, Sole
  <2> QED BY <2>1 DEF LostPairs
<1>3. \A e \in Devices \ {d}, p \in Posts : Writing(e, p)' <=> Writing(e, p)
  BY DEF Writing
<1>4. WrittenPairs' \cup S = WrittenPairs \cup S
  <2>1. ASSUME NEW x \in PairList, x \notin S PROVE x \in WrittenPairs' <=> x \in WrittenPairs
    <3>1. x[2] \in Posts
      BY DEF PairList
    <3> QED BY <1>3, <2>1, <3>1 DEF WrittenPairs
  <2> QED BY <2>1 DEF WrittenPairs
<1>5. BusyPairs' = BusyPairs \cup S
  BY <1>2, <1>4 DEF BusyPairs
<1>6. S \in SUBSET PairList
  OBVIOUS
<1> HIDE DEF S
<1>7. Dir!Abandon(S)
  BY <1>2, <1>5, SameDocs DEF Dir!Abandon, BusyPairs, WrittenPairs, PostFlags, UserFlags
<1> QED BY <1>6, <1>7 DEF Dir!Next

LEMMA StutterStep ==
  ASSUME UNCHANGED <<db, WrittenPairs>>, \A d \in Devices : Sound(d)' = Sound(d)
  PROVE  DirStep
BY SameDocs, SameLost DEF DirStep, BusyPairs

(* A tap's first write enters the queue: the pair is busy from then on. *)
LEMMA ExtendsStep ==
  ASSUME LikesInv, NEW d \in Devices, Extends(d)
  PROVE  DirStep
<1>1. PICK q \in Seq(Records) :
        /\ queue' = [queue EXCEPT ![d] = q]
        /\ Len(q) = Len(queue[d]) + 1
        /\ \A i \in 1..Len(queue[d]) : q[i] = queue[d][i]
  BY DEF Extends
<1>2. /\ UNCHANGED db /\ \A e \in Devices : Sound(e)' = Sound(e)
      /\ queue'[d] = q /\ \A e \in Devices \ {d} : queue'[e] = queue[e]
      /\ Len(q) \in Nat /\ Len(queue[d]) \in Nat
  BY <1>1 DEF Extends, Sound, LikesInv, StoreOK, OthersOK
<1>3. \A e \in Devices \ {d}, p \in Posts : Writing(e, p)' <=> Writing(e, p)
  BY <1>2 DEF Writing
<1>4. \A p \in Posts : Writing(d, p) => Writing(d, p)'
  BY <1>1, <1>2 DEF Writing
<1>5. \A p \in Posts : Writing(d, p)' => Writing(d, p) \/ q[Len(q)].tap.post = p
  <2> SUFFICES ASSUME NEW p \in Posts, Writing(d, p)', ~Writing(d, p)
      PROVE  q[Len(q)].tap.post = p
    OBVIOUS
  <2>1. PICK i \in 1..Len(q) : q[i].then # "none" /\ q[i].tap.post = p
    BY <1>2 DEF Writing
  <2>2. i \notin 1..Len(queue[d])
    BY <1>1, <2>1 DEF Writing
  <2> QED BY <1>1, <1>2, <2>1, <2>2
<1>6. CASE \A p \in Posts : Writing(d, p)' => Writing(d, p)
  <2>1. WrittenPairs' = WrittenPairs
    BY <1>3, <1>4, <1>6, SameWritten
  <2> QED BY <1>2, <2>1, StutterStep
<1>7. CASE \E p \in Posts : Writing(d, p)' /\ ~Writing(d, p)
  <2>1. PICK s \in Posts : Writing(d, s)' /\ ~Writing(d, s)
    BY <1>7
  <2>2. q[Len(q)].tap.post = s
    BY <1>5, <2>1
  <2>3. \A p \in Posts : Writing(d, p)' <=> Writing(d, p) \/ p = s
    BY <1>2, <1>4, <1>5, <2>1, <2>2
  <2> DEFINE x == <<Account[d], s>>
  <2>4. x \in PairList
    BY AccountType DEF PairList
  <2>5. WrittenPairs' = WrittenPairs \cup {x}
    <3>1. ASSUME NEW y \in PairList PROVE y \in WrittenPairs' <=> y \in WrittenPairs \/ y = x
      <4>1. y = <<y[1], y[2]>> /\ y[2] \in Posts
        BY DEF PairList
      <4>2. CASE y[1] # Account[d]
        BY <1>3, <4>1, <4>2 DEF WrittenPairs
      <4>3. CASE y[1] = Account[d]
        BY <1>3, <2>3, <4>1, <4>3 DEF WrittenPairs
      <4> QED BY <4>2, <4>3
    <3> HIDE DEF x
    <3> QED BY <2>4, <3>1 DEF WrittenPairs
  <2> HIDE DEF x
  <2>6. LostPairs' = LostPairs
    BY <1>2, SameLost
  <2>7. BusyPairs' = BusyPairs \cup {x}
    BY <2>5, <2>6 DEF BusyPairs
  <2>8. Dir!Begin(x)
    BY <1>2, <2>6, <2>7, SameDocs DEF Dir!Begin, BusyPairs, WrittenPairs, PostFlags, UserFlags
  <2> QED BY <2>4, <2>8 DEF DirStep, Dir!Next
<1> QED BY <1>6, <1>7

(* One copy of a pair is written.  A sound phone that is alone on its account
   writes to the pair only with a write whose answer it awaits. *)
LEMMA CommitStep ==
  ASSUME FlagsInv, NEW d \in Devices, Commit(d), UNCHANGED failed
  PROVE  DirStep
<1> DEFINE w == queue[d][applied[d] + 1]
<1>1. /\ applied[d] + 1 \in 1..Len(queue[d])
      /\ w \in Records /\ ShapeOf(d, w) /\ WriteOK(w)
      /\ \A x \in Docs : db'[x] = IF x = w.doc THEN w.val ELSE db[x]
      /\ queue' = queue
  <2>1. queue[d] \in Seq(Records) /\ applied[d] \in Nat /\ applied[d] < Len(queue[d])
    BY DEF FlagsInv, LikesInv, StoreOK, OthersOK, Commit
  <2>2. w \in Records /\ ShapeOf(d, w) /\ WriteOK(w)
    BY <2>1 DEF FlagsInv, Shape, LikesInv, QueueOK, LikeWrite
  <2>3. \A x \in Docs : db'[x] = IF x = w.doc THEN w.val ELSE db[x]
    BY DEF FlagsInv, LikesInv, StoreOK, DocumentsOK, Commit
  <2> QED BY <2>1, <2>2, <2>3 DEF FlagsInv, LikesInv, StoreOK, Commit
<1>2. ASSUME NEW p \in Posts, Awaits("post", w, "user", p) \/ Awaits("post", w, "done", p)
      PROVE  Writing(d, p)
  BY <1>1, <1>2 DEF Awaits, Writing
<1> HIDE DEF w
<1>3. LostPairs' = LostPairs /\ WrittenPairs' = WrittenPairs
  <2>1. \A e \in Devices : Sound(e)' = Sound(e)
    BY DEF Sound
  <2>2. \A e \in Devices, p \in Posts : Writing(e, p)' <=> Writing(e, p)
    BY <1>1 DEF Writing
  <2> QED BY <2>1, <2>2, SameLost, SameWritten
<1>4. BusyPairs' = BusyPairs
  BY <1>3 DEF BusyPairs
<1>5. ASSUME NEW u \in Users, NEW p \in Posts,
             w.doc = PostLikeDoc(p, u) \/ w.doc = UserLikeDoc(u, p)
      PROVE  <<u, p>> \in PairList /\ <<u, p>> \in BusyPairs
  <2>1. u = Account[d] /\ <<u, p>> \in PairList
    BY <1>1, <1>5 DEF ShapeOf, PairList
  <2>2. CASE Sole(d) /\ Sound(d)
    <3>1. w.then \in {"user", "done"}
      BY <1>1, <1>5, <2>2 DEF ShapeOf, Records
    <3>2. w.tap.post = p
      <4>1. w.tap.post \in Posts
        BY <1>1 DEF Records, Taps
      <4> QED BY <1>1, <1>5, <3>1, <4>1, PairDocs DEF ShapeOf
    <3>3. Writing(d, p)
      BY <1>2, <3>1, <3>2 DEF Awaits
    <3> QED BY <2>1, <3>3 DEF BusyPairs, WrittenPairs
  <2>3. CASE ~(Sole(d) /\ Sound(d))
    <3>1. \A e \in Devices : Account[e] = u => ~(Sole(e) /\ Sound(e))
      BY <2>1, <2>3 DEF Sole
    <3> QED BY <2>1, <3>1 DEF BusyPairs, LostPairs
  <2> QED BY <2>1, <2>2, <2>3
<1>6. ASSUME NEW u \in Users, NEW p \in Posts,
             w.doc = PostLikeDoc(p, u) \/ w.doc = UserLikeDoc(u, p)
      PROVE  w.val \in BOOLEAN
  BY <1>1, <1>6, DocsType DEF WriteOK
<1>7. ASSUME NEW u \in Users, NEW p \in Posts, w.doc = PostLikeDoc(p, u)
      PROVE  DirStep
  <2> DEFINE x == <<u, p>>
  <2>1. PostFlags' = [PostFlags EXCEPT ![x] = w.val]
    <3>1. ASSUME NEW y \in PairList
          PROVE  db'[PostLikeDoc(y[2], y[1])] = IF y = x THEN w.val ELSE db[PostLikeDoc(y[2], y[1])]
      <4>1. y = <<y[1], y[2]>> /\ y[1] \in Users /\ y[2] \in Posts
        BY DEF PairList
      <4>2. PostLikeDoc(y[2], y[1]) \in Docs
        BY <4>1, DocsType
      <4>3. PostLikeDoc(y[2], y[1]) = w.doc <=> y = x
        BY <1>7, <4>1, PairDocs
      <4> QED BY <1>1, <4>2, <4>3
    <3> HIDE DEF x
    <3> QED BY <3>1 DEF PostFlags
  <2>2. UserFlags' = UserFlags
    <3>1. ASSUME NEW y \in PairList
          PROVE  db'[UserLikeDoc(y[1], y[2])] = db[UserLikeDoc(y[1], y[2])]
      <4>1. UserLikeDoc(y[1], y[2]) \in Docs
        BY DocsType DEF PairList
      <4>2. UserLikeDoc(y[1], y[2]) # w.doc
        BY <1>7, PairDocs
      <4> QED BY <1>1, <4>1, <4>2
    <3> QED BY <3>1 DEF UserFlags
  <2>3. x \in PairList /\ x \in BusyPairs
    BY <1>5, <1>7
  <2>4. w.val \in BOOLEAN
    BY <1>6, <1>7
  <2> HIDE DEF x
  <2>5. Dir!Write(x)
    BY <1>3, <1>4, <2>1, <2>2, <2>3, <2>4
    DEF Dir!Write, BusyPairs, WrittenPairs, PostFlags, UserFlags
  <2> QED BY <2>3, <2>5 DEF DirStep, Dir!Next
<1>8. ASSUME NEW u \in Users, NEW p \in Posts, w.doc = UserLikeDoc(u, p)
      PROVE  DirStep
  <2> DEFINE x == <<u, p>>
  <2>1. UserFlags' = [UserFlags EXCEPT ![x] = w.val]
    <3>1. ASSUME NEW y \in PairList
          PROVE  db'[UserLikeDoc(y[1], y[2])] = IF y = x THEN w.val ELSE db[UserLikeDoc(y[1], y[2])]
      <4>1. y = <<y[1], y[2]>> /\ y[1] \in Users /\ y[2] \in Posts
        BY DEF PairList
      <4>2. UserLikeDoc(y[1], y[2]) \in Docs
        BY <4>1, DocsType
      <4>3. UserLikeDoc(y[1], y[2]) = w.doc <=> y = x
        BY <1>8, <4>1, PairDocs
      <4> QED BY <1>1, <4>2, <4>3
    <3> HIDE DEF x
    <3> QED BY <3>1 DEF UserFlags
  <2>2. PostFlags' = PostFlags
    <3>1. ASSUME NEW y \in PairList
          PROVE  db'[PostLikeDoc(y[2], y[1])] = db[PostLikeDoc(y[2], y[1])]
      <4>1. PostLikeDoc(y[2], y[1]) \in Docs
        BY DocsType DEF PairList
      <4>2. PostLikeDoc(y[2], y[1]) # w.doc
        BY <1>8, PairDocs
      <4> QED BY <1>1, <4>1, <4>2
    <3> QED BY <3>1 DEF PostFlags
  <2>3. x \in PairList /\ x \in BusyPairs
    BY <1>5, <1>8
  <2>4. w.val \in BOOLEAN
    BY <1>6, <1>8
  <2> HIDE DEF x
  <2>5. Dir!Write(x)
    BY <1>3, <1>4, <2>1, <2>2, <2>3, <2>4
    DEF Dir!Write, BusyPairs, WrittenPairs, PostFlags, UserFlags
  <2> QED BY <2>3, <2>5 DEF DirStep, Dir!Next
<1>9. CASE \A u \in Users, p \in Posts : w.doc # PostLikeDoc(p, u) /\ w.doc # UserLikeDoc(u, p)
  <2>1. ASSUME NEW y \in PairList
        PROVE  /\ db'[PostLikeDoc(y[2], y[1])] = db[PostLikeDoc(y[2], y[1])]
               /\ db'[UserLikeDoc(y[1], y[2])] = db[UserLikeDoc(y[1], y[2])]
    <3>1. y[1] \in Users /\ y[2] \in Posts
      BY DEF PairList
    <3>2. PostLikeDoc(y[2], y[1]) \in Docs /\ UserLikeDoc(y[1], y[2]) \in Docs
      BY <3>1, DocsType
    <3> QED BY <1>1, <1>9, <3>1, <3>2
  <2>2. PostFlags' = PostFlags /\ UserFlags' = UserFlags
    BY <2>1 DEF PostFlags, UserFlags
  <2> QED BY <1>3, <1>4, <2>2 DEF DirStep
<1> QED BY <1>7, <1>8, <1>9

(* An answer.  The pair stops being busy with the last of its answers, when
   its copies are equal. *)
LEMMA AnswersStep ==
  ASSUME FlagsInv, NEW d \in Devices, Answers(d)
  PROVE  DirStep
<1>1. \A e \in Devices \ {d} : queue'[e] = queue[e]
  BY DEF Answers, Dequeue, DequeueThenEnqueue, FlagsInv, LikesInv, StoreOK, OthersOK
<1>2. CASE Fails(d, "reject")
  BY <1>1, <1>2, AbandonStep DEF Answers, FlagsInv, DirStep
<1>3. CASE ~Fails(d, "reject")
  <2> DEFINE w  == Oldest(d)
             q  == queue[d]
             w2 == [w EXCEPT !.doc = UserLikeDoc(Account[d], w.tap.post), !.then = "done"]
  <2>1. /\ UNCHANGED <<db, failed>> /\ Answered(d)
        /\ \/ w.then # "user" /\ queue' = [queue EXCEPT ![d] = Tail(q)]
           \/ w.then = "user" /\ queue' = [queue EXCEPT ![d] = Append(Tail(q), w2)]
    BY <1>3 DEF Answers, Dequeue, DequeueThenEnqueue
  <2>2. /\ q \in Seq(Records) /\ q # <<>> /\ w = q[1] /\ w \in Records /\ Len(q) \in Nat \ {0}
        /\ Tail(q) \in Seq(Records) /\ Len(Tail(q)) = Len(q) - 1
        /\ \A i \in 1..Len(Tail(q)) : Tail(q)[i] = q[i + 1]
    <3>1. q \in Seq(Records) /\ q # <<>>
      BY <2>1 DEF FlagsInv, LikesInv, StoreOK, OthersOK, Answered
    <3> QED BY <3>1, TailFacts DEF Oldest
  <2>3. \A e \in Devices : Sound(e)' = Sound(e)
    BY <2>1 DEF Sound
  <2>3a. PICK s \in Posts : s = w.tap.post
    BY <2>2 DEF Records, Taps
  <2>4. \A e \in Devices \ {d}, p \in Posts : Writing(e, p)' <=> Writing(e, p)
    BY <1>1 DEF Writing
  <2>5. \A i \in 2..Len(q) : i - 1 \in 1..Len(Tail(q)) /\ Tail(q)[i - 1] = q[i]
    BY <2>2
  <2>6. CASE w.then # "user" /\ queue' = [queue EXCEPT ![d] = Tail(q)]
    <3>1. queue'[d] = Tail(q)
      BY <2>6 DEF FlagsInv, LikesInv, StoreOK, OthersOK
    <3> HIDE DEF w, w2
    <3>2. \A p \in Posts : Writing(d, p)' => Writing(d, p)
      <4> SUFFICES ASSUME NEW p \in Posts, Writing(d, p)' PROVE Writing(d, p)
        OBVIOUS
      <4>1. PICK i \in 1..Len(Tail(q)) : Tail(q)[i].then # "none" /\ Tail(q)[i].tap.post = p
        BY <3>1 DEF Writing
      <4>2. i + 1 \in 1..Len(q) /\ q[i + 1] = Tail(q)[i]
        BY <2>2
      <4> QED BY <4>1, <4>2 DEF Writing
    <3>3. \A p \in Posts : Writing(d, p) => Writing(d, p)' \/ (w.then # "none" /\ p = s)
      <4> SUFFICES ASSUME NEW p \in Posts, Writing(d, p), ~(w.then # "none" /\ p = s)
          PROVE  Writing(d, p)'
        OBVIOUS
      <4>1. PICK i \in 1..Len(q) : q[i].then # "none" /\ q[i].tap.post = p
        BY DEF Writing
      <4>2. i # 1
        BY <2>2, <2>3a, <4>1
      <4>3. i - 1 \in 1..Len(Tail(q)) /\ Tail(q)[i - 1] = q[i]
        BY <2>2, <2>5, <4>2
      <4> QED BY <3>1, <4>1, <4>3 DEF Writing
    <3>4. CASE \A p \in Posts : Writing(d, p) => Writing(d, p)'
      <4>1. WrittenPairs' = WrittenPairs
        BY <2>4, <3>2, <3>4, SameWritten
      <4> QED BY <2>1, <2>3, <4>1, StutterStep
    <3>5. CASE ~(\A p \in Posts : Writing(d, p) => Writing(d, p)')
      <4> DEFINE x == <<Account[d], s>>
      <4>0. Writing(d, s) /\ ~Writing(d, s)'
        BY <3>3, <3>5
      <4>1. /\ x \in PairList /\ x[1] = Account[d] /\ x[2] = s
            /\ Writing(d, s) /\ ~Writing(d, s)'
            /\ \A p \in Posts : Writing(d, p)' <=> Writing(d, p) /\ p # s
        BY <3>2, <3>3, <4>0, AccountType DEF PairList
      <4>2. LostPairs' = LostPairs
        BY <2>3, SameLost
      <4>3. CASE x \in LostPairs
        <5>1. ASSUME NEW y \in PairList, y \notin LostPairs
              PROVE  y \in WrittenPairs' <=> y \in WrittenPairs
          <6>1. y = <<y[1], y[2]>> /\ y[2] \in Posts
            BY DEF PairList
          <6>2. y # x
            BY <4>3, <5>1
          <6>3. CASE y[1] # Account[d]
            BY <2>4, <6>1, <6>3 DEF WrittenPairs
          <6>4. CASE y[1] = Account[d]
            <7>1. y[2] # s
              BY <6>1, <6>2, <6>4
            <7> QED BY <2>4, <4>1, <6>1, <6>4, <7>1 DEF WrittenPairs
          <6> QED BY <6>3, <6>4
        <5>2. BusyPairs' = BusyPairs
          <6>1. WrittenPairs \subseteq PairList /\ WrittenPairs' \subseteq PairList
            BY DEF WrittenPairs
          <6> QED BY <4>2, <5>1, <6>1 DEF BusyPairs
        <5> QED BY <2>1, <4>2, <5>2, SameDocs DEF DirStep
      <4>4. CASE x \notin LostPairs
        <5>1. Sole(d) /\ Sound(d)
          <6>1. PICK e \in Devices : Account[e] = Account[d] /\ Sole(e) /\ Sound(e)
            BY <4>1, <4>4 DEF LostPairs
          <6>2. e = d
            BY <6>1 DEF Sole
          <6> QED BY <6>1, <6>2
        <5>2. PairInv(d, s)'
          BY <2>3, <5>1, AnswersKeeps
        <5>3. db[PostLikeDoc(s, Account[d])] = db[UserLikeDoc(Account[d], s)]
          <6>1. SecondWillAgree("post", "user", queue'[d], s, db[PostLikeDoc(s, Account[d])],
                                db[UserLikeDoc(Account[d], s)])
            BY <2>1, <5>2 DEF PairInv, PairOK
          <6>2. \A i \in 1..Len(queue'[d]) : ~Awaits("post", queue'[d][i], "user", s)
                                             /\ ~Awaits("post", queue'[d][i], "done", s)
            BY <4>1 DEF Writing, Awaits
          <6> QED BY <6>1, <6>2 DEF SecondWillAgree
        <5>4. PostFlags[x] = UserFlags[x]
          BY <4>1, <5>3 DEF PostFlags, UserFlags
        <5>5. x \in BusyPairs
          BY <4>1 DEF BusyPairs, WrittenPairs
        <5>6. BusyPairs' = BusyPairs \ {x}
          <6>1. ASSUME NEW y \in PairList PROVE y \in WrittenPairs' <=> y \in WrittenPairs /\ y # x
            <7>1. y = <<y[1], y[2]>> /\ y[2] \in Posts
              BY DEF PairList
            <7>2. CASE y[1] # Account[d]
              BY <2>4, <7>1, <7>2 DEF WrittenPairs
            <7>3. CASE y[1] = Account[d]
              <8>1. \A e \in Devices : Account[e] = Account[d] => e = d
                BY <5>1 DEF Sole
              <8>2. y = x <=> y[2] = s
                BY <7>1, <7>3
              <8>3. y \in WrittenPairs <=> Writing(d, y[2])
                BY <7>3, <8>1 DEF WrittenPairs
              <8>4. y \in WrittenPairs' <=> Writing(d, y[2])'
                BY <7>3, <8>1 DEF WrittenPairs
              <8> QED BY <4>1, <7>1, <8>2, <8>3, <8>4
            <7> QED BY <7>2, <7>3
          <6>2. WrittenPairs \subseteq PairList /\ WrittenPairs' \subseteq PairList
            BY DEF WrittenPairs
          <6> HIDE DEF x
          <6> QED BY <4>2, <4>4, <6>1, <6>2 DEF BusyPairs
        <5> HIDE DEF x
        <5>7. Dir!End(x)
          BY <2>1, <4>2, <4>4, <5>4, <5>5, <5>6, SameDocs
          DEF Dir!End, BusyPairs, WrittenPairs, PostFlags, UserFlags
        <5> QED BY <4>1, <5>7 DEF DirStep, Dir!Next
      <4> QED BY <4>3, <4>4
    <3> QED BY <3>4, <3>5
  <2>7. CASE w.then = "user" /\ queue' = [queue EXCEPT ![d] = Append(Tail(q), w2)]
    <3>1. w2.then = "done" /\ w2.tap.post = s
      BY <2>2, <2>3a DEF Records
    <3>2. queue'[d] = Append(Tail(q), w2)
      BY <2>7 DEF FlagsInv, LikesInv, StoreOK, OthersOK
    <3> HIDE DEF w2
    <3>3. /\ Len(queue'[d]) = Len(q) /\ queue'[d][Len(q)] = w2
          /\ \A i \in 2..Len(q) : queue'[d][i - 1] = q[i]
      BY <2>2, <2>5, <3>2
    <3> HIDE DEF w, q
    <3>4. \A p \in Posts : Writing(d, p)' => Writing(d, p)
      <4> SUFFICES ASSUME NEW p \in Posts, Writing(d, p)' PROVE Writing(d, p)
        OBVIOUS
      <4>1. PICK i \in 1..Len(q) : queue'[d][i].then # "none" /\ queue'[d][i].tap.post = p
        BY <3>3 DEF Writing
      <4>2. CASE i = Len(q)
        <5>1. p = s
          BY <3>1, <3>3, <4>1, <4>2
        <5>2. 1 \in 1..Len(q) /\ q[1].then # "none" /\ q[1].tap.post = p
          BY <2>2, <2>7, <2>3a, <5>1
        <5> QED BY <5>2 DEF Writing, q
      <4>3. CASE i # Len(q)
        <5>1. i + 1 \in 2..Len(q) /\ i + 1 \in 1..Len(q) /\ (i + 1) - 1 = i
          BY <2>2, <4>1, <4>3
        <5>2. q[i + 1] = queue'[d][i]
          BY <3>3, <5>1
        <5> QED BY <4>1, <5>1, <5>2 DEF Writing, q
      <4> QED BY <4>2, <4>3
    <3>5. \A p \in Posts : Writing(d, p) => Writing(d, p)'
      <4> SUFFICES ASSUME NEW p \in Posts, Writing(d, p) PROVE Writing(d, p)'
        OBVIOUS
      <4>1. PICK i \in 1..Len(q) : q[i].then # "none" /\ q[i].tap.post = p
        BY DEF Writing, q
      <4>2. CASE i = 1
        <5>1. p = s
          BY <2>2, <2>3a, <4>1, <4>2
        <5>2. Len(q) \in 1..Len(q)
          BY <2>2
        <5> QED BY <3>1, <3>3, <5>1, <5>2 DEF Writing
      <4>3. CASE i # 1
        <5>1. i \in 2..Len(q) /\ i - 1 \in 1..Len(q)
          BY <2>2, <4>3
        <5> QED BY <3>3, <4>1, <5>1 DEF Writing
      <4> QED BY <4>2, <4>3
    <3>6. WrittenPairs' = WrittenPairs
      BY <2>4, <3>4, <3>5, SameWritten
    <3> QED BY <2>1, <2>3, <3>6, StutterStep
  <2> QED BY <2>1, <2>6, <2>7
<1> QED BY <1>2, <1>3

LEMMA StepDirectory ==
  ASSUME FlagsInv, [Next]_vars
  PROVE  DirStep
<1>1. CASE UNCHANGED storeVars /\ (UNCHANGED failed \/ \E d \in Devices : Fails(d, "readfail"))
  <2>1. \A e \in Devices : Sound(e)' = Sound(e)
    BY <1>1 DEF Fails, Sound, FlagsInv, LikesInv, StoreOK, OthersOK
  <2>2. WrittenPairs' = WrittenPairs
    BY <1>1, SameWritten DEF Writing, storeVars
  <2> QED BY <1>1, <2>1, <2>2, StutterStep DEF storeVars
<1>2. ASSUME NEW d \in Devices, Extends(d) PROVE DirStep
  BY <1>2, ExtendsStep DEF FlagsInv
<1>3. ASSUME NEW d \in Devices, Answers(d) PROVE DirStep
  BY <1>3, AnswersStep
<1>4. ASSUME NEW d \in Devices, Commit(d), UNCHANGED failed PROVE DirStep
  BY <1>4, CommitStep
<1>5. ASSUME NEW d \in Devices, Reopen(d), UNCHANGED failed PROVE DirStep
  <2>1. \A e \in Devices : Sound(e)' = Sound(e)
    BY <1>5 DEF Sound
  <2>2. WrittenPairs' = WrittenPairs
    BY <1>5, SameWritten DEF Writing, Reopen
  <2> QED BY <1>5, <2>1, <2>2, StutterStep DEF Reopen
<1>6. ASSUME NEW d \in Devices, LoseProcess(d), Fails(d, "crash") PROVE DirStep
  <2>1. UNCHANGED db /\ \A e \in Devices \ {d} : queue'[e] = queue[e]
    BY <1>6 DEF LoseProcess, FlagsInv, LikesInv, StoreOK, OthersOK
  <2> QED BY <1>6, <2>1, AbandonStep DEF FlagsInv, DirStep
<1> QED BY <1>1, <1>2, <1>3, <1>4, <1>5, <1>6, StepKind DEF StoreStep, FlagsInv

(* The likers of the posts and the liked posts of the users start out equal. *)
LEMMA InitDirectory == Init => Dir!Init
<1> SUFFICES ASSUME Init PROVE Dir!Init
  OBVIOUS
<1>1. LikesInv
  BY InitLikesInv
<1>2. ASSUME NEW x \in PairList
      PROVE  /\ db[PostLikeDoc(x[2], x[1])] = db[UserLikeDoc(x[1], x[2])]
             /\ db[PostLikeDoc(x[2], x[1])] \in BOOLEAN
  BY InitAgrees DEF PairList
<1>3. PostFlags \in [PairList -> BOOLEAN] /\ UserFlags = PostFlags
  BY <1>2 DEF PostFlags, UserFlags
<1>4. WrittenPairs = {}
  BY DEF Init, WrittenPairs, Writing
<1>5. LostPairs \in SUBSET PairList
  BY DEF LostPairs
<1> QED BY <1>3, <1>4, <1>5 DEF Dir!Init, PostFlags, UserFlags, WrittenPairs

(* The likes of any number of phones, users and posts, with their faults and
   resent writes, are no more than the directory's steps: one copy at a time of
   a busy pair changes, and a pair is released with equal copies or abandoned. *)
THEOREM LikesDirectoryImplemented == Spec => LikesAreDirectory
<1>1. FlagsInv /\ [Next]_vars => [Dir!Next]_(Dir!dirVars)
  BY StepDirectory DEF DirStep, Dir!dirVars, PostFlags, UserFlags, BusyPairs, WrittenPairs
<1> QED BY InitFlags, StepFlags, InitDirectory, <1>1, PTL DEF Spec, LikesAreDirectory, Dir!Spec

-----------------------------------------------------------------------------
(* Two documents c and f that one tap writes, f once and after every write of
   c, in the queue q of a phone, n of whose writes are applied. *)

Absent(q, x) == \A i \in 1..Len(q) : q[i].doc # x

(* Whatever write of x is applied, v is stored. *)
Arrived(q, n, x, stored, v) == \A i \in 1..n : q[i].doc = x => stored = v

(* v is stored, or will be. *)
Due(q, x, stored, v) == stored = v \/ \E i \in 1..Len(q) : q[i].doc = x

LastOnce(q, c, f) ==
  \E k \in 1..Len(q) :
    /\ q[k].doc = f
    /\ \A i \in 1..Len(q) : (q[i].doc = f => i = k) /\ (q[i].doc = c => i < k)

(* A write is added. *)
LEMMA GrowDue ==
  ASSUME NEW S, NEW q \in Seq(S), NEW q2 \in Seq(S), Len(q2) = Len(q) + 1,
         \A i \in 1..Len(q) : q2[i] = q[i],
         NEW n \in Nat, n <= Len(q), NEW x, NEW stored, NEW v
  PROVE  /\ Arrived(q, n, x, stored, v) => Arrived(q2, n, x, stored, v)
         /\ Due(q, x, stored, v) \/ q2[Len(q2)].doc = x => Due(q2, x, stored, v)
         /\ Absent(q, x) /\ q2[Len(q2)].doc # x => Absent(q2, x)
<1>1. Len(q) \in Nat /\ Len(q2) \in 1..Len(q2) /\ 1..n \subseteq 1..Len(q)
  OBVIOUS
<1>2. \A i \in 1..Len(q) : i \in 1..Len(q2)
  BY <1>1
<1>3. \A i \in 1..Len(q2) : i \in 1..Len(q) \/ i = Len(q2)
  BY <1>1
<1>4. Arrived(q, n, x, stored, v) => Arrived(q2, n, x, stored, v)
  BY <1>1 DEF Arrived
<1>5. Due(q, x, stored, v) \/ q2[Len(q2)].doc = x => Due(q2, x, stored, v)
  BY <1>1, <1>2 DEF Due
<1>6. Absent(q, x) /\ q2[Len(q2)].doc # x => Absent(q2, x)
  BY <1>3 DEF Absent
<1> QED BY <1>4, <1>5, <1>6

LEMMA GrowLast ==
  ASSUME NEW S, NEW q \in Seq(S), NEW q2 \in Seq(S), Len(q2) = Len(q) + 1,
         \A i \in 1..Len(q) : q2[i] = q[i], NEW c, NEW f, c # f,
         \/ Absent(q, f) /\ q2[Len(q2)].doc = f
         \/ LastOnce(q, c, f) /\ q2[Len(q2)].doc \notin {c, f}
  PROVE  LastOnce(q2, c, f)
<1>1. Len(q) \in Nat /\ Len(q2) \in 1..Len(q2)
  OBVIOUS
<1>2. \A i \in 1..Len(q2) : i \in 1..Len(q) \/ i = Len(q2)
  BY <1>1
<1>3. CASE Absent(q, f) /\ q2[Len(q2)].doc = f
  <2>1. \A i \in 1..Len(q2) : (q2[i].doc = f => i = Len(q2)) /\ (q2[i].doc = c => i < Len(q2))
    <3> SUFFICES ASSUME NEW i \in 1..Len(q2)
        PROVE  (q2[i].doc = f => i = Len(q2)) /\ (q2[i].doc = c => i < Len(q2))
      OBVIOUS
    <3>1. CASE i \in 1..Len(q)
      <4>1. q2[i].doc # f /\ i < Len(q2)
        BY <1>1, <1>3, <3>1 DEF Absent
      <4> QED BY <4>1
    <3>2. CASE i = Len(q2)
      BY <1>3, <3>2
    <3> QED BY <1>2, <3>1, <3>2
  <2> QED BY <1>1, <1>3, <2>1 DEF LastOnce
<1>4. CASE LastOnce(q, c, f) /\ q2[Len(q2)].doc \notin {c, f}
  <2>1. PICK k \in 1..Len(q) :
          /\ q[k].doc = f
          /\ \A i \in 1..Len(q) : (q[i].doc = f => i = k) /\ (q[i].doc = c => i < k)
    BY <1>4 DEF LastOnce
  <2>2. k \in 1..Len(q2) /\ q2[k].doc = f
    BY <1>1, <2>1
  <2>3. \A i \in 1..Len(q2) : (q2[i].doc = f => i = k) /\ (q2[i].doc = c => i < k)
    BY <1>2, <1>4, <2>1
  <2> QED BY <2>2, <2>3 DEF LastOnce
<1> QED BY <1>3, <1>4

(* The oldest write, which is applied, is answered, and a write of another
   document may be added. *)
LEMMA ShrinkDue ==
  ASSUME NEW S, NEW q \in Seq(S), NEW q2 \in Seq(S), Len(q) > 0,
         Len(q2) \in {Len(q) - 1, Len(q)},
         \A i \in 1..Len(q) - 1 : q2[i] = q[i + 1],
         NEW n \in Nat \ {0}, n <= Len(q), NEW x, NEW stored, NEW v,
         Len(q2) = Len(q) => q2[Len(q)].doc # x
  PROVE  /\ Arrived(q, n, x, stored, v) => Arrived(q2, n - 1, x, stored, v)
         /\ Arrived(q, n, x, stored, v) /\ Due(q, x, stored, v) => Due(q2, x, stored, v)
         /\ Absent(q, x) => Absent(q2, x)
<1>1. /\ \A i \in 1..n - 1 : i + 1 \in 1..n /\ q2[i] = q[i + 1]
      /\ \A i \in 1..Len(q2) : i = Len(q) \/ (i + 1 \in 1..Len(q) /\ q2[i] = q[i + 1])
  <2>1. Len(q) \in Nat /\ Len(q2) \in Nat /\ Len(q2) <= Len(q)
    OBVIOUS
  <2>2. ASSUME NEW i \in 1..n - 1 PROVE i + 1 \in 1..n /\ i \in 1..Len(q) - 1
    BY <2>1
  <2>3. ASSUME NEW i \in 1..Len(q2), i # Len(q) PROVE i + 1 \in 1..Len(q) /\ i \in 1..Len(q) - 1
    BY <2>1, <2>3
  <2> QED BY <2>2, <2>3
<1>2. \A i \in 1..Len(q) : i = 1 \/ (i - 1 \in 1..Len(q2) /\ q2[i - 1] = q[i])
  OBVIOUS
<1>3. Arrived(q, n, x, stored, v) => Arrived(q2, n - 1, x, stored, v)
  BY <1>1 DEF Arrived
<1>4. Arrived(q, n, x, stored, v) /\ Due(q, x, stored, v) => Due(q2, x, stored, v)
  <2>1. 1 \in 1..n
    OBVIOUS
  <2> QED BY <1>2, <2>1 DEF Arrived, Due
<1>5. Absent(q, x) => Absent(q2, x)
  <2> SUFFICES ASSUME Absent(q, x), NEW i \in 1..Len(q2) PROVE q2[i].doc # x
    BY DEF Absent
  <2>1. CASE i = Len(q)
    <3>1. Len(q2) = Len(q)
      BY <1>1, <2>1
    <3> QED BY <2>1, <3>1
  <2>2. CASE i # Len(q)
    BY <1>1, <2>2 DEF Absent
  <2> QED BY <2>1, <2>2
<1> QED BY <1>3, <1>4, <1>5

LEMMA ShrinkLast ==
  ASSUME NEW S, NEW q \in Seq(S), NEW q2 \in Seq(S), Len(q) > 0,
         Len(q2) \in {Len(q) - 1, Len(q)},
         \A i \in 1..Len(q) - 1 : q2[i] = q[i + 1],
         NEW c, NEW f, LastOnce(q, c, f), q[1].doc # f,
         Len(q2) = Len(q) => q2[Len(q)].doc \notin {c, f}
  PROVE  LastOnce(q2, c, f)
<1>1. PICK k \in 1..Len(q) :
        /\ q[k].doc = f
        /\ \A i \in 1..Len(q) : (q[i].doc = f => i = k) /\ (q[i].doc = c => i < k)
  BY DEF LastOnce
<1>2. k - 1 \in 1..Len(q2) /\ q2[k - 1] = q[k]
  <2>1. k # 1
    BY <1>1
  <2>2. k - 1 \in 1..Len(q) - 1 /\ (k - 1) + 1 = k
    BY <2>1
  <2> QED BY <2>2
<1>3. ASSUME NEW i \in 1..Len(q2)
      PROVE  (q2[i].doc = f => i = k - 1) /\ (q2[i].doc = c => i < k - 1)
  <2>1. CASE i \in 1..Len(q) - 1
    <3>1. i + 1 \in 1..Len(q) /\ q2[i] = q[i + 1]
      BY <2>1
    <3>2. (q2[i].doc = f => i + 1 = k) /\ (q2[i].doc = c => i + 1 < k)
      BY <1>1, <3>1
    <3> QED BY <3>2
  <2>2. CASE i \notin 1..Len(q) - 1
    <3>1. i = Len(q) /\ Len(q2) = Len(q)
      BY <2>2
    <3> QED BY <3>1
  <2> QED BY <2>1, <2>2
<1> QED BY <1>1, <1>2, <1>3 DEF LastOnce

-----------------------------------------------------------------------------
(* The life of a tap.  As long as every tap finds the post at rest, at most one
   tap t, on phone d, is on its way for post p: its block before the counter is
   written, its block before the flag is, or its flag in the queue, after the
   counter.  What it stores is right from the start: the counter it writes is
   the number of those who will like the post. *)

CleanQueue(q, p) == \A i \in 1..Len(q) : ~Concerns(q[i].doc, p)

About(b, p) == b.kind \in {"count", "flag"} /\ b.tap.post = p

Settled(p) ==
  /\ \A e \in Devices : CleanQueue(queue[e], p)
  /\ \A b \in blocks : ~About(b, p)
  /\ db[LikesDoc(p)] = Cardinality(Likers(p))

Intended(p, a, like) == IF like THEN Likers(p) \cup {a} ELSE Likers(p) \ {a}

TapWrite(w, p, a, t) ==
  \/ w.doc = LikesDoc(p) /\ w.val = Outcome(t)
  \/ w.doc = PostLikeDoc(p, a) /\ w.val = t.like

Stage(p, d, t) ==
  LET q       == queue[d]
      flag    == PostLikeDoc(p, Account[d])
      block   == [dev |-> d, kind |-> "flag", tap |-> t]
      counted == Due(q, LikesDoc(p), db[LikesDoc(p)], Outcome(t))
  IN  IF [block EXCEPT !.kind = "count"] \in blocks
      THEN block \notin blocks /\ CleanQueue(q, p)
      ELSE counted /\ IF block \in blocks THEN Absent(q, flag)
                                          ELSE LastOnce(q, LikesDoc(p), flag)

Tapped(p, d, t) ==
  LET q    == queue[d]
      flag == PostLikeDoc(p, Account[d])
  IN  /\ t.post = p
      /\ Outcome(t) = Cardinality(Intended(p, Account[d], t.like))
      /\ \A e \in Devices \ {d} : CleanQueue(queue[e], p)
      /\ \A b \in blocks : About(b, p) => b.dev = d /\ b.tap = t
      /\ \A i \in 1..Len(q) : Concerns(q[i].doc, p) => TapWrite(q[i], p, Account[d], t)
      /\ Arrived(q, applied[d], LikesDoc(p), db[LikesDoc(p)], Outcome(t))
      /\ Arrived(q, applied[d], flag, db[flag], t.like)
      /\ Stage(p, d, t)

Followed(p) == Settled(p) \/ \E d \in Devices, t \in Taps : Tapped(p, d, t)

ExactInv ==
  /\ LikesInv
  /\ \A p \in Posts : p \notin stale /\ (\A d \in Devices : Sound(d)) => Followed(p)

LEMMA ConcernsApart ==
  ASSUME NEW p, NEW q, NEW u
  PROVE  /\ Concerns(LikesDoc(p), p)
         /\ u \in Users => Concerns(PostLikeDoc(p, u), p)
         /\ p # q => ~Concerns(LikesDoc(p), q) /\ ~Concerns(PostLikeDoc(p, u), q)
         /\ ~Concerns(UserLikeDoc(u, p), q)
         /\ ~Concerns(NotificationDoc(p, u), q)
<1>1. p # q => LikesDoc(p) # LikesDoc(q)
  BY DEF LikesDoc
<1>2. /\ LikesDoc(q)[1] = "posts" /\ UserLikeDoc(u, p)[1] = "user-likes"
      /\ NotificationDoc(p, u)[1] = "user-notifications" /\ PostLikeDoc(p, u)[1] = "post-likes"
  BY DEF LikesDoc, UserLikeDoc, NotificationDoc, PostLikeDoc
<1> QED BY <1>1, <1>2, PairDocs DEF Concerns

(* The counter and the flags of a post, as they are stored, do not change. *)
SamePost(p) ==
  /\ db'[LikesDoc(p)] = db[LikesDoc(p)]
  /\ \A u \in Users : db'[PostLikeDoc(p, u)] = db[PostLikeDoc(p, u)]

SameBlocks(p) == \A b : About(b, p) => (b \in blocks' <=> b \in blocks)

LEMMA SettledStays ==
  ASSUME NEW p, Settled(p), SamePost(p), SameBlocks(p),
         \A e \in Devices : CleanQueue(queue'[e], p)
  PROVE  Settled(p)'
<1>1. Likers(p)' = Likers(p)
  BY DEF SamePost, Likers
<1> QED BY <1>1 DEF Settled, SamePost, SameBlocks, CleanQueue, About, Concerns

LEMMA SameStage ==
  ASSUME NEW p, NEW d \in Devices, NEW t, t.post = p, Stage(p, d, t), SamePost(p), SameBlocks(p),
         queue'[d] = queue[d]
  PROVE  Stage(p, d, t)'
<1> DEFINE block == [dev |-> d, kind |-> "flag", tap |-> t]
           first == [block EXCEPT !.kind = "count"]
<1>1. About(block, p) /\ About(first, p)
  BY DEF About
<1>2. (block \in blocks' <=> block \in blocks) /\ (first \in blocks' <=> first \in blocks)
  BY <1>1 DEF SameBlocks
<1> QED BY <1>2 DEF Stage, SamePost, Due, Absent, LastOnce, CleanQueue, Concerns

LEMMA TappedStays ==
  ASSUME NEW p, NEW d \in Devices, NEW t, Tapped(p, d, t), SamePost(p), SameBlocks(p),
         queue'[d] = queue[d], applied[d] \in Nat, applied'[d] \in Nat,
         applied'[d] <= applied[d],
         \A e \in Devices \ {d} : CleanQueue(queue'[e], p)
  PROVE  Tapped(p, d, t)'
<1>1. Intended(p, Account[d], t.like)' = Intended(p, Account[d], t.like)
  BY DEF SamePost, Likers, Intended
<1>2. Stage(p, d, t)'
  BY SameStage DEF Tapped
<1>3. 1..applied'[d] \subseteq 1..applied[d]
  OBVIOUS
<1>4. \A b \in blocks' : About(b, p) => b.dev = d /\ b.tap = t
  BY DEF Tapped, SameBlocks
<1>5. Account[d] \in Users
  BY AccountType
<1>6. /\ Arrived(queue[d], applied[d], LikesDoc(p), db[LikesDoc(p)], Outcome(t))
      /\ Arrived(queue[d], applied[d], PostLikeDoc(p, Account[d]),
                 db[PostLikeDoc(p, Account[d])], t.like)
  BY DEF Tapped
<1>7. /\ Arrived(queue[d], applied[d], LikesDoc(p), db[LikesDoc(p)], Outcome(t))'
      /\ Arrived(queue[d], applied[d], PostLikeDoc(p, Account[d]),
                 db[PostLikeDoc(p, Account[d])], t.like)'
  BY <1>3, <1>5, <1>6 DEF Arrived, SamePost
<1>8. \A i \in 1..Len(queue'[d]) : Concerns(queue'[d][i].doc, p)
                                     => TapWrite(queue'[d][i], p, Account[d], t)
  BY DEF Tapped
<1>9. \A e \in Devices \ {d} : CleanQueue(queue[e], p)'
  BY DEF CleanQueue, Concerns
<1> QED BY <1>1, <1>2, <1>4, <1>7, <1>8, <1>9
        DEF Tapped, About, TapWrite, Concerns, Outcome

(* Nothing of the post moves. *)
LEMMA FollowedStays ==
  ASSUME LikesInv, NEW p, Followed(p), SamePost(p), SameBlocks(p), queue' = queue,
         \A e \in Devices : applied'[e] \in Nat /\ applied'[e] <= applied[e]
  PROVE  Followed(p)'
<1>0. \A e \in Devices : applied[e] \in Nat
  BY DEF LikesInv, StoreOK
<1>1. CASE Settled(p)
  BY <1>1, SettledStays DEF Followed, Settled
<1>2. CASE ~Settled(p)
  <2>1. PICK d \in Devices, t \in Taps : Tapped(p, d, t)
    BY <1>2 DEF Followed
  <2>2. \A e \in Devices \ {d} : CleanQueue(queue'[e], p)
    BY <2>1 DEF Tapped
  <2>3. Tapped(p, d, t)'
    BY <1>0, <2>1, <2>2, TappedStays
  <2> QED BY <2>3 DEF Followed
<1> QED BY <1>1, <1>2

(* A tap on its way is seen. *)
LEMMA TappedInFlight ==
  ASSUME NEW p, NEW d \in Devices, NEW t, Tapped(p, d, t)
  PROVE  InFlight(p)
<1> DEFINE block == [dev |-> d, kind |-> "flag", tap |-> t]
           first == [block EXCEPT !.kind = "count"]
<1>1. About(block, p) /\ About(first, p)
  BY DEF About, Tapped
<1>2. CASE block \in blocks \/ first \in blocks
  BY <1>1, <1>2 DEF InFlight, About
<1>3. CASE ~(block \in blocks \/ first \in blocks)
  <2>1. PICK k \in 1..Len(queue[d]) : queue[d][k].doc = PostLikeDoc(p, Account[d])
    BY <1>3 DEF Tapped, Stage, LastOnce
  <2>2. Concerns(queue[d][k].doc, p)
    BY <2>1, AccountType, ConcernsApart
  <2> QED BY <2>2 DEF InFlight
<1> QED BY <1>2, <1>3

LEMMA NotInFlight ==
  ASSUME NEW p, ~InFlight(p)
  PROVE  /\ \A e \in Devices : CleanQueue(queue[e], p)
         /\ \A b \in blocks : ~About(b, p)
BY DEF InFlight, CleanQueue, About

(* The users are finitely many. *)
LEMMA LikersFinite ==
  ASSUME NEW p
  PROVE  IsFiniteSet(Likers(p)) /\ Cardinality(Likers(p)) \in Nat
<1>1. Likers(p) \in SUBSET Users /\ IsFiniteSet(Users)
  BY LikesAssumption DEF Likers, LikesAssumption
<1>2. IsFiniteSet(Likers(p))
  BY <1>1, FS_Subset
<1> QED BY <1>2, FS_CardinalityType

(* A tap on an up-to-date cell sets out. *)
LEMMA TapSetsOut ==
  ASSUME LikesInv, LikesInv', NEW d \in Devices, NEW p \in Posts, TapLike(d, p), p \notin stale',
         Followed(p)
  PROVE  Followed(p)'
<1>1. CASE ~CanAct(cells[d][p])
  <2>1. SamePost(p) /\ SameBlocks(p) /\ queue' = queue /\ applied' = applied
    BY <1>1 DEF TapLike, SamePost, SameBlocks, storeVars
  <2> QED BY <2>1, FollowedStays DEF LikesInv, StoreOK
<1>2. CASE CanAct(cells[d][p])
  <2>0. PICK t \in Taps :
          /\ t = [n |-> taps[d] + 1, post |-> p, like |-> ~cells[d][p].didLike,
                 likes |-> cells[d][p].likes]
          /\ blocks' = blocks \cup {[dev |-> d, kind |-> "count", tap |-> t]}
    <3> DEFINE t == [n |-> taps[d] + 1, post |-> p, like |-> ~cells[d][p].didLike,
                     likes |-> cells[d][p].likes]
    <3>1. blocks' = blocks \cup {[dev |-> d, kind |-> "count", tap |-> t]}
      BY <1>2 DEF TapLike
    <3>2. t \in Taps
      <4>1. [dev |-> d, kind |-> "count", tap |-> t] \in Blocks
        BY <3>1 DEF LikesInv
      <4> HIDE DEF t
      <4> QED BY <4>1 DEF Blocks
    <3> QED BY <3>1, <3>2
  <2> DEFINE a  == Account[d]
             b1 == [dev |-> d, kind |-> "count", tap |-> t]
             b2 == [dev |-> d, kind |-> "flag", tap |-> t]
  <2>1. /\ UNCHANGED storeVars /\ blocks' = blocks \cup {b1}
        /\ UpToDate(d, p)
    BY <1>2, <2>0 DEF TapLike
  <2>2. ~InFlight(p) /\ Settled(p)
    <3>1. ~InFlight(p)
      BY <2>1 DEF UpToDate
    <3> QED BY <3>1, TappedInFlight DEF Followed
  <2>3. /\ cells[d][p].likes = Cardinality(Likers(p))
        /\ cells[d][p].didLike = db[PostLikeDoc(p, a)]
    BY <2>1, <2>2 DEF UpToDate, Settled
  <2>4. a \in Users /\ db[PostLikeDoc(p, a)] \in BOOLEAN /\ (a \in Likers(p) <=> db[PostLikeDoc(p, a)])
    BY AccountType, DocsType DEF Likers, LikesInv, StoreOK, DocumentsOK
  <2>6. t.post = p /\ t.like = ~db[PostLikeDoc(p, a)] /\ t.likes = Cardinality(Likers(p))
    BY <2>0, <2>3
  <2>7. Outcome(t) = Cardinality(Intended(p, a, t.like))
    <3>1. CASE t.like
      <4>1. a \notin Likers(p)
        BY <2>4, <2>6, <3>1
      <4>2. Cardinality(Likers(p) \cup {a}) = Cardinality(Likers(p)) + 1
        BY <4>1, LikersFinite, FS_AddElement
      <4> QED BY <2>6, <3>1, <4>2 DEF Outcome, Intended
    <3>2. CASE ~t.like
      <4>1. a \in Likers(p)
        BY <2>4, <2>6, <3>2
      <4>2. Cardinality(Likers(p) \ {a}) = Cardinality(Likers(p)) - 1
        BY <4>1, LikersFinite, FS_RemoveElement
      <4> QED BY <2>6, <3>2, <4>2 DEF Outcome, Intended
    <3> QED BY <3>1, <3>2
  <2>8. /\ \A e \in Devices : CleanQueue(queue[e], p)
        /\ \A b \in blocks : ~About(b, p)
    BY <2>2, NotInFlight
  <2>9. b1 \in blocks' /\ b2 \notin blocks'
    <3>1. About(b2, p) /\ b2 # b1
      BY <2>6 DEF About
    <3> QED BY <2>1, <2>8, <3>1
  <2>10. /\ db' = db /\ queue' = queue /\ applied' = applied
    BY <2>1 DEF storeVars
  <2>11. Stage(p, d, t)'
    <3>1. b1 = [b2 EXCEPT !.kind = "count"]
      OBVIOUS
    <3>2. CleanQueue(queue[d], p)'
      BY <2>8, <2>10 DEF CleanQueue, Concerns
    <3> QED BY <2>9, <3>1, <3>2 DEF Stage
  <2>12. \A e \in Devices \ {d} : CleanQueue(queue[e], p)'
    BY <2>8, <2>10 DEF CleanQueue, Concerns
  <2>13. \A b \in blocks' : About(b, p) => b.dev = d /\ b.tap = t
    BY <2>1, <2>8
  <2>14. /\ \A i \in 1..Len(queue[d]) : ~Concerns(queue[d][i].doc, p)
         /\ applied[d] \in Nat /\ applied[d] <= Len(queue[d]) /\ Len(queue[d]) \in Nat
    BY <2>8 DEF CleanQueue, LikesInv, StoreOK
  <2>15. \A i \in 1..applied[d] : queue[d][i].doc # LikesDoc(p) /\ queue[d][i].doc # PostLikeDoc(p, a)
    <3>1. 1..applied[d] \subseteq 1..Len(queue[d])
      BY <2>14
    <3> QED BY <2>4, <2>14, <3>1, ConcernsApart
  <2>16. /\ Arrived(queue[d], applied[d], LikesDoc(p), db[LikesDoc(p)], Outcome(t))'
         /\ Arrived(queue[d], applied[d], PostLikeDoc(p, a), db[PostLikeDoc(p, a)], t.like)'
    BY <2>10, <2>15 DEF Arrived
  <2>17. Intended(p, a, t.like)' = Intended(p, a, t.like)
    BY <2>10 DEF Intended, Likers
  <2>18. Tapped(p, d, t)'
    BY <2>6, <2>7, <2>10, <2>11, <2>12, <2>13, <2>14, <2>16, <2>17
    DEF Tapped, About, Concerns, TapWrite, Outcome
  <2> QED BY <2>18 DEF Followed
<1> QED BY <1>1, <1>2

(* A write enters the queue of phone e. *)
LEMMA EnqueueFacts ==
  ASSUME LikesInv, NEW e \in Devices, NEW w \in Records, Enqueue(e, w)
  PROVE  /\ UNCHANGED <<db, applied>>
         /\ queue[e] \in Seq(Records) /\ queue'[e] \in Seq(Records)
         /\ Len(queue'[e]) = Len(queue[e]) + 1 /\ Len(queue[e]) \in Nat
         /\ queue'[e][Len(queue'[e])] = w
         /\ \A i \in 1..Len(queue[e]) : queue'[e][i] = queue[e][i]
         /\ applied[e] \in Nat /\ applied[e] <= Len(queue[e])
         /\ \A d \in Devices \ {e} : queue'[d] = queue[d]
<1>1. /\ queue[e] \in Seq(Records) /\ applied[e] \in Nat /\ applied[e] <= Len(queue[e])
      /\ queue'[e] = Append(queue[e], w) /\ \A d \in Devices \ {e} : queue'[d] = queue[d]
      /\ UNCHANGED <<db, applied>>
  BY DEF LikesInv, StoreOK, Enqueue
<1> QED BY <1>1, AppendFacts

LEMMA GrowClean ==
  ASSUME NEW S, NEW q \in Seq(S), NEW q2 \in Seq(S), Len(q2) = Len(q) + 1,
         \A i \in 1..Len(q) : q2[i] = q[i], NEW p,
         CleanQueue(q, p), ~Concerns(q2[Len(q2)].doc, p)
  PROVE  CleanQueue(q2, p)
<1>1. \A i \in 1..Len(q2) : i \in 1..Len(q) \/ i = Len(q2)
  OBVIOUS
<1> QED BY <1>1 DEF CleanQueue

(* The next write of the tap, or one of something else. *)
LEMMA EnqueuedTap ==
  ASSUME LikesInv, NEW p, NEW d \in Devices, NEW t, Tapped(p, d, t), NEW w \in Records,
         Enqueue(d, w), Concerns(w.doc, p) => TapWrite(w, p, Account[d], t),
         \A b \in blocks' : About(b, p) => b.dev = d /\ b.tap = t,
         Stage(p, d, t)'
  PROVE  Tapped(p, d, t)'
<1> DEFINE q  == queue[d]
           q2 == queue'[d]
<1>1. /\ UNCHANGED <<db, applied>>
      /\ q \in Seq(Records) /\ q2 \in Seq(Records) /\ Len(q2) = Len(q) + 1 /\ Len(q) \in Nat
      /\ q2[Len(q2)] = w /\ \A i \in 1..Len(q) : q2[i] = q[i]
      /\ applied[d] \in Nat /\ applied[d] <= Len(q)
      /\ \A e \in Devices \ {d} : queue'[e] = queue[e]
  BY EnqueueFacts
<1>2. Intended(p, Account[d], t.like)' = Intended(p, Account[d], t.like)
  BY <1>1 DEF Likers, Intended
<1>3. \A e \in Devices \ {d} : CleanQueue(queue[e], p)'
  BY <1>1 DEF Tapped, CleanQueue, Concerns
<1>4. /\ Arrived(q, applied[d], LikesDoc(p), db[LikesDoc(p)], Outcome(t))
      /\ Arrived(q, applied[d], PostLikeDoc(p, Account[d]),
                 db[PostLikeDoc(p, Account[d])], t.like)
  BY DEF Tapped
<1>5. /\ Arrived(q2, applied[d], LikesDoc(p), db[LikesDoc(p)], Outcome(t))
      /\ Arrived(q2, applied[d], PostLikeDoc(p, Account[d]),
                 db[PostLikeDoc(p, Account[d])], t.like)
  <2> HIDE DEF q, q2
  <2> QED BY <1>1, <1>4, GrowDue
<1>6. /\ Arrived(queue[d], applied[d], LikesDoc(p), db[LikesDoc(p)], Outcome(t))'
      /\ Arrived(queue[d], applied[d], PostLikeDoc(p, Account[d]),
                 db[PostLikeDoc(p, Account[d])], t.like)'
  BY <1>1, <1>5 DEF Arrived
<1>7. \A i \in 1..Len(q2) : Concerns(q2[i].doc, p) => TapWrite(q2[i], p, Account[d], t)
  <2>1. \A i \in 1..Len(q2) : i \in 1..Len(q) \/ i = Len(q2)
    BY <1>1
  <2>2. \A i \in 1..Len(q) : Concerns(q[i].doc, p) => TapWrite(q[i], p, Account[d], t)
    BY DEF Tapped
  <2> HIDE DEF q, q2
  <2> QED BY <1>1, <2>1, <2>2
<1> QED BY <1>2, <1>3, <1>6, <1>7 DEF Tapped, About, TapWrite, Concerns, Outcome

(* A write of something else enters a queue. *)
LEMMA EnqueueOther ==
  ASSUME LikesInv, NEW p \in Posts, Followed(p), NEW e \in Devices, NEW w \in Records,
         Enqueue(e, w), ~Concerns(w.doc, p), SameBlocks(p)
  PROVE  Followed(p)'
<1>1. /\ UNCHANGED <<db, applied>>
      /\ queue[e] \in Seq(Records) /\ queue'[e] \in Seq(Records)
      /\ Len(queue'[e]) = Len(queue[e]) + 1 /\ Len(queue[e]) \in Nat
      /\ queue'[e][Len(queue'[e])] = w
      /\ \A i \in 1..Len(queue[e]) : queue'[e][i] = queue[e][i]
      /\ applied[e] \in Nat /\ applied[e] <= Len(queue[e])
      /\ \A d \in Devices \ {e} : queue'[d] = queue[d]
  BY EnqueueFacts
<1>2. ASSUME NEW d \in Devices, CleanQueue(queue[d], p) PROVE CleanQueue(queue'[d], p)
  <2>1. CASE d = e
    BY <1>1, <1>2, <2>1, GrowClean
  <2>2. CASE d # e
    BY <1>1, <1>2, <2>2
  <2> QED BY <2>1, <2>2
<1>3. SamePost(p)
  BY <1>1 DEF SamePost
<1>4. CASE Settled(p)
  <2>1. \A d \in Devices : CleanQueue(queue'[d], p)
    BY <1>2, <1>4 DEF Settled
  <2> QED BY <1>3, <1>4, <2>1, SettledStays DEF Followed
<1>5. CASE ~Settled(p)
  <2>1. PICK d \in Devices, t \in Taps : Tapped(p, d, t)
    BY <1>5 DEF Followed
  <2>2. CASE e # d
    <3>1. \A c \in Devices \ {d} : CleanQueue(queue'[c], p)
      BY <1>2, <2>1 DEF Tapped
    <3>2. /\ queue'[d] = queue[d] /\ applied'[d] = applied[d] /\ applied[d] \in Nat
      BY <1>1, <2>2 DEF LikesInv, StoreOK
    <3>3. Tapped(p, d, t)'
      BY <1>3, <2>1, <3>1, <3>2, TappedStays
    <3> QED BY <3>3 DEF Followed
  <2>3. CASE e = d
    <3> DEFINE block == [dev |-> d, kind |-> "flag", tap |-> t]
               first == [block EXCEPT !.kind = "count"]
               flag  == PostLikeDoc(p, Account[d])
               q     == queue[d]
               q2    == queue'[d]
    <3>1. About(block, p) /\ About(first, p) /\ t.post = p
      BY <2>1 DEF About, Tapped
    <3>2. (block \in blocks' <=> block \in blocks) /\ (first \in blocks' <=> first \in blocks)
      BY <3>1 DEF SameBlocks
    <3>3. w.doc # flag /\ w.doc # LikesDoc(p) /\ flag # LikesDoc(p)
      BY AccountType, ConcernsApart, PairDocs
    <3>4. /\ CleanQueue(q, p) => CleanQueue(q2, p)
          /\ Due(q, LikesDoc(p), db[LikesDoc(p)], Outcome(t))
               => Due(q2, LikesDoc(p), db[LikesDoc(p)], Outcome(t))
          /\ Absent(q, flag) => Absent(q2, flag)
          /\ LastOnce(q, LikesDoc(p), flag) => LastOnce(q2, LikesDoc(p), flag)
      <4>1. /\ q \in Seq(Records) /\ q2 \in Seq(Records) /\ Len(q2) = Len(q) + 1
            /\ \A i \in 1..Len(q) : q2[i] = q[i]
            /\ q2[Len(q2)].doc = w.doc
            /\ applied[d] \in Nat /\ applied[d] <= Len(q)
        BY <1>1, <2>3
      <4>2. CleanQueue(q, p) => CleanQueue(q2, p)
        BY <1>2
      <4> HIDE DEF q, q2, flag
      <4>3. Due(q, LikesDoc(p), db[LikesDoc(p)], Outcome(t))
              => Due(q2, LikesDoc(p), db[LikesDoc(p)], Outcome(t))
        BY <4>1, GrowDue
      <4>4. Absent(q, flag) => Absent(q2, flag)
        BY <3>3, <4>1, GrowDue
      <4>5. LastOnce(q, LikesDoc(p), flag) => LastOnce(q2, LikesDoc(p), flag)
        BY <3>3, <4>1, GrowLast
      <4> QED BY <4>2, <4>3, <4>4, <4>5
    <3>5. Stage(p, d, t)
      BY <2>1 DEF Tapped
    <3>6. Stage(p, d, t)'
      BY <1>1, <3>2, <3>4, <3>5 DEF Stage, Due, Absent, LastOnce, CleanQueue, Concerns
    <3>7. \A b \in blocks' : About(b, p) => b.dev = d /\ b.tap = t
      BY <2>1 DEF Tapped, SameBlocks
    <3>8. Tapped(p, d, t)'
      BY <2>1, <2>3, <3>6, <3>7, EnqueuedTap
    <3> QED BY <3>8 DEF Followed
  <2> QED BY <2>2, <2>3
<1> QED BY <1>4, <1>5

(* A block of the tap is a block of the tap on its way. *)
LEMMA BlockOfTap ==
  ASSUME LikesInv, NEW p \in Posts, Followed(p), NEW b \in blocks, About(b, p)
  PROVE  \E d \in Devices, t \in Taps :
           /\ Tapped(p, d, t) /\ t = b.tap /\ d = b.dev
           /\ b = [dev |-> d, kind |-> b.kind, tap |-> t]
<1>1. PICK d \in Devices, t \in Taps : Tapped(p, d, t)
  BY DEF Followed, Settled
<1>2. b.dev = d /\ b.tap = t
  BY <1>1 DEF Tapped
<1>3. b \in Blocks
  BY DEF LikesInv
<1>4. b = [dev |-> b.dev, kind |-> b.kind, tap |-> b.tap]
  BY <1>3 DEF Blocks
<1> QED BY <1>1, <1>2, <1>4

LEMMA CountWritten ==
  ASSUME LikesInv, NEW p \in Posts, Followed(p), NEW b \in blocks, RunCountBlock(b),
         b.tap.post = p
  PROVE  Followed(p)'
<1>1. b.kind = "count" /\ About(b, p)
  BY DEF RunCountBlock, About
<1>2. PICK d \in Devices, t \in Taps :
        /\ Tapped(p, d, t) /\ t = b.tap /\ d = b.dev
        /\ b = [dev |-> d, kind |-> b.kind, tap |-> t]
  BY <1>1, BlockOfTap
<1> DEFINE block == [dev |-> d, kind |-> "flag", tap |-> t]
           flag  == PostLikeDoc(p, Account[d])
           q     == queue[d]
           q2    == queue'[d]
           w     == [doc |-> LikesDoc(p), val |-> Outcome(t), then |-> "none", tap |-> t]
<1>3. b = [block EXCEPT !.kind = "count"] /\ block = [b EXCEPT !.kind = "flag"] /\ b # block
  BY <1>1, <1>2
<1>4. Stage(p, d, t)
  BY <1>2 DEF Tapped
<1>5. CleanQueue(q, p) /\ block \notin blocks
  BY <1>3, <1>4 DEF Stage
<1>6. /\ blocks' = (blocks \ {b}) \cup {block}
      /\ Enqueue(d, w)
  BY <1>2, <1>3 DEF RunCountBlock
<1>7. w \in Records
  <2>1. Sensible(t) /\ Outcome(t) \in Nat
    BY <1>2, TapsType DEF LikesInv, LikeBlock
  <2>2. LikesDoc(p) \in Docs /\ Outcome(t) \in Vals
    BY <2>1, AccountType, DocsType DEF Vals
  <2> QED BY <2>2 DEF Records
<1>8. w.doc = LikesDoc(p) /\ TapWrite(w, p, Account[d], t)
  BY DEF TapWrite
<1> HIDE DEF w
<1>9. /\ UNCHANGED <<db, applied>>
      /\ q \in Seq(Records) /\ q2 \in Seq(Records) /\ Len(q2) = Len(q) + 1 /\ Len(q) \in Nat
      /\ q2[Len(q2)] = w /\ \A i \in 1..Len(q) : q2[i] = q[i]
      /\ applied[d] \in Nat /\ applied[d] <= Len(q)
  BY <1>6, <1>7, EnqueueFacts
<1>10. flag # LikesDoc(p) /\ Absent(q, flag)
  BY <1>5, AccountType, ConcernsApart, PairDocs DEF Absent, CleanQueue
<1>11. Due(q2, LikesDoc(p), db[LikesDoc(p)], Outcome(t)) /\ Absent(q2, flag)
  <2> HIDE DEF q, q2, flag
  <2>1. Due(q2, LikesDoc(p), db[LikesDoc(p)], Outcome(t))
    BY <1>8, <1>9, GrowDue
  <2>2. Absent(q2, flag)
    BY <1>8, <1>9, <1>10, GrowDue
  <2> QED BY <2>1, <2>2
<1>12. Stage(p, d, t)'
  <2>1. b \notin blocks' /\ block \in blocks'
    BY <1>3, <1>6
  <2> QED BY <1>3, <1>9, <1>11, <2>1 DEF Stage, Due, Absent
<1>13. \A c \in blocks' : About(c, p) => c.dev = d /\ c.tap = t
  BY <1>2, <1>6 DEF Tapped
<1>14. Tapped(p, d, t)'
  BY <1>2, <1>6, <1>7, <1>8, <1>12, <1>13, EnqueuedTap
<1> QED BY <1>14 DEF Followed

LEMMA FlagWritten ==
  ASSUME LikesInv, NEW p \in Posts, Followed(p), NEW b \in blocks, RunFlagBlock(b),
         b.tap.post = p
  PROVE  Followed(p)'
<1>1. b.kind = "flag" /\ About(b, p)
  BY DEF RunFlagBlock, About
<1>2. PICK d \in Devices, t \in Taps :
        /\ Tapped(p, d, t) /\ t = b.tap /\ d = b.dev
        /\ b = [dev |-> d, kind |-> b.kind, tap |-> t]
  BY <1>1, BlockOfTap
<1> DEFINE flag  == PostLikeDoc(p, Account[d])
           first == [b EXCEPT !.kind = "count"]
           q     == queue[d]
           q2    == queue'[d]
           w     == [doc |-> flag, val |-> t.like, then |-> "user", tap |-> t]
<1>3. b = [dev |-> d, kind |-> "flag", tap |-> t]
  BY <1>1, <1>2
<1>4. Stage(p, d, t)
  BY <1>2 DEF Tapped
<1>5. /\ first \notin blocks
      /\ Due(q, LikesDoc(p), db[LikesDoc(p)], Outcome(t)) /\ Absent(q, flag)
  BY <1>3, <1>4 DEF Stage
<1>6. blocks' = blocks \ {b} /\ Enqueue(d, w)
  BY <1>2 DEF RunFlagBlock
<1>7. w \in Records
  BY AccountType, DocsType, TapsType DEF Records, Vals
<1>8. w.doc = flag /\ TapWrite(w, p, Account[d], t)
  BY DEF TapWrite
<1> HIDE DEF w
<1>9. /\ UNCHANGED <<db, applied>>
      /\ q \in Seq(Records) /\ q2 \in Seq(Records) /\ Len(q2) = Len(q) + 1 /\ Len(q) \in Nat
      /\ q2[Len(q2)] = w /\ \A i \in 1..Len(q) : q2[i] = q[i]
      /\ applied[d] \in Nat /\ applied[d] <= Len(q)
  BY <1>6, <1>7, EnqueueFacts
<1>10. flag # LikesDoc(p)
  BY PairDocs
<1>11. Due(q2, LikesDoc(p), db[LikesDoc(p)], Outcome(t)) /\ LastOnce(q2, LikesDoc(p), flag)
  <2> HIDE DEF q, q2, flag
  <2>1. Due(q2, LikesDoc(p), db[LikesDoc(p)], Outcome(t))
    BY <1>5, <1>9, GrowDue
  <2>2. LastOnce(q2, LikesDoc(p), flag)
    BY <1>5, <1>8, <1>9, <1>10, GrowLast
  <2> QED BY <2>1, <2>2
<1>12. Stage(p, d, t)'
  <2>1. first \notin blocks' /\ b \notin blocks'
    BY <1>5, <1>6
  <2> QED BY <1>3, <1>9, <1>11, <2>1 DEF Stage, Due, LastOnce
<1>13. \A c \in blocks' : About(c, p) => c.dev = d /\ c.tap = t
  BY <1>2, <1>6 DEF Tapped
<1>14. Tapped(p, d, t)'
  BY <1>2, <1>6, <1>7, <1>8, <1>12, <1>13, EnqueuedTap
<1> QED BY <1>14 DEF Followed

(* Any block of any phone. *)
LEMMA BlockFollowed ==
  ASSUME LikesInv, NEW p \in Posts, Followed(p), NEW d \in Devices, BlockStep(d)
  PROVE  Followed(p)'
<1>1. PICK b \in blocks : b.dev = d /\ (RunCountBlock(b) \/ RunFlagBlock(b) \/ RunNotifyBlock(b))
  BY DEF BlockStep
<1>2. /\ b.tap \in Taps /\ b.tap.post \in Posts /\ b.tap.like \in BOOLEAN
      /\ Outcome(b.tap) \in Nat /\ Account[d] \in Users
  BY AccountType, TapsType DEF LikesInv, LikeBlock, Blocks
<1>3. CASE b.tap.post = p /\ ~RunNotifyBlock(b)
  BY <1>1, <1>3, CountWritten, FlagWritten
<1>4. CASE b.tap.post # p /\ RunCountBlock(b)
  <2> DEFINE w == [doc |-> LikesDoc(b.tap.post), val |-> Outcome(b.tap),
                   then |-> "none", tap |-> b.tap]
  <2>1. w \in Records
    BY <1>2, DocsType DEF Records, Vals
  <2>2. ~Concerns(w.doc, p)
    BY <1>4, ConcernsApart
  <2>3. Enqueue(d, w)
    BY <1>1, <1>4 DEF RunCountBlock
  <2>4. SameBlocks(p)
    <3>1. /\ blocks' = (blocks \ {b}) \cup {[b EXCEPT !.kind = "flag"]}
          /\ [b EXCEPT !.kind = "flag"].tap = b.tap
      BY <1>1, <1>4 DEF RunCountBlock, LikesInv, Blocks
    <3> QED BY <1>4, <3>1 DEF SameBlocks, About
  <2> HIDE DEF w
  <2> QED BY <2>1, <2>2, <2>3, <2>4, EnqueueOther
<1>5. CASE b.tap.post # p /\ RunFlagBlock(b)
  <2> DEFINE w == [doc |-> PostLikeDoc(b.tap.post, Account[d]), val |-> b.tap.like,
                   then |-> "user", tap |-> b.tap]
  <2>1. w \in Records
    BY <1>2, DocsType DEF Records, Vals
  <2>2. ~Concerns(w.doc, p)
    BY <1>5, ConcernsApart
  <2>3. Enqueue(d, w)
    BY <1>1, <1>5 DEF RunFlagBlock
  <2>4. SameBlocks(p)
    BY <1>5 DEF SameBlocks, About, RunFlagBlock
  <2> HIDE DEF w
  <2> QED BY <2>1, <2>2, <2>3, <2>4, EnqueueOther
<1>6. CASE RunNotifyBlock(b)
  <2> DEFINE w == [doc |-> NotificationDoc(b.tap.post, Account[d]), val |-> TRUE,
                   then |-> "none", tap |-> b.tap]
  <2>1. w \in Records
    BY <1>2, DocsType DEF Records, Vals
  <2>2. ~Concerns(w.doc, p)
    BY ConcernsApart
  <2>3. Enqueue(d, w)
    BY <1>1, <1>6 DEF RunNotifyBlock
  <2>4. SameBlocks(p)
    BY <1>6 DEF SameBlocks, About, RunNotifyBlock
  <2> HIDE DEF w
  <2> QED BY <2>1, <2>2, <2>3, <2>4, EnqueueOther
<1> QED BY <1>1, <1>3, <1>4, <1>5, <1>6

(* The oldest write of phone e, which is applied, is answered. *)
LEMMA ShrinkFacts ==
  ASSUME LikesInv, NEW e \in Devices, Answers(e), UNCHANGED failed
  PROVE  /\ db' = db
         /\ queue[e] \in Seq(Records) /\ queue'[e] \in Seq(Records)
         /\ Len(queue[e]) \in Nat \ {0} /\ Len(queue[e]) > 0
         /\ Len(queue'[e]) \in {Len(queue[e]) - 1, Len(queue[e])}
         /\ \A i \in 1..Len(queue[e]) - 1 : queue'[e][i] = queue[e][i + 1]
         /\ Len(queue'[e]) = Len(queue[e]) =>
              \A p \in Posts : ~Concerns(queue'[e][Len(queue[e])].doc, p)
         /\ applied[e] \in Nat \ {0} /\ applied[e] <= Len(queue[e])
         /\ applied'[e] = applied[e] - 1
         /\ \A d \in Devices \ {e} : queue'[d] = queue[d] /\ applied'[d] = applied[d]
<1> DEFINE w  == Oldest(e)
           q  == queue[e]
           w2 == [w EXCEPT !.doc = UserLikeDoc(Account[e], w.tap.post), !.then = "done"]
<1>1. ~Fails(e, "reject")
  BY DEF Fails, LikesInv, OthersOK
<1>2. /\ UNCHANGED db /\ Answered(e)
      /\ queue' = [queue EXCEPT ![e] = Tail(q)] \/ queue' = [queue EXCEPT ![e] = Append(Tail(q), w2)]
  BY <1>1 DEF Answers, Dequeue, DequeueThenEnqueue
<1>3. /\ q \in Seq(Records) /\ q # <<>> /\ applied[e] \in Nat \ {0} /\ applied[e] <= Len(q)
      /\ applied'[e] = applied[e] - 1
      /\ \A d \in Devices \ {e} : queue'[d] = queue[d] /\ applied'[d] = applied[d]
  BY <1>2 DEF LikesInv, StoreOK, Answered
<1>4. /\ Tail(q) \in Seq(Records) /\ Len(Tail(q)) = Len(q) - 1 /\ Len(q) \in Nat \ {0}
      /\ \A i \in 1..Len(Tail(q)) : Tail(q)[i] = q[i + 1]
      /\ Len(q) > 0
  BY <1>3, TailFacts
<1>5. w \in Records
  BY <1>3, <1>4 DEF Oldest
<1>6. w2 \in Records /\ w2.doc = UserLikeDoc(Account[e], w.tap.post)
  <2>1. w.tap.post \in Posts
    BY <1>5 DEF Records, Taps
  <2>2. UserLikeDoc(Account[e], w.tap.post) \in Docs
    BY <2>1, AccountType, DocsType
  <2> HIDE DEF w
  <2> QED BY <1>5, <2>2 DEF Records
<1>7. \A p \in Posts : ~Concerns(w2.doc, p)
  <2> HIDE DEF w2
  <2> QED BY <1>6, ConcernsApart
<1> HIDE DEF w, w2
<1>8. CASE queue' = [queue EXCEPT ![e] = Tail(q)]
  <2>1. queue'[e] = Tail(q)
    BY <1>8 DEF LikesInv, StoreOK
  <2>2. Len(queue'[e]) # Len(q)
    BY <1>4, <2>1
  <2> QED BY <1>2, <1>3, <1>4, <2>1, <2>2
<1>9. CASE queue' = [queue EXCEPT ![e] = Append(Tail(q), w2)]
  <2>1. queue'[e] = Append(Tail(q), w2)
    BY <1>9 DEF LikesInv, StoreOK
  <2> HIDE DEF q
  <2>2. /\ queue'[e] \in Seq(Records) /\ Len(queue'[e]) = Len(q) /\ queue'[e][Len(q)] = w2
        /\ \A i \in 1..Len(q) - 1 : queue'[e][i] = q[i + 1]
    BY <1>4, <1>6, <2>1
  <2> QED BY <1>2, <1>3, <1>4, <1>7, <2>2 DEF q
<1> QED BY <1>2, <1>8, <1>9

LEMMA ShrinkClean ==
  ASSUME NEW S, NEW q \in Seq(S), NEW q2 \in Seq(S), Len(q) > 0,
         Len(q2) \in {Len(q) - 1, Len(q)},
         \A i \in 1..Len(q) - 1 : q2[i] = q[i + 1], NEW p,
         \A i \in 2..Len(q) : ~Concerns(q[i].doc, p),
         Len(q2) = Len(q) => ~Concerns(q2[Len(q)].doc, p)
  PROVE  CleanQueue(q2, p)
<1> SUFFICES ASSUME NEW i \in 1..Len(q2) PROVE ~Concerns(q2[i].doc, p)
  BY DEF CleanQueue
<1>1. CASE i = Len(q)
  <2>1. Len(q2) = Len(q)
    BY <1>1
  <2> QED BY <1>1, <2>1
<1>2. CASE i # Len(q)
  <2>1. i \in 1..Len(q) - 1 /\ i + 1 \in 2..Len(q)
    BY <1>2
  <2> QED BY <2>1
<1> QED BY <1>1, <1>2

(* A write of something else, or the counter's, is answered. *)
LEMMA TapGoesOn ==
  ASSUME LikesInv, NEW p \in Posts, NEW d \in Devices, NEW t, Tapped(p, d, t),
         Answers(d), UNCHANGED failed, SameBlocks(p),
         queue[d][1].doc # PostLikeDoc(p, Account[d])
  PROVE  Tapped(p, d, t)'
<1> DEFINE block == [dev |-> d, kind |-> "flag", tap |-> t]
           first == [block EXCEPT !.kind = "count"]
           c     == LikesDoc(p)
           flag  == PostLikeDoc(p, Account[d])
           q     == queue[d]
           q2    == queue'[d]
           n     == applied[d]
           out   == Outcome(t)
<1>1. /\ db' = db
      /\ q \in Seq(Records) /\ q2 \in Seq(Records)
      /\ Len(q) \in Nat \ {0} /\ Len(q) > 0 /\ Len(q2) \in {Len(q) - 1, Len(q)}
      /\ \A i \in 1..Len(q) - 1 : q2[i] = q[i + 1]
      /\ Len(q2) = Len(q) => ~Concerns(q2[Len(q)].doc, p)
      /\ n \in Nat \ {0} /\ n <= Len(q) /\ applied'[d] = n - 1
      /\ \A e \in Devices \ {d} : queue'[e] = queue[e]
  BY ShrinkFacts
<1>2. /\ Concerns(c, p) /\ Concerns(flag, p) /\ c # flag
  BY AccountType, ConcernsApart, PairDocs
<1>3. Len(q2) = Len(q) => q2[Len(q)].doc # c /\ q2[Len(q)].doc # flag
  BY <1>1, <1>2
<1>4. /\ Arrived(q, n, c, db[c], out) /\ Arrived(q, n, flag, db[flag], t.like)
      /\ Stage(p, d, t) /\ t.post = p
      /\ \A i \in 1..Len(q) : Concerns(q[i].doc, p) => TapWrite(q[i], p, Account[d], t)
      /\ \A e \in Devices \ {d} : CleanQueue(queue[e], p)
      /\ \A b \in blocks : About(b, p) => b.dev = d /\ b.tap = t
      /\ out = Cardinality(Intended(p, Account[d], t.like))
  BY DEF Tapped
<1>5. /\ Arrived(q2, n - 1, c, db[c], out) /\ Arrived(q2, n - 1, flag, db[flag], t.like)
      /\ Due(q, c, db[c], out) => Due(q2, c, db[c], out)
      /\ Absent(q, flag) => Absent(q2, flag)
  <2> HIDE DEF q, q2, n, c, flag, out
  <2> DEFINE number == db[c]
             liked  == db[flag]
  <2>0. Arrived(q, n, c, number, out) /\ Arrived(q, n, flag, liked, t.like)
    BY <1>4
  <2> HIDE DEF number, liked
  <2>1. /\ Arrived(q2, n - 1, c, number, out)
        /\ Due(q, c, number, out) => Due(q2, c, number, out)
    BY <1>1, <1>3, <2>0, ShrinkDue
  <2>2. /\ Arrived(q2, n - 1, flag, liked, t.like)
        /\ Absent(q, flag) => Absent(q2, flag)
    BY <1>1, <1>3, <2>0, ShrinkDue
  <2> QED BY <2>1, <2>2 DEF number, liked
<1>6. LastOnce(q, c, flag) => LastOnce(q2, c, flag)
  <2>1. q[1].doc # flag
    OBVIOUS
  <2> HIDE DEF q, q2, c, flag
  <2> QED BY <1>1, <1>3, <2>1, ShrinkLast
<1>7. CleanQueue(q, p) => CleanQueue(q2, p)
  <2> SUFFICES ASSUME CleanQueue(q, p) PROVE CleanQueue(q2, p)
    OBVIOUS
  <2>1. \A i \in 2..Len(q) : ~Concerns(q[i].doc, p)
    BY <1>1 DEF CleanQueue
  <2> HIDE DEF q, q2
  <2> QED BY <1>1, <2>1, ShrinkClean
<1>8. (block \in blocks' <=> block \in blocks) /\ (first \in blocks' <=> first \in blocks)
  <2>1. About(block, p) /\ About(first, p)
    BY <1>4 DEF About
  <2> QED BY <2>1 DEF SameBlocks
<1>9. Stage(p, d, t)'
  BY <1>1, <1>4, <1>5, <1>6, <1>7, <1>8 DEF Stage, Due, Absent, LastOnce, CleanQueue, Concerns
<1>10. \A i \in 1..Len(q2) : Concerns(q2[i].doc, p) => TapWrite(q2[i], p, Account[d], t)
  <2> SUFFICES ASSUME NEW i \in 1..Len(q2), Concerns(q2[i].doc, p)
      PROVE  TapWrite(q2[i], p, Account[d], t)
    OBVIOUS
  <2>1. i # Len(q)
    BY <1>1
  <2>2. i \in 1..Len(q) - 1 /\ i + 1 \in 1..Len(q)
    BY <1>1, <2>1
  <2> HIDE DEF q, q2
  <2> QED BY <1>1, <1>4, <2>2
<1>11. \A b \in blocks' : About(b, p) => b.dev = d /\ b.tap = t
  BY <1>4 DEF SameBlocks
<1>12. Intended(p, Account[d], t.like)' = Intended(p, Account[d], t.like)
  BY <1>1 DEF Intended, Likers
<1>13. \A e \in Devices \ {d} : CleanQueue(queue[e], p)'
  BY <1>1, <1>4 DEF CleanQueue, Concerns
<1>14. /\ Arrived(queue[d], applied[d], c, db[c], out)'
       /\ Arrived(queue[d], applied[d], flag, db[flag], t.like)'
  BY <1>1, <1>5 DEF Arrived
<1> QED BY <1>1, <1>4, <1>9, <1>10, <1>11, <1>12, <1>13, <1>14
        DEF Tapped, About, TapWrite, Concerns, Outcome

(* The flag is answered: the tap has arrived, and the counter is exact. *)
LEMMA TapArrives ==
  ASSUME LikesInv, NEW p \in Posts, NEW d \in Devices, NEW t, Tapped(p, d, t), t \in Taps,
         Answers(d), UNCHANGED failed, SameBlocks(p),
         queue[d][1].doc = PostLikeDoc(p, Account[d])
  PROVE  Settled(p)'
<1> DEFINE block == [dev |-> d, kind |-> "flag", tap |-> t]
           first == [block EXCEPT !.kind = "count"]
           a     == Account[d]
           c     == LikesDoc(p)
           flag  == PostLikeDoc(p, a)
           q     == queue[d]
           q2    == queue'[d]
           n     == applied[d]
<1>1. /\ db' = db
      /\ q \in Seq(Records) /\ q2 \in Seq(Records)
      /\ Len(q) \in Nat \ {0} /\ Len(q) > 0 /\ Len(q2) \in {Len(q) - 1, Len(q)}
      /\ \A i \in 1..Len(q) - 1 : q2[i] = q[i + 1]
      /\ Len(q2) = Len(q) => ~Concerns(q2[Len(q)].doc, p)
      /\ n \in Nat \ {0}
      /\ \A e \in Devices \ {d} : queue'[e] = queue[e]
  BY ShrinkFacts
<1>2. a \in Users /\ Concerns(flag, p)
  BY AccountType, ConcernsApart
<1>3. 1 \in 1..Len(q) /\ 1 \in 1..n /\ q[1].doc = flag
  BY <1>1
<1>4. ~CleanQueue(q, p) /\ ~Absent(q, flag)
  BY <1>2, <1>3 DEF CleanQueue, Absent
<1>5. /\ first \notin blocks /\ block \notin blocks
      /\ Due(q, c, db[c], Outcome(t)) /\ LastOnce(q, c, flag)
  BY <1>4 DEF Tapped, Stage
<1>6. \A i \in 1..Len(q) : (q[i].doc = flag => i = 1) /\ q[i].doc # c
  <2>1. PICK k \in 1..Len(q) :
          /\ q[k].doc = flag
          /\ \A i \in 1..Len(q) : (q[i].doc = flag => i = k) /\ (q[i].doc = c => i < k)
    BY <1>5 DEF LastOnce
  <2>2. k = 1
    BY <1>3, <2>1
  <2> HIDE DEF q, c, flag
  <2> QED BY <1>1, <2>1, <2>2
<1>7. \A i \in 2..Len(q) : ~Concerns(q[i].doc, p)
  <2> SUFFICES ASSUME NEW i \in 2..Len(q), Concerns(q[i].doc, p) PROVE FALSE
    OBVIOUS
  <2>1. i \in 1..Len(q) /\ i # 1
    BY <1>1
  <2>2. TapWrite(q[i], p, a, t)
    BY <2>1 DEF Tapped
  <2> QED BY <1>6, <2>1, <2>2 DEF TapWrite
<1>8. CleanQueue(q2, p)
  <2> HIDE DEF q, q2
  <2> QED BY <1>1, <1>7, ShrinkClean
<1>9. ASSUME NEW e \in Devices PROVE CleanQueue(queue[e], p)'
  <2>1. CASE e = d
    BY <1>8, <2>1 DEF CleanQueue, Concerns
  <2>2. CASE e # d
    BY <1>1, <2>2 DEF Tapped, CleanQueue, Concerns
  <2> QED BY <2>1, <2>2
<1>10. ASSUME NEW b \in blocks', About(b, p) PROVE FALSE
  <2>1. b \in blocks
    BY <1>10 DEF SameBlocks
  <2>2. b.dev = d /\ b.tap = t /\ b.kind \in {"count", "flag"}
    BY <1>10, <2>1 DEF Tapped, About
  <2>3. b = [dev |-> b.dev, kind |-> b.kind, tap |-> b.tap]
    BY <2>1 DEF LikesInv, Blocks
  <2>4. b = block \/ b = first
    BY <2>2, <2>3
  <2> QED BY <1>5, <2>1, <2>4
<1>11. db[c] = Outcome(t)
  BY <1>5, <1>6 DEF Due
<1>12. db[flag] = t.like
  <2>1. Arrived(q, n, flag, db[flag], t.like)
    BY DEF Tapped
  <2> QED BY <1>3, <2>1 DEF Arrived
<1>13. Intended(p, a, t.like) = Likers(p)
  <2>1. a \in Likers(p) <=> t.like
    BY <1>2, <1>12, TapsType DEF Likers
  <2>2. t.like \in BOOLEAN
    BY TapsType
  <2> QED BY <2>1, <2>2 DEF Intended
<1>14. db[c] = Cardinality(Likers(p))
  BY <1>11, <1>13 DEF Tapped
<1>15. db'[c] = Cardinality(Likers(p)') /\ Likers(p)' = Likers(p)
  BY <1>1, <1>14 DEF Likers
<1> QED BY <1>9, <1>10, <1>15 DEF Settled, About

LEMMA AnswerFollowed ==
  ASSUME LikesInv, NEW p \in Posts, Followed(p), NEW e \in Devices,
         Answers(e), UNCHANGED failed, SameBlocks(p)
  PROVE  Followed(p)'
<1>1. /\ db' = db
      /\ queue[e] \in Seq(Records) /\ queue'[e] \in Seq(Records)
      /\ Len(queue[e]) \in Nat \ {0} /\ Len(queue[e]) > 0
      /\ Len(queue'[e]) \in {Len(queue[e]) - 1, Len(queue[e])}
      /\ \A i \in 1..Len(queue[e]) - 1 : queue'[e][i] = queue[e][i + 1]
      /\ Len(queue'[e]) = Len(queue[e]) => ~Concerns(queue'[e][Len(queue[e])].doc, p)
      /\ \A d \in Devices \ {e} : queue'[d] = queue[d] /\ applied'[d] = applied[d]
  BY ShrinkFacts
<1>2. ASSUME NEW d \in Devices, CleanQueue(queue[d], p) PROVE CleanQueue(queue'[d], p)
  <2>1. CASE d = e
    <3>1. \A i \in 2..Len(queue[e]) : ~Concerns(queue[e][i].doc, p)
      BY <1>1, <1>2, <2>1 DEF CleanQueue
    <3> QED BY <1>1, <2>1, <3>1, ShrinkClean
  <2>2. CASE d # e
    BY <1>1, <1>2, <2>2
  <2> QED BY <2>1, <2>2
<1>3. SamePost(p)
  BY <1>1 DEF SamePost
<1>4. CASE Settled(p)
  <2>1. \A d \in Devices : CleanQueue(queue'[d], p)
    BY <1>2, <1>4 DEF Settled
  <2> QED BY <1>3, <1>4, <2>1, SettledStays DEF Followed
<1>5. CASE ~Settled(p)
  <2>1. PICK d \in Devices, t \in Taps : Tapped(p, d, t)
    BY <1>5 DEF Followed
  <2>2. CASE e # d
    <3>1. \A b \in Devices \ {d} : CleanQueue(queue'[b], p)
      BY <1>2, <2>1 DEF Tapped
    <3>2. queue'[d] = queue[d] /\ applied'[d] = applied[d] /\ applied[d] \in Nat
      BY <1>1, <2>2 DEF LikesInv, StoreOK
    <3>3. Tapped(p, d, t)'
      BY <1>3, <2>1, <3>1, <3>2, TappedStays
    <3> QED BY <3>3 DEF Followed
  <2>3. CASE e = d
    BY <2>1, <2>3, TapGoesOn, TapArrives DEF Followed
  <2> QED BY <2>2, <2>3
<1> QED BY <1>4, <1>5

(* The next write of phone e is applied. *)
LEMMA CommitFacts ==
  ASSUME LikesInv, NEW e \in Devices, Commit(e)
  PROVE  \E w \in Records :
           /\ applied[e] + 1 \in 1..Len(queue[e]) /\ w = queue[e][applied[e] + 1]
           /\ applied[e] \in Nat /\ applied'[e] = applied[e] + 1
           /\ \A d \in Devices \ {e} : applied'[d] = applied[d]
           /\ queue' = queue
           /\ \A x \in Docs : db'[x] = IF x = w.doc THEN w.val ELSE db[x]
<1> DEFINE w == queue[e][applied[e] + 1]
<1>1. /\ queue[e] \in Seq(Records) /\ applied[e] \in Nat /\ applied[e] < Len(queue[e])
      /\ applied'[e] = applied[e] + 1
      /\ \A d \in Devices \ {e} : applied'[d] = applied[d]
      /\ queue' = queue /\ DOMAIN db = Docs /\ db' = [db EXCEPT ![w.doc] = w.val]
  BY DEF LikesInv, StoreOK, DocumentsOK, Commit
<1>2. applied[e] + 1 \in 1..Len(queue[e]) /\ w \in Records
  BY <1>1
<1> HIDE DEF w
<1>3. \A x \in Docs : db'[x] = IF x = w.doc THEN w.val ELSE db[x]
  BY <1>1
<1> QED BY <1>1, <1>2, <1>3 DEF w

LEMMA CommitOfTap ==
  ASSUME LikesInv, NEW p \in Posts, NEW d \in Devices, NEW t, Tapped(p, d, t),
         Commit(d), SameBlocks(p)
  PROVE  Tapped(p, d, t)'
<1> DEFINE block == [dev |-> d, kind |-> "flag", tap |-> t]
           first == [block EXCEPT !.kind = "count"]
           a     == Account[d]
           c     == LikesDoc(p)
           flag  == PostLikeDoc(p, a)
           q     == queue[d]
           n     == applied[d]
           out   == Outcome(t)
<1>1. PICK w \in Records :
        /\ n + 1 \in 1..Len(q) /\ w = q[n + 1]
        /\ n \in Nat /\ applied'[d] = n + 1
        /\ queue' = queue
        /\ \A x \in Docs : db'[x] = IF x = w.doc THEN w.val ELSE db[x]
  BY CommitFacts
<1>2. a \in Users /\ c # flag /\ c \in Docs /\ flag \in Docs /\ Concerns(c, p) /\ Concerns(flag, p)
  BY AccountType, ConcernsApart, PairDocs, DocsType
<1>3. /\ Arrived(q, n, c, db[c], out) /\ Arrived(q, n, flag, db[flag], t.like)
      /\ Stage(p, d, t) /\ t.post = p
      /\ \A i \in 1..Len(q) : Concerns(q[i].doc, p) => TapWrite(q[i], p, a, t)
      /\ \A e \in Devices \ {d} : CleanQueue(queue[e], p)
      /\ \A b \in blocks : About(b, p) => b.dev = d /\ b.tap = t
      /\ out = Cardinality(Intended(p, a, t.like))
  BY DEF Tapped
<1>4. Concerns(w.doc, p) => TapWrite(w, p, a, t)
  BY <1>1, <1>3
<1>5. /\ db'[c] = out \/ (db'[c] = db[c] /\ w.doc # c)
      /\ db'[flag] = t.like \/ (db'[flag] = db[flag] /\ w.doc # flag)
  BY <1>1, <1>2, <1>4 DEF TapWrite
<1>6. \A u \in Users \ {a} : db'[PostLikeDoc(p, u)] = db[PostLikeDoc(p, u)]
  <2> SUFFICES ASSUME NEW u \in Users \ {a} PROVE db'[PostLikeDoc(p, u)] = db[PostLikeDoc(p, u)]
    OBVIOUS
  <2>1. PostLikeDoc(p, u) \in Docs /\ Concerns(PostLikeDoc(p, u), p)
    BY DocsType, ConcernsApart
  <2>2. PostLikeDoc(p, u) # c /\ PostLikeDoc(p, u) # flag
    BY PairDocs
  <2>3. PostLikeDoc(p, u) # w.doc
    BY <1>4, <2>1, <2>2 DEF TapWrite
  <2> QED BY <1>1, <2>1, <2>3
<1>7. Intended(p, a, t.like)' = Intended(p, a, t.like)
  BY <1>6 DEF Intended, Likers
<1>8. /\ Arrived(q, n + 1, c, db'[c], out) /\ Arrived(q, n + 1, flag, db'[flag], t.like)
  <2>1. \A i \in 1..n + 1 : i \in 1..n \/ i = n + 1
    BY <1>1
  <2>2. q[n + 1] = w
    BY <1>1
  <2>3. \A x, stored, new, v : /\ Arrived(q, n, x, stored, v)
                               /\ new = v \/ (new = stored /\ w.doc # x)
                               => Arrived(q, n + 1, x, new, v)
    <3> HIDE DEF q, n
    <3> QED BY <2>1, <2>2 DEF Arrived
  <2> QED BY <1>3, <1>5, <2>3
<1>9. Due(q, c, db[c], out) => Due(q, c, db'[c], out)
  BY <1>5 DEF Due
<1>10. (block \in blocks' <=> block \in blocks) /\ (first \in blocks' <=> first \in blocks)
  <2>1. About(block, p) /\ About(first, p)
    BY <1>3 DEF About
  <2> QED BY <2>1 DEF SameBlocks
<1>11. Stage(p, d, t)'
  BY <1>1, <1>3, <1>9, <1>10 DEF Stage, Due, Absent, LastOnce, CleanQueue, Concerns
<1>12. \A b \in blocks' : About(b, p) => b.dev = d /\ b.tap = t
  BY <1>3 DEF SameBlocks
<1>13. \A e \in Devices \ {d} : CleanQueue(queue[e], p)'
  BY <1>1, <1>3 DEF CleanQueue, Concerns
<1>14. /\ Arrived(queue[d], applied[d], c, db[c], out)'
       /\ Arrived(queue[d], applied[d], flag, db[flag], t.like)'
  BY <1>1, <1>8 DEF Arrived
<1> QED BY <1>1, <1>3, <1>7, <1>11, <1>12, <1>13, <1>14
        DEF Tapped, About, TapWrite, Concerns, Outcome

LEMMA CommitFollowed ==
  ASSUME LikesInv, NEW p \in Posts, Followed(p), NEW e \in Devices, Commit(e), SameBlocks(p)
  PROVE  Followed(p)'
<1>1. PICK w \in Records :
        /\ applied[e] + 1 \in 1..Len(queue[e]) /\ w = queue[e][applied[e] + 1]
        /\ \A d \in Devices \ {e} : applied'[d] = applied[d]
        /\ queue' = queue
        /\ \A x \in Docs : db'[x] = IF x = w.doc THEN w.val ELSE db[x]
  BY CommitFacts
<1>2. ASSUME CleanQueue(queue[e], p) PROVE SamePost(p)
  <2>1. ~Concerns(w.doc, p)
    BY <1>1, <1>2 DEF CleanQueue
  <2>2. LikesDoc(p) \in Docs /\ LikesDoc(p) # w.doc
    BY <2>1, ConcernsApart DEF Docs, Counters
  <2>3. ASSUME NEW u \in Users PROVE PostLikeDoc(p, u) \in Docs /\ PostLikeDoc(p, u) # w.doc
    BY <2>1, ConcernsApart, DocsType
  <2> QED BY <1>1, <2>2, <2>3 DEF SamePost
<1>3. CASE Settled(p)
  <2>1. SamePost(p)
    BY <1>2, <1>3 DEF Settled
  <2>2. \A d \in Devices : CleanQueue(queue'[d], p)
    BY <1>1, <1>3 DEF Settled
  <2> QED BY <1>3, <2>1, <2>2, SettledStays DEF Followed
<1>4. CASE ~Settled(p)
  <2>1. PICK d \in Devices, t \in Taps : Tapped(p, d, t)
    BY <1>4 DEF Followed
  <2>2. CASE e # d
    <3>1. \A b \in Devices \ {d} : CleanQueue(queue'[b], p)
      BY <1>1, <2>1 DEF Tapped
    <3>2. queue'[d] = queue[d] /\ applied'[d] = applied[d] /\ applied[d] \in Nat
      BY <1>1, <2>2 DEF LikesInv, StoreOK
    <3>3. SamePost(p)
      BY <1>2, <2>1, <2>2 DEF Tapped
    <3>4. Tapped(p, d, t)'
      BY <2>1, <3>1, <3>2, <3>3, TappedStays
    <3> QED BY <3>4 DEF Followed
  <2>3. CASE e = d
    <3>1. Tapped(p, d, t)'
      BY <2>1, <2>3, CommitOfTap
    <3> QED BY <3>1 DEF Followed
  <2> QED BY <2>2, <2>3
<1> QED BY <1>3, <1>4

-----------------------------------------------------------------------------
(* ExactInv is inductive. *)

LEMMA InitExact == Init => ExactInv
<1> SUFFICES ASSUME Init PROVE ExactInv
  OBVIOUS
<1>1. LikesInv
  BY InitLikesInv
<1>2. ASSUME NEW p \in Posts PROVE Settled(p)
  <2> DEFINE S == {y \in InitLikes : y[2] = p}
             T == {u \in Users : <<u, p>> \in InitLikes}
             f == [u \in T |-> <<u, p>>]
  <2>1. db[LikesDoc(p)] = Cardinality(S)
    <3>1. LikesDoc(p) \in Counters /\ LikesDoc(p) \in Docs /\ LikesDoc(p)[2] = p
      BY DEF Counters, LikesDoc, Docs
    <3> QED BY <3>1 DEF Init
  <2>2. Likers(p) = T
    BY InitAgrees DEF Likers, Init, PostLikeDoc, Docs, Flags, Counters, LikesDoc
  <2>3. f \in Bijection(T, S)
    <3>1. f \in [T -> S]
      OBVIOUS
    <3>2. \A x, y \in T : f[x] = f[y] => x = y
      OBVIOUS
    <3>3. \A z \in S : \E u \in T : f[u] = z
      <4> SUFFICES ASSUME NEW z \in S PROVE \E u \in T : f[u] = z
        OBVIOUS
      <4>1. z \in Users \X Posts /\ z[2] = p /\ z \in InitLikes
        BY LikesAssumption DEF LikesAssumption
      <4>2. z = <<z[1], p>> /\ z[1] \in T
        BY <4>1
      <4> QED BY <4>2
    <3> HIDE DEF S, T, f
    <3> QED BY <3>1, <3>2, <3>3 DEF Bijection, Injection, Surjection, IsInjective
  <2>4. Cardinality(S) = Cardinality(T)
    <3>1. ExistsBijection(T, S)
      BY <2>3 DEF ExistsBijection
    <3>2. IsFiniteSet(T)
      BY <2>2, LikersFinite
    <3> HIDE DEF S, T
    <3> QED BY <3>1, <3>2, FS_Bijection
  <2>5. \A e \in Devices : CleanQueue(queue[e], p)
    BY DEF Init, CleanQueue
  <2>6. blocks = {}
    BY DEF Init
  <2> QED BY <2>1, <2>2, <2>4, <2>5, <2>6 DEF Settled
<1> QED BY <1>1, <1>2 DEF ExactInv, Followed

LEMMA SoundBefore ==
  ASSUME LikesInv, NEW d \in Devices, Sound(d)',
         UNCHANGED failed \/ \E e \in Devices : \E fault : Fails(e, fault)
  PROVE  Sound(d)
<1>1. failed[d] = failed'[d] \/ failed[d] = "none"
  BY DEF LikesInv, OthersOK, Fails
<1> QED BY <1>1 DEF Sound

LEMMA StepExact == ExactInv /\ [Next]_vars => ExactInv'
<1> SUFFICES ASSUME ExactInv, [Next]_vars PROVE ExactInv'
  OBVIOUS
<1>1. LikesInv /\ LikesInv'
  BY StepLikes DEF ExactInv
<1> SUFFICES ASSUME NEW p \in Posts, p \notin stale', \A d \in Devices : Sound(d)'
    PROVE  Followed(p)'
  BY <1>1 DEF ExactInv
<1>2. UNCHANGED failed \/ \E e \in Devices : \E fault : Fails(e, fault)
  <2>1. StoreStep
    BY <1>1, StepKind
  <2> QED BY <2>1 DEF StoreStep, Extends, Answers
<1>3. \A d \in Devices : Sound(d)
  BY <1>1, <1>2, SoundBefore
<1>4. \A d \in Devices : applied[d] \in Nat /\ applied[d] <= applied[d]
  BY <1>1 DEF LikesInv, StoreOK
<1>5. p \notin stale
  <2>1. ASSUME NEW d \in Devices, UserStep(d) \/ ReadStep(d) PROVE stale \subseteq stale'
    BY <2>1 DEF UserStep, Appear, Refresh, TapLike, ReadStep, PostsArrive, LikedArrives,
                ReadFails, history
  <2>2. ASSUME NEW d \in Devices, BlockStep(d) \/ AnswerAny(d) PROVE stale \subseteq stale'
    BY <2>2 DEF BlockStep, RunCountBlock, RunFlagBlock, RunNotifyBlock, AnswerAny, AnswerUser,
                AnswerDone, AnswerSilent, history
  <2>3. ASSUME NEW d \in Devices, Apply(d) \/ Resend(d) \/ Crash(d) PROVE stale \subseteq stale'
    BY <2>3 DEF Apply, Resend, Crash, history, likesVars
  <2>4. CASE UNCHANGED vars
    BY <2>4 DEF vars, likesVars, history
  <2> QED BY <2>1, <2>2, <2>3, <2>4 DEF Next
<1>6. Followed(p)
  BY <1>3, <1>5 DEF ExactInv
<1>7. CASE UNCHANGED storeVars /\ SameBlocks(p)
  <2>1. db' = db /\ queue' = queue /\ applied' = applied
    BY <1>7 DEF storeVars
  <2> QED BY <1>1, <1>4, <1>6, <1>7, <2>1, FollowedStays DEF SamePost
<1>8. ASSUME NEW d \in Devices, UserStep(d) PROVE Followed(p)'
  <2>1. CASE Appear(d) \/ Refresh(d)
    BY <1>7, <2>1 DEF Appear, Refresh, SameBlocks
  <2>2. CASE TapLike(d, p)
    BY <1>1, <1>6, <2>2, TapSetsOut
  <2>3. ASSUME NEW s \in Posts, s # p, TapLike(d, s) PROVE Followed(p)'
    <3>1. SameBlocks(p)
      BY <2>3 DEF TapLike, SameBlocks, About
    <3> QED BY <1>7, <2>3, <3>1 DEF TapLike
  <2> QED BY <1>8, <2>1, <2>2, <2>3 DEF UserStep
<1>9. ASSUME NEW d \in Devices, ReadStep(d) PROVE Followed(p)'
  BY <1>7, <1>9 DEF ReadStep, PostsArrive, LikedArrives, ReadFails, SameBlocks
<1>10. ASSUME NEW d \in Devices, BlockStep(d) PROVE Followed(p)'
  BY <1>1, <1>6, <1>10, BlockFollowed
<1>11. ASSUME NEW d \in Devices, AnswerAny(d) PROVE Followed(p)'
  <2>1. Answers(d)
    BY <1>11, AnswerKind
  <2>2. UNCHANGED failed
    <3>1. ~Fails(d, "reject")
      <4>1. Sound(d)'
        OBVIOUS
      <4> QED BY <1>1, <4>1 DEF Fails, Sound, LikesInv, OthersOK
    <3> QED BY <2>1, <3>1 DEF Answers
  <2>3. SameBlocks(p)
    BY <1>11 DEF AnswerAny, AnswerUser, AnswerDone, AnswerSilent, Notification, SameBlocks, About
  <2> QED BY <1>1, <1>6, <2>1, <2>2, <2>3, AnswerFollowed
<1>12. ASSUME NEW d \in Devices, Apply(d) PROVE Followed(p)'
  BY <1>1, <1>6, <1>12, CommitFollowed DEF Apply, SameBlocks
<1>13. ASSUME NEW d \in Devices, Resend(d) PROVE Followed(p)'
  <2>1. SamePost(p) /\ SameBlocks(p) /\ queue' = queue
    BY <1>13 DEF Resend, Reopen, likesVars, SamePost, SameBlocks
  <2>2. ASSUME NEW e \in Devices PROVE applied'[e] \in Nat /\ applied'[e] <= applied[e]
    <3>1. applied \in [Devices -> Nat] /\ applied' = [applied EXCEPT ![d] = 0]
      BY <1>1, <1>13 DEF Resend, Reopen, LikesInv, StoreOK
    <3> QED BY <3>1
  <2> QED BY <1>1, <1>6, <2>1, <2>2, FollowedStays
<1>14. ASSUME NEW d \in Devices, Crash(d) PROVE FALSE
  BY <1>1, <1>14 DEF Crash, Fails, Sound, LikesInv, OthersOK
<1>15. CASE UNCHANGED vars
  BY <1>7, <1>15 DEF vars, likesVars, SameBlocks
<1> QED BY <1>8, <1>9, <1>10, <1>11, <1>12, <1>13, <1>14, <1>15 DEF Next

LEMMA InvExact == ExactInv => LikesExact
<1> SUFFICES ASSUME ExactInv, NEW p \in Posts, p \notin stale, ~InFlight(p),
                    \A d \in Devices : Sound(d)
    PROVE  db[LikesDoc(p)] = Cardinality(Likers(p))
  BY DEF LikesExact
<1>1. Followed(p)
  BY DEF ExactInv
<1> QED BY <1>1, TappedInFlight DEF Followed, Settled

(* Whatever the phones, users and posts, and however often the streams are
   reopened: after taps that each acted on what was stored, the counter of a
   post at rest is the number of its likers. *)
THEOREM LikesExactCorrect == Spec => []LikesExact
<1> QED BY InitExact, StepExact, InvExact, PTL DEF Spec
=============================================================================
