---------------------------- MODULE CommentsProof ----------------------------
(***************************************************************************)
(* Proofs about Comments.tla, for any number of phones, accounts, comments *)
(* and faults.                                                             *)
(*                                                                         *)
(* The listener drops from its snapshot what is removed while the screen   *)
(* keeps it.  That a comment is shown once therefore rests on the writes:  *)
(* a comment is queued on one phone and once, so that one which is refused *)
(* is gone for good and cannot be added to a snapshot a second time.       *)
(***************************************************************************)
EXTENDS Comments, QueueFacts, FiniteSetTheorems, TLAPS

CommentWrites == [doc : Docs, val : Users, then : {"comment", "none"}]

TypeOK ==
  /\ db \in [Docs -> Users \cup {NoOne}]
  /\ queue \in [Devices -> Seq(CommentWrites)]
  /\ applied \in [Devices -> Nat]
  /\ \A d \in Devices : applied[d] <= Len(queue[d])
  /\ blocks \subseteq Devices \X {"comment", "notify"} \X Numbers
  /\ open \in [Devices -> BOOLEAN] /\ hud \in [Devices -> BOOLEAN]
  /\ seen \in [Devices -> SUBSET Numbers]
  /\ comments \in [Devices -> Seq(Numbers)]
  /\ failed \in [Devices -> {"none"} \cup Faults]
  /\ commented \subseteq Users

(* Every comment has a tap of its own. *)
CommentBlocks == {b \in blocks : b[2] = "comment"}

CountOK ==
  /\ written \in Nat /\ taps \in 0..MaxTaps
  /\ IsFiniteSet(CommentBlocks)
  /\ written + Cardinality(CommentBlocks) <= InitComments + taps

(* The phone had a comment stored, or one of its writes was refused. *)
MayNotify(d) == Account[d] \in commented \/ failed[d] = "reject"

WriteOK(d, w) ==
  /\ w.val = Account[d]
  /\ w.then = "comment" => \E n \in Numbers : w.doc = CommentDoc(n)
  /\ \A n \in Numbers : w.doc = CommentDoc(n) => n <= written
  /\ \A u \in Users : w.doc = NotificationDoc(u) => u = Account[d] /\ MayNotify(d)

(* What is applied is stored, perhaps written over since; nothing is deleted. *)
StoredOK(d, w) ==
  /\ db[w.doc] # NoOne
  /\ \A n \in Numbers : w.doc = CommentDoc(n) => Account[d] \in commented

QueuesOK ==
  \A d \in Devices : /\ \A i \in 1..Len(queue[d]) : WriteOK(d, queue[d][i])
                     /\ \A i \in 1..applied[d] : StoredOK(d, queue[d][i])

(* A comment is queued on one phone only, and once. *)
QueuedOnce ==
  \A d, e \in Devices : \A i \in 1..Len(queue[d]), k \in 1..Len(queue[e]) :
    queue[d][i].doc = queue[e][k].doc /\ queue[d][i].doc[1] = "comments" => d = e /\ i = k

DbOK ==
  /\ \A n \in Numbers : db[CommentDoc(n)] # NoOne => n <= written
  /\ \A u \in Users : db[NotificationDoc(u)] # NoOne =>
       u \in commented \/ \E d \in Devices : Account[d] = u /\ failed[d] = "reject"

BlocksOK == \A b \in blocks : b[2] = "notify" => MayNotify(b[1])

(* A comment of the phone that was refused: no phone will ever have it again. *)
Queued(d, n) == \E i \in 1..Len(queue[d]) : queue[d][i].doc = CommentDoc(n)
Gone(n)      == db[CommentDoc(n)] = NoOne /\ \A d \in Devices : ~Queued(d, n)
Lost(d, n)   == n <= written /\ failed[d] = "reject" /\ Gone(n)

ScreensOK ==
  \A d \in Devices :
    /\ \A n \in seen[d] : db[CommentDoc(n)] # NoOne \/ Queued(d, n) \/ Lost(d, n)
    /\ \A n \in ToSet(comments[d]) : n \in seen[d] \/ Lost(d, n)
    /\ seen[d] \subseteq ToSet(comments[d])
    /\ IsInjective(comments[d])

CommentsInv ==
  /\ TypeOK /\ CountOK
  /\ QueuesOK /\ QueuedOnce /\ DbOK /\ BlocksOK /\ ScreensOK

-----------------------------------------------------------------------------
LEMMA DocFacts ==
  /\ \A n \in Numbers : CommentDoc(n) \in Docs
  /\ \A u \in Users : NotificationDoc(u) \in Docs
  /\ \A n, m : CommentDoc(n) = CommentDoc(m) => n = m
  /\ \A u, v : NotificationDoc(u) = NotificationDoc(v) => u = v
  /\ \A n, u : CommentDoc(n) # NotificationDoc(u)
  /\ \A n : CommentDoc(n)[1] = "comments"
  /\ \A u : NotificationDoc(u)[1] # "comments"
  /\ \A x \in Docs : x[1] = "comments" => \E n \in Numbers : x = CommentDoc(n)
BY DEF CommentDoc, NotificationDoc, Docs

LEMMA AccountFacts == /\ Account \in [Devices -> Users] /\ NoOne \notin Users
                      /\ InitComments \in Nat /\ MaxTaps \in Nat /\ PostOwner \in Users
                      /\ Faults \subseteq {"crash", "reject", "readfail"}
BY PhoneAssumption, CommentsAssumption DEF PhoneAssumption, CommentsAssumption

LEMMA NumberFacts == \A n : n \in Numbers <=> n \in Nat /\ 1 <= n /\ n <= InitComments + MaxTaps
BY AccountFacts DEF Numbers

LEMMA TypeFacts ==
  ASSUME TypeOK, NEW d \in Devices
  PROVE  /\ queue[d] \in Seq(CommentWrites) /\ Len(queue[d]) \in Nat
         /\ applied[d] \in Nat /\ applied[d] <= Len(queue[d])
         /\ \A i \in 1..Len(queue[d]) : queue[d][i] \in CommentWrites
<1>1. queue[d] \in Seq(CommentWrites) /\ applied[d] \in Nat /\ applied[d] <= Len(queue[d])
  BY DEF TypeOK
<1> QED BY <1>1

(* What the operations of the store do to a queue. *)
LEMMA EnqueueFacts ==
  ASSUME TypeOK, NEW d \in Devices, NEW w \in CommentWrites, Enqueue(d, w)
  PROVE  /\ UNCHANGED <<db, applied>>
         /\ queue' \in [Devices -> Seq(CommentWrites)]
         /\ \A e \in Devices \ {d} : queue'[e] = queue[e]
         /\ Len(queue'[d]) = Len(queue[d]) + 1
         /\ \A i \in 1..Len(queue[d]) : queue'[d][i] = queue[d][i]
         /\ queue'[d][Len(queue[d]) + 1] = w
<1>1. /\ queue[d] \in Seq(CommentWrites) /\ queue' = [queue EXCEPT ![d] = Append(queue[d], w)]
      /\ UNCHANGED <<db, applied>> /\ queue \in [Devices -> Seq(CommentWrites)]
  BY DEF TypeOK, Enqueue
<1>2. /\ Len(Append(queue[d], w)) = Len(queue[d]) + 1
      /\ \A i \in 1..Len(queue[d]) : Append(queue[d], w)[i] = queue[d][i]
      /\ Append(queue[d], w)[Len(queue[d]) + 1] = w
      /\ Append(queue[d], w) \in Seq(CommentWrites)
  BY <1>1
<1> QED BY <1>1, <1>2

LEMMA AnswerFacts ==
  ASSUME TypeOK, NEW d \in Devices, NEW then, Answer(d, then), Dequeue(d), UNCHANGED db
  PROVE  /\ Len(queue[d]) \in Nat \ {0} /\ Oldest(d) = queue[d][1] /\ Oldest(d).then = then
         /\ queue' \in [Devices -> Seq(CommentWrites)] /\ applied' \in [Devices -> Nat]
         /\ \A e \in Devices \ {d} : /\ queue'[e] = queue[e] /\ applied'[e] = applied[e]
         /\ Len(queue'[d]) = Len(queue[d]) - 1
         /\ \A i \in 1..Len(queue'[d]) : /\ i + 1 \in 1..Len(queue[d])
                                         /\ queue'[d][i] = queue[d][i + 1]
         /\ \/ applied[d] > 0 /\ applied'[d] = applied[d] - 1 /\ UNCHANGED failed
            \/ applied[d] = 0 /\ applied'[d] = 0 /\ failed' = [failed EXCEPT ![d] = "reject"]
<1>1. /\ queue[d] \in Seq(CommentWrites) /\ queue[d] # <<>>
      /\ queue \in [Devices -> Seq(CommentWrites)] /\ applied \in [Devices -> Nat]
      /\ Oldest(d).then = then
  BY DEF TypeOK, Answer, Answered, Refused
<1>2. queue' = [queue EXCEPT ![d] = Tail(queue[d])]
  BY DEF Dequeue
<1>3. /\ Tail(queue[d]) \in Seq(CommentWrites) /\ Len(Tail(queue[d])) = Len(queue[d]) - 1
      /\ Len(queue[d]) \in Nat \ {0}
      /\ \A i \in 1..Len(Tail(queue[d])) : Tail(queue[d])[i] = queue[d][i + 1]
  BY <1>1, TailFacts
<1>4. /\ queue'[d] = Tail(queue[d]) /\ \A e \in Devices \ {d} : queue'[e] = queue[e]
      /\ queue' \in [Devices -> Seq(CommentWrites)]
  BY <1>1, <1>2, <1>3
<1>5. /\ \A e \in Devices \ {d} : applied'[e] = applied[e]
      /\ applied' \in [Devices -> Nat]
      /\ \/ applied[d] > 0 /\ applied'[d] = applied[d] - 1 /\ UNCHANGED failed
         \/ applied[d] = 0 /\ applied'[d] = 0 /\ failed' = [failed EXCEPT ![d] = "reject"]
  <2>1. CASE Answered(d) /\ UNCHANGED failed
    BY <1>1, <2>1 DEF Answered
  <2>2. CASE Refused(d) /\ Fails(d, "reject")
    BY <1>1, <2>2 DEF Refused, Fails
  <2> QED BY <2>1, <2>2 DEF Answer
<1>6. Oldest(d) = queue[d][1]
  BY <1>1 DEF Oldest
<1>7. \A i \in 1..Len(queue'[d]) : i + 1 \in 1..Len(queue[d]) /\ queue'[d][i] = queue[d][i + 1]
  BY <1>3, <1>4
<1> QED BY <1>1, <1>3, <1>4, <1>5, <1>6, <1>7

LEMMA CrashFacts ==
  ASSUME TypeOK, NEW d \in Devices, Crash(d)
  PROVE  /\ queue' \in [Devices -> Seq(CommentWrites)] /\ applied' \in [Devices -> Nat]
         /\ \A e \in Devices \ {d} : /\ queue'[e] = queue[e] /\ applied'[e] = applied[e]
         /\ applied'[d] = 0 /\ Len(queue'[d]) = Len(queue[d])
         /\ \A i \in 1..Len(queue[d]) : /\ queue'[d][i].doc = queue[d][i].doc
                                        /\ queue'[d][i].val = queue[d][i].val
                                        /\ queue'[d][i].then = "none"
<1> DEFINE q == [i \in DOMAIN queue[d] |-> Forgotten(queue[d][i])]
<1>1. /\ queue[d] \in Seq(CommentWrites) /\ queue \in [Devices -> Seq(CommentWrites)]
      /\ applied \in [Devices -> Nat]
  BY DEF TypeOK
<1>2. \A w \in CommentWrites : /\ Forgotten(w) \in CommentWrites
                               /\ Forgotten(w).doc = w.doc /\ Forgotten(w).val = w.val
                               /\ Forgotten(w).then = "none"
  BY DEF Forgotten, CommentWrites
<1>3. /\ q \in Seq(CommentWrites) /\ Len(q) = Len(queue[d])
      /\ \A i \in 1..Len(queue[d]) : q[i] = Forgotten(queue[d][i]) /\ queue[d][i] \in CommentWrites
  <2>1. \A i \in 1..Len(queue[d]) : queue[d][i] \in CommentWrites
    BY <1>1
  <2>2. q \in Seq(CommentWrites) /\ Len(q) = Len(queue[d])
    BY <1>1, <1>2
  <2>3. \A i \in 1..Len(queue[d]) : q[i] = Forgotten(queue[d][i])
    BY <1>1
  <2> QED BY <2>1, <2>2, <2>3
<1>4. queue' = [queue EXCEPT ![d] = q] /\ applied' = [applied EXCEPT ![d] = 0]
  BY DEF Crash, LoseProcess
<1> HIDE DEF q
<1>5. /\ queue'[d] = q /\ \A e \in Devices \ {d} : queue'[e] = queue[e]
      /\ queue' \in [Devices -> Seq(CommentWrites)]
      /\ applied'[d] = 0 /\ \A e \in Devices \ {d} : applied'[e] = applied[e]
      /\ applied' \in [Devices -> Nat]
  BY <1>1, <1>3, <1>4
<1> QED BY <1>2, <1>3, <1>5

(* A comment block that waits leaves room for its number. *)
LEMMA NextNumber ==
  ASSUME CommentsInv, NEW d, NEW k, <<d, "comment", k>> \in blocks
  PROVE  /\ written + 1 \in Numbers
         /\ Cardinality(CommentBlocks \ {<<d, "comment", k>>}) = Cardinality(CommentBlocks) - 1
         /\ IsFiniteSet(CommentBlocks \ {<<d, "comment", k>>})
         /\ Cardinality(CommentBlocks) \in Nat
<1> DEFINE b == <<d, "comment", k>>
<1>1. b \in CommentBlocks
  <2>1. b[2] = "comment"
    OBVIOUS
  <2> QED BY <2>1 DEF CommentBlocks
<1>2. /\ IsFiniteSet(CommentBlocks) /\ written \in Nat /\ taps \in 0..MaxTaps
      /\ written + Cardinality(CommentBlocks) <= InitComments + taps
  BY DEF CommentsInv, CountOK
<1> HIDE DEF b
<1>3. /\ IsFiniteSet(CommentBlocks \ {b})
      /\ Cardinality(CommentBlocks \ {b}) = Cardinality(CommentBlocks) - 1
  BY <1>1, <1>2, FS_RemoveElement
<1>4. Cardinality(CommentBlocks) \in Nat /\ Cardinality(CommentBlocks \ {b}) \in Nat
  BY <1>2, <1>3, FS_CardinalityType
<1>5. written + 1 \in Nat /\ 1 <= written + 1 /\ written + 1 <= InitComments + MaxTaps
  BY <1>2, <1>3, <1>4, AccountFacts
<1> QED BY <1>3, <1>4, <1>5, NumberFacts DEF b

(* The writes the blocks make. *)
NewWrite(d, w) ==
  \/ /\ \E k : RunCommentBlock(d, k)
     /\ w = [doc |-> CommentDoc(written + 1), val |-> Account[d], then |-> "comment"]
  \/ /\ \E k : RunNotifyBlock(d, k)
     /\ w = [doc |-> NotificationDoc(Account[d]), val |-> Account[d], then |-> "none"]

LEMMA NewWriteFacts ==
  ASSUME CommentsInv, NEW d \in Devices, NEW w, NewWrite(d, w)
  PROVE  /\ w \in CommentWrites /\ w.val = Account[d] /\ Enqueue(d, w)
         /\ \/ /\ w.doc = CommentDoc(written + 1) /\ written + 1 \in Numbers
               /\ written' = written + 1
            \/ w.doc = NotificationDoc(Account[d]) /\ w.then = "none" /\ MayNotify(d)
               /\ UNCHANGED written
         /\ UNCHANGED <<taps, screenVars, hud, failed, commented>>
<1>1. Account[d] \in Users
  BY AccountFacts
<1>2. CASE /\ \E k : RunCommentBlock(d, k)
           /\ w = [doc |-> CommentDoc(written + 1), val |-> Account[d], then |-> "comment"]
  <2>1. PICK k : RunCommentBlock(d, k)
    BY <1>2
  <2>2. written + 1 \in Numbers /\ written' = written + 1
    BY <2>1, NextNumber DEF RunCommentBlock
  <2>3. CommentDoc(written + 1) \in Docs
    BY <2>2, DocFacts
  <2>4. w \in CommentWrites
    BY <1>1, <1>2, <2>3 DEF CommentWrites
  <2>5. /\ Enqueue(d, [doc |-> CommentDoc(written'), val |-> Account[d], then |-> "comment"])
        /\ UNCHANGED <<taps, screenVars, hud, failed, commented>>
    BY <2>1 DEF RunCommentBlock
  <2>6. Enqueue(d, w)
    BY <1>2, <2>2, <2>5
  <2> QED BY <1>2, <2>2, <2>4, <2>5, <2>6
<1>3. CASE /\ \E k : RunNotifyBlock(d, k)
           /\ w = [doc |-> NotificationDoc(Account[d]), val |-> Account[d], then |-> "none"]
  <2>1. PICK k : RunNotifyBlock(d, k)
    BY <1>3
  <2>2. NotificationDoc(Account[d]) \in Docs
    BY <1>1, DocFacts
  <2>3. w \in CommentWrites
    BY <1>1, <1>3, <2>2 DEF CommentWrites
  <2>4. MayNotify(d)
    <3>1. /\ <<d, "notify", k>> \in blocks
          /\ <<d, "notify", k>>[1] = d /\ <<d, "notify", k>>[2] = "notify"
      BY <2>1 DEF RunNotifyBlock
    <3> QED BY <3>1 DEF CommentsInv, BlocksOK
  <2>5. Enqueue(d, w) /\ UNCHANGED <<taps, written, screenVars, hud, failed, commented>>
    BY <1>3, <2>1 DEF RunNotifyBlock
  <2> QED BY <1>3, <2>3, <2>4, <2>5
<1> QED BY <1>2, <1>3 DEF NewWrite

LEMMA BlockIsWrite ==
  ASSUME NEW d, BlockStep(d)
  PROVE  \E w : NewWrite(d, w)
BY DEF BlockStep, NewWrite

LEMMA CommitFacts ==
  ASSUME TypeOK, NEW d \in Devices, Apply(d)
  PROVE  \E w \in CommentWrites :
           /\ applied[d] + 1 \in 1..Len(queue[d]) /\ w = queue[d][applied[d] + 1]
           /\ db' = [db EXCEPT ![w.doc] = w.val] /\ db' \in [Docs -> Users \cup {NoOne}]
           /\ db'[w.doc] = w.val /\ w.doc \in Docs /\ w.val \in Users
           /\ applied' = [applied EXCEPT ![d] = applied[d] + 1]
           /\ UNCHANGED queue
<1> DEFINE w == queue[d][applied[d] + 1]
<1>1. /\ queue[d] \in Seq(CommentWrites) /\ applied[d] \in Nat /\ applied[d] < Len(queue[d])
      /\ db \in [Docs -> Users \cup {NoOne}]
      /\ db' = [db EXCEPT ![w.doc] = w.val]
      /\ applied' = [applied EXCEPT ![d] = applied[d] + 1]
      /\ UNCHANGED queue
  BY DEF TypeOK, Apply, Commit
<1>2. applied[d] + 1 \in 1..Len(queue[d]) /\ w \in CommentWrites
  BY <1>1
<1>3. w.doc \in Docs /\ w.val \in Users
  BY <1>2 DEF CommentWrites
<1> HIDE DEF w
<1>4. db' \in [Docs -> Users \cup {NoOne}] /\ db'[w.doc] = w.val
  BY <1>1, <1>3
<1> QED BY <1>1, <1>2, <1>3, <1>4 DEF w

-----------------------------------------------------------------------------
(* Types and numbers. *)

LEMMA InitInv == CommentsInit => CommentsInv
<1> SUFFICES ASSUME CommentsInit PROVE CommentsInv
  OBVIOUS
<1> USE DEF CommentsInit, NoFailures
<1>1. TypeOK
  <2>1. db \in [Docs -> Users \cup {NoOne}]
    BY AccountFacts
  <2>2. commented \subseteq Users
    BY AccountFacts
  <2>3. comments \in [Devices -> Seq(Numbers)] /\ queue \in [Devices -> Seq(CommentWrites)]
        /\ applied \in [Devices -> Nat] /\ \A d \in Devices : applied[d] <= Len(queue[d])
    OBVIOUS
  <2> QED BY <2>1, <2>2, <2>3 DEF TypeOK
<1>2. CountOK
  <2>1. CommentBlocks = {}
    BY DEF CommentBlocks
  <2>2. IsFiniteSet(CommentBlocks) /\ Cardinality(CommentBlocks) = 0
    BY <2>1, FS_EmptySet
  <2> QED BY <2>2, AccountFacts DEF CountOK
<1>3. QueuesOK /\ QueuedOnce /\ BlocksOK
  BY DEF QueuesOK, QueuedOnce, BlocksOK
<1>4. DbOK
  <2>1. ASSUME NEW n \in Numbers, db[CommentDoc(n)] # NoOne PROVE n <= written
    <3>1. CommentDoc(n) \in Docs /\ CommentDoc(n)[2] = n
      BY DocFacts DEF CommentDoc
    <3>2. n \in 1..InitComments
      BY <2>1, <3>1
    <3> QED BY <3>2, AccountFacts
  <2>2. ASSUME NEW u \in Users PROVE db[NotificationDoc(u)] = NoOne
    <3>1. NotificationDoc(u) \in Docs /\ NotificationDoc(u)[1] # "comments"
      BY DocFacts
    <3> QED BY <3>1
  <2> QED BY <2>1, <2>2 DEF DbOK
<1>5. ScreensOK
  <2>1. \A d \in Devices : seen[d] = {} /\ comments[d] = <<>>
    OBVIOUS
  <2>2. \A d \in Devices : ToSet(comments[d]) = {} /\ IsInjective(comments[d])
    <3>1. DOMAIN (<<>>) = {}
      OBVIOUS
    <3>2. ToSet(<<>>) = {} /\ IsInjective(<<>>)
      BY <3>1 DEF ToSet, IsInjective
    <3> QED BY <2>1, <3>2
  <2> QED BY <2>1, <2>2 DEF ScreensOK
<1> QED BY <1>1, <1>2, <1>3, <1>4, <1>5 DEF CommentsInv

(* The lists of a set hold each of its elements once. *)
LEMMA NewestFirstFacts ==
  ASSUME NEW S \in SUBSET Numbers, NEW list \in NewestFirst(S)
  PROVE  list \in Seq(Numbers) /\ ToSet(list) = S /\ IsInjective(list)
<1>1. /\ list \in [1..Cardinality(S) -> S] /\ ToSet(list) = S
      /\ \A i, k \in DOMAIN list : i < k => list[i] > list[k]
  BY DEF NewestFirst
<1>2. IsFiniteSet(Numbers)
  <2>1. InitComments + MaxTaps \in Nat
    BY AccountFacts
  <2>2. 1 \in Int /\ InitComments + MaxTaps \in Int
    BY <2>1
  <2> QED BY <2>2, FS_Interval DEF Numbers
<1>3. Cardinality(S) \in Nat
  BY <1>2, FS_Subset, FS_CardinalityType
<1>4. list \in Seq(Numbers)
  BY <1>1, <1>3
<1>5. ASSUME NEW i \in DOMAIN list, NEW k \in DOMAIN list, list[i] = list[k] PROVE i = k
  <2>1. i \in Int /\ k \in Int
    BY <1>1, <1>3
  <2>2. list[i] \in Int /\ list[k] \in Int
    BY <1>1, <1>5, NumberFacts
  <2> QED BY <1>1, <1>5, <2>1, <2>2
<1>6. IsInjective(list)
  BY <1>5 DEF IsInjective
<1> QED BY <1>1, <1>4, <1>6

LEMMA TypeKept ==
  ASSUME CommentsInv, [CommentsNext]_allVars
  PROVE  TypeOK'
<1>0. TypeOK
  BY DEF CommentsInv
<1>1. ASSUME NEW d \in Devices, OpenComments(d) PROVE TypeOK'
  BY <1>0, <1>1 DEF OpenComments, TypeOK, storeVars
<1>2. ASSUME NEW d \in Devices, Snapshot(d) PROVE TypeOK'
  <2>1. PICK found \in SUBSET Visible(d) :
          /\ seen' = [seen EXCEPT ![d] = found]
          /\ \E added \in NewestFirst(Reported(d, found)) :
               comments' = [comments EXCEPT ![d] = comments[d] \o added]
    BY <1>2 DEF Snapshot
  <2>2. found \in SUBSET Numbers /\ Reported(d, found) \in SUBSET Numbers
    BY DEF Visible, Reported
  <2>3. PICK added \in Seq(Numbers) : comments' = [comments EXCEPT ![d] = comments[d] \o added]
    BY <2>1, <2>2, NewestFirstFacts
  <2>4. comments[d] \o added \in Seq(Numbers)
    BY <1>0 DEF TypeOK
  <2>5. /\ seen' \in [Devices -> SUBSET Numbers]
        /\ comments' \in [Devices -> Seq(Numbers)]
    BY <1>0, <2>1, <2>2, <2>3, <2>4 DEF TypeOK
  <2> QED BY <1>0, <1>2, <2>5 DEF Snapshot, TypeOK, storeVars
<1>3. ASSUME NEW d \in Devices, TapPost(d) PROVE TypeOK'
  <2>1. taps + 1 \in Numbers
    BY <1>3, NumberFacts, AccountFacts DEF TapPost, CommentsInv, CountOK
  <2> QED BY <1>0, <1>3, <2>1 DEF TapPost, TypeOK, storeVars, screenVars
<1>4. ASSUME NEW d \in Devices, BlockStep(d) PROVE TypeOK'
  <2>1. PICK w \in CommentWrites : /\ Enqueue(d, w)
                                   /\ UNCHANGED <<taps, screenVars, hud, failed, commented>>
    BY <1>4, BlockIsWrite, NewWriteFacts
  <2>2. blocks' \subseteq blocks
    BY <1>4 DEF BlockStep, RunCommentBlock, RunNotifyBlock
  <2>3. /\ UNCHANGED <<db, applied>> /\ queue' \in [Devices -> Seq(CommentWrites)]
        /\ \A e \in Devices : Len(queue[e]) <= Len(queue'[e])
    <3>1. /\ UNCHANGED <<db, applied>> /\ queue' \in [Devices -> Seq(CommentWrites)]
          /\ \A e \in Devices \ {d} : queue'[e] = queue[e]
          /\ Len(queue'[d]) = Len(queue[d]) + 1
      BY <1>0, <2>1, EnqueueFacts
    <3>2. \A e \in Devices : Len(queue[e]) \in Nat
      BY <1>0, TypeFacts
    <3> QED BY <3>1, <3>2
  <2>4. \A e \in Devices : applied'[e] <= Len(queue'[e])
    <3> SUFFICES ASSUME NEW e \in Devices PROVE applied'[e] <= Len(queue'[e])
      OBVIOUS
    <3>1. queue'[e] \in Seq(CommentWrites)
      BY <2>3
    <3>2. Len(queue'[e]) \in Nat
      BY <3>1
    <3>3. applied[e] \in Nat /\ applied[e] <= Len(queue[e]) /\ Len(queue[e]) \in Nat
      BY <1>0, TypeFacts
    <3> QED BY <2>3, <3>2, <3>3
  <2> QED BY <1>0, <2>1, <2>2, <2>3, <2>4 DEF TypeOK, screenVars
<1>5. ASSUME NEW d \in Devices, Answers(d) PROVE TypeOK'
  <2>1. PICK then \in {"comment", "none"} :
          /\ Answer(d, then) /\ Dequeue(d) /\ UNCHANGED <<db, screenVars, commented>>
    BY <1>5 DEF Answers, AnswerComment, AnswerSilent
  <2>2. /\ Len(queue[d]) \in Nat \ {0} /\ Oldest(d) = queue[d][1] /\ Oldest(d).then = then
        /\ queue' \in [Devices -> Seq(CommentWrites)] /\ applied' \in [Devices -> Nat]
        /\ \A e \in Devices \ {d} : /\ queue'[e] = queue[e] /\ applied'[e] = applied[e]
        /\ Len(queue'[d]) = Len(queue[d]) - 1
        /\ \/ applied[d] > 0 /\ applied'[d] = applied[d] - 1 /\ UNCHANGED failed
           \/ applied[d] = 0 /\ applied'[d] = 0 /\ failed' = [failed EXCEPT ![d] = "reject"]
    BY <1>0, <2>1, AnswerFacts
  <2>3. ASSUME NEW e \in Devices PROVE applied'[e] <= Len(queue'[e])
    <3>1. applied[e] \in Nat /\ applied[e] <= Len(queue[e]) /\ Len(queue[e]) \in Nat
      BY <1>0, TypeFacts
    <3>2. CASE e = d
      <4>1. applied'[d] = applied[d] - 1 \/ applied'[d] = 0
        BY <2>2
      <4> QED BY <2>2, <3>1, <3>2, <4>1
    <3>3. CASE e # d
      BY <2>2, <3>1, <3>3
    <3> QED BY <3>2, <3>3
  <2>4. failed' \in [Devices -> {"none"} \cup Faults]
    <3>1. CASE UNCHANGED failed
      BY <1>0, <3>1 DEF TypeOK
    <3>2. CASE Fails(d, "reject")
      BY <1>0, <3>2 DEF Fails, TypeOK
    <3> QED BY <2>1, <3>1, <3>2 DEF Answer
  <2>5. /\ blocks' \subseteq Devices \X {"comment", "notify"} \X Numbers
        /\ hud' \in [Devices -> BOOLEAN]
    <3>1. CASE AnswerSilent(d)
      BY <1>0, <3>1 DEF AnswerSilent, TypeOK
    <3>2. CASE AnswerComment(d)
      <4>1. Oldest(d).then = "comment"
        BY <3>2 DEF AnswerComment, Answer
      <4>2. WriteOK(d, Oldest(d))
        <5>1. 1 \in 1..Len(queue[d])
          BY <2>2
        <5> QED BY <2>2, <5>1 DEF CommentsInv, QueuesOK
      <4>3. PICK n \in Numbers : Oldest(d).doc = CommentDoc(n)
        BY <4>1, <4>2 DEF WriteOK
      <4>4. Oldest(d).doc[2] \in Numbers
        BY <4>3 DEF CommentDoc
      <4>5. blocks' \subseteq blocks \cup {<<d, "notify", Oldest(d).doc[2]>>}
        BY <3>2 DEF AnswerComment
      <4>6. blocks' \subseteq Devices \X {"comment", "notify"} \X Numbers
        BY <1>0, <4>4, <4>5 DEF TypeOK
      <4> QED BY <1>0, <3>2, <4>6 DEF AnswerComment, TypeOK
    <3> QED BY <1>5, <3>1, <3>2 DEF Answers
  <2> QED BY <1>0, <2>1, <2>2, <2>3, <2>4, <2>5 DEF TypeOK, screenVars
<1>6. ASSUME NEW d \in Devices, Apply(d) PROVE TypeOK'
  <2>1. /\ db' \in [Docs -> Users \cup {NoOne}] /\ UNCHANGED queue
        /\ applied' = [applied EXCEPT ![d] = applied[d] + 1]
        /\ applied[d] + 1 \in 1..Len(queue[d])
    BY <1>0, <1>6, CommitFacts
  <2>2. applied' \in [Devices -> Nat] /\ \A e \in Devices : applied'[e] <= Len(queue'[e])
    BY <1>0, <2>1 DEF TypeOK
  <2>3. commented' \subseteq Users
    BY <1>0, <1>6 DEF Apply, TypeOK
  <2> QED BY <1>0, <1>6, <2>1, <2>2, <2>3 DEF Apply, TypeOK, screenVars
<1>7. ASSUME NEW d \in Devices, Resend(d) PROVE TypeOK'
  <2>1. /\ applied' = [applied EXCEPT ![d] = 0] /\ UNCHANGED <<db, queue, commentVars>>
    BY <1>7 DEF Resend, Reopen
  <2>2. applied' \in [Devices -> Nat] /\ \A e \in Devices : applied'[e] <= Len(queue'[e])
    <3>1. \A e \in Devices : Len(queue[e]) \in Nat
      BY <1>0, TypeFacts
    <3> QED BY <1>0, <2>1, <3>1 DEF TypeOK
  <2> QED BY <1>0, <2>1, <2>2 DEF TypeOK, commentVars, screenVars
<1>8. ASSUME NEW d \in Devices, Crash(d) PROVE TypeOK'
  <2>1. /\ queue' \in [Devices -> Seq(CommentWrites)] /\ applied' \in [Devices -> Nat]
        /\ \A e \in Devices \ {d} : /\ queue'[e] = queue[e] /\ applied'[e] = applied[e]
        /\ applied'[d] = 0 /\ Len(queue'[d]) = Len(queue[d])
    BY <1>0, <1>8, CrashFacts
  <2>2. \A e \in Devices : applied'[e] <= Len(queue'[e])
    <3> SUFFICES ASSUME NEW e \in Devices PROVE applied'[e] <= Len(queue'[e])
      OBVIOUS
    <3>1. applied[e] <= Len(queue[e]) /\ Len(queue[e]) \in Nat
      BY <1>0, TypeFacts
    <3>2. CASE e = d
      BY <2>1, <3>1, <3>2
    <3>3. CASE e # d
      BY <2>1, <3>1, <3>3
    <3> QED BY <3>2, <3>3
  <2>3. /\ failed' \in [Devices -> {"none"} \cup Faults]
        /\ open' \in [Devices -> BOOLEAN] /\ hud' \in [Devices -> BOOLEAN]
        /\ seen' \in [Devices -> SUBSET Numbers] /\ comments' \in [Devices -> Seq(Numbers)]
        /\ blocks' \subseteq blocks
    BY <1>0, <1>8 DEF Crash, Fails, TypeOK
  <2>4. UNCHANGED <<db, commented>>
    BY <1>8 DEF Crash, LoseProcess
  <2> QED BY <1>0, <2>1, <2>2, <2>3, <2>4 DEF TypeOK
<1>9. CASE UNCHANGED allVars
  BY <1>0, <1>9 DEF TypeOK, allVars, storeVars, commentVars, screenVars
<1> QED BY <1>1, <1>2, <1>3, <1>4, <1>5, <1>6, <1>7, <1>8, <1>9 DEF CommentsNext

LEMMA CountKept ==
  ASSUME CommentsInv, [CommentsNext]_allVars
  PROVE  CountOK'
<1>0. TypeOK /\ CountOK /\ Cardinality(CommentBlocks) \in Nat
  BY FS_CardinalityType DEF CommentsInv, CountOK
<1>1. ASSUME UNCHANGED <<written, taps>>, CommentBlocks' \subseteq CommentBlocks PROVE CountOK'
  <2>1. /\ IsFiniteSet(CommentBlocks') /\ Cardinality(CommentBlocks') <= Cardinality(CommentBlocks)
        /\ Cardinality(CommentBlocks') \in Nat
    BY <1>0, <1>1, FS_Subset, FS_CardinalityType DEF CountOK
  <2> QED BY <1>0, <1>1, <2>1, AccountFacts DEF CountOK
<1>2. ASSUME NEW d \in Devices,
             \/ OpenComments(d) \/ Snapshot(d) \/ AnswerSilent(d) \/ Apply(d) \/ Resend(d)
             \/ UNCHANGED allVars
      PROVE  CountOK'
  BY <1>1, <1>2 DEF OpenComments, Snapshot, AnswerSilent, Apply, Resend, allVars, commentVars,
                    CommentBlocks
<1>3. ASSUME NEW d \in Devices, TapPost(d) PROVE CountOK'
  <2>1. PICK b : b = <<d, "comment", taps + 1>>
    OBVIOUS
  <2>2. /\ taps < MaxTaps /\ taps' = taps + 1 /\ blocks' = blocks \cup {b} /\ UNCHANGED written
        /\ b[2] = "comment"
    BY <1>3, <2>1 DEF TapPost
  <2>3. CommentBlocks' = CommentBlocks \cup {b}
    BY <2>2 DEF CommentBlocks
  <2>4. /\ IsFiniteSet(CommentBlocks \cup {b})
        /\ Cardinality(CommentBlocks \cup {b}) =
             IF b \in CommentBlocks THEN Cardinality(CommentBlocks)
                                    ELSE Cardinality(CommentBlocks) + 1
    BY <1>0, FS_AddElement DEF CountOK
  <2>5. IsFiniteSet(CommentBlocks') /\ Cardinality(CommentBlocks') <= Cardinality(CommentBlocks) + 1
        /\ Cardinality(CommentBlocks') \in Nat
    BY <1>0, <2>3, <2>4
  <2> QED BY <1>0, <2>2, <2>5, AccountFacts DEF CountOK
<1>4. ASSUME NEW d \in Devices, NEW k, RunCommentBlock(d, k) PROVE CountOK'
  <2>1. PICK b : b = <<d, "comment", k>>
    OBVIOUS
  <2>2. b \in blocks /\ blocks' = blocks \ {b} /\ written' = written + 1 /\ UNCHANGED taps
    BY <1>4, <2>1 DEF RunCommentBlock
  <2>3. CommentBlocks' = CommentBlocks \ {b}
    BY <2>2 DEF CommentBlocks
  <2>4. /\ Cardinality(CommentBlocks \ {b}) = Cardinality(CommentBlocks) - 1
        /\ IsFiniteSet(CommentBlocks \ {b})
    BY <2>1, <2>2, NextNumber
  <2>5. /\ IsFiniteSet(CommentBlocks')
        /\ Cardinality(CommentBlocks') = Cardinality(CommentBlocks) - 1
    BY <2>3, <2>4
  <2> QED BY <1>0, <2>2, <2>5, AccountFacts DEF CountOK
<1>5. ASSUME NEW d \in Devices, NEW k, RunNotifyBlock(d, k) PROVE CountOK'
  BY <1>1, <1>5 DEF RunNotifyBlock, CommentBlocks
<1>6. ASSUME NEW d \in Devices, AnswerComment(d) PROVE CountOK'
  <2>1. PICK b : b = <<d, "notify", Oldest(d).doc[2]>>
    OBVIOUS
  <2>2. b[2] = "notify" /\ blocks' \subseteq blocks \cup {b} /\ UNCHANGED <<written, taps>>
    BY <1>6, <2>1 DEF AnswerComment
  <2>3. CommentBlocks' \subseteq CommentBlocks
    BY <2>2 DEF CommentBlocks
  <2> QED BY <1>1, <2>2, <2>3
<1>7. ASSUME NEW d \in Devices, Crash(d) PROVE CountOK'
  BY <1>1, <1>7 DEF Crash, CommentBlocks
<1>8. CASE UNCHANGED allVars
  BY <1>1, <1>8 DEF allVars, commentVars, CommentBlocks
<1> QED BY <1>2, <1>3, <1>4, <1>5, <1>6, <1>7, <1>8 DEF CommentsNext, BlockStep, Answers

-----------------------------------------------------------------------------
(* What a step does to the queues, write by write. *)

LEMMA QueueStep ==
  ASSUME [CommentsNext]_allVars
  PROVE  \/ /\ UNCHANGED <<queue, written>>
            /\ UNCHANGED applied \/ \E d \in Devices : Apply(d) \/ Resend(d)
         \/ \E d \in Devices : (\E w : NewWrite(d, w)) \/ Answers(d) \/ Crash(d)
<1>1. ASSUME NEW d \in Devices, OpenComments(d) \/ Snapshot(d) \/ TapPost(d)
      PROVE  UNCHANGED <<queue, written, applied>>
  BY <1>1 DEF OpenComments, Snapshot, TapPost, storeVars
<1>2. ASSUME NEW d \in Devices, Apply(d) \/ Resend(d) PROVE UNCHANGED <<queue, written>>
  BY <1>2 DEF Apply, Commit, Resend, Reopen, commentVars
<1>3. CASE UNCHANGED allVars
  BY <1>3 DEF allVars, storeVars, commentVars
<1> QED BY <1>1, <1>2, <1>3, BlockIsWrite DEF CommentsNext

LEMMA DbStep ==
  ASSUME CommentsInv, [CommentsNext]_allVars
  PROVE  \/ UNCHANGED db
         \/ \E d \in Devices : Apply(d)
<1>1. ASSUME NEW d \in Devices, \/ OpenComments(d) \/ Snapshot(d) \/ TapPost(d) \/ BlockStep(d)
                                \/ Answers(d) \/ Resend(d) \/ Crash(d)
      PROVE  UNCHANGED db
  BY <1>1 DEF OpenComments, Snapshot, TapPost, BlockStep, RunCommentBlock, RunNotifyBlock,
              Enqueue, Answers, AnswerComment, AnswerSilent, Resend, Reopen, Crash,
              LoseProcess, storeVars
<1>2. CASE UNCHANGED allVars
  BY <1>2 DEF allVars, storeVars
<1> QED BY <1>1, <1>2 DEF CommentsNext

(* What only grows. *)
LEMMA Grows ==
  ASSUME CommentsInv, [CommentsNext]_allVars
  PROVE  /\ written <= written' /\ commented \subseteq commented'
         /\ \A d \in Devices : failed[d] = "reject" => failed'[d] = "reject"
         /\ \A d \in Devices : MayNotify(d) => MayNotify(d)'
         /\ \A x \in Docs : db[x] # NoOne => db'[x] # NoOne
<1>0. TypeOK /\ written \in Nat
  BY DEF CommentsInv, CountOK
<1>1. written' \in {written, written + 1}
  <2>1. ASSUME NEW d \in Devices, Answers(d) \/ Crash(d) PROVE UNCHANGED written
    BY <2>1 DEF Answers, AnswerComment, AnswerSilent, Crash
  <2>2. ASSUME NEW d \in Devices, NEW w, NewWrite(d, w) PROVE written' \in {written, written + 1}
    BY <2>2, NewWriteFacts
  <2> QED BY <2>1, <2>2, QueueStep
<1>2. commented \subseteq commented'
  <2>1. ASSUME NEW d \in Devices, \/ OpenComments(d) \/ Snapshot(d) \/ TapPost(d) \/ BlockStep(d)
                                  \/ Answers(d) \/ Resend(d) \/ Crash(d)
        PROVE  UNCHANGED commented
    BY <2>1 DEF OpenComments, Snapshot, TapPost, BlockStep, RunCommentBlock, RunNotifyBlock,
                Answers, AnswerComment, AnswerSilent, Resend, Crash, commentVars
  <2>2. ASSUME NEW d \in Devices, Apply(d) PROVE commented \subseteq commented'
    BY <2>2 DEF Apply
  <2>3. CASE UNCHANGED allVars
    BY <2>3 DEF allVars, commentVars
  <2> QED BY <2>1, <2>2, <2>3 DEF CommentsNext
<1>3. ASSUME NEW d \in Devices, failed[d] = "reject" PROVE failed'[d] = "reject"
  <2>1. ASSUME NEW e \in Devices, \/ OpenComments(e) \/ Snapshot(e) \/ TapPost(e) \/ BlockStep(e)
                                  \/ Apply(e) \/ Resend(e)
        PROVE  UNCHANGED failed
    BY <2>1 DEF OpenComments, Snapshot, TapPost, BlockStep, RunCommentBlock, RunNotifyBlock,
                Apply, Resend, commentVars
  <2>2. ASSUME NEW e \in Devices, NEW fault, Fails(e, fault) PROVE failed'[d] = failed[d]
    BY <1>0, <1>3, <2>2 DEF Fails, TypeOK
  <2>3. ASSUME NEW e \in Devices, Answers(e) \/ Crash(e) PROVE failed'[d] = failed[d]
    <3>1. UNCHANGED failed \/ Fails(e, "reject") \/ Fails(e, "crash")
      BY <2>3 DEF Answers, AnswerComment, AnswerSilent, Answer, Crash
    <3> QED BY <2>2, <3>1
  <2>4. CASE UNCHANGED allVars
    BY <1>3, <2>4 DEF allVars, commentVars
  <2> QED BY <1>3, <2>1, <2>3, <2>4 DEF CommentsNext
<1>4. ASSUME NEW x \in Docs, db[x] # NoOne PROVE db'[x] # NoOne
  <2>1. ASSUME NEW d \in Devices, Apply(d) PROVE db'[x] # NoOne
    <3>1. PICK w \in CommentWrites : /\ db' = [db EXCEPT ![w.doc] = w.val]
                                     /\ db'[w.doc] = w.val /\ w.doc \in Docs /\ w.val \in Users
      BY <1>0, <2>1, CommitFacts
    <3>2. CASE x = w.doc
      BY <3>1, <3>2, AccountFacts
    <3>3. CASE x # w.doc
      BY <1>0, <1>4, <3>1, <3>3 DEF TypeOK
    <3> QED BY <3>2, <3>3
  <2> QED BY <1>4, <2>1, DbStep
<1> QED BY <1>0, <1>1, <1>2, <1>3, <1>4 DEF MayNotify

(* A write of the new queue is one of the old one, moved up by c[d], or new. *)
Moved(c, d, i) ==
  /\ i + c[d] \in 1..Len(queue[d])
  /\ queue'[d][i].doc = queue[d][i + c[d]].doc
  /\ queue'[d][i].val = queue[d][i + c[d]].val
  /\ queue'[d][i].then \in {queue[d][i + c[d]].then, "none"}
  /\ i <= applied'[d] => \/ i + c[d] <= applied[d]
                         \/ Apply(d) /\ i + c[d] = applied[d] + 1

Added(d, i) ==
  i = Len(queue[d]) + 1 /\ i > applied'[d] /\ NewWrite(d, queue'[d][i])

LEMMA QueueMoves ==
  ASSUME CommentsInv, [CommentsNext]_allVars
  PROVE  \E c \in [Devices -> {0, 1}] :
           \A d \in Devices : \A i \in 1..Len(queue'[d]) : Moved(c, d, i) \/ Added(d, i)
<1>0. TypeOK
  BY DEF CommentsInv
<1> DEFINE none == [d \in Devices |-> 0]
<1>1. none \in [Devices -> {0, 1}] /\ \A d \in Devices : none[d] = 0
  OBVIOUS
<1> HIDE DEF none
<1>2. ASSUME NEW d \in Devices, NEW i \in 1..Len(queue[d]), queue'[d][i] = queue[d][i],
             i <= applied'[d] => i <= applied[d] \/ (Apply(d) /\ i = applied[d] + 1)
      PROVE  Moved(none, d, i)
  <2>1. i + none[d] = i
    BY <1>1
  <2> QED BY <1>2, <2>1 DEF Moved
<1>3. CASE /\ UNCHANGED queue
           /\ UNCHANGED applied \/ \E d \in Devices : Apply(d) \/ Resend(d)
  <2>1. ASSUME NEW d \in Devices
        PROVE  \/ applied'[d] = applied[d] \/ applied'[d] = 0
               \/ Apply(d) /\ applied'[d] = applied[d] + 1
    <3>1. ASSUME NEW e \in Devices, Apply(e)
          PROVE  applied'[d] = IF d = e THEN applied[d] + 1 ELSE applied[d]
      <4>1. applied' = [applied EXCEPT ![e] = applied[e] + 1]
        BY <1>0, <3>1, CommitFacts
      <4> QED BY <1>0, <4>1 DEF TypeOK
    <3>2. ASSUME NEW e \in Devices, Resend(e) PROVE applied'[d] \in {applied[d], 0}
      BY <1>0, <3>2 DEF Resend, Reopen, TypeOK
    <3> QED BY <1>3, <3>1, <3>2
  <2>2. ASSUME NEW d \in Devices, NEW i \in 1..Len(queue'[d]) PROVE Moved(none, d, i)
    <3>1. i \in 1..Len(queue[d]) /\ queue'[d][i] = queue[d][i]
      BY <1>3
    <3>2. i <= applied'[d] => i <= applied[d] \/ (Apply(d) /\ i = applied[d] + 1)
      BY <1>0, <2>1, <3>1, TypeFacts
    <3> QED BY <1>2, <3>1, <3>2
  <2> QED BY <1>1, <2>2
<1>4. ASSUME NEW e \in Devices, NEW w, NewWrite(e, w)
      PROVE  \A d \in Devices : \A i \in 1..Len(queue'[d]) : Moved(none, d, i) \/ Added(d, i)
  <2>1. w \in CommentWrites /\ Enqueue(e, w)
    BY <1>4, NewWriteFacts
  <2>2. /\ UNCHANGED applied
        /\ \A d \in Devices \ {e} : queue'[d] = queue[d]
        /\ Len(queue'[e]) = Len(queue[e]) + 1
        /\ \A i \in 1..Len(queue[e]) : queue'[e][i] = queue[e][i]
        /\ queue'[e][Len(queue[e]) + 1] = w
    BY <1>0, <2>1, EnqueueFacts
  <2> SUFFICES ASSUME NEW d \in Devices, NEW i \in 1..Len(queue'[d])
               PROVE  Moved(none, d, i) \/ Added(d, i)
    OBVIOUS
  <2>3. Len(queue[d]) \in Nat /\ applied[d] \in Nat /\ applied[d] <= Len(queue[d])
    BY <1>0, TypeFacts
  <2>4. CASE i \in 1..Len(queue[d])
    <3>1. queue'[d][i] = queue[d][i]
      BY <2>2, <2>4
    <3> QED BY <1>2, <2>2, <2>4, <3>1
  <2>5. CASE i \notin 1..Len(queue[d])
    <3>1. d = e
      BY <2>2, <2>5
    <3>2. i = Len(queue[d]) + 1
      BY <2>2, <2>3, <2>5, <3>1
    <3>3. i > applied'[d] /\ queue'[d][i] = w
      BY <2>2, <2>3, <3>1, <3>2
    <3> QED BY <1>4, <3>1, <3>2, <3>3 DEF Added
  <2> QED BY <2>4, <2>5
<1>5. ASSUME NEW e \in Devices, Answers(e)
      PROVE  \E c \in [Devices -> {0, 1}] :
               \A d \in Devices : \A i \in 1..Len(queue'[d]) : Moved(c, d, i)
  <2>1. PICK then : Answer(e, then) /\ Dequeue(e) /\ UNCHANGED db
    BY <1>5 DEF Answers, AnswerComment, AnswerSilent
  <2>2. /\ \A d \in Devices \ {e} : /\ queue'[d] = queue[d] /\ applied'[d] = applied[d]
        /\ \A i \in 1..Len(queue'[e]) : /\ i + 1 \in 1..Len(queue[e])
                                        /\ queue'[e][i] = queue[e][i + 1]
        /\ \/ applied[e] > 0 /\ applied'[e] = applied[e] - 1
           \/ applied[e] = 0 /\ applied'[e] = 0
    BY <1>0, <2>1, AnswerFacts
  <2> DEFINE c == [d \in Devices |-> IF d = e THEN 1 ELSE 0]
  <2>3. c \in [Devices -> {0, 1}] /\ \A d \in Devices : c[d] = IF d = e THEN 1 ELSE 0
    OBVIOUS
  <2> HIDE DEF c
  <2>4. ASSUME NEW d \in Devices, NEW i \in 1..Len(queue'[d]) PROVE Moved(c, d, i)
    <3>1. PICK k : k = i + c[d]
      OBVIOUS
    <3>2. applied[d] \in Nat
      BY <1>0, TypeFacts
    <3>3. CASE d = e
      <4>1. k = i + 1
        BY <2>3, <3>1, <3>3
      <4>2. k \in 1..Len(queue[d]) /\ queue'[d][i] = queue[d][k]
        BY <2>2, <3>3, <4>1
      <4>3. i <= applied'[d] => k <= applied[d]
        BY <2>2, <3>2, <3>3, <4>1
      <4> QED BY <3>1, <4>2, <4>3 DEF Moved
    <3>4. CASE d # e
      <4>1. k = i /\ queue'[d] = queue[d] /\ applied'[d] = applied[d]
        BY <2>2, <2>3, <3>1, <3>4
      <4>2. k \in 1..Len(queue[d])
        BY <4>1
      <4> QED BY <3>1, <4>1, <4>2 DEF Moved
    <3> QED BY <3>3, <3>4
  <2> QED BY <2>3, <2>4
<1>6. ASSUME NEW e \in Devices, Crash(e)
      PROVE  \A d \in Devices : \A i \in 1..Len(queue'[d]) : Moved(none, d, i)
  <2>1. /\ \A d \in Devices \ {e} : /\ queue'[d] = queue[d] /\ applied'[d] = applied[d]
        /\ applied'[e] = 0 /\ Len(queue'[e]) = Len(queue[e])
        /\ \A i \in 1..Len(queue[e]) : /\ queue'[e][i].doc = queue[e][i].doc
                                       /\ queue'[e][i].val = queue[e][i].val
                                       /\ queue'[e][i].then = "none"
    BY <1>0, <1>6, CrashFacts
  <2> SUFFICES ASSUME NEW d \in Devices, NEW i \in 1..Len(queue'[d]) PROVE Moved(none, d, i)
    OBVIOUS
  <2>2. CASE d = e
    <3>1. /\ i \in 1..Len(queue[d]) /\ i + none[d] = i /\ ~(i <= applied'[d])
          /\ queue'[d][i].doc = queue[d][i].doc /\ queue'[d][i].val = queue[d][i].val
          /\ queue'[d][i].then = "none"
      BY <1>1, <2>1, <2>2
    <3> QED BY <3>1 DEF Moved
  <2>3. CASE d # e
    BY <1>2, <2>1, <2>3
  <2> QED BY <2>2, <2>3
<1> QED BY <1>1, <1>3, <1>4, <1>5, <1>6, QueueStep


-----------------------------------------------------------------------------
(* The writes. *)

LEMMA WriteStays ==
  ASSUME CommentsInv, [CommentsNext]_allVars, NEW d \in Devices, NEW w \in CommentWrites,
         WriteOK(d, w)
  PROVE  WriteOK(d, w)'
<1>1. written <= written' /\ (MayNotify(d) => MayNotify(d)')
  BY Grows
<1>2. written \in Nat /\ written' \in Nat
  BY CountKept DEF CommentsInv, CountOK
<1>3. \A n \in Numbers : w.doc = CommentDoc(n) => n <= written'
  BY <1>1, <1>2, NumberFacts DEF WriteOK
<1>4. \A u \in Users : w.doc = NotificationDoc(u) => u = Account[d] /\ MayNotify(d)'
  BY <1>1 DEF WriteOK
<1>5. w.val = Account[d] /\ (w.then = "comment" => \E n \in Numbers : w.doc = CommentDoc(n))
  BY DEF WriteOK
<1> QED BY <1>3, <1>4, <1>5 DEF WriteOK

LEMMA StoredStays ==
  ASSUME CommentsInv, [CommentsNext]_allVars, NEW d \in Devices, NEW w \in CommentWrites,
         StoredOK(d, w)
  PROVE  StoredOK(d, w)'
<1>1. w.doc \in Docs
  BY DEF CommentWrites
<1>2. db'[w.doc] # NoOne /\ commented \subseteq commented'
  BY <1>1, Grows DEF StoredOK
<1> QED BY <1>2 DEF StoredOK

(* What is committed is stored. *)
LEMMA ApplyStores ==
  ASSUME CommentsInv, NEW d \in Devices, Apply(d)
  PROVE  \A w \in CommentWrites : w = queue[d][applied[d] + 1] => StoredOK(d, w)'
<1> SUFFICES ASSUME NEW w \in CommentWrites, w = queue[d][applied[d] + 1] PROVE StoredOK(d, w)'
  OBVIOUS
<1>1. /\ applied[d] + 1 \in 1..Len(queue[d])
      /\ db'[w.doc] = w.val /\ w.val \in Users
  BY CommitFacts DEF CommentsInv
<1>2. db'[w.doc] # NoOne
  BY <1>1, AccountFacts
<1>3. w.val = Account[d]
  BY <1>1 DEF CommentsInv, QueuesOK, WriteOK
<1>4. ASSUME NEW n \in Numbers, w.doc = CommentDoc(n) PROVE Account[d] \in commented'
  <2>1. db'[CommentDoc(n)] = Account[d] /\ Account[d] \in Users
    BY <1>1, <1>3, <1>4
  <2> QED BY <2>1 DEF Apply
<1> QED BY <1>2, <1>4 DEF StoredOK

LEMMA NewWriteOK ==
  ASSUME CommentsInv, [CommentsNext]_allVars, NEW d \in Devices, NEW w, NewWrite(d, w)
  PROVE  w \in CommentWrites /\ WriteOK(d, w)'
<1>1. /\ w \in CommentWrites /\ w.val = Account[d]
      /\ \/ /\ w.doc = CommentDoc(written + 1) /\ written + 1 \in Numbers
            /\ written' = written + 1
         \/ w.doc = NotificationDoc(Account[d]) /\ w.then = "none" /\ MayNotify(d)
            /\ UNCHANGED written
  BY NewWriteFacts
<1>2. MayNotify(d) => MayNotify(d)'
  BY Grows
<1>3. CASE w.doc = CommentDoc(written + 1) /\ written + 1 \in Numbers /\ written' = written + 1
  <2>1. \A n \in Numbers : w.doc = CommentDoc(n) => n <= written'
    BY <1>3, DocFacts, NumberFacts
  <2>2. \A u \in Users : w.doc # NotificationDoc(u)
    BY <1>3, DocFacts
  <2> QED BY <1>1, <1>3, <2>1, <2>2 DEF WriteOK
<1>4. CASE w.doc = NotificationDoc(Account[d]) /\ w.then = "none" /\ MayNotify(d)
  <2>1. \A n \in Numbers : w.doc # CommentDoc(n)
    BY <1>4, DocFacts
  <2>2. \A u \in Users : w.doc = NotificationDoc(u) => u = Account[d]
    BY <1>4, DocFacts
  <2> QED BY <1>1, <1>2, <1>4, <2>1, <2>2 DEF WriteOK
<1> QED BY <1>1, <1>3, <1>4

(* An old write of the new queue. *)
LEMMA MovedFacts ==
  ASSUME CommentsInv, TypeOK', NEW c \in [Devices -> {0, 1}], NEW d \in Devices,
         NEW i \in 1..Len(queue'[d]), Moved(c, d, i)
  PROVE  \E k \in 1..Len(queue[d]) :
           /\ k = i + c[d]
           /\ queue[d][k] \in CommentWrites /\ queue'[d][i] \in CommentWrites
           /\ queue'[d][i].doc = queue[d][k].doc /\ queue'[d][i].val = queue[d][k].val
           /\ queue'[d][i].then \in {queue[d][k].then, "none"}
           /\ i <= applied'[d] => k <= applied[d] \/ (Apply(d) /\ k = applied[d] + 1)
<1>1. PICK k : k = i + c[d]
  OBVIOUS
<1>2. /\ k \in 1..Len(queue[d])
      /\ queue'[d][i].doc = queue[d][k].doc /\ queue'[d][i].val = queue[d][k].val
      /\ queue'[d][i].then \in {queue[d][k].then, "none"}
      /\ i <= applied'[d] => k <= applied[d] \/ (Apply(d) /\ k = applied[d] + 1)
  BY <1>1 DEF Moved
<1>3. queue[d][k] \in CommentWrites
  BY <1>2, TypeFacts DEF CommentsInv
<1>4. queue'[d][i] \in CommentWrites
  <2>1. queue'[d] \in Seq(CommentWrites)
    BY DEF TypeOK
  <2> QED BY <2>1
<1> QED BY <1>1, <1>2, <1>3, <1>4

LEMMA QueuesKept ==
  ASSUME CommentsInv, [CommentsNext]_allVars
  PROVE  QueuesOK'
<1>0. TypeOK /\ TypeOK'
  BY TypeKept DEF CommentsInv
<1>1. PICK c \in [Devices -> {0, 1}] :
        \A d \in Devices : \A i \in 1..Len(queue'[d]) : Moved(c, d, i) \/ Added(d, i)
  BY QueueMoves
<1> SUFFICES ASSUME NEW d \in Devices, NEW i \in 1..Len(queue'[d]),
                    NEW w \in CommentWrites, w = queue'[d][i]
             PROVE  WriteOK(d, w)' /\ (i <= applied'[d] => StoredOK(d, w)')
  <2>2. \A e \in Devices : applied'[e] \in Nat /\ applied'[e] <= Len(queue'[e])
    BY <1>0 DEF TypeOK
  <2>3. \A e \in Devices : queue'[e] \in Seq(CommentWrites)
    BY <1>0 DEF TypeOK
  <2>4. \A e \in Devices : \A k \in 1..applied'[e] : k \in 1..Len(queue'[e]) /\ k <= applied'[e]
    BY <2>2, <2>3
  <2> QED BY <2>3, <2>4 DEF QueuesOK
<1>2. CASE Moved(c, d, i)
  <2>1. PICK k \in 1..Len(queue[d]) :
          /\ queue[d][k] \in CommentWrites /\ queue'[d][i] \in CommentWrites
          /\ queue'[d][i].doc = queue[d][k].doc /\ queue'[d][i].val = queue[d][k].val
          /\ queue'[d][i].then \in {queue[d][k].then, "none"}
          /\ i <= applied'[d] => k <= applied[d] \/ (Apply(d) /\ k = applied[d] + 1)
    BY <1>0, <1>2, MovedFacts
  <2>2. PICK v \in CommentWrites : v = queue[d][k]
    BY <2>1
  <2>3. WriteOK(d, v)
    BY <2>1, <2>2 DEF CommentsInv, QueuesOK
  <2>4. WriteOK(d, v)'
    BY <2>2, <2>3, WriteStays
  <2>5. WriteOK(d, w)'
    BY <2>1, <2>2, <2>4 DEF WriteOK
  <2>6. ASSUME i <= applied'[d] PROVE StoredOK(d, w)'
    <3>1. CASE k <= applied[d]
      <4>1. k \in 1..applied[d]
        BY <1>0, <2>1, <3>1, TypeFacts
      <4>2. StoredOK(d, v)
        BY <2>2, <4>1 DEF CommentsInv, QueuesOK
      <4>3. StoredOK(d, v)'
        BY <2>2, <4>2, StoredStays
      <4> QED BY <2>1, <2>2, <4>3 DEF StoredOK
    <3>2. CASE Apply(d) /\ k = applied[d] + 1
      <4>1. StoredOK(d, v)'
        BY <2>2, <3>2, ApplyStores
      <4> QED BY <2>1, <2>2, <4>1 DEF StoredOK
    <3> QED BY <2>1, <2>6, <3>1, <3>2
  <2> QED BY <2>2, <2>5, <2>6
<1>3. CASE Added(d, i)
  <2>1. NewWrite(d, queue'[d][i]) /\ i > applied'[d]
    BY <1>3 DEF Added
  <2>3. WriteOK(d, w)'
    BY <2>1, NewWriteOK
  <2>4. ~(i <= applied'[d])
    BY <1>0, <2>1 DEF TypeOK
  <2> QED BY <2>3, <2>4
<1> QED BY <1>1, <1>2, <1>3

LEMMA QueuedOnceKept ==
  ASSUME CommentsInv, [CommentsNext]_allVars
  PROVE  QueuedOnce'
<1>0. TypeOK /\ TypeOK' /\ written \in Nat
  BY TypeKept DEF CommentsInv, CountOK
<1>1. PICK c \in [Devices -> {0, 1}] :
        \A d \in Devices : \A i \in 1..Len(queue'[d]) : Moved(c, d, i) \/ Added(d, i)
  BY QueueMoves
<1>2. ASSUME NEW d \in Devices, NEW i \in 1..Len(queue'[d]), Added(d, i),
             queue'[d][i].doc[1] = "comments"
      PROVE  queue'[d][i].doc = CommentDoc(written + 1) /\ i = Len(queue[d]) + 1
  <2>1. NewWrite(d, queue'[d][i]) /\ i = Len(queue[d]) + 1
    BY <1>2 DEF Added
  <2>2. \/ queue'[d][i].doc = CommentDoc(written + 1)
        \/ queue'[d][i].doc = NotificationDoc(Account[d])
    BY <2>1, NewWriteFacts
  <2> QED BY <1>2, <2>1, <2>2, DocFacts
<1>3. ASSUME NEW d \in Devices, NEW i \in 1..Len(queue'[d]), Moved(c, d, i)
      PROVE  queue'[d][i].doc # CommentDoc(written + 1)
  <2>1. PICK k \in 1..Len(queue[d]) : /\ queue[d][k] \in CommentWrites
                                      /\ queue'[d][i].doc = queue[d][k].doc
    BY <1>0, <1>3, MovedFacts
  <2>2. WriteOK(d, queue[d][k])
    BY <2>1 DEF CommentsInv, QueuesOK
  <2>3. ASSUME queue[d][k].doc = CommentDoc(written + 1) PROVE FALSE
    <3>1. CommentDoc(written + 1) \in Docs
      BY <2>1, <2>3 DEF CommentWrites
    <3>2. written + 1 \in Numbers
      <4>1. PICK n \in Numbers : CommentDoc(written + 1) = CommentDoc(n)
        BY <3>1, DocFacts
      <4> QED BY <4>1, DocFacts
    <3>3. written + 1 <= written
      BY <2>2, <2>3, <3>2 DEF WriteOK
    <3> QED BY <1>0, <3>3
  <2> QED BY <2>1, <2>3
<1> SUFFICES ASSUME NEW d \in Devices, NEW e \in Devices,
                    NEW i \in 1..Len(queue'[d]), NEW k \in 1..Len(queue'[e]),
                    queue'[d][i].doc = queue'[e][k].doc, queue'[d][i].doc[1] = "comments"
             PROVE  d = e /\ i = k
  BY DEF QueuedOnce
<1>4. CASE Moved(c, d, i) /\ Moved(c, e, k)
  <2>1. PICK j \in 1..Len(queue[d]) : j = i + c[d] /\ queue'[d][i].doc = queue[d][j].doc
    BY <1>0, <1>4, MovedFacts
  <2>2. PICK m \in 1..Len(queue[e]) : m = k + c[e] /\ queue'[e][k].doc = queue[e][m].doc
    BY <1>0, <1>4, MovedFacts
  <2>3. d = e /\ j = m
    BY <2>1, <2>2 DEF CommentsInv, QueuedOnce
  <2>4. c[d] \in {0, 1} /\ c[d] = c[e]
    BY <2>3
  <2> QED BY <2>1, <2>2, <2>3, <2>4
<1>5. CASE Moved(c, d, i) /\ Added(e, k)
  BY <1>2, <1>3, <1>5
<1>6. CASE Added(d, i) /\ Moved(c, e, k)
  BY <1>2, <1>3, <1>6
<1>7. CASE Added(d, i) /\ Added(e, k)
  <2>1. i = Len(queue[d]) + 1 /\ k = Len(queue[e]) + 1 /\ NewWrite(d, queue'[d][i])
    BY <1>7 DEF Added
  <2>2. PICK w \in CommentWrites : Enqueue(d, w)
    BY <2>1, NewWriteFacts
  <2>3. \A f \in Devices \ {d} : queue'[f] = queue[f]
    BY <1>0, <2>2, EnqueueFacts
  <2>4. Len(queue[e]) \in Nat
    BY <1>0, TypeFacts
  <2>5. d = e
    BY <2>1, <2>3, <2>4
  <2> QED BY <2>1, <2>5
<1> QED BY <1>1, <1>4, <1>5, <1>6, <1>7

(* A comment that is gone stays gone: its number is used already. *)
LEMMA GoneStays ==
  ASSUME CommentsInv, [CommentsNext]_allVars, NEW n \in Numbers, n <= written, Gone(n)
  PROVE  Gone(n)'
<1>0. TypeOK /\ TypeOK' /\ written \in Nat
  BY TypeKept DEF CommentsInv, CountOK
<1>1. db'[CommentDoc(n)] = NoOne
  <2>1. ASSUME NEW d \in Devices, Apply(d) PROVE db'[CommentDoc(n)] = db[CommentDoc(n)]
    <3>1. PICK w \in CommentWrites :
            /\ applied[d] + 1 \in 1..Len(queue[d]) /\ w = queue[d][applied[d] + 1]
            /\ db' = [db EXCEPT ![w.doc] = w.val]
      BY <1>0, <2>1, CommitFacts
    <3>2. w.doc # CommentDoc(n)
      BY <3>1 DEF Gone, Queued
    <3>3. CommentDoc(n) \in Docs
      BY DocFacts
    <3> QED BY <1>0, <3>1, <3>2, <3>3 DEF TypeOK
  <2> QED BY <2>1, DbStep DEF Gone
<1>2. ASSUME NEW d \in Devices, NEW i \in 1..Len(queue'[d]) PROVE queue'[d][i].doc # CommentDoc(n)
  <2>1. PICK c \in [Devices -> {0, 1}] : Moved(c, d, i) \/ Added(d, i)
    BY QueueMoves
  <2>2. CASE Moved(c, d, i)
    <3>1. PICK k \in 1..Len(queue[d]) : queue'[d][i].doc = queue[d][k].doc
      BY <1>0, <2>2, MovedFacts
    <3> QED BY <3>1 DEF Gone, Queued
  <2>3. CASE Added(d, i)
    <3>1. \/ queue'[d][i].doc = CommentDoc(written + 1)
          \/ queue'[d][i].doc = NotificationDoc(Account[d])
      BY <2>3, NewWriteFacts DEF Added
    <3>2. n # written + 1
      BY <1>0, NumberFacts
    <3> QED BY <3>1, <3>2, DocFacts
  <2> QED BY <2>1, <2>2, <2>3
<1> QED BY <1>1, <1>2 DEF Gone, Queued

(* A comment leaves the queue of its phone when it is stored or refused. *)
LEMMA QueuedStays ==
  ASSUME CommentsInv, [CommentsNext]_allVars, NEW d \in Devices, NEW n \in Numbers, Queued(d, n)
  PROVE  Queued(d, n)' \/ db'[CommentDoc(n)] # NoOne \/ Lost(d, n)'
<1>0. TypeOK /\ TypeOK' /\ QueuedOnce /\ CommentDoc(n)[1] = "comments"
  BY TypeKept, DocFacts DEF CommentsInv
<1>1. PICK k \in 1..Len(queue[d]) : queue[d][k].doc = CommentDoc(n)
  BY DEF Queued
<1>2. Len(queue[d]) \in Nat /\ applied[d] \in Nat /\ queue[d][k] \in CommentWrites
  BY <1>0, TypeFacts
<1>3. ASSUME UNCHANGED queue PROVE Queued(d, n)'
  BY <1>1, <1>3 DEF Queued
<1>4. ASSUME NEW e \in Devices, NEW w, NewWrite(e, w) PROVE Queued(d, n)'
  <2>1. PICK v \in CommentWrites : Enqueue(e, v)
    BY <1>4, NewWriteFacts
  <2>2. /\ \A f \in Devices \ {e} : queue'[f] = queue[f]
        /\ Len(queue'[e]) = Len(queue[e]) + 1
        /\ \A i \in 1..Len(queue[e]) : queue'[e][i] = queue[e][i]
    BY <1>0, <2>1, EnqueueFacts
  <2>3. queue'[d][k] = queue[d][k] /\ k \in 1..Len(queue'[d])
    <3>1. CASE d = e
      BY <1>2, <2>2, <3>1
    <3>2. CASE d # e
      BY <2>2, <3>2
    <3> QED BY <3>1, <3>2
  <2> QED BY <1>1, <2>3 DEF Queued
<1>5. ASSUME NEW e \in Devices, Crash(e) PROVE Queued(d, n)'
  <2>1. /\ \A f \in Devices \ {e} : queue'[f] = queue[f]
        /\ Len(queue'[e]) = Len(queue[e])
        /\ \A i \in 1..Len(queue[e]) : queue'[e][i].doc = queue[e][i].doc
    BY <1>0, <1>5, CrashFacts
  <2>2. queue'[d][k].doc = CommentDoc(n) /\ k \in 1..Len(queue'[d])
    <3>1. CASE d = e
      BY <1>1, <2>1, <3>1
    <3>2. CASE d # e
      BY <1>1, <2>1, <3>2
    <3> QED BY <3>1, <3>2
  <2> QED BY <2>2 DEF Queued
<1>6. ASSUME NEW e \in Devices, Answers(e)
      PROVE  Queued(d, n)' \/ db'[CommentDoc(n)] # NoOne \/ Lost(d, n)'
  <2>1. PICK then : Answer(e, then) /\ Dequeue(e) /\ UNCHANGED db
    BY <1>6 DEF Answers, AnswerComment, AnswerSilent
  <2>2. /\ Len(queue[e]) \in Nat \ {0} /\ Oldest(e) = queue[e][1]
        /\ \A f \in Devices \ {e} : queue'[f] = queue[f]
        /\ Len(queue'[e]) = Len(queue[e]) - 1
        /\ \A i \in 1..Len(queue'[e]) : /\ i + 1 \in 1..Len(queue[e])
                                        /\ queue'[e][i] = queue[e][i + 1]
        /\ \/ applied[e] > 0 /\ applied'[e] = applied[e] - 1 /\ UNCHANGED failed
           \/ applied[e] = 0 /\ applied'[e] = 0 /\ failed' = [failed EXCEPT ![e] = "reject"]
    BY <1>0, <2>1, AnswerFacts
  <2>3. CASE d # e
    <3>1. queue'[d] = queue[d]
      BY <2>2, <2>3
    <3> QED BY <1>1, <3>1 DEF Queued
  <2>4. CASE d = e /\ k # 1
    <3>1. PICK i : i = k - 1
      OBVIOUS
    <3>2. i \in 1..Len(queue'[d]) /\ i + 1 = k
      BY <1>2, <2>2, <2>4, <3>1
    <3>3. queue'[d][i] = queue[d][k]
      BY <2>2, <2>4, <3>2
    <3> QED BY <1>1, <3>2, <3>3 DEF Queued
  <2>5. CASE d = e /\ k = 1 /\ applied[d] > 0
    <3>1. 1 \in 1..applied[d]
      BY <1>2, <2>5
    <3>2. StoredOK(d, queue[d][1])
      BY <3>1 DEF CommentsInv, QueuesOK
    <3>3. db[CommentDoc(n)] # NoOne
      BY <1>1, <2>5, <3>2 DEF StoredOK
    <3> QED BY <2>1, <3>3
  <2>6. CASE d = e /\ k = 1 /\ applied[d] = 0
    <3>1. failed'[d] = "reject"
      BY <1>0, <2>2, <2>6 DEF TypeOK
    <3>2. ASSUME NEW f \in Devices, NEW i \in 1..Len(queue'[f]), queue'[f][i].doc = CommentDoc(n)
          PROVE  FALSE
      <4>1. CASE f = d
        <5>1. PICK j : j = i + 1
          OBVIOUS
        <5>2. j \in 1..Len(queue[d]) /\ queue'[d][i] = queue[d][j]
          BY <2>2, <2>6, <4>1, <5>1
        <5>3. queue[d][j].doc = queue[d][k].doc /\ queue[d][j].doc[1] = "comments"
          BY <1>0, <1>1, <3>2, <4>1, <5>2
        <5>4. j = k
          BY <1>0, <1>1, <5>2, <5>3 DEF QueuedOnce
        <5>5. Len(queue'[d]) \in Nat
          BY <2>2, <2>6
        <5>6. i >= 1
          BY <4>1, <5>5
        <5> QED BY <2>6, <4>1, <5>1, <5>4, <5>5, <5>6
      <4>2. CASE f # d
        <5>1. i \in 1..Len(queue[f]) /\ queue[f][i] = queue'[f][i]
          BY <2>2, <2>6, <4>2
        <5>2. queue[f][i].doc = queue[d][k].doc /\ queue[f][i].doc[1] = "comments"
          BY <1>0, <1>1, <3>2, <5>1
        <5> QED BY <1>0, <1>1, <4>2, <5>1, <5>2 DEF QueuedOnce
      <4> QED BY <4>1, <4>2
    <3>3. n <= written'
      <4>1. WriteOK(d, queue[d][k])
        BY <1>1 DEF CommentsInv, QueuesOK
      <4>2. n <= written
        BY <1>1, <4>1 DEF WriteOK
      <4>3. UNCHANGED written
        BY <1>6 DEF Answers, AnswerComment, AnswerSilent
      <4> QED BY <4>2, <4>3
    <3> QED BY <3>1, <3>2, <3>3 DEF Lost, Gone, Queued
  <2> QED BY <1>2, <2>3, <2>4, <2>5, <2>6
<1> QED BY <1>3, <1>4, <1>5, <1>6, QueueStep

-----------------------------------------------------------------------------
(* The documents and the blocks. *)

LEMMA DbKept ==
  ASSUME CommentsInv, [CommentsNext]_allVars
  PROVE  DbOK'
<1>0. TypeOK /\ DbOK /\ written \in Nat /\ written' \in Nat
  BY CountKept DEF CommentsInv, CountOK
<1>1. /\ written <= written' /\ commented \subseteq commented'
      /\ \A d \in Devices : failed[d] = "reject" => failed'[d] = "reject"
      /\ \A d \in Devices : MayNotify(d) => MayNotify(d)'
  BY Grows
<1>2. CASE UNCHANGED db
  <2>1. \A n \in Numbers : db'[CommentDoc(n)] # NoOne => n <= written'
    BY <1>0, <1>1, <1>2, NumberFacts DEF DbOK
  <2>2. \A u \in Users : db'[NotificationDoc(u)] # NoOne =>
          u \in commented' \/ \E d \in Devices : Account[d] = u /\ failed'[d] = "reject"
    BY <1>0, <1>1, <1>2 DEF DbOK
  <2> QED BY <2>1, <2>2 DEF DbOK
<1>3. ASSUME NEW e \in Devices, Apply(e) PROVE DbOK'
  <2>1. PICK w \in CommentWrites :
          /\ applied[e] + 1 \in 1..Len(queue[e]) /\ w = queue[e][applied[e] + 1]
          /\ db' = [db EXCEPT ![w.doc] = w.val]
    BY <1>0, <1>3, CommitFacts
  <2>2. WriteOK(e, w)
    BY <2>1 DEF CommentsInv, QueuesOK
  <2>3. \A x \in Docs : db'[x] = db[x] \/ x = w.doc
    BY <1>0, <2>1 DEF TypeOK
  <2>4. ASSUME NEW n \in Numbers, db'[CommentDoc(n)] # NoOne PROVE n <= written'
    <3>1. db[CommentDoc(n)] # NoOne \/ w.doc = CommentDoc(n)
      BY <2>3, <2>4, DocFacts
    <3>2. n <= written
      BY <1>0, <2>2, <3>1 DEF DbOK, WriteOK
    <3> QED BY <1>0, <1>1, <3>2, NumberFacts
  <2>5. ASSUME NEW u \in Users, db'[NotificationDoc(u)] # NoOne
        PROVE  u \in commented' \/ \E d \in Devices : Account[d] = u /\ failed'[d] = "reject"
    <3>1. db[NotificationDoc(u)] # NoOne \/ w.doc = NotificationDoc(u)
      BY <2>3, <2>5, DocFacts
    <3>2. CASE db[NotificationDoc(u)] # NoOne
      BY <1>0, <1>1, <3>2 DEF DbOK
    <3>3. CASE w.doc = NotificationDoc(u)
      <4>1. u = Account[e] /\ MayNotify(e)'
        BY <1>1, <2>2, <3>3 DEF WriteOK
      <4> QED BY <4>1 DEF MayNotify
    <3> QED BY <3>1, <3>2, <3>3
  <2> QED BY <2>4, <2>5 DEF DbOK
<1> QED BY <1>2, <1>3, DbStep

LEMMA BlocksKept ==
  ASSUME CommentsInv, [CommentsNext]_allVars
  PROVE  BlocksOK'
<1>0. TypeOK /\ BlocksOK
  BY DEF CommentsInv
<1>1. \A d \in Devices : MayNotify(d) => MayNotify(d)'
  BY Grows
<1>2. \A b \in blocks : b[2] = "notify" => b[1] \in Devices /\ MayNotify(b[1])'
  BY <1>0, <1>1 DEF BlocksOK, TypeOK
<1>3. ASSUME blocks' \subseteq blocks PROVE BlocksOK'
  BY <1>2, <1>3 DEF BlocksOK
<1>4. ASSUME NEW d \in Devices,
             \/ OpenComments(d) \/ Snapshot(d) \/ BlockStep(d) \/ AnswerSilent(d) \/ Apply(d)
             \/ Resend(d) \/ Crash(d) \/ UNCHANGED allVars
      PROVE  blocks' \subseteq blocks
  BY <1>4 DEF OpenComments, Snapshot, BlockStep, RunCommentBlock, RunNotifyBlock, AnswerSilent,
              Apply, Resend, Crash, allVars, commentVars
<1>5. ASSUME NEW d \in Devices, TapPost(d) PROVE BlocksOK'
  <2>1. PICK b : b = <<d, "comment", taps'>>
    OBVIOUS
  <2>2. blocks' = blocks \cup {b} /\ b[2] = "comment"
    BY <1>5, <2>1 DEF TapPost
  <2> QED BY <1>2, <2>2 DEF BlocksOK
<1>6. ASSUME NEW d \in Devices, AnswerComment(d) PROVE BlocksOK'
  <2>1. PICK b : b = <<d, "notify", Oldest(d).doc[2]>>
    OBVIOUS
  <2>2. /\ blocks' \subseteq blocks \cup {b} /\ b[1] = d
        /\ Answer(d, "comment") /\ Dequeue(d) /\ UNCHANGED db
    BY <1>6, <2>1 DEF AnswerComment
  <2>3. /\ Len(queue[d]) \in Nat \ {0} /\ Oldest(d) = queue[d][1] /\ Oldest(d).then = "comment"
        /\ \/ applied[d] > 0
           \/ failed' = [failed EXCEPT ![d] = "reject"]
    BY <1>0, <2>2, AnswerFacts
  <2>4. MayNotify(d)'
    <3>1. CASE applied[d] > 0
      <4>1. 1 \in 1..applied[d] /\ 1 \in 1..Len(queue[d])
        BY <1>0, <2>3, <3>1, TypeFacts
      <4>2. StoredOK(d, Oldest(d)) /\ WriteOK(d, Oldest(d))
        BY <2>3, <4>1 DEF CommentsInv, QueuesOK
      <4>3. Account[d] \in commented
        BY <2>3, <4>2 DEF WriteOK, StoredOK
      <4> QED BY <1>1, <4>3 DEF MayNotify
    <3>2. CASE failed' = [failed EXCEPT ![d] = "reject"]
      BY <1>0, <3>2 DEF TypeOK, MayNotify
    <3> QED BY <2>3, <3>1, <3>2
  <2> QED BY <1>2, <2>2, <2>4 DEF BlocksOK
<1>7. CASE UNCHANGED allVars
  BY <1>3, <1>7 DEF allVars, commentVars
<1> QED BY <1>3, <1>4, <1>5, <1>6, <1>7 DEF CommentsNext, Answers

-----------------------------------------------------------------------------
(* The screens. *)

LEMMA VisibleFacts ==
  ASSUME TypeOK, QueuesOK, NEW d \in Devices, NEW n \in Numbers
  PROVE  n \in Visible(d) <=> Queued(d, n) \/ db[CommentDoc(n)] # NoOne
<1> DEFINE P == PendingOn(d, CommentDoc(n))
<1>1. P = {i \in 1..Len(queue[d]) : queue[d][i].doc = CommentDoc(n)}
  BY DEF PendingOn
<1>2. P # {} <=> Queued(d, n)
  BY <1>1 DEF Queued
<1>3. CASE P = {}
  <2>1. LocalView(d, CommentDoc(n)) = db[CommentDoc(n)]
    BY <1>3 DEF LocalView
  <2> QED BY <1>2, <1>3, <2>1 DEF Visible
<1>4. CASE P # {}
  <2>1. P \subseteq 1..Len(queue[d]) /\ Len(queue[d]) \in Nat
    BY <1>1, TypeFacts
  <2>2. \E i \in P : \A j \in P : j <= i
    BY <1>4, <2>1, LastExists
  <2> DEFINE i == CHOOSE i \in P : \A j \in P : j <= i
  <2>3. i \in P
    BY <2>2
  <2>4. LocalView(d, CommentDoc(n)) = queue[d][i].val
    BY <1>4 DEF LocalView
  <2> HIDE DEF i, P
  <2>5. i \in 1..Len(queue[d])
    BY <1>1, <2>3
  <2>6. queue[d][i].val \in Users
    BY <2>5, TypeFacts DEF CommentWrites
  <2>7. LocalView(d, CommentDoc(n)) # NoOne
    BY <2>4, <2>6, AccountFacts
  <2> QED BY <1>2, <1>4, <2>7 DEF Visible
<1> QED BY <1>3, <1>4

LEMMA LostStays ==
  ASSUME CommentsInv, [CommentsNext]_allVars, NEW d \in Devices, NEW n \in Numbers, Lost(d, n)
  PROVE  Lost(d, n)'
<1>1. n <= written' /\ failed'[d] = "reject"
  <2>1. written <= written' /\ written \in Nat /\ written' \in Nat
    BY Grows, CountKept DEF CommentsInv, CountOK
  <2>2. failed'[d] = "reject"
    BY Grows DEF Lost
  <2> QED BY <2>1, <2>2, NumberFacts DEF Lost
<1>2. Gone(n)'
  BY GoneStays DEF Lost
<1> QED BY <1>1, <1>2 DEF Lost

LEMMA SeenStays ==
  ASSUME CommentsInv, [CommentsNext]_allVars, NEW d \in Devices, NEW n \in Numbers,
         db[CommentDoc(n)] # NoOne \/ Queued(d, n) \/ Lost(d, n)
  PROVE  db'[CommentDoc(n)] # NoOne \/ Queued(d, n)' \/ Lost(d, n)'
<1>1. db[CommentDoc(n)] # NoOne => db'[CommentDoc(n)] # NoOne
  BY Grows, DocFacts
<1> QED BY <1>1, QueuedStays, LostStays

(* Lists without a common element. *)
LEMMA ConcatLists ==
  ASSUME NEW s \in Seq(Numbers), NEW t \in Seq(Numbers)
  PROVE  /\ ToSet(s \o t) = ToSet(s) \cup ToSet(t)
         /\ IsInjective(s) /\ IsInjective(t) /\ ToSet(s) \cap ToSet(t) = {} => IsInjective(s \o t)
<1> DEFINE u == s \o t
<1>1. /\ DOMAIN u = 1..(Len(s) + Len(t)) /\ DOMAIN s = 1..Len(s) /\ DOMAIN t = 1..Len(t)
      /\ Len(s) \in Nat /\ Len(t) \in Nat
  OBVIOUS
<1>2. \A i \in 1..(Len(s) + Len(t)) : u[i] = IF i <= Len(s) THEN s[i] ELSE t[i - Len(s)]
  OBVIOUS
<1> HIDE DEF u
<1>3. ASSUME NEW i \in DOMAIN u
      PROVE  \/ i \in DOMAIN s /\ u[i] = s[i] /\ u[i] \in ToSet(s)
             \/ i - Len(s) \in DOMAIN t /\ u[i] = t[i - Len(s)] /\ u[i] \in ToSet(t)
  <2>1. CASE i <= Len(s)
    <3>1. i \in DOMAIN s /\ u[i] = s[i]
      BY <1>1, <1>2, <2>1
    <3> QED BY <3>1 DEF ToSet
  <2>2. CASE ~(i <= Len(s))
    <3>1. PICK k : k = i - Len(s)
      OBVIOUS
    <3>2. k \in DOMAIN t /\ u[i] = t[k]
      BY <1>1, <1>2, <2>2, <3>1
    <3> QED BY <3>1, <3>2 DEF ToSet
  <2> QED BY <2>1, <2>2
<1>4. ASSUME NEW i \in DOMAIN s PROVE i \in DOMAIN u /\ u[i] = s[i]
  BY <1>1, <1>2
<1>5. ASSUME NEW k \in DOMAIN t PROVE \E i \in DOMAIN u : u[i] = t[k]
  <2>1. PICK i : i = k + Len(s)
    OBVIOUS
  <2>2. i \in DOMAIN u /\ ~(i <= Len(s)) /\ i - Len(s) = k
    BY <1>1, <2>1
  <2> QED BY <1>1, <1>2, <2>2
<1>6. ToSet(u) = ToSet(s) \cup ToSet(t)
  BY <1>3, <1>4, <1>5 DEF ToSet
<1>7. ASSUME IsInjective(s), IsInjective(t), ToSet(s) \cap ToSet(t) = {},
             NEW i \in DOMAIN u, NEW k \in DOMAIN u, u[i] = u[k]
      PROVE  i = k
  <2>1. i \in Int /\ k \in Int /\ Len(s) \in Nat
    BY <1>1
  <2>2. CASE i \in DOMAIN s /\ u[i] = s[i] /\ u[i] \in ToSet(s)
    <3>1. k \in DOMAIN s /\ u[k] = s[k]
      BY <1>3, <1>7, <2>2
    <3> QED BY <1>7, <2>2, <3>1 DEF IsInjective
  <2>3. CASE i - Len(s) \in DOMAIN t /\ u[i] = t[i - Len(s)] /\ u[i] \in ToSet(t)
    <3>1. k - Len(s) \in DOMAIN t /\ u[k] = t[k - Len(s)]
      BY <1>3, <1>7, <2>3
    <3>2. i - Len(s) = k - Len(s)
      BY <1>7, <2>3, <3>1 DEF IsInjective
    <3> QED BY <2>1, <3>2
  <2> QED BY <1>3, <2>2, <2>3
<1>8. IsInjective(s) /\ IsInjective(t) /\ ToSet(s) \cap ToSet(t) = {} => IsInjective(u)
  BY <1>7 DEF IsInjective
<1> QED BY <1>6, <1>8 DEF u

(* What a step does to the screen of a phone. *)
LEMMA ScreenStep ==
  ASSUME TypeOK, [CommentsNext]_allVars, NEW d \in Devices
  PROVE  \/ seen'[d] = seen[d] /\ comments'[d] = comments[d]
         \/ seen'[d] = {} /\ comments'[d] = <<>>
         \/ Snapshot(d)
<1>1. ASSUME NEW e \in Devices, \/ OpenComments(e) \/ TapPost(e) \/ BlockStep(e) \/ Answers(e)
                                \/ Apply(e) \/ Resend(e) \/ UNCHANGED allVars
      PROVE  UNCHANGED <<seen, comments>>
  BY <1>1 DEF OpenComments, TapPost, BlockStep, RunCommentBlock, RunNotifyBlock, Answers,
              AnswerComment, AnswerSilent, Apply, Resend, allVars, commentVars, screenVars
<1>2. ASSUME NEW e \in Devices, Snapshot(e), e # d
      PROVE  seen'[d] = seen[d] /\ comments'[d] = comments[d]
  BY <1>2 DEF Snapshot, TypeOK
<1>3. ASSUME NEW e \in Devices, Crash(e)
      PROVE  \/ seen'[d] = seen[d] /\ comments'[d] = comments[d]
             \/ seen'[d] = {} /\ comments'[d] = <<>>
  <2>1. /\ seen' = [seen EXCEPT ![e] = {}] /\ comments' = [comments EXCEPT ![e] = <<>>]
        /\ DOMAIN seen = Devices /\ DOMAIN comments = Devices
    BY <1>3 DEF Crash, TypeOK
  <2> QED BY <2>1
<1>4. CASE UNCHANGED allVars
  BY <1>4 DEF allVars, commentVars, screenVars
<1> QED BY <1>1, <1>2, <1>3, <1>4 DEF CommentsNext

LEMMA ScreensKept ==
  ASSUME CommentsInv, [CommentsNext]_allVars
  PROVE  ScreensOK'
<1>0. TypeOK /\ TypeOK' /\ QueuesOK
  BY TypeKept DEF CommentsInv
<1> SUFFICES ASSUME NEW d \in Devices
             PROVE  /\ \A n \in seen'[d] : \/ db'[CommentDoc(n)] # NoOne
                                           \/ Queued(d, n)' \/ Lost(d, n)'
                    /\ \A n \in ToSet(comments'[d]) : n \in seen'[d] \/ Lost(d, n)'
                    /\ seen'[d] \subseteq ToSet(comments'[d])
                    /\ IsInjective(comments'[d])
  BY DEF ScreensOK
<1>1. /\ \A n \in seen[d] : db[CommentDoc(n)] # NoOne \/ Queued(d, n) \/ Lost(d, n)
      /\ \A n \in ToSet(comments[d]) : n \in seen[d] \/ Lost(d, n)
      /\ seen[d] \subseteq ToSet(comments[d])
      /\ IsInjective(comments[d])
  BY DEF CommentsInv, ScreensOK
<1>2. /\ seen[d] \subseteq Numbers /\ comments[d] \in Seq(Numbers)
      /\ ToSet(comments[d]) \subseteq Numbers
  <2>1. seen[d] \subseteq Numbers /\ comments[d] \in Seq(Numbers)
    BY <1>0 DEF TypeOK
  <2>2. \A i \in DOMAIN comments[d] : comments[d][i] \in Numbers
    BY <2>1
  <2> QED BY <2>1, <2>2 DEF ToSet
<1>3. CASE seen'[d] = seen[d] /\ comments'[d] = comments[d]
  <2>1. \A n \in seen[d] : db'[CommentDoc(n)] # NoOne \/ Queued(d, n)' \/ Lost(d, n)'
    BY <1>1, <1>2, SeenStays
  <2>2. \A n \in ToSet(comments[d]) : n \in seen[d] \/ Lost(d, n)'
    BY <1>1, <1>2, LostStays
  <2> QED BY <1>1, <1>3, <2>1, <2>2
<1>4. CASE seen'[d] = {} /\ comments'[d] = <<>>
  <2>1. DOMAIN (<<>>) = {}
    OBVIOUS
  <2>2. ToSet(<<>>) = {} /\ IsInjective(<<>>)
    BY <2>1 DEF ToSet, IsInjective
  <2> QED BY <1>4, <2>2
<1>5. CASE Snapshot(d)
  <2>1. PICK found \in SUBSET Visible(d) :
          /\ seen[d] \cap Visible(d) \subseteq found
          /\ seen' = [seen EXCEPT ![d] = found]
          /\ \E added \in NewestFirst(Reported(d, found)) :
               comments' = [comments EXCEPT ![d] = comments[d] \o added]
    BY <1>5 DEF Snapshot
  <2>2. found \subseteq Numbers /\ Reported(d, found) \in SUBSET Numbers
    BY DEF Visible, Reported
  <2>3. PICK added \in Seq(Numbers) :
          /\ comments' = [comments EXCEPT ![d] = comments[d] \o added]
          /\ ToSet(added) = found \ seen[d] /\ IsInjective(added)
    BY <2>1, <2>2, NewestFirstFacts DEF Reported
  <2>4. seen'[d] = found /\ comments'[d] = comments[d] \o added
    BY <1>0, <2>1, <2>3 DEF TypeOK
  <2>5. \A n \in Numbers : n \in Visible(d) <=> Queued(d, n) \/ db[CommentDoc(n)] # NoOne
    BY <1>0, VisibleFacts
  <2>6. \A n \in found : db[CommentDoc(n)] # NoOne \/ Queued(d, n)
    BY <2>2, <2>5
  <2>7. \A n \in seen[d] \ found : Lost(d, n)
    BY <1>1, <1>2, <2>1, <2>5
  <2>8. ToSet(added) \cap ToSet(comments[d]) = {}
    <3>1. ASSUME NEW n \in found \ seen[d] PROVE n \notin ToSet(comments[d])
      <4>1. ~Lost(d, n)
        BY <2>6 DEF Lost, Gone
      <4> QED BY <1>1, <4>1
    <3> QED BY <2>3, <3>1
  <2>9. ToSet(comments'[d]) = ToSet(comments[d]) \cup (found \ seen[d]) /\ IsInjective(comments'[d])
    BY <1>1, <1>2, <2>3, <2>4, <2>8, ConcatLists
  <2>10. \A n \in found : db'[CommentDoc(n)] # NoOne \/ Queued(d, n)' \/ Lost(d, n)'
    BY <2>2, <2>6, SeenStays
  <2>11. \A n \in Numbers : Lost(d, n) => Lost(d, n)'
    BY LostStays
  <2>12. \A n \in ToSet(comments'[d]) : n \in found \/ Lost(d, n)'
    BY <1>1, <1>2, <2>7, <2>9, <2>11
  <2>13. found \subseteq ToSet(comments'[d])
    BY <1>1, <2>9
  <2> QED BY <2>4, <2>9, <2>10, <2>12, <2>13
<1> QED BY <1>0, <1>3, <1>4, <1>5, ScreenStep

-----------------------------------------------------------------------------
(* The theorems. *)

LEMMA CommentsInvariant == CommentsSpec => []CommentsInv
<1>1. ASSUME CommentsInv, [CommentsNext]_allVars PROVE CommentsInv'
  BY <1>1, TypeKept, CountKept, QueuesKept, QueuedOnceKept, DbKept, BlocksKept, ScreensKept
  DEF CommentsInv
<1> QED BY InitInv, <1>1, PTL DEF CommentsSpec

LEMMA ShownWritten ==
  ASSUME CommentsInv, NEW d \in Devices
  PROVE  ToSet(comments[d]) \cup seen[d] \subseteq 1..written
<1>1. \A n \in ToSet(comments[d]) \cup seen[d] :
        db[CommentDoc(n)] # NoOne \/ Queued(d, n) \/ Lost(d, n)
  BY DEF CommentsInv, ScreensOK
<1>2. ToSet(comments[d]) \cup seen[d] \subseteq Numbers
  <2>1. seen[d] \subseteq Numbers /\ comments[d] \in Seq(Numbers)
    BY DEF CommentsInv, TypeOK
  <2>2. \A i \in DOMAIN comments[d] : comments[d][i] \in Numbers
    BY <2>1
  <2> QED BY <2>1, <2>2 DEF ToSet
<1>3. ASSUME NEW n \in Numbers, db[CommentDoc(n)] # NoOne \/ Queued(d, n) \/ Lost(d, n)
      PROVE  n <= written
  BY <1>3 DEF CommentsInv, DbOK, Queued, Lost, QueuesOK, WriteOK
<1>4. written \in Nat
  BY DEF CommentsInv, CountOK
<1> QED BY <1>1, <1>2, <1>3, <1>4, NumberFacts

(* The variables stay in their domains, on any number of phones: no comment is
   shown whose timestamp was not given by a tap on Post. *)
THEOREM CommentsTypeCorrect == CommentsSpec => []CommentsTypeOK
<1>1. ASSUME CommentsInv PROVE CommentsTypeOK
  <2>1. TypeOK /\ CountOK
    BY <1>1 DEF CommentsInv
  <2>2. ASSUME NEW d \in Devices PROVE applied[d] \in 0..Len(queue[d])
    <3>1. Len(queue[d]) \in Nat /\ applied[d] \in Nat /\ applied[d] <= Len(queue[d])
      BY <2>1, TypeFacts
    <3> QED BY <3>1
  <2>3. written \in {0} \cup Numbers
    <3>1. /\ written \in Nat /\ taps \in 0..MaxTaps /\ Cardinality(CommentBlocks) \in Nat
          /\ written + Cardinality(CommentBlocks) <= InitComments + taps
      BY <2>1, FS_CardinalityType DEF CountOK
    <3>2. written <= InitComments + MaxTaps
      BY <3>1, AccountFacts
    <3> QED BY <3>1, <3>2, NumberFacts
  <2>4. \A d \in Devices : ToSet(comments[d]) \cup seen[d] \subseteq 1..written
    BY <1>1, ShownWritten
  <2> QED BY <2>1, <2>2, <2>3, <2>4 DEF CommentsTypeOK, TypeOK
<1> QED BY <1>1, CommentsInvariant, PTL

(* CommentController shows a comment at most once, with every order of
   snapshots, answers, resent writes, refusals and restarts. *)
THEOREM ShownOnceCorrect == CommentsSpec => []ShownOnce
<1>1. CommentsInv => ShownOnce
  BY DEF CommentsInv, ScreensOK, ShownOnce
<1> QED BY <1>1, CommentsInvariant, PTL

(* The completion of uploadComment notifies the owner of the post only of a
   comment that was stored, as long as no write of that user was refused. *)
THEOREM CommentedFirstCorrect == CommentsSpec => []CommentedFirst
<1>1. CommentsInv => CommentedFirst
  BY DEF CommentsInv, DbOK, CommentedFirst
<1> QED BY <1>1, CommentsInvariant, PTL

(* A screen that is up to date shows exactly what is stored, unless a write of
   its phone was refused. *)
THEOREM ShownIsStoredCorrect == CommentsSpec => []ShownIsStored
<1>1. ASSUME CommentsInv, NEW d \in Devices,
             queue[d] = <<>>, seen[d] = Visible(d), failed[d] # "reject"
      PROVE  ToSet(comments[d]) = {n \in Numbers : db[CommentDoc(n)] # NoOne}
  <2>1. ToSet(comments[d]) = Visible(d)
    BY <1>1 DEF CommentsInv, ScreensOK, Lost
  <2>2. \A n \in Numbers : ~Queued(d, n)
    <3>1. Len(queue[d]) = 0
      BY <1>1
    <3> QED BY <3>1 DEF Queued
  <2>3. \A n \in Numbers : n \in Visible(d) <=> db[CommentDoc(n)] # NoOne
    BY <1>1, <2>2, VisibleFacts DEF CommentsInv
  <2> QED BY <2>1, <2>3 DEF Visible
<1>2. CommentsInv => ShownIsStored
  BY <1>1 DEF ShownIsStored
<1> QED BY <1>2, CommentsInvariant, PTL
=============================================================================
