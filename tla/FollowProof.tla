----------------------------- MODULE FollowProof -----------------------------
(***************************************************************************)
(* Proofs about Follow.tla and Stats.tla, for any number of phones, users, *)
(* posts, taps and faults: the types, MirrorAgrees, the refinement of the  *)
(* directory, FollowedFirst, ProfileShowsFollow, and what the number of    *)
(* followers in a header is.                                               *)
(***************************************************************************)
EXTENDS Stats, QueueFacts, FiniteSetTheorems, TLAPS

-----------------------------------------------------------------------------
(* Type correctness. *)

(* What the writes of one feed update are: well-formed, as many as posts. *)
LEMMA FeedWritesType ==
  ASSUME TypeOK, NEW d \in Devices, NEW tap \in Taps,
         NEW s \in SetToSeqs(PostsOf(d, tap.target))
  PROVE  [i \in DOMAIN s |-> FeedWrite(d, tap, s[i])] \in Seq(Writes)
<1> DEFINE S == PostsOf(d, tap.target)
<1>1. S \subseteq Posts
  BY DEF PostsOf
<1>2. Cardinality(S) \in Nat
  BY <1>1, FollowAssumption, FS_Subset, FS_CardinalityType DEF FollowAssumption
<1>3. s \in [1..Cardinality(S) -> S]
  BY DEF SetToSeqs
<1>4. \A p \in Posts : FeedWrite(d, tap, p) \in Writes
  <2>1. Account[d] \in Users
    BY FollowAssumption, PhoneAssumption DEF FollowAssumption, PhoneAssumption
  <2> QED BY <2>1 DEF FeedWrite, Writes, Docs, FeedDoc, Taps
<1> QED BY <1>1, <1>2, <1>3, <1>4

LEMMA InitType == Init => TypeOK
<1> SUFFICES ASSUME Init PROVE TypeOK
  OBVIOUS
<1> USE FollowAssumption, PhoneAssumption DEF FollowAssumption, PhoneAssumption, Init, NoFailures
<1>1. db \in [Docs -> BOOLEAN]
  OBVIOUS
<1>2. queue \in [Devices -> Seq(Writes)]
  OBVIOUS
<1>3. applied \in [Devices -> Nat] /\ \A d \in Devices : applied[d] <= Len(queue[d])
  OBVIOUS
<1>4. taps \in [Devices -> 0..MaxTaps]
  OBVIOUS
<1>5. profile \in [Devices -> [Users -> Profile]]
  BY DEF Closed, Profile
<1>6. rows \in [Devices -> [Users -> Row]]
  BY DEF NoRow, Row
<1> QED BY <1>1, <1>2, <1>3, <1>4, <1>5, <1>6 DEF TypeOK

(* The store's part of the type invariant, which is all the queue operations
   of Firestore.tla touch. *)
StoreOK ==
  /\ db \in [Docs -> BOOLEAN]
  /\ queue \in [Devices -> Seq(Writes)]
  /\ applied \in [Devices -> Nat]
  /\ \A d \in Devices : applied[d] <= Len(queue[d])

LEMMA EnqueueType ==
  ASSUME StoreOK, NEW d \in Devices, NEW w \in Writes, Enqueue(d, w)
  PROVE  StoreOK'
BY DEF StoreOK, Enqueue

LEMMA EnqueueAllType ==
  ASSUME StoreOK, NEW d \in Devices, NEW ws \in Seq(Writes), EnqueueAll(d, ws)
  PROVE  StoreOK'
BY DEF StoreOK, EnqueueAll

(* An answer is for the oldest write, and leaves no more applied than remain. *)
LEMMA AnswerFacts ==
  ASSUME StoreOK, NEW d \in Devices, NEW then, Answer(d, then)
  PROVE  /\ queue[d] \in Seq(Writes)
         /\ queue[d] # <<>>
         /\ Len(queue[d]) \in Nat \ {0}
         /\ Oldest(d) \in Writes
         /\ Tail(queue[d]) \in Seq(Writes)
         /\ Len(Tail(queue[d])) = Len(queue[d]) - 1
         /\ applied' \in [Devices -> Nat]
         /\ applied'[d] <= Len(queue[d]) - 1
         /\ \A e \in Devices \ {d} : applied'[e] = applied[e]
<1>1. queue[d] \in Seq(Writes) /\ queue[d] # <<>>
  BY DEF StoreOK, Answer, Answered, Refused
<1>2. /\ Tail(queue[d]) \in Seq(Writes)
      /\ Len(Tail(queue[d])) = Len(queue[d]) - 1
      /\ Len(queue[d]) \in Nat \ {0}
  BY <1>1, TailFacts
<1>3. /\ applied' \in [Devices -> Nat]
      /\ applied'[d] <= Len(queue[d]) - 1
      /\ \A e \in Devices \ {d} : applied'[e] = applied[e]
  <2>1. CASE Answered(d)
    BY <1>2, <2>1 DEF StoreOK, Answered
  <2>2. CASE Refused(d)
    BY <1>2, <2>2 DEF StoreOK, Refused
  <2> QED BY <2>1, <2>2 DEF Answer
<1>4. Oldest(d) \in Writes
  BY <1>1 DEF Oldest
<1> QED BY <1>1, <1>2, <1>3, <1>4

LEMMA DequeueType ==
  ASSUME StoreOK, NEW d \in Devices, NEW then, Answer(d, then), Dequeue(d), UNCHANGED db
  PROVE  StoreOK'
<1>1. queue' = [queue EXCEPT ![d] = Tail(queue[d])]
  BY DEF Dequeue
<1> QED BY <1>1, AnswerFacts DEF StoreOK

LEMMA DequeueThenEnqueueType ==
  ASSUME StoreOK, NEW d \in Devices, NEW then, NEW w \in Writes,
         Answer(d, then), DequeueThenEnqueue(d, w), UNCHANGED db
  PROVE  StoreOK'
<1>1. queue' = [queue EXCEPT ![d] = Append(Tail(queue[d]), w)]
  BY DEF DequeueThenEnqueue
<1>2. /\ Append(Tail(queue[d]), w) \in Seq(Writes)
      /\ Len(Append(Tail(queue[d]), w)) = Len(queue[d])
  BY AnswerFacts
<1> QED BY <1>1, <1>2, AnswerFacts DEF StoreOK

LEMMA CommitType ==
  ASSUME StoreOK, NEW d \in Devices, Commit(d)
  PROVE  StoreOK'
<1>1. queue[d][applied[d] + 1] \in Writes
  BY DEF StoreOK, Commit
<1>2. db' \in [Docs -> BOOLEAN]
  BY <1>1 DEF StoreOK, Commit, Writes
<1> QED BY <1>2 DEF StoreOK, Commit

LEMMA LoseProcessType ==
  ASSUME StoreOK, NEW d \in Devices, LoseProcess(d)
  PROVE  StoreOK'
<1> DEFINE q == [i \in DOMAIN queue[d] |-> Forgotten(queue[d][i])]
<1>1. \A w \in Writes : Forgotten(w) \in Writes
  BY DEF Forgotten, Writes
<1>2. q \in Seq(Writes) /\ Len(q) = Len(queue[d])
  BY <1>1 DEF StoreOK
<1>3. queue' = [queue EXCEPT ![d] = q] /\ applied' = [applied EXCEPT ![d] = 0] /\ db' = db
  BY DEF LoseProcess
<1> HIDE DEF q
<1> QED BY <1>2, <1>3 DEF StoreOK

(* The rest of the type invariant: the app's part. *)
AppOK ==
  /\ taps \in [Devices -> 0..MaxTaps]
  /\ blocks \subseteq Blocks
  /\ checks \subseteq Devices \X Reads \X Users
  /\ profile \in [Devices -> [Users -> Profile]]
  /\ rows \in [Devices -> [Users -> Row]]
  /\ reloaded \in [Devices -> BOOLEAN]
  /\ loader \in [Devices -> BOOLEAN]
  /\ failed \in [Devices -> {"none", "crash", "reject", "readfail"}]
  /\ wasFollower \subseteq Users \X Users

LEMMA TypeParts == TypeOK <=> StoreOK /\ AppOK
BY DEF TypeOK, StoreOK, AppOK

(* A read returns a Boolean. *)
LEMMA LocalViewType ==
  ASSUME StoreOK, NEW d \in Devices, NEW x \in Docs
  PROVE  LocalView(d, x) \in BOOLEAN
<1>1. CASE PendingOn(d, x) = {}
  BY <1>1 DEF LocalView, StoreOK
<1>2. CASE PendingOn(d, x) # {}
  <2> DEFINE P == PendingOn(d, x)
             last == CHOOSE i \in P : \A j \in P : j <= i
  <2>1. P \subseteq 1..Len(queue[d]) /\ Len(queue[d]) \in Nat
    BY DEF PendingOn, StoreOK
  <2>2. \E i \in P : \A j \in P : j <= i
    BY <1>2, <2>1, LastExists
  <2>3. last \in P
    BY <2>2
  <2>4. queue[d][last] \in Writes
    BY <2>1, <2>3 DEF StoreOK
  <2> QED BY <1>2, <2>4 DEF LocalView, Writes
<1> QED BY <1>1, <1>2

LEMMA FailsType ==
  ASSUME AppOK, NEW d \in Devices, NEW fault, Fails(d, fault)
  PROVE  failed' \in [Devices -> {"none", "crash", "reject", "readfail"}]
BY PhoneAssumption DEF AppOK, Fails, PhoneAssumption

LEMMA DocsType ==
  ASSUME NEW u \in Users, NEW t \in Users
  PROVE  /\ FollowingDoc(u, t) \in Docs
         /\ FollowersDoc(t, u) \in Docs
         /\ NotificationDoc(t, u) \in Docs
BY DEF FollowingDoc, FollowersDoc, NotificationDoc, Docs

LEMMA AccountType == \A d \in Devices : Account[d] \in Users
BY FollowAssumption, PhoneAssumption DEF FollowAssumption, PhoneAssumption

(* Updating one field of what a screen shows. *)
LEMMA ProfileUpdate ==
  ASSUME AppOK, NEW d \in Devices, NEW t \in Users, NEW v \in BOOLEAN
  PROVE  /\ [profile EXCEPT ![d][t].open = v] \in [Devices -> [Users -> Profile]]
         /\ [profile EXCEPT ![d][t].isFollowed = v] \in [Devices -> [Users -> Profile]]
<1>1. profile[d][t] \in Profile
  BY DEF AppOK
<1>2. [profile[d][t] EXCEPT !.open = v] \in Profile
  BY <1>1 DEF Profile
<1>3. [profile[d][t] EXCEPT !.isFollowed = v] \in Profile
  BY <1>1 DEF Profile
<1>4. \A r \in Profile : [profile EXCEPT ![d] = [profile[d] EXCEPT ![t] = r]]
                           \in [Devices -> [Users -> Profile]]
  BY DEF AppOK
<1> QED BY <1>2, <1>3, <1>4

LEMMA CellUpdate ==
  ASSUME AppOK, NEW d \in Devices, NEW t \in Users, NEW v \in BOOLEAN
  PROVE  [rows EXCEPT ![d][t].cell = v] \in [Devices -> [Users -> Row]]
<1>1. rows[d][t] \in Row
  BY DEF AppOK
<1>2. [rows[d][t] EXCEPT !.cell = v] \in Row
  BY <1>1 DEF Row
<1>3. \A r \in Row : [rows EXCEPT ![d] = [rows[d] EXCEPT ![t] = r]]
                       \in [Devices -> [Users -> Row]]
  BY DEF AppOK
<1> QED BY <1>2, <1>3

LEMMA StoreUnchanged == StoreOK /\ UNCHANGED storeVars => StoreOK'
BY DEF StoreOK, storeVars

LEMMA TapType ==
  ASSUME AppOK, NEW d \in Devices, NEW t \in Users, NEW screen \in Screens,
         NEW isFollowed \in BOOLEAN, Tap(d, t, screen, isFollowed)
  PROVE  taps' \in [Devices -> 0..MaxTaps] /\ blocks' \subseteq Blocks
<1> DEFINE tap == [n |-> taps[d] + 1, screen |-> screen, target |-> t, val |-> ~isFollowed]
<1>1. taps[d] \in 0..MaxTaps /\ taps[d] < MaxTaps /\ MaxTaps \in Nat
  BY FollowAssumption DEF Tap, AppOK, FollowAssumption
<1>2. taps' \in [Devices -> 0..MaxTaps]
  BY <1>1 DEF Tap, AppOK
<1>3. tap \in Taps
  BY <1>1 DEF Taps
<1>4. [dev |-> d, kind |-> "follow", tap |-> tap] \in Blocks
  BY <1>3 DEF Blocks
<1> QED BY <1>2, <1>4 DEF Tap, AppOK

(* Every action keeps the variables in their domains. *)
LEMMA StepType == TypeOK /\ [Next]_vars => TypeOK'
<1> SUFFICES ASSUME StoreOK, AppOK, [Next]_vars PROVE StoreOK' /\ AppOK'
  BY DEF TypeOK, StoreOK, AppOK
<1> USE FollowAssumption, PhoneAssumption DEF FollowAssumption, PhoneAssumption
<1>1. ASSUME NEW d \in Devices, UserStep(d) PROVE StoreOK' /\ AppOK'
  <2>1. ASSUME NEW t \in Users, OpenProfile(d, t) PROVE StoreOK' /\ AppOK'
    <3>1. checks' \subseteq Devices \X Reads \X Users
      BY <2>1 DEF OpenProfile, AppOK, Reads, Screens
    <3> QED BY <2>1, <3>1, StoreUnchanged, ProfileUpdate DEF OpenProfile, AppOK
  <2>2. ASSUME NEW t \in Users, TapProfile(d, t) PROVE StoreOK' /\ AppOK'
    <3>1. profile[d][t].isFollowed \in BOOLEAN /\ "profile" \in Screens
      BY DEF AppOK, Profile, Screens
    <3> QED BY <2>2, <3>1, StoreUnchanged, TapType DEF TapProfile, screens, AppOK
  <2>3. ASSUME NEW t \in Users, TapRow(d, t) PROVE StoreOK' /\ AppOK'
    <3>1. rows[d][t].cell \in BOOLEAN /\ "row" \in Screens
      BY DEF AppOK, Row, Screens
    <3> QED BY <2>3, <3>1, StoreUnchanged, TapType DEF TapRow, AppOK
  <2>4. CASE Refresh(d)
    <3>1. [t \in Users |-> NoRow] \in [Users -> Row]
      BY DEF NoRow, Row
    <3>2. checks' \subseteq Devices \X Reads \X Users
      BY <2>4, AccountType DEF Refresh, AppOK, Reads
    <3> QED BY <2>4, <3>1, <3>2, StoreUnchanged DEF Refresh, AppOK
  <2> QED BY <1>1, <2>1, <2>2, <2>3, <2>4 DEF UserStep
<1>2. ASSUME NEW d \in Devices, ReadStep(d) PROVE StoreOK' /\ AppOK'
  <2>1. \A t \in Users : LocalView(d, FollowingDoc(Account[d], t)) \in BOOLEAN
    BY LocalViewType, DocsType
  <2>2. ASSUME NEW t \in Users, ProfileCheckResult(d, t) PROVE StoreOK' /\ AppOK'
    BY <2>1, <2>2, StoreUnchanged, ProfileUpdate DEF ProfileCheckResult, AppOK
  <2>3. ASSUME NEW t \in Users, RowCheckResult(d, t) PROVE StoreOK' /\ AppOK'
    <3>1. rows' \in [Devices -> [Users -> Row]]
      <4> DEFINE list == [x \in Users |->
                            IF x = t THEN LocalView(d, FollowingDoc(Account[d], t))
                                     ELSE rows[d][x].list]
                 new == [x \in Users |-> [listed |-> rows[d][x].listed,
                                          list |-> list[x], cell |-> list[x]]]
      <4>1. \A x \in Users : rows[d][x].listed \in BOOLEAN /\ rows[d][x].list \in BOOLEAN
        BY DEF AppOK, Row
      <4>2. \A x \in Users : list[x] \in BOOLEAN
        BY <2>1, <4>1
      <4>3. new \in [Users -> Row]
        <5> HIDE DEF list
        <5> QED BY <4>1, <4>2 DEF Row
      <4>4. rows' = [rows EXCEPT ![d] = new] \/ rows' = rows
        BY <2>3 DEF RowCheckResult
      <4> HIDE DEF new
      <4> QED BY <4>3, <4>4 DEF AppOK
    <3> QED BY <2>3, <3>1, StoreUnchanged DEF RowCheckResult, AppOK
  <2>4. ASSUME NEW c \in checks, c[1] = d, CheckFails(c) PROVE StoreOK' /\ AppOK'
    <3>1. c[1] \in Devices
      BY <2>4
    <3>2. failed' \in [Devices -> {"none", "crash", "reject", "readfail"}]
      BY <2>4, <3>1, FailsType DEF CheckFails
    <3> QED BY <2>4, <3>2, StoreUnchanged DEF CheckFails, screens, AppOK
  <2>5. CASE NotificationsArrive(d)
    <3>1. [t \in Users |-> [listed |-> t \in Notifiers(d), list |-> FALSE, cell |-> FALSE]]
             \in [Users -> Row]
      BY DEF Row
    <3>2. rows' \in [Devices -> [Users -> Row]]
      BY <2>5, <3>1 DEF NotificationsArrive, AppOK
    <3>3. checks' \subseteq Devices \X Reads \X Users
      BY <2>5 DEF NotificationsArrive, AppOK, Notifiers, Reads, Screens
    <3> QED BY <2>5, <3>2, <3>3, StoreUnchanged DEF NotificationsArrive, AppOK
  <2> QED BY <1>2, <2>2, <2>3, <2>4, <2>5 DEF ReadStep
<1>3. ASSUME NEW d \in Devices, BlockStep(d) PROVE StoreOK' /\ AppOK'
  <2>1. PICK b \in blocks : b.dev = d /\ (RunFollowBlock(b) \/ RunNotifyBlock(b) \/ RunFeedBlock(b))
    BY <1>3 DEF BlockStep
  <2>2. b.dev \in Devices /\ b.tap \in Taps /\ b.tap.target \in Users
        /\ b.tap.val \in BOOLEAN /\ Account[d] \in Users
    BY <2>1 DEF AppOK, Blocks, Taps
  <2>3. CASE RunFollowBlock(b)
    <3>1. [doc |-> FollowingDoc(Account[b.dev], b.tap.target), val |-> b.tap.val,
           then |-> "mirror", tap |-> b.tap] \in Writes
      BY <2>1, <2>2, DocsType DEF Writes
    <3>2. StoreOK'
      BY <2>2, <2>3, <3>1, EnqueueType DEF RunFollowBlock
    <3> QED BY <2>3, <3>2 DEF RunFollowBlock, screens, AppOK
  <2>4. CASE RunNotifyBlock(b)
    <3>1. [doc |-> NotificationDoc(b.tap.target, Account[b.dev]), val |-> TRUE,
           then |-> "none", tap |-> b.tap] \in Writes
      BY <2>1, <2>2, DocsType DEF Writes
    <3>2. StoreOK'
      BY <2>2, <2>4, <3>1, EnqueueType DEF RunNotifyBlock
    <3> QED BY <2>4, <3>2 DEF RunNotifyBlock, screens, AppOK
  <2>5. CASE RunFeedBlock(b)
    <3>1. ASSUME \E s \in SetToSeqs(PostsOf(b.dev, b.tap.target)) :
                   EnqueueAll(b.dev, [i \in DOMAIN s |-> FeedWrite(b.dev, b.tap, s[i])])
          PROVE  StoreOK'
      <4>1. TypeOK
        BY TypeParts
      <4>2. PICK s \in SetToSeqs(PostsOf(b.dev, b.tap.target)) :
              EnqueueAll(b.dev, [i \in DOMAIN s |-> FeedWrite(b.dev, b.tap, s[i])])
        BY <3>1
      <4>3. [i \in DOMAIN s |-> FeedWrite(b.dev, b.tap, s[i])] \in Seq(Writes)
        BY <2>2, <4>1, FeedWritesType
      <4> QED BY <2>2, <4>2, <4>3, EnqueueAllType
    <3>2. UNCHANGED storeVars => StoreOK'
      BY StoreUnchanged
    <3>3. StoreOK'
      BY <2>5, <3>1, <3>2 DEF RunFeedBlock
    <3>4. failed' \in [Devices -> {"none", "crash", "reject", "readfail"}]
      BY <2>2, <2>5, FailsType DEF RunFeedBlock, AppOK
    <3> QED BY <2>5, <3>3, <3>4 DEF RunFeedBlock, screens, AppOK
  <2> QED BY <2>1, <2>3, <2>4, <2>5
<1>4. ASSUME NEW d \in Devices, AnswerAny(d) PROVE StoreOK' /\ AppOK'
  <2>1. ASSUME NEW then, Answer(d, then)
        PROVE  /\ Oldest(d) \in Writes
               /\ failed' \in [Devices -> {"none", "crash", "reject", "readfail"}]
    BY <2>1, AnswerFacts, FailsType DEF Answer, AppOK
  <2>2. CASE AnswerMirror(d)
    <3>1. [Oldest(d) EXCEPT !.doc = FollowersDoc(Oldest(d).tap.target, Account[d]),
                            !.then = "done"] \in Writes
      <4>1. Oldest(d) \in Writes /\ Oldest(d).tap.target \in Users /\ Account[d] \in Users
        BY <2>1, <2>2 DEF AnswerMirror, Writes, Taps
      <4>2. FollowersDoc(Oldest(d).tap.target, Account[d]) \in Docs
        BY <4>1, DocsType
      <4> QED BY <4>1, <4>2 DEF Writes
    <3>2. StoreOK'
      BY <2>2, <3>1, DequeueThenEnqueueType DEF AnswerMirror
    <3> QED BY <2>1, <2>2, <3>2 DEF AnswerMirror, screens, AppOK
  <2>3. CASE AnswerProfile(d)
    <3>1. StoreOK'
      BY <2>3, DequeueType DEF AnswerProfile
    <3>2. Oldest(d).tap \in Taps
      BY <2>1, <2>3 DEF AnswerProfile, Writes
    <3>3. blocks' \subseteq Blocks
      BY <2>3, <3>2 DEF AnswerProfile, AppOK, Blocks
    <3>4. profile' \in [Devices -> [Users -> Profile]]
      <4>1. Oldest(d).tap.target \in Users /\ Oldest(d).tap.val \in BOOLEAN
        BY <3>2 DEF Taps
      <4> QED BY <2>3, <4>1, ProfileUpdate DEF AnswerProfile
    <3> QED BY <2>1, <2>3, <3>1, <3>3, <3>4 DEF AnswerProfile, AppOK
  <2>4. CASE AnswerRow(d)
    <3>1. StoreOK'
      BY <2>4, DequeueType DEF AnswerRow
    <3>2. Oldest(d).tap.target \in Users
      BY <2>1, <2>4 DEF AnswerRow, Writes, Taps
    <3>3. rows' \in [Devices -> [Users -> Row]]
      <4>1. PICK t \in Users :
              rows' = [rows EXCEPT ![d][t].cell = rows[d][t].listed /\ ~@]
        BY <2>4, <3>2 DEF AnswerRow
      <4>2. (rows[d][t].listed /\ ~rows[d][t].cell) \in BOOLEAN
        OBVIOUS
      <4>3. rows' = [rows EXCEPT ![d][t].cell = (rows[d][t].listed /\ ~rows[d][t].cell)]
        BY <4>1
      <4> QED BY <4>2, <4>3, CellUpdate
    <3> QED BY <2>1, <2>4, <3>1, <3>3 DEF AnswerRow, AppOK
  <2>5. CASE AnswerSilent(d)
    <3>1. StoreOK'
      BY <2>5, DequeueType DEF AnswerSilent
    <3> QED BY <2>1, <2>5, <3>1 DEF AnswerSilent, screens, AppOK
  <2> QED BY <1>4, <2>2, <2>3, <2>4, <2>5 DEF AnswerAny
<1>5. ASSUME NEW d \in Devices, Apply(d) PROVE StoreOK' /\ AppOK'
  BY <1>5, CommitType DEF Apply, screens, AppOK
<1>6. ASSUME NEW d \in Devices, Resend(d) PROVE StoreOK' /\ AppOK'
  BY <1>6 DEF Resend, Reopen, followVars, screens, StoreOK, AppOK
<1>7. ASSUME NEW d \in Devices, Crash(d) PROVE StoreOK' /\ AppOK'
  <2>1. StoreOK'
    BY <1>7, LoseProcessType DEF Crash
  <2>2. failed' \in [Devices -> {"none", "crash", "reject", "readfail"}]
    BY <1>7, FailsType DEF Crash
  <2>3. /\ profile' \in [Devices -> [Users -> Profile]]
        /\ rows' \in [Devices -> [Users -> Row]]
    <3>1. [t \in Users |-> Closed] \in [Users -> Profile]
      BY DEF Closed, Profile
    <3>2. [t \in Users |-> NoRow] \in [Users -> Row]
      BY DEF NoRow, Row
    <3> QED BY <1>7, <3>1, <3>2 DEF Crash, AppOK
  <2> QED BY <1>7, <2>1, <2>2, <2>3 DEF Crash, AppOK
<1>8. CASE UNCHANGED vars
  BY <1>8 DEF vars, storeVars, followVars, screens, StoreOK, AppOK
<1> QED BY <1>1, <1>2, <1>3, <1>4, <1>5, <1>6, <1>7, <1>8 DEF Next

(* Whatever the users, the network and the phones do, every variable keeps its
   type: in particular no phone's count of applied writes outgrows its queue. *)
THEOREM TypeCorrect == Spec => []TypeOK
BY InitType, StepType, PTL DEF Spec

-----------------------------------------------------------------------------
(* MirrorAgrees.  It is not inductive alone: an answer can settle a pair only
   because of what the queue held before.  The invariant below follows the
   life of the writes of one pair.  The first writes come to the queue in some
   order, the second writes are queued in the order in which the first are
   answered, and a reopened stream starts over from the front, so the last
   write applied, of either kind, is what is stored. *)

PairInv(d, t) ==
  PairOK("target", "mirror", queue[d], applied[d], t,
         db[FollowingDoc(Account[d], t)], db[FollowersDoc(t, Account[d])])

(* A first write is to the phone's own list, a second one to the list of the
   target, no other write of a sound phone is to either collection, and no
   write is to the pairs of another account. *)
ShapeOf(d, w) ==
  /\ w.then = "mirror" => w.doc = FollowingDoc(Account[d], w.tap.target)
  /\ w.then = "done" => w.doc = FollowersDoc(w.tap.target, Account[d])
  /\ w.then = "none" /\ Sound(d) =>
       \A u, t \in Users : w.doc # FollowingDoc(u, t) /\ w.doc # FollowersDoc(t, u)
  /\ \A u, t \in Users :
       w.doc = FollowingDoc(u, t) \/ w.doc = FollowersDoc(t, u) => u = Account[d]

Shape == \A d \in Devices : \A i \in 1..Len(queue[d]) : ShapeOf(d, queue[d][i])

MirrorInv ==
  /\ TypeOK
  /\ Shape
  /\ \A d \in Devices, t \in Users : Sole(d) /\ Sound(d) => PairInv(d, t)

-----------------------------------------------------------------------------
(* What a step does to the store, seen from the queue of one phone. *)

(* The writes an extension adds are no second writes, and have their shape;
   a first write comes alone. *)
Extends(d) ==
  /\ UNCHANGED <<db, applied, failed>>
  /\ \E q \in Seq(Writes) :
       /\ queue' = [queue EXCEPT ![d] = q]
       /\ Len(queue[d]) <= Len(q)
       /\ \A i \in 1..Len(queue[d]) : q[i] = queue[d][i]
       /\ \A i \in Len(queue[d])+1..Len(q) : q[i].then # "done" /\ ShapeOf(d, q[i])
       /\ \/ Len(q) = Len(queue[d]) + 1
          \/ \A i \in Len(queue[d])+1..Len(q) : q[i].then = "none"

(* An answer to a phone that stays sound, or the end of its soundness. *)
Answers(d) ==
  \/ /\ UNCHANGED <<db, failed>> /\ Answered(d)
     /\ \/ Oldest(d).then # "mirror" /\ Dequeue(d)
        \/ /\ Oldest(d).then = "mirror"
           /\ DequeueThenEnqueue(d, [Oldest(d) EXCEPT
                !.doc = FollowersDoc(Oldest(d).tap.target, Account[d]), !.then = "done"])
  \/ /\ UNCHANGED <<db, applied>>
     /\ Fails(d, "reject")
     /\ queue[d] # <<>>
     /\ \/ Dequeue(d)
        \/ /\ Oldest(d).then = "mirror"
           /\ DequeueThenEnqueue(d, [Oldest(d) EXCEPT
                !.doc = FollowersDoc(Oldest(d).tap.target, Account[d]), !.then = "done"])

(* The five kinds of documents are different, and a document names its pair. *)
LEMMA DocFacts ==
  ASSUME NEW u, NEW t, NEW u2, NEW t2
  PROVE  /\ FollowingDoc(u, t) = FollowingDoc(u2, t2) => u = u2 /\ t = t2
         /\ FollowersDoc(t, u) = FollowersDoc(t2, u2) => u = u2 /\ t = t2
         /\ FollowingDoc(u, t) # FollowersDoc(t2, u2)
         /\ NotificationDoc(t, u) # FollowingDoc(u2, t2)
         /\ NotificationDoc(t, u) # FollowersDoc(t2, u2)
         /\ FeedDoc(u, t) # FollowingDoc(u2, t2)
         /\ FeedDoc(u, t) # FollowersDoc(t2, u2)
BY DEF FollowingDoc, FollowersDoc, NotificationDoc, FeedDoc

LEMMA AppendExtends ==
  ASSUME StoreOK, NEW d \in Devices, NEW w \in Writes, w.then # "done", ShapeOf(d, w),
         queue' = [queue EXCEPT ![d] = Append(queue[d], w)], UNCHANGED <<db, applied, failed>>
  PROVE  Extends(d)
<1> DEFINE q == Append(queue[d], w)
<1>1. queue[d] \in Seq(Writes)
  BY DEF StoreOK
<1>2. /\ q \in Seq(Writes)
      /\ Len(q) = Len(queue[d]) + 1
      /\ \A i \in 1..Len(queue[d]) : q[i] = queue[d][i]
      /\ \A i \in Len(queue[d])+1..Len(q) : q[i] = w
  BY <1>1
<1>3. Len(queue[d]) <= Len(q)
  BY <1>1, <1>2
<1>4. \A i \in Len(queue[d])+1..Len(q) : q[i].then # "done" /\ ShapeOf(d, q[i])
  BY <1>2
<1>5. queue' = [queue EXCEPT ![d] = q]
  OBVIOUS
<1> HIDE DEF q
<1> QED BY <1>2, <1>3, <1>4, <1>5 DEF Extends

LEMMA FollowBlockKind ==
  ASSUME StoreOK, AppOK, NEW b \in blocks, RunFollowBlock(b)
  PROVE  b.dev \in Devices /\ Extends(b.dev)
<1> DEFINE d == b.dev
           w == [doc |-> FollowingDoc(Account[b.dev], b.tap.target),
                 val |-> b.tap.val, then |-> "mirror", tap |-> b.tap]
<1>1. d \in Devices /\ b.tap \in Taps /\ b.tap.target \in Users /\ b.tap.val \in BOOLEAN
      /\ Account[d] \in Users
  BY AccountType DEF AppOK, Blocks, Taps
<1>2. w \in Writes
  BY <1>1, DocsType DEF Writes
<1>3. w.then # "done" /\ ShapeOf(d, w)
  BY DocFacts DEF ShapeOf
<1>4. queue' = [queue EXCEPT ![d] = Append(queue[d], w)] /\ UNCHANGED <<db, applied, failed>>
  BY DEF RunFollowBlock, Enqueue
<1> QED BY <1>1, <1>2, <1>3, <1>4, AppendExtends

LEMMA NotifyBlockKind ==
  ASSUME StoreOK, AppOK, NEW b \in blocks, RunNotifyBlock(b)
  PROVE  b.dev \in Devices /\ Extends(b.dev)
<1> DEFINE d == b.dev
           w == [doc |-> NotificationDoc(b.tap.target, Account[b.dev]),
                 val |-> TRUE, then |-> "none", tap |-> b.tap]
<1>1. d \in Devices /\ b.tap \in Taps /\ b.tap.target \in Users /\ Account[d] \in Users
  BY AccountType DEF AppOK, Blocks, Taps
<1>2. w \in Writes
  BY <1>1, DocsType DEF Writes
<1>3. w.then # "done" /\ ShapeOf(d, w)
  BY DocFacts DEF ShapeOf
<1>4. queue' = [queue EXCEPT ![d] = Append(queue[d], w)] /\ UNCHANGED <<db, applied, failed>>
  BY DEF RunNotifyBlock, Enqueue
<1> QED BY <1>1, <1>2, <1>3, <1>4, AppendExtends

(* A feed update either adds the writes of the posts it finds, or fails and
   adds none. *)
LEMMA FeedBlockKind ==
  ASSUME StoreOK, AppOK, NEW b \in blocks, RunFeedBlock(b)
  PROVE  /\ b.dev \in Devices
         /\ Extends(b.dev) \/ (UNCHANGED storeVars /\ Fails(b.dev, "readfail"))
<1> DEFINE d == b.dev
<1>1. d \in Devices /\ b.tap \in Taps /\ queue[d] \in Seq(Writes)
  BY DEF StoreOK, AppOK, Blocks
<1>2. ASSUME NEW s \in SetToSeqs(PostsOf(b.dev, b.tap.target)), UNCHANGED failed,
             EnqueueAll(b.dev, [i \in DOMAIN s |-> FeedWrite(b.dev, b.tap, s[i])])
      PROVE  Extends(d)
  <2> DEFINE ws == [i \in DOMAIN s |-> FeedWrite(b.dev, b.tap, s[i])]
             q == queue[d] \o ws
  <2>1. ws \in Seq(Writes)
    BY <1>1, TypeParts, FeedWritesType
  <2>2. \A p : FeedWrite(d, b.tap, p).then = "none" /\ ShapeOf(d, FeedWrite(d, b.tap, p))
    BY DocFacts DEF ShapeOf, FeedWrite
  <2>3. \A i \in 1..Len(ws) : ws[i].then = "none" /\ ShapeOf(d, ws[i])
    BY <2>1, <2>2
  <2>4. queue' = [queue EXCEPT ![d] = q]
    BY <1>2 DEF EnqueueAll
  <2> HIDE DEF ws
  <2>5. /\ q \in Seq(Writes) /\ Len(q) = Len(queue[d]) + Len(ws)
        /\ \A i \in 1..Len(queue[d]) : q[i] = queue[d][i]
        /\ \A i \in Len(queue[d])+1..Len(q) : /\ i - Len(queue[d]) \in 1..Len(ws)
                                              /\ q[i] = ws[i - Len(queue[d])]
    BY <1>1, <2>1
  <2>6. Len(queue[d]) <= Len(q)
    BY <1>1, <2>1, <2>5
  <2>7. \A i \in Len(queue[d])+1..Len(q) : q[i].then = "none" /\ ShapeOf(d, q[i])
    BY <2>3, <2>5
  <2>8. UNCHANGED <<db, applied, failed>>
    BY <1>2 DEF EnqueueAll
  <2> HIDE DEF q
  <2> QED BY <2>4, <2>5, <2>6, <2>7, <2>8 DEF Extends
<1> QED BY <1>1, <1>2 DEF RunFeedBlock

LEMMA AnswerKind ==
  ASSUME NEW d \in Devices, AnswerAny(d)
  PROVE  Answers(d)
<1>1. CASE AnswerMirror(d)
  BY <1>1 DEF AnswerMirror, Answer, Refused, Answers
<1>2. CASE AnswerProfile(d)
  BY <1>2 DEF AnswerProfile, Answer, Refused, Answers
<1>3. CASE AnswerRow(d)
  BY <1>3 DEF AnswerRow, Answer, Refused, Answers
<1>4. CASE AnswerSilent(d)
  BY <1>4 DEF AnswerSilent, Answer, Refused, Answers
<1> QED BY <1>1, <1>2, <1>3, <1>4 DEF AnswerAny

(* Every step, as far as the mirror is concerned. *)
StoreStep ==
  \/ /\ UNCHANGED storeVars
     /\ UNCHANGED failed \/ \E d \in Devices : Fails(d, "readfail")
  \/ \E d \in Devices : Extends(d) \/ Answers(d)
  \/ \E d \in Devices : (Commit(d) \/ Reopen(d)) /\ UNCHANGED failed
  \/ \E d \in Devices : LoseProcess(d) /\ Fails(d, "crash")

LEMMA StepKind ==
  ASSUME TypeOK, [Next]_vars
  PROVE  StoreStep
<1> USE TypeParts
<1>1. ASSUME NEW d \in Devices, UserStep(d) PROVE StoreStep
  BY <1>1 DEF UserStep, OpenProfile, TapProfile, TapRow, Refresh, StoreStep
<1>2. ASSUME NEW d \in Devices, ReadStep(d) PROVE StoreStep
  BY <1>2 DEF ReadStep, NotificationsArrive, ProfileCheckResult, RowCheckResult, CheckFails, StoreStep
<1>3. ASSUME NEW d \in Devices, BlockStep(d) PROVE StoreStep
  <2>1. PICK b \in blocks : b.dev = d /\ (RunFollowBlock(b) \/ RunNotifyBlock(b) \/ RunFeedBlock(b))
    BY <1>3 DEF BlockStep
  <2> QED BY <2>1, FollowBlockKind, NotifyBlockKind, FeedBlockKind DEF StoreStep
<1>4. ASSUME NEW d \in Devices, AnswerAny(d) PROVE StoreStep
  BY <1>4, AnswerKind DEF StoreStep
<1>5. ASSUME NEW d \in Devices, Apply(d) \/ Resend(d) PROVE StoreStep
  BY <1>5 DEF Apply, Resend, followVars, StoreStep
<1>6. ASSUME NEW d \in Devices, Crash(d) PROVE StoreStep
  BY <1>6 DEF Crash, StoreStep
<1>7. CASE UNCHANGED vars
  BY <1>7 DEF vars, followVars, StoreStep
<1> QED BY <1>1, <1>2, <1>3, <1>4, <1>5, <1>6, <1>7 DEF Next

-----------------------------------------------------------------------------
(* MirrorInv is inductive. *)

LEMMA InitPairs ==
  ASSUME Init, NEW d \in Devices, NEW t \in Users
  PROVE  PairInv(d, t)
<1>1. TypeOK
  BY InitType
<1>2. queue[d] = <<>> /\ applied[d] = 0 /\ Len(queue[d]) = 0
  BY DEF Init
<1> DEFINE u == Account[d]
<1>3. u \in Users
  BY AccountType
<1> DEFINE x == FollowingDoc(u, t)
           y == FollowersDoc(t, u)
<1>4. x \in Docs /\ x[1] = "following" /\ x[2] = u /\ x[3] = t
  BY <1>3, DocsType DEF FollowingDoc
<1>5. y \in Docs /\ y[1] = "followers" /\ y[2] = t /\ y[3] = u
  BY <1>3, DocsType DEF FollowersDoc
<1> HIDE DEF x, y
<1>6. db[x] <=> <<u, t>> \in InitFollows
  BY <1>4 DEF Init
<1>7. db[y] <=> <<u, t>> \in InitFollows
  BY <1>5 DEF Init
<1>8. db[x] = db[y]
  BY <1>1, <1>4, <1>5, <1>6, <1>7 DEF TypeOK
<1> QED BY <1>2, <1>8 DEF PairInv, PairOK, FirstStored, SecondStored, SecondWillAgree, x, y

LEMMA InitMirror == Init => MirrorInv
<1> SUFFICES ASSUME Init PROVE MirrorInv
  OBVIOUS
<1>1. Shape
  BY DEF Init, Shape
<1> QED BY <1>1, InitType, InitPairs DEF MirrorInv

(* A step of phone d keeps the pairs of a phone e that stays sound, unless d has
   writes of the same account. *)
Apart(d, e) == Account[d] = Account[e] => d = e \/ queue[d] = <<>>

Kept(d, e, t) == PairInv(e, t) /\ Sound(e)' /\ Apart(d, e)

PairsKept(d) == \A e \in Devices, t \in Users : Kept(d, e, t) => PairInv(e, t)'

(* The shape of a write already queued does not change. *)
LEMMA ShapeStays ==
  ASSUME NEW d \in Devices, NEW w, ShapeOf(d, w), Sound(d)' => Sound(d)
  PROVE  ShapeOf(d, w)'
BY DEF ShapeOf

LEMMA ExtendsKeeps ==
  ASSUME MirrorInv, NEW d \in Devices, Extends(d)
  PROVE  /\ Shape'
         /\ PairsKept(d)
<1>1. PICK q \in Seq(Writes) :
        /\ queue' = [queue EXCEPT ![d] = q]
        /\ Len(queue[d]) <= Len(q)
        /\ \A i \in 1..Len(queue[d]) : q[i] = queue[d][i]
        /\ \A i \in Len(queue[d])+1..Len(q) : q[i].then # "done" /\ ShapeOf(d, q[i])
  BY DEF Extends
<1>2. UNCHANGED <<db, applied, failed>> /\ \A e \in Devices : Sound(e)' = Sound(e)
  BY DEF Extends, Sound
<1>3. /\ \A e \in Devices : queue[e] \in Seq(Writes) /\ applied[e] \in Nat
                             /\ applied[e] <= Len(queue[e])
      /\ queue'[d] = q /\ \A e \in Devices \ {d} : queue'[e] = queue[e]
  BY <1>1 DEF MirrorInv, TypeOK
<1>4. ASSUME NEW e \in Devices, NEW i \in 1..Len(queue'[e]) PROVE ShapeOf(e, queue'[e][i])
  <2>1. CASE e = d
    <3>1. i \in 1..Len(queue[d]) \/ i \in Len(queue[d])+1..Len(q)
      BY <1>3, <1>4, <2>1
    <3> QED BY <1>1, <1>3, <2>1, <3>1 DEF MirrorInv, Shape
  <2>2. CASE e # d
    BY <1>3, <1>4, <2>2 DEF MirrorInv, Shape
  <2> QED BY <2>1, <2>2
<1>5. Shape'
  BY <1>2, <1>4, ShapeStays DEF Shape
<1>6. ASSUME NEW e \in Devices, NEW t \in Users, Kept(d, e, t) PROVE PairInv(e, t)'
  <2>1. PairInv(e, t)
    BY <1>6 DEF Kept
  <2>2. CASE e = d
    <3> DEFINE old == queue[d]
               first == db[FollowingDoc(Account[d], t)]
               second == db[FollowersDoc(t, Account[d])]
    <3>1. old \in Seq(Writes) /\ applied[d] \in Nat /\ applied[d] <= Len(old)
          /\ PairOK("target", "mirror", old, applied[d], t, first, second)
      BY <1>3, <2>1, <2>2 DEF PairInv
    <3>2. /\ Len(old) <= Len(q) /\ \A i \in 1..Len(old) : q[i] = old[i]
          /\ \A i \in Len(old)+1..Len(q) : q[i].then # "done"
      BY <1>1
    <3> HIDE DEF old, first, second
    <3>3. PairOK("target", "mirror", q, applied[d], t, first, second)
      BY <3>1, <3>2, ExtendPair
    <3> QED BY <1>2, <1>3, <2>2, <3>3 DEF PairInv, first, second
  <2>3. CASE e # d
    BY <1>2, <1>3, <2>1, <2>3 DEF PairInv
  <2> QED BY <2>2, <2>3
<1> QED BY <1>5, <1>6 DEF PairsKept

LEMMA AnswersKeeps ==
  ASSUME MirrorInv, NEW d \in Devices, Answers(d)
  PROVE  /\ Shape'
         /\ PairsKept(d)
<1> DEFINE w == [Oldest(d) EXCEPT
             !.doc = FollowersDoc(Oldest(d).tap.target, Account[d]), !.then = "done"]
<1>1. /\ queue[d] \in Seq(Writes) /\ queue[d] # <<>> /\ Len(queue[d]) \in Nat \ {0}
      /\ Oldest(d) = queue[d][1] /\ queue[d][1] \in Writes
      /\ applied \in [Devices -> Nat] /\ applied[d] <= Len(queue[d])
  BY DEF MirrorInv, TypeOK, Answers, Answered, Oldest
<1>2. /\ Tail(queue[d]) \in Seq(Writes) /\ Len(Tail(queue[d])) = Len(queue[d]) - 1
      /\ \A i \in 1..Len(queue[d])-1 : Tail(queue[d])[i] = queue[d][i + 1]
  BY <1>1, TailFacts
<1>3. Oldest(d).then = "mirror" =>
        /\ w \in Writes /\ w.then = "done" /\ w.val = Oldest(d).val
        /\ w.tap.target = Oldest(d).tap.target /\ ShapeOf(d, w)
  <2>1. Oldest(d).tap.target \in Users /\ Account[d] \in Users
    BY <1>1, AccountType DEF Writes, Taps
  <2>2. w \in Writes /\ w.then = "done" /\ w.val = Oldest(d).val
        /\ w.tap.target = Oldest(d).tap.target
        /\ w.doc = FollowersDoc(Oldest(d).tap.target, Account[d])
    BY <1>1, <2>1, DocsType DEF Writes
  <2> HIDE DEF w
  <2> QED BY <2>2, DocFacts DEF ShapeOf
<1> HIDE DEF w
<1>4. /\ db' = db
      /\ \/ queue' = [queue EXCEPT ![d] = Tail(queue[d])]
         \/ /\ Oldest(d).then = "mirror"
            /\ queue' = [queue EXCEPT ![d] = Append(Tail(queue[d]), w)]
      /\ \A e \in Devices : Sound(e)' => Sound(e)
  <2>1. Sound(d)' => Sound(d)
    BY DEF Answers, Fails, Sound, MirrorInv, TypeOK
  <2>2. \A e \in Devices \ {d} : Sound(e)' => Sound(e)
    BY DEF Answers, Fails, Sound, MirrorInv, TypeOK
  <2> QED BY <2>1, <2>2 DEF Answers, Dequeue, DequeueThenEnqueue, w
<1>5. \A e \in Devices \ {d} : queue'[e] = queue[e]
  BY <1>4 DEF MirrorInv, TypeOK
<1>6. ASSUME NEW i \in 1..Len(queue'[d]) PROVE ShapeOf(d, queue'[d][i])
  <2>1. CASE queue'[d] = Tail(queue[d])
    BY <1>1, <1>2, <1>6, <2>1 DEF MirrorInv, Shape
  <2>2. CASE Oldest(d).then = "mirror" /\ queue'[d] = Append(Tail(queue[d]), w)
    <3>1. i \in 1..Len(queue[d])-1 \/ i = Len(queue[d])
      BY <1>1, <1>2, <1>3, <1>6, <2>2
    <3>2. CASE i = Len(queue[d])
      <4>1. queue'[d][i] = w
        BY <1>2, <1>3, <2>2, <3>2
      <4> QED BY <1>3, <2>2, <4>1
    <3>3. CASE i \in 1..Len(queue[d])-1
      <4>1. queue'[d][i] = queue[d][i + 1] /\ i + 1 \in 1..Len(queue[d])
        BY <1>1, <1>2, <1>3, <2>2, <3>3
      <4> QED BY <4>1 DEF MirrorInv, Shape
    <3> QED BY <3>1, <3>2, <3>3
  <2> QED BY <1>4, <2>1, <2>2 DEF MirrorInv, TypeOK
<1>7. Shape'
  BY <1>4, <1>5, <1>6, ShapeStays DEF Shape, MirrorInv
<1>8. ASSUME NEW t \in Users, Kept(d, d, t) PROVE PairInv(d, t)'
  <2>1. /\ Answered(d)
        /\ \/ Oldest(d).then # "mirror" /\ queue'[d] = Tail(queue[d])
           \/ Oldest(d).then = "mirror" /\ queue'[d] = Append(Tail(queue[d]), w)
    BY <1>8 DEF Kept, Answers, Fails, Sound, Dequeue, DequeueThenEnqueue, w, MirrorInv, TypeOK
  <2>2. applied[d] \in Nat \ {0} /\ applied'[d] = applied[d] - 1
    BY <1>1, <2>1 DEF Answered
  <2>3. PairInv(d, t)
    BY <1>8 DEF Kept
  <2>4. CASE Oldest(d).then # "mirror" /\ queue'[d] = Tail(queue[d])
    <3> DEFINE q == Tail(queue[d])
               first == db[FollowingDoc(Account[d], t)]
               second == db[FollowersDoc(t, Account[d])]
    <3>1. q \in Seq(Writes) /\ Len(q) = Len(queue[d]) - 1 /\ q = queue'[d]
          /\ \A i \in 1..Len(q) : q[i] = queue[d][i + 1]
      BY <1>2, <2>4
    <3>2. PairOK("target", "mirror", queue[d], applied[d], t, first, second)
      BY <2>3 DEF PairInv
    <3> HIDE DEF q, first, second
    <3>3. PairOK("target", "mirror", q, applied[d] - 1, t, first, second)
      BY <1>1, <2>2, <2>4, <3>1, <3>2, AnswerPair
    <3> QED BY <1>4, <2>2, <3>1, <3>3 DEF PairInv, first, second
  <2>5. CASE Oldest(d).then = "mirror" /\ queue'[d] = Append(Tail(queue[d]), w)
    <3> DEFINE q == Append(Tail(queue[d]), w)
    <3>1. /\ q \in Seq(Writes) /\ Len(q) = Len(queue[d])
          /\ \A i \in 1..Len(queue[d])-1 : q[i] = queue[d][i + 1]
          /\ q[Len(queue[d])] = w
      BY <1>1, <1>2, <1>3, <2>5
    <3>2. q = queue'[d]
      BY <2>5
    <3> DEFINE first == db[FollowingDoc(Account[d], t)]
               second == db[FollowersDoc(t, Account[d])]
    <3>3. PairOK("target", "mirror", queue[d], applied[d], t, first, second)
      BY <2>3 DEF PairInv
    <3> HIDE DEF q, first, second
    <3>4. PairOK("target", "mirror", q, applied[d] - 1, t, first, second)
      BY <1>1, <1>3, <2>2, <2>5, <3>1, <3>3, MirrorPair
    <3> QED BY <1>4, <2>2, <3>2, <3>4 DEF PairInv, first, second
  <2> QED BY <2>1, <2>4, <2>5
<1>9. ASSUME NEW e \in Devices, e # d, NEW t \in Users, Kept(d, e, t) PROVE PairInv(e, t)'
  <2>1. applied'[e] = applied[e]
    BY <1>1, <1>9 DEF Answers, Answered
  <2>2. PairInv(e, t)
    BY <1>9 DEF Kept
  <2> QED BY <1>4, <1>5, <1>9, <2>1, <2>2 DEF PairInv
<1> QED BY <1>7, <1>8, <1>9 DEF PairsKept

LEMMA CommitKeeps ==
  ASSUME MirrorInv, NEW d \in Devices, Commit(d), UNCHANGED failed
  PROVE  /\ Shape'
         /\ PairsKept(d)
<1> DEFINE w == queue[d][applied[d] + 1]
<1>1. /\ queue[d] \in Seq(Writes) /\ applied[d] \in Nat /\ applied[d] < Len(queue[d])
      /\ w \in Writes /\ ShapeOf(d, w)
      /\ db \in [Docs -> BOOLEAN] /\ db' = [db EXCEPT ![w.doc] = w.val]
      /\ queue' = queue /\ applied' = [applied EXCEPT ![d] = applied[d] + 1]
      /\ applied \in [Devices -> Nat]
  <2>1. queue[d] \in Seq(Writes) /\ applied[d] \in Nat /\ applied[d] < Len(queue[d])
    BY DEF MirrorInv, TypeOK, Commit
  <2>2. w \in Writes /\ ShapeOf(d, w)
    BY <2>1 DEF MirrorInv, Shape
  <2>3. db \in [Docs -> BOOLEAN] /\ db' = [db EXCEPT ![w.doc] = w.val]
    BY DEF MirrorInv, TypeOK, Commit
  <2>4. /\ queue' = queue /\ applied' = [applied EXCEPT ![d] = applied[d] + 1]
        /\ applied \in [Devices -> Nat]
    BY DEF MirrorInv, TypeOK, Commit
  <2> QED BY <2>1, <2>2, <2>3, <2>4
<1> HIDE DEF w
<1>2. \A e \in Devices : Sound(e)' = Sound(e)
  BY DEF Sound
<1>3. Shape'
  BY <1>1, <1>2, ShapeStays DEF Shape, MirrorInv
<1>4. ASSUME NEW e \in Devices, NEW t \in Users, Kept(d, e, t) PROVE PairInv(e, t)'
  <2> DEFINE x == FollowingDoc(Account[e], t)
             y == FollowersDoc(t, Account[e])
  <2>1. PairInv(e, t) /\ Account[e] \in Users /\ x \in Docs /\ y \in Docs /\ Sound(e)
    BY <1>2, <1>4, AccountType, DocsType DEF Kept
  <2>2. CASE e # d
    <3>1. w.doc # x /\ w.doc # y
      <4>1. Account[d] # Account[e]
        BY <1>1, <1>4, <2>2 DEF Kept, Apart
      <4> QED BY <1>1, <2>1, <4>1 DEF ShapeOf
    <3>2. db'[x] = db[x] /\ db'[y] = db[y]
      BY <1>1, <2>1, <3>1
    <3> QED BY <1>1, <2>1, <2>2, <3>2 DEF PairInv
  <2>3. CASE e = d
    <3>1. db'[x] = IF Awaits("target", w, "mirror", t) THEN w.val ELSE db[x]
      <4>1. w.doc = x <=> Awaits("target", w, "mirror", t)
        BY <1>1, <2>1, <2>3, DocFacts DEF ShapeOf, Awaits, Writes
      <4> QED BY <1>1, <2>1, <4>1
    <3>2. db'[y] = IF Awaits("target", w, "done", t) THEN w.val ELSE db[y]
      <4>1. w.doc = y <=> Awaits("target", w, "done", t)
        BY <1>1, <2>1, <2>3, DocFacts DEF ShapeOf, Awaits, Writes
      <4> QED BY <1>1, <2>1, <4>1
    <3>3. PairOK("target", "mirror", queue[d], applied[d], t, db[x], db[y])
      BY <2>1, <2>3 DEF PairInv
    <3> HIDE DEF x, y
    <3>4. PairOK("target", "mirror", queue[d], applied[d] + 1, t, db'[x], db'[y])
      BY <1>1, <3>1, <3>2, <3>3, CommitPair DEF w
    <3> QED BY <1>1, <2>3, <3>4 DEF PairInv, x, y
  <2> QED BY <2>2, <2>3
<1> QED BY <1>3, <1>4 DEF PairsKept

LEMMA ReopenKeeps ==
  ASSUME MirrorInv, NEW d \in Devices, Reopen(d), UNCHANGED failed
  PROVE  /\ Shape'
         /\ PairsKept(d)
<1>1. \A e \in Devices : Sound(e)' = Sound(e)
  BY DEF Sound
<1>2. queue' = queue /\ db' = db
      /\ \A e \in Devices : applied'[e] = IF e = d THEN 0 ELSE applied[e]
  BY DEF Reopen, MirrorInv, TypeOK
<1>3. Shape'
  BY <1>1, <1>2, ShapeStays DEF Shape, MirrorInv
<1>4. ASSUME NEW e \in Devices, NEW t \in Users, Kept(d, e, t) PROVE PairInv(e, t)'
  <2>1. PairInv(e, t)
    BY <1>4 DEF Kept
  <2> QED BY <1>2, <2>1, RestartPair DEF PairInv
<1> QED BY <1>3, <1>4 DEF PairsKept

(* The process dies: its phone is not sound any more, and the writes it leaves
   behind still are to the pairs of its account. *)
LEMMA LoseProcessKeeps ==
  ASSUME MirrorInv, NEW d \in Devices, LoseProcess(d), Fails(d, "crash")
  PROVE  /\ Shape'
         /\ PairsKept(d)
<1>1. ~Sound(d)' /\ \A e \in Devices \ {d} : Sound(e)' = Sound(e)
  BY DEF Fails, Sound, MirrorInv, TypeOK
<1>2. /\ db' = db
      /\ queue'[d] = [i \in DOMAIN queue[d] |-> Forgotten(queue[d][i])]
      /\ \A e \in Devices \ {d} : queue'[e] = queue[e] /\ applied'[e] = applied[e]
      /\ queue[d] \in Seq(Writes)
  BY DEF LoseProcess, MirrorInv, TypeOK
<1>3. ASSUME NEW i \in 1..Len(queue'[d]), NEW w, w = queue'[d][i] PROVE ShapeOf(d, w)'
  <2>1. i \in 1..Len(queue[d]) /\ w = Forgotten(queue[d][i]) /\ queue[d][i] \in Writes
    BY <1>2, <1>3
  <2>2. ShapeOf(d, queue[d][i])
    BY <2>1 DEF MirrorInv, Shape
  <2>3. w.then = "none" /\ w.doc = queue[d][i].doc
    BY <2>1 DEF Forgotten, Writes
  <2> QED BY <1>1, <2>2, <2>3 DEF ShapeOf
<1>4. ASSUME NEW e \in Devices, e # d, NEW i \in 1..Len(queue'[e]), NEW w, w = queue'[e][i]
      PROVE  ShapeOf(e, w)'
  <2>1. ShapeOf(e, w) /\ Sound(e)' = Sound(e)
    BY <1>1, <1>2, <1>4 DEF MirrorInv, Shape
  <2> QED BY <2>1, ShapeStays
<1>5. Shape'
  BY <1>3, <1>4 DEF Shape
<1>6. ASSUME NEW e \in Devices, NEW t \in Users, Kept(d, e, t) PROVE PairInv(e, t)'
  BY <1>1, <1>2, <1>6 DEF Kept, PairInv
<1> QED BY <1>5, <1>6 DEF PairsKept

(* Every step keeps the pairs of a phone that stays sound, if no other phone has
   writes of its account. *)
LEMMA StepKeeps ==
  ASSUME MirrorInv, StoreStep
  PROVE  /\ Shape'
         /\ \A e \in Devices : Sound(e)' => Sound(e)
         /\ \A e \in Devices, t \in Users :
              PairInv(e, t) /\ Sound(e)' /\ (\A d \in Devices : Apart(d, e)) => PairInv(e, t)'
<1>1. CASE UNCHANGED storeVars /\ (UNCHANGED failed \/ \E d \in Devices : Fails(d, "readfail"))
  <2>1. \A e \in Devices : Sound(e)' => Sound(e)
    BY <1>1 DEF Fails, Sound, MirrorInv, TypeOK
  <2>2. Shape'
    BY <1>1, <2>1, ShapeStays DEF storeVars, Shape, MirrorInv
  <2>3. ASSUME NEW e \in Devices, NEW t \in Users, PairInv(e, t) PROVE PairInv(e, t)'
    BY <1>1, <2>3 DEF storeVars, PairInv
  <2> QED BY <2>1, <2>2, <2>3
<1>2. ASSUME NEW d \in Devices, Extends(d) \/ Answers(d) \/ Commit(d) \/ Reopen(d) \/ LoseProcess(d),
             UNCHANGED failed \/ Fails(d, "reject") \/ Fails(d, "crash"), Shape', PairsKept(d)
      PROVE  /\ Shape'
             /\ \A e \in Devices : Sound(e)' => Sound(e)
             /\ \A e \in Devices, t \in Users :
                  PairInv(e, t) /\ Sound(e)' /\ (\A f \in Devices : Apart(f, e)) => PairInv(e, t)'
  <2>1. \A e \in Devices : Sound(e)' => Sound(e)
    BY <1>2 DEF Fails, Sound, MirrorInv, TypeOK
  <2> QED BY <1>2, <2>1 DEF PairsKept, Kept
<1>3. ASSUME NEW d \in Devices, Extends(d) PROVE UNCHANGED failed
  BY <1>3 DEF Extends
<1>4. ASSUME NEW d \in Devices, Answers(d) PROVE UNCHANGED failed \/ Fails(d, "reject")
  BY <1>4 DEF Answers
<1>5. CASE \E d \in Devices : Extends(d) \/ Answers(d)
  BY <1>2, <1>3, <1>4, <1>5, ExtendsKeeps, AnswersKeeps
<1>6. CASE \E d \in Devices : (Commit(d) \/ Reopen(d)) /\ UNCHANGED failed
  BY <1>2, <1>6, CommitKeeps, ReopenKeeps
<1>7. CASE \E d \in Devices : LoseProcess(d) /\ Fails(d, "crash")
  BY <1>2, <1>7, LoseProcessKeeps
<1> QED BY <1>1, <1>5, <1>6, <1>7 DEF StoreStep

LEMMA StepMirror == MirrorInv /\ [Next]_vars => MirrorInv'
<1> SUFFICES ASSUME MirrorInv, [Next]_vars PROVE MirrorInv'
  OBVIOUS
<1>1. TypeOK'
  BY StepType DEF MirrorInv
<1>2. StoreStep
  BY StepKind DEF MirrorInv
<1>3. ASSUME NEW e \in Devices, NEW t \in Users, Sole(e), Sound(e)' PROVE PairInv(e, t)'
  <2>1. PairInv(e, t) /\ \A d \in Devices : Apart(d, e)
    BY <1>2, <1>3, StepKeeps DEF MirrorInv, Sole, Apart
  <2> QED BY <1>2, <1>3, <2>1, StepKeeps
<1> QED BY <1>1, <1>2, <1>3, StepKeeps DEF MirrorInv, Sole

LEMMA MirrorInvAgrees == MirrorInv => MirrorAgrees
BY DEF MirrorInv, MirrorAgrees, PairInv, PairOK, SecondWillAgree, Writing, Awaits

(* For every number of phones, users and taps, and every interleaving of their
   blocks, writes, answers, resent pipelines and faults: when the follow writes
   of a pair are all answered, its two documents agree. *)
THEOREM MirrorCorrect == Spec => []MirrorAgrees
<1>1. Spec => []MirrorInv
  BY InitMirror, StepMirror, PTL DEF Spec
<1> QED BY <1>1, MirrorInvAgrees, PTL

-----------------------------------------------------------------------------
(* Following implements the directory.  Each kind of step is a step of the
   directory, or none: what is shown below of the pairs in the two collections,
   of those being written, and of those nobody will finish. *)

Firsts  == [x \in PairList |-> db[FollowingDoc(x[1], x[2])]]
Seconds == [x \in PairList |-> db[FollowersDoc(x[2], x[1])]]

WrittenPairs == {x \in PairList : \E d \in Devices : Account[d] = x[1] /\ Writing(d, x[2])}
BusyPairs    == LostPairs \cup WrittenPairs

DirStep == Dir!Next \/ UNCHANGED <<Firsts, Seconds, BusyPairs, LostPairs>>

LEMMA SameDocs == UNCHANGED db => UNCHANGED <<Firsts, Seconds>>
BY DEF Firsts, Seconds

LEMMA SameLost ==
  ASSUME \A d \in Devices : Sound(d)' = Sound(d)
  PROVE  LostPairs' = LostPairs
BY DEF LostPairs, Sole

LEMMA SameWritten ==
  ASSUME \A d \in Devices, t \in Users : Writing(d, t)' <=> Writing(d, t)
  PROVE  WrittenPairs' = WrittenPairs
BY DEF WrittenPairs, PairList

(* A phone that died or had a write refused abandons the pairs of its account. *)
LEMMA AbandonStep ==
  ASSUME TypeOK, NEW d \in Devices, NEW fault \in {"crash", "reject"}, Fails(d, fault),
         UNCHANGED db, \A e \in Devices \ {d} : queue'[e] = queue[e]
  PROVE  Dir!Next
<1> DEFINE S == {x \in PairList : x[1] = Account[d]}
<1>1. ~Sound(d)' /\ \A e \in Devices \ {d} : Sound(e)' = Sound(e)
  BY DEF Fails, Sound, TypeOK
<1>2. LostPairs' = LostPairs \cup S
  <2>1. ASSUME NEW x \in PairList PROVE x \in LostPairs' <=> x \in LostPairs \/ x \in S
    BY <1>1 DEF LostPairs, Sole
  <2> QED BY <2>1 DEF LostPairs
<1>3. \A e \in Devices \ {d}, t \in Users : Writing(e, t)' <=> Writing(e, t)
  BY DEF Writing
<1>4. WrittenPairs' \cup S = WrittenPairs \cup S
  <2>1. ASSUME NEW x \in PairList, x \notin S PROVE x \in WrittenPairs' <=> x \in WrittenPairs
    <3>1. x[2] \in Users
      BY DEF PairList
    <3> QED BY <1>3, <2>1, <3>1 DEF WrittenPairs
  <2> QED BY <2>1 DEF WrittenPairs
<1>5. BusyPairs' = BusyPairs \cup S
  BY <1>2, <1>4 DEF BusyPairs
<1>6. S \in SUBSET PairList
  OBVIOUS
<1> HIDE DEF S
<1>7. Dir!Abandon(S)
  BY <1>2, <1>5, SameDocs DEF Dir!Abandon, BusyPairs, WrittenPairs, Firsts, Seconds
<1> QED BY <1>6, <1>7 DEF Dir!Next

LEMMA StutterStep ==
  ASSUME UNCHANGED <<db, WrittenPairs>>, \A d \in Devices : Sound(d)' = Sound(d)
  PROVE  DirStep
BY SameDocs, SameLost DEF DirStep, BusyPairs

(* A tap's first write enters the queue: the pair is busy from then on. *)
LEMMA ExtendsStep ==
  ASSUME TypeOK, NEW d \in Devices, Extends(d)
  PROVE  DirStep
<1>1. PICK q \in Seq(Writes) :
        /\ queue' = [queue EXCEPT ![d] = q]
        /\ Len(queue[d]) <= Len(q)
        /\ \A i \in 1..Len(queue[d]) : q[i] = queue[d][i]
        /\ \/ Len(q) = Len(queue[d]) + 1
           \/ \A i \in Len(queue[d])+1..Len(q) : q[i].then = "none"
  BY DEF Extends
<1>2. /\ UNCHANGED db /\ \A e \in Devices : Sound(e)' = Sound(e)
      /\ queue'[d] = q /\ \A e \in Devices \ {d} : queue'[e] = queue[e]
      /\ Len(q) \in Nat /\ Len(queue[d]) \in Nat
  BY <1>1 DEF Extends, Sound, TypeOK
<1>3. \A e \in Devices \ {d}, t \in Users : Writing(e, t)' <=> Writing(e, t)
  BY <1>2 DEF Writing
<1>4. \A t \in Users : Writing(d, t) => Writing(d, t)'
  BY <1>1, <1>2 DEF Writing
<1>5. \A t \in Users : Writing(d, t)' => \/ Writing(d, t)
                                         \/ \E i \in Len(queue[d])+1..Len(q) :
                                              q[i].then # "none" /\ q[i].tap.target = t
  <2> SUFFICES ASSUME NEW t \in Users, Writing(d, t)', ~Writing(d, t)
      PROVE  \E i \in Len(queue[d])+1..Len(q) : q[i].then # "none" /\ q[i].tap.target = t
    OBVIOUS
  <2>1. PICK i \in 1..Len(q) : q[i].then # "none" /\ q[i].tap.target = t
    BY <1>2 DEF Writing
  <2>2. i \notin 1..Len(queue[d])
    BY <1>1, <2>1 DEF Writing
  <2> QED BY <1>2, <2>1, <2>2
<1>6. CASE \A t \in Users : Writing(d, t)' => Writing(d, t)
  <2>1. WrittenPairs' = WrittenPairs
    BY <1>3, <1>4, <1>6, SameWritten
  <2> QED BY <1>2, <2>1, StutterStep
<1>7. CASE \E t \in Users : Writing(d, t)' /\ ~Writing(d, t)
  <2>1. PICK s \in Users : Writing(d, s)' /\ ~Writing(d, s)
    BY <1>7
  <2>2. Len(q) = Len(queue[d]) + 1 /\ q[Len(q)].tap.target = s
    BY <1>1, <1>2, <1>5, <2>1
  <2>3. \A t \in Users : Writing(d, t)' <=> Writing(d, t) \/ t = s
    BY <1>2, <1>4, <1>5, <2>1, <2>2
  <2> DEFINE x == <<Account[d], s>>
  <2>4. x \in PairList
    BY AccountType DEF PairList
  <2>5. WrittenPairs' = WrittenPairs \cup {x}
    <3>1. ASSUME NEW y \in PairList PROVE y \in WrittenPairs' <=> y \in WrittenPairs \/ y = x
      <4>1. y = <<y[1], y[2]>> /\ y[2] \in Users
        BY DEF PairList
      <4>2. CASE y[1] # Account[d]
        BY <1>3, <4>1, <4>2 DEF WrittenPairs
      <4>3. CASE y[1] = Account[d]
        BY <1>3, <2>3, <4>1, <4>3 DEF WrittenPairs
      <4> QED BY <4>2, <4>3
    <3> HIDE DEF x
    <3> QED BY <2>4, <3>1 DEF WrittenPairs
  <2> HIDE DEF x
  <2>6. LostPairs' = LostPairs
    BY <1>2, SameLost
  <2>7. BusyPairs' = BusyPairs \cup {x}
    BY <2>5, <2>6 DEF BusyPairs
  <2>8. Dir!Begin(x)
    BY <1>2, <2>6, <2>7, SameDocs DEF Dir!Begin, BusyPairs, WrittenPairs, Firsts, Seconds
  <2> QED BY <2>4, <2>8 DEF DirStep, Dir!Next
<1> QED BY <1>6, <1>7

(* One copy of a pair is written.  A sound phone that is alone on its account
   writes to the pair only with a write whose answer it awaits. *)
LEMMA CommitStep ==
  ASSUME MirrorInv, NEW d \in Devices, Commit(d), UNCHANGED failed
  PROVE  DirStep
<1> DEFINE w == queue[d][applied[d] + 1]
<1>1. /\ applied[d] + 1 \in 1..Len(queue[d])
      /\ w \in Writes /\ ShapeOf(d, w)
      /\ db \in [Docs -> BOOLEAN] /\ db' = [db EXCEPT ![w.doc] = w.val]
      /\ queue' = queue
  <2>1. queue[d] \in Seq(Writes) /\ applied[d] \in Nat /\ applied[d] < Len(queue[d])
    BY DEF MirrorInv, TypeOK, Commit
  <2>2. w \in Writes /\ ShapeOf(d, w)
    BY <2>1 DEF MirrorInv, Shape
  <2> QED BY <2>1, <2>2 DEF MirrorInv, TypeOK, Commit
<1>2. ASSUME NEW t \in Users, Awaits("target", w, "mirror", t) \/ Awaits("target", w, "done", t)
      PROVE  Writing(d, t)
  BY <1>1, <1>2 DEF Awaits, Writing
<1> HIDE DEF w
<1>3. LostPairs' = LostPairs /\ WrittenPairs' = WrittenPairs
  <2>1. \A e \in Devices : Sound(e)' = Sound(e)
    BY DEF Sound
  <2>2. \A e \in Devices, t \in Users : Writing(e, t)' <=> Writing(e, t)
    BY <1>1 DEF Writing
  <2> QED BY <2>1, <2>2, SameLost, SameWritten
<1>4. BusyPairs' = BusyPairs
  BY <1>3 DEF BusyPairs
<1>5. ASSUME NEW u \in Users, NEW t \in Users,
             w.doc = FollowingDoc(u, t) \/ w.doc = FollowersDoc(t, u)
      PROVE  <<u, t>> \in PairList /\ <<u, t>> \in BusyPairs
  <2>1. u = Account[d] /\ <<u, t>> \in PairList
    BY <1>1, <1>5 DEF ShapeOf, PairList
  <2>2. CASE Sole(d) /\ Sound(d)
    <3>1. w.then \in {"mirror", "done"}
      BY <1>1, <1>5, <2>2 DEF ShapeOf, Writes
    <3>2. w.tap.target = t
      <4>1. w.tap.target \in Users
        BY <1>1 DEF Writes, Taps
      <4> QED BY <1>1, <1>5, <3>1, <4>1, DocFacts DEF ShapeOf
    <3>3. Writing(d, t)
      BY <1>2, <3>1, <3>2 DEF Awaits
    <3> QED BY <2>1, <3>3 DEF BusyPairs, WrittenPairs
  <2>3. CASE ~(Sole(d) /\ Sound(d))
    <3>1. \A e \in Devices : Account[e] = u => ~(Sole(e) /\ Sound(e))
      BY <2>1, <2>3 DEF Sole
    <3> QED BY <2>1, <3>1 DEF BusyPairs, LostPairs
  <2> QED BY <2>1, <2>2, <2>3
<1>6. w.val \in BOOLEAN
  BY <1>1 DEF Writes
<1>7. ASSUME NEW u \in Users, NEW t \in Users, w.doc = FollowingDoc(u, t)
      PROVE  DirStep
  <2> DEFINE x == <<u, t>>
  <2>1. Firsts' = [Firsts EXCEPT ![x] = w.val]
    <3>1. ASSUME NEW y \in PairList
          PROVE  db'[FollowingDoc(y[1], y[2])] = IF y = x THEN w.val ELSE db[FollowingDoc(y[1], y[2])]
      <4>1. y = <<y[1], y[2]>> /\ y[1] \in Users /\ y[2] \in Users
        BY DEF PairList
      <4>2. FollowingDoc(y[1], y[2]) \in Docs
        BY <4>1, DocsType
      <4>3. FollowingDoc(y[1], y[2]) = w.doc <=> y = x
        BY <1>7, <4>1, DocFacts
      <4> QED BY <1>1, <4>2, <4>3
    <3> HIDE DEF x
    <3> QED BY <3>1 DEF Firsts
  <2>2. Seconds' = Seconds
    <3>1. ASSUME NEW y \in PairList
          PROVE  db'[FollowersDoc(y[2], y[1])] = db[FollowersDoc(y[2], y[1])]
      <4>1. FollowersDoc(y[2], y[1]) \in Docs
        BY DocsType DEF PairList
      <4>2. FollowersDoc(y[2], y[1]) # w.doc
        BY <1>7, DocFacts
      <4> QED BY <1>1, <4>1, <4>2
    <3> QED BY <3>1 DEF Seconds
  <2>3. x \in PairList /\ x \in BusyPairs
    BY <1>5, <1>7
  <2> HIDE DEF x
  <2>4. Dir!Write(x)
    BY <1>3, <1>4, <1>6, <2>1, <2>2, <2>3
    DEF Dir!Write, BusyPairs, WrittenPairs, Firsts, Seconds
  <2> QED BY <2>3, <2>4 DEF DirStep, Dir!Next
<1>8. ASSUME NEW u \in Users, NEW t \in Users, w.doc = FollowersDoc(t, u)
      PROVE  DirStep
  <2> DEFINE x == <<u, t>>
  <2>1. Seconds' = [Seconds EXCEPT ![x] = w.val]
    <3>1. ASSUME NEW y \in PairList
          PROVE  db'[FollowersDoc(y[2], y[1])] = IF y = x THEN w.val ELSE db[FollowersDoc(y[2], y[1])]
      <4>1. y = <<y[1], y[2]>> /\ y[1] \in Users /\ y[2] \in Users
        BY DEF PairList
      <4>2. FollowersDoc(y[2], y[1]) \in Docs
        BY <4>1, DocsType
      <4>3. FollowersDoc(y[2], y[1]) = w.doc <=> y = x
        BY <1>8, <4>1, DocFacts
      <4> QED BY <1>1, <4>2, <4>3
    <3> HIDE DEF x
    <3> QED BY <3>1 DEF Seconds
  <2>2. Firsts' = Firsts
    <3>1. ASSUME NEW y \in PairList
          PROVE  db'[FollowingDoc(y[1], y[2])] = db[FollowingDoc(y[1], y[2])]
      <4>1. FollowingDoc(y[1], y[2]) \in Docs
        BY DocsType DEF PairList
      <4>2. FollowingDoc(y[1], y[2]) # w.doc
        BY <1>8, DocFacts
      <4> QED BY <1>1, <4>1, <4>2
    <3> QED BY <3>1 DEF Firsts
  <2>3. x \in PairList /\ x \in BusyPairs
    BY <1>5, <1>8
  <2> HIDE DEF x
  <2>4. Dir!Write(x)
    BY <1>3, <1>4, <1>6, <2>1, <2>2, <2>3
    DEF Dir!Write, BusyPairs, WrittenPairs, Firsts, Seconds
  <2> QED BY <2>3, <2>4 DEF DirStep, Dir!Next
<1>9. CASE \A u, t \in Users : w.doc # FollowingDoc(u, t) /\ w.doc # FollowersDoc(t, u)
  <2>1. ASSUME NEW y \in PairList
        PROVE  /\ db'[FollowingDoc(y[1], y[2])] = db[FollowingDoc(y[1], y[2])]
               /\ db'[FollowersDoc(y[2], y[1])] = db[FollowersDoc(y[2], y[1])]
    <3>1. y[1] \in Users /\ y[2] \in Users
      BY DEF PairList
    <3>2. FollowingDoc(y[1], y[2]) \in Docs /\ FollowersDoc(y[2], y[1]) \in Docs
      BY <3>1, DocsType
    <3> QED BY <1>1, <1>9, <3>1, <3>2
  <2>2. Firsts' = Firsts /\ Seconds' = Seconds
    BY <2>1 DEF Firsts, Seconds
  <2> QED BY <1>3, <1>4, <2>2 DEF DirStep
<1> QED BY <1>7, <1>8, <1>9

(* An answer.  The pair stops being busy with the last of its answers, when
   its copies are equal. *)
LEMMA AnswersStep ==
  ASSUME MirrorInv, NEW d \in Devices, Answers(d)
  PROVE  DirStep
<1>1. \A e \in Devices \ {d} : queue'[e] = queue[e]
  BY DEF Answers, Dequeue, DequeueThenEnqueue, MirrorInv, TypeOK
<1>2. CASE Fails(d, "reject")
  BY <1>1, <1>2, AbandonStep DEF Answers, MirrorInv, DirStep
<1>3. CASE ~Fails(d, "reject")
  <2> DEFINE w  == Oldest(d)
             q  == queue[d]
             w2 == [w EXCEPT !.doc = FollowersDoc(w.tap.target, Account[d]), !.then = "done"]
  <2>1. /\ UNCHANGED <<db, failed>> /\ Answered(d)
        /\ \/ w.then # "mirror" /\ queue' = [queue EXCEPT ![d] = Tail(q)]
           \/ w.then = "mirror" /\ queue' = [queue EXCEPT ![d] = Append(Tail(q), w2)]
    BY <1>3 DEF Answers, Dequeue, DequeueThenEnqueue
  <2>2. /\ q \in Seq(Writes) /\ q # <<>> /\ w = q[1] /\ w \in Writes /\ Len(q) \in Nat \ {0}
        /\ Tail(q) \in Seq(Writes) /\ Len(Tail(q)) = Len(q) - 1
        /\ \A i \in 1..Len(Tail(q)) : Tail(q)[i] = q[i + 1]
    <3>1. q \in Seq(Writes) /\ q # <<>>
      BY <2>1 DEF MirrorInv, TypeOK, Answered
    <3> QED BY <3>1, TailFacts DEF Oldest
  <2>3. \A e \in Devices : Sound(e)' = Sound(e)
    BY <2>1 DEF Sound
  <2>3a. PICK s \in Users : s = w.tap.target
    BY <2>2 DEF Writes, Taps
  <2>4. \A e \in Devices \ {d}, t \in Users : Writing(e, t)' <=> Writing(e, t)
    BY <1>1 DEF Writing
  <2>5. \A i \in 2..Len(q) : i - 1 \in 1..Len(Tail(q)) /\ Tail(q)[i - 1] = q[i]
    BY <2>2
  <2>6. CASE w.then # "mirror" /\ queue' = [queue EXCEPT ![d] = Tail(q)]
    <3>1. queue'[d] = Tail(q)
      BY <2>6 DEF MirrorInv, TypeOK
    <3> HIDE DEF w, w2
    <3>2. \A t \in Users : Writing(d, t)' => Writing(d, t)
      <4> SUFFICES ASSUME NEW t \in Users, Writing(d, t)' PROVE Writing(d, t)
        OBVIOUS
      <4>1. PICK i \in 1..Len(Tail(q)) : Tail(q)[i].then # "none" /\ Tail(q)[i].tap.target = t
        BY <3>1 DEF Writing
      <4>2. i + 1 \in 1..Len(q) /\ q[i + 1] = Tail(q)[i]
        BY <2>2
      <4> QED BY <4>1, <4>2 DEF Writing
    <3>3. \A t \in Users : Writing(d, t) => Writing(d, t)' \/ (w.then # "none" /\ t = s)
      <4> SUFFICES ASSUME NEW t \in Users, Writing(d, t), ~(w.then # "none" /\ t = s)
          PROVE  Writing(d, t)'
        OBVIOUS
      <4>1. PICK i \in 1..Len(q) : q[i].then # "none" /\ q[i].tap.target = t
        BY DEF Writing
      <4>2. i # 1
        BY <2>2, <2>3a, <4>1
      <4>3. i - 1 \in 1..Len(Tail(q)) /\ Tail(q)[i - 1] = q[i]
        BY <2>2, <2>5, <4>2
      <4> QED BY <3>1, <4>1, <4>3 DEF Writing
    <3>4. CASE \A t \in Users : Writing(d, t) => Writing(d, t)'
      <4>1. WrittenPairs' = WrittenPairs
        BY <2>4, <3>2, <3>4, SameWritten
      <4> QED BY <2>1, <2>3, <4>1, StutterStep
    <3>5. CASE ~(\A t \in Users : Writing(d, t) => Writing(d, t)')
      <4> DEFINE x == <<Account[d], s>>
      <4>0. Writing(d, s) /\ ~Writing(d, s)'
        BY <3>3, <3>5
      <4>1. /\ x \in PairList /\ x[1] = Account[d] /\ x[2] = s
            /\ Writing(d, s) /\ ~Writing(d, s)'
            /\ \A t \in Users : Writing(d, t)' <=> Writing(d, t) /\ t # s
        BY <3>2, <3>3, <4>0, AccountType DEF PairList
      <4>2. LostPairs' = LostPairs
        BY <2>3, SameLost
      <4>3. CASE x \in LostPairs
        <5>1. ASSUME NEW y \in PairList, y \notin LostPairs
              PROVE  y \in WrittenPairs' <=> y \in WrittenPairs
          <6>1. y = <<y[1], y[2]>> /\ y[2] \in Users
            BY DEF PairList
          <6>2. y # x
            BY <4>3, <5>1
          <6>3. CASE y[1] # Account[d]
            BY <2>4, <6>1, <6>3 DEF WrittenPairs
          <6>4. CASE y[1] = Account[d]
            <7>1. y[2] # s
              BY <6>1, <6>2, <6>4
            <7> QED BY <2>4, <4>1, <6>1, <6>4, <7>1 DEF WrittenPairs
          <6> QED BY <6>3, <6>4
        <5>2. BusyPairs' = BusyPairs
          <6>1. WrittenPairs \subseteq PairList /\ WrittenPairs' \subseteq PairList
            BY DEF WrittenPairs
          <6> QED BY <4>2, <5>1, <6>1 DEF BusyPairs
        <5> QED BY <2>1, <4>2, <5>2, SameDocs DEF DirStep
      <4>4. CASE x \notin LostPairs
        <5>1. Sole(d) /\ Sound(d)
          <6>1. PICK e \in Devices : Account[e] = Account[d] /\ Sole(e) /\ Sound(e)
            BY <4>1, <4>4 DEF LostPairs
          <6>2. e = d
            BY <6>1 DEF Sole
          <6> QED BY <6>1, <6>2
        <5>2. PairInv(d, s)'
          <6>1. Kept(d, d, s)
            BY <2>3, <5>1 DEF MirrorInv, Kept, Apart
          <6> QED BY <6>1, AnswersKeeps DEF PairsKept
        <5>3. db[FollowingDoc(Account[d], s)] = db[FollowersDoc(s, Account[d])]
          <6>1. SecondWillAgree("target", "mirror", queue'[d], s, db[FollowingDoc(Account[d], s)],
                                db[FollowersDoc(s, Account[d])])
            BY <2>1, <5>2 DEF PairInv, PairOK
          <6>2. \A i \in 1..Len(queue'[d]) : ~Awaits("target", queue'[d][i], "mirror", s)
                                             /\ ~Awaits("target", queue'[d][i], "done", s)
            BY <4>1 DEF Writing, Awaits
          <6> QED BY <6>1, <6>2 DEF SecondWillAgree
        <5>4. Firsts[x] = Seconds[x]
          BY <4>1, <5>3 DEF Firsts, Seconds
        <5>5. x \in BusyPairs
          BY <4>1 DEF BusyPairs, WrittenPairs
        <5>6. BusyPairs' = BusyPairs \ {x}
          <6>1. ASSUME NEW y \in PairList PROVE y \in WrittenPairs' <=> y \in WrittenPairs /\ y # x
            <7>1. y = <<y[1], y[2]>> /\ y[2] \in Users
              BY DEF PairList
            <7>2. CASE y[1] # Account[d]
              BY <2>4, <7>1, <7>2 DEF WrittenPairs
            <7>3. CASE y[1] = Account[d]
              <8>1. \A e \in Devices : Account[e] = Account[d] => e = d
                BY <5>1 DEF Sole
              <8>2. y = x <=> y[2] = s
                BY <7>1, <7>3
              <8>3. y \in WrittenPairs <=> Writing(d, y[2])
                BY <7>3, <8>1 DEF WrittenPairs
              <8>4. y \in WrittenPairs' <=> Writing(d, y[2])'
                BY <7>3, <8>1 DEF WrittenPairs
              <8> QED BY <4>1, <7>1, <8>2, <8>3, <8>4
            <7> QED BY <7>2, <7>3
          <6>2. WrittenPairs \subseteq PairList /\ WrittenPairs' \subseteq PairList
            BY DEF WrittenPairs
          <6> HIDE DEF x
          <6> QED BY <4>2, <4>4, <6>1, <6>2 DEF BusyPairs
        <5> HIDE DEF x
        <5>7. Dir!End(x)
          BY <2>1, <4>2, <4>4, <5>4, <5>5, <5>6, SameDocs
          DEF Dir!End, BusyPairs, WrittenPairs, Firsts, Seconds
        <5> QED BY <4>1, <5>7 DEF DirStep, Dir!Next
      <4> QED BY <4>3, <4>4
    <3> QED BY <3>4, <3>5
  <2>7. CASE w.then = "mirror" /\ queue' = [queue EXCEPT ![d] = Append(Tail(q), w2)]
    <3>1. w2.then = "done" /\ w2.tap.target = s
      BY <2>2, <2>3a DEF Writes
    <3>2. queue'[d] = Append(Tail(q), w2)
      BY <2>7 DEF MirrorInv, TypeOK
    <3> HIDE DEF w2
    <3>3. /\ Len(queue'[d]) = Len(q) /\ queue'[d][Len(q)] = w2
          /\ \A i \in 2..Len(q) : queue'[d][i - 1] = q[i]
      BY <2>2, <2>5, <3>2
    <3> HIDE DEF w, q
    <3>4. \A t \in Users : Writing(d, t)' => Writing(d, t)
      <4> SUFFICES ASSUME NEW t \in Users, Writing(d, t)' PROVE Writing(d, t)
        OBVIOUS
      <4>1. PICK i \in 1..Len(q) : queue'[d][i].then # "none" /\ queue'[d][i].tap.target = t
        BY <3>3 DEF Writing
      <4>2. CASE i = Len(q)
        <5>1. t = s
          BY <3>1, <3>3, <4>1, <4>2
        <5>2. 1 \in 1..Len(q) /\ q[1].then # "none" /\ q[1].tap.target = t
          BY <2>2, <2>7, <2>3a, <5>1
        <5> QED BY <5>2 DEF Writing, q
      <4>3. CASE i # Len(q)
        <5>1. i + 1 \in 2..Len(q) /\ i + 1 \in 1..Len(q) /\ (i + 1) - 1 = i
          BY <2>2, <4>1, <4>3
        <5>2. q[i + 1] = queue'[d][i]
          BY <3>3, <5>1
        <5> QED BY <4>1, <5>1, <5>2 DEF Writing, q
      <4> QED BY <4>2, <4>3
    <3>5. \A t \in Users : Writing(d, t) => Writing(d, t)'
      <4> SUFFICES ASSUME NEW t \in Users, Writing(d, t) PROVE Writing(d, t)'
        OBVIOUS
      <4>1. PICK i \in 1..Len(q) : q[i].then # "none" /\ q[i].tap.target = t
        BY DEF Writing, q
      <4>2. CASE i = 1
        <5>1. t = s
          BY <2>2, <2>3a, <4>1, <4>2
        <5>2. Len(q) \in 1..Len(q)
          BY <2>2
        <5> QED BY <3>1, <3>3, <5>1, <5>2 DEF Writing
      <4>3. CASE i # 1
        <5>1. i \in 2..Len(q) /\ i - 1 \in 1..Len(q)
          BY <2>2, <4>3
        <5> QED BY <3>3, <4>1, <5>1 DEF Writing
      <4> QED BY <4>2, <4>3
    <3>6. WrittenPairs' = WrittenPairs
      BY <2>4, <3>4, <3>5, SameWritten
    <3> QED BY <2>1, <2>3, <3>6, StutterStep
  <2> QED BY <2>1, <2>6, <2>7
<1> QED BY <1>2, <1>3

LEMMA StepDirectory ==
  ASSUME MirrorInv, [Next]_vars
  PROVE  DirStep
<1>1. CASE UNCHANGED storeVars /\ (UNCHANGED failed \/ \E d \in Devices : Fails(d, "readfail"))
  <2>1. \A e \in Devices : Sound(e)' = Sound(e)
    BY <1>1 DEF Fails, Sound, MirrorInv, TypeOK
  <2>2. WrittenPairs' = WrittenPairs
    BY <1>1, SameWritten DEF Writing, storeVars
  <2> QED BY <1>1, <2>1, <2>2, StutterStep DEF storeVars
<1>2. ASSUME NEW d \in Devices, Extends(d) PROVE DirStep
  BY <1>2, ExtendsStep DEF MirrorInv
<1>3. ASSUME NEW d \in Devices, Answers(d) PROVE DirStep
  BY <1>3, AnswersStep
<1>4. ASSUME NEW d \in Devices, Commit(d), UNCHANGED failed PROVE DirStep
  BY <1>4, CommitStep
<1>5. ASSUME NEW d \in Devices, Reopen(d), UNCHANGED failed PROVE DirStep
  <2>1. \A e \in Devices : Sound(e)' = Sound(e)
    BY <1>5 DEF Sound
  <2>2. WrittenPairs' = WrittenPairs
    BY <1>5, SameWritten DEF Writing, Reopen
  <2> QED BY <1>5, <2>1, <2>2, StutterStep DEF Reopen
<1>6. ASSUME NEW d \in Devices, LoseProcess(d), Fails(d, "crash") PROVE DirStep
  <2>1. UNCHANGED db /\ \A e \in Devices \ {d} : queue'[e] = queue[e]
    BY <1>6 DEF LoseProcess, MirrorInv, TypeOK
  <2> QED BY <1>6, <2>1, AbandonStep DEF MirrorInv, DirStep
<1> QED BY <1>1, <1>2, <1>3, <1>4, <1>5, <1>6, StepKind DEF StoreStep, MirrorInv

LEMMA InitDirectory == Init => Dir!Init
<1> SUFFICES ASSUME Init PROVE Dir!Init
  OBVIOUS
<1>1. TypeOK
  BY InitType
<1>2. ASSUME NEW x \in PairList
      PROVE  /\ db[FollowingDoc(x[1], x[2])] = db[FollowersDoc(x[2], x[1])]
             /\ db[FollowingDoc(x[1], x[2])] \in BOOLEAN
  <2> DEFINE y == FollowingDoc(x[1], x[2])
             z == FollowersDoc(x[2], x[1])
  <2>0. x[1] \in Users /\ x[2] \in Users
    BY DEF PairList
  <2>1. y \in Docs /\ y[1] = "following" /\ y[2] = x[1] /\ y[3] = x[2]
    BY <2>0, DocsType DEF FollowingDoc
  <2>2. z \in Docs /\ z[1] = "followers" /\ z[2] = x[2] /\ z[3] = x[1]
    BY <2>0, DocsType DEF FollowersDoc
  <2> HIDE DEF y, z
  <2>3. db[y] <=> <<x[1], x[2]>> \in InitFollows
    BY <2>1 DEF Init
  <2>4. db[z] <=> <<x[1], x[2]>> \in InitFollows
    BY <2>2 DEF Init
  <2>5. db[y] = db[z] /\ db[y] \in BOOLEAN
    BY <1>1, <2>1, <2>2, <2>3, <2>4 DEF TypeOK
  <2> QED BY <2>5 DEF y, z
<1>3. Firsts \in [PairList -> BOOLEAN] /\ Seconds = Firsts
  BY <1>2 DEF Firsts, Seconds
<1>4. WrittenPairs = {}
  BY DEF Init, WrittenPairs, Writing
<1>5. LostPairs \in SUBSET PairList
  BY DEF LostPairs
<1> QED BY <1>3, <1>4, <1>5 DEF Dir!Init, Firsts, Seconds, WrittenPairs

(* The taps, blocks, writes and faults of any number of phones are no more
   than the directory's steps: one copy at a time of a busy pair changes, and
   a pair is released with equal copies or abandoned. *)
THEOREM DirectoryImplemented == Spec => DirectorySpec
<1>1. MirrorInv /\ [Next]_vars => [Dir!Next]_(Dir!dirVars)
  BY StepDirectory DEF DirStep, Dir!dirVars, Firsts, Seconds, BusyPairs, WrittenPairs
<1> QED BY InitMirror, StepMirror, InitDirectory, <1>1, PTL DEF Spec, DirectorySpec, Dir!Spec

-----------------------------------------------------------------------------
(* FollowedFirst, which holds with several phones of one account too: a
   notification and the posts in a feed tell only of follows that were stored.
   Its inductive invariant: what lies between the followers document of a
   tap and the notification and the feed written after it is a chain: an
   applied write, its answer, a block, another write, the document.  In every
   link of it the follow is known: it was stored, or the account has had a
   write refused, after which nothing is claimed. *)

Refusal(u) == \E d \in Devices : Account[d] = u /\ failed[d] = "reject"

Known(u, t) == Refusal(u) \/ <<u, t>> \in wasFollower

(* A write of a tap has the tap's value, and what it tells is known. *)
WriteOK(d, w) ==
  /\ w.then \in {"mirror", "done"} => w.val = w.tap.val
  /\ w.then = "done" => w.doc = FollowersDoc(w.tap.target, Account[d])
  /\ \A u, t \in Users : w.val /\ w.doc = NotificationDoc(t, u) => Known(u, t)
  /\ \A u \in Users, p \in Posts :
       w.val /\ w.doc = FeedDoc(u, p) /\ Owner[p] # u => Known(u, Owner[p])

(* A second write of a follow that is applied has made the follow known. *)
AppliedOK(d, w) ==
  w.then = "done" /\ w.tap.val => Known(Account[d], w.tap.target)

BlockOK(b) ==
  b.kind = "notify" \/ (b.kind = "feed" /\ b.tap.val) => Known(Account[b.dev], b.tap.target)

DocumentsOK ==
  /\ \A u, t \in Users : db[NotificationDoc(t, u)] => Known(u, t)
  /\ \A u \in Users, p \in Posts : db[FeedDoc(u, p)] /\ Owner[p] # u => Known(u, Owner[p])

QueueOK(d) ==
  /\ \A i \in 1..Len(queue[d]) : WriteOK(d, queue[d][i])
  /\ \A i \in 1..applied[d] : AppliedOK(d, queue[d][i])

FirstInv ==
  /\ TypeOK
  /\ DocumentsOK
  /\ \A d \in Devices : QueueOK(d)
  /\ \A b \in blocks : BlockOK(b)

-----------------------------------------------------------------------------
(* Nothing that is known is ever forgotten. *)

LEMMA FailureStays ==
  ASSUME NEW d \in Devices, NEW e \in Devices, NEW fault, Fails(e, fault),
         failed[d] = "reject", AppOK
  PROVE  failed'[d] = "reject"
BY DEF Fails, AppOK

Grows ==
  /\ wasFollower \subseteq wasFollower'
  /\ \A d \in Devices : failed[d] = "reject" => failed'[d] = "reject"

LEMMA StepGrows ==
  ASSUME TypeOK, [Next]_vars
  PROVE  Grows
<1>0. AppOK
  BY TypeParts
<1>1. ASSUME NEW e \in Devices, NEW fault, Fails(e, fault), UNCHANGED wasFollower
      PROVE  Grows
  BY <1>0, <1>1, FailureStays DEF Grows
<1>2. ASSUME UNCHANGED failed, wasFollower \subseteq wasFollower'
      PROVE  Grows
  BY <1>2 DEF Grows
<1>3. ASSUME NEW d \in Devices, UserStep(d) PROVE Grows
  BY <1>1, <1>2, <1>3 DEF UserStep, OpenProfile, TapProfile, TapRow, Refresh
<1>4. ASSUME NEW d \in Devices, ReadStep(d) PROVE Grows
  BY <1>1, <1>2, <1>4 DEF ReadStep, NotificationsArrive, ProfileCheckResult, RowCheckResult, CheckFails
<1>5. ASSUME NEW d \in Devices, BlockStep(d) PROVE Grows
  BY <1>1, <1>2, <1>5 DEF BlockStep, RunFollowBlock, RunNotifyBlock, RunFeedBlock
<1>6. ASSUME NEW d \in Devices, AnswerAny(d) PROVE Grows
  BY <1>1, <1>2, <1>6
  DEF AnswerAny, AnswerMirror, AnswerProfile, AnswerRow, AnswerSilent, Answer
<1>7. ASSUME NEW d \in Devices, Apply(d) PROVE Grows
  BY <1>2, <1>7 DEF Apply
<1>8. ASSUME NEW d \in Devices, Resend(d) PROVE Grows
  BY <1>2, <1>8 DEF Resend, followVars
<1>9. ASSUME NEW d \in Devices, Crash(d) PROVE Grows
  BY <1>1, <1>9 DEF Crash
<1>10. CASE UNCHANGED vars
  BY <1>2, <1>10 DEF vars, followVars
<1> QED BY <1>3, <1>4, <1>5, <1>6, <1>7, <1>8, <1>9, <1>10 DEF Next

LEMMA KnownStays ==
  ASSUME TypeOK, [Next]_vars, NEW u, NEW t, Known(u, t)
  PROVE  Known(u, t)'
BY StepGrows DEF Grows, Known, Refusal

LEMMA WriteStays ==
  ASSUME TypeOK, [Next]_vars, NEW d, NEW w, WriteOK(d, w)
  PROVE  WriteOK(d, w)'
BY KnownStays DEF WriteOK

LEMMA AppliedStays ==
  ASSUME TypeOK, [Next]_vars, NEW d, NEW w, AppliedOK(d, w)
  PROVE  AppliedOK(d, w)'
BY KnownStays DEF AppliedOK

LEMMA BlockStays ==
  ASSUME TypeOK, [Next]_vars, NEW b, BlockOK(b)
  PROVE  BlockOK(b)'
BY KnownStays DEF BlockOK

LEMMA DocumentsStay ==
  ASSUME TypeOK, [Next]_vars, DocumentsOK, UNCHANGED db
  PROVE  DocumentsOK'
BY KnownStays DEF DocumentsOK

-----------------------------------------------------------------------------
(* What can become of a queue in a step. *)

LEMMA QueueNext ==
  ASSUME NEW d \in Devices, NEW q, NEW a, queue'[d] = q, applied'[d] = a,
         \A i \in 1..Len(q) : WriteOK(d, q[i])',
         \A i \in 1..a : AppliedOK(d, q[i])'
  PROVE  QueueOK(d)'
BY DEF QueueOK, WriteOK, AppliedOK, Known, Refusal

LEMMA QueueParts ==
  ASSUME TypeOK, [Next]_vars, NEW d \in Devices, NEW q, NEW a,
         queue'[d] = q, applied'[d] = a,
         \A i \in 1..Len(q) : WriteOK(d, q[i]),
         \A i \in 1..a : AppliedOK(d, q[i])
  PROVE  QueueOK(d)'
<1>1. \A i \in 1..Len(q) : WriteOK(d, q[i])'
  BY WriteStays
<1>2. \A i \in 1..a : AppliedOK(d, q[i])'
  BY AppliedStays
<1> QED BY <1>1, <1>2, QueueNext

LEMMA SameQueue ==
  ASSUME TypeOK, [Next]_vars, NEW d \in Devices, QueueOK(d),
         queue'[d] = queue[d], applied'[d] = applied[d]
  PROVE  QueueOK(d)'
BY QueueParts DEF QueueOK

LEMMA LongerQueue ==
  ASSUME TypeOK, [Next]_vars, NEW d \in Devices, QueueOK(d), NEW q \in Seq(Writes),
         queue'[d] = queue[d] \o q, applied'[d] = applied[d],
         \A i \in 1..Len(q) : WriteOK(d, q[i])
  PROVE  QueueOK(d)'
<1>1. /\ queue[d] \in Seq(Writes) /\ Len(queue[d]) \in Nat /\ Len(q) \in Nat
      /\ applied[d] \in Nat /\ applied[d] <= Len(queue[d])
  BY DEF TypeOK
<1>2. /\ Len(queue'[d]) = Len(queue[d]) + Len(q)
      /\ \A i \in 1..Len(queue[d]) : queue'[d][i] = queue[d][i]
      /\ \A i \in Len(queue[d])+1..Len(queue[d])+Len(q) : queue'[d][i] = q[i - Len(queue[d])]
  BY <1>1, ConcatFacts
<1>3. ASSUME NEW i \in 1..Len(queue'[d]) PROVE WriteOK(d, queue'[d][i])
  <2>1. CASE i \in 1..Len(queue[d])
    BY <1>2, <2>1 DEF QueueOK
  <2>2. CASE i \notin 1..Len(queue[d])
    <3>1. i - Len(queue[d]) \in 1..Len(q) /\ queue'[d][i] = q[i - Len(queue[d])]
      BY <1>1, <1>2, <2>2
    <3> QED BY <3>1
  <2> QED BY <2>1, <2>2
<1>4. ASSUME NEW i \in 1..applied'[d] PROVE AppliedOK(d, queue'[d][i])
  <2>1. i \in 1..applied[d] /\ i \in 1..Len(queue[d])
    BY <1>1
  <2> QED BY <1>2, <2>1 DEF QueueOK
<1> QED BY <1>3, <1>4, QueueParts

(* The answer takes the oldest write off, and may put one at the end. *)
LEMMA ShorterQueue ==
  ASSUME TypeOK, [Next]_vars, NEW d \in Devices, QueueOK(d), queue[d] # <<>>,
         \/ queue'[d] = Tail(queue[d])
         \/ \E w \in Writes : queue'[d] = Append(Tail(queue[d]), w) /\ WriteOK(d, w),
         applied'[d] = applied[d] - 1 \/ applied'[d] = 0
  PROVE  QueueOK(d)'
<1>0. /\ queue[d] \in Seq(Writes) /\ applied[d] \in Nat /\ applied[d] <= Len(queue[d])
  BY DEF TypeOK
<1>1. /\ Tail(queue[d]) \in Seq(Writes) /\ Len(queue[d]) \in Nat \ {0}
      /\ Len(Tail(queue[d])) = Len(queue[d]) - 1
      /\ \A i \in 1..Len(queue[d]) - 1 : Tail(queue[d])[i] = queue[d][i + 1]
  BY <1>0, TailFacts
<1>2. /\ \A i \in 1..Len(queue[d]) - 1 : queue'[d][i] = queue[d][i + 1]
      /\ Len(queue'[d]) \in {Len(queue[d]) - 1, Len(queue[d])}
      /\ Len(queue'[d]) = Len(queue[d]) => WriteOK(d, queue'[d][Len(queue[d])])
  <2>1. CASE queue'[d] = Tail(queue[d])
    BY <1>1, <2>1
  <2>2. ASSUME NEW w \in Writes, queue'[d] = Append(Tail(queue[d]), w), WriteOK(d, w)
        PROVE  /\ \A i \in 1..Len(queue[d]) - 1 : queue'[d][i] = queue[d][i + 1]
               /\ Len(queue'[d]) = Len(queue[d])
               /\ queue'[d][Len(queue[d])] = w
    BY <1>1, <2>2
  <2> QED BY <2>1, <2>2
<1>3. ASSUME NEW i \in 1..Len(queue'[d]) PROVE WriteOK(d, queue'[d][i])
  <2>1. CASE i \in 1..Len(queue[d]) - 1
    <3>1. i + 1 \in 1..Len(queue[d])
      BY <1>1, <2>1
    <3> QED BY <1>2, <2>1, <3>1 DEF QueueOK
  <2>2. CASE i \notin 1..Len(queue[d]) - 1
    <3>1. i = Len(queue[d]) /\ Len(queue'[d]) = Len(queue[d])
      BY <1>1, <1>2, <2>2
    <3> QED BY <1>2, <3>1
  <2> QED BY <2>1, <2>2
<1>4. ASSUME NEW i \in 1..applied'[d] PROVE AppliedOK(d, queue'[d][i])
  <2>1. i \in 1..Len(queue[d]) - 1 /\ i + 1 \in 1..applied[d]
    BY <1>0, <1>1
  <2> QED BY <1>2, <2>1 DEF QueueOK
<1> QED BY <1>3, <1>4, QueueParts

-----------------------------------------------------------------------------
(* Every action keeps the invariant. *)

LEMMA InitFirst == Init => FirstInv
<1> SUFFICES ASSUME Init PROVE FirstInv
  OBVIOUS
<1>1. TypeOK
  BY InitType
<1>2. ASSUME NEW u \in Users, NEW t \in Users, db[NotificationDoc(t, u)]
      PROVE  <<u, t>> \in wasFollower
  BY <1>2, DocsType DEF Init, NotificationDoc
<1>3. ASSUME NEW u \in Users, NEW p \in Posts, db[FeedDoc(u, p)], Owner[p] # u
      PROVE  <<u, Owner[p]>> \in wasFollower
  <2>1. FeedDoc(u, p) \in Docs
    BY DEF FeedDoc, Docs
  <2> QED BY <1>3, <2>1 DEF Init, FeedDoc
<1>4. \A d \in Devices : Len(queue[d]) = 0 /\ applied[d] = 0
  BY DEF Init
<1>5. ASSUME NEW d \in Devices PROVE QueueOK(d)
  <2>1. 1..Len(queue[d]) = {} /\ 1..applied[d] = {}
    BY <1>4
  <2> QED BY <2>1 DEF QueueOK
<1> QED BY <1>1, <1>2, <1>3, <1>5 DEF FirstInv, DocumentsOK, Known, Init

(* What a block may write. *)
LEMMA DocsApart ==
  ASSUME NEW u, NEW t, NEW v, NEW x
  PROVE  /\ FollowingDoc(u, t) # NotificationDoc(v, x)
         /\ FollowingDoc(u, t) # FeedDoc(v, x)
         /\ FollowersDoc(u, t) # NotificationDoc(v, x)
         /\ FollowersDoc(u, t) # FeedDoc(v, x)
         /\ NotificationDoc(u, t) # FeedDoc(v, x)
         /\ NotificationDoc(u, t) = NotificationDoc(v, x) => u = v /\ t = x
         /\ FeedDoc(u, t) = FeedDoc(v, x) => u = v /\ t = x
BY DEF FollowingDoc, FollowersDoc, NotificationDoc, FeedDoc

LEMMA BlockKeeps ==
  ASSUME FirstInv, [Next]_vars, NEW b \in blocks,
         RunFollowBlock(b) \/ RunNotifyBlock(b) \/ RunFeedBlock(b)
  PROVE  /\ \A d \in Devices : QueueOK(d)'
         /\ db' = db
<1> DEFINE d == b.dev
<1>1. /\ TypeOK /\ BlockOK(b) /\ \A e \in Devices : QueueOK(e)
      /\ d \in Devices /\ b.tap \in Taps /\ b.tap.target \in Users
      /\ Account[d] \in Users /\ b.tap.val \in BOOLEAN
      /\ queue \in [Devices -> Seq(Writes)]
  BY AccountType DEF FirstInv, TypeOK, Blocks, Taps
<1>2. ASSUME NEW q \in Seq(Writes), queue' = [queue EXCEPT ![d] = queue[d] \o q],
             UNCHANGED <<db, applied>>, \A i \in 1..Len(q) : WriteOK(d, q[i])
      PROVE  (\A e \in Devices : QueueOK(e)') /\ db' = db
  <2>1. ASSUME NEW e \in Devices \ {d} PROVE QueueOK(e)'
    BY <1>1, <1>2, SameQueue
  <2>2. QueueOK(d)'
    BY <1>1, <1>2, LongerQueue
  <2> QED BY <1>2, <2>1, <2>2
<1>3. ASSUME NEW w \in Writes, Enqueue(d, w), WriteOK(d, w)
      PROVE  (\A e \in Devices : QueueOK(e)') /\ db' = db
  <2>1. /\ <<w>> \in Seq(Writes)
        /\ \A i \in 1..Len(<<w>>) : <<w>>[i] = w
        /\ Append(queue[d], w) = queue[d] \o <<w>>
    BY <1>1
  <2> QED BY <1>2, <1>3, <2>1 DEF Enqueue
<1>4. CASE RunFollowBlock(b)
  <2> DEFINE w == [doc |-> FollowingDoc(Account[d], b.tap.target),
                   val |-> b.tap.val, then |-> "mirror", tap |-> b.tap]
  <2>1. w \in Writes
    BY <1>1, DocsType DEF Writes
  <2>2. WriteOK(d, w)
    BY DocsApart DEF WriteOK
  <2> QED BY <1>3, <1>4, <2>1, <2>2 DEF RunFollowBlock
<1>5. CASE RunNotifyBlock(b)
  <2> DEFINE w == [doc |-> NotificationDoc(b.tap.target, Account[d]),
                   val |-> TRUE, then |-> "none", tap |-> b.tap]
  <2>1. w \in Writes
    BY <1>1, DocsType DEF Writes
  <2>2. Known(Account[d], b.tap.target)
    BY <1>1, <1>5 DEF BlockOK, RunNotifyBlock
  <2>3. WriteOK(d, w)
    BY <2>2, DocsApart DEF WriteOK
  <2> QED BY <1>3, <1>5, <2>1, <2>3 DEF RunNotifyBlock
<1>6. CASE RunFeedBlock(b)
  <2>1. ASSUME NEW s \in SetToSeqs(PostsOf(d, b.tap.target)),
               EnqueueAll(d, [i \in DOMAIN s |-> FeedWrite(d, b.tap, s[i])])
        PROVE  (\A e \in Devices : QueueOK(e)') /\ db' = db
    <3> DEFINE q == [i \in DOMAIN s |-> FeedWrite(d, b.tap, s[i])]
    <3>1. q \in Seq(Writes)
      BY <1>1, FeedWritesType
    <3>2. ASSUME NEW i \in 1..Len(q) PROVE WriteOK(d, q[i])
      <4>1. i \in DOMAIN s /\ q[i] = FeedWrite(d, b.tap, s[i])
        BY <3>1
      <4>2. s[i] \in PostsOf(d, b.tap.target)
        BY <4>1 DEF SetToSeqs
      <4>3. Owner[s[i]] = b.tap.target
        BY <4>2 DEF PostsOf
      <4>4. b.tap.val => Known(Account[d], b.tap.target)
        BY <1>1, <1>6 DEF BlockOK, RunFeedBlock
      <4>5. /\ q[i].val = b.tap.val /\ q[i].doc = FeedDoc(Account[d], s[i])
            /\ q[i].then = "none"
        BY <4>1 DEF FeedWrite
      <4> HIDE DEF q
      <4>6. \A u, t \in Users : q[i].doc # NotificationDoc(t, u)
        BY <4>5, DocsApart
      <4>7. ASSUME NEW u \in Users, NEW p \in Posts, q[i].val, q[i].doc = FeedDoc(u, p)
            PROVE  Known(u, Owner[p])
        <5>1. u = Account[d] /\ p = s[i]
          BY <4>5, <4>7 DEF FeedDoc
        <5> QED BY <4>3, <4>4, <4>5, <4>7, <5>1
      <4> QED BY <4>5, <4>6, <4>7 DEF WriteOK
    <3> HIDE DEF q
    <3> QED BY <1>2, <2>1, <3>1, <3>2 DEF EnqueueAll, q
  <2>2. CASE UNCHANGED storeVars
    BY <1>1, <2>2, SameQueue DEF storeVars
  <2> QED BY <1>6, <2>1, <2>2 DEF RunFeedBlock
<1> QED BY <1>4, <1>5, <1>6

(* The second write of a follow is answered: the follow is known by then. *)
LEMMA AnswerKnows ==
  ASSUME FirstInv, [Next]_vars, NEW d \in Devices, Answer(d, "done"),
         NEW tap, tap = Oldest(d).tap, tap.val
  PROVE  Known(Account[d], tap.target)'
<1>1. /\ TypeOK /\ QueueOK(d) /\ queue[d] \in Seq(Writes) /\ applied[d] \in Nat
      /\ failed \in [Devices -> {"none", "crash", "reject", "readfail"}]
  BY DEF FirstInv, TypeOK
<1>2. CASE Answered(d)
  <2>1. 1 \in 1..applied[d] /\ Oldest(d) = queue[d][1]
    BY <1>1, <1>2 DEF Answered, Oldest
  <2>2. AppliedOK(d, Oldest(d))
    BY <1>1, <2>1 DEF QueueOK
  <2>3. Known(Account[d], tap.target)
    BY <2>2 DEF AppliedOK, Answer
  <2> QED BY <1>1, <2>3, KnownStays
<1>3. CASE Refused(d) /\ Fails(d, "reject")
  <2>1. failed'[d] = "reject"
    BY <1>1, <1>3 DEF Fails
  <2> QED BY <2>1 DEF Known, Refusal
<1> QED BY <1>2, <1>3 DEF Answer

(* An answer takes the oldest write off; the first write of a tap is followed
   by the second, with the tap's value. *)
LEMMA AnswerKeeps ==
  ASSUME FirstInv, [Next]_vars, NEW d \in Devices, AnswerAny(d)
  PROVE  /\ \A e \in Devices : QueueOK(e)'
         /\ db' = db
<1>1. /\ TypeOK /\ \A e \in Devices : QueueOK(e)
      /\ queue \in [Devices -> Seq(Writes)] /\ applied \in [Devices -> Nat]
  BY DEF FirstInv, TypeOK
<1>2. /\ queue[d] # <<>>
      /\ \/ applied' = [applied EXCEPT ![d] = applied[d] - 1]
         \/ applied' = applied /\ applied[d] = 0
      /\ db' = db
  BY DEF AnswerAny, AnswerMirror, AnswerProfile, AnswerRow, AnswerSilent, Answer,
         Answered, Refused
<1>3. applied'[d] = applied[d] - 1 \/ applied'[d] = 0
  BY <1>1, <1>2
<1>4. \A e \in Devices \ {d} : applied'[e] = applied[e]
  BY <1>1, <1>2
<1>5. ASSUME NEW q, queue' = [queue EXCEPT ![d] = q],
             \/ q = Tail(queue[d])
             \/ \E w \in Writes : q = Append(Tail(queue[d]), w) /\ WriteOK(d, w)
      PROVE  \A e \in Devices : QueueOK(e)'
  <2>1. ASSUME NEW e \in Devices \ {d} PROVE QueueOK(e)'
    BY <1>1, <1>4, <1>5, SameQueue
  <2>2. queue'[d] = q
    BY <1>1, <1>5
  <2>3. QueueOK(d)'
    BY <1>1, <1>2, <1>3, <1>5, <2>2, ShorterQueue
  <2> QED BY <2>1, <2>3
<1>6. CASE AnswerMirror(d)
  <2> DEFINE w == [Oldest(d) EXCEPT
        !.doc = FollowersDoc(Oldest(d).tap.target, Account[d]), !.then = "done"]
  <2>1. Oldest(d) = queue[d][1] /\ 1 \in 1..Len(queue[d]) /\ Oldest(d) \in Writes
    BY <1>1, <1>2 DEF Oldest
  <2>2. WriteOK(d, Oldest(d)) /\ Oldest(d).then = "mirror"
    BY <1>1, <1>6, <2>1 DEF QueueOK, AnswerMirror, Answer
  <2>3. /\ w.doc = FollowersDoc(Oldest(d).tap.target, Account[d]) /\ w.then = "done"
        /\ w.val = Oldest(d).val /\ w.tap = Oldest(d).tap
    BY <2>1 DEF Writes
  <2>4. w \in Writes
    <3>1. Oldest(d).tap.target \in Users
      BY <2>1 DEF Writes, Taps
    <3>2. FollowersDoc(Oldest(d).tap.target, Account[d]) \in Docs
      BY <3>1, AccountType, DocsType
    <3> QED BY <2>1, <3>2 DEF Writes
  <2>5. WriteOK(d, w)
    <3>1. w.val = w.tap.val
      BY <2>2, <2>3 DEF WriteOK
    <3> HIDE DEF w
    <3> QED BY <2>3, <3>1, DocsApart DEF WriteOK
  <2>6. queue' = [queue EXCEPT ![d] = Append(Tail(queue[d]), w)]
    BY <1>6 DEF AnswerMirror, DequeueThenEnqueue
  <2> QED BY <1>2, <1>5, <2>4, <2>5, <2>6
<1>7. CASE AnswerProfile(d) \/ AnswerRow(d) \/ AnswerSilent(d)
  <2>1. queue' = [queue EXCEPT ![d] = Tail(queue[d])]
    BY <1>7 DEF AnswerProfile, AnswerRow, AnswerSilent, Dequeue
  <2> QED BY <1>2, <1>5, <2>1
<1> QED BY <1>6, <1>7 DEF AnswerAny

LEMMA AnswerBlocks ==
  ASSUME FirstInv, [Next]_vars, NEW d \in Devices, AnswerAny(d), NEW b \in blocks'
  PROVE  BlockOK(b)'
<1>1. CASE b \in blocks
  BY <1>1, BlockStays DEF FirstInv
<1>2. CASE b \notin blocks
  <2>1. /\ AnswerProfile(d)
        /\ b \in [dev : {d}, tap : {Oldest(d).tap},
                  kind : IF Oldest(d).tap.val THEN {"notify", "feed"} ELSE {"feed"}]
    BY <1>2 DEF AnswerAny, AnswerMirror, AnswerProfile, AnswerRow, AnswerSilent
  <2>2. /\ b.dev = d /\ b.tap = Oldest(d).tap
        /\ b.kind = "notify" => Oldest(d).tap.val
    BY <2>1
  <2>3. Answer(d, "done")
    BY <2>1 DEF AnswerProfile
  <2>4. CASE b.tap.val
    <3>1. Known(Account[b.dev], b.tap.target)'
      BY <2>2, <2>3, <2>4, AnswerKnows
    <3> QED BY <3>1 DEF BlockOK
  <2>5. CASE ~b.tap.val
    BY <2>2, <2>5 DEF BlockOK
  <2> QED BY <2>4, <2>5
<1> QED BY <1>1, <1>2

(* The backend stores what the write tells, which is known; a second write of
   a follow makes the follow known. *)
LEMMA ApplyKeeps ==
  ASSUME FirstInv, [Next]_vars, NEW d \in Devices, Apply(d),
         NEW q, q = queue[d], NEW a, a = applied[d], NEW w, w = q[a + 1]
  PROVE  DocumentsOK' /\ \A e \in Devices : QueueOK(e)'
<1>1. /\ TypeOK /\ DocumentsOK /\ \A e \in Devices : QueueOK(e)
      /\ queue \in [Devices -> Seq(Writes)] /\ applied \in [Devices -> Nat]
      /\ db \in [Docs -> BOOLEAN]
  BY DEF FirstInv, TypeOK
<1>2. /\ applied[d] + 1 \in 1..Len(queue[d])
      /\ db' = [db EXCEPT ![w.doc] = w.val]
      /\ applied' = [applied EXCEPT ![d] = applied[d] + 1] /\ queue' = queue
  BY <1>1 DEF Apply, Commit
<1>3. w \in Writes /\ WriteOK(d, w)
  BY <1>1, <1>2 DEF QueueOK
<1>4. w.doc \in Docs /\ w.val \in BOOLEAN /\ w.tap.target \in Users /\ Account[d] \in Users
  BY <1>3, AccountType DEF Writes, Taps
<1>5. \A x \in Docs : db'[x] = IF x = w.doc THEN w.val ELSE db[x]
  BY <1>1, <1>2, <1>4
<1>6. DocumentsOK'
  <2>1. ASSUME NEW u \in Users, NEW t \in Users, db'[NotificationDoc(t, u)]
        PROVE  Known(u, t)'
    <3>1. NotificationDoc(t, u) \in Docs
      BY DocsType
    <3>2. Known(u, t)
      BY <1>1, <1>3, <1>5, <2>1, <3>1 DEF DocumentsOK, WriteOK
    <3> QED BY <1>1, <3>2, KnownStays
  <2>2. ASSUME NEW u \in Users, NEW p \in Posts, db'[FeedDoc(u, p)], Owner[p] # u
        PROVE  Known(u, Owner[p])'
    <3>1. FeedDoc(u, p) \in Docs
      BY DEF FeedDoc, Docs
    <3>2. Known(u, Owner[p])
      BY <1>1, <1>3, <1>5, <2>2, <3>1 DEF DocumentsOK, WriteOK
    <3> QED BY <1>1, <3>2, KnownStays
  <2> QED BY <2>1, <2>2 DEF DocumentsOK
<1>7. AppliedOK(d, w)'
  <2>1. ASSUME w.then = "done", w.tap.val PROVE <<Account[d], w.tap.target>> \in wasFollower'
    <3>1. w.val = w.tap.val /\ w.doc = FollowersDoc(w.tap.target, Account[d])
      BY <1>3, <2>1 DEF WriteOK
    <3>2. db'[FollowersDoc(w.tap.target, Account[d])]
      BY <1>4, <1>5, <2>1, <3>1
    <3>3. <<Account[d], w.tap.target>> \in
            {x \in Users \X Users : db'[FollowersDoc(x[2], x[1])]}
      BY <1>4, <3>2
    <3> QED BY <3>3 DEF Apply
  <2> QED BY <1>2, <2>1 DEF AppliedOK, Known
<1>8. QueueOK(d)'
  <2>1. queue'[d] = q /\ applied'[d] = a + 1 /\ a \in Nat
    BY <1>1, <1>2
  <2>2. ASSUME NEW i \in 1..Len(q) PROVE WriteOK(d, q[i])'
    <3>1. WriteOK(d, q[i])
      BY <1>1, <2>2 DEF QueueOK
    <3> QED BY <1>1, <3>1, WriteStays
  <2>3. ASSUME NEW i \in 1..(a + 1) PROVE AppliedOK(d, q[i])'
    <3>1. CASE i = a + 1
      BY <1>7, <3>1
    <3>2. CASE i \in 1..a
      <4>1. AppliedOK(d, q[i])
        BY <1>1, <3>2 DEF QueueOK
      <4> QED BY <1>1, <4>1, AppliedStays
    <3> QED BY <2>1, <2>3, <3>1, <3>2
  <2> QED BY <2>1, <2>2, <2>3, QueueNext
<1>9. ASSUME NEW e \in Devices \ {d} PROVE QueueOK(e)'
  BY <1>1, <1>2, <1>9, SameQueue
<1> QED BY <1>6, <1>8, <1>9

(* A reopened stream, or the end of a process, takes nothing back. *)
LEMMA ResetKeeps ==
  ASSUME FirstInv, [Next]_vars, NEW d \in Devices, Reopen(d) \/ LoseProcess(d)
  PROVE  /\ \A e \in Devices : QueueOK(e)'
         /\ db' = db
<1>1. /\ TypeOK /\ \A e \in Devices : QueueOK(e)
      /\ queue \in [Devices -> Seq(Writes)] /\ applied \in [Devices -> Nat]
  BY DEF FirstInv, TypeOK
<1>2. /\ db' = db /\ applied'[d] = 0
      /\ \A e \in Devices \ {d} : queue'[e] = queue[e] /\ applied'[e] = applied[e]
  BY <1>1 DEF Reopen, LoseProcess
<1>3. ASSUME NEW e \in Devices \ {d} PROVE QueueOK(e)'
  BY <1>1, <1>2, <1>3, SameQueue
<1>4. QueueOK(d)'
  <2> DEFINE q == [i \in DOMAIN queue[d] |-> Forgotten(queue[d][i])]
  <2>1. CASE queue' = queue
    BY <1>1, <1>2, <2>1, QueueParts DEF QueueOK
  <2>2. CASE queue'[d] = q
    <3>1. ASSUME NEW i \in 1..Len(queue[d]) PROVE WriteOK(d, Forgotten(queue[d][i]))
      <4>1. queue[d][i] \in Writes /\ WriteOK(d, queue[d][i])
        BY <1>1, <3>1 DEF QueueOK
      <4>2. /\ Forgotten(queue[d][i]).doc = queue[d][i].doc
            /\ Forgotten(queue[d][i]).val = queue[d][i].val
            /\ Forgotten(queue[d][i]).then = "none"
        BY <4>1 DEF Forgotten, Writes
      <4> QED BY <4>1, <4>2 DEF WriteOK
    <3>2. Len(q) = Len(queue[d]) /\ \A i \in 1..Len(queue[d]) : q[i] = Forgotten(queue[d][i])
      BY <1>1
    <3>3. \A i \in 1..Len(q) : WriteOK(d, q[i])
      BY <3>1, <3>2
    <3>4. 1..0 = {}
      OBVIOUS
    <3> HIDE DEF q
    <3> QED BY <1>1, <1>2, <2>2, <3>3, <3>4, QueueParts
  <2> QED BY <1>1, <2>1, <2>2 DEF Reopen, LoseProcess
<1> QED BY <1>2, <1>3, <1>4

LEMMA StepFirst == FirstInv /\ [Next]_vars => FirstInv'
<1> SUFFICES ASSUME FirstInv, [Next]_vars PROVE FirstInv'
  OBVIOUS
<1>1. TypeOK /\ TypeOK' /\ DocumentsOK
  BY StepType DEF FirstInv
<1>2. ASSUME \A d \in Devices : QueueOK(d)', db' = db, \A b \in blocks' : BlockOK(b)'
      PROVE  FirstInv'
  BY <1>1, <1>2, DocumentsStay DEF FirstInv
<1>3. ASSUME UNCHANGED storeVars PROVE (\A d \in Devices : QueueOK(d)') /\ db' = db
  BY <1>1, <1>3, SameQueue DEF FirstInv, storeVars
<1>4. ASSUME NEW b \in blocks PROVE BlockOK(b)'
  BY <1>1, BlockStays DEF FirstInv
<1>5. ASSUME NEW d \in Devices, UserStep(d) PROVE FirstInv'
  <2>1. UNCHANGED storeVars
    BY <1>5 DEF UserStep, OpenProfile, TapProfile, TapRow, Refresh
  <2>2. ASSUME NEW b \in blocks', b \notin blocks PROVE b.kind = "follow"
    <3>1. CASE blocks' = blocks
      BY <2>2, <3>1
    <3>2. ASSUME NEW t, NEW v, NEW x, Tap(d, t, v, x) PROVE b.kind = "follow"
      BY <2>2, <3>2 DEF Tap
    <3> QED BY <1>5, <3>1, <3>2
        DEF UserStep, OpenProfile, TapProfile, TapRow, Refresh
  <2>3. ASSUME NEW b \in blocks' PROVE BlockOK(b)'
    BY <1>4, <2>2, <2>3 DEF BlockOK
  <2> QED BY <1>2, <1>3, <2>1, <2>3
<1>6. ASSUME NEW d \in Devices, ReadStep(d) PROVE FirstInv'
  <2>1. UNCHANGED storeVars /\ blocks' = blocks
    BY <1>6 DEF ReadStep, NotificationsArrive, ProfileCheckResult, RowCheckResult, CheckFails
  <2> QED BY <1>2, <1>3, <1>4, <2>1
<1>7. ASSUME NEW d \in Devices, BlockStep(d) PROVE FirstInv'
  <2>1. PICK b \in blocks : RunFollowBlock(b) \/ RunNotifyBlock(b) \/ RunFeedBlock(b)
    BY <1>7 DEF BlockStep
  <2>2. blocks' \subseteq blocks
    BY <2>1 DEF RunFollowBlock, RunNotifyBlock, RunFeedBlock
  <2>3. (\A e \in Devices : QueueOK(e)') /\ db' = db
    BY <2>1, BlockKeeps
  <2> QED BY <1>2, <1>4, <2>2, <2>3
<1>8. ASSUME NEW d \in Devices, AnswerAny(d) PROVE FirstInv'
  BY <1>2, <1>8, AnswerKeeps, AnswerBlocks
<1>9. ASSUME NEW d \in Devices, Apply(d) PROVE FirstInv'
  <2>1. blocks' = blocks
    BY <1>9 DEF Apply
  <2> QED BY <1>1, <1>4, <1>9, <2>1, ApplyKeeps DEF FirstInv
<1>10. ASSUME NEW d \in Devices, Resend(d) \/ Crash(d) PROVE FirstInv'
  <2>1. blocks' \subseteq blocks /\ (Reopen(d) \/ LoseProcess(d))
    BY <1>10 DEF Resend, Crash, followVars
  <2> QED BY <1>2, <1>4, <2>1, ResetKeeps
<1>11. CASE UNCHANGED vars
  <2>1. UNCHANGED storeVars /\ blocks' = blocks
    BY <1>11 DEF vars, followVars
  <2> QED BY <1>2, <1>3, <1>4, <2>1
<1> QED BY <1>5, <1>6, <1>7, <1>8, <1>9, <1>10, <1>11 DEF Next

(* Whatever the number of phones, also of one account, the order of their
   blocks and answers and the faults: nobody is notified by, and nobody gets
   the posts of a user in the feed for, a follow that never was stored. *)
THEOREM FollowedFirstCorrect == Spec => []FollowedFirst
<1>1. Spec => []FirstInv
  BY InitFirst, StepFirst, PTL DEF Spec
<1>2. FirstInv => FollowedFirst
  BY DEF FirstInv, DocumentsOK, Known, Refusal, FollowedFirst
<1> QED BY <1>1, <1>2, PTL

-----------------------------------------------------------------------------
(* ProfileShowsFollow.  The flag of a header is set to the value of a tap
   long after its first write entered the queue, and by a read at any time.
   What the phone will show is decided by the queue: no write of the following
   document x comes after a first write of the pair but another one; when no
   first write is left, the last second write has the value the phone sees; when
   none of either is left, so has the header, unless a read is to set it. *)
FirstLast(q, x, t) ==
  \A i, j \in 1..Len(q) :
    i < j /\ Awaits("target", q[i], "mirror", t) /\ q[j].doc = x => q[j].then = "mirror"

NoFirst(q, t)  == \A i \in 1..Len(q) : ~Awaits("target", q[i], "mirror", t)
NoSecond(q, t) == \A i \in 1..Len(q) : ~Awaits("target", q[i], "done", t)

SecondsSee(q, x, t, stored) ==
  NoFirst(q, t) =>
    \A i \in 1..Len(q) : IsLast("target", q, Len(q), "done", t, i) => Sees(q, x, stored, q[i].val)

HeaderSees(q, x, t, stored, shown, unread) ==
  NoFirst(q, t) /\ NoSecond(q, t) /\ ~unread => Sees(q, x, stored, shown)

RestOK(q, x, t, stored, shown, unread) ==
  /\ FirstLast(q, x, t)
  /\ SecondsSee(q, x, t, stored)
  /\ HeaderSees(q, x, t, stored, shown, unread)

(* A first write is added. *)
LEMMA FirstRest ==
  ASSUME NEW S, NEW q \in Seq(S), NEW w \in S, NEW x, NEW t, NEW stored, NEW shown, NEW unread,
         Awaits("target", w, "mirror", t), FirstLast(q, x, t)
  PROVE  RestOK(Append(q, w), x, t, stored, shown, unread)
<1> DEFINE q2 == Append(q, w)
<1>1. /\ Len(q) \in Nat /\ Len(q2) = Len(q) + 1 /\ q2[Len(q) + 1] = w
      /\ \A i \in 1..Len(q) : q2[i] = q[i]
  BY AppendFacts
<1> HIDE DEF q2
<1>2. /\ \A i \in 1..Len(q2) : i \in 1..Len(q) \/ i = Len(q) + 1
      /\ Len(q) + 1 \in 1..Len(q2)
      /\ \A i, j \in 1..Len(q2) : i < j => i \in 1..Len(q)
  BY <1>1
<1>3. FirstLast(q2, x, t)
  BY <1>1, <1>2 DEF FirstLast, Awaits
<1>4. ~NoFirst(q2, t)
  BY <1>1, <1>2 DEF NoFirst
<1> QED BY <1>3, <1>4 DEF RestOK, SecondsSee, HeaderSees, q2

(* Writes are added that are of neither kind for this pair, and not to x. *)
LEMMA OtherRest ==
  ASSUME NEW S, NEW q \in Seq(S), NEW q2 \in Seq(S), NEW x, NEW t,
         NEW stored, NEW shown, NEW unread,
         Len(q) <= Len(q2), \A i \in 1..Len(q) : q2[i] = q[i],
         \A i \in Len(q)+1..Len(q2) :
            /\ q2[i].doc # x
            /\ ~Awaits("target", q2[i], "mirror", t) /\ ~Awaits("target", q2[i], "done", t),
         RestOK(q, x, t, stored, shown, unread)
  PROVE  RestOK(q2, x, t, stored, shown, unread)
<1>0. Len(q) \in Nat /\ Len(q2) \in Nat
  OBVIOUS
<1>1. /\ \A i \in 1..Len(q) : i \in 1..Len(q2) /\ q2[i] = q[i]
      /\ \A i \in 1..Len(q2) : i \in 1..Len(q) \/ i \in Len(q)+1..Len(q2)
  BY <1>0
<1>2. NoFirst(q2, t) => NoFirst(q, t)
  BY <1>1 DEF NoFirst
<1>3. NoSecond(q2, t) => NoSecond(q, t)
  BY <1>1 DEF NoSecond
<1>4. \A v : Sees(q, x, stored, v) => Sees(q2, x, stored, v)
  BY ExtendSees
<1>5. FirstLast(q2, x, t)
  <2> SUFFICES ASSUME NEW i \in 1..Len(q2), NEW j \in 1..Len(q2), i < j,
                      Awaits("target", q2[i], "mirror", t), q2[j].doc = x
               PROVE  q2[j].then = "mirror"
    BY DEF FirstLast
  <2>1. i \in 1..Len(q) /\ j \in 1..Len(q)
    BY <1>1
  <2>2. Awaits("target", q[i], "mirror", t) /\ q[j].doc = x /\ q2[j] = q[j]
    BY <1>1, <2>1
  <2> QED BY <2>1, <2>2 DEF RestOK, FirstLast
<1>6. SecondsSee(q2, x, t, stored)
  <2> SUFFICES ASSUME NoFirst(q2, t), NEW i \in 1..Len(q2),
                      IsLast("target", q2, Len(q2), "done", t, i)
               PROVE  Sees(q2, x, stored, q2[i].val)
    BY DEF SecondsSee
  <2>1. Awaits("target", q2[i], "done", t)
    BY DEF IsLast
  <2>2. i \in 1..Len(q) /\ q2[i] = q[i]
    BY <1>1, <2>1
  <2>3. IsLast("target", q, Len(q), "done", t, i)
    BY <1>1, <2>2 DEF IsLast
  <2> QED BY <1>2, <1>4, <2>2, <2>3 DEF RestOK, SecondsSee
<1>7. HeaderSees(q2, x, t, stored, shown, unread)
  BY <1>2, <1>3, <1>4 DEF RestOK, HeaderSees
<1> QED BY <1>5, <1>6, <1>7 DEF RestOK

(* The next write is applied. *)
LEMMA CommitRest ==
  ASSUME NEW S, NEW q \in Seq(S), NEW a \in Nat, NEW x, NEW t, NEW stored, NEW after,
         NEW shown, NEW unread,
         a < Len(q), after = IF q[a + 1].doc = x THEN q[a + 1].val ELSE stored,
         Stored(q, a, x, stored), RestOK(q, x, t, stored, shown, unread)
  PROVE  RestOK(q, x, t, after, shown, unread)
<1>1. \A v : Sees(q, x, stored, v) => Sees(q, x, after, v)
  BY CommitSees
<1> QED BY <1>1 DEF RestOK, SecondsSee, HeaderSees

(* A first write of the pair is answered, and its second write queued. *)
LEMMA AnswerFirstRest ==
  ASSUME NEW S, NEW q \in Seq(S), NEW w \in S, NEW a \in Nat, NEW x, NEW t, NEW stored,
         NEW shown, NEW unread,
         q # <<>>, 0 < a, a <= Len(q), Stored(q, a, x, stored),
         Awaits("target", q[1], "mirror", t), q[1].doc = x,
         \A i \in 1..Len(q) : q[i].then = "mirror" /\ q[i].doc = x
                                => Awaits("target", q[i], "mirror", t),
         Awaits("target", w, "done", t), w.doc # x, w.val = q[1].val,
         RestOK(q, x, t, stored, shown, unread)
  PROVE  RestOK(Append(Tail(q), w), x, t, stored, shown, unread)
<1> DEFINE p == Tail(q)
           q2 == Append(p, w)
           n == Len(q)
<1>0. /\ p \in Seq(S) /\ Len(p) = n - 1 /\ n \in Nat \ {0}
      /\ \A i \in 1..Len(p) : p[i] = q[i + 1]
  BY TailFacts
<1> HIDE DEF p
<1>1. /\ q2 \in Seq(S) /\ Len(q2) = Len(p) + 1 /\ q2[Len(p) + 1] = w
      /\ \A i \in 1..Len(p) : q2[i] = p[i]
  BY <1>0, AppendFacts
<1> HIDE DEF q2, n
<1>2. /\ Len(q2) = n /\ q2[n] = w /\ n \in 1..n /\ 1 \in 1..n
      /\ \A i \in 1..n-1 : i + 1 \in 1..n /\ i \in 1..n /\ q2[i] = q[i + 1]
      /\ \A i \in 1..n : i = n \/ i \in 1..n-1
      /\ \A i \in 1..n : i = 1 \/ (i - 1 \in 1..n-1 /\ q2[i - 1] = q[i])
  BY <1>0, <1>1
<1>3. FirstLast(q2, x, t)
  <2> SUFFICES ASSUME NEW i \in 1..n, NEW j \in 1..n, i < j,
                      Awaits("target", q2[i], "mirror", t), q2[j].doc = x
               PROVE  q2[j].then = "mirror"
    BY <1>2 DEF FirstLast
  <2>1. i \in 1..n-1 /\ j \in 1..n-1
    BY <1>0, <1>2
  <2>2. i + 1 \in 1..n /\ j + 1 \in 1..n /\ i + 1 < j + 1 /\ q2[i] = q[i + 1] /\ q2[j] = q[j + 1]
    BY <1>2, <2>1
  <2> QED BY <2>2 DEF RestOK, FirstLast, n
<1>4. ASSUME NoFirst(q2, t) PROVE Sees(q2, x, stored, w.val)
  <2>1. \A j \in 1..n : q[j].doc = x => j = 1
    <3> SUFFICES ASSUME NEW j \in 1..n, q[j].doc = x, j # 1 PROVE FALSE
      OBVIOUS
    <3>1. q[j].then = "mirror"
      <4>1. 1 < j
        BY <1>0
      <4> QED BY <1>2, <4>1 DEF RestOK, FirstLast, n
    <3>2. Awaits("target", q2[j - 1], "mirror", t) /\ j - 1 \in 1..n
      BY <1>2, <3>1 DEF n
    <3> QED BY <1>2, <1>4, <3>2 DEF NoFirst
  <2>2. Sees(q, x, stored, w.val)
    <3>1. \A i \in 1..n : LastWrite(q, n, x, i) => i = 1
      BY <2>1 DEF LastWrite
    <3> QED BY <1>2, <3>1 DEF Sees, n
  <2>3. Sees(p, x, stored, w.val)
    BY <2>2, AnswerSees DEF p
  <2>4. Len(p) <= Len(q2) /\ \A i \in Len(p)+1..Len(q2) : q2[i].doc # x
    BY <1>0, <1>1
  <2> QED BY <1>0, <1>1, <2>3, <2>4, ExtendSees
<1>5. SecondsSee(q2, x, t, stored)
  <2> SUFFICES ASSUME NoFirst(q2, t), NEW i \in 1..n, IsLast("target", q2, n, "done", t, i)
               PROVE  Sees(q2, x, stored, q2[i].val)
    BY <1>2 DEF SecondsSee
  <2>1. n <= i
    BY <1>2 DEF IsLast
  <2>2. i = n
    BY <1>0, <2>1
  <2> QED BY <1>2, <1>4, <2>2
<1>6. ~NoSecond(q2, t)
  BY <1>2 DEF NoSecond
<1> QED BY <1>3, <1>5, <1>6 DEF RestOK, HeaderSees, q2, p

(* Another write is answered; if it is a second one of the pair, the header
   takes its value. *)
LEMMA AnswerOtherRest ==
  ASSUME NEW S, NEW q \in Seq(S), NEW a \in Nat, NEW x, NEW t, NEW stored,
         NEW shown, NEW after, NEW unread,
         q # <<>>, 0 < a, a <= Len(q), Stored(q, a, x, stored),
         ~Awaits("target", q[1], "mirror", t),
         IF Awaits("target", q[1], "done", t) THEN after = q[1].val ELSE after = shown,
         RestOK(q, x, t, stored, shown, unread)
  PROVE  RestOK(Tail(q), x, t, stored, after, unread)
<1> DEFINE p == Tail(q)
           n == Len(q)
<1>0. /\ p \in Seq(S) /\ Len(p) = n - 1 /\ n \in Nat \ {0}
      /\ \A i \in 1..Len(p) : p[i] = q[i + 1]
  BY TailFacts
<1>1. \A v : Sees(q, x, stored, v) => Sees(p, x, stored, v)
  BY AnswerSees
<1> HIDE DEF p, n
<1>2. /\ 1 \in 1..n
      /\ \A i \in 1..n-1 : i + 1 \in 1..n /\ p[i] = q[i + 1]
      /\ \A i \in 1..n : i = 1 \/ (i - 1 \in 1..n-1 /\ p[i - 1] = q[i])
  BY <1>0
<1>3. NoFirst(p, t) => NoFirst(q, t)
  BY <1>0, <1>2 DEF NoFirst, n
<1>4. FirstLast(p, x, t)
  <2> SUFFICES ASSUME NEW i \in 1..n-1, NEW j \in 1..n-1, i < j,
                      Awaits("target", p[i], "mirror", t), p[j].doc = x
               PROVE  p[j].then = "mirror"
    BY <1>0 DEF FirstLast
  <2>1. i + 1 \in 1..n /\ j + 1 \in 1..n /\ i + 1 < j + 1 /\ p[i] = q[i + 1] /\ p[j] = q[j + 1]
    BY <1>2
  <2> QED BY <2>1 DEF RestOK, FirstLast, n
<1>5. SecondsSee(p, x, t, stored)
  <2> SUFFICES ASSUME NoFirst(p, t), NEW i \in 1..n-1, IsLast("target", p, n - 1, "done", t, i)
               PROVE  Sees(p, x, stored, p[i].val)
    BY <1>0 DEF SecondsSee
  <2>1. ASSUME NEW j \in 1..n, Awaits("target", q[j], "done", t) PROVE j <= i + 1
    <3>1. CASE j = 1
      BY <3>1
    <3>2. CASE j # 1
      <4>1. j - 1 \in 1..n-1 /\ Awaits("target", p[j - 1], "done", t)
        BY <1>2, <2>1, <3>2
      <4>2. j - 1 <= i
        BY <4>1 DEF IsLast
      <4> QED BY <4>2
    <3> QED BY <3>1, <3>2
  <2>2. IsLast("target", q, n, "done", t, i + 1)
    BY <1>2, <2>1 DEF IsLast
  <2>3. Sees(q, x, stored, q[i + 1].val)
    BY <1>2, <1>3, <2>2 DEF RestOK, SecondsSee, n
  <2> QED BY <1>1, <1>2, <2>3
<1>6. HeaderSees(p, x, t, stored, after, unread)
  <2> SUFFICES ASSUME NoFirst(p, t), NoSecond(p, t), ~unread PROVE Sees(p, x, stored, after)
    BY DEF HeaderSees
  <2>1. \A j \in 1..n : Awaits("target", q[j], "done", t) => j = 1
    BY <1>0, <1>2 DEF NoSecond
  <2>2. CASE Awaits("target", q[1], "done", t)
    <3>1. IsLast("target", q, n, "done", t, 1)
      BY <1>2, <2>1, <2>2 DEF IsLast
    <3> QED BY <1>1, <1>2, <1>3, <2>2, <3>1 DEF RestOK, SecondsSee, n
  <2>3. CASE ~Awaits("target", q[1], "done", t)
    <3>1. NoSecond(q, t)
      BY <2>1, <2>3 DEF NoSecond, n
    <3> QED BY <1>1, <1>3, <2>3, <3>1 DEF RestOK, HeaderSees
  <2> QED BY <2>2, <2>3
<1> QED BY <1>4, <1>5, <1>6 DEF RestOK, p

(* Who has a row.  A tap through a row is on a user who has notified the
   phone's owner, and no tap is on the owner himself, so that a notification
   that is queued is for somebody else and no phone has one of its own owner
   before the backend has it. *)
Notified(d, t) == db[NotificationDoc(Account[d], t)]

TapOK(d, tap) ==
  tap.target # Account[d] /\ (tap.screen = "row" => Notified(d, tap.target))

NotifyOK(d, w) ==
  \A u, t \in Users : w.doc = NotificationDoc(t, u) => w.val /\ u = Account[d] /\ u # t

RowsInv ==
  /\ \A u \in Users : ~db[NotificationDoc(u, u)]
  /\ \A d \in Devices, t \in Users : rows[d][t].listed => Notified(d, t)
  /\ \A b \in blocks : TapOK(b.dev, b.tap)
  /\ \A d \in Devices : \A i \in 1..Len(queue[d]) :
       TapOK(d, queue[d][i].tap) /\ NotifyOK(d, queue[d][i])

(* The header of t on phone d, its following document, and what the queue will
   make of them.  Nothing is claimed of a phone with a fault other than the
   loss of its process, or with a row for t. *)
Header(d, t) ==
  RestOK(queue[d], FollowingDoc(Account[d], t), t, db[FollowingDoc(Account[d], t)],
         profile[d][t].isFollowed, ~profile[d][t].open \/ <<d, "profile", t>> \in checks)

Claimed(d, t) == Sole(d) /\ failed[d] \in {"none", "crash"} /\ ~Notified(d, t)

StoredOK(d, t) ==
  Stored(queue[d], applied[d], FollowingDoc(Account[d], t), db[FollowingDoc(Account[d], t)])

HeaderInv ==
  /\ MirrorInv /\ FirstInv /\ RowsInv
  /\ \A d \in Devices, t \in Users : Sole(d) => StoredOK(d, t)
  /\ \A d \in Devices, t \in Users : Claimed(d, t) => Header(d, t)

-----------------------------------------------------------------------------
(* RowsInv is inductive. *)

(* A write that is queued after a step was queued before, or is the second
   write of one that was, or comes from a block. *)
Descends(d, w) ==
  \E j \in 1..Len(queue[d]) :
    LET v == queue[d][j]
    IN  w.tap = v.tap /\ \/ w.doc = v.doc /\ w.val = v.val
                         \/ w.doc = FollowersDoc(v.tap.target, Account[d])

FromBlock(d, w) ==
  \E b \in blocks :
    /\ b.dev = d /\ w.tap = b.tap
    /\ \/ w.doc = NotificationDoc(b.tap.target, Account[d]) /\ w.val
       \/ \A u, t \in Users : w.doc # NotificationDoc(t, u)

Origins == \A d \in Devices : \A i \in 1..Len(queue'[d]) :
             Descends(d, queue'[d][i]) \/ FromBlock(d, queue'[d][i])

LEMMA SameOrigin ==
  ASSUME NEW d \in Devices, NEW i \in 1..Len(queue[d])
  PROVE  Descends(d, queue[d][i])
BY DEF Descends

LEMMA BlockOrigins ==
  ASSUME TypeOK, NEW b \in blocks, RunFollowBlock(b) \/ RunNotifyBlock(b) \/ RunFeedBlock(b)
  PROVE  Origins
<1> DEFINE d == b.dev
<1>1. /\ d \in Devices /\ b.tap \in Taps /\ b.tap.target \in Users
      /\ Account[d] \in Users /\ b.tap.val \in BOOLEAN
      /\ queue \in [Devices -> Seq(Writes)] /\ queue[d] \in Seq(Writes)
  BY AccountType DEF TypeOK, Blocks, Taps
<1>2. ASSUME NEW q \in Seq(Writes), queue' = [queue EXCEPT ![d] = queue[d] \o q],
             \A i \in 1..Len(q) : FromBlock(d, q[i])
      PROVE  Origins
  <2>1. ASSUME NEW e \in Devices \ {d}, NEW i \in 1..Len(queue'[e]) PROVE Descends(e, queue'[e][i])
    BY <1>1, <1>2, <2>1, SameOrigin
  <2>2. ASSUME NEW i \in 1..Len(queue'[d])
        PROVE  Descends(d, queue'[d][i]) \/ FromBlock(d, queue'[d][i])
    <3>1. queue'[d] = queue[d] \o q
      BY <1>1, <1>2
    <3>2. \/ i \in 1..Len(queue[d]) /\ queue'[d][i] = queue[d][i]
          \/ i - Len(queue[d]) \in 1..Len(q) /\ queue'[d][i] = q[i - Len(queue[d])]
      BY <1>1, <3>1, ConcatFacts
    <3> QED BY <1>1, <1>2, <3>2, SameOrigin
  <2> QED BY <2>1, <2>2 DEF Origins
<1>3. ASSUME NEW w \in Writes, Enqueue(d, w), FromBlock(d, w) PROVE Origins
  <2>1. /\ <<w>> \in Seq(Writes)
        /\ \A i \in 1..Len(<<w>>) : <<w>>[i] = w
        /\ Append(queue[d], w) = queue[d] \o <<w>>
    BY <1>1
  <2> QED BY <1>2, <1>3, <2>1 DEF Enqueue
<1>4. CASE RunFollowBlock(b)
  <2> DEFINE w == [doc |-> FollowingDoc(Account[d], b.tap.target),
                   val |-> b.tap.val, then |-> "mirror", tap |-> b.tap]
  <2>1. w \in Writes
    BY <1>1, DocsType DEF Writes
  <2>2. FromBlock(d, w)
    BY DocsApart DEF FromBlock
  <2> QED BY <1>3, <1>4, <2>1, <2>2 DEF RunFollowBlock
<1>5. CASE RunNotifyBlock(b)
  <2> DEFINE w == [doc |-> NotificationDoc(b.tap.target, Account[d]),
                   val |-> TRUE, then |-> "none", tap |-> b.tap]
  <2>1. w \in Writes
    BY <1>1, DocsType DEF Writes
  <2>2. FromBlock(d, w)
    BY DEF FromBlock
  <2> QED BY <1>3, <1>5, <2>1, <2>2 DEF RunNotifyBlock
<1>6. CASE RunFeedBlock(b)
  <2>1. ASSUME NEW s \in SetToSeqs(PostsOf(d, b.tap.target)),
               EnqueueAll(d, [i \in DOMAIN s |-> FeedWrite(d, b.tap, s[i])])
        PROVE  Origins
    <3> DEFINE q == [i \in DOMAIN s |-> FeedWrite(d, b.tap, s[i])]
    <3>1. q \in Seq(Writes)
      BY <1>1, FeedWritesType
    <3>2. ASSUME NEW i \in 1..Len(q) PROVE FromBlock(d, q[i])
      <4>1. q[i] = FeedWrite(d, b.tap, s[i])
        BY <3>1
      <4>2. q[i].tap = b.tap /\ q[i].doc = FeedDoc(Account[d], s[i])
        BY <4>1 DEF FeedWrite
      <4> HIDE DEF q
      <4>3. \A u, t \in Users : q[i].doc # NotificationDoc(t, u)
        BY <4>2, DocsApart
      <4> QED BY <4>2, <4>3 DEF FromBlock
    <3> HIDE DEF q
    <3> QED BY <1>2, <2>1, <3>1, <3>2 DEF EnqueueAll, q
  <2>2. CASE UNCHANGED storeVars
    BY <2>2, SameOrigin DEF storeVars, Origins
  <2> QED BY <1>6, <2>1, <2>2 DEF RunFeedBlock
<1> QED BY <1>4, <1>5, <1>6

LEMMA AnswerOrigins ==
  ASSUME TypeOK, NEW d \in Devices, AnswerAny(d)
  PROVE  Origins
<1>1. PICK then : Answer(d, then)
  BY DEF AnswerAny, AnswerMirror, AnswerProfile, AnswerRow, AnswerSilent
<1>2. /\ queue \in [Devices -> Seq(Writes)] /\ queue[d] \in Seq(Writes) /\ queue[d] # <<>>
      /\ Oldest(d) = queue[d][1] /\ Oldest(d) \in Writes
  BY <1>1, TypeParts, AnswerFacts DEF TypeOK, Oldest
<1>3. /\ Tail(queue[d]) \in Seq(Writes)
      /\ Len(Tail(queue[d])) = Len(queue[d]) - 1
      /\ Len(queue[d]) \in Nat \ {0}
      /\ \A i \in 1..Len(Tail(queue[d])) : Tail(queue[d])[i] = queue[d][i + 1]
  BY <1>2, TailFacts
<1>4. \A i \in 1..Len(Tail(queue[d])) : Descends(d, Tail(queue[d])[i])
  <2>1. \A i \in 1..Len(Tail(queue[d])) : i + 1 \in 1..Len(queue[d])
    BY <1>3
  <2> QED BY <1>3, <2>1, SameOrigin
<1>5. queue'[d] = Tail(queue[d])
      \/ \E w \in Writes : queue'[d] = Append(Tail(queue[d]), w) /\ Descends(d, w)
  <2>1. CASE AnswerMirror(d)
    <3> DEFINE w == [Oldest(d) EXCEPT !.doc = FollowersDoc(Oldest(d).tap.target, Account[d]),
                                      !.then = "done"]
    <3>1. queue'[d] = Append(Tail(queue[d]), w)
      BY <1>2, <2>1 DEF AnswerMirror, DequeueThenEnqueue
    <3>2. Oldest(d).tap.target \in Users
      BY <1>2 DEF Writes, Taps
    <3>3. w \in Writes
      BY <1>2, <3>2, AccountType, DocsType DEF Writes
    <3>4. w.tap = Oldest(d).tap /\ w.doc = FollowersDoc(Oldest(d).tap.target, Account[d])
      BY <1>2 DEF Writes
    <3>5. 1 \in 1..Len(queue[d])
      BY <1>3
    <3> HIDE DEF w
    <3>6. Descends(d, w)
      BY <1>2, <3>4, <3>5 DEF Descends
    <3> QED BY <3>1, <3>3, <3>6
  <2>2. CASE AnswerProfile(d) \/ AnswerRow(d) \/ AnswerSilent(d)
    BY <1>2, <2>2 DEF AnswerProfile, AnswerRow, AnswerSilent, Dequeue
  <2> QED BY <2>1, <2>2 DEF AnswerAny
<1>6. \A i \in 1..Len(queue'[d]) : Descends(d, queue'[d][i])
  <2>1. CASE queue'[d] = Tail(queue[d])
    BY <1>4, <2>1
  <2>2. ASSUME NEW w \in Writes, queue'[d] = Append(Tail(queue[d]), w), Descends(d, w),
               NEW i \in 1..Len(queue'[d])
        PROVE  Descends(d, queue'[d][i])
    <3>1. \/ i \in 1..Len(Tail(queue[d])) /\ queue'[d][i] = Tail(queue[d])[i]
          \/ queue'[d][i] = w
      BY <1>3, <2>2, AppendFacts
    <3> QED BY <1>4, <2>2, <3>1
  <2> QED BY <1>5, <2>1, <2>2
<1>7. \A e \in Devices \ {d} : queue'[e] = queue[e]
  BY <1>2 DEF AnswerAny, AnswerMirror, AnswerProfile, AnswerRow, AnswerSilent,
              Dequeue, DequeueThenEnqueue
<1> QED BY <1>6, <1>7, SameOrigin DEF Origins

LEMMA CrashOrigins ==
  ASSUME TypeOK, NEW d \in Devices, LoseProcess(d)
  PROVE  Origins
<1> DEFINE q == [i \in DOMAIN queue[d] |-> Forgotten(queue[d][i])]
<1>1. queue \in [Devices -> Seq(Writes)] /\ queue[d] \in Seq(Writes)
  BY DEF TypeOK
<1>2. /\ Len(q) = Len(queue[d])
      /\ \A i \in 1..Len(queue[d]) : q[i] = Forgotten(queue[d][i]) /\ queue[d][i] \in Writes
  BY <1>1
<1>3. \A i \in 1..Len(q) : Descends(d, q[i])
  <2>1. \A w \in Writes : /\ Forgotten(w).tap = w.tap /\ Forgotten(w).doc = w.doc
                          /\ Forgotten(w).val = w.val
    BY DEF Forgotten, Writes
  <2> HIDE DEF q
  <2> QED BY <1>2, <2>1 DEF Descends
<1>4. queue'[d] = q /\ \A e \in Devices \ {d} : queue'[e] = queue[e]
  BY <1>1 DEF LoseProcess
<1> HIDE DEF q
<1> QED BY <1>3, <1>4, SameOrigin DEF Origins

LEMMA StepOrigins ==
  ASSUME TypeOK, [Next]_vars
  PROVE  Origins
<1>1. CASE UNCHANGED queue
  BY <1>1, SameOrigin DEF Origins
<1>2. ASSUME NEW d \in Devices, UserStep(d) PROVE UNCHANGED queue
  BY <1>2 DEF UserStep, OpenProfile, TapProfile, TapRow, Refresh, storeVars
<1>3. ASSUME NEW d \in Devices, ReadStep(d) PROVE UNCHANGED queue
  BY <1>3 DEF ReadStep, NotificationsArrive, ProfileCheckResult, RowCheckResult, CheckFails, storeVars
<1>4. ASSUME NEW d \in Devices, BlockStep(d) PROVE Origins
  BY <1>4, BlockOrigins DEF BlockStep
<1>5. ASSUME NEW d \in Devices, Apply(d) \/ Resend(d) PROVE UNCHANGED queue
  BY <1>5 DEF Apply, Resend, Commit, Reopen
<1>6. ASSUME NEW d \in Devices, Crash(d) PROVE Origins
  BY <1>6, CrashOrigins DEF Crash
<1>7. CASE UNCHANGED vars
  BY <1>1, <1>7 DEF vars, storeVars
<1> QED BY <1>1, <1>2, <1>3, <1>4, <1>5, <1>6, <1>7, AnswerOrigins DEF Next

(* Notifications are never taken back, and nobody gets one of himself. *)
LEMMA NotesStay ==
  ASSUME TypeOK, RowsInv, [Next]_vars
  PROVE  /\ \A u \in Users : ~db'[NotificationDoc(u, u)]
         /\ \A d \in Devices, t \in Users : Notified(d, t) => Notified(d, t)'
<1>1. CASE UNCHANGED db
  BY <1>1 DEF RowsInv, Notified
<1>2. ASSUME NEW d \in Devices, Commit(d)
      PROVE  /\ \A u \in Users : ~db'[NotificationDoc(u, u)]
             /\ \A e \in Devices, t \in Users : Notified(e, t) => Notified(e, t)'
  <2> DEFINE w == queue[d][applied[d] + 1]
  <2>1. /\ applied[d] + 1 \in 1..Len(queue[d]) /\ w \in Writes
        /\ db \in [Docs -> BOOLEAN] /\ db' = [db EXCEPT ![w.doc] = w.val]
    BY <1>2 DEF TypeOK, Commit
  <2>2. NotifyOK(d, w)
    BY <2>1 DEF RowsInv
  <2> HIDE DEF w
  <2>3. ASSUME NEW u \in Users, NEW t \in Users
        PROVE  /\ db[NotificationDoc(t, u)] => db'[NotificationDoc(t, u)]
               /\ u = t => db'[NotificationDoc(t, u)] = db[NotificationDoc(t, u)]
    <3>1. NotificationDoc(t, u) \in Docs
      BY DocsType
    <3>2. CASE w.doc = NotificationDoc(t, u)
      <4>1. w.val /\ u # t
        BY <2>2, <3>2 DEF NotifyOK
      <4> QED BY <2>1, <3>1, <3>2, <4>1
    <3>3. CASE w.doc # NotificationDoc(t, u)
      BY <2>1, <3>1, <3>3
    <3> QED BY <3>2, <3>3
  <2> QED BY <2>3, AccountType DEF RowsInv, Notified
<1>3. UNCHANGED db \/ \E d \in Devices : Commit(d)
  BY StepKind DEF StoreStep, storeVars, Extends, Answers, Reopen, LoseProcess
<1> QED BY <1>1, <1>2, <1>3

LEMMA TapStays ==
  ASSUME TypeOK, RowsInv, [Next]_vars, NEW d \in Devices, NEW tap, tap.target \in Users,
         TapOK(d, tap)
  PROVE  TapOK(d, tap)'
BY NotesStay DEF TapOK

LEMMA OriginOK ==
  ASSUME TypeOK, RowsInv, [Next]_vars, NEW d \in Devices, NEW w,
         Descends(d, w) \/ FromBlock(d, w)
  PROVE  TapOK(d, w.tap)' /\ NotifyOK(d, w)
<1>1. CASE Descends(d, w)
  <2>1. PICK j \in 1..Len(queue[d]) :
          /\ w.tap = queue[d][j].tap
          /\ \/ w.doc = queue[d][j].doc /\ w.val = queue[d][j].val
             \/ w.doc = FollowersDoc(queue[d][j].tap.target, Account[d])
    BY <1>1 DEF Descends
  <2>2. TapOK(d, queue[d][j].tap) /\ NotifyOK(d, queue[d][j])
    BY DEF RowsInv
  <2>3. queue[d][j] \in Writes
    BY DEF TypeOK
  <2>4. queue[d][j].tap.target \in Users
    BY <2>3 DEF Writes, Taps
  <2>5. TapOK(d, w.tap)'
    BY <2>1, <2>2, <2>4, TapStays
  <2>6. NotifyOK(d, w)
    <3>1. CASE w.doc = queue[d][j].doc /\ w.val = queue[d][j].val
      BY <2>2, <3>1 DEF NotifyOK
    <3>2. CASE w.doc = FollowersDoc(queue[d][j].tap.target, Account[d])
      <4>1. \A u, t \in Users : w.doc # NotificationDoc(t, u)
        BY <3>2, DocsApart
      <4> QED BY <4>1 DEF NotifyOK
    <3> QED BY <2>1, <3>1, <3>2
  <2> QED BY <2>5, <2>6
<1>2. CASE FromBlock(d, w)
  <2>1. PICK b \in blocks :
          /\ b.dev = d /\ w.tap = b.tap
          /\ \/ w.doc = NotificationDoc(b.tap.target, Account[d]) /\ w.val
             \/ \A u, t \in Users : w.doc # NotificationDoc(t, u)
    BY <1>2 DEF FromBlock
  <2>2. TapOK(d, b.tap)
    BY <2>1 DEF RowsInv
  <2>3. b.tap.target \in Users
    BY DEF TypeOK, Blocks, Taps
  <2>4. TapOK(d, w.tap)'
    BY <2>1, <2>2, <2>3, TapStays
  <2>5. NotifyOK(d, w)
    <3>1. CASE w.doc = NotificationDoc(b.tap.target, Account[d]) /\ w.val
      <4> SUFFICES ASSUME NEW u \in Users, NEW t \in Users, w.doc = NotificationDoc(t, u)
                   PROVE  w.val /\ u = Account[d] /\ u # t
        BY DEF NotifyOK
      <4>1. t = b.tap.target /\ u = Account[d]
        BY <3>1 DEF NotificationDoc
      <4> QED BY <2>2, <3>1, <4>1 DEF TapOK
    <3>2. CASE \A u, t \in Users : w.doc # NotificationDoc(t, u)
      BY <3>2 DEF NotifyOK
    <3> QED BY <2>1, <3>1, <3>2
  <2> QED BY <2>4, <2>5
<1> QED BY <1>1, <1>2

(* No phone has a notification queued for its own owner, so it is shown what
   the backend has. *)
LEMMA NotifiersKnown ==
  ASSUME TypeOK, RowsInv, NEW d \in Devices, NEW t \in Users,
         LocalView(d, NotificationDoc(Account[d], t))
  PROVE  Notified(d, t)
<1>1. PendingOn(d, NotificationDoc(Account[d], t)) = {}
  <2> SUFFICES ASSUME NEW i \in 1..Len(queue[d]),
                      queue[d][i].doc = NotificationDoc(Account[d], t)
               PROVE  FALSE
    BY DEF PendingOn
  <2>1. NotifyOK(d, queue[d][i])
    BY DEF RowsInv
  <2> QED BY <2>1, AccountType DEF NotifyOK
<1> QED BY <1>1 DEF LocalView, Notified

LEMMA StepListed ==
  ASSUME TypeOK, RowsInv, [Next]_vars, NEW e \in Devices, NEW t \in Users, rows'[e][t].listed
  PROVE  Notified(e, t)
<1>0. /\ rows \in [Devices -> [Users -> Row]] /\ rows[e] \in [Users -> Row]
      /\ rows[e][t].listed => Notified(e, t)
  BY DEF TypeOK, RowsInv
<1>1. CASE rows'[e] = rows[e]
  BY <1>0, <1>1
<1>2. ASSUME NEW d \in Devices, Refresh(d) \/ NotificationsArrive(d) PROVE Notified(e, t)
  <2>1. CASE d # e
    BY <1>0, <1>1, <1>2, <2>1 DEF Refresh, NotificationsArrive
  <2>2. CASE d = e
    <3>1. ~Refresh(e)
      BY <1>0 DEF Refresh, NoRow
    <3>2. rows' = [rows EXCEPT ![e] = [x \in Users |->
                     [listed |-> x \in Notifiers(e), list |-> FALSE, cell |-> FALSE]]]
      BY <1>2, <2>2, <3>1 DEF NotificationsArrive
    <3>3. t \in Notifiers(e)
      BY <1>0, <3>2
    <3> QED BY <3>3, NotifiersKnown DEF Notifiers
  <2> QED BY <2>1, <2>2
<1>3. ASSUME NEW d \in Devices, NEW x \in Users, RowCheckResult(d, x) PROVE Notified(e, t)
  <2>1. CASE d # e
    BY <1>0, <1>1, <1>3, <2>1 DEF RowCheckResult
  <2>2. CASE d = e
    <3>1. CASE rows[e][x].listed
      <4> DEFINE list == [y \in Users |->
                            IF y = x THEN LocalView(e, FollowingDoc(Account[e], x))
                                     ELSE rows[e][y].list]
      <4>1. rows' = [rows EXCEPT ![e] = [y \in Users |-> [listed |-> rows[e][y].listed,
                                                         list |-> list[y], cell |-> list[y]]]]
        BY <1>3, <2>2, <3>1 DEF RowCheckResult
      <4> HIDE DEF list
      <4>2. rows'[e][t].listed = rows[e][t].listed
        BY <1>0, <4>1
      <4> QED BY <1>0, <4>2
    <3>2. CASE ~rows[e][x].listed
      BY <1>1, <1>3, <2>2, <3>2 DEF RowCheckResult
    <3> QED BY <3>1, <3>2
  <2> QED BY <2>1, <2>2
<1>4. ASSUME NEW d \in Devices, AnswerRow(d) PROVE Notified(e, t)
  <2>1. PICK x : rows' = [rows EXCEPT ![d][x].cell = rows[d][x].listed /\ ~@]
    BY <1>4 DEF AnswerRow
  <2>2. rows'[e][t].listed = rows[e][t].listed
    <3>1. CASE d # e
      BY <1>0, <2>1, <3>1
    <3>2. CASE d = e /\ x # t
      BY <1>0, <2>1, <3>2
    <3>3. CASE d = e /\ x = t
      BY <1>0, <2>1, <3>3 DEF Row
    <3> QED BY <3>1, <3>2, <3>3
  <2> QED BY <1>0, <2>2
<1>5. ASSUME NEW d \in Devices, Crash(d) PROVE Notified(e, t)
  <2>1. CASE d # e
    BY <1>0, <1>1, <1>5, <2>1 DEF Crash
  <2>2. CASE d = e
    BY <1>0, <1>5, <2>2 DEF Crash, NoRow
  <2> QED BY <2>1, <2>2
<1>6. ASSUME NEW d \in Devices, UserStep(d) PROVE Notified(e, t)
  BY <1>1, <1>2, <1>6 DEF UserStep, OpenProfile, TapProfile, TapRow, screens
<1>7. ASSUME NEW d \in Devices, ReadStep(d) PROVE Notified(e, t)
  BY <1>1, <1>2, <1>3, <1>7 DEF ReadStep, ProfileCheckResult, CheckFails, screens
<1>8. ASSUME NEW d \in Devices, BlockStep(d) PROVE Notified(e, t)
  BY <1>1, <1>8 DEF BlockStep, RunFollowBlock, RunNotifyBlock, RunFeedBlock, screens
<1>9. ASSUME NEW d \in Devices, AnswerAny(d) PROVE Notified(e, t)
  BY <1>1, <1>4, <1>9 DEF AnswerAny, AnswerMirror, AnswerProfile, AnswerSilent, screens
<1>10. ASSUME NEW d \in Devices, Apply(d) \/ Resend(d) PROVE Notified(e, t)
  BY <1>1, <1>10 DEF Apply, Resend, followVars, screens
<1>11. CASE UNCHANGED vars
  BY <1>1, <1>11 DEF vars, followVars, screens
<1> QED BY <1>5, <1>6, <1>7, <1>8, <1>9, <1>10, <1>11 DEF Next

(* A new block has the tap of an old one, or of an answered write, or is of a
   tap just made. *)
LEMMA StepBlocks ==
  ASSUME TypeOK, RowsInv, [Next]_vars, NEW b \in blocks'
  PROVE  TapOK(b.dev, b.tap)
<1>0. \A c \in blocks : TapOK(c.dev, c.tap)
  BY DEF RowsInv
<1>1. CASE b \in blocks
  BY <1>0, <1>1
<1>2. ASSUME NEW d \in Devices, NEW t \in Users, TapProfile(d, t) PROVE TapOK(b.dev, b.tap)
  BY <1>1, <1>2 DEF TapProfile, Tap, TapOK
<1>3. ASSUME NEW d \in Devices, NEW t \in Users, TapRow(d, t) PROVE TapOK(b.dev, b.tap)
  <2>1. Notified(d, t)
    BY <1>3 DEF TapRow, RowsInv
  <2>2. t # Account[d]
    BY <2>1, AccountType DEF Notified, RowsInv
  <2>3. b \in blocks \/ (b.dev = d /\ b.tap.target = t)
    BY <1>3 DEF TapRow, Tap
  <2> QED BY <1>1, <2>1, <2>2, <2>3 DEF TapOK
<1>4. ASSUME NEW d \in Devices, AnswerProfile(d) PROVE TapOK(b.dev, b.tap)
  <2>1. queue[d] # <<>> /\ queue[d] \in Seq(Writes)
    BY <1>4 DEF TypeOK, AnswerProfile, Answer, Answered, Refused
  <2>2. 1 \in 1..Len(queue[d]) /\ Oldest(d) = queue[d][1]
    BY <2>1 DEF Oldest
  <2>3. TapOK(d, Oldest(d).tap)
    BY <2>2 DEF RowsInv
  <2>4. b \in blocks \/ (b.dev = d /\ b.tap = Oldest(d).tap)
    BY <1>4 DEF AnswerProfile
  <2> QED BY <1>1, <2>3, <2>4
<1>5. ASSUME NEW d \in Devices, UserStep(d) PROVE TapOK(b.dev, b.tap)
  BY <1>1, <1>2, <1>3, <1>5 DEF UserStep, OpenProfile, Refresh
<1>6. ASSUME NEW d \in Devices, ReadStep(d) PROVE TapOK(b.dev, b.tap)
  BY <1>1, <1>6 DEF ReadStep, NotificationsArrive, ProfileCheckResult, RowCheckResult, CheckFails
<1>7. ASSUME NEW d \in Devices, BlockStep(d) PROVE TapOK(b.dev, b.tap)
  BY <1>1, <1>7 DEF BlockStep, RunFollowBlock, RunNotifyBlock, RunFeedBlock
<1>8. ASSUME NEW d \in Devices, AnswerAny(d) PROVE TapOK(b.dev, b.tap)
  BY <1>1, <1>4, <1>8 DEF AnswerAny, AnswerMirror, AnswerRow, AnswerSilent
<1>9. ASSUME NEW d \in Devices, Apply(d) \/ Resend(d) \/ Crash(d) PROVE TapOK(b.dev, b.tap)
  BY <1>1, <1>9 DEF Apply, Resend, followVars, Crash
<1>10. CASE UNCHANGED vars
  BY <1>1, <1>10 DEF vars, followVars
<1> QED BY <1>5, <1>6, <1>7, <1>8, <1>9, <1>10 DEF Next

LEMMA StepRows == TypeOK /\ RowsInv /\ [Next]_vars => RowsInv'
<1> SUFFICES ASSUME TypeOK, RowsInv, [Next]_vars PROVE RowsInv'
  OBVIOUS
<1>1. TypeOK'
  BY StepType
<1>2. \A u \in Users : ~db'[NotificationDoc(u, u)]
  BY NotesStay
<1>3. \A d \in Devices, t \in Users : rows'[d][t].listed => Notified(d, t)'
  BY StepListed, NotesStay
<1>4. ASSUME NEW b \in blocks' PROVE TapOK(b.dev, b.tap)'
  <2>1. b.dev \in Devices /\ b.tap.target \in Users
    BY <1>1 DEF TypeOK, Blocks, Taps
  <2> QED BY <2>1, StepBlocks, TapStays
<1>5. ASSUME NEW d \in Devices, NEW i \in 1..Len(queue'[d]), NEW w, w = queue'[d][i]
      PROVE  TapOK(d, w.tap)' /\ NotifyOK(d, w)
  <2>1. Descends(d, w) \/ FromBlock(d, w)
    BY <1>5, StepOrigins DEF Origins
  <2> QED BY <2>1, OriginOK
<1> QED BY <1>2, <1>3, <1>4, <1>5 DEF RowsInv, TapOK, NotifyOK, Notified

LEMMA InitRows == Init => RowsInv
<1> SUFFICES ASSUME Init PROVE RowsInv
  OBVIOUS
<1>1. \A u \in Users : ~db[NotificationDoc(u, u)]
  <2> SUFFICES ASSUME NEW u \in Users PROVE ~db[NotificationDoc(u, u)]
    OBVIOUS
  <2>1. NotificationDoc(u, u) \in Docs /\ <<u, u>> \notin InitFollows
    BY DocsType, FollowAssumption DEF FollowAssumption
  <2> QED BY <2>1 DEF Init, NotificationDoc
<1>2. \A d \in Devices, t \in Users : ~rows[d][t].listed
  BY DEF Init, NoRow
<1>3. blocks = {} /\ \A d \in Devices : 1..Len(queue[d]) = {}
  BY DEF Init
<1> QED BY <1>1, <1>2, <1>3 DEF RowsInv

(* What the phone shows when it reads is what Sees describes. *)
LEMMA ViewSees ==
  ASSUME StoreOK, NEW d \in Devices, NEW x
  PROVE  /\ Sees(queue[d], x, db[x], LocalView(d, x))
         /\ \A v : Sees(queue[d], x, db[x], v) => v = LocalView(d, x)
<1> DEFINE P == PendingOn(d, x)
           n == Len(queue[d])
<1>1. P \subseteq 1..n /\ n \in Nat /\ \A i \in 1..n : i \in P <=> queue[d][i].doc = x
  BY DEF PendingOn, StoreOK
<1>2. CASE P = {}
  <2>1. \A i \in 1..n : queue[d][i].doc # x
    BY <1>1, <1>2
  <2>2. LocalView(d, x) = db[x]
    BY <1>2 DEF LocalView
  <2> QED BY <2>1, <2>2 DEF Sees, LastWrite
<1>3. CASE P # {}
  <2> DEFINE last == CHOOSE i \in P : \A j \in P : j <= i
  <2>1. \E i \in P : \A j \in P : j <= i
    BY <1>1, <1>3, LastExists
  <2>2. last \in P /\ \A j \in P : j <= last
    BY <2>1
  <2>3. LocalView(d, x) = queue[d][last].val
    BY <1>3 DEF LocalView
  <2> HIDE DEF last, P
  <2>4. LastWrite(queue[d], n, x, last)
    BY <1>1, <2>2 DEF LastWrite
  <2>5. ASSUME NEW i \in 1..n, LastWrite(queue[d], n, x, i) PROVE i = last
    <3>1. i \in P /\ i <= last /\ last <= i /\ last \in 1..n
      BY <1>1, <2>2, <2>4, <2>5 DEF LastWrite
    <3> QED BY <1>1, <3>1
  <2>6. last \in 1..n /\ queue[d][last].doc = x
    BY <2>4 DEF LastWrite
  <2> QED BY <2>3, <2>4, <2>5, <2>6 DEF Sees
<1> QED BY <1>2, <1>3

-----------------------------------------------------------------------------
(* HeaderInv is inductive.  In what follows, phone e is the one whose header
   is looked at, and d the one that makes the step. *)

(* What is claimed of a phone after a step was claimed before it. *)
LEMMA ClaimedBefore ==
  ASSUME TypeOK, RowsInv, [Next]_vars, NEW e \in Devices, NEW t \in Users, Claimed(e, t)'
  PROVE  /\ Claimed(e, t)
         /\ failed'[e] = failed[e] \/ failed'[e] = "crash"
<1>1. failed'[e] = failed[e] \/ (failed[e] = "none" /\ failed'[e] \in {"crash", "reject", "readfail"})
  <2>1. UNCHANGED failed \/ \E d \in Devices, f \in {"crash", "reject", "readfail"} : Fails(d, f)
    BY StepKind DEF StoreStep, Extends, Answers
  <2> QED BY <2>1 DEF Fails, TypeOK
<1>2. ~Notified(e, t)
  BY NotesStay DEF Claimed
<1> QED BY <1>1, <1>2 DEF Claimed, Sole

(* The screen keeps what it shows of t, or the header is closed or unread. *)
HeaderKept(e, t) ==
  profile'[e][t].open /\ <<e, "profile", t>> \notin checks' =>
    /\ profile[e][t].open /\ <<e, "profile", t>> \notin checks
    /\ profile'[e][t].isFollowed = profile[e][t].isFollowed

LEMMA SameHeader ==
  ASSUME NEW e \in Devices, NEW t \in Users, Header(e, t), HeaderKept(e, t),
         queue'[e] = queue[e],
         db'[FollowingDoc(Account[e], t)] = db[FollowingDoc(Account[e], t)]
  PROVE  Header(e, t)'
BY DEF Header, HeaderKept, RestOK, HeaderSees

LEMMA SameStored ==
  ASSUME NEW e \in Devices, NEW t \in Users, StoredOK(e, t),
         queue'[e] = queue[e], applied'[e] = applied[e],
         db'[FollowingDoc(Account[e], t)] = db[FollowingDoc(Account[e], t)]
  PROVE  StoredOK(e, t)'
BY DEF StoredOK

(* Nothing applied is nothing to be stored. *)
LEMMA NoneStored ==
  ASSUME NEW e \in Devices, NEW t \in Users, applied'[e] = 0
  PROVE  StoredOK(e, t)'
<1>1. 1..0 = {}
  OBVIOUS
<1> QED BY <1>1 DEF StoredOK, Stored, LastWrite

HeaderGoal(e, t) ==
  /\ Sole(e) => StoredOK(e, t)'
  /\ Claimed(e, t)' => Header(e, t)'

LEMMA UserHeader ==
  ASSUME HeaderInv, [Next]_vars, NEW d \in Devices, UserStep(d), NEW e \in Devices, NEW t \in Users
  PROVE  HeaderGoal(e, t)
<1>1. UNCHANGED storeVars
  BY DEF UserStep, OpenProfile, TapProfile, TapRow, Refresh
<1>2. HeaderKept(e, t)
  <2>1. profile \in [Devices -> [Users -> Profile]]
    BY DEF HeaderInv, MirrorInv, TypeOK
  <2>2. ASSUME NEW x \in Users, OpenProfile(d, x) PROVE HeaderKept(e, t)
    <3>1. CASE d = e /\ x = t
      BY <2>2, <3>1 DEF OpenProfile, HeaderKept
    <3>2. CASE ~(d = e /\ x = t)
      <4>1. profile'[e][t] = profile[e][t]
        BY <2>1, <2>2, <3>2 DEF OpenProfile
      <4> QED BY <2>2, <4>1 DEF OpenProfile, HeaderKept
    <3> QED BY <3>1, <3>2
  <2>3. ASSUME Refresh(d) PROVE HeaderKept(e, t)
    BY <2>3 DEF Refresh, HeaderKept
  <2>4. ASSUME NEW x \in Users, TapProfile(d, x) \/ TapRow(d, x) PROVE HeaderKept(e, t)
    BY <2>4 DEF TapProfile, TapRow, HeaderKept, screens
  <2> QED BY <2>2, <2>3, <2>4 DEF UserStep
<1> QED BY <1>1, <1>2, SameHeader, SameStored, ClaimedBefore
    DEF HeaderGoal, HeaderInv, MirrorInv, storeVars

(* A read that answers shows what the phone sees; one that fails ends the
   claim. *)
LEMMA ReadHeader ==
  ASSUME HeaderInv, [Next]_vars, NEW d \in Devices, ReadStep(d), NEW e \in Devices, NEW t \in Users
  PROVE  HeaderGoal(e, t)
<1>0. TypeOK /\ RowsInv /\ StoreOK
  BY TypeParts DEF HeaderInv, MirrorInv
<1>1. UNCHANGED storeVars
  BY DEF ReadStep, NotificationsArrive, ProfileCheckResult, RowCheckResult, CheckFails
<1>2. Sole(e) => StoredOK(e, t)'
  BY <1>1, SameStored DEF HeaderInv, storeVars
<1>3. ASSUME Claimed(e, t)' PROVE Header(e, t)'
  <2>1. Claimed(e, t) /\ Header(e, t) /\ failed'[e] \in {failed[e], "crash"}
    BY <1>0, <1>3, ClaimedBefore DEF HeaderInv
  <2>2. ASSUME HeaderKept(e, t) PROVE Header(e, t)'
    BY <1>1, <2>1, <2>2, SameHeader DEF storeVars
  <2>3. ASSUME NEW x \in Users, ProfileCheckResult(d, x) PROVE Header(e, t)'
    <3>1. profile \in [Devices -> [Users -> Profile]]
      BY <1>0 DEF TypeOK
    <3>2. CASE d = e /\ x = t
      <4>1. profile'[e][t].isFollowed = LocalView(e, FollowingDoc(Account[e], t))
        BY <2>3, <3>1, <3>2 DEF ProfileCheckResult, Profile
      <4>2. Sees(queue[e], FollowingDoc(Account[e], t), db[FollowingDoc(Account[e], t)],
                 profile'[e][t].isFollowed)
        BY <1>0, <4>1, ViewSees
      <4> QED BY <1>1, <2>1, <4>2 DEF Header, RestOK, HeaderSees, storeVars
    <3>3. CASE ~(d = e /\ x = t)
      <4>1. profile'[e][t] = profile[e][t]
        BY <2>3, <3>1, <3>3 DEF ProfileCheckResult
      <4>2. HeaderKept(e, t)
        BY <2>3, <3>3, <4>1 DEF ProfileCheckResult, HeaderKept
      <4> QED BY <2>2, <4>2
    <3> QED BY <3>2, <3>3
  <2>4. ASSUME NEW x \in Users, RowCheckResult(d, x) PROVE Header(e, t)'
    <3>1. HeaderKept(e, t)
      BY <2>4 DEF RowCheckResult, HeaderKept
    <3> QED BY <2>2, <3>1
  <2>5. ASSUME NEW c \in checks, c[1] = d, CheckFails(c) PROVE Header(e, t)'
    <3>1. d # e
      BY <1>0, <1>3, <2>1, <2>5 DEF CheckFails, Fails, TypeOK, Claimed
    <3>2. HeaderKept(e, t)
      BY <2>5, <3>1 DEF CheckFails, HeaderKept, screens
    <3> QED BY <2>2, <3>2
  <2>6. CASE NotificationsArrive(d)
    BY <2>2, <2>6 DEF NotificationsArrive, HeaderKept
  <2> QED BY <2>3, <2>4, <2>5, <2>6 DEF ReadStep
<1> QED BY <1>2, <1>3 DEF HeaderGoal

(* Writes are queued that are no business of the header of t. *)
LEMMA OtherHeader ==
  ASSUME HeaderInv, [Next]_vars, NEW e \in Devices, NEW t \in Users, HeaderKept(e, t),
         UNCHANGED <<db, applied>>, NEW r \in Seq(Writes), queue'[e] = queue[e] \o r,
         \A i \in 1..Len(r) :
            /\ r[i].doc # FollowingDoc(Account[e], t)
            /\ ~Awaits("target", r[i], "mirror", t) /\ ~Awaits("target", r[i], "done", t)
  PROVE  HeaderGoal(e, t)
<1> DEFINE x == FollowingDoc(Account[e], t)
           q2 == queue[e] \o r
<1>0. /\ TypeOK /\ RowsInv /\ queue[e] \in Seq(Writes)
      /\ applied[e] \in Nat /\ applied[e] <= Len(queue[e])
  BY DEF HeaderInv, MirrorInv, TypeOK
<1>1. /\ q2 \in Seq(Writes) /\ Len(queue[e]) <= Len(q2)
      /\ \A i \in 1..Len(queue[e]) : q2[i] = queue[e][i]
      /\ \A i \in Len(queue[e])+1..Len(q2) :
            i - Len(queue[e]) \in 1..Len(r) /\ q2[i] = r[i - Len(queue[e])]
  <2>1. /\ q2 \in Seq(Writes) /\ Len(q2) = Len(queue[e]) + Len(r)
        /\ Len(queue[e]) \in Nat /\ Len(r) \in Nat
        /\ \A i \in 1..Len(queue[e]) : q2[i] = queue[e][i]
        /\ \A i \in Len(queue[e])+1..Len(queue[e])+Len(r) :
              i - Len(queue[e]) \in 1..Len(r) /\ q2[i] = r[i - Len(queue[e])]
    BY <1>0, ConcatFacts
  <2> HIDE DEF q2
  <2> QED BY <2>1
<1> HIDE DEF x, q2
<1>2. Sole(e) => StoredOK(e, t)'
  BY <1>0, <1>1, ExtendStored DEF HeaderInv, StoredOK, x, q2
<1>3. ASSUME Claimed(e, t)' PROVE Header(e, t)'
  <2>1. RestOK(queue[e], x, t, db[x], profile[e][t].isFollowed,
               ~profile[e][t].open \/ <<e, "profile", t>> \in checks)
    BY <1>0, <1>3, ClaimedBefore DEF HeaderInv, Header, x
  <2>2. \A i \in Len(queue[e])+1..Len(q2) :
          /\ q2[i].doc # x
          /\ ~Awaits("target", q2[i], "mirror", t) /\ ~Awaits("target", q2[i], "done", t)
    BY <1>1 DEF x
  <2>3. RestOK(q2, x, t, db[x], profile[e][t].isFollowed,
               ~profile[e][t].open \/ <<e, "profile", t>> \in checks)
    BY <1>0, <1>1, <2>1, <2>2, OtherRest
  <2> QED BY <2>3 DEF Header, HeaderKept, RestOK, HeaderSees, x, q2
<1> QED BY <1>2, <1>3 DEF HeaderGoal

LEMMA BlockHeader ==
  ASSUME HeaderInv, [Next]_vars, NEW b \in blocks,
         RunFollowBlock(b) \/ RunNotifyBlock(b) \/ RunFeedBlock(b),
         NEW e \in Devices, NEW t \in Users
  PROVE  HeaderGoal(e, t)
<1> DEFINE d == b.dev
           x == FollowingDoc(Account[e], t)
<1>1. /\ TypeOK /\ RowsInv /\ StoreOK
      /\ d \in Devices /\ b.tap \in Taps /\ b.tap.target \in Users
      /\ Account[d] \in Users /\ b.tap.val \in BOOLEAN
      /\ queue \in [Devices -> Seq(Writes)] /\ queue[e] \in Seq(Writes)
      /\ applied[e] \in Nat /\ applied[e] <= Len(queue[e])
  BY AccountType, TypeParts DEF HeaderInv, MirrorInv, TypeOK, Blocks, Taps
<1>2. HeaderKept(e, t) /\ UNCHANGED <<db, applied>>
  BY DEF RunFollowBlock, RunNotifyBlock, RunFeedBlock, Enqueue, EnqueueAll, storeVars,
         HeaderKept, screens
<1>3. ASSUME queue'[e] = queue[e] PROVE HeaderGoal(e, t)
  BY <1>1, <1>2, <1>3, SameHeader, SameStored, ClaimedBefore DEF HeaderGoal, HeaderInv
<1>4. CASE e # d
  <2>1. queue'[e] = queue[e]
    BY <1>1, <1>4 DEF RunFollowBlock, RunNotifyBlock, RunFeedBlock, Enqueue, EnqueueAll, storeVars
  <2> QED BY <1>3, <2>1
<1>5. ASSUME NEW w \in Writes, queue'[e] = Append(queue[e], w), w.doc # x,
             ~Awaits("target", w, "mirror", t), w.then # "done"
      PROVE  HeaderGoal(e, t)
  <2>1. /\ <<w>> \in Seq(Writes)
        /\ \A i \in 1..Len(<<w>>) : <<w>>[i] = w
        /\ Append(queue[e], w) = queue[e] \o <<w>>
    BY <1>1
  <2>2. ~Awaits("target", w, "done", t)
    BY <1>5 DEF Awaits
  <2> QED BY <1>2, <1>5, <2>1, <2>2, OtherHeader
<1>6. CASE e = d /\ RunFollowBlock(b)
  <2> DEFINE w == [doc |-> FollowingDoc(Account[d], b.tap.target),
                   val |-> b.tap.val, then |-> "mirror", tap |-> b.tap]
  <2>1. w \in Writes
    BY <1>1, DocsType DEF Writes
  <2>2. queue'[e] = Append(queue[e], w)
    BY <1>1, <1>6 DEF RunFollowBlock, Enqueue
  <2>3. w.doc = FollowingDoc(Account[d], b.tap.target) /\ w.then = "mirror" /\ w.tap = b.tap
    OBVIOUS
  <2> HIDE DEF w
  <2>4. CASE b.tap.target = t
    <3>1. Awaits("target", w, "mirror", t)
      BY <2>3, <2>4 DEF Awaits
    <3>2. Sole(e) => StoredOK(e, t)'
      <4>1. /\ Append(queue[e], w) \in Seq(Writes)
            /\ Len(queue[e]) <= Len(Append(queue[e], w))
            /\ \A i \in 1..Len(queue[e]) : Append(queue[e], w)[i] = queue[e][i]
        BY <1>1, <2>1, AppendFacts
      <4> QED BY <1>1, <1>2, <2>2, <4>1, ExtendStored DEF HeaderInv, StoredOK
    <3>3. ASSUME Claimed(e, t)' PROVE Header(e, t)'
      <4>1. FirstLast(queue[e], x, t)
        BY <1>1, <3>3, ClaimedBefore DEF HeaderInv, Header, RestOK
      <4>2. \A y, v, u : RestOK(Append(queue[e], w), x, t, y, v, u)
        BY <1>1, <2>1, <3>1, <4>1, FirstRest
      <4> QED BY <2>2, <4>2 DEF Header
    <3> QED BY <3>2, <3>3 DEF HeaderGoal
  <2>5. CASE b.tap.target # t
    <3>1. w.doc # x /\ ~Awaits("target", w, "mirror", t) /\ w.then # "done"
      BY <1>6, <2>3, <2>5 DEF FollowingDoc, Awaits
    <3> QED BY <1>5, <2>1, <2>2, <3>1
  <2> QED BY <2>4, <2>5
<1>7. CASE e = d /\ RunNotifyBlock(b)
  <2> DEFINE w == [doc |-> NotificationDoc(b.tap.target, Account[d]),
                   val |-> TRUE, then |-> "none", tap |-> b.tap]
  <2>1. w \in Writes
    BY <1>1, DocsType DEF Writes
  <2>2. queue'[e] = Append(queue[e], w)
    BY <1>1, <1>7 DEF RunNotifyBlock, Enqueue
  <2>3. w.doc # x /\ ~Awaits("target", w, "mirror", t) /\ w.then # "done"
    BY DocsApart DEF Awaits
  <2> HIDE DEF w
  <2> QED BY <1>5, <2>1, <2>2, <2>3
<1>8. CASE e = d /\ RunFeedBlock(b)
  <2>1. ASSUME NEW s \in SetToSeqs(PostsOf(d, b.tap.target)),
               EnqueueAll(d, [i \in DOMAIN s |-> FeedWrite(d, b.tap, s[i])])
        PROVE  HeaderGoal(e, t)
    <3> DEFINE r == [i \in DOMAIN s |-> FeedWrite(d, b.tap, s[i])]
    <3>1. r \in Seq(Writes)
      BY <1>1, FeedWritesType
    <3>2. ASSUME NEW i \in 1..Len(r)
          PROVE  /\ r[i].doc # x
                 /\ ~Awaits("target", r[i], "mirror", t) /\ ~Awaits("target", r[i], "done", t)
      <4>1. r[i] = FeedWrite(d, b.tap, s[i])
        BY <3>1
      <4>2. r[i].doc = FeedDoc(Account[d], s[i]) /\ r[i].then = "none"
        BY <4>1 DEF FeedWrite
      <4> HIDE DEF r
      <4>3. r[i].doc # x
        BY <4>2 DEF FeedDoc, FollowingDoc
      <4> QED BY <4>2, <4>3 DEF Awaits
    <3>3. queue'[e] = queue[e] \o r
      BY <1>1, <1>8, <2>1 DEF EnqueueAll
    <3> HIDE DEF r
    <3> QED BY <1>2, <3>1, <3>2, <3>3, OtherHeader
  <2>2. CASE UNCHANGED storeVars
    BY <1>3, <2>2 DEF storeVars
  <2> QED BY <1>8, <2>1, <2>2 DEF RunFeedBlock
<1> QED BY <1>4, <1>6, <1>7, <1>8

-----------------------------------------------------------------------------
(* Answers.  The header of t takes the value of a tap on it. *)

LEMMA AnswerHeader ==
  ASSUME HeaderInv, [Next]_vars, NEW d \in Devices, AnswerAny(d),
         NEW e \in Devices, NEW t \in Users
  PROVE  HeaderGoal(e, t)
<1> DEFINE x == FollowingDoc(Account[e], t)
           w == Oldest(d)
           second == [w EXCEPT !.doc = FollowersDoc(w.tap.target, Account[d]), !.then = "done"]
<1>1. PICK then : Answer(d, then)
  BY DEF AnswerAny, AnswerMirror, AnswerProfile, AnswerRow, AnswerSilent
<1>2. /\ TypeOK /\ RowsInv /\ StoreOK /\ Shape
      /\ queue \in [Devices -> Seq(Writes)] /\ queue[d] \in Seq(Writes) /\ queue[d] # <<>>
      /\ w = queue[d][1] /\ w \in Writes /\ 1 \in 1..Len(queue[d])
      /\ applied \in [Devices -> Nat] /\ applied[d] \in Nat /\ applied[d] <= Len(queue[d])
  <2>1. TypeOK /\ RowsInv /\ StoreOK /\ Shape
    BY TypeParts DEF HeaderInv, MirrorInv
  <2>2. queue[d] \in Seq(Writes) /\ queue[d] # <<>> /\ w \in Writes
    BY <1>1, <2>1, AnswerFacts
  <2>3. w = queue[d][1] /\ 1 \in 1..Len(queue[d])
    BY <2>2 DEF Oldest
  <2> QED BY <2>1, <2>2, <2>3 DEF TypeOK
<1>3. /\ Tail(queue[d]) \in Seq(Writes)
      /\ Len(Tail(queue[d])) = Len(queue[d]) - 1
      /\ Len(queue[d]) \in Nat \ {0}
  BY <1>2, TailFacts
<1>4. w.tap \in Taps /\ w.tap.target \in Users
  BY <1>2 DEF Writes, Taps
<1>5. /\ second \in Writes /\ second.doc = FollowersDoc(w.tap.target, Account[d])
      /\ second.then = "done" /\ second.tap = w.tap /\ second.val = w.val
  BY <1>2, <1>4, AccountType, DocsType DEF Writes
<1>6. /\ db' = db /\ checks' = checks
      /\ w.then = "mirror" => /\ queue' = [queue EXCEPT ![d] = Append(Tail(queue[d]), second)]
                              /\ profile' = profile
      /\ w.then # "mirror" => queue' = [queue EXCEPT ![d] = Tail(queue[d])]
  BY DEF AnswerAny, AnswerMirror, AnswerProfile, AnswerRow, AnswerSilent, Answer,
         Dequeue, DequeueThenEnqueue, screens
<1>7. \/ w.then = "done" /\ w.tap.screen = "profile"
         /\ profile' = [profile EXCEPT ![d][w.tap.target].isFollowed = w.tap.val]
      \/ w.then = "done" /\ w.tap.screen = "row" /\ profile' = profile
      \/ w.then # "done" /\ profile' = profile
  BY DEF AnswerAny, AnswerMirror, AnswerProfile, AnswerRow, AnswerSilent, Answer, screens
<1>8. WriteOK(d, w) /\ ShapeOf(d, w) /\ TapOK(d, w.tap)
  BY <1>2 DEF HeaderInv, FirstInv, QueueOK, RowsInv, Shape
<1> HIDE DEF w, second
<1>9. profile \in [Devices -> [Users -> Profile]]
  BY <1>2 DEF TypeOK
<1>10. CASE e # d
  <2>1. queue'[e] = queue[e] /\ applied'[e] = applied[e] /\ profile'[e] = profile[e]
    BY <1>1, <1>2, <1>6, <1>7, <1>9, <1>10 DEF Answer, Answered, Refused
  <2>2. HeaderKept(e, t)
    BY <1>6, <2>1 DEF HeaderKept
  <2> QED BY <1>2, <1>6, <2>1, <2>2, SameHeader, SameStored, ClaimedBefore
          DEF HeaderGoal, HeaderInv
<1>11. CASE e = d /\ Refused(d) /\ Fails(d, "reject")
  <2>1. applied'[e] = 0
    BY <1>2, <1>11 DEF Refused
  <2>2. ~Claimed(e, t)'
    BY <1>2, <1>11 DEF Fails, Claimed, TypeOK
  <2> QED BY <2>1, <2>2, NoneStored DEF HeaderGoal
<1>12. CASE e = d /\ Answered(d)
  <2>1. 0 < applied[d] /\ applied'[d] = applied[d] - 1
    BY <1>2, <1>12 DEF Answered
  <2> DEFINE p == Tail(queue[d])
             q2 == queue'[d]
  <2>2. /\ Append(p, second) \in Seq(Writes) /\ Len(p) <= Len(Append(p, second))
        /\ \A i \in 1..Len(p) : Append(p, second)[i] = p[i]
        /\ \A i \in Len(p)+1..Len(Append(p, second)) : Append(p, second)[i] = second
    BY <1>3, <1>5, AppendFacts
  <2>3. q2 = p \/ q2 = Append(p, second)
    BY <1>2, <1>6
  <2>4. ASSUME Sole(e) PROVE StoredOK(e, t)'
    <3>1. Stored(queue[d], applied[d], x, db[x])
      BY <1>12, <2>4 DEF HeaderInv, StoredOK
    <3>2. Stored(p, applied[d] - 1, x, db[x])
      BY <1>2, <2>1, <3>1, AnswerStored
    <3>3. applied[d] - 1 \in Nat /\ applied[d] - 1 <= Len(p)
      BY <1>2, <1>3, <2>1
    <3>4. Stored(q2, applied[d] - 1, x, db[x])
      BY <1>3, <2>2, <2>3, <3>2, <3>3, ExtendStored
    <3> QED BY <1>6, <1>12, <2>1, <3>4 DEF StoredOK
  <2>5. ASSUME Claimed(e, t)' PROVE Header(e, t)'
    <3> DEFINE unread == ~profile[e][t].open \/ <<e, "profile", t>> \in checks
               shown == profile[e][t].isFollowed
               after == profile'[e][t].isFollowed
    <3>1. Sole(e) /\ ~Notified(e, t) /\ Header(e, t)
      BY <1>2, <2>5, ClaimedBefore DEF HeaderInv, Claimed
    <3>2. Stored(queue[d], applied[d], x, db[x]) /\ RestOK(queue[d], x, t, db[x], shown, unread)
      BY <1>12, <3>1 DEF HeaderInv, StoredOK, Header
    <3>3. IF Awaits("target", w, "done", t) THEN after = w.val ELSE after = shown
      <4>1. CASE w.then = "done" /\ w.tap.target = t
        <5>1. w.tap.screen = "profile"
          BY <1>7, <1>8, <1>12, <3>1, <4>1 DEF TapOK
        <5>2. profile' = [profile EXCEPT ![d][t].isFollowed = w.tap.val]
          BY <1>7, <4>1, <5>1
        <5>3. after = w.tap.val
          BY <1>9, <1>12, <5>2 DEF Profile
        <5> QED BY <1>8, <4>1, <5>3 DEF WriteOK, Awaits
      <4>2. CASE ~(w.then = "done" /\ w.tap.target = t)
        <5>1. after = shown
          <6>1. CASE profile' = profile
            BY <6>1
          <6>2. CASE w.then = "done" /\ profile' = [profile EXCEPT ![d][w.tap.target].isFollowed = w.tap.val]
            BY <1>4, <1>9, <1>12, <4>2, <6>2
          <6> QED BY <1>7, <6>1, <6>2
        <5> QED BY <4>2, <5>1 DEF Awaits
      <4> QED BY <4>1, <4>2
    <3>4. profile'[e][t].open = profile[e][t].open
      <4>1. CASE profile' = profile
        BY <4>1
      <4>2. CASE profile' = [profile EXCEPT ![d][w.tap.target].isFollowed = w.tap.val]
        BY <1>4, <1>9, <1>12, <4>2 DEF Profile
      <4> QED BY <1>7, <4>1, <4>2
    <3> HIDE DEF shown, after, unread, x, p, q2
    <3>5. CASE Awaits("target", w, "mirror", t)
      <4>1. w.doc = x
        BY <1>8, <1>12, <3>5 DEF ShapeOf, Awaits, x
      <4>2. ASSUME NEW i \in 1..Len(queue[d]), queue[d][i].then = "mirror", queue[d][i].doc = x
            PROVE  Awaits("target", queue[d][i], "mirror", t)
        <5>1. ShapeOf(d, queue[d][i])
          BY <1>2 DEF Shape
        <5> QED BY <1>12, <4>2, <5>1, DocFacts DEF ShapeOf, Awaits, x
      <4>3. Awaits("target", second, "done", t) /\ second.doc # x /\ second.val = w.val
        BY <1>5, <3>5, DocFacts DEF Awaits, x
      <4>4. RestOK(Append(Tail(queue[d]), second), x, t, db[x], shown, unread)
        BY <1>2, <1>5, <2>1, <3>2, <3>5, <4>1, <4>2, <4>3, AnswerFirstRest
      <4>5. q2 = Append(Tail(queue[d]), second) /\ after = shown
        BY <1>2, <1>6, <3>3, <3>5 DEF q2, Awaits
      <4> QED BY <1>6, <1>12, <3>4, <4>4, <4>5 DEF Header, x, after, unread, q2
    <3>6. CASE ~Awaits("target", w, "mirror", t)
      <4>1. RestOK(p, x, t, db[x], after, unread)
        BY <1>2, <2>1, <3>2, <3>3, <3>6, AnswerOtherRest DEF p
      <4>2. CASE q2 = p
        BY <1>6, <1>12, <3>4, <4>1, <4>2 DEF Header, x, after, unread, q2
      <4>3. CASE w.then = "mirror"
        <5>1. /\ second.doc # x /\ ~Awaits("target", second, "mirror", t)
              /\ ~Awaits("target", second, "done", t)
          BY <1>5, <3>6, <4>3, DocFacts DEF Awaits, x
        <5>2. RestOK(Append(p, second), x, t, db[x], after, unread)
          BY <1>3, <2>2, <4>1, <5>1, OtherRest DEF p
        <5>3. q2 = Append(p, second)
          BY <1>2, <1>6, <4>3 DEF q2, p
        <5> QED BY <1>6, <1>12, <3>4, <5>2, <5>3 DEF Header, x, after, unread, q2
      <4>4. w.then # "mirror" => q2 = p
        BY <1>2, <1>6 DEF q2, p
      <4> QED BY <4>2, <4>3, <4>4
    <3> QED BY <3>5, <3>6
  <2> QED BY <2>4, <2>5 DEF HeaderGoal
<1> QED BY <1>1, <1>10, <1>11, <1>12 DEF Answer

-----------------------------------------------------------------------------
(* The backend, the stream and the process. *)

LEMMA ApplyHeader ==
  ASSUME HeaderInv, [Next]_vars, NEW d \in Devices, Apply(d), NEW e \in Devices, NEW t \in Users
  PROVE  HeaderGoal(e, t)
<1> DEFINE x == FollowingDoc(Account[e], t)
           w == queue[d][applied[d] + 1]
<1>1. /\ TypeOK /\ RowsInv /\ Shape /\ Commit(d)
      /\ applied \in [Devices -> Nat] /\ db \in [Docs -> BOOLEAN] /\ x \in Docs
      /\ queue[e] \in Seq(Writes)
  BY AccountType, DocsType DEF HeaderInv, MirrorInv, TypeOK, Apply
<1>2. /\ applied[d] + 1 \in 1..Len(queue[d]) /\ applied[d] < Len(queue[d]) /\ w \in Writes
      /\ db' = [db EXCEPT ![w.doc] = w.val]
      /\ applied' = [applied EXCEPT ![d] = applied[d] + 1] /\ queue' = queue
  BY <1>1 DEF Commit, TypeOK
<1>3. ShapeOf(d, w)
  BY <1>1, <1>2 DEF Shape
<1>4. HeaderKept(e, t)
  BY DEF Apply, HeaderKept, screens
<1>5. db'[x] = IF w.doc = x THEN w.val ELSE db[x]
  BY <1>1, <1>2
<1>6. ASSUME Claimed(e, t)' PROVE Claimed(e, t) /\ Header(e, t)
  BY <1>1, <1>6, ClaimedBefore DEF HeaderInv
<1> HIDE DEF w, x
<1>7. CASE d # e
  <2>1. ASSUME Sole(e) PROVE db'[x] = db[x]
    <3>1. w.doc # x
      BY <1>3, <1>7, <2>1, AccountType DEF ShapeOf, Sole, x
    <3> QED BY <1>5, <3>1
  <2>2. queue'[e] = queue[e] /\ applied'[e] = applied[e]
    BY <1>1, <1>2, <1>7
  <2>3. Sole(e) => StoredOK(e, t)'
    BY <2>1, <2>2, SameStored DEF HeaderInv, x
  <2>4. Claimed(e, t)' => Header(e, t)'
    BY <1>4, <1>6, <2>1, <2>2, SameHeader DEF Claimed, x
  <2> QED BY <2>3, <2>4 DEF HeaderGoal
<1>8. CASE d = e
  <2>1. /\ queue'[e] = queue[e] /\ applied'[e] = applied[e] + 1
        /\ applied[e] \in Nat /\ applied[e] < Len(queue[e])
        /\ db'[x] = IF queue[e][applied[e] + 1].doc = x THEN queue[e][applied[e] + 1].val ELSE db[x]
    BY <1>1, <1>2, <1>5, <1>8 DEF w
  <2>2. ASSUME Sole(e) PROVE Stored(queue[e], applied[e], x, db[x])
    BY <2>2 DEF HeaderInv, StoredOK, x
  <2>3. ASSUME Sole(e) PROVE StoredOK(e, t)'
    <3>1. Sees(queue[e], x, db[x], LocalView(e, x))
      BY <1>1, TypeParts, ViewSees
    <3>2. Stored(queue[e], applied[e] + 1, x, db'[x])
      BY <1>1, <2>1, <2>2, <2>3, <3>1, CommitSees
    <3> QED BY <2>1, <3>2 DEF StoredOK, x
  <2>4. ASSUME Claimed(e, t)' PROVE Header(e, t)'
    <3> DEFINE unread == ~profile[e][t].open \/ <<e, "profile", t>> \in checks
               shown == profile[e][t].isFollowed
    <3>1. RestOK(queue[e], x, t, db[x], shown, unread) /\ Sole(e)
      BY <1>6, <2>4 DEF Header, Claimed, x
    <3> HIDE DEF unread, shown
    <3>2. RestOK(queue[e], x, t, db'[x], shown, unread)
      BY <1>1, <2>1, <2>2, <3>1, CommitRest
    <3> QED BY <1>4, <2>1, <3>2 DEF Header, HeaderKept, RestOK, HeaderSees, x, unread, shown
  <2> QED BY <2>3, <2>4 DEF HeaderGoal
<1> QED BY <1>7, <1>8

LEMMA ResendHeader ==
  ASSUME HeaderInv, [Next]_vars, NEW d \in Devices, Resend(d), NEW e \in Devices, NEW t \in Users
  PROVE  HeaderGoal(e, t)
<1>1. /\ TypeOK /\ RowsInv /\ HeaderKept(e, t)
      /\ queue' = queue /\ db' = db /\ applied' = [applied EXCEPT ![d] = 0]
  BY DEF HeaderInv, MirrorInv, Resend, Reopen, HeaderKept, followVars, screens
<1>2. applied'[e] = 0 \/ applied'[e] = applied[e]
  BY <1>1 DEF TypeOK
<1>3. Sole(e) => StoredOK(e, t)'
  BY <1>1, <1>2, NoneStored, SameStored DEF HeaderInv
<1>4. Claimed(e, t)' => Header(e, t)'
  BY <1>1, SameHeader, ClaimedBefore DEF HeaderInv
<1> QED BY <1>3, <1>4 DEF HeaderGoal

(* A new process awaits no answer and shows no header. *)
LEMMA CrashHeader ==
  ASSUME HeaderInv, [Next]_vars, NEW d \in Devices, Crash(d), NEW e \in Devices, NEW t \in Users
  PROVE  HeaderGoal(e, t)
<1>1. /\ TypeOK /\ RowsInv /\ queue \in [Devices -> Seq(Writes)]
      /\ applied \in [Devices -> Nat] /\ profile \in [Devices -> [Users -> Profile]]
  BY DEF HeaderInv, MirrorInv, TypeOK
<1>2. CASE d # e
  <2>1. queue'[e] = queue[e] /\ applied'[e] = applied[e] /\ db' = db /\ profile'[e] = profile[e]
    BY <1>1, <1>2 DEF Crash, LoseProcess
  <2>2. HeaderKept(e, t)
    BY <1>2, <2>1 DEF Crash, HeaderKept
  <2> QED BY <1>1, <2>1, <2>2, SameHeader, SameStored, ClaimedBefore DEF HeaderGoal, HeaderInv
<1>3. CASE d = e
  <2> DEFINE q == [i \in DOMAIN queue[d] |-> Forgotten(queue[d][i])]
  <2>1. applied'[e] = 0 /\ queue'[e] = q /\ ~profile'[e][t].open
    BY <1>1, <1>3 DEF Crash, LoseProcess, Closed
  <2>2. \A i \in 1..Len(q) : q[i].then = "none"
    <3>1. \A w \in Writes : Forgotten(w).then = "none"
      BY DEF Forgotten, Writes
    <3> QED BY <1>1, <3>1
  <2> HIDE DEF q
  <2>3. \A i \in 1..Len(q) : ~Awaits("target", q[i], "mirror", t) /\ ~Awaits("target", q[i], "done", t)
    BY <2>2 DEF Awaits
  <2>4. \A x, y, v : RestOK(q, x, t, y, v, TRUE)
    BY <2>3 DEF RestOK, FirstLast, SecondsSee, HeaderSees, IsLast
  <2>5. Header(e, t)'
    BY <2>1, <2>4 DEF Header
  <2> QED BY <2>1, <2>5, NoneStored DEF HeaderGoal
<1> QED BY <1>2, <1>3

-----------------------------------------------------------------------------
LEMMA InitHeader == Init => HeaderInv
<1> SUFFICES ASSUME Init PROVE HeaderInv
  OBVIOUS
<1>1. \A d \in Devices : 1..Len(queue[d]) = {} /\ 1..applied[d] = {}
  <2> SUFFICES ASSUME NEW d \in Devices PROVE 1..Len(queue[d]) = {} /\ 1..applied[d] = {}
    OBVIOUS
  <2>1. Len(queue[d]) = 0 /\ applied[d] = 0 /\ 1..0 = {}
    BY DEF Init
  <2> QED BY <2>1
<1>2. \A d \in Devices, t \in Users : StoredOK(d, t)
  BY <1>1 DEF StoredOK, Stored
<1>3. \A d \in Devices, t \in Users : ~profile[d][t].open
  BY DEF Init, Closed
<1>4. \A d \in Devices, t \in Users : Header(d, t)
  BY <1>1, <1>3 DEF Header, RestOK, FirstLast, SecondsSee, HeaderSees
<1> QED BY <1>2, <1>4, InitMirror, InitFirst, InitRows DEF HeaderInv

LEMMA StepHeader == HeaderInv /\ [Next]_vars => HeaderInv'
<1> SUFFICES ASSUME HeaderInv, [Next]_vars PROVE HeaderInv'
  OBVIOUS
<1>1. MirrorInv' /\ FirstInv' /\ RowsInv'
  BY StepMirror, StepFirst, StepRows DEF HeaderInv, MirrorInv
<1>2. ASSUME NEW e \in Devices, NEW t \in Users PROVE HeaderGoal(e, t)
  <2>1. ASSUME NEW d \in Devices, BlockStep(d) PROVE HeaderGoal(e, t)
    <3>1. PICK b \in blocks : RunFollowBlock(b) \/ RunNotifyBlock(b) \/ RunFeedBlock(b)
      BY <2>1 DEF BlockStep
    <3> QED BY <3>1, BlockHeader
  <2>2. CASE UNCHANGED vars
    <3>1. /\ UNCHANGED storeVars /\ HeaderKept(e, t) /\ TypeOK /\ RowsInv
      BY <2>2 DEF vars, followVars, screens, HeaderKept, HeaderInv, MirrorInv
    <3> QED BY <3>1, SameHeader, SameStored, ClaimedBefore DEF HeaderGoal, HeaderInv, storeVars
  <2> QED BY <2>1, <2>2, UserHeader, ReadHeader, AnswerHeader, ApplyHeader, ResendHeader,
             CrashHeader DEF Next
<1>3. \A e \in Devices, t \in Users : Sole(e)' => StoredOK(e, t)'
  BY <1>2 DEF HeaderGoal, Sole
<1>4. \A e \in Devices, t \in Users : Claimed(e, t)' => Header(e, t)'
  BY <1>2 DEF HeaderGoal
<1> QED BY <1>1, <1>3, <1>4 DEF HeaderInv

(* Whatever the taps, reads, answers and resent writes of any number of phones:
   a header at rest, on the only phone of an account whose process may have died
   once, shows what the phone would read, unless its user has a row as well. *)
THEOREM ProfileShowsCorrect == Spec => []ProfileShowsFollow
<1>1. Spec => []HeaderInv
  BY InitHeader, StepHeader, PTL DEF Spec
<1>2. HeaderInv => ProfileShowsFollow
  <2> SUFFICES ASSUME HeaderInv, NEW d \in Devices, NEW t \in Users, Claimed(d, t),
                      profile[d][t].open, AtRest(d, t)
               PROVE  profile[d][t].isFollowed = LocalView(d, FollowingDoc(Account[d], t))
    BY DEF ProfileShowsFollow, Claimed, Notified
  <2>1. StoreOK
    BY TypeParts DEF HeaderInv, MirrorInv
  <2>2. NoFirst(queue[d], t) /\ NoSecond(queue[d], t)
    BY DEF AtRest, Writing, NoFirst, NoSecond, Awaits
  <2>3. Sees(queue[d], FollowingDoc(Account[d], t), db[FollowingDoc(Account[d], t)],
             profile[d][t].isFollowed)
    BY <2>2 DEF HeaderInv, Header, RestOK, HeaderSees, AtRest
  <2> QED BY <2>1, <2>3, ViewSees
<1> QED BY <1>1, <1>2, PTL

-----------------------------------------------------------------------------
(* Taps are numbered.  A tap is in one place at a time: in the block that is
   to issue its first write, or in the one queued write whose completion the
   app awaits. *)

FollowTaps(d) == {b.tap : b \in {b \in blocks : b.dev = d /\ b.kind = "follow"}}

Awaited(q) == {i \in 1..Len(q) : q[i].then # "none"}

TapsIn(q) == {q[i].tap : i \in Awaited(q)}

Distinct(q) == \A i, j \in Awaited(q) : q[i].tap.n = q[j].tap.n => i = j

Pending(d) == FollowTaps(d) \cup TapsIn(queue[d])

Numbered(d) ==
  /\ \A b \in blocks : b.dev = d => b.tap.n <= taps[d]
  /\ \A i \in 1..Len(queue[d]) : queue[d][i].tap.n <= taps[d]

Unique(d) ==
  /\ \A x, y \in FollowTaps(d) : x.n = y.n => x = y
  /\ \A x \in FollowTaps(d), y \in TapsIn(queue[d]) : x.n # y.n
  /\ Distinct(queue[d])

TapsInv == \A d \in Devices : Numbered(d) /\ Unique(d)

(* Writes nobody awaits are added. *)
LEMMA GrowTaps ==
  ASSUME NEW q \in Seq(Writes), NEW q2 \in Seq(Writes), Len(q) <= Len(q2),
         \A i \in 1..Len(q) : q2[i] = q[i],
         \A i \in Len(q)+1..Len(q2) : q2[i].then = "none"
  PROVE  TapsIn(q2) = TapsIn(q) /\ (Distinct(q) => Distinct(q2))
<1>1. Awaited(q2) = Awaited(q)
  BY DEF Awaited
<1>2. \A i \in Awaited(q) : q2[i] = q[i]
  BY DEF Awaited
<1> QED BY <1>1, <1>2 DEF TapsIn, Distinct

LEMMA AppendTaps ==
  ASSUME NEW q \in Seq(Writes), NEW w \in Writes, w.then # "none", Distinct(q),
         \A x \in TapsIn(q) : x.n # w.tap.n
  PROVE  TapsIn(Append(q, w)) = TapsIn(q) \cup {w.tap} /\ Distinct(Append(q, w))
<1> DEFINE q2 == Append(q, w)
           n == Len(q) + 1
<1>0. Len(q) \in Nat /\ n \in Nat /\ n \notin Awaited(q) /\ n = Len(q) + 1
  BY DEF Awaited
<1>1. Len(q2) = n /\ q2[n] = w /\ \A i \in 1..Len(q) : q2[i] = q[i]
  OBVIOUS
<1> HIDE DEF q2, n
<1>2. Awaited(q2) = Awaited(q) \cup {n}
  BY <1>0, <1>1 DEF Awaited
<1>3. \A i \in Awaited(q) : q2[i] = q[i] /\ q[i].tap \in TapsIn(q)
  BY <1>1 DEF Awaited, TapsIn
<1>4. TapsIn(q2) = TapsIn(q) \cup {w.tap}
  BY <1>1, <1>2, <1>3 DEF TapsIn
<1>5. Distinct(q2)
  BY <1>1, <1>2, <1>3 DEF Distinct
<1> QED BY <1>4, <1>5 DEF q2

LEMMA TailTaps ==
  ASSUME NEW q \in Seq(Writes), q # <<>>, Distinct(q)
  PROVE  /\ Distinct(Tail(q))
         /\ q[1].then = "none" => TapsIn(Tail(q)) = TapsIn(q)
         /\ q[1].then # "none" => /\ q[1].tap \in TapsIn(q)
                                  /\ TapsIn(Tail(q)) = TapsIn(q) \ {q[1].tap}
                                  /\ \A x \in TapsIn(Tail(q)) : x.n # q[1].tap.n
<1> DEFINE q2 == Tail(q)
<1>1. /\ Len(q) \in Nat \ {0} /\ q2 \in Seq(Writes) /\ Len(q2) = Len(q) - 1
      /\ \A i \in 1..Len(q)-1 : q2[i] = q[i + 1]
  BY TailFacts
<1> HIDE DEF q2
<1>2. \A i \in Awaited(q2) : i + 1 \in Awaited(q) /\ i + 1 # 1 /\ q2[i] = q[i + 1]
  BY <1>1 DEF Awaited
<1>3. \A j \in Awaited(q) : j # 1 => j - 1 \in Awaited(q2) /\ q2[j - 1] = q[j]
  BY <1>1 DEF Awaited
<1>4. Distinct(q2)
  <2> SUFFICES ASSUME NEW i \in Awaited(q2), NEW j \in Awaited(q2), q2[i].tap.n = q2[j].tap.n
               PROVE  i = j
    BY DEF Distinct
  <2>1. i + 1 = j + 1
    BY <1>2 DEF Distinct
  <2>2. i \in Nat /\ j \in Nat
    BY <1>1 DEF Awaited
  <2> QED BY <2>1, <2>2
<1>5. \A x \in TapsIn(q2) : \E j \in Awaited(q) : j # 1 /\ x = q[j].tap
  BY <1>2 DEF TapsIn
<1>6. \A j \in Awaited(q) : j # 1 => q[j].tap \in TapsIn(q2)
  BY <1>3 DEF TapsIn
<1>7. CASE q[1].then = "none"
  <2>1. 1 \notin Awaited(q)
    BY <1>7 DEF Awaited
  <2>2. TapsIn(q2) = TapsIn(q)
    BY <1>5, <1>6, <2>1 DEF TapsIn
  <2> QED BY <1>4, <1>7, <2>2 DEF q2
<1>8. CASE q[1].then # "none"
  <2>1. 1 \in Awaited(q)
    BY <1>1, <1>8 DEF Awaited
  <2>2. \A x \in TapsIn(q2) : x.n # q[1].tap.n
    BY <1>5, <2>1 DEF Distinct
  <2>3. q[1].tap \in TapsIn(q)
    BY <2>1 DEF TapsIn
  <2>4. \A x \in TapsIn(q2) : x \in TapsIn(q) /\ x # q[1].tap
    BY <1>5, <2>2 DEF TapsIn
  <2>5. \A x \in TapsIn(q) : x # q[1].tap => x \in TapsIn(q2)
    BY <1>6 DEF TapsIn
  <2>6. TapsIn(q2) = TapsIn(q) \ {q[1].tap}
    BY <2>4, <2>5
  <2> QED BY <1>4, <1>8, <2>2, <2>3, <2>6 DEF q2
<1> QED BY <1>7, <1>8

LEMMA ForgetTaps ==
  ASSUME NEW q \in Seq(Writes)
  PROVE  LET q2 == [i \in DOMAIN q |-> Forgotten(q[i])]
         IN  TapsIn(q2) = {} /\ Distinct(q2)
<1> DEFINE q2 == [i \in DOMAIN q |-> Forgotten(q[i])]
<1>1. Len(q2) = Len(q) /\ \A i \in 1..Len(q) : q2[i] = Forgotten(q[i]) /\ q[i] \in Writes
  OBVIOUS
<1> HIDE DEF q2
<1>2. \A i \in 1..Len(q2) : q2[i].then = "none"
  BY <1>1 DEF Forgotten, Writes
<1>3. Awaited(q2) = {}
  BY <1>2 DEF Awaited
<1>4. TapsIn(q2) = {} /\ Distinct(q2)
  BY <1>3 DEF TapsIn, Distinct
<1> QED BY <1>4 DEF q2

-----------------------------------------------------------------------------
(* The taps that are in some place, and what each kind of step does to them. *)

NewTap(d, t, screen, isFollowed) ==
  [n |-> taps[d] + 1, screen |-> screen, target |-> t, val |-> ~isFollowed]

SamePending == \A e \in Devices : Pending(e)' = Pending(e)

LEMMA PendingType ==
  ASSUME TypeOK, NEW d \in Devices
  PROVE  /\ \A x \in Pending(d) : x \in Taps /\ x.n \in Nat
         /\ Numbered(d) => \A x \in Pending(d) : x.n <= taps[d]
<1>1. ASSUME NEW x \in Pending(d)
      PROVE  x \in Taps /\ (Numbered(d) => x.n <= taps[d])
  <2>1. CASE x \in FollowTaps(d)
    <3>1. PICK b \in blocks : b.dev = d /\ x = b.tap
      BY <2>1 DEF FollowTaps
    <3> QED BY <3>1 DEF TypeOK, Blocks, Numbered
  <2>2. CASE x \in TapsIn(queue[d])
    <3>1. PICK i \in 1..Len(queue[d]) : x = queue[d][i].tap
      BY <2>2 DEF TapsIn, Awaited
    <3>2. queue[d][i] \in Writes
      BY DEF TypeOK
    <3> QED BY <3>1, <3>2 DEF Writes, Numbered
  <2> QED BY <1>1, <2>1, <2>2 DEF Pending
<1>2. \A x \in Taps : x.n \in Nat
  BY DEF Taps
<1> QED BY <1>1, <1>2

(* The places of the taps, and so their uniqueness, are the same. *)
LEMMA SamePlaces ==
  ASSUME TapsInv, \A e \in Devices : FollowTaps(e)' = FollowTaps(e),
         \A e \in Devices : TapsIn(queue[e])' = TapsIn(queue[e]) /\ Distinct(queue[e])'
  PROVE  SamePending /\ \A e \in Devices : Unique(e)'
BY DEF SamePending, Pending, TapsInv, Unique

(* A block is taken. *)
LEMMA TakeBlock ==
  ASSUME TypeOK, NEW b \in blocks, blocks' = blocks \ {b}
  PROVE  /\ \A e \in Devices : e # b.dev \/ b.kind # "follow" => FollowTaps(e)' = FollowTaps(e)
         /\ b.kind = "follow" => /\ b.tap \in FollowTaps(b.dev)
                                 /\ FollowTaps(b.dev)' = FollowTaps(b.dev) \ {b.tap}
<1>1. ASSUME NEW e, e # b.dev \/ b.kind # "follow" PROVE FollowTaps(e)' = FollowTaps(e)
  <2>1. {c \in blocks' : c.dev = e /\ c.kind = "follow"} = {c \in blocks : c.dev = e /\ c.kind = "follow"}
    BY <1>1
  <2> QED BY <2>1 DEF FollowTaps
<1>2. ASSUME b.kind = "follow"
      PROVE  b.tap \in FollowTaps(b.dev) /\ FollowTaps(b.dev)' = FollowTaps(b.dev) \ {b.tap}
  <2>1. b.tap \in FollowTaps(b.dev)
    BY <1>2 DEF FollowTaps
  <2>2. ASSUME NEW c \in blocks, c.dev = b.dev, c.kind = "follow", c.tap = b.tap PROVE c = b
    <3>1. \A x \in Blocks : x = [dev |-> x.dev, kind |-> x.kind, tap |-> x.tap]
      BY DEF Blocks
    <3>2. b \in Blocks /\ c \in Blocks
      BY DEF TypeOK
    <3>3. /\ b = [dev |-> b.dev, kind |-> b.kind, tap |-> b.tap]
          /\ c = [dev |-> c.dev, kind |-> c.kind, tap |-> c.tap]
      BY <3>1, <3>2
    <3> QED BY <1>2, <2>2, <3>3
  <2>3. \A x \in FollowTaps(b.dev)' : x \in FollowTaps(b.dev) /\ x # b.tap
    BY <2>2 DEF FollowTaps
  <2>4. \A x \in FollowTaps(b.dev) : x # b.tap => x \in FollowTaps(b.dev)'
    BY DEF FollowTaps
  <2>5. FollowTaps(b.dev)' = FollowTaps(b.dev) \ {b.tap}
    BY <2>3, <2>4
  <2> QED BY <2>1, <2>5
<1>3. \A e \in Devices : e # b.dev \/ b.kind # "follow" => FollowTaps(e)' = FollowTaps(e)
  BY <1>1
<1> QED BY <1>2, <1>3

(* What an extension adds, nobody waits for, but for the first write of a tap. *)
LEMMA RunFollowTaps ==
  ASSUME TypeOK, TapsInv, NEW b \in blocks, RunFollowBlock(b)
  PROVE  SamePending /\ \A e \in Devices : Unique(e)'
<1> DEFINE d == b.dev
           w == [doc |-> FollowingDoc(Account[b.dev], b.tap.target),
                 val |-> b.tap.val, then |-> "mirror", tap |-> b.tap]
<1>1. /\ d \in Devices /\ b.kind = "follow" /\ blocks' = blocks \ {b}
      /\ queue \in [Devices -> Seq(Writes)] /\ queue' = [queue EXCEPT ![d] = Append(queue[d], w)]
  BY DEF TypeOK, Blocks, RunFollowBlock, Enqueue
<1>2. w \in Writes /\ w.then = "mirror" /\ w.tap = b.tap
  <2>1. b.tap \in Taps /\ b.tap.target \in Users /\ b.tap.val \in BOOLEAN /\ Account[d] \in Users
    BY <1>1, AccountType DEF TypeOK, Blocks, Taps
  <2> QED BY <2>1, DocsType DEF Writes
<1> HIDE DEF w
<1>3. Unique(d)
  BY <1>1 DEF TapsInv
<1>4. b.tap \in FollowTaps(d) /\ FollowTaps(d)' = FollowTaps(d) \ {b.tap}
  BY <1>1, TakeBlock
<1>5. \A x \in TapsIn(queue[d]) : x.n # w.tap.n
  BY <1>2, <1>3, <1>4 DEF Unique
<1>6. TapsIn(queue'[d]) = TapsIn(queue[d]) \cup {b.tap} /\ Distinct(queue'[d])
  <2>1. TapsIn(Append(queue[d], w)) = TapsIn(queue[d]) \cup {w.tap} /\ Distinct(Append(queue[d], w))
    BY <1>1, <1>2, <1>3, <1>5, AppendTaps DEF Unique
  <2> QED BY <1>1, <1>2, <2>1
<1>7. Pending(d)' = Pending(d)
  BY <1>4, <1>6 DEF Pending
<1>8. Unique(d)'
  BY <1>3, <1>4, <1>6 DEF Unique
<1>9. ASSUME NEW e \in Devices \ {d} PROVE Pending(e)' = Pending(e) /\ Unique(e)'
  <2>1. FollowTaps(e)' = FollowTaps(e) /\ queue'[e] = queue[e]
    BY <1>1, TakeBlock
  <2> QED BY <2>1 DEF Pending, Unique, TapsInv
<1> QED BY <1>7, <1>8, <1>9 DEF SamePending

LEMMA RunOtherTaps ==
  ASSUME TypeOK, TapsInv, NEW b \in blocks, RunNotifyBlock(b) \/ RunFeedBlock(b)
  PROVE  SamePending /\ \A e \in Devices : Unique(e)'
<1>1. b.dev \in Devices /\ b.kind # "follow" /\ blocks' = blocks \ {b} /\ queue \in [Devices -> Seq(Writes)]
      /\ b.tap \in Taps
  BY DEF TypeOK, Blocks, RunNotifyBlock, RunFeedBlock
<1>2. \A e \in Devices : FollowTaps(e)' = FollowTaps(e)
  BY <1>1, TakeBlock
<1>3. ASSUME NEW q \in Seq(Writes), Len(queue[b.dev]) <= Len(q),
             \A i \in 1..Len(queue[b.dev]) : q[i] = queue[b.dev][i],
             \A i \in Len(queue[b.dev])+1..Len(q) : q[i].then = "none",
             queue' = [queue EXCEPT ![b.dev] = q]
      PROVE  SamePending /\ \A e \in Devices : Unique(e)'
  <2>1. ASSUME NEW e \in Devices PROVE TapsIn(queue[e])' = TapsIn(queue[e]) /\ Distinct(queue[e])'
    <3>1. CASE e = b.dev
      <4>1. queue'[e] = q /\ Distinct(queue[e]) /\ queue[e] \in Seq(Writes)
        BY <1>1, <1>3, <3>1 DEF TapsInv, Unique
      <4>2. /\ Len(queue[e]) <= Len(q)
            /\ \A i \in 1..Len(queue[e]) : q[i] = queue[e][i]
            /\ \A i \in Len(queue[e])+1..Len(q) : q[i].then = "none"
        BY <1>3, <3>1
      <4>3. TapsIn(q) = TapsIn(queue[e]) /\ Distinct(q)
        BY <4>1, <4>2, GrowTaps
      <4> QED BY <4>1, <4>3
    <3>2. CASE e # b.dev
      <4>1. queue'[e] = queue[e] /\ Distinct(queue[e])
        BY <1>1, <1>3, <3>2 DEF TapsInv, Unique
      <4> QED BY <4>1
    <3> QED BY <3>1, <3>2
  <2> QED BY <1>2, <2>1, SamePlaces
<1>4. CASE UNCHANGED storeVars
  <2>1. \A e \in Devices : TapsIn(queue[e])' = TapsIn(queue[e]) /\ Distinct(queue[e])'
    BY <1>4 DEF storeVars, TapsInv, Unique
  <2> QED BY <1>2, <2>1, SamePlaces
<1>5. CASE RunNotifyBlock(b)
  <2> DEFINE w == [doc |-> NotificationDoc(b.tap.target, Account[b.dev]),
                   val |-> TRUE, then |-> "none", tap |-> b.tap]
             q == Append(queue[b.dev], w)
  <2>1. w \in Writes /\ w.then = "none"
    <3>1. b.tap.target \in Users /\ Account[b.dev] \in Users
      BY <1>1, AccountType DEF Taps
    <3> QED BY <1>1, <3>1, DocsType DEF Writes
  <2>2. queue' = [queue EXCEPT ![b.dev] = q] /\ queue[b.dev] \in Seq(Writes)
    BY <1>1, <1>5 DEF RunNotifyBlock, Enqueue
  <2> HIDE DEF w
  <2>3. /\ q \in Seq(Writes) /\ Len(q) = Len(queue[b.dev]) + 1
        /\ \A i \in 1..Len(queue[b.dev]) : q[i] = queue[b.dev][i]
        /\ \A i \in Len(queue[b.dev])+1..Len(q) : q[i] = w
    BY <2>1, <2>2
  <2> HIDE DEF q
  <2>4. Len(queue[b.dev]) <= Len(q)
    BY <2>2, <2>3
  <2> QED BY <1>3, <2>1, <2>2, <2>3, <2>4
<1>6. CASE RunFeedBlock(b)
  <2>1. ASSUME NEW s \in SetToSeqs(PostsOf(b.dev, b.tap.target)),
               EnqueueAll(b.dev, [i \in DOMAIN s |-> FeedWrite(b.dev, b.tap, s[i])])
        PROVE  SamePending /\ \A e \in Devices : Unique(e)'
    <3> DEFINE ws == [i \in DOMAIN s |-> FeedWrite(b.dev, b.tap, s[i])]
               q == queue[b.dev] \o ws
    <3>1. ws \in Seq(Writes)
      BY <1>1, FeedWritesType
    <3>2. \A i \in 1..Len(ws) : ws[i].then = "none"
      BY <3>1 DEF FeedWrite
    <3>3. queue' = [queue EXCEPT ![b.dev] = q] /\ queue[b.dev] \in Seq(Writes)
      BY <1>1, <2>1 DEF EnqueueAll
    <3> HIDE DEF ws
    <3>4. /\ q \in Seq(Writes) /\ Len(q) = Len(queue[b.dev]) + Len(ws)
          /\ \A i \in 1..Len(queue[b.dev]) : q[i] = queue[b.dev][i]
          /\ \A i \in Len(queue[b.dev])+1..Len(q) : i - Len(queue[b.dev]) \in 1..Len(ws)
                                                    /\ q[i] = ws[i - Len(queue[b.dev])]
      BY <3>1, <3>3
    <3>5. Len(queue[b.dev]) <= Len(q)
      BY <3>1, <3>3, <3>4
    <3>6. \A i \in Len(queue[b.dev])+1..Len(q) : q[i].then = "none"
      BY <3>2, <3>4
    <3> HIDE DEF q
    <3> QED BY <1>3, <3>3, <3>4, <3>5, <3>6
  <2> QED BY <1>4, <1>6, <2>1 DEF RunFeedBlock
<1> QED BY <1>5, <1>6

-----------------------------------------------------------------------------
(* A tap on a follow button. *)
LEMMA TapTaps ==
  ASSUME TypeOK, TapsInv, NEW d \in Devices, NEW t \in Users, NEW screen \in Screens,
         NEW isFollowed \in BOOLEAN, Tap(d, t, screen, isFollowed), UNCHANGED storeVars
  PROVE  /\ Pending(d)' = Pending(d) \cup {NewTap(d, t, screen, isFollowed)}
         /\ \A e \in Devices \ {d} : Pending(e)' = Pending(e)
         /\ \A e \in Devices : Unique(e)'
         /\ \A x \in Pending(d) : x.n # taps[d] + 1
<1> DEFINE k == NewTap(d, t, screen, isFollowed)
           b == [dev |-> d, kind |-> "follow", tap |-> k]
<1>1. /\ blocks' = blocks \cup {b} /\ queue' = queue
      /\ b.dev = d /\ b.kind = "follow" /\ b.tap = k /\ k.n = taps[d] + 1 /\ taps[d] \in Nat
  BY FollowAssumption DEF Tap, NewTap, storeVars, TypeOK, FollowAssumption
<1> HIDE DEF k, b
<1>2. FollowTaps(d)' = FollowTaps(d) \cup {k}
  <2>1. \A x \in FollowTaps(d)' : x \in FollowTaps(d) \/ x = k
    BY <1>1 DEF FollowTaps
  <2>2. FollowTaps(d) \subseteq FollowTaps(d)' /\ k \in FollowTaps(d)'
    BY <1>1 DEF FollowTaps
  <2> QED BY <2>1, <2>2
<1>3. \A x \in Pending(d) : x.n # k.n
  <2>1. \A x \in Pending(d) : x.n \in Nat /\ x.n <= taps[d]
    BY PendingType DEF TapsInv
  <2> QED BY <1>1, <2>1
<1>4. Unique(d)' /\ Pending(d)' = Pending(d) \cup {k}
  <2>1. Unique(d)
    BY DEF TapsInv
  <2>2. Pending(d)' = Pending(d) \cup {k}
    BY <1>1, <1>2 DEF Pending
  <2>3. /\ \A x, y \in FollowTaps(d)' : x.n = y.n => x = y
        /\ \A x \in FollowTaps(d)', y \in TapsIn(queue[d]) : x.n # y.n
    BY <1>2, <1>3, <2>1 DEF Pending, Unique
  <2>4. Unique(d)'
    BY <1>1, <2>1, <2>3 DEF Unique
  <2> QED BY <2>2, <2>4
<1>5. ASSUME NEW e \in Devices \ {d} PROVE Pending(e)' = Pending(e) /\ Unique(e)'
  <2>1. {c \in blocks' : c.dev = e /\ c.kind = "follow"} = {c \in blocks : c.dev = e /\ c.kind = "follow"}
    BY <1>1
  <2>2. FollowTaps(e)' = FollowTaps(e)
    BY <2>1 DEF FollowTaps
  <2> QED BY <1>1, <2>2 DEF Pending, Unique, TapsInv
<1> QED BY <1>1, <1>3, <1>4, <1>5 DEF k

(* An answer nobody waits for, or which issues the second write. *)
LEMMA AnswerTaps ==
  ASSUME TypeOK, TapsInv, NEW d \in Devices, AnswerMirror(d) \/ AnswerSilent(d)
  PROVE  SamePending /\ \A e \in Devices : Unique(e)'
<1>1. PICK then : Answer(d, then)
  BY DEF AnswerMirror, AnswerSilent
<1>2. /\ queue \in [Devices -> Seq(Writes)] /\ queue[d] \in Seq(Writes) /\ queue[d] # <<>>
      /\ Oldest(d) = queue[d][1] /\ Oldest(d) \in Writes /\ Tail(queue[d]) \in Seq(Writes)
  BY <1>1, TypeParts, AnswerFacts DEF TypeOK, Oldest
<1>3. \A e \in Devices : FollowTaps(e)' = FollowTaps(e)
  BY DEF AnswerMirror, AnswerSilent, FollowTaps
<1>4. \A e \in Devices : e # d => queue'[e] = queue[e]
  BY <1>2 DEF AnswerMirror, AnswerSilent, Dequeue, DequeueThenEnqueue
<1>5. TapsIn(queue'[d]) = TapsIn(queue[d]) /\ Distinct(queue'[d])
  <2>0. Distinct(queue[d])
    BY DEF TapsInv, Unique
  <2>1. CASE AnswerSilent(d)
    <3>1. queue'[d] = Tail(queue[d]) /\ queue[d][1].then = "none"
      BY <1>2, <2>1 DEF AnswerSilent, Answer, Dequeue
    <3> QED BY <1>2, <2>0, <3>1, TailTaps
  <2>2. CASE AnswerMirror(d)
    <3> DEFINE w == [Oldest(d) EXCEPT !.doc = FollowersDoc(Oldest(d).tap.target, Account[d]),
                                      !.then = "done"]
    <3>1. queue'[d] = Append(Tail(queue[d]), w) /\ queue[d][1].then = "mirror"
      BY <1>2, <2>2 DEF AnswerMirror, Answer, DequeueThenEnqueue
    <3>2. Oldest(d).tap.target \in Users
      BY <1>2 DEF Writes, Taps
    <3>3. w \in Writes /\ w.tap = queue[d][1].tap /\ w.then = "done"
      BY <1>2, <3>2, AccountType, DocsType DEF Writes
    <3> HIDE DEF w
    <3>4. /\ queue[d][1].tap \in TapsIn(queue[d]) /\ Distinct(Tail(queue[d]))
          /\ TapsIn(Tail(queue[d])) = TapsIn(queue[d]) \ {queue[d][1].tap}
          /\ \A x \in TapsIn(Tail(queue[d])) : x.n # w.tap.n
      BY <1>2, <2>0, <3>1, <3>3, TailTaps
    <3>5. /\ TapsIn(Append(Tail(queue[d]), w)) = TapsIn(Tail(queue[d])) \cup {w.tap}
          /\ Distinct(Append(Tail(queue[d]), w))
      BY <1>2, <3>3, <3>4, AppendTaps
    <3> QED BY <3>1, <3>3, <3>4, <3>5
  <2> QED BY <2>1, <2>2
<1>6. \A e \in Devices : TapsIn(queue[e])' = TapsIn(queue[e]) /\ Distinct(queue[e])'
  BY <1>4, <1>5 DEF TapsInv, Unique
<1> QED BY <1>3, <1>6, SamePlaces

(* A tap is done. *)
LEMMA DoneTaps ==
  ASSUME TypeOK, TapsInv, NEW d \in Devices, AnswerProfile(d) \/ AnswerRow(d)
  PROVE  /\ Oldest(d).tap \in Pending(d)
         /\ Pending(d)' = Pending(d) \ {Oldest(d).tap}
         /\ \A x \in Pending(d)' : x.n # Oldest(d).tap.n
         /\ \A e \in Devices \ {d} : Pending(e)' = Pending(e)
         /\ \A e \in Devices : Unique(e)'
<1>1. Answer(d, "done")
  BY DEF AnswerProfile, AnswerRow
<1>2. /\ queue \in [Devices -> Seq(Writes)] /\ queue[d] \in Seq(Writes) /\ queue[d] # <<>>
      /\ Oldest(d) = queue[d][1] /\ Oldest(d) \in Writes /\ Oldest(d).then = "done"
  <2>1. /\ queue \in [Devices -> Seq(Writes)] /\ queue[d] \in Seq(Writes) /\ queue[d] # <<>>
        /\ Oldest(d) = queue[d][1] /\ Oldest(d) \in Writes
    BY <1>1, TypeParts, AnswerFacts DEF TypeOK, Oldest
  <2> QED BY <1>1, <2>1 DEF Answer
<1>3. \A e \in Devices : FollowTaps(e)' = FollowTaps(e)
  <2>1. CASE AnswerRow(d)
    BY <2>1 DEF AnswerRow, FollowTaps
  <2>2. CASE AnswerProfile(d)
    <3>1. \A b \in blocks' : b \in blocks \/ b.kind # "follow"
      BY <2>2 DEF AnswerProfile
    <3>2. blocks \subseteq blocks'
      BY <2>2 DEF AnswerProfile
    <3>3. \A e : {c \in blocks' : c.dev = e /\ c.kind = "follow"}
                   = {c \in blocks : c.dev = e /\ c.kind = "follow"}
      BY <3>1, <3>2
    <3> QED BY <3>3 DEF FollowTaps
  <2> QED BY <2>1, <2>2
<1>4. queue'[d] = Tail(queue[d]) /\ \A e \in Devices \ {d} : queue'[e] = queue[e]
  BY <1>2 DEF AnswerProfile, AnswerRow, Dequeue
<1>5. Unique(d)
  BY DEF TapsInv
<1>6. /\ Distinct(Tail(queue[d]))
      /\ Oldest(d).tap \in TapsIn(queue[d])
      /\ TapsIn(Tail(queue[d])) = TapsIn(queue[d]) \ {Oldest(d).tap}
      /\ \A x \in TapsIn(Tail(queue[d])) : x.n # Oldest(d).tap.n
  BY <1>2, <1>5, TailTaps DEF Unique
<1>7. \A x \in FollowTaps(d) : x.n # Oldest(d).tap.n
  BY <1>5, <1>6 DEF Unique
<1>8. Pending(d)' = Pending(d) \ {Oldest(d).tap}
  BY <1>3, <1>4, <1>6, <1>7 DEF Pending
<1>9. \A x \in Pending(d)' : x.n # Oldest(d).tap.n
  BY <1>3, <1>4, <1>6, <1>7 DEF Pending
<1>10. Unique(d)'
  BY <1>3, <1>4, <1>5, <1>6 DEF Unique
<1>11. ASSUME NEW e \in Devices \ {d} PROVE Pending(e)' = Pending(e) /\ Unique(e)'
  BY <1>3, <1>4 DEF Pending, Unique, TapsInv
<1> QED BY <1>6, <1>8, <1>9, <1>10, <1>11 DEF Pending

LEMMA CrashTaps ==
  ASSUME TypeOK, TapsInv, NEW d \in Devices, Crash(d)
  PROVE  /\ Pending(d)' = {}
         /\ \A e \in Devices \ {d} : Pending(e)' = Pending(e)
         /\ \A e \in Devices : Unique(e)'
<1>1. /\ queue \in [Devices -> Seq(Writes)] /\ queue[d] \in Seq(Writes)
      /\ queue' = [queue EXCEPT ![d] = [i \in DOMAIN queue[d] |-> Forgotten(queue[d][i])]]
      /\ blocks' = {b \in blocks : b.dev # d}
  BY DEF TypeOK, Crash, LoseProcess
<1>2. TapsIn(queue'[d]) = {} /\ Distinct(queue'[d])
  BY <1>1, ForgetTaps
<1>3. FollowTaps(d)' = {}
  BY <1>1 DEF FollowTaps
<1>4. ASSUME NEW e \in Devices \ {d} PROVE Pending(e)' = Pending(e) /\ Unique(e)'
  <2>1. {c \in blocks' : c.dev = e /\ c.kind = "follow"} = {c \in blocks : c.dev = e /\ c.kind = "follow"}
    BY <1>1
  <2>2. FollowTaps(e)' = FollowTaps(e)
    BY <2>1 DEF FollowTaps
  <2>3. queue'[e] = queue[e]
    BY <1>1
  <2> QED BY <2>2, <2>3 DEF Pending, Unique, TapsInv
<1>5. Pending(d)' = {} /\ Unique(d)'
  BY <1>2, <1>3 DEF Pending, Unique
<1> QED BY <1>4, <1>5

LEMMA StillTaps ==
  ASSUME TapsInv, UNCHANGED <<queue, blocks>>
  PROVE  SamePending /\ \A e \in Devices : Unique(e)'
BY DEF SamePending, Pending, FollowTaps, Unique, TapsInv

(* The taps of all writes and blocks are among those made. *)
LEMMA StepNumbered ==
  ASSUME TypeOK, TapsInv, [Next]_vars, NEW d \in Devices
  PROVE  Numbered(d)' /\ taps'[d] \in Nat /\ taps'[d] >= taps[d]
<1>0. /\ \A b \in blocks : b.dev = d => b.tap.n <= taps[d] /\ b.tap.n \in Nat
      /\ \A i \in 1..Len(queue[d]) : queue[d][i].tap.n <= taps[d] /\ queue[d][i].tap.n \in Nat
      /\ taps[d] \in Nat
  <2>1. \A k \in Taps : k.n \in Nat
    BY DEF Taps
  <2>2. \A b \in blocks : b.tap \in Taps
    BY DEF TypeOK, Blocks
  <2>3. \A i \in 1..Len(queue[d]) : queue[d][i].tap \in Taps
    <3>1. \A i \in 1..Len(queue[d]) : queue[d][i] \in Writes
      BY DEF TypeOK
    <3> QED BY <3>1 DEF Writes
  <2>4. taps[d] \in Nat
    BY FollowAssumption DEF TypeOK, FollowAssumption
  <2> QED BY <2>1, <2>2, <2>3, <2>4 DEF TapsInv, Numbered
<1>1. ASSUME UNCHANGED taps
      PROVE  /\ \A i \in 1..Len(queue'[d]) : queue'[d][i].tap.n <= taps'[d]
             /\ taps'[d] \in Nat /\ taps'[d] >= taps[d]
  <2>1. \A i \in 1..Len(queue'[d]) : Descends(d, queue'[d][i]) \/ FromBlock(d, queue'[d][i])
    BY StepOrigins DEF Origins
  <2> QED BY <1>0, <1>1, <2>1 DEF Descends, FromBlock
<1>2. ASSUME UNCHANGED taps, \A b \in blocks' : b.dev = d => b \in blocks PROVE Numbered(d)'
  BY <1>0, <1>1, <1>2 DEF Numbered
<1>3. ASSUME NEW e \in Devices, NEW t, NEW screen, NEW isFollowed, Tap(e, t, screen, isFollowed),
             UNCHANGED storeVars
      PROVE  Numbered(d)' /\ taps'[d] \in Nat /\ taps'[d] >= taps[d]
  <2>1. taps'[d] = IF d = e THEN taps[d] + 1 ELSE taps[d]
    BY <1>3 DEF Tap, TypeOK
  <2>2. \A b \in blocks' : b.dev = d => b \in blocks \/ (d = e /\ b.tap.n = taps[d] + 1)
    BY <1>3 DEF Tap
  <2>3. queue' = queue
    BY <1>3 DEF storeVars
  <2>4. \A b \in blocks' : b.dev = d => b.tap.n <= taps'[d]
    BY <1>0, <2>1, <2>2
  <2>5. \A i \in 1..Len(queue'[d]) : queue'[d][i].tap.n <= taps'[d]
    BY <1>0, <2>1, <2>3
  <2> QED BY <1>0, <2>1, <2>4, <2>5 DEF Numbered
<1>4. ASSUME NEW e \in Devices, AnswerAny(e) PROVE UNCHANGED taps /\ Numbered(d)'
  <2>1. UNCHANGED taps
    BY <1>4 DEF AnswerAny, AnswerMirror, AnswerProfile, AnswerRow, AnswerSilent
  <2>2. CASE AnswerProfile(e)
    <3>1. queue[e] # <<>> /\ queue[e] \in Seq(Writes)
      BY <2>2 DEF TypeOK, AnswerProfile, Answer, Answered, Refused
    <3>2. 1 \in 1..Len(queue[e]) /\ Oldest(e) = queue[e][1]
      BY <3>1 DEF Oldest
    <3>3. \A b \in blocks' : b.dev = d => b \in blocks \/ (d = e /\ b.tap = queue[d][1].tap)
      BY <2>2, <3>2 DEF AnswerProfile
    <3> QED BY <1>0, <1>1, <2>1, <3>2, <3>3 DEF Numbered
  <2>3. CASE AnswerMirror(e) \/ AnswerRow(e) \/ AnswerSilent(e)
    BY <1>2, <2>1, <2>3 DEF AnswerMirror, AnswerRow, AnswerSilent
  <2> QED BY <1>4, <2>1, <2>2, <2>3 DEF AnswerAny
<1>5. ASSUME NEW e \in Devices, UserStep(e)
      PROVE  Numbered(d)' /\ taps'[d] \in Nat /\ taps'[d] >= taps[d]
  BY <1>1, <1>2, <1>3, <1>5 DEF UserStep, OpenProfile, Refresh, TapProfile, TapRow
<1>6. ASSUME NEW e \in Devices, ReadStep(e) PROVE UNCHANGED taps /\ blocks' \subseteq blocks
  BY <1>6 DEF ReadStep, NotificationsArrive, ProfileCheckResult, RowCheckResult, CheckFails
<1>7. ASSUME NEW e \in Devices, BlockStep(e) PROVE UNCHANGED taps /\ blocks' \subseteq blocks
  BY <1>7 DEF BlockStep, RunFollowBlock, RunNotifyBlock, RunFeedBlock
<1>8. ASSUME NEW e \in Devices, Apply(e) \/ Resend(e) \/ Crash(e)
      PROVE  UNCHANGED taps /\ blocks' \subseteq blocks
  BY <1>8 DEF Apply, Resend, followVars, Crash
<1>9. CASE UNCHANGED vars
  BY <1>1, <1>2, <1>9 DEF vars, followVars
<1> QED BY <1>1, <1>2, <1>4, <1>5, <1>6, <1>7, <1>8, <1>9 DEF Next

LEMMA StepTaps ==
  ASSUME TypeOK, TapsInv, [Next]_vars
  PROVE  TapsInv'
<1>1. ASSUME NEW d \in Devices, UserStep(d) PROVE \A e \in Devices : Unique(e)'
  <2>1. CASE UNCHANGED <<queue, blocks>>
    BY <2>1, StillTaps
  <2>2. ASSUME NEW t \in Users, TapProfile(d, t) PROVE \A e \in Devices : Unique(e)'
    <3>1. profile[d][t].isFollowed \in BOOLEAN /\ "profile" \in Screens
      BY DEF TypeOK, Profile, Screens
    <3> QED BY <2>2, <3>1, TapTaps DEF TapProfile
  <2>3. ASSUME NEW t \in Users, TapRow(d, t) PROVE \A e \in Devices : Unique(e)'
    <3>1. rows[d][t].cell \in BOOLEAN /\ "row" \in Screens
      BY DEF TypeOK, Row, Screens
    <3> QED BY <2>3, <3>1, TapTaps DEF TapRow
  <2> QED BY <1>1, <2>1, <2>2, <2>3 DEF UserStep, OpenProfile, Refresh, storeVars
<1>2. ASSUME NEW d \in Devices, ReadStep(d) PROVE UNCHANGED <<queue, blocks>>
  BY <1>2 DEF ReadStep, NotificationsArrive, ProfileCheckResult, RowCheckResult, CheckFails, storeVars
<1>3. ASSUME NEW d \in Devices, BlockStep(d) PROVE \A e \in Devices : Unique(e)'
  BY <1>3, RunFollowTaps, RunOtherTaps DEF BlockStep
<1>4. ASSUME NEW d \in Devices, AnswerAny(d) PROVE \A e \in Devices : Unique(e)'
  BY <1>4, AnswerTaps, DoneTaps DEF AnswerAny
<1>5. ASSUME NEW d \in Devices, Apply(d) \/ Resend(d) PROVE UNCHANGED <<queue, blocks>>
  BY <1>5 DEF Apply, Resend, Commit, Reopen, followVars
<1>6. ASSUME NEW d \in Devices, Crash(d) PROVE \A e \in Devices : Unique(e)'
  BY <1>6, CrashTaps
<1>7. CASE UNCHANGED vars
  <2>1. UNCHANGED <<queue, blocks>>
    BY <1>7 DEF vars, storeVars, followVars
  <2>2. \A e \in Devices : Unique(e)'
    BY <2>1, StillTaps
  <2> QED BY <2>2, StepNumbered DEF TapsInv
<1>8. CASE Next
  <2>1. \A e \in Devices : Unique(e)'
    <3>1. CASE UNCHANGED <<queue, blocks>>
      BY <3>1, StillTaps
    <3> QED BY <1>1, <1>2, <1>3, <1>4, <1>5, <1>6, <1>8, <3>1 DEF Next
  <2> QED BY <2>1, StepNumbered DEF TapsInv
<1> QED BY <1>7, <1>8

LEMMA InitTaps == Init => TapsInv
<1> SUFFICES ASSUME Init, NEW d \in Devices PROVE Numbered(d) /\ Unique(d)
  BY DEF TapsInv
<1>1. blocks = {} /\ queue[d] = <<>> /\ Len(queue[d]) = 0
  BY DEF Init
<1>2. Awaited(queue[d]) = {}
  BY <1>1 DEF Awaited
<1>3. FollowTaps(d) = {}
  BY <1>1 DEF FollowTaps
<1>4. TapsIn(queue[d]) = {} /\ Distinct(queue[d])
  BY <1>2 DEF TapsIn, Distinct
<1>5. Unique(d)
  BY <1>3, <1>4 DEF Unique
<1>6. Numbered(d)
  BY <1>1 DEF Numbered
<1> QED BY <1>5, <1>6

-----------------------------------------------------------------------------
(* StatsTypeOK.  A number in a header can be wrong by one for every tap whose
   completion has run, and there is one completion to every tap. *)

(* The numbers of the taps under way, and how many are completed. *)
Numbers(d) == {x.n : x \in Pending(d)}

Done(d) == taps[d] - Cardinality(Numbers(d))

CountsOK == counts \subseteq Devices \X Users \X {1, 2} \X ({Unread} \cup 0..Cardinality(Users))

FollowersOK ==
  /\ followers \in [Devices -> [Users -> Int]]
  /\ \A d \in Devices, t \in Users : followers[d][t] \in (-Done(d))..(Cardinality(Users) + Done(d))

StatsInv ==
  /\ TypeOK /\ TapsInv
  /\ CountsOK /\ FollowersOK
  /\ mixed \subseteq Devices \X Users

LEMMA UsersCount == Cardinality(Users) \in Nat
BY StatsAssumption, FS_CardinalityType DEF StatsAssumption

LEMMA SubsetCount ==
  ASSUME NEW S \in SUBSET Users
  PROVE  IsFiniteSet(S) /\ Cardinality(S) \in Nat /\ Cardinality(S) \in 0..Cardinality(Users)
<1>1. IsFiniteSet(S) /\ Cardinality(S) <= Cardinality(Users)
  BY StatsAssumption, FS_Subset DEF StatsAssumption
<1>2. Cardinality(S) \in Nat
  BY <1>1, FS_CardinalityType
<1> QED BY <1>1, <1>2, UsersCount

LEMMA NumbersCount ==
  ASSUME TypeOK, NEW d \in Devices, Numbered(d)
  PROVE  /\ Numbers(d) \subseteq 1..taps[d] /\ taps[d] \in Nat
         /\ IsFiniteSet(Numbers(d))
         /\ Cardinality(Numbers(d)) \in Nat /\ Cardinality(Numbers(d)) <= taps[d]
         /\ Done(d) \in Nat
<1>1. taps[d] \in Nat /\ taps[d] <= MaxTaps
  BY FollowAssumption DEF TypeOK, FollowAssumption
<1>2. ASSUME NEW x \in Pending(d) PROVE x.n \in 1..taps[d]
  <2>1. x \in Taps /\ x.n <= taps[d] /\ x.n \in Nat
    BY PendingType
  <2>2. x.n \in 1..MaxTaps
    BY <2>1 DEF Taps
  <2> QED BY <1>1, <2>1, <2>2, FollowAssumption DEF FollowAssumption
<1>3. Numbers(d) \subseteq 1..taps[d]
  BY <1>2 DEF Numbers
<1>4. IsFiniteSet(1..taps[d]) /\ Cardinality(1..taps[d]) = taps[d]
  <2>1. 1 \in Int /\ taps[d] \in Int
    BY <1>1
  <2>2. /\ IsFiniteSet(1..taps[d])
        /\ Cardinality(1..taps[d]) = IF 1 > taps[d] THEN 0 ELSE taps[d] - 1 + 1
    BY <2>1, FS_Interval
  <2>3. (IF 1 > taps[d] THEN 0 ELSE taps[d] - 1 + 1) = taps[d]
    BY <1>1
  <2> QED BY <2>2, <2>3
<1>5. IsFiniteSet(Numbers(d)) /\ Cardinality(Numbers(d)) <= taps[d]
  BY <1>3, <1>4, FS_Subset
<1>6. Cardinality(Numbers(d)) \in Nat
  BY <1>5, FS_CardinalityType
<1>7. Done(d) \in Nat
  BY <1>1, <1>5, <1>6 DEF Done
<1> QED BY <1>1, <1>3, <1>5, <1>6, <1>7

LEMMA DoneSame ==
  ASSUME NEW d \in Devices, Pending(d)' = Pending(d), taps'[d] = taps[d]
  PROVE  Done(d)' = Done(d)
BY DEF Done, Numbers

LEMMA DoneTapped ==
  ASSUME TypeOK, TapsInv, NEW d \in Devices, NEW t \in Users, NEW screen \in Screens,
         NEW isFollowed \in BOOLEAN, Tap(d, t, screen, isFollowed), UNCHANGED storeVars, NEW e \in Devices
  PROVE  Done(e)' = Done(e)
<1>1. taps'[e] = (IF e = d THEN taps[d] + 1 ELSE taps[e]) /\ taps[d] \in Nat
  BY FollowAssumption DEF Tap, TypeOK, FollowAssumption
<1>2. CASE e # d
  BY <1>1, <1>2, TapTaps, DoneSame
<1>3. CASE e = d
  <2> DEFINE k == NewTap(d, t, screen, isFollowed)
  <2>1. /\ Pending(d)' = Pending(d) \cup {k}
        /\ \A x \in Pending(d) : x.n # taps[d] + 1
    BY TapTaps
  <2>2. k.n = taps[d] + 1
    BY DEF NewTap
  <2> HIDE DEF k
  <2>3. Numbers(d)' = Numbers(d) \cup {taps[d] + 1} /\ taps[d] + 1 \notin Numbers(d)
    BY <2>1, <2>2 DEF Numbers
  <2>4. IsFiniteSet(Numbers(d)) /\ Cardinality(Numbers(d)) \in Nat
    BY NumbersCount DEF TapsInv
  <2>5. Cardinality(Numbers(d) \cup {taps[d] + 1}) = Cardinality(Numbers(d)) + 1
    BY <2>3, <2>4, FS_AddElement
  <2>6. Cardinality(Numbers(d))' = Cardinality(Numbers(d)) + 1
    BY <2>3, <2>5
  <2> QED BY <1>1, <1>3, <2>4, <2>6 DEF Done
<1> QED BY <1>2, <1>3

LEMMA DoneAnswered ==
  ASSUME TypeOK, TapsInv, NEW d \in Devices, AnswerProfile(d) \/ AnswerRow(d), NEW e \in Devices
  PROVE  Done(e)' = IF e = d THEN Done(e) + 1 ELSE Done(e)
<1>1. taps' = taps /\ taps[d] \in Nat
  BY FollowAssumption DEF AnswerProfile, AnswerRow, TypeOK, FollowAssumption
<1>2. CASE e # d
  BY <1>1, <1>2, DoneTaps, DoneSame
<1>3. CASE e = d
  <2> DEFINE k == Oldest(d).tap
  <2>1. /\ k \in Pending(d)
        /\ Pending(d)' = Pending(d) \ {k}
        /\ \A x \in Pending(d)' : x.n # k.n
    BY DoneTaps
  <2> HIDE DEF k
  <2>2. \A n : n \in Numbers(d)' <=> n \in Numbers(d) /\ n # k.n
    BY <2>1 DEF Numbers
  <2>3. Numbers(d)' = Numbers(d) \ {k.n} /\ k.n \in Numbers(d)
    <3>1. k.n \in Numbers(d)
      BY <2>1 DEF Numbers
    <3> QED BY <2>2, <3>1
  <2>4. IsFiniteSet(Numbers(d)) /\ Cardinality(Numbers(d)) \in Nat
    BY NumbersCount DEF TapsInv
  <2>5. Cardinality(Numbers(d) \ {k.n}) = Cardinality(Numbers(d)) - 1
    BY <2>3, <2>4, FS_RemoveElement
  <2>6. Cardinality(Numbers(d))' = Cardinality(Numbers(d)) - 1
    BY <2>3, <2>5
  <2> QED BY <1>1, <1>3, <2>4, <2>6 DEF Done
<1> QED BY <1>2, <1>3

(* The steps of Stats as steps of Follow; a read of the followers may fail. *)
Misread(d) ==
  UNCHANGED <<storeVars, taps, blocks, checks, screens, wasFollower>> /\ Fails(d, "readfail")

FollowKind == [Next]_vars \/ \E d \in Devices : Misread(d)

LEMMA StatsKind ==
  ASSUME CountsOK, [StatsNext]_allVars
  PROVE  FollowKind
<1>1. CASE UNCHANGED allVars
  BY <1>1 DEF allVars, FollowKind
<1>2. ASSUME NEW d \in Devices, FollowStep(d) PROVE Next
  BY <1>2 DEF FollowStep, Next, UserStep, AnswerAny
<1>3. ASSUME NEW d \in Devices, AnswerStats(d) \/ CrashStats(d) PROVE Next
  BY <1>3 DEF AnswerStats, CrashStats, Next, AnswerAny
<1>4. ASSUME NEW d \in Devices, NEW t \in Users, ShowProfile(d, t) \/ ShowAgain(d, t) PROVE [Next]_vars
  BY <1>4 DEF ShowProfile, ShowAgain, Next, UserStep
<1>5. ASSUME NEW c \in counts, CountFollowers(c) \/ StatsArrive(c) PROVE FollowKind
  <2>1. c[1] \in Devices
    BY <1>5 DEF CountsOK
  <2>2. CASE StatsArrive(c)
    BY <2>2 DEF StatsArrive, FollowKind
  <2>3. CASE CountFollowers(c)
    <3>1. CASE UNCHANGED failed
      BY <2>3, <3>1 DEF CountFollowers, FollowKind, vars, followVars
    <3>2. CASE Fails(c[1], "readfail")
      BY <2>1, <2>3, <3>2 DEF CountFollowers, FollowKind, Misread
    <3> QED BY <2>3, <3>1, <3>2 DEF CountFollowers
  <2> QED BY <1>5, <2>2, <2>3
<1> QED BY <1>1, <1>2, <1>3, <1>4, <1>5 DEF StatsNext, FollowKind

LEMMA StatsTypes ==
  ASSUME TypeOK, TapsInv, FollowKind
  PROVE  TypeOK' /\ TapsInv'
<1>1. CASE [Next]_vars
  BY <1>1, StepType, StepTaps
<1>2. ASSUME NEW d \in Devices, Misread(d) PROVE TypeOK' /\ TapsInv'
  <2>1. failed' \in [Devices -> {"none", "crash", "reject", "readfail"}]
    BY <1>2, FailsType, TypeParts DEF Misread
  <2>2. TypeOK'
    BY <1>2, <2>1 DEF TypeOK, Misread, storeVars, screens
  <2>3. \A e \in Devices : Unique(e)'
    BY <1>2, StillTaps DEF Misread, storeVars
  <2>4. \A e \in Devices : Numbered(e)'
    BY <1>2 DEF Misread, storeVars, Numbered, TapsInv
  <2> QED BY <2>2, <2>3, <2>4 DEF TapsInv
<1> QED BY <1>1, <1>2 DEF FollowKind

-----------------------------------------------------------------------------
(* StatsInv is inductive. *)

(* At most one more completion has run. *)
DoneGrows == \A e \in Devices : Done(e)' \in {Done(e), Done(e) + 1}

LEMMA SameDone ==
  ASSUME SamePending, UNCHANGED taps
  PROVE  DoneGrows
BY DoneSame DEF DoneGrows, SamePending

LEMMA FollowStepDone ==
  ASSUME TypeOK, TapsInv, NEW d \in Devices, FollowStep(d)
  PROVE  DoneGrows
<1>1. CASE UNCHANGED <<queue, blocks, taps>>
  BY <1>1, StillTaps, SameDone
<1>2. ASSUME NEW t \in Users, TapProfile(d, t) PROVE DoneGrows
  <2>1. profile[d][t].isFollowed \in BOOLEAN /\ "profile" \in Screens
    BY DEF TypeOK, Profile, Screens
  <2> QED BY <1>2, <2>1, DoneTapped DEF TapProfile, DoneGrows
<1>3. ASSUME NEW t \in Users, TapRow(d, t) PROVE DoneGrows
  <2>1. rows[d][t].cell \in BOOLEAN /\ "row" \in Screens
    BY DEF TypeOK, Row, Screens
  <2> QED BY <1>3, <2>1, DoneTapped DEF TapRow, DoneGrows
<1>4. CASE Refresh(d)
  BY <1>1, <1>4 DEF Refresh, storeVars
<1>5. CASE ReadStep(d)
  BY <1>1, <1>5 DEF ReadStep, NotificationsArrive, ProfileCheckResult, RowCheckResult, CheckFails, storeVars
<1>6. CASE BlockStep(d)
  <2>1. PICK b \in blocks : RunFollowBlock(b) \/ RunNotifyBlock(b) \/ RunFeedBlock(b)
    BY <1>6 DEF BlockStep
  <2>2. SamePending
    BY <2>1, RunFollowTaps, RunOtherTaps
  <2>3. UNCHANGED taps
    BY <2>1 DEF RunFollowBlock, RunNotifyBlock, RunFeedBlock
  <2> QED BY <2>2, <2>3, SameDone
<1>7. CASE AnswerMirror(d) \/ AnswerSilent(d)
  <2>1. UNCHANGED taps
    BY <1>7 DEF AnswerMirror, AnswerSilent
  <2> QED BY <1>7, <2>1, AnswerTaps, SameDone
<1>8. CASE AnswerRow(d)
  BY <1>8, DoneAnswered DEF DoneGrows
<1>9. CASE Apply(d) \/ Resend(d)
  BY <1>1, <1>9 DEF Apply, Resend, Commit, Reopen, followVars
<1> QED BY <1>2, <1>3, <1>4, <1>5, <1>6, <1>7, <1>8, <1>9 DEF FollowStep

LEMMA DoneType ==
  ASSUME TypeOK, TapsInv, NEW d \in Devices
  PROVE  Done(d) \in Nat
BY NumbersCount DEF TapsInv

(* The numbers stay, and their bounds do not get narrower. *)
LEMMA Widen ==
  ASSUME TypeOK, TapsInv, FollowersOK, followers' = followers, DoneGrows
  PROVE  FollowersOK'
<1>1. ASSUME NEW d \in Devices, NEW t \in Users
      PROVE  followers'[d][t] \in (-Done(d)')..(Cardinality(Users) + Done(d)')
  <2>1. Done(d) \in Nat /\ Done(d)' \in {Done(d), Done(d) + 1}
    BY DoneType DEF DoneGrows
  <2>2. followers'[d][t] \in (-Done(d))..(Cardinality(Users) + Done(d))
    BY DEF FollowersOK
  <2> QED BY <2>1, <2>2, UsersCount
<1>2. followers' \in [Devices -> [Users -> Int]]
  BY DEF FollowersOK
<1> QED BY <1>1, <1>2 DEF FollowersOK

LEMMA AnswerFollowers ==
  ASSUME TypeOK, TapsInv, FollowersOK, NEW d \in Devices, AnswerStats(d)
  PROVE  FollowersOK'
<1> DEFINE t == Oldest(d).tap.target
           v == IF Oldest(d).tap.val THEN 1 ELSE -1
<1>1. AnswerProfile(d) /\ t \in Users
  <2>1. Answer(d, "done")
    BY DEF AnswerStats, AnswerProfile
  <2>2. Oldest(d) \in Writes
    BY <2>1, TypeParts, AnswerFacts
  <2> QED BY <2>2 DEF AnswerStats, Writes, Taps
<1>2. followers' = [followers EXCEPT ![d][t] = @ + v] /\ v \in {1, -1}
  BY DEF AnswerStats
<1> HIDE DEF t, v
<1>3. \A e \in Devices, u \in Users :
        /\ followers[e][u] \in Int
        /\ followers'[e][u] = IF e = d /\ u = t THEN followers[d][t] + v ELSE followers[e][u]
  BY <1>1, <1>2 DEF FollowersOK
<1>4. ASSUME NEW e \in Devices, NEW u \in Users
      PROVE  followers'[e][u] \in (-Done(e)')..(Cardinality(Users) + Done(e)')
  <2>1. Done(e) \in Nat /\ Done(e)' = IF e = d THEN Done(e) + 1 ELSE Done(e)
    BY <1>1, DoneType, DoneAnswered
  <2>2. followers[e][u] \in (-Done(e))..(Cardinality(Users) + Done(e))
    BY DEF FollowersOK
  <2>3. followers[e][u] \in Int /\ Cardinality(Users) \in Nat
    BY <1>3, UsersCount
  <2>4. followers'[e][u] \in {followers[e][u], followers[e][u] + 1, followers[e][u] - 1}
        /\ (e # d => followers'[e][u] = followers[e][u])
    BY <1>2, <1>3
  <2> HIDE DEF Done
  <2> QED BY <2>1, <2>2, <2>3, <2>4
<1>5. followers' \in [Devices -> [Users -> Int]]
  <2>1. [followers[d] EXCEPT ![t] = @ + v] \in [Users -> Int]
    BY <1>1, <1>2 DEF FollowersOK
  <2>2. followers' = [followers EXCEPT ![d] = [followers[d] EXCEPT ![t] = @ + v]]
    BY <1>1, <1>2 DEF FollowersOK
  <2> QED BY <2>1, <2>2 DEF FollowersOK
<1> QED BY <1>4, <1>5 DEF FollowersOK

LEMMA CrashFollowers ==
  ASSUME TypeOK, TapsInv, FollowersOK, NEW d \in Devices, CrashStats(d)
  PROVE  FollowersOK'
<1>1. followers' = [followers EXCEPT ![d] = [t \in Users |-> 0]] /\ Crash(d) /\ taps' = taps
  BY DEF CrashStats, Crash
<1>2. Done(d)' \in Nat
  <2>1. Pending(d)' = {}
    BY <1>1, CrashTaps
  <2>2. Numbers(d)' = {}
    BY <2>1 DEF Numbers
  <2>3. Cardinality(Numbers(d))' = 0
    BY <2>2, FS_EmptySet
  <2>4. taps'[d] \in Nat
    BY <1>1, FollowAssumption DEF TypeOK, FollowAssumption
  <2> QED BY <2>3, <2>4 DEF Done
<1>3. ASSUME NEW e \in Devices, e # d PROVE Done(e)' = Done(e)
  BY <1>1, <1>3, CrashTaps, DoneSame
<1>4. ASSUME NEW e \in Devices, NEW u \in Users
      PROVE  followers'[e][u] \in (-Done(e)')..(Cardinality(Users) + Done(e)')
  <2>1. CASE e = d
    <3>1. followers'[e][u] = 0
      BY <1>1, <2>1 DEF FollowersOK
    <3> QED BY <1>2, <2>1, <3>1, UsersCount
  <2>2. CASE e # d
    <3>1. followers'[e] = followers[e]
      BY <1>1, <2>2 DEF FollowersOK
    <3> QED BY <1>3, <2>2, <3>1 DEF FollowersOK
  <2> QED BY <2>1, <2>2
<1>5. followers' \in [Devices -> [Users -> Int]]
  BY <1>1 DEF FollowersOK
<1> QED BY <1>4, <1>5 DEF FollowersOK

LEMMA ArriveFollowers ==
  ASSUME TypeOK, TapsInv, CountsOK, FollowersOK, NEW c \in counts, StatsArrive(c)
  PROVE  FollowersOK'
<1>1. /\ c[1] \in Devices /\ c[2] \in Users /\ c[4] \in 0..Cardinality(Users)
      /\ followers' = [followers EXCEPT ![c[1]][c[2]] = c[4]]
  BY DEF StatsArrive, CountsOK
<1>2. \A e \in Devices : Done(e)' = Done(e) /\ Done(e) \in Nat
  BY DoneType, DoneSame, StillTaps DEF StatsArrive, vars, storeVars, followVars, SamePending
<1>3. ASSUME NEW e \in Devices, NEW u \in Users
      PROVE  followers'[e][u] \in (-Done(e)')..(Cardinality(Users) + Done(e)')
  <2>1. CASE e = c[1] /\ u = c[2]
    <3>1. followers'[e][u] = c[4]
      BY <1>1, <2>1 DEF FollowersOK
    <3> QED BY <1>1, <1>2, <3>1, UsersCount
  <2>2. CASE ~(e = c[1] /\ u = c[2])
    <3>1. followers'[e][u] = followers[e][u]
      BY <1>1, <2>2 DEF FollowersOK
    <3> QED BY <1>2, <3>1 DEF FollowersOK
  <2> QED BY <2>1, <2>2
<1>4. followers' \in [Devices -> [Users -> Int]]
  <2>1. [followers[c[1]] EXCEPT ![c[2]] = c[4]] \in [Users -> Int]
    BY <1>1, UsersCount DEF FollowersOK
  <2>2. followers' = [followers EXCEPT ![c[1]] = [followers[c[1]] EXCEPT ![c[2]] = c[4]]]
    BY <1>1 DEF FollowersOK
  <2> QED BY <1>1, <2>1, <2>2 DEF FollowersOK
<1> QED BY <1>3, <1>4 DEF FollowersOK

(* The reads under way stay well formed. *)
LEMMA StepCounts ==
  ASSUME CountsOK, [StatsNext]_allVars
  PROVE  CountsOK'
<1>1. CASE UNCHANGED counts
  BY <1>1 DEF CountsOK
<1>2. ASSUME NEW d \in Devices, NEW t \in Users, ShowProfile(d, t) \/ ShowAgain(d, t) PROVE CountsOK'
  BY <1>2 DEF ShowProfile, ShowAgain, CountsOK
<1>3. ASSUME NEW c \in counts, CountFollowers(c) \/ StatsArrive(c) PROVE CountsOK'
  <2> DEFINE n == Cardinality(FollowersOf(c[1], c[2]))
  <2>1. c[1] \in Devices /\ c[2] \in Users /\ c[3] \in {1, 2} /\ n \in 0..Cardinality(Users)
    BY SubsetCount DEF CountsOK, FollowersOf
  <2>2. 0 \in 0..Cardinality(Users)
    BY UsersCount
  <2> HIDE DEF n
  <2>3. counts' \in {counts \ {c}, (counts \ {c}) \cup {<<c[1], c[2], c[3], n>>},
                     (counts \ {c}) \cup {<<c[1], c[2], c[3], 0>>}}
    BY <1>3 DEF CountFollowers, StatsArrive, n
  <2> QED BY <2>1, <2>2, <2>3 DEF CountsOK
<1>4. ASSUME NEW d \in Devices, FollowStep(d) \/ AnswerStats(d) \/ CrashStats(d) PROVE CountsOK'
  BY <1>4 DEF FollowStep, AnswerStats, CrashStats, CountsOK
<1> QED BY <1>1, <1>2, <1>3, <1>4 DEF StatsNext, allVars, statsVars

LEMMA StepStats == StatsInv /\ [StatsNext]_allVars => StatsInv'
<1> SUFFICES ASSUME StatsInv, [StatsNext]_allVars PROVE StatsInv'
  OBVIOUS
<1> USE DEF StatsInv
<1>1. TypeOK' /\ TapsInv' /\ CountsOK'
  BY StatsKind, StatsTypes, StepCounts
<1>2. mixed' \subseteq Devices \X Users
  BY DEF StatsNext, Remember, allVars, statsVars
<1>3. ASSUME followers' = followers, UNCHANGED <<queue, blocks, taps>> PROVE FollowersOK'
  BY <1>3, StillTaps, SameDone, Widen
<1>4. ASSUME UNCHANGED allVars PROVE FollowersOK'
  BY <1>3, <1>4 DEF allVars, statsVars, vars, storeVars, followVars
<1>5. ASSUME NEW d \in Devices, FollowStep(d) PROVE FollowersOK'
  BY <1>5, FollowStepDone, Widen DEF FollowStep
<1>6. ASSUME NEW d \in Devices, AnswerStats(d) PROVE FollowersOK'
  BY <1>6, AnswerFollowers
<1>7. ASSUME NEW d \in Devices, CrashStats(d) PROVE FollowersOK'
  BY <1>7, CrashFollowers
<1>8. ASSUME NEW d \in Devices, NEW t \in Users, ShowProfile(d, t) \/ ShowAgain(d, t) PROVE FollowersOK'
  BY <1>3, <1>8 DEF ShowProfile, ShowAgain, OpenProfile, vars, storeVars, followVars
<1>9. ASSUME NEW c \in counts, CountFollowers(c) \/ StatsArrive(c) PROVE FollowersOK'
  BY <1>3, <1>9, ArriveFollowers DEF CountFollowers, storeVars
<1>10. FollowersOK'
  BY <1>4, <1>5, <1>6, <1>7, <1>8, <1>9 DEF StatsNext
<1> QED BY <1>1, <1>2, <1>10

LEMMA InitStats == StatsInit => StatsInv
<1> SUFFICES ASSUME StatsInit PROVE StatsInv
  OBVIOUS
<1>1. TypeOK /\ TapsInv
  BY InitType, InitTaps DEF StatsInit
<1>2. ASSUME NEW d \in Devices PROVE Done(d) \in Nat
  BY <1>1, DoneType
<1>3. FollowersOK
  BY <1>2, UsersCount DEF FollowersOK, StatsInit
<1> QED BY <1>1, <1>3 DEF StatsInv, CountsOK, StatsInit

LEMMA StatsInvType == StatsInv => StatsTypeOK
<1> SUFFICES ASSUME StatsInv PROVE StatsTypeOK
  OBVIOUS
<1> USE DEF StatsInv
<1>1. ASSUME NEW d \in Devices, NEW t \in Users
      PROVE  followers[d][t] \in (-MaxTaps)..(Cardinality(Users) + MaxTaps)
  <2>1. followers[d][t] \in (-Done(d))..(Cardinality(Users) + Done(d))
    BY DEF FollowersOK
  <2>2. Done(d) \in Nat /\ Cardinality(Numbers(d)) \in Nat
    BY NumbersCount DEF TapsInv
  <2>3. taps[d] \in Nat /\ taps[d] <= MaxTaps /\ MaxTaps \in Nat
    BY FollowAssumption DEF TypeOK, FollowAssumption
  <2>4. Done(d) <= MaxTaps
    BY <2>2, <2>3 DEF Done
  <2> HIDE DEF Done
  <2> QED BY <2>1, <2>2, <2>3, <2>4, UsersCount
<1>2. ASSUME NEW d \in Devices PROVE applied[d] \in 0..Len(queue[d])
  <2>1. queue[d] \in Seq(Writes) /\ applied[d] \in Nat /\ applied[d] <= Len(queue[d])
    BY DEF TypeOK
  <2>2. Len(queue[d]) \in Nat
    BY <2>1
  <2> QED BY <2>1, <2>2
<1> QED BY <1>1, <1>2 DEF StatsTypeOK, CountsOK

(* The number of followers in the header of a profile, which fetchUserState
   reads and the completions of follow and unfollow count up and down, is never
   off by more than one for every tap. *)
THEOREM StatsTypeCorrect == StatsSpec => []StatsTypeOK
<1>1. StatsSpec => []StatsInv
  BY InitStats, StepStats, PTL DEF StatsSpec
<1> QED BY <1>1, StatsInvType, PTL

-----------------------------------------------------------------------------
(* StatsExact.  What a header shows is followed through a tap: before it, and
   when its completion has run, the number is that of the documents; in between
   the phone's own follower is not, or still, in it, as the tap wants it
   otherwise, and is in the documents once the second write is applied. *)

(* A queued write has the value its tap asks for. *)
ValsOK == \A d \in Devices : \A i \in 1..Len(queue[d]) :
            queue[d][i].then # "none" => queue[d][i].val = queue[d][i].tap.val

(* No other phone has tapped. *)
Lone(d) == \A e \in Devices : e # d => taps[e] = 0

LoneInv ==
  /\ StatsInv /\ MirrorInv /\ ValsOK
  /\ \A d \in Devices, t \in Users : Lone(d) /\ Sound(d) => PairInv(d, t)

(* The other phones are idle. *)
LEMMA LoneIdle ==
  ASSUME TypeOK, TapsInv, NEW d \in Devices, Lone(d), NEW e \in Devices, e # d
  PROVE  queue[e] = <<>> /\ (\A b \in blocks : b.dev # e) /\ Pending(e) = {}
<1>1. taps[e] = 0 /\ Numbered(e)
  BY DEF Lone, TapsInv
<1>2. \A k \in Taps : k.n \in Nat /\ k.n >= 1
  BY FollowAssumption DEF Taps, FollowAssumption
<1>3. ASSUME NEW b \in blocks, b.dev = e PROVE FALSE
  <2>1. b.tap \in Taps
    BY DEF TypeOK, Blocks
  <2>2. b.tap.n <= 0
    BY <1>1, <1>3 DEF Numbered
  <2> QED BY <1>2, <2>1, <2>2
<1>4. queue[e] \in Seq(Writes)
  BY DEF TypeOK
<1>5. ASSUME queue[e] # <<>> PROVE FALSE
  <2>1. 1 \in 1..Len(queue[e]) /\ queue[e][1] \in Writes
    BY <1>4, <1>5
  <2>2. queue[e][1].tap \in Taps /\ queue[e][1].tap.n <= 0
    BY <1>1, <2>1 DEF Writes, Numbered
  <2> QED BY <1>2, <2>2
<1>6. FollowTaps(e) = {}
  BY <1>3 DEF FollowTaps
<1>7. TapsIn(queue[e]) = {}
  BY <1>5 DEF TapsIn, Awaited
<1> QED BY <1>3, <1>5, <1>6, <1>7 DEF Pending

(* A phone that is alone was alone before. *)
LEMMA LoneBefore ==
  ASSUME TypeOK, TapsInv, FollowKind, NEW d \in Devices, Lone(d)'
  PROVE  Lone(d)
<1> SUFFICES ASSUME NEW e \in Devices, e # d PROVE taps[e] = 0
  BY DEF Lone
<1>1. taps'[e] = 0
  BY DEF Lone
<1>2. taps[e] \in Nat
  BY FollowAssumption DEF TypeOK, FollowAssumption
<1>3. CASE [Next]_vars
  <2>1. taps'[e] >= taps[e]
    BY <1>3, StepNumbered
  <2> QED BY <1>1, <1>2, <2>1
<1>4. CASE \E f \in Devices : Misread(f)
  BY <1>1, <1>4 DEF Misread
<1> QED BY <1>3, <1>4 DEF FollowKind

LEMMA KindStore ==
  ASSUME TypeOK, FollowKind
  PROVE  StoreStep
BY StepKind DEF FollowKind, Misread, StoreStep

(* Values. *)
LEMMA BlockVals ==
  ASSUME TypeOK, ValsOK, NEW b \in blocks, RunFollowBlock(b) \/ RunNotifyBlock(b) \/ RunFeedBlock(b)
  PROVE  ValsOK'
<1> DEFINE d == b.dev
<1>1. /\ d \in Devices /\ b.tap \in Taps
      /\ queue \in [Devices -> Seq(Writes)] /\ queue[d] \in Seq(Writes)
  BY DEF TypeOK, Blocks
<1> HIDE DEF d
<1>2. ASSUME NEW q \in Seq(Writes), queue' = [queue EXCEPT ![d] = queue[d] \o q],
             \A i \in 1..Len(q) : q[i].then # "none" => q[i].val = q[i].tap.val
      PROVE  ValsOK'
  <2>1. ASSUME NEW e \in Devices \ {d}, NEW i \in 1..Len(queue'[e])
        PROVE  queue'[e][i].then # "none" => queue'[e][i].val = queue'[e][i].tap.val
    BY <1>1, <1>2 DEF ValsOK
  <2>2. ASSUME NEW i \in 1..Len(queue'[d])
        PROVE  queue'[d][i].then # "none" => queue'[d][i].val = queue'[d][i].tap.val
    <3>1. queue'[d] = queue[d] \o q
      BY <1>1, <1>2
    <3>2. \/ i \in 1..Len(queue[d]) /\ queue'[d][i] = queue[d][i]
          \/ i - Len(queue[d]) \in 1..Len(q) /\ queue'[d][i] = q[i - Len(queue[d])]
      BY <1>1, <3>1, ConcatFacts
    <3> QED BY <1>1, <1>2, <3>2 DEF ValsOK
  <2> QED BY <2>1, <2>2 DEF ValsOK
<1>3. ASSUME NEW w \in Writes, queue' = [queue EXCEPT ![d] = Append(queue[d], w)],
             w.then # "none" => w.val = w.tap.val
      PROVE  ValsOK'
  <2>1. <<w>> \in Seq(Writes) /\ \A i \in 1..Len(<<w>>) : <<w>>[i] = w
    OBVIOUS
  <2>2. Append(queue[d], w) = queue[d] \o <<w>>
    BY <1>1
  <2> QED BY <1>2, <1>3, <2>1, <2>2
<1>4. CASE RunFollowBlock(b)
  <2> DEFINE w == [doc |-> FollowingDoc(Account[d], b.tap.target),
                   val |-> b.tap.val, then |-> "mirror", tap |-> b.tap]
  <2>1. w \in Writes /\ w.val = w.tap.val
    BY <1>1, AccountType, DocsType DEF Writes, Taps
  <2>2. queue' = [queue EXCEPT ![d] = Append(queue[d], w)]
    BY <1>1, <1>4 DEF RunFollowBlock, Enqueue, d
  <2> HIDE DEF w
  <2> QED BY <1>3, <2>1, <2>2
<1>5. CASE RunNotifyBlock(b)
  <2> DEFINE w == [doc |-> NotificationDoc(b.tap.target, Account[d]),
                   val |-> TRUE, then |-> "none", tap |-> b.tap]
  <2>1. w \in Writes /\ w.then = "none"
    BY <1>1, AccountType, DocsType DEF Writes, Taps
  <2>2. queue' = [queue EXCEPT ![d] = Append(queue[d], w)]
    BY <1>1, <1>5 DEF RunNotifyBlock, Enqueue, d
  <2> HIDE DEF w
  <2> QED BY <1>3, <2>1, <2>2
<1>6. CASE RunFeedBlock(b)
  <2>1. ASSUME NEW s \in SetToSeqs(PostsOf(d, b.tap.target)),
               EnqueueAll(d, [i \in DOMAIN s |-> FeedWrite(d, b.tap, s[i])])
        PROVE  ValsOK'
    <3> DEFINE q == [i \in DOMAIN s |-> FeedWrite(d, b.tap, s[i])]
    <3>1. q \in Seq(Writes)
      BY <1>1, FeedWritesType
    <3>2. \A i \in 1..Len(q) : q[i].then = "none"
      BY <3>1 DEF FeedWrite
    <3> HIDE DEF q
    <3> QED BY <1>2, <2>1, <3>1, <3>2 DEF EnqueueAll, q
  <2>2. CASE UNCHANGED storeVars
    BY <2>2 DEF storeVars, ValsOK
  <2> QED BY <1>6, <2>1, <2>2 DEF RunFeedBlock, d
<1> QED BY <1>4, <1>5, <1>6

LEMMA AnswerVals ==
  ASSUME TypeOK, ValsOK, NEW d \in Devices, AnswerAny(d)
  PROVE  ValsOK'
<1>1. PICK then : Answer(d, then)
  BY DEF AnswerAny, AnswerMirror, AnswerProfile, AnswerRow, AnswerSilent
<1>2. /\ queue \in [Devices -> Seq(Writes)] /\ queue[d] \in Seq(Writes) /\ queue[d] # <<>>
      /\ Oldest(d) = queue[d][1] /\ Oldest(d) \in Writes
  BY <1>1, TypeParts, AnswerFacts DEF TypeOK, Oldest
<1>3. /\ Tail(queue[d]) \in Seq(Writes)
      /\ Len(Tail(queue[d])) = Len(queue[d]) - 1
      /\ Len(queue[d]) \in Nat \ {0}
      /\ \A i \in 1..Len(Tail(queue[d])) : Tail(queue[d])[i] = queue[d][i + 1]
  BY <1>2, TailFacts
<1>4. \A e \in Devices \ {d} : queue'[e] = queue[e]
  BY <1>2 DEF AnswerAny, AnswerMirror, AnswerProfile, AnswerRow, AnswerSilent, Dequeue, DequeueThenEnqueue
<1>5. \A i \in 1..Len(Tail(queue[d])) :
        Tail(queue[d])[i].then # "none" => Tail(queue[d])[i].val = Tail(queue[d])[i].tap.val
  BY <1>3 DEF ValsOK
<1>6. CASE AnswerMirror(d)
  <2> DEFINE w == [Oldest(d) EXCEPT !.doc = FollowersDoc(Oldest(d).tap.target, Account[d]),
                                    !.then = "done"]
             q == Tail(queue[d])
  <2>1. queue'[d] = Append(q, w) /\ Oldest(d).then = "mirror"
    BY <1>2, <1>6 DEF AnswerMirror, Answer, DequeueThenEnqueue
  <2>2. w.val = w.tap.val
    BY <1>2, <1>3, <2>1 DEF ValsOK, Writes
  <2> HIDE DEF w, q
  <2>3. ASSUME NEW i \in 1..Len(queue'[d])
        PROVE  queue'[d][i] = w \/ (i \in 1..Len(q) /\ queue'[d][i] = q[i])
    BY <1>3, <2>1 DEF q
  <2>4. ASSUME NEW e \in Devices, NEW i \in 1..Len(queue'[e])
        PROVE  queue'[e][i].then # "none" => queue'[e][i].val = queue'[e][i].tap.val
    <3>1. CASE e = d
      <4>1. queue'[e][i] = w \/ (i \in 1..Len(q) /\ queue'[e][i] = q[i])
        BY <2>3, <3>1
      <4> QED BY <1>5, <2>2, <4>1 DEF q
    <3>2. CASE e # d
      BY <1>4, <3>2 DEF ValsOK
    <3> QED BY <3>1, <3>2
  <2> QED BY <2>4 DEF ValsOK
<1>7. CASE AnswerProfile(d) \/ AnswerRow(d) \/ AnswerSilent(d)
  <2>1. queue'[d] = Tail(queue[d])
    BY <1>2, <1>7 DEF AnswerProfile, AnswerRow, AnswerSilent, Dequeue
  <2>2. ASSUME NEW e \in Devices, NEW i \in 1..Len(queue'[e])
        PROVE  queue'[e][i].then # "none" => queue'[e][i].val = queue'[e][i].tap.val
    <3>1. CASE e = d
      BY <1>5, <2>1, <3>1
    <3>2. CASE e # d
      BY <1>4, <3>2 DEF ValsOK
    <3> QED BY <3>1, <3>2
  <2> QED BY <2>2 DEF ValsOK
<1> QED BY <1>6, <1>7 DEF AnswerAny

LEMMA StepVals ==
  ASSUME TypeOK, ValsOK, FollowKind
  PROVE  ValsOK'
<1>1. CASE UNCHANGED queue
  BY <1>1 DEF ValsOK
<1>2. ASSUME NEW d \in Devices, UserStep(d) \/ ReadStep(d) \/ Apply(d) \/ Resend(d) PROVE UNCHANGED queue
  BY <1>2 DEF UserStep, OpenProfile, TapProfile, TapRow, Refresh, ReadStep, NotificationsArrive,
       ProfileCheckResult, RowCheckResult, CheckFails, Apply, Resend, Commit, Reopen, storeVars
<1>3. ASSUME NEW d \in Devices, BlockStep(d) PROVE ValsOK'
  BY <1>3, BlockVals DEF BlockStep
<1>4. ASSUME NEW d \in Devices, Crash(d) PROVE ValsOK'
  <2>1. /\ queue \in [Devices -> Seq(Writes)] /\ queue[d] \in Seq(Writes)
        /\ queue' = [queue EXCEPT ![d] = [i \in DOMAIN queue[d] |-> Forgotten(queue[d][i])]]
    BY <1>4 DEF TypeOK, Crash, LoseProcess
  <2>2. ASSUME NEW e \in Devices, NEW i \in 1..Len(queue'[e])
        PROVE  queue'[e][i].then # "none" => queue'[e][i].val = queue'[e][i].tap.val
    <3>1. CASE e = d
      <4>1. i \in 1..Len(queue[d]) /\ queue'[e][i] = Forgotten(queue[d][i]) /\ queue[d][i] \in Writes
        BY <2>1, <3>1
      <4> QED BY <4>1 DEF Forgotten, Writes
    <3>2. CASE e # d
      BY <2>1, <3>2 DEF ValsOK
    <3> QED BY <3>1, <3>2
  <2> QED BY <2>2 DEF ValsOK
<1>5. ASSUME NEW d \in Devices, Misread(d) PROVE UNCHANGED queue
  BY <1>5 DEF Misread, storeVars
<1>6. CASE UNCHANGED vars
  BY <1>1, <1>6 DEF vars, storeVars
<1> QED BY <1>1, <1>2, <1>3, <1>4, <1>5, <1>6, AnswerVals DEF FollowKind, Next

LEMMA KindMirror ==
  ASSUME MirrorInv, FollowKind, TypeOK'
  PROVE  MirrorInv'
<1>1. StoreStep
  BY KindStore DEF MirrorInv
<1>2. ASSUME NEW e \in Devices, NEW t \in Users, Sole(e), Sound(e)' PROVE PairInv(e, t)'
  <2>1. PairInv(e, t) /\ \A d \in Devices : Apart(d, e)
    BY <1>1, <1>2, StepKeeps DEF MirrorInv, Sole, Apart
  <2> QED BY <1>1, <1>2, <2>1, StepKeeps
<1> QED BY <1>1, <1>2, StepKeeps DEF MirrorInv, Sole

LEMMA StepLone == LoneInv /\ [StatsNext]_allVars => LoneInv'
<1> SUFFICES ASSUME LoneInv, [StatsNext]_allVars PROVE LoneInv'
  OBVIOUS
<1> USE DEF LoneInv
<1>1. FollowKind /\ StatsInv' /\ TypeOK /\ TapsInv /\ TypeOK' /\ TapsInv'
  BY StatsKind, StepStats DEF StatsInv
<1>2. StoreStep
  BY <1>1, KindStore
<1>3. MirrorInv' /\ ValsOK'
  BY <1>1, KindMirror, StepVals
<1>4. ASSUME NEW d \in Devices, NEW t \in Users, Lone(d)', Sound(d)' PROVE PairInv(d, t)'
  <2>1. Lone(d) /\ Sound(d)
    BY <1>1, <1>2, <1>4, LoneBefore, StepKeeps
  <2>2. PairInv(d, t) /\ \A e \in Devices : Apart(e, d)
    BY <1>1, <2>1, LoneIdle DEF Apart
  <2> QED BY <1>2, <1>4, <2>2, StepKeeps
<1> QED BY <1>1, <1>3, <1>4

LEMMA InitLone == StatsInit => LoneInv
<1> SUFFICES ASSUME StatsInit PROVE LoneInv
  OBVIOUS
<1>1. StatsInv /\ MirrorInv
  BY InitStats, InitMirror DEF StatsInit
<1>2. ValsOK
  BY DEF StatsInit, Init, ValsOK
<1>3. ASSUME NEW d \in Devices, NEW t \in Users PROVE PairInv(d, t)
  BY InitPairs DEF StatsInit
<1> QED BY <1>1, <1>2, <1>3 DEF LoneInv

-----------------------------------------------------------------------------
(* The followers of t that are stored, and those that do not depend on phone d. *)
Fans(t) == {u \in Users : db[FollowersDoc(t, u)]}

Others(d, t) == Fans(t) \ {Account[d]}

Own(d, t) == db[FollowersDoc(t, Account[d])]

CountsOn(d, t) == {c \in counts : c[1] = d /\ c[2] = t}

(* Before a tap, and after it: the number is right, or is about to be read. *)
Before(d, t) ==
  /\ TapsOn(d, t) = {}
  /\ \A c \in CountsOn(d, t) : c[4] \in {Unread, Cardinality(Fans(t))}
  /\ CountsOn(d, t) = {} => followers[d][t] = Cardinality(Fans(t))

(* While tap k is under way: the number is that from before. *)
During(d, t, k) ==
  /\ TapsOn(d, t) = {k} /\ k.screen = "profile" /\ CountsOn(d, t) = {}
  /\ followers[d][t] = Cardinality(Others(d, t)) + (IF k.val THEN 0 ELSE 1)
  /\ NoSecond(queue[d], t) => Own(d, t) = ~k.val
  /\ \A i \in 1..applied[d] : Awaits("target", queue[d][i], "done", t) => Own(d, t) = k.val

CountedOK(d, t) == Before(d, t) \/ \E k \in Taps : During(d, t, k)

Clean(d, t) ==
  /\ Lone(d) /\ failed[d] = "none"
  /\ profile[d][t].open /\ <<d, t>> \notin mixed

CountInv ==
  /\ LoneInv
  /\ \A c \in counts : profile[c[1]][c[2]].open
  /\ \A d \in Devices, t \in Users : Clean(d, t) => CountedOK(d, t)

(* The step leaves t's followers, and no second write of e and t gets applied. *)
StoreKept(e, t) ==
  /\ \A u \in Users : db'[FollowersDoc(t, u)] = db[FollowersDoc(t, u)]
  /\ NoSecond(queue'[e], t) => NoSecond(queue[e], t)
  /\ \A i \in 1..applied'[e] : Awaits("target", queue'[e][i], "done", t) =>
       \E j \in 1..applied[e] : Awaits("target", queue[e][j], "done", t)

LEMMA KeptFans ==
  ASSUME NEW e \in Devices, NEW t \in Users, \A u \in Users : db'[FollowersDoc(t, u)] = db[FollowersDoc(t, u)]
  PROVE  /\ Fans(t)' = Fans(t) /\ Others(e, t)' = Others(e, t) /\ Own(e, t)' = Own(e, t)
         /\ Cardinality(Fans(t))' = Cardinality(Fans(t))
         /\ Cardinality(Others(e, t))' = Cardinality(Others(e, t))
<1>1. Fans(t)' = Fans(t)
  BY DEF Fans
<1>2. Own(e, t)' = Own(e, t)
  BY AccountType DEF Own
<1>3. Others(e, t)' = Others(e, t)
  BY <1>1 DEF Others
<1> QED BY <1>1, <1>2, <1>3

LEMMA KeptCounted ==
  ASSUME NEW e \in Devices, NEW t \in Users, StoreKept(e, t), CountedOK(e, t),
         TapsOn(e, t)' = TapsOn(e, t), CountsOn(e, t)' = CountsOn(e, t),
         followers'[e][t] = followers[e][t]
  PROVE  CountedOK(e, t)'
<1>1. /\ Fans(t)' = Fans(t) /\ Others(e, t)' = Others(e, t) /\ Own(e, t)' = Own(e, t)
      /\ Cardinality(Fans(t))' = Cardinality(Fans(t))
      /\ Cardinality(Others(e, t))' = Cardinality(Others(e, t))
  BY KeptFans DEF StoreKept
<1>2. CASE Before(e, t)
  <2>1. Before(e, t)'
    BY <1>1, <1>2 DEF Before
  <2> QED BY <2>1 DEF CountedOK
<1>3. ASSUME NEW k \in Taps, During(e, t, k) PROVE CountedOK(e, t)'
  <2>1. NoSecond(queue[e], t)' => Own(e, t)' = ~k.val
    BY <1>1, <1>3 DEF During, StoreKept, NoSecond
  <2>2. \A i \in 1..applied'[e] : Awaits("target", queue'[e][i], "done", t) => Own(e, t)' = k.val
    BY <1>1, <1>3 DEF During, StoreKept
  <2>3. During(e, t, k)'
    BY <1>1, <1>3, <2>1, <2>2 DEF During, Awaits
  <2> QED BY <2>3 DEF CountedOK
<1> QED BY <1>2, <1>3 DEF CountedOK

-----------------------------------------------------------------------------
(* Which steps keep the store so. *)

LEMMA StillStore ==
  ASSUME NEW e \in Devices, NEW t \in Users, db' = db, queue'[e] = queue[e], applied'[e] = applied[e]
  PROVE  StoreKept(e, t)
BY DEF StoreKept

LEMMA ExtendsStore ==
  ASSUME TypeOK, NEW d \in Devices, Extends(d), NEW e \in Devices, NEW t \in Users
  PROVE  StoreKept(e, t)
<1>1. /\ db' = db /\ applied' = applied
      /\ queue \in [Devices -> Seq(Writes)] /\ applied[e] \in Nat /\ applied[e] <= Len(queue[e])
  BY DEF Extends, TypeOK
<1>2. PICK q \in Seq(Writes) : /\ queue' = [queue EXCEPT ![d] = q]
                               /\ Len(queue[d]) <= Len(q)
                               /\ \A i \in 1..Len(queue[d]) : q[i] = queue[d][i]
  BY DEF Extends
<1>3. CASE e # d
  BY <1>1, <1>2, <1>3, StillStore
<1>4. CASE e = d
  <2>1. Len(queue[e]) \in Nat /\ Len(q) \in Nat /\ queue'[e] = q
    BY <1>1, <1>2, <1>4
  <2>2. NoSecond(queue'[e], t) => NoSecond(queue[e], t)
    BY <1>2, <1>4, <2>1 DEF NoSecond
  <2>3. \A i \in 1..applied[e] : queue'[e][i] = queue[e][i]
    BY <1>1, <1>2, <1>4, <2>1
  <2> QED BY <1>1, <2>2, <2>3 DEF StoreKept
<1> QED BY <1>3, <1>4

LEMMA ReopenStore ==
  ASSUME TypeOK, NEW d \in Devices, Reopen(d), NEW e \in Devices, NEW t \in Users
  PROVE  StoreKept(e, t)
<1>1. db' = db /\ queue' = queue /\ applied'[e] \in {0, applied[e]}
  BY DEF Reopen, TypeOK
<1> QED BY <1>1 DEF StoreKept

(* An answer: that to a second write of t is looked at below. *)
LEMMA AnswersStore ==
  ASSUME TypeOK, TapsInv, NEW d \in Devices, Answers(d), NEW e \in Devices, NEW t \in Users,
         Lone(e), failed'[e] = "none", ~Awaits("target", Oldest(e), "done", t)
  PROVE  d = e /\ StoreKept(e, t)
<1>1. d = e
  <2>1. queue[d] # <<>>
    BY DEF Answers, Answered
  <2> QED BY <2>1, LoneIdle
<1>2. UNCHANGED db /\ Answered(e)
  BY <1>1 DEF Answers, Fails, TypeOK
<1>3. /\ queue \in [Devices -> Seq(Writes)] /\ queue[e] \in Seq(Writes) /\ queue[e] # <<>>
      /\ Oldest(e) = queue[e][1] /\ applied[e] \in Nat /\ applied[e] <= Len(queue[e])
      /\ applied'[e] = applied[e] - 1 /\ applied[e] > 0
  BY <1>2 DEF TypeOK, Answered, Oldest
<1>4. /\ Tail(queue[e]) \in Seq(Writes)
      /\ Len(Tail(queue[e])) = Len(queue[e]) - 1
      /\ Len(queue[e]) \in Nat \ {0}
      /\ \A i \in 1..Len(Tail(queue[e])) : Tail(queue[e])[i] = queue[e][i + 1]
  BY <1>3, TailFacts
<1>5. /\ Len(queue[e]) - 1 <= Len(queue'[e]) /\ Len(queue'[e]) \in Nat
      /\ \A i \in 1..Len(queue[e])-1 : queue'[e][i] = queue[e][i + 1]
  <2>1. ASSUME Dequeue(e)
        PROVE  queue'[e] = Tail(queue[e])
    BY <1>3, <2>1 DEF Dequeue
  <2>2. ASSUME NEW w, DequeueThenEnqueue(e, w)
        PROVE  /\ Len(queue'[e]) = Len(queue[e])
               /\ \A i \in 1..Len(queue[e])-1 : queue'[e][i] = queue[e][i + 1]
    <3>1. queue'[e] = Append(Tail(queue[e]), w)
      BY <1>3, <2>2 DEF DequeueThenEnqueue
    <3> QED BY <1>3, <1>4, <3>1
  <2>3. Dequeue(e) \/ \E w : DequeueThenEnqueue(e, w)
    BY <1>1 DEF Answers
  <2>4. CASE Dequeue(e)
    <3>1. queue'[e] = Tail(queue[e])
      BY <2>1, <2>4
    <3>2. Len(queue'[e]) = Len(queue[e]) - 1 /\ Len(queue[e]) \in Nat \ {0}
      BY <1>4, <3>1
    <3>3. \A i \in 1..Len(queue[e])-1 : queue'[e][i] = queue[e][i + 1]
      BY <1>4, <3>1
    <3> QED BY <3>2, <3>3
  <2>5. CASE \E w : DequeueThenEnqueue(e, w)
    <3>1. PICK w : DequeueThenEnqueue(e, w)
      BY <2>5
    <3>2. /\ Len(queue'[e]) = Len(queue[e])
          /\ \A i \in 1..Len(queue[e])-1 : queue'[e][i] = queue[e][i + 1]
      BY <2>2, <3>1
    <3> QED BY <1>4, <3>2
  <2> QED BY <2>3, <2>4, <2>5
<1>6. \A i \in 1..Len(queue[e])-1 : i \in 1..Len(queue'[e]) /\ queue'[e][i] = queue[e][i + 1]
  BY <1>4, <1>5
<1>7. NoSecond(queue'[e], t) => NoSecond(queue[e], t)
  <2> SUFFICES ASSUME NoSecond(queue'[e], t), NEW i \in 1..Len(queue[e]),
                      Awaits("target", queue[e][i], "done", t)
               PROVE  FALSE
    BY DEF NoSecond
  <2>1. i # 1
    BY <1>3
  <2>2. i - 1 \in 1..Len(queue[e])-1
    BY <1>4, <2>1
  <2>3. i - 1 \in 1..Len(queue'[e]) /\ queue'[e][i - 1] = queue[e][i]
    BY <1>6, <2>2
  <2> QED BY <2>3 DEF NoSecond
<1>8. ASSUME NEW i \in 1..applied'[e], Awaits("target", queue'[e][i], "done", t)
      PROVE  \E j \in 1..applied[e] : Awaits("target", queue[e][j], "done", t)
  <2>1. i + 1 \in 1..applied[e] /\ i \in 1..Len(queue[e])-1
    BY <1>3, <1>4
  <2>2. queue'[e][i] = queue[e][i + 1]
    BY <1>6, <2>1
  <2> QED BY <1>8, <2>1, <2>2
<1> QED BY <1>1, <1>2, <1>7, <1>8 DEF StoreKept

-----------------------------------------------------------------------------
(* The next write is applied: that of a second write of t is looked at below. *)
LEMMA CommitStore ==
  ASSUME TypeOK, TapsInv, Shape, NEW d \in Devices, Commit(d), NEW e \in Devices, NEW t \in Users,
         Lone(e), Sound(e)
  PROVE  /\ d = e /\ queue' = queue /\ applied'[e] = applied[e] + 1
         /\ applied[e] + 1 \in 1..Len(queue[e])
         /\ ~Awaits("target", queue[e][applied[e] + 1], "done", t) => StoreKept(e, t)
         /\ Awaits("target", queue[e][applied[e] + 1], "done", t) =>
              \A u \in Users : db'[FollowersDoc(t, u)] = IF u = Account[e]
                                                         THEN queue[e][applied[e] + 1].val
                                                         ELSE db[FollowersDoc(t, u)]
<1>0. queue[d] \in Seq(Writes) /\ applied[d] \in Nat /\ Len(queue[d]) \in Nat
  BY DEF TypeOK
<1>1. d = e
  <2>1. queue[d] # <<>>
    BY <1>0 DEF Commit
  <2> QED BY <2>1, LoneIdle
<1> DEFINE n == applied[e] + 1
           w == queue[e][n]
<1>2. /\ queue' = queue /\ applied'[e] = n /\ applied[e] \in Nat
      /\ n \in 1..Len(queue[e]) /\ n \in Nat /\ n = applied[e] + 1
      /\ db' = [db EXCEPT ![w.doc] = w.val]
  BY <1>0, <1>1 DEF Commit, TypeOK
<1>3. w \in Writes /\ ShapeOf(e, w)
  BY <1>0, <1>1, <1>2 DEF Shape
<1> HIDE DEF n, w
<1>4. ASSUME NEW u \in Users, w.doc = FollowersDoc(t, u)
      PROVE  Awaits("target", w, "done", t) /\ u = Account[e]
  <2>1. w.then # "none"
    BY <1>3, <1>4 DEF ShapeOf
  <2>2. w.then # "mirror"
    <3>1. w.then = "mirror" => w.doc = FollowingDoc(Account[e], w.tap.target)
      BY <1>3 DEF ShapeOf
    <3> QED BY <1>4, <3>1, DocFacts
  <2>3. w.then = "done" /\ w.doc = FollowersDoc(w.tap.target, Account[e])
    BY <1>3, <2>1, <2>2 DEF ShapeOf, Writes
  <2>4. t = w.tap.target /\ u = Account[e]
    <3>1. FollowersDoc(t, u) = FollowersDoc(w.tap.target, Account[e])
      BY <1>4, <2>3
    <3> QED BY <3>1 DEF FollowersDoc
  <2> QED BY <2>3, <2>4 DEF Awaits
<1>5. \A u \in Users : db[FollowersDoc(t, u)] \in BOOLEAN /\ FollowersDoc(t, u) \in Docs /\ DOMAIN db = Docs
  BY DocsType DEF TypeOK
<1>6. CASE ~Awaits("target", w, "done", t)
  <2>1. \A u \in Users : db'[FollowersDoc(t, u)] = db[FollowersDoc(t, u)]
    BY <1>2, <1>4, <1>5, <1>6
  <2>2. \A i \in 1..applied'[e] : Awaits("target", queue'[e][i], "done", t) =>
          \E j \in 1..applied[e] : Awaits("target", queue[e][j], "done", t)
    <3> SUFFICES ASSUME NEW i \in 1..n, Awaits("target", queue[e][i], "done", t)
                 PROVE  \E j \in 1..applied[e] : Awaits("target", queue[e][j], "done", t)
      BY <1>2
    <3>1. i # n
      BY <1>6 DEF w
    <3>2. i \in 1..applied[e]
      BY <1>2, <3>1
    <3> QED BY <3>2
  <2>3. StoreKept(e, t)
    BY <1>2, <2>1, <2>2 DEF StoreKept
  <2> QED BY <1>1, <1>2, <1>6, <2>3 DEF w, n
<1>7. CASE Awaits("target", w, "done", t)
  <2>1. w.doc = FollowersDoc(t, Account[e])
    BY <1>3, <1>7 DEF ShapeOf, Awaits
  <2>2. ASSUME NEW u \in Users
        PROVE  db'[FollowersDoc(t, u)] = IF u = Account[e] THEN w.val ELSE db[FollowersDoc(t, u)]
    BY <1>2, <1>4, <1>5, <2>1
  <2> QED BY <1>1, <1>2, <1>7, <2>2 DEF w, n
<1> QED BY <1>6, <1>7

(* The taps on t are the pending ones that have it as their target. *)
LEMMA TapSets ==
  ASSUME NEW bs, NEW q, NEW d, NEW t
  PROVE  {b.tap : b \in {b \in bs : b.dev = d /\ b.kind = "follow" /\ b.tap.target = t}}
           \cup {q[i].tap : i \in {i \in 1..Len(q) : q[i].then # "none" /\ q[i].tap.target = t}}
         = {x \in {b.tap : b \in {b \in bs : b.dev = d /\ b.kind = "follow"}}
                    \cup {q[i].tap : i \in {i \in 1..Len(q) : q[i].then # "none"}} : x.target = t}
OBVIOUS

LEMMA TapsOnPending ==
  ASSUME NEW d \in Devices, NEW t \in Users
  PROVE  /\ TapsOn(d, t) = {x \in Pending(d) : x.target = t}
         /\ TapsOn(d, t)' = {x \in Pending(d)' : x.target = t}
BY TapSets DEF TapsOn, Pending, FollowTaps, TapsIn, Awaited

LEMMA SameTaps ==
  ASSUME NEW d \in Devices, NEW t \in Users, Pending(d)' = Pending(d)
  PROVE  TapsOn(d, t)' = TapsOn(d, t)
BY TapsOnPending

(* A write awaited by a tap on t. *)
LEMMA AwaitedTaps ==
  ASSUME NEW d \in Devices, NEW t \in Users, NEW i \in 1..Len(queue[d]),
         NEW then \in {"mirror", "done"}, Awaits("target", queue[d][i], then, t)
  PROVE  queue[d][i].tap \in TapsOn(d, t)
BY DEF TapsOn, Awaits

LEMMA NoTaps ==
  ASSUME NEW d \in Devices, NEW t \in Users, TapsOn(d, t) = {}
  PROVE  NoFirst(queue[d], t) /\ NoSecond(queue[d], t)
BY AwaitedTaps DEF NoFirst, NoSecond

(* One follower more or less. *)
LEMMA OneOf ==
  ASSUME NEW S \in SUBSET Users, NEW a \in Users
  PROVE  /\ Cardinality(S) \in Nat /\ Cardinality(S \ {a}) \in Nat
         /\ Cardinality(S) = Cardinality(S \ {a}) + (IF a \in S THEN 1 ELSE 0)
<1>1. IsFiniteSet(S) /\ Cardinality(S) \in Nat /\ Cardinality(S \ {a}) \in Nat
  BY SubsetCount
<1>2. CASE a \in S
  <2>1. Cardinality(S \ {a}) = Cardinality(S) - 1
    BY <1>1, <1>2, FS_RemoveElement
  <2> QED BY <1>1, <1>2, <2>1
<1>3. CASE a \notin S
  <2>1. S \ {a} = S
    BY <1>3
  <2> QED BY <1>1, <1>3, <2>1
<1> QED BY <1>2, <1>3

LEMMA FansCount ==
  ASSUME TypeOK, NEW d \in Devices, NEW t \in Users
  PROVE  /\ Cardinality(Fans(t)) \in Nat /\ Cardinality(Others(d, t)) \in Nat
         /\ Cardinality(Fans(t)) = Cardinality(Others(d, t)) + (IF Own(d, t) THEN 1 ELSE 0)
         /\ Own(d, t) \in BOOLEAN
<1>1. Fans(t) \in SUBSET Users /\ Account[d] \in Users
  BY AccountType DEF Fans
<1>2. Account[d] \in Fans(t) <=> Own(d, t)
  BY <1>1 DEF Fans, Own
<1>3. Own(d, t) \in BOOLEAN
  BY <1>1, DocsType DEF Own, TypeOK
<1> QED BY <1>1, <1>2, <1>3, OneOf DEF Others

(* When no write of t is awaited the phone sees the documents as they are, and
   the two of the pair agree. *)
LEMMA FirstSeen ==
  ASSUME TypeOK, Shape, NEW d \in Devices, NEW t \in Users, Sound(d), TapsOn(d, t) = {}, PairInv(d, t)
  PROVE  /\ LocalView(d, FollowingDoc(Account[d], t)) = Own(d, t)
         /\ \A u \in Users : LocalView(d, FollowersDoc(t, u)) = db[FollowersDoc(t, u)]
<1>1. NoFirst(queue[d], t) /\ NoSecond(queue[d], t)
  BY NoTaps
<1>2. ASSUME NEW i \in 1..Len(queue[d])
      PROVE  /\ queue[d][i].doc # FollowingDoc(Account[d], t)
             /\ \A u \in Users : queue[d][i].doc # FollowersDoc(t, u)
  <2> DEFINE w == queue[d][i]
  <2>1. w \in Writes /\ ShapeOf(d, w) /\ ~Awaits("target", w, "mirror", t) /\ ~Awaits("target", w, "done", t)
    BY <1>1 DEF TypeOK, Shape, NoFirst, NoSecond
  <2> HIDE DEF w
  <2>2. CASE w.then = "none"
    BY <2>1, <2>2, AccountType DEF ShapeOf, w
  <2>3. CASE w.then = "mirror"
    <3>1. w.doc = FollowingDoc(Account[d], w.tap.target) /\ w.tap.target # t
      BY <2>1, <2>3 DEF ShapeOf, Awaits
    <3> QED BY <3>1, DocFacts DEF w
  <2>4. CASE w.then = "done"
    <3>1. w.doc = FollowersDoc(w.tap.target, Account[d]) /\ w.tap.target # t
      BY <2>1, <2>4 DEF ShapeOf, Awaits
    <3> QED BY <3>1, DocFacts DEF w
  <2>5. w.then \in {"none", "mirror", "done"}
    BY <2>1 DEF Writes
  <2> QED BY <2>2, <2>3, <2>4, <2>5 DEF w
<1>3. db[FollowingDoc(Account[d], t)] = db[FollowersDoc(t, Account[d])]
  BY <1>1 DEF PairInv, PairOK, SecondWillAgree, NoFirst, NoSecond
<1>4. LocalView(d, FollowingDoc(Account[d], t)) = db[FollowingDoc(Account[d], t)]
  <2>1. PendingOn(d, FollowingDoc(Account[d], t)) = {}
    BY <1>2 DEF PendingOn
  <2> QED BY <2>1 DEF LocalView
<1>5. ASSUME NEW u \in Users PROVE LocalView(d, FollowersDoc(t, u)) = db[FollowersDoc(t, u)]
  <2>1. PendingOn(d, FollowersDoc(t, u)) = {}
    BY <1>2 DEF PendingOn
  <2> QED BY <2>1 DEF LocalView
<1> QED BY <1>3, <1>4, <1>5 DEF Own

-----------------------------------------------------------------------------
(* What the steps do to a header that is followed: e and t are the phone and
   the user whose header it is, d the phone that makes the step. *)

Ready(e, t) == LoneInv /\ Clean(e, t) /\ CountedOK(e, t)

LEMMA ReadyParts ==
  ASSUME NEW e \in Devices, NEW t \in Users, Ready(e, t)
  PROVE  /\ TypeOK /\ TapsInv /\ Shape /\ ValsOK /\ Lone(e) /\ Sound(e) /\ failed[e] = "none"
         /\ profile[e][t].open /\ PairInv(e, t)
BY DEF Ready, LoneInv, StatsInv, MirrorInv, Clean, Sound

LEMMA CountingOn ==
  ASSUME NEW d, NEW t
  PROVE  (Counting(d, t) <=> CountsOn(d, t) # {}) /\ (Counting(d, t)' <=> CountsOn(d, t)' # {})
<1>1. Counting(d, t) <=> CountsOn(d, t) # {}
  BY DEF Counting, CountsOn
<1>2. Counting(d, t)' <=> CountsOn(d, t)' # {}
  BY DEF Counting, CountsOn
<1> QED BY <1>1, <1>2

LEMMA SameCounts ==
  ASSUME NEW d, NEW t, counts' = counts
  PROVE  CountsOn(d, t)' = CountsOn(d, t)
BY DEF CountsOn

(* A tap. *)
LEMMA TapCounted ==
  ASSUME NEW e \in Devices, NEW t \in Users, Ready(e, t), ~Overlap(e, t)', profile'[e][t].open,
         NEW d \in Devices, NEW t2 \in Users, NEW screen \in Screens, NEW isFollowed \in BOOLEAN,
         Tap(d, t2, screen, isFollowed), UNCHANGED storeVars, UNCHANGED <<followers, counts>>
  PROVE  CountedOK(e, t)'
<1>k. PICK k : k = NewTap(d, t2, screen, isFollowed)
  OBVIOUS
<1>0. /\ TypeOK /\ TapsInv /\ Shape /\ Sound(e) /\ PairInv(e, t) /\ CountedOK(e, t)
      /\ CountsOn(e, t)' = CountsOn(e, t) /\ followers'[e][t] = followers[e][t]
  BY ReadyParts, SameCounts DEF Ready
<1>1. StoreKept(e, t)
  BY StillStore DEF storeVars
<1>2. /\ Pending(d)' = Pending(d) \cup {k}
      /\ \A c \in Devices \ {d} : Pending(c)' = Pending(c)
      /\ \A x \in Pending(d) : x.n # taps[d] + 1
  BY <1>0, <1>k, TapTaps
<1>3. k \in Taps /\ k.target = t2 /\ k.screen = screen /\ k.val = ~isFollowed /\ k.n = taps[d] + 1
  BY <1>0, <1>k, FollowAssumption DEF NewTap, Taps, Tap, TypeOK, FollowAssumption
<1>4. CASE d # e
  BY <1>0, <1>1, <1>2, <1>4, SameTaps, KeptCounted
<1>5. CASE t2 # t
  <2>1. \A x : x \in TapsOn(d, t)' <=> x \in Pending(d) \cup {k} /\ x.target = t
    BY <1>2, TapsOnPending
  <2>2. \A x : x \in TapsOn(d, t) <=> x \in Pending(d) /\ x.target = t
    BY TapsOnPending
  <2>3. TapsOn(d, t)' = TapsOn(d, t)
    BY <1>3, <1>5, <2>1, <2>2
  <2> QED BY <1>0, <1>1, <1>4, <2>3, KeptCounted
<1>6. CASE d = e /\ t2 = t
  <2>1. TapsOn(e, t)' = TapsOn(e, t) \cup {k} /\ k \notin TapsOn(e, t)
    <3>1. {x \in Pending(d) \cup {k} : x.target = t} = {x \in Pending(d) : x.target = t} \cup {k}
      BY <1>3, <1>6
    <3>2. k \notin Pending(d)
      BY <1>2, <1>3
    <3> QED BY <1>2, <1>6, <3>1, <3>2, TapsOnPending
  <2>2. ASSUME NEW k0 \in Taps, During(e, t, k0) PROVE FALSE
    <3>1. k0 \in TapsOn(e, t)
      BY <2>2 DEF During
    <3>2. k \in TapsOn(e, t)' /\ k0 \in TapsOn(e, t)' /\ k # k0
      BY <2>1, <3>1
    <3> QED BY <3>2 DEF Overlap
  <2>3. Before(e, t)
    BY <1>0, <2>2 DEF CountedOK
  <2>4. TapsOn(e, t)' = {k}
    BY <2>1, <2>3 DEF Before
  <2>5. ~Counting(e, t)' /\ k.screen # "row"
    BY <2>4 DEF Overlap
  <2>6. CountsOn(e, t) = {} /\ CountsOn(e, t)' = {} /\ k.screen = "profile"
    BY <1>0, <1>3, <2>5, CountingOn DEF Screens
  <2>7. k.val # LocalView(e, FollowingDoc(Account[e], t))
    <3>1. [dev |-> d, kind |-> "follow", tap |-> k] \in blocks'
      BY <1>k DEF Tap, NewTap
    <3>2. \A b \in blocks' : ~(b.dev = e /\ b.kind = "follow" /\ b.tap.target = t
                               /\ b.tap.val = LocalView(e, FollowingDoc(Account[e], t))')
      BY <2>4 DEF Overlap
    <3>3. k.val # LocalView(e, FollowingDoc(Account[e], t))'
      BY <1>3, <1>6, <3>1, <3>2
    <3>4. LocalView(e, FollowingDoc(Account[e], t))' = LocalView(e, FollowingDoc(Account[e], t))
      BY DEF LocalView, PendingOn, storeVars
    <3> QED BY <3>3, <3>4
  <2>8. k.val # Own(e, t) /\ Own(e, t) \in BOOLEAN /\ k.val \in BOOLEAN
    <3>1. TapsOn(e, t) = {}
      BY <2>3 DEF Before
    <3>2. LocalView(e, FollowingDoc(Account[e], t)) = Own(e, t)
      BY <1>0, <3>1, FirstSeen
    <3> QED BY <1>0, <1>3, <2>7, <3>2, FansCount
  <2>9. /\ Cardinality(Others(e, t))' = Cardinality(Others(e, t))
        /\ Own(e, t)' = Own(e, t)
    BY <1>1, KeptFans DEF StoreKept
  <2>10. followers[e][t] = Cardinality(Others(e, t)) + (IF Own(e, t) THEN 1 ELSE 0)
    BY <1>0, <2>3, <2>6, FansCount DEF Before
  <2>11. followers'[e][t] = Cardinality(Others(e, t))' + (IF k.val THEN 0 ELSE 1)
    BY <1>0, <2>8, <2>9, <2>10
  <2>12. Own(e, t)' = ~k.val
    BY <2>8, <2>9
  <2>13. \A i \in 1..applied'[e] : ~Awaits("target", queue'[e][i], "done", t)
    <3>1. NoSecond(queue[e], t)
      BY <2>3, NoTaps DEF Before
    <3>2. \A i \in 1..applied[e] : i \in 1..Len(queue[e])
      BY <1>0 DEF TypeOK
    <3> QED BY <3>1, <3>2 DEF NoSecond, storeVars
  <2>14. During(e, t, k)'
    BY <2>4, <2>6, <2>11, <2>12, <2>13 DEF During, Awaits
  <2> QED BY <1>3, <2>14 DEF CountedOK
<1> QED BY <1>4, <1>5, <1>6

(* The completion of a tap on a row: not one on t. *)
LEMMA RowCounted ==
  ASSUME NEW e \in Devices, NEW t \in Users, Ready(e, t), failed'[e] = "none",
         NEW d \in Devices, AnswerRow(d), UNCHANGED <<followers, counts>>
  PROVE  CountedOK(e, t)'
<1>0. /\ TypeOK /\ TapsInv /\ Lone(e) /\ CountedOK(e, t)
      /\ CountsOn(e, t)' = CountsOn(e, t) /\ followers'[e][t] = followers[e][t]
  BY ReadyParts, SameCounts DEF Ready
<1>1. d = e
  <2>1. queue[d] # <<>>
    BY DEF AnswerRow, Answer, Answered, Refused
  <2> QED BY <1>0, <2>1, LoneIdle
<1> DEFINE k == Oldest(e).tap
<1>2. /\ k \in Pending(e) /\ Pending(e)' = Pending(e) \ {k}
      /\ k.screen = "row"
  BY <1>0, <1>1, DoneTaps DEF AnswerRow
<1>3. k.target # t
  <2> SUFFICES ASSUME k.target = t PROVE FALSE
    OBVIOUS
  <2>1. k \in TapsOn(e, t)
    BY <1>2, TapsOnPending
  <2>2. ASSUME NEW k0 \in Taps, During(e, t, k0) PROVE FALSE
    BY <1>2, <2>1, <2>2 DEF During
  <2> QED BY <1>0, <2>1, <2>2 DEF CountedOK, Before
<1>4. StoreKept(e, t)
  <2>1. Answers(e)
    BY <1>1, AnswerKind DEF AnswerAny
  <2>2. ~Awaits("target", Oldest(e), "done", t)
    BY <1>3 DEF Awaits
  <2> QED BY <1>0, <2>1, <2>2, AnswersStore
<1> HIDE DEF k
<1>5. TapsOn(e, t)' = TapsOn(e, t)
  <2>1. {x \in Pending(e) \ {k} : x.target = t} = {x \in Pending(e) : x.target = t}
    BY <1>3
  <2> QED BY <1>2, <2>1, TapsOnPending
<1> QED BY <1>0, <1>4, <1>5, KeptCounted

-----------------------------------------------------------------------------
(* The completion of a tap in the header: when it is one on t the number now
   counts the phone's own follower as the documents do. *)
LEMMA HeaderCounted ==
  ASSUME NEW e \in Devices, NEW t \in Users, Ready(e, t), failed'[e] = "none",
         NEW d \in Devices, AnswerStats(d)
  PROVE  CountedOK(e, t)'
<1>0. /\ TypeOK /\ TapsInv /\ Lone(e) /\ CountedOK(e, t)
      /\ CountsOn(e, t)' = CountsOn(e, t) /\ AnswerProfile(d) /\ Answer(d, "done")
      /\ followers \in [Devices -> [Users -> Int]]
  BY ReadyParts, SameCounts DEF Ready, LoneInv, StatsInv, FollowersOK, AnswerStats, AnswerProfile
<1>1. d = e
  <2>1. queue[d] # <<>>
    BY <1>0 DEF Answer, Answered, Refused
  <2> QED BY <1>0, <2>1, LoneIdle
<1>k. PICK k : k = Oldest(e).tap
  OBVIOUS
<1>2. /\ k \in Pending(e) /\ Pending(e)' = Pending(e) \ {k}
      /\ k \in Taps
      /\ followers' = [followers EXCEPT ![e][k.target] = @ + (IF k.val THEN 1 ELSE -1)]
  <2>1. k \in Pending(e) /\ Pending(e)' = Pending(e) \ {k}
    BY <1>0, <1>1, <1>k, DoneTaps
  <2>2. k \in Taps
    BY <1>0, <2>1, PendingType
  <2> QED BY <1>1, <1>k, <2>1, <2>2 DEF AnswerStats
<1>3. k.target \in Users /\ k.val \in BOOLEAN
  BY <1>2 DEF Taps
<1>4. \A x : x \in TapsOn(e, t)' <=> x \in Pending(e) /\ x # k /\ x.target = t
  BY <1>2, TapsOnPending
<1>5. \A x : x \in TapsOn(e, t) <=> x \in Pending(e) /\ x.target = t
  BY TapsOnPending
<1>6. CASE k.target # t
  <2>1. Answers(e)
    BY <1>0, <1>1, AnswerKind DEF AnswerAny
  <2>2. ~Awaits("target", Oldest(e), "done", t)
    BY <1>6, <1>k DEF Awaits
  <2>3. StoreKept(e, t)
    BY <1>0, <2>1, <2>2, AnswersStore
  <2>4. followers'[e][t] = followers[e][t]
    BY <1>0, <1>2, <1>3, <1>6
  <2>5. TapsOn(e, t)' = TapsOn(e, t)
    BY <1>4, <1>5, <1>6
  <2> QED BY <1>0, <2>3, <2>4, <2>5, KeptCounted
<1>7. CASE k.target = t
  <2>1. k \in TapsOn(e, t)
    BY <1>2, <1>5, <1>7
  <2>2. During(e, t, k)
    <3>1. ~Before(e, t)
      BY <2>1 DEF Before
    <3>2. PICK k0 \in Taps : During(e, t, k0)
      BY <1>0, <3>1 DEF CountedOK
    <3>3. k0 = k
      BY <2>1, <3>2 DEF During
    <3> QED BY <3>2, <3>3
  <2>3. TapsOn(e, t)' = {} /\ CountsOn(e, t)' = {}
    <3>1. TapsOn(e, t) = {k} /\ CountsOn(e, t) = {}
      BY <2>2 DEF During
    <3> QED BY <1>0, <1>4, <1>5, <3>1
  <2>4. Own(e, t) = k.val
    <3>1. applied[e] > 0 /\ applied[e] \in Nat
      BY <1>0, <1>1 DEF Answer, Answered, Fails, TypeOK
    <3>2. Awaits("target", queue[e][1], "done", t)
      <4>1. Oldest(e) = queue[e][1] /\ Oldest(e).then = "done"
        BY <1>0, <1>1 DEF Oldest, Answer
      <4> QED BY <1>7, <1>k, <4>1 DEF Awaits
    <3>3. 1 \in 1..applied[e]
      BY <3>1
    <3> QED BY <2>2, <3>2, <3>3 DEF During
  <2>5. db' = db
    BY <1>0 DEF AnswerProfile
  <2>6. Cardinality(Fans(t))' = Cardinality(Fans(t))
    BY <2>5, KeptFans
  <2>7. followers'[e][t] = followers[e][t] + (IF k.val THEN 1 ELSE -1)
    BY <1>0, <1>2, <1>3, <1>7
  <2>8. followers'[e][t] = Cardinality(Fans(t))
    <3>1. followers[e][t] = Cardinality(Others(e, t)) + (IF k.val THEN 0 ELSE 1)
      BY <2>2 DEF During
    <3>2. /\ Cardinality(Fans(t)) \in Nat /\ Cardinality(Others(e, t)) \in Nat
          /\ Cardinality(Fans(t)) = Cardinality(Others(e, t)) + (IF k.val THEN 1 ELSE 0)
      BY <1>0, <2>4, FansCount
    <3> QED BY <1>3, <2>7, <3>1, <3>2
  <2>9. Before(e, t)'
    BY <2>3, <2>6, <2>8 DEF Before
  <2> QED BY <2>9 DEF CountedOK
<1> QED BY <1>6, <1>7

(* A write is applied: the second one of the tap makes the documents what the
   tap asks for. *)
LEMMA ApplyCounted ==
  ASSUME NEW e \in Devices, NEW t \in Users, Ready(e, t),
         NEW d \in Devices, Apply(d), UNCHANGED <<followers, counts>>
  PROVE  CountedOK(e, t)'
<1>0. /\ TypeOK /\ TapsInv /\ Lone(e) /\ Shape /\ Sound(e) /\ ValsOK /\ CountedOK(e, t)
      /\ CountsOn(e, t)' = CountsOn(e, t) /\ followers'[e][t] = followers[e][t]
  BY ReadyParts, SameCounts DEF Ready
<1>1. Commit(d) /\ UNCHANGED <<queue, blocks>>
  BY DEF Apply, Commit
<1>2. TapsOn(e, t)' = TapsOn(e, t)
  BY <1>0, <1>1, StillTaps, SameTaps DEF SamePending
<1>n. PICK n : n = applied[e] + 1
  OBVIOUS
<1>3. /\ d = e /\ queue' = queue /\ applied'[e] = n /\ n \in 1..Len(queue[e])
      /\ ~Awaits("target", queue[e][n], "done", t) => StoreKept(e, t)
      /\ Awaits("target", queue[e][n], "done", t) =>
              \A u \in Users : db'[FollowersDoc(t, u)] = IF u = Account[e]
                                                         THEN queue[e][n].val
                                                         ELSE db[FollowersDoc(t, u)]
  BY <1>0, <1>1, <1>n, CommitStore
<1>4. CASE ~Awaits("target", queue[e][n], "done", t)
  BY <1>0, <1>2, <1>3, <1>4, KeptCounted
<1>5. CASE Awaits("target", queue[e][n], "done", t)
  <2>k. PICK k : k = queue[e][n].tap
    OBVIOUS
  <2>1. k \in TapsOn(e, t) /\ queue[e][n].val = k.val
    <3>1. k \in TapsOn(e, t)
      BY <1>3, <1>5, <2>k, AwaitedTaps
    <3>2. queue[e][n].then # "none"
      BY <1>5 DEF Awaits
    <3> QED BY <1>0, <1>3, <2>k, <3>1, <3>2 DEF ValsOK
  <2>2. PICK k0 \in Taps : During(e, t, k0)
    BY <1>0, <2>1 DEF CountedOK, Before
  <2>3. k0 = k
    BY <2>1, <2>2 DEF During
  <2>4. Own(e, t)' = k.val
    BY <1>3, <1>5, <2>1, AccountType DEF Own
  <2>5. Others(e, t)' = Others(e, t)
    <3>1. \A u \in Users : u # Account[e] => db'[FollowersDoc(t, u)] = db[FollowersDoc(t, u)]
      BY <1>3, <1>5
    <3>2. \A u : u \in Others(e, t)' <=> u \in Others(e, t)
      BY <3>1 DEF Others, Fans
    <3> QED BY <3>2 DEF Others, Fans
  <2>6. Cardinality(Others(e, t))' = Cardinality(Others(e, t))
    BY <2>5
  <2>7. ~NoSecond(queue'[e], t)
    BY <1>3, <1>5 DEF NoSecond
  <2>8. During(e, t, k)'
    BY <1>0, <1>2, <2>2, <2>3, <2>4, <2>6, <2>7 DEF During
  <2> QED BY <2>2, <2>3, <2>8 DEF CountedOK
<1> QED BY <1>4, <1>5

LEMMA FollowCounted ==
  ASSUME NEW e \in Devices, NEW t \in Users, Ready(e, t), ~Overlap(e, t)', profile'[e][t].open,
         failed'[e] = "none", NEW d \in Devices, FollowStep(d)
  PROVE  CountedOK(e, t)'
<1>0. /\ TypeOK /\ TapsInv /\ Lone(e) /\ CountedOK(e, t) /\ UNCHANGED <<followers, counts>>
      /\ CountsOn(e, t)' = CountsOn(e, t) /\ followers'[e][t] = followers[e][t]
  BY ReadyParts, SameCounts DEF Ready, FollowStep
<1>1. ASSUME StoreKept(e, t), SamePending PROVE CountedOK(e, t)'
  BY <1>0, <1>1, SameTaps, KeptCounted DEF SamePending
<1>2. ASSUME UNCHANGED storeVars, UNCHANGED blocks PROVE CountedOK(e, t)'
  <2>1. StoreKept(e, t)
    BY <1>2, StillStore DEF storeVars
  <2>2. SamePending
    BY <1>0, <1>2, StillTaps DEF storeVars
  <2> QED BY <1>1, <2>1, <2>2
<1>3. ASSUME NEW t2 \in Users, TapProfile(d, t2) PROVE CountedOK(e, t)'
  <2>1. profile[d][t2].isFollowed \in BOOLEAN /\ "profile" \in Screens
    BY <1>0 DEF TypeOK, Profile, Screens
  <2> QED BY <1>0, <1>3, <2>1, TapCounted DEF TapProfile
<1>4. ASSUME NEW t2 \in Users, TapRow(d, t2) PROVE CountedOK(e, t)'
  <2>1. rows[d][t2].cell \in BOOLEAN /\ "row" \in Screens
    BY <1>0 DEF TypeOK, Row, Screens
  <2> QED BY <1>0, <1>4, <2>1, TapCounted DEF TapRow
<1>5. CASE Refresh(d)
  BY <1>2, <1>5 DEF Refresh
<1>6. CASE ReadStep(d)
  BY <1>2, <1>6 DEF ReadStep, NotificationsArrive, ProfileCheckResult, RowCheckResult, CheckFails
<1>7. CASE BlockStep(d)
  <2>1. PICK b \in blocks : RunFollowBlock(b) \/ RunNotifyBlock(b) \/ RunFeedBlock(b)
    BY <1>7 DEF BlockStep
  <2>2. SamePending
    BY <1>0, <2>1, RunFollowTaps, RunOtherTaps
  <2>3. CASE UNCHANGED storeVars
    BY <1>1, <2>2, <2>3, StillStore DEF storeVars
  <2>4. b.dev \in Devices /\ (Extends(b.dev) \/ UNCHANGED storeVars)
    BY <1>0, <2>1, TypeParts, FollowBlockKind, NotifyBlockKind, FeedBlockKind
  <2>5. CASE Extends(b.dev)
    BY <1>0, <1>1, <2>2, <2>4, <2>5, ExtendsStore
  <2> QED BY <2>3, <2>4, <2>5
<1>8. CASE AnswerMirror(d) \/ AnswerSilent(d)
  <2>1. d = e
    <3>1. queue[d] # <<>>
      BY <1>8 DEF AnswerMirror, AnswerSilent, Answer, Answered, Refused
    <3> QED BY <1>0, <3>1, LoneIdle
  <2>2. ~Awaits("target", Oldest(e), "done", t)
    BY <1>8, <2>1 DEF AnswerMirror, AnswerSilent, Answer, Awaits
  <2>3. StoreKept(e, t)
    BY <1>0, <1>8, <2>2, AnswersStore, AnswerKind DEF AnswerAny
  <2>4. SamePending
    BY <1>0, <1>8, AnswerTaps
  <2> QED BY <1>1, <2>3, <2>4
<1>9. CASE AnswerRow(d)
  BY <1>0, <1>9, RowCounted
<1>10. CASE Apply(d)
  BY <1>0, <1>10, ApplyCounted
<1>11. CASE Resend(d)
  <2>1. Reopen(d) /\ UNCHANGED <<queue, blocks>>
    BY <1>11 DEF Resend, Reopen, followVars
  <2>2. StoreKept(e, t)
    BY <1>0, <2>1, ReopenStore
  <2>3. SamePending
    BY <1>0, <2>1, StillTaps
  <2> QED BY <1>1, <2>2, <2>3
<1> QED BY <1>3, <1>4, <1>5, <1>6, <1>7, <1>8, <1>9, <1>10, <1>11 DEF FollowStep

-----------------------------------------------------------------------------
(* The reads of the number. *)
LEMMA StillCounted ==
  ASSUME NEW e \in Devices, NEW t \in Users, Ready(e, t), UNCHANGED <<storeVars, blocks>>,
         CountsOn(e, t)' = CountsOn(e, t), followers'[e][t] = followers[e][t]
  PROVE  CountedOK(e, t)'
<1>1. StoreKept(e, t)
  BY StillStore DEF storeVars
<1>2. TapsOn(e, t)' = TapsOn(e, t)
  BY ReadyParts, StillTaps, SameTaps DEF SamePending, storeVars
<1> QED BY <1>1, <1>2, KeptCounted DEF Ready

(* While no tap on t is under way. *)
LEMMA BeforeStays ==
  ASSUME NEW e \in Devices, NEW t \in Users, Ready(e, t), Before(e, t), UNCHANGED <<storeVars, blocks>>,
         \A c \in CountsOn(e, t)' : c \in CountsOn(e, t) \/ c[4] \in {Unread, Cardinality(Fans(t))},
         \/ CountsOn(e, t)' # {}
         \/ CountsOn(e, t) = {} /\ followers'[e][t] = followers[e][t]
         \/ followers'[e][t] = Cardinality(Fans(t))
  PROVE  CountedOK(e, t)'
<1>1. TapsOn(e, t)' = TapsOn(e, t)
  BY ReadyParts, StillTaps, SameTaps DEF SamePending, storeVars
<1>2. Cardinality(Fans(t))' = Cardinality(Fans(t))
  BY KeptFans DEF storeVars
<1>3. Before(e, t)'
  BY <1>1, <1>2 DEF Before
<1> QED BY <1>3 DEF CountedOK

LEMMA AgainCounted ==
  ASSUME NEW e \in Devices, NEW t \in Users, Ready(e, t), ~Overlap(e, t)', profile'[e][t].open,
         NEW d \in Devices, NEW t2 \in Users, ShowAgain(d, t2)
  PROVE  CountedOK(e, t)'
<1>0. /\ UNCHANGED <<storeVars, blocks>> /\ followers' = followers /\ CountedOK(e, t)
      /\ counts' = counts \cup {<<d, t2, 2, Unread>>}
  BY DEF ShowAgain, vars, followVars, Ready
<1>1. CASE d = e /\ t2 = t
  <2>1. CountsOn(e, t)' = CountsOn(e, t) \cup {<<e, t, 2, Unread>>}
    BY <1>0, <1>1 DEF CountsOn
  <2>2. TapsOn(e, t)' = {}
    BY <2>1, CountingOn DEF Overlap
  <2>3. TapsOn(e, t) = {}
    BY <1>0, <2>2, ReadyParts, StillTaps, SameTaps DEF SamePending, storeVars
  <2>4. Before(e, t)
    BY <1>0, <2>3 DEF CountedOK, During
  <2>5. \A c \in CountsOn(e, t)' : c \in CountsOn(e, t) \/ c[4] = Unread
    BY <2>1
  <2> QED BY <1>0, <2>1, <2>4, <2>5, BeforeStays
<1>2. CASE ~(d = e /\ t2 = t)
  <2>1. CountsOn(e, t)' = CountsOn(e, t)
    BY <1>0, <1>2 DEF CountsOn
  <2> QED BY <1>0, <2>1, StillCounted
<1> QED BY <1>1, <1>2

LEMMA OtherShown ==
  ASSUME NEW e \in Devices, NEW t \in Users, Ready(e, t),
         NEW d \in Devices, NEW t2 \in Users, ShowProfile(d, t2)
  PROVE  CountedOK(e, t)'
<1>1. ~(d = e /\ t2 = t)
  BY ReadyParts DEF ShowProfile, OpenProfile
<1>2. CountsOn(e, t)' = CountsOn(e, t)
  BY <1>1 DEF ShowProfile, CountsOn
<1> QED BY <1>2, StillCounted DEF ShowProfile, OpenProfile

(* The header is opened: both reads are to come. *)
LEMMA OpenCounted ==
  ASSUME LoneInv, NEW e \in Devices, NEW t \in Users, ShowProfile(e, t), ~Overlap(e, t)',
         \A c \in counts : profile[c[1]][c[2]].open
  PROVE  CountedOK(e, t)'
<1>0. /\ profile \in [Devices -> [Users -> Profile]]
      /\ ~profile[e][t].open /\ profile' = [profile EXCEPT ![e][t].open = TRUE]
  BY DEF LoneInv, StatsInv, TypeOK, ShowProfile, OpenProfile
<1>1. profile'[e][t].open
  BY <1>0 DEF Profile
<1>2. CountsOn(e, t) = {}
  BY <1>0 DEF CountsOn
<1>3. CountsOn(e, t)' = {<<e, t, 1, Unread>>, <<e, t, 2, Unread>>}
  <2>1. \A c \in CountsOn(e, t)' : c \in CountsOn(e, t) \/ c \in {<<e, t, 1, Unread>>, <<e, t, 2, Unread>>}
    BY DEF CountsOn, ShowProfile
  <2>2. {<<e, t, 1, Unread>>, <<e, t, 2, Unread>>} \subseteq CountsOn(e, t)'
    BY DEF CountsOn, ShowProfile
  <2> QED BY <1>2, <2>1, <2>2
<1>4. TapsOn(e, t)' = {}
  BY <1>1, <1>3, CountingOn DEF Overlap
<1>5. CountsOn(e, t)' # {} /\ \A c \in CountsOn(e, t)' : c[4] = Unread
  BY <1>3
<1>6. Before(e, t)'
  BY <1>4, <1>5 DEF Before
<1> QED BY <1>6 DEF CountedOK

LEMMA ReadCounted ==
  ASSUME NEW e \in Devices, NEW t \in Users, Ready(e, t), failed'[e] = "none",
         NEW c \in counts, CountFollowers(c)
  PROVE  CountedOK(e, t)'
<1>0. UNCHANGED <<storeVars, blocks>> /\ followers' = followers /\ CountedOK(e, t)
  BY DEF CountFollowers, Ready
<1>1. CASE c[1] = e /\ c[2] = t
  <2>1. c \in CountsOn(e, t)
    BY <1>1 DEF CountsOn
  <2>2. Before(e, t)
    BY <1>0, <2>1 DEF CountedOK, During
  <2>3. FollowersOf(e, t) = Fans(t)
    <3>1. TapsOn(e, t) = {}
      BY <2>2 DEF Before
    <3>2. \A u \in Users : LocalView(e, FollowersDoc(t, u)) = db[FollowersDoc(t, u)]
      BY <3>1, ReadyParts, FirstSeen
    <3> QED BY <3>2 DEF FollowersOf, Fans
  <2>4. ~Fails(c[1], "readfail")
    BY <1>1, ReadyParts DEF Fails, TypeOK
  <2>5. counts' = (counts \ {c}) \cup {<<e, t, c[3], Cardinality(Fans(t))>>}
    BY <1>1, <2>3, <2>4 DEF CountFollowers
  <2>6. <<e, t, c[3], Cardinality(Fans(t))>> \in CountsOn(e, t)'
    BY <2>5 DEF CountsOn
  <2>7. \A x \in CountsOn(e, t)' : x \in CountsOn(e, t) \/ x[4] = Cardinality(Fans(t))
    BY <2>5 DEF CountsOn
  <2> QED BY <1>0, <2>2, <2>6, <2>7, BeforeStays
<1>2. CASE ~(c[1] = e /\ c[2] = t)
  <2>1. CountsOn(e, t)' = CountsOn(e, t)
    BY <1>2 DEF CountFollowers, CountsOn
  <2> QED BY <1>0, <2>1, StillCounted
<1> QED BY <1>1, <1>2

LEMMA ArriveCounted ==
  ASSUME NEW e \in Devices, NEW t \in Users, Ready(e, t), NEW c \in counts, StatsArrive(c)
  PROVE  CountedOK(e, t)'
<1>0. /\ UNCHANGED <<storeVars, blocks>> /\ counts' = counts \ {c} /\ CountedOK(e, t)
      /\ c[1] \in Devices /\ c[2] \in Users /\ c[4] # Unread
      /\ followers' = [followers EXCEPT ![c[1]][c[2]] = c[4]]
      /\ followers \in [Devices -> [Users -> Int]]
  BY DEF StatsArrive, vars, followVars, Ready, LoneInv, StatsInv, CountsOK, FollowersOK
<1>1. CASE c[1] = e /\ c[2] = t
  <2>1. c \in CountsOn(e, t)
    BY <1>1 DEF CountsOn
  <2>2. Before(e, t)
    BY <1>0, <2>1 DEF CountedOK, During
  <2>3. followers'[e][t] = Cardinality(Fans(t))
    BY <1>0, <1>1, <2>1, <2>2 DEF Before
  <2>4. \A x \in CountsOn(e, t)' : x \in CountsOn(e, t)
    BY <1>0 DEF CountsOn
  <2> QED BY <1>0, <2>2, <2>3, <2>4, BeforeStays
<1>2. CASE ~(c[1] = e /\ c[2] = t)
  <2>1. CountsOn(e, t)' = CountsOn(e, t)
    BY <1>0, <1>2 DEF CountsOn
  <2>2. followers'[e][t] = followers[e][t]
    BY <1>0, <1>2
  <2> QED BY <1>0, <2>1, <2>2, StillCounted
<1> QED BY <1>1, <1>2

(* Another phone crashes. *)
LEMMA CrashCounted ==
  ASSUME NEW e \in Devices, NEW t \in Users, Ready(e, t), failed'[e] = "none",
         NEW d \in Devices, CrashStats(d)
  PROVE  CountedOK(e, t)'
<1>0. TypeOK /\ TapsInv /\ CountedOK(e, t) /\ Crash(d) /\ followers \in [Devices -> [Users -> Int]]
  BY ReadyParts DEF Ready, CrashStats, LoneInv, StatsInv, FollowersOK
<1>1. d # e
  BY <1>0 DEF Crash, Fails, TypeOK
<1>2. StoreKept(e, t)
  BY <1>0, <1>1, StillStore DEF Crash, LoseProcess, TypeOK
<1>3. TapsOn(e, t)' = TapsOn(e, t)
  BY <1>0, <1>1, CrashTaps, SameTaps
<1>4. CountsOn(e, t)' = CountsOn(e, t)
  BY <1>1 DEF CrashStats, CountsOn
<1>5. followers'[e][t] = followers[e][t]
  BY <1>0, <1>1 DEF CrashStats
<1> QED BY <1>0, <1>2, <1>3, <1>4, <1>5, KeptCounted

-----------------------------------------------------------------------------
(* CountInv is inductive. *)

LEMMA OpenStays ==
  ASSUME TypeOK, [StatsNext]_allVars, NEW e \in Devices, NEW t \in Users,
         profile'[e][t].open # profile[e][t].open
  PROVE  (profile'[e][t].open /\ ShowProfile(e, t)) \/ CrashStats(e)
<1>0. profile \in [Devices -> [Users -> Profile]]
  BY DEF TypeOK
<1>1. profile' # profile
  OBVIOUS
<1>2. ASSUME NEW d \in Devices, NEW t2 \in Users, NEW v, profile' = [profile EXCEPT ![d][t2].isFollowed = v]
      PROVE  FALSE
  BY <1>0, <1>2 DEF Profile
<1>3. ASSUME NEW d \in Devices, FollowStep(d) PROVE FALSE
  BY <1>1, <1>2, <1>3 DEF FollowStep, TapProfile, TapRow, Refresh, ReadStep, NotificationsArrive,
       ProfileCheckResult, RowCheckResult, CheckFails, BlockStep, RunFollowBlock, RunNotifyBlock,
       RunFeedBlock, AnswerMirror, AnswerRow, AnswerSilent, Apply, Resend, followVars, screens
<1>4. ASSUME NEW d \in Devices, AnswerStats(d) PROVE FALSE
  <2>1. AnswerProfile(d) /\ Answer(d, "done")
    BY <1>4 DEF AnswerStats, AnswerProfile
  <2>2. Oldest(d) \in Writes
    BY <2>1, TypeParts, AnswerFacts
  <2>3. Oldest(d).tap.target \in Users
    BY <2>2 DEF Writes, Taps
  <2> QED BY <1>2, <2>1, <2>3 DEF AnswerProfile
<1>5. ASSUME NEW d \in Devices, CrashStats(d) PROVE d = e
  BY <1>0, <1>5 DEF CrashStats, Crash
<1>6. ASSUME NEW d \in Devices, NEW t2 \in Users, ShowProfile(d, t2)
      PROVE  d = e /\ t2 = t /\ profile'[e][t].open
  BY <1>0, <1>6 DEF ShowProfile, OpenProfile, Profile
<1>7. ASSUME NEW d \in Devices, NEW t2 \in Users, ShowAgain(d, t2) PROVE FALSE
  BY <1>1, <1>7 DEF ShowAgain, vars, followVars, screens
<1>8. ASSUME NEW c \in counts, CountFollowers(c) \/ StatsArrive(c) PROVE FALSE
  BY <1>1, <1>8 DEF CountFollowers, StatsArrive, vars, followVars, screens
<1>9. CASE UNCHANGED allVars
  BY <1>1, <1>9 DEF allVars, vars, followVars, screens
<1> QED BY <1>3, <1>4, <1>5, <1>6, <1>7, <1>8, <1>9 DEF StatsNext

LEMMA StepOpen ==
  ASSUME CountInv, [StatsNext]_allVars
  PROVE  \A c \in counts' : profile'[c[1]][c[2]].open
<1>0. TypeOK /\ CountsOK /\ \A c \in counts : profile[c[1]][c[2]].open
  BY DEF CountInv, LoneInv, StatsInv
<1>1. \A e \in Devices, t \in Users :
        profile[e][t].open => profile'[e][t].open \/ CrashStats(e)
  BY <1>0, OpenStays
<1>2. ASSUME NEW c \in counts', c \in counts PROVE profile'[c[1]][c[2]].open
  <2>1. c[1] \in Devices /\ c[2] \in Users /\ profile[c[1]][c[2]].open
    BY <1>0, <1>2 DEF CountsOK
  <2>2. ~CrashStats(c[1])
    BY DEF CrashStats
  <2> QED BY <1>1, <2>1, <2>2
<1>3. ASSUME NEW c \in counts', c \notin counts PROVE profile'[c[1]][c[2]].open
  <2>1. counts' # counts
    BY <1>3
  <2>2. ASSUME NEW d \in Devices, FollowStep(d) \/ AnswerStats(d) \/ CrashStats(d) PROVE FALSE
    BY <1>3, <2>2 DEF FollowStep, AnswerStats, CrashStats
  <2>3. ASSUME NEW d \in Devices, NEW t \in Users, ShowProfile(d, t) PROVE profile'[c[1]][c[2]].open
    <3>1. c[1] = d /\ c[2] = t
      BY <1>3, <2>3 DEF ShowProfile
    <3>2. profile' = [profile EXCEPT ![d][t].open = TRUE] /\ profile \in [Devices -> [Users -> Profile]]
      BY <1>0, <2>3 DEF ShowProfile, OpenProfile, TypeOK
    <3> QED BY <3>1, <3>2 DEF Profile
  <2>4. ASSUME NEW d \in Devices, NEW t \in Users, ShowAgain(d, t) PROVE profile'[c[1]][c[2]].open
    <3>1. c[1] = d /\ c[2] = t
      BY <1>3, <2>4 DEF ShowAgain
    <3> QED BY <2>4, <3>1 DEF ShowAgain, vars, followVars, screens
  <2>5. ASSUME NEW x \in counts, CountFollowers(x) \/ StatsArrive(x) PROVE profile'[c[1]][c[2]].open
    <3>1. CountFollowers(x) /\ c[1] = x[1] /\ c[2] = x[2]
      BY <1>3, <2>5 DEF CountFollowers, StatsArrive
    <3> QED BY <1>0, <3>1 DEF CountFollowers, screens
  <2>6. CASE UNCHANGED allVars
    BY <2>1, <2>6 DEF allVars, statsVars
  <2> QED BY <2>2, <2>3, <2>4, <2>5, <2>6 DEF StatsNext
<1> QED BY <1>2, <1>3

LEMMA StepCount == CountInv /\ [StatsNext]_allVars => CountInv'
<1> SUFFICES ASSUME CountInv, [StatsNext]_allVars PROVE CountInv'
  OBVIOUS
<1>0. LoneInv /\ LoneInv' /\ TypeOK /\ TapsInv /\ CountsOK /\ FollowKind /\ StoreStep
  BY StepLone, StatsKind, KindStore DEF CountInv, LoneInv, StatsInv
<1>1. \A c \in counts' : profile'[c[1]][c[2]].open
  BY StepOpen
<1>2. ASSUME NEW e \in Devices, NEW t \in Users, Clean(e, t)' PROVE CountedOK(e, t)'
  <2>1. /\ failed'[e] = "none" /\ profile'[e][t].open /\ <<e, t>> \notin mixed' /\ Lone(e)'
    BY <1>2 DEF Clean
  <2>2. Lone(e) /\ failed[e] = "none" /\ <<e, t>> \notin mixed
    <3>1. Lone(e)
      BY <1>0, <2>1, LoneBefore
    <3>2. failed[e] = "none"
      BY <1>0, <2>1 DEF StoreStep, Extends, Answers, Fails, TypeOK
    <3>3. mixed \subseteq mixed'
      BY DEF StatsNext, Remember, allVars, statsVars
    <3> QED BY <2>1, <3>1, <3>2, <3>3
  <2>3. ~CrashStats(e)
    BY <1>0, <2>1 DEF CrashStats, Crash, Fails, TypeOK
  <2>4. profile[e][t].open => Ready(e, t)
    BY <1>0, <2>2 DEF Ready, Clean, CountInv
  <2>5. CASE UNCHANGED allVars
    <3>1. /\ profile' = profile /\ UNCHANGED <<storeVars, blocks>>
          /\ CountsOn(e, t)' = CountsOn(e, t) /\ followers'[e][t] = followers[e][t]
      BY <2>5 DEF allVars, vars, followVars, screens, statsVars, CountsOn
    <3> QED BY <2>1, <2>4, <3>1, StillCounted
  <2>6. CASE StatsNext
    <3>1. ~Overlap(e, t)'
      <4>1. mixed' = mixed \cup {x \in Devices \X Users : Overlap(x[1], x[2])'}
        BY <2>6 DEF StatsNext, Remember
      <4>2. <<e, t>> \in Devices \X Users /\ <<e, t>>[1] = e /\ <<e, t>>[2] = t
        OBVIOUS
      <4> QED BY <2>1, <4>1, <4>2
    <3>2. CASE ~profile[e][t].open
      <4>1. ShowProfile(e, t)
        BY <1>0, <2>1, <2>3, <3>2, OpenStays
      <4> QED BY <1>0, <3>1, <4>1, OpenCounted DEF CountInv
    <3>3. CASE profile[e][t].open
      <4>1. Ready(e, t)
        BY <2>4, <3>3
      <4> QED BY <2>1, <2>6, <3>1, <4>1, FollowCounted, HeaderCounted, CrashCounted, OtherShown,
                 AgainCounted, ReadCounted, ArriveCounted DEF StatsNext
    <3> QED BY <3>2, <3>3
  <2> QED BY <2>5, <2>6
<1> QED BY <1>0, <1>1, <1>2 DEF CountInv

LEMMA InitCount == StatsInit => CountInv
<1> SUFFICES ASSUME StatsInit PROVE CountInv
  OBVIOUS
<1>1. \A d \in Devices, t \in Users : ~profile[d][t].open
  BY DEF StatsInit, Init, Closed
<1> QED BY <1>1, InitLone DEF CountInv, Clean, StatsInit

LEMMA CountExact == CountInv => StatsExact
<1> SUFFICES ASSUME CountInv, NEW d \in Devices, NEW t \in Users, Settled(d, t), <<d, t>> \notin mixed
             PROVE  followers[d][t] = Cardinality({u \in Users : db[FollowersDoc(t, u)]})
  BY DEF StatsExact
<1>1. CountedOK(d, t)
  BY DEF CountInv, Clean, Settled, Lone
<1>2. TapsOn(d, t) = {}
  BY DEF Settled, AtRest, Writing, TapsOn
<1>3. CountsOn(d, t) = {}
  BY CountingOn DEF Settled
<1>4. Before(d, t)
  BY <1>1, <1>2 DEF CountedOK, During
<1> QED BY <1>3, <1>4 DEF Before, Fans

(* For every number of phones, users and taps: when nothing of a header is under
   way, nothing failed on its phone and no other phone has tapped, the number of
   followers that fetchUserState read, and that the completions of follow and
   unfollow counted up and down, is the number of documents in the target's
   followers collection, unless a tap overlapped a read or another tap. *)
THEOREM StatsExactCorrect == StatsSpec => []StatsExact
<1>1. StatsSpec => []CountInv
  BY InitCount, StepCount, PTL DEF StatsSpec
<1> QED BY <1>1, CountExact, PTL
==============================================================================
