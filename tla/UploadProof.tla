----------------------------- MODULE UploadProof -----------------------------
(***************************************************************************)
(* Proofs about Upload.tla, for any number of phones, users, posts, taps   *)
(* and faults: no feed names a post that was not stored, the HUD of an     *)
(* upload is up only while an answer is still to take it down, and steady  *)
(* followers, and nobody else, get the post in their feeds.                *)
(***************************************************************************)
EXTENDS Upload, QueueFacts, FiniteSetTheorems

-----------------------------------------------------------------------------
(* The inductive invariant.  A queued write of a feed is only as good as what
   is ahead of it: its post is stored, or will be by an earlier write of the
   same phone, which the backend applies first, or was refused.  The same must
   hold of an upload that asks for the followers, as the feeds it will write
   go to the end of the queue. *)

UploadTaps == [n : Nat, screen : Screens \cup {"upload"}, target : Users, val : BOOLEAN]

Records == [doc : Docs, val : BOOLEAN, then : {"mirror", "done", "none", "uploaded"},
            tap : UploadTaps]

TapBlocks == [dev : Devices, kind : {"follow", "notify", "feed"}, tap : UploadTaps]

(* The posts that are stored, or whose write may have been refused. *)
SentPosts ==
  {p \in Posts : \/ p \in wasPost
                 \/ \E d \in Devices : Account[d] = Owner[p] /\ failed[d] = "reject"}

(* The write of p is settled, or one of the first n of the queue q. *)
Ahead(sent, q, n, p) == p \in sent \/ \E j \in 1..n : q[j].doc = PostDoc(p)

(* The queue q of phone d, the first a of its writes applied, when the posts
   of stored are in the database and those of sent are settled. *)
GoodQueue(sent, stored, d, q, a) ==
  /\ q \in Seq(Records)
  /\ a \in 0..Len(q)
  /\ \A i \in 1..Len(q), p \in Posts :
       /\ q[i].doc = PostDoc(p) => q[i].val /\ Owner[p] = Account[d]
       /\ \A u \in Users : q[i].doc = FeedDoc(u, p) => Ahead(sent, q, i - 1, p)
  /\ \A i \in 1..a, p \in Posts : q[i].doc = PostDoc(p) => p \in stored

QueuesOK ==
  /\ queue \in [Devices -> Seq(Records)]
  /\ applied \in [Devices -> Nat]
  /\ \A d \in Devices : GoodQueue(SentPosts, wasPost, d, queue[d], applied[d])

DocumentsOK ==
  /\ DOMAIN db = Docs
  /\ \A p \in Posts : /\ db[PostDoc(p)] => p \in wasPost
                      /\ \A u \in Users : db[FeedDoc(u, p)] => p \in SentPosts

AppOK ==
  /\ taps \in [Devices -> Nat]
  /\ blocks \subseteq TapBlocks
  /\ failed \in [Devices -> {"none", "crash", "reject", "readfail"}]

UploadsOK ==
  /\ uploads \subseteq Devices \X Posts \X {"image", "followers"}
  /\ InitPosts \subseteq uploaded /\ uploaded \subseteq Posts
  /\ hud \in [Devices -> BOOLEAN]
  /\ \A x \in uploads : Owner[x[2]] = Account[x[1]] /\ x[2] \in uploaded \ InitPosts

(* Who asks for the followers has written the post. *)
AskedOK ==
  \A d \in Devices, p \in Posts :
    <<d, p, "followers">> \in uploads => Ahead(SentPosts, queue[d], Len(queue[d]), p)

UploadInv ==
  /\ QueuesOK
  /\ DocumentsOK
  /\ AppOK
  /\ UploadsOK
  /\ AskedOK
  /\ UploadHudAwaited

LEMMA InvType == UploadInv => UploadTypeOK
BY DEF UploadInv, QueuesOK, GoodQueue, UploadsOK, UploadTypeOK

LEMMA InvFeed == UploadInv => FeedHasPost
BY DEF UploadInv, DocumentsOK, SentPosts, FeedHasPost

-----------------------------------------------------------------------------
(* The documents. *)

LEMMA AccountType == \A d \in Devices : Account[d] \in Users
BY PhoneAssumption DEF PhoneAssumption

LEMMA OwnerType == \A p \in Posts : Owner[p] \in Users
BY FollowAssumption DEF FollowAssumption

LEMMA DocsType ==
  ASSUME NEW u \in Users, NEW t \in Users, NEW p \in Posts
  PROVE  /\ FollowingDoc(u, t) \in Docs /\ FollowersDoc(t, u) \in Docs
         /\ NotificationDoc(t, u) \in Docs
         /\ FeedDoc(u, p) \in Docs /\ PostDoc(p) \in Docs
BY OwnerType DEF FollowingDoc, FollowersDoc, NotificationDoc, FeedDoc, PostDoc, Docs

(* The documents of follows, which exist without posts too. *)
LEMMA FollowDocsType ==
  ASSUME NEW u \in Users, NEW t \in Users
  PROVE  /\ FollowingDoc(u, t) \in Docs /\ FollowersDoc(t, u) \in Docs
         /\ NotificationDoc(t, u) \in Docs
BY DEF FollowingDoc, FollowersDoc, NotificationDoc, Docs

OtherDoc(x) == \A p \in Posts : /\ x # PostDoc(p)
                                /\ \A u \in Users : x # FeedDoc(u, p)

LEMMA DocsApart ==
  ASSUME NEW u, NEW t, NEW p, NEW v, NEW q
  PROVE  /\ OtherDoc(FollowingDoc(u, t)) /\ OtherDoc(FollowersDoc(t, u))
         /\ OtherDoc(NotificationDoc(t, u))
         /\ FeedDoc(u, p) # PostDoc(q)
         /\ PostDoc(p) = PostDoc(q) => p = q
         /\ FeedDoc(u, p) = FeedDoc(v, q) => p = q
<1>1. /\ FollowingDoc(u, t)[1] = "following" /\ FollowersDoc(t, u)[1] = "followers"
      /\ NotificationDoc(t, u)[1] = "user-notifications"
      /\ \A x, y : FeedDoc(x, y)[1] = "user-feed"
      /\ \A y : PostDoc(y)[1] = "posts"
  BY DEF FollowingDoc, FollowersDoc, NotificationDoc, FeedDoc, PostDoc
<1>2. PostDoc(p) = PostDoc(q) => p = q
  BY DEF PostDoc
<1>3. FeedDoc(u, p) = FeedDoc(v, q) => p = q
  BY DEF FeedDoc
<1> QED BY <1>1, <1>2, <1>3 DEF OtherDoc

-----------------------------------------------------------------------------
(* Queues. *)

(* More posts known, fewer writes applied. *)
LEMMA GoodStays ==
  ASSUME NEW S, NEW W, NEW d, NEW q, NEW a, GoodQueue(S, W, d, q, a),
         NEW S2, S \subseteq S2, NEW W2, W \subseteq W2, NEW b \in 0..a
  PROVE  GoodQueue(S2, W2, d, q, b)
<1>1. a \in 0..Len(q) /\ Len(q) \in Nat
  BY DEF GoodQueue
<1>2. b \in 0..Len(q) /\ 1..b \subseteq 1..a
  BY <1>1
<1>3. \A n, p : Ahead(S, q, n, p) => Ahead(S2, q, n, p)
  BY DEF Ahead
<1> QED BY <1>2, <1>3 DEF GoodQueue

(* What comes last leaves alone what is ahead of the others. *)
LEMMA ConcatGood ==
  ASSUME NEW S, NEW W, NEW d, NEW q, NEW a, GoodQueue(S, W, d, q, a),
         NEW ws \in Seq(Records),
         \A i \in 1..Len(ws), p \in Posts :
           /\ ws[i].doc = PostDoc(p) => ws[i].val /\ Owner[p] = Account[d]
           /\ \A u \in Users : ws[i].doc = FeedDoc(u, p) => Ahead(S, q, Len(q), p)
  PROVE  /\ GoodQueue(S, W, d, q \o ws, a)
         /\ Len(q \o ws) = Len(q) + Len(ws)
         /\ \A i \in 1..Len(q) : (q \o ws)[i] = q[i]
         /\ \A i \in 1..Len(ws) : (q \o ws)[Len(q) + i] = ws[i]
         /\ \A p : Ahead(S, q, Len(q), p) => Ahead(S, q \o ws, Len(q \o ws), p)
<1> DEFINE r == q \o ws
<1>1. /\ q \in Seq(Records) /\ Len(q) \in Nat /\ Len(ws) \in Nat /\ a \in 0..Len(q)
  BY DEF GoodQueue
<1>2. /\ r \in Seq(Records) /\ Len(r) = Len(q) + Len(ws)
      /\ \A i \in 1..Len(q) : r[i] = q[i]
      /\ \A i \in 1..Len(ws) : r[Len(q) + i] = ws[i]
  BY <1>1
<1> HIDE DEF r
<1>3. ASSUME NEW n \in 0..Len(q), NEW m \in n..Len(r), NEW p, Ahead(S, q, n, p)
      PROVE  Ahead(S, r, m, p)
  <2>1. \A j \in 1..n : j \in 1..m /\ j \in 1..Len(q)
    BY <1>1, <1>2
  <2> QED BY <1>2, <1>3, <2>1 DEF Ahead
<1>4. ASSUME NEW i \in 1..Len(r), NEW p \in Posts
      PROVE  /\ r[i].doc = PostDoc(p) => r[i].val /\ Owner[p] = Account[d]
             /\ \A u \in Users : r[i].doc = FeedDoc(u, p) => Ahead(S, r, i - 1, p)
  <2>1. CASE i \in 1..Len(q)
    <3>1. i - 1 \in 0..Len(q) /\ i - 1 \in (i - 1)..Len(r)
      BY <1>1, <1>2, <2>1
    <3>2. /\ q[i].doc = PostDoc(p) => q[i].val /\ Owner[p] = Account[d]
          /\ \A u \in Users : q[i].doc = FeedDoc(u, p) => Ahead(S, q, i - 1, p)
      BY <2>1 DEF GoodQueue
    <3> QED BY <1>2, <1>3, <2>1, <3>1, <3>2
  <2>2. CASE i \notin 1..Len(q)
    <3>1. /\ i - Len(q) \in 1..Len(ws) /\ i = Len(q) + (i - Len(q))
          /\ Len(q) \in 0..Len(q) /\ i - 1 \in Len(q)..Len(r)
      BY <1>1, <1>2, <2>2
    <3>2. r[i] = ws[i - Len(q)]
      BY <1>2, <3>1
    <3> QED BY <1>3, <3>1, <3>2
  <2> QED BY <2>1, <2>2
<1>5. ASSUME NEW i \in 1..a, NEW p \in Posts, r[i].doc = PostDoc(p) PROVE p \in W
  <2>1. i \in 1..Len(q)
    BY <1>1
  <2> QED BY <1>2, <1>5, <2>1 DEF GoodQueue
<1>6. a \in 0..Len(r)
  BY <1>1, <1>2
<1>7. GoodQueue(S, W, d, r, a)
  BY <1>2, <1>4, <1>5, <1>6 DEF GoodQueue
<1>8. Len(q) \in 0..Len(q) /\ Len(r) \in Len(q)..Len(r)
  BY <1>1, <1>2
<1> QED BY <1>2, <1>3, <1>7, <1>8 DEF r

(* One write at the end. *)
LEMMA AppendGood ==
  ASSUME NEW S, NEW W, NEW d, NEW q, NEW a, GoodQueue(S, W, d, q, a), NEW w \in Records,
         \A p \in Posts :
           /\ w.doc = PostDoc(p) => w.val /\ Owner[p] = Account[d]
           /\ \A u \in Users : w.doc = FeedDoc(u, p) => Ahead(S, q, Len(q), p)
  PROVE  /\ GoodQueue(S, W, d, Append(q, w), a)
         /\ Len(Append(q, w)) = Len(q) + 1
         /\ \A i \in 1..Len(q) : Append(q, w)[i] = q[i]
         /\ Append(q, w)[Len(q) + 1] = w
         /\ \A p : Ahead(S, q, Len(q), p) => Ahead(S, Append(q, w), Len(Append(q, w)), p)
<1>1. q \in Seq(Records)
  BY DEF GoodQueue
<1>2. /\ <<w>> \in Seq(Records) /\ Len(<<w>>) = 1 /\ <<w>>[1] = w
      /\ Append(q, w) = q \o <<w>>
  BY <1>1
<1>3. \A i \in 1..1 : i = 1
  OBVIOUS
<1> DEFINE ws == <<w>>
<1> HIDE DEF ws
<1>4. \A i \in 1..Len(ws), p \in Posts :
        /\ ws[i].doc = PostDoc(p) => ws[i].val /\ Owner[p] = Account[d]
        /\ \A u \in Users : ws[i].doc = FeedDoc(u, p) => Ahead(S, q, Len(q), p)
  BY <1>2, <1>3 DEF ws
<1>5. ws \in Seq(Records) /\ Append(q, w) = q \o ws /\ Len(ws) = 1 /\ ws[1] = w
  BY <1>2 DEF ws
<1>6. 1 \in 1..Len(ws)
  BY <1>5
<1> QED BY <1>4, <1>5, <1>6, ConcatGood

(* The oldest write off: what it settled is known. *)
LEMMA TailGood ==
  ASSUME NEW S, NEW W, NEW d, NEW q, NEW a, GoodQueue(S, W, d, q, a), q # <<>>,
         NEW S2, S \subseteq S2, \A p \in Posts : q[1].doc = PostDoc(p) => p \in S2,
         NEW W2, W \subseteq W2, NEW b \in Nat, b = a - 1 \/ b = 0
  PROVE  /\ GoodQueue(S2, W2, d, Tail(q), b)
         /\ \A p \in Posts : Ahead(S, q, Len(q), p) => Ahead(S2, Tail(q), Len(Tail(q)), p)
<1> DEFINE r == Tail(q)
<1>1. q \in Seq(Records) /\ a \in 0..Len(q)
  BY DEF GoodQueue
<1>2. /\ r \in Seq(Records) /\ Len(r) = Len(q) - 1 /\ Len(q) \in Nat \ {0}
      /\ \A i \in 1..Len(r) : r[i] = q[i + 1]
  BY <1>1, TailFacts
<1> HIDE DEF r
<1>3. ASSUME NEW n \in 0..Len(r), NEW p \in Posts, Ahead(S, q, n + 1, p)
      PROVE  Ahead(S2, r, n, p)
  <2>1. CASE p \in S
    BY <2>1 DEF Ahead
  <2>2. ASSUME NEW j \in 1..(n + 1), q[j].doc = PostDoc(p) PROVE Ahead(S2, r, n, p)
    <3>1. CASE j = 1
      BY <2>2, <3>1 DEF Ahead
    <3>2. CASE j # 1
      <4>1. j - 1 \in 1..n /\ j - 1 \in 1..Len(r) /\ j = (j - 1) + 1
        BY <1>2, <3>2
      <4>2. r[j - 1] = q[j]
        BY <1>2, <4>1
      <4> QED BY <2>2, <4>1, <4>2 DEF Ahead
    <3> QED BY <3>1, <3>2
  <2> QED BY <1>3, <2>1, <2>2 DEF Ahead
<1>4. ASSUME NEW i \in 1..Len(r), NEW p \in Posts
      PROVE  /\ r[i].doc = PostDoc(p) => r[i].val /\ Owner[p] = Account[d]
             /\ \A u \in Users : r[i].doc = FeedDoc(u, p) => Ahead(S2, r, i - 1, p)
  <2>1. /\ i + 1 \in 1..Len(q) /\ i - 1 \in 0..Len(r) /\ (i + 1) - 1 = (i - 1) + 1
        /\ r[i] = q[i + 1]
    BY <1>2
  <2>2. /\ q[i + 1].doc = PostDoc(p) => q[i + 1].val /\ Owner[p] = Account[d]
        /\ \A u \in Users : q[i + 1].doc = FeedDoc(u, p) => Ahead(S, q, (i + 1) - 1, p)
    BY <2>1 DEF GoodQueue
  <2> QED BY <1>3, <2>1, <2>2
<1>5. ASSUME NEW i \in 1..b, NEW p \in Posts, r[i].doc = PostDoc(p) PROVE p \in W2
  <2>1. i + 1 \in 1..a /\ i \in 1..Len(r)
    BY <1>1, <1>2
  <2>2. q[i + 1].doc = PostDoc(p)
    BY <1>2, <1>5, <2>1
  <2> QED BY <2>1, <2>2 DEF GoodQueue
<1>6. b \in 0..Len(r)
  BY <1>1, <1>2
<1>7. Len(r) \in 0..Len(r) /\ Len(r) + 1 = Len(q)
  BY <1>2
<1>8. GoodQueue(S2, W2, d, r, b)
  BY <1>2, <1>4, <1>5, <1>6 DEF GoodQueue
<1> QED BY <1>3, <1>7, <1>8 DEF r

(* The end of the process takes callbacks away, nothing else. *)
LEMMA ForgetGood ==
  ASSUME NEW S, NEW W, NEW d, NEW q, NEW a, GoodQueue(S, W, d, q, a),
         NEW r, r = [i \in DOMAIN q |-> Forgotten(q[i])]
  PROVE  /\ GoodQueue(S, W, d, r, 0)
         /\ \A p : Ahead(S, q, Len(q), p) => Ahead(S, r, Len(r), p)
<1>1. q \in Seq(Records) /\ Len(q) \in Nat
  BY DEF GoodQueue
<1>2. \A w \in Records : /\ Forgotten(w) \in Records
                         /\ Forgotten(w).doc = w.doc /\ Forgotten(w).val = w.val
  BY DEF Forgotten, Records
<1>3. r \in Seq(Records) /\ Len(r) = Len(q)
  BY <1>1, <1>2
<1>4. \A i \in 1..Len(q) : r[i].doc = q[i].doc /\ r[i].val = q[i].val
  BY <1>1, <1>2
<1>5. ASSUME NEW n \in 0..Len(q), NEW p, Ahead(S, q, n, p) PROVE Ahead(S, r, n, p)
  <2>1. \A j \in 1..n : j \in 1..Len(q)
    BY <1>1
  <2> QED BY <1>4, <1>5, <2>1 DEF Ahead
<1>6. \A i \in 1..Len(q) : i - 1 \in 0..Len(q)
  BY <1>1
<1>7. 0 \in 0..Len(q) /\ 1..0 = {} /\ Len(q) \in 0..Len(q)
  BY <1>1
<1>8. ASSUME NEW i \in 1..Len(r), NEW p \in Posts
      PROVE  /\ r[i].doc = PostDoc(p) => r[i].val /\ Owner[p] = Account[d]
             /\ \A u \in Users : r[i].doc = FeedDoc(u, p) => Ahead(S, r, i - 1, p)
  <2>1. i \in 1..Len(q) /\ r[i].doc = q[i].doc /\ r[i].val = q[i].val
    BY <1>3, <1>4
  <2>2. /\ q[i].doc = PostDoc(p) => q[i].val /\ Owner[p] = Account[d]
        /\ \A u \in Users : q[i].doc = FeedDoc(u, p) => Ahead(S, q, i - 1, p)
    BY <2>1 DEF GoodQueue
  <2> QED BY <1>5, <1>6, <2>1, <2>2
<1>9. 0 \in 0..Len(r)
  BY <1>3, <1>7
<1>10. GoodQueue(S, W, d, r, 0)
  BY <1>3, <1>7, <1>8, <1>9 DEF GoodQueue
<1> QED BY <1>3, <1>5, <1>7, <1>10

-----------------------------------------------------------------------------
(* The initial state. *)

LEMMA InitUploadInv == UploadInit => UploadInv
<1> SUFFICES ASSUME UploadInit PROVE UploadInv
  OBVIOUS
<1> USE DEF UploadInit, Init
<1>1. ASSUME NEW d \in Devices PROVE GoodQueue(SentPosts, wasPost, d, queue[d], applied[d])
  <2>1. /\ queue[d] = <<>> /\ applied[d] = 0 /\ Len(<<>>) = 0 /\ 1..0 = {} /\ 0 \in 0..0
        /\ <<>> \in Seq(Records)
    OBVIOUS
  <2> QED BY <2>1 DEF GoodQueue
<1>2. QueuesOK
  BY <1>1 DEF QueuesOK
<1>3. DocumentsOK
  <2>1. ASSUME NEW p \in Posts
        PROVE  /\ db[PostDoc(p)] => p \in wasPost
               /\ \A u \in Users : db[FeedDoc(u, p)] => p \in SentPosts
    <3>1. PostDoc(p) \in Docs /\ PostDoc(p)[1] = "posts" /\ PostDoc(p)[3] = p
      BY OwnerType DEF PostDoc, Docs
    <3>2. ASSUME NEW u \in Users
          PROVE FeedDoc(u, p) \in Docs /\ FeedDoc(u, p)[1] = "user-feed" /\ FeedDoc(u, p)[3] = p
      BY DEF FeedDoc, Docs
    <3>3. db[PostDoc(p)] => p \in InitPosts
      BY <3>1
    <3>4. \A u \in Users : db[FeedDoc(u, p)] => p \in InitPosts
      BY <3>2
    <3> QED BY <3>3, <3>4 DEF SentPosts
  <2> QED BY <2>1 DEF DocumentsOK
<1>4. AppOK
  BY FollowAssumption DEF AppOK, NoFailures
<1>5. UploadsOK /\ AskedOK /\ UploadHudAwaited
  BY FollowAssumption DEF UploadsOK, AskedOK, UploadHudAwaited, FollowAssumption
<1> QED BY <1>2, <1>3, <1>4, <1>5 DEF UploadInv

-----------------------------------------------------------------------------
(* Steps: what is known of posts grows, and queues change as a whole. *)

Grows == /\ SentPosts \subseteq SentPosts' /\ wasPost \subseteq wasPost'
         /\ \A d \in Devices : failed[d] = "readfail" => failed'[d] = "readfail"

(* The failures of one step, for the rest of the proof. *)
MayFail(d) == UNCHANGED failed \/ \E fault : Fails(d, fault)

LEMMA Growing ==
  ASSUME AppOK, NEW d \in Devices, MayFail(d), Remember
  PROVE  /\ Grows
         /\ failed' \in [Devices -> {"none", "crash", "reject", "readfail"}]
<1>1. /\ wasPost \subseteq wasPost'
      /\ failed \in [Devices -> {"none", "crash", "reject", "readfail"}]
  BY DEF Remember, AppOK
<1>2. /\ \A e \in Devices : failed[e] # "none" => failed'[e] = failed[e]
      /\ failed' \in [Devices -> {"none", "crash", "reject", "readfail"}]
  <2>1. CASE UNCHANGED failed
    BY <1>1, <2>1
  <2>2. ASSUME NEW fault, Fails(d, fault)
        PROVE  /\ \A e \in Devices : failed[e] # "none" => failed'[e] = failed[e]
               /\ failed' \in [Devices -> {"none", "crash", "reject", "readfail"}]
    <3>1. fault \in {"crash", "reject", "readfail"}
      BY <2>2, PhoneAssumption DEF Fails, PhoneAssumption
    <3> QED BY <1>1, <2>2, <3>1 DEF Fails
  <2> QED BY <2>1, <2>2 DEF MayFail
<1>3. SentPosts \subseteq SentPosts'
  <2>1. \A e \in Devices : failed[e] = "reject" => failed'[e] = "reject"
    BY <1>2
  <2> QED BY <1>1, <2>1 DEF SentPosts
<1>4. \A e \in Devices : failed[e] = "readfail" => failed'[e] = "readfail"
  BY <1>2
<1> QED BY <1>1, <1>2, <1>3, <1>4 DEF Grows

(* Nothing that is ahead of the end of a queue gets lost. *)
Kept == \A d \in Devices, p \in Posts :
          Ahead(SentPosts, queue[d], Len(queue[d]), p)
            => Ahead(SentPosts', queue'[d], Len(queue'[d]), p)

(* Some write of q is to take the HUD of an upload down. *)
Waits(q) == \E i \in 1..Len(q) : q[i].then = "uploaded"

Heard == \A d \in Devices : Waits(queue[d]) => Waits(queue'[d])

LEMMA QueueChange ==
  ASSUME QueuesOK, Grows, NEW d \in Devices, NEW q, NEW a \in Nat,
         queue' = [queue EXCEPT ![d] = q], applied' = [applied EXCEPT ![d] = a],
         NEW S2, S2 = SentPosts', NEW W2, W2 = wasPost',
         GoodQueue(S2, W2, d, q, a),
         \A p \in Posts : Ahead(SentPosts, queue[d], Len(queue[d]), p) => Ahead(S2, q, Len(q), p)
  PROVE  QueuesOK' /\ Kept
<1>1. /\ queue \in [Devices -> Seq(Records)] /\ applied \in [Devices -> Nat]
      /\ q \in Seq(Records) /\ queue'[d] = q /\ applied'[d] = a
      /\ \A e \in Devices \ {d} : queue'[e] = queue[e] /\ applied'[e] = applied[e]
  BY DEF QueuesOK, GoodQueue
<1>2. queue' \in [Devices -> Seq(Records)] /\ applied' \in [Devices -> Nat]
  BY <1>1
<1>3. ASSUME NEW e \in Devices
      PROVE  /\ GoodQueue(S2, W2, e, queue'[e], applied'[e])
             /\ \A p \in Posts : Ahead(SentPosts, queue[e], Len(queue[e]), p)
                                   => Ahead(S2, queue'[e], Len(queue'[e]), p)
  <2>1. CASE e = d
    BY <1>1, <2>1
  <2>2. CASE e # d
    <3>1. GoodQueue(SentPosts, wasPost, e, queue[e], applied[e]) /\ applied[e] \in 0..applied[e]
      BY <1>1 DEF QueuesOK
    <3>2. SentPosts \subseteq S2 /\ wasPost \subseteq W2
      BY DEF Grows
    <3>3. GoodQueue(S2, W2, e, queue[e], applied[e])
      BY <3>1, <3>2, GoodStays
    <3> QED BY <1>1, <2>2, <3>2, <3>3 DEF Ahead
  <2> QED BY <2>1, <2>2
<1> QED BY <1>2, <1>3 DEF QueuesOK, Kept

LEMMA StoreSame ==
  ASSUME QueuesOK, DocumentsOK, Grows, UNCHANGED storeVars
  PROVE  QueuesOK' /\ Kept /\ Heard /\ DocumentsOK'
<1>1. db' = db /\ queue' = queue /\ applied' = applied
  BY DEF storeVars
<1>2. ASSUME NEW e \in Devices, NEW S2, S2 = SentPosts', NEW W2, W2 = wasPost'
      PROVE  GoodQueue(S2, W2, e, queue'[e], applied'[e])
  <2>1. /\ GoodQueue(SentPosts, wasPost, e, queue[e], applied[e])
        /\ applied[e] \in 0..applied[e]
    BY DEF QueuesOK
  <2>2. SentPosts \subseteq S2 /\ wasPost \subseteq W2
    BY <1>2 DEF Grows
  <2>3. GoodQueue(S2, W2, e, queue[e], applied[e])
    BY <2>1, <2>2, GoodStays
  <2> QED BY <1>1, <2>3
<1>3. QueuesOK'
  BY <1>1, <1>2 DEF QueuesOK
<1>4. Kept
  BY <1>1 DEF Kept, Ahead, Grows
<1>5. DocumentsOK'
  BY <1>1 DEF DocumentsOK, Grows
<1> QED BY <1>1, <1>3, <1>4, <1>5 DEF Heard

LEMMA DocumentsStay ==
  ASSUME DocumentsOK, Grows, UNCHANGED db
  PROVE  DocumentsOK'
BY DEF DocumentsOK, Grows

(* A write that names a post in a feed has the post ahead of it. *)
LEMMA EnqueueAllGood ==
  ASSUME QueuesOK, Grows, NEW d \in Devices, NEW ws \in Seq(Records), EnqueueAll(d, ws),
         \A i \in 1..Len(ws), p \in Posts :
           /\ ws[i].doc = PostDoc(p) => ws[i].val /\ Owner[p] = Account[d]
           /\ \A u \in Users : ws[i].doc = FeedDoc(u, p)
                                 => Ahead(SentPosts, queue[d], Len(queue[d]), p)
  PROVE  QueuesOK' /\ Kept /\ Heard
<1> DEFINE q == queue[d] \o ws
<1>1. /\ queue \in [Devices -> Seq(Records)] /\ applied \in [Devices -> Nat]
      /\ queue' = [queue EXCEPT ![d] = q] /\ applied' = applied
      /\ GoodQueue(SentPosts, wasPost, d, queue[d], applied[d])
  BY DEF QueuesOK, EnqueueAll
<1>2. applied' = [applied EXCEPT ![d] = applied[d]] /\ applied[d] \in Nat
      /\ applied[d] \in 0..applied[d]
  BY <1>1
<1>3. /\ GoodQueue(SentPosts, wasPost, d, q, applied[d])
      /\ Len(q) = Len(queue[d]) + Len(ws)
      /\ \A i \in 1..Len(queue[d]) : q[i] = queue[d][i]
      /\ \A p : Ahead(SentPosts, queue[d], Len(queue[d]), p) => Ahead(SentPosts, q, Len(q), p)
  BY <1>1, ConcatGood
<1> HIDE DEF q
<1>4. ASSUME NEW S2, S2 = SentPosts', NEW W2, W2 = wasPost' PROVE QueuesOK' /\ Kept
  <2>1. SentPosts \subseteq S2 /\ wasPost \subseteq W2
    BY <1>4 DEF Grows
  <2>2. GoodQueue(S2, W2, d, q, applied[d])
    BY <1>2, <1>3, <2>1, GoodStays
  <2>3. \A p : Ahead(SentPosts, q, Len(q), p) => Ahead(S2, q, Len(q), p)
    BY <2>1 DEF Ahead
  <2> QED BY <1>1, <1>2, <1>3, <1>4, <2>2, <2>3, QueueChange
<1>5. Heard
  <2>1. queue'[d] = q /\ \A e \in Devices \ {d} : queue'[e] = queue[e]
    BY <1>1
  <2>2. Len(queue[d]) \in Nat /\ Len(ws) \in Nat
    BY <1>1
  <2>3. 1..Len(queue[d]) \subseteq 1..Len(q)
    BY <1>3, <2>2
  <2>4. Waits(queue[d]) => Waits(q)
    BY <1>3, <2>3 DEF Waits
  <2> QED BY <2>1, <2>4 DEF Heard
<1> QED BY <1>4, <1>5

LEMMA EnqueueGood ==
  ASSUME QueuesOK, Grows, NEW d \in Devices, NEW w \in Records, Enqueue(d, w),
         \A p \in Posts :
           /\ w.doc = PostDoc(p) => w.val /\ Owner[p] = Account[d]
           /\ \A u \in Users : w.doc = FeedDoc(u, p)
                                 => Ahead(SentPosts, queue[d], Len(queue[d]), p)
  PROVE  /\ QueuesOK' /\ Kept /\ Heard
         /\ \E i \in 1..Len(queue'[d]) : queue'[d][i] = w
<1> DEFINE ws == <<w>>
<1>1. queue[d] \in Seq(Records) /\ queue \in [Devices -> Seq(Records)]
  BY DEF QueuesOK
<1>2. /\ ws \in Seq(Records) /\ Len(ws) = 1 /\ ws[1] = w
      /\ Append(queue[d], w) = queue[d] \o ws
  BY <1>1
<1>3. EnqueueAll(d, ws)
  BY <1>2 DEF Enqueue, EnqueueAll
<1>4. \A i \in 1..1 : i = 1
  OBVIOUS
<1>5. /\ queue'[d] = Append(queue[d], w) /\ Len(queue'[d]) = Len(queue[d]) + 1
      /\ queue'[d][Len(queue[d]) + 1] = w /\ Len(queue[d]) + 1 \in 1..Len(queue'[d])
  BY <1>1 DEF Enqueue
<1> HIDE DEF ws
<1>6. \A i \in 1..Len(ws) : ws[i] = w
  BY <1>2, <1>4
<1>7. QueuesOK' /\ Kept /\ Heard
  BY <1>2, <1>3, <1>6, EnqueueAllGood
<1> QED BY <1>5, <1>7

(* What an answer settles: the post of the oldest write. *)
LEMMA AnswerFacts ==
  ASSUME QueuesOK, AppOK, Grows, NEW d \in Devices, NEW then, Answer(d, then)
  PROVE  /\ queue[d] \in Seq(Records) /\ queue[d] # <<>>
         /\ Oldest(d) = queue[d][1] /\ Oldest(d) \in Records /\ Oldest(d).then = then
         /\ \A p \in Posts : queue[d][1].doc = PostDoc(p) => p \in SentPosts'
         /\ \E b \in Nat : /\ b = applied[d] - 1 \/ b = 0
                           /\ applied' = [applied EXCEPT ![d] = b]
<1>1. /\ queue[d] \in Seq(Records) /\ queue[d] # <<>> /\ Len(queue[d]) \in Nat \ {0}
      /\ applied \in [Devices -> Nat]
      /\ GoodQueue(SentPosts, wasPost, d, queue[d], applied[d])
  BY DEF QueuesOK, Answer, Answered, Refused
<1>2. Oldest(d) = queue[d][1] /\ 1 \in 1..Len(queue[d]) /\ Oldest(d) \in Records
  BY <1>1 DEF Oldest
<1>3. ASSUME NEW p \in Posts, queue[d][1].doc = PostDoc(p) PROVE p \in SentPosts'
  <2>1. CASE applied[d] > 0
    <3>1. 1 \in 1..applied[d]
      BY <1>1, <2>1
    <3>2. p \in wasPost
      BY <1>1, <1>3, <3>1 DEF GoodQueue
    <3> QED BY <3>2 DEF SentPosts, Grows
  <2>2. CASE Fails(d, "reject")
    <3>1. failed'[d] = "reject"
      BY <2>2 DEF Fails, AppOK
    <3>2. Account[d] = Owner[p]
      BY <1>1, <1>2, <1>3 DEF GoodQueue
    <3> QED BY <3>1, <3>2 DEF SentPosts
  <2> QED BY <2>1, <2>2 DEF Answer, Answered
<1>4. \E b \in Nat : /\ b = applied[d] - 1 \/ b = 0
                     /\ applied' = [applied EXCEPT ![d] = b]
  <2>1. CASE Answered(d)
    <3>1. applied[d] - 1 \in Nat /\ applied' = [applied EXCEPT ![d] = applied[d] - 1]
      BY <1>1, <2>1 DEF Answered
    <3> QED BY <3>1
  <2>2. CASE Refused(d)
    <3>1. applied' = [applied EXCEPT ![d] = 0]
      BY <1>1, <2>2 DEF Refused
    <3> QED BY <3>1
  <2> QED BY <2>1, <2>2 DEF Answer
<1> QED BY <1>1, <1>2, <1>3, <1>4 DEF Answer

(* The answer takes the oldest write off, and may put another at the end. *)
LEMMA AnswerGood ==
  ASSUME QueuesOK, AppOK, Grows, NEW d \in Devices, NEW then, Answer(d, then),
         \/ Dequeue(d)
         \/ \E w \in Records : DequeueThenEnqueue(d, w) /\ OtherDoc(w.doc)
  PROVE  /\ QueuesOK' /\ Kept
         /\ \A e \in Devices : Waits(queue[e]) /\ (e = d => then # "uploaded")
                                 => Waits(queue'[e])
<1> DEFINE r == Tail(queue[d])
<1>1. /\ queue \in [Devices -> Seq(Records)] /\ applied \in [Devices -> Nat]
      /\ queue[d] \in Seq(Records) /\ queue[d] # <<>>
      /\ Oldest(d) = queue[d][1] /\ Oldest(d).then = then
      /\ \A p \in Posts : queue[d][1].doc = PostDoc(p) => p \in SentPosts'
      /\ GoodQueue(SentPosts, wasPost, d, queue[d], applied[d])
  BY AnswerFacts DEF QueuesOK
<1>2. PICK b \in Nat : /\ b = applied[d] - 1 \/ b = 0
                       /\ applied' = [applied EXCEPT ![d] = b]
  BY AnswerFacts
<1>3. /\ r \in Seq(Records) /\ Len(r) = Len(queue[d]) - 1 /\ Len(queue[d]) \in Nat \ {0}
      /\ \A i \in 1..Len(r) : r[i] = queue[d][i + 1]
  BY <1>1, TailFacts
<1>4. ASSUME NEW S2, S2 = SentPosts', NEW W2, W2 = wasPost'
      PROVE  /\ GoodQueue(S2, W2, d, r, b)
             /\ \A p \in Posts : Ahead(SentPosts, queue[d], Len(queue[d]), p)
                                   => Ahead(S2, r, Len(r), p)
  <2>1. /\ SentPosts \subseteq S2 /\ wasPost \subseteq W2
        /\ \A p \in Posts : queue[d][1].doc = PostDoc(p) => p \in S2
    BY <1>1, <1>4 DEF Grows
  <2> QED BY <1>1, <1>2, <2>1, TailGood
<1>5. Waits(queue[d]) /\ then # "uploaded" => Waits(r)
  <2>1. ASSUME NEW i \in 1..Len(queue[d]), queue[d][i].then = "uploaded", then # "uploaded"
        PROVE  Waits(r)
    <3>1. i # 1
      BY <1>1, <2>1
    <3>2. i - 1 \in 1..Len(r) /\ i = (i - 1) + 1
      BY <1>3, <3>1
    <3>3. r[i - 1] = queue[d][i]
      BY <1>3, <3>2
    <3> QED BY <2>1, <3>2, <3>3 DEF Waits
  <2> QED BY <2>1 DEF Waits
<1> HIDE DEF r
<1>6. CASE Dequeue(d)
  <2>1. queue' = [queue EXCEPT ![d] = r]
    BY <1>6 DEF Dequeue, r
  <2>2. QueuesOK' /\ Kept
    BY <1>2, <1>4, <2>1, QueueChange
  <2>3. queue'[d] = r /\ \A e \in Devices \ {d} : queue'[e] = queue[e]
    BY <1>1, <2>1
  <2> QED BY <1>5, <2>2, <2>3
<1>7. ASSUME NEW w \in Records, DequeueThenEnqueue(d, w), OtherDoc(w.doc)
      PROVE  /\ QueuesOK' /\ Kept
             /\ \A e \in Devices : Waits(queue[e]) /\ (e = d => then # "uploaded")
                                     => Waits(queue'[e])
  <2> DEFINE q == Append(r, w)
  <2>1. queue' = [queue EXCEPT ![d] = q]
    BY <1>7 DEF DequeueThenEnqueue, r
  <2>2. ASSUME NEW S2, S2 = SentPosts', NEW W2, W2 = wasPost'
        PROVE  /\ GoodQueue(S2, W2, d, q, b)
               /\ \A p \in Posts : Ahead(SentPosts, queue[d], Len(queue[d]), p)
                                     => Ahead(S2, q, Len(q), p)
    <3>1. GoodQueue(S2, W2, d, r, b)
      BY <1>4, <2>2
    <3>2. /\ GoodQueue(S2, W2, d, q, b)
          /\ \A p : Ahead(S2, r, Len(r), p) => Ahead(S2, q, Len(q), p)
      BY <1>7, <3>1, AppendGood DEF OtherDoc
    <3> QED BY <1>4, <2>2, <3>2
  <2>3. Waits(r) => Waits(q)
    <3>1. 1..Len(r) \subseteq 1..Len(q) /\ \A i \in 1..Len(r) : q[i] = r[i]
      BY <1>3
    <3> HIDE DEF q
    <3> QED BY <3>1 DEF Waits
  <2> HIDE DEF q
  <2>4. QueuesOK' /\ Kept
    BY <1>2, <2>1, <2>2, QueueChange
  <2>5. queue'[d] = q /\ \A e \in Devices \ {d} : queue'[e] = queue[e]
    BY <1>1, <2>1
  <2> QED BY <1>5, <2>3, <2>4, <2>5
<1> QED BY <1>6, <1>7

(* A reopened stream takes nothing back. *)
LEMMA ReopenGood ==
  ASSUME QueuesOK, Grows, NEW d \in Devices, Reopen(d)
  PROVE  QueuesOK' /\ Kept /\ Heard
<1>1. /\ queue \in [Devices -> Seq(Records)] /\ applied \in [Devices -> Nat]
      /\ queue' = queue /\ queue' = [queue EXCEPT ![d] = queue[d]]
      /\ applied' = [applied EXCEPT ![d] = 0] /\ 0 \in 0..applied[d]
      /\ GoodQueue(SentPosts, wasPost, d, queue[d], applied[d])
  BY DEF QueuesOK, Reopen
<1>2. ASSUME NEW S2, S2 = SentPosts', NEW W2, W2 = wasPost' PROVE QueuesOK' /\ Kept
  <2>1. SentPosts \subseteq S2 /\ wasPost \subseteq W2
    BY <1>2 DEF Grows
  <2>2. GoodQueue(S2, W2, d, queue[d], 0)
    BY <1>1, <2>1, GoodStays
  <2>3. \A p : Ahead(SentPosts, queue[d], Len(queue[d]), p) => Ahead(S2, queue[d], Len(queue[d]), p)
    BY <2>1 DEF Ahead
  <2> QED BY <1>1, <1>2, <2>2, <2>3, QueueChange
<1> QED BY <1>1, <1>2 DEF Heard

(* Nor does the end of a process, but for what waits on its own answers. *)
LEMMA LoseGood ==
  ASSUME QueuesOK, Grows, NEW d \in Devices, LoseProcess(d)
  PROVE  /\ QueuesOK' /\ Kept
         /\ \A e \in Devices \ {d} : queue'[e] = queue[e]
<1> DEFINE q == [i \in DOMAIN queue[d] |-> Forgotten(queue[d][i])]
<1>1. /\ queue \in [Devices -> Seq(Records)] /\ applied \in [Devices -> Nat]
      /\ queue' = [queue EXCEPT ![d] = q]
      /\ applied' = [applied EXCEPT ![d] = 0] /\ 0 \in 0..0
      /\ GoodQueue(SentPosts, wasPost, d, queue[d], applied[d])
  BY DEF QueuesOK, LoseProcess
<1>2. /\ GoodQueue(SentPosts, wasPost, d, q, 0)
      /\ \A p : Ahead(SentPosts, queue[d], Len(queue[d]), p) => Ahead(SentPosts, q, Len(q), p)
  BY <1>1, ForgetGood
<1> HIDE DEF q
<1>3. ASSUME NEW S2, S2 = SentPosts', NEW W2, W2 = wasPost' PROVE QueuesOK' /\ Kept
  <2>1. SentPosts \subseteq S2 /\ wasPost \subseteq W2
    BY <1>3 DEF Grows
  <2>2. GoodQueue(S2, W2, d, q, 0)
    BY <1>1, <1>2, <2>1, GoodStays
  <2>3. \A p : Ahead(SentPosts, q, Len(q), p) => Ahead(S2, q, Len(q), p)
    BY <2>1 DEF Ahead
  <2> QED BY <1>1, <1>2, <1>3, <2>2, <2>3, QueueChange
<1> QED BY <1>1, <1>3

(* The backend applies the writes in their order: when it comes to a feed, the
   post ahead of it has been applied or answered. *)
LEMMA ApplyGood ==
  ASSUME QueuesOK, DocumentsOK, Grows, Remember, NEW d \in Devices, Commit(d),
         NEW q, q = queue[d], NEW a, a = applied[d], NEW w, w = q[a + 1]
  PROVE  QueuesOK' /\ Kept /\ Heard /\ DocumentsOK'
<1>1. /\ queue \in [Devices -> Seq(Records)] /\ applied \in [Devices -> Nat]
      /\ q \in Seq(Records) /\ a \in Nat /\ a < Len(q) /\ a + 1 \in 1..Len(q)
      /\ w \in Records
      /\ db' = [db EXCEPT ![w.doc] = w.val]
      /\ queue' = queue /\ queue' = [queue EXCEPT ![d] = q]
      /\ applied' = [applied EXCEPT ![d] = a + 1]
      /\ GoodQueue(SentPosts, wasPost, d, q, a)
  BY DEF QueuesOK, Commit
<1>2. /\ DOMAIN db' = Docs
      /\ \A x \in Docs : db'[x] = IF x = w.doc THEN w.val ELSE db[x]
  BY <1>1 DEF DocumentsOK
<1>3. \A p \in Posts : PostDoc(p) \in Docs /\ \A u \in Users : FeedDoc(u, p) \in Docs
  BY OwnerType DEF PostDoc, FeedDoc, Docs
<1>4. \A p \in Posts : db'[PostDoc(p)] => p \in wasPost'
  BY DEF Remember
<1>5. ASSUME NEW p \in Posts, w.doc = PostDoc(p) PROVE p \in wasPost'
  <2>1. w.val = TRUE
    <3>1. w.val /\ w.val \in BOOLEAN
      BY <1>1, <1>5 DEF GoodQueue, Records
    <3> QED BY <3>1
  <2>2. db'[PostDoc(p)]
    BY <1>2, <1>3, <1>5, <2>1
  <2> QED BY <1>4, <2>2
<1>6. ASSUME NEW p \in Posts, NEW u \in Users, db'[FeedDoc(u, p)] PROVE p \in SentPosts'
  <2>1. CASE FeedDoc(u, p) # w.doc
    <3>1. db[FeedDoc(u, p)]
      BY <1>2, <1>3, <1>6, <2>1
    <3> QED BY <3>1 DEF DocumentsOK, Grows
  <2>2. CASE FeedDoc(u, p) = w.doc
    <3>1. Ahead(SentPosts, q, (a + 1) - 1, p)
      BY <1>1, <2>2 DEF GoodQueue
    <3>2. (a + 1) - 1 = a
      BY <1>1
    <3>3. ASSUME NEW j \in 1..a, q[j].doc = PostDoc(p) PROVE p \in wasPost
      BY <1>1, <3>3 DEF GoodQueue
    <3> QED BY <3>1, <3>2, <3>3 DEF Ahead, Grows, SentPosts
  <2> QED BY <2>1, <2>2
<1>7. DocumentsOK'
  BY <1>2, <1>4, <1>6 DEF DocumentsOK
<1>8. ASSUME NEW S2, S2 = SentPosts', NEW W2, W2 = wasPost' PROVE QueuesOK' /\ Kept
  <2>1. SentPosts \subseteq S2 /\ wasPost \subseteq W2 /\ a \in 0..a
    BY <1>1, <1>8 DEF Grows
  <2>2. GoodQueue(S2, W2, d, q, a)
    BY <1>1, <2>1, GoodStays
  <2>3. ASSUME NEW i \in 1..(a + 1), NEW p \in Posts, q[i].doc = PostDoc(p) PROVE p \in W2
    <3>1. CASE i = a + 1
      BY <1>5, <1>8, <2>3, <3>1
    <3>2. CASE i \in 1..a
      BY <2>2, <2>3, <3>2 DEF GoodQueue
    <3> QED BY <1>1, <3>1, <3>2
  <2>4. GoodQueue(S2, W2, d, q, a + 1)
    <3>1. a + 1 \in 0..Len(q)
      BY <1>1
    <3> QED BY <2>2, <2>3, <3>1 DEF GoodQueue
  <2>5. \A p : Ahead(SentPosts, q, Len(q), p) => Ahead(S2, q, Len(q), p)
    BY <2>1 DEF Ahead
  <2>6. a + 1 \in Nat
    BY <1>1
  <2> QED BY <1>1, <1>8, <2>4, <2>5, <2>6, QueueChange
<1> QED BY <1>1, <1>7, <1>8 DEF Heard

-----------------------------------------------------------------------------
(* The steps of follows. *)

LEMMA RestStays ==
  ASSUME UploadInv, Grows, Kept, Heard, UNCHANGED screenVars
  PROVE  UploadsOK' /\ AskedOK' /\ UploadHudAwaited'
<1>1. /\ uploads' = uploads /\ uploaded' = uploaded /\ hud' = hud
      /\ UploadsOK /\ AskedOK /\ UploadHudAwaited
  BY DEF screenVars, UploadInv
<1>2. UploadsOK'
  BY <1>1 DEF UploadsOK
<1>3. AskedOK'
  BY <1>1 DEF AskedOK, Kept
<1>4. UploadHudAwaited'
  <2>1. ASSUME NEW d \in Devices, hud'[d]
        PROVE  \/ \E p \in Posts : <<d, p, "image">> \in uploads'
               \/ Waits(queue'[d])
               \/ failed'[d] = "readfail"
    BY <1>1, <2>1 DEF UploadHudAwaited, Waits, Heard, Grows
  <2> QED BY <2>1 DEF UploadHudAwaited, Waits
<1> QED BY <1>2, <1>3, <1>4

LEMMA TapType ==
  ASSUME AppOK, NEW d \in Devices, NEW t \in Users, NEW screen \in Screens, NEW isFollowed,
         Tap(d, t, screen, isFollowed)
  PROVE  taps' \in [Devices -> Nat] /\ blocks' \subseteq TapBlocks
<1> DEFINE tap == [n |-> taps[d] + 1, screen |-> screen, target |-> t, val |-> ~isFollowed]
<1>1. taps[d] + 1 \in Nat /\ taps' \in [Devices -> Nat]
  BY DEF Tap, AppOK
<1>2. (~isFollowed) \in BOOLEAN
  OBVIOUS
<1>3. tap \in UploadTaps
  BY <1>1, <1>2 DEF UploadTaps
<1>4. blocks' = blocks \cup {[dev |-> d, kind |-> "follow", tap |-> tap]}
  BY DEF Tap
<1> HIDE DEF tap
<1>5. [dev |-> d, kind |-> "follow", tap |-> tap] \in TapBlocks
  BY <1>3 DEF TapBlocks
<1> QED BY <1>1, <1>4, <1>5 DEF AppOK

(* A phone that only shows something, or hands a tap to the global queue. *)
LEMMA ScreenStep ==
  ASSUME AppOK, NEW d \in Devices, UserStep(d) \/ ReadStep(d)
  PROVE  /\ MayFail(d) /\ UNCHANGED storeVars
         /\ taps' \in [Devices -> Nat] /\ blocks' \subseteq TapBlocks
<1>1. ASSUME NEW t \in Users, OpenProfile(d, t) \/ ProfileCheckResult(d, t) \/ RowCheckResult(d, t)
      PROVE  UNCHANGED <<failed, storeVars, taps, blocks>>
  BY <1>1 DEF OpenProfile, ProfileCheckResult, RowCheckResult
<1>2. ASSUME NEW t \in Users, TapProfile(d, t) \/ TapRow(d, t)
      PROVE  /\ UNCHANGED <<failed, storeVars>>
             /\ taps' \in [Devices -> Nat] /\ blocks' \subseteq TapBlocks
  <2>1. {"profile", "row"} = Screens
    BY DEF Screens
  <2>2. \E screen \in Screens : \E isFollowed : Tap(d, t, screen, isFollowed)
    BY <1>2, <2>1 DEF TapProfile, TapRow
  <2>3. UNCHANGED <<failed, storeVars>>
    BY <1>2 DEF TapProfile, TapRow
  <2> QED BY <2>2, <2>3, TapType
<1>3. ASSUME Refresh(d) \/ NotificationsArrive(d) PROVE UNCHANGED <<failed, storeVars, taps, blocks>>
  BY <1>3 DEF Refresh, NotificationsArrive
<1>4. ASSUME NEW c, c[1] = d, CheckFails(c) PROVE MayFail(d) /\ UNCHANGED <<storeVars, taps, blocks>>
  BY <1>4 DEF CheckFails, MayFail
<1> QED BY <1>1, <1>2, <1>3, <1>4 DEF UserStep, ReadStep, MayFail, AppOK

(* A read finds a post that is settled, or whose write is queued here. *)
LEMMA FoundAhead ==
  ASSUME QueuesOK, DocumentsOK, NEW d \in Devices, NEW p \in Posts, LocalView(d, PostDoc(p))
  PROVE  Ahead(SentPosts, queue[d], Len(queue[d]), p)
<1>1. CASE PendingOn(d, PostDoc(p)) = {}
  <2>1. db[PostDoc(p)]
    BY <1>1 DEF LocalView
  <2> QED BY <2>1 DEF DocumentsOK, SentPosts, Ahead
<1>2. CASE PendingOn(d, PostDoc(p)) # {}
  BY <1>2 DEF PendingOn, Ahead
<1> QED BY <1>1, <1>2

(* The order in which the posts, or the followers, of a set are gone through. *)
LEMMA ListFacts ==
  ASSUME NEW T, IsFiniteSet(T), NEW s \in SetToSeqs(T)
  PROVE  \E n \in Nat : DOMAIN s = 1..n /\ s \in [1..n -> T]
<1>1. Cardinality(T) \in Nat
  BY FS_CardinalityType
<1> QED BY <1>1 DEF SetToSeqs

LEMMA BlockStepGood ==
  ASSUME QueuesOK, DocumentsOK, AppOK, Remember, NEW d \in Devices, BlockStep(d)
  PROVE  /\ MayFail(d) /\ QueuesOK' /\ Kept /\ Heard /\ DocumentsOK'
         /\ UNCHANGED taps /\ blocks' \subseteq TapBlocks
<1>1. PICK b \in blocks : b.dev = d /\ (RunFollowBlock(b) \/ RunNotifyBlock(b) \/ RunFeedBlock(b))
  BY DEF BlockStep
<1>2. /\ b.tap \in UploadTaps /\ b.tap.target \in Users /\ b.tap.val \in BOOLEAN
      /\ Account[d] \in Users
  BY AccountType DEF AppOK, TapBlocks, UploadTaps
<1>3. MayFail(d) /\ UNCHANGED taps /\ blocks' \subseteq TapBlocks
  BY <1>1 DEF RunFollowBlock, RunNotifyBlock, RunFeedBlock, MayFail, AppOK
<1>4. Grows
  BY <1>3, Growing
<1>5. CASE RunFollowBlock(b)
  <2> DEFINE w == [doc |-> FollowingDoc(Account[d], b.tap.target),
                   val |-> b.tap.val, then |-> "mirror", tap |-> b.tap]
  <2>1. w \in Records
    BY <1>2, FollowDocsType DEF Records
  <2>2. OtherDoc(w.doc)
    BY DocsApart
  <2>3. Enqueue(d, w) /\ UNCHANGED db
    BY <1>1, <1>5 DEF RunFollowBlock, Enqueue
  <2> HIDE DEF w
  <2> QED BY <1>3, <1>4, <2>1, <2>2, <2>3, EnqueueGood, DocumentsStay DEF OtherDoc
<1>6. CASE RunNotifyBlock(b)
  <2> DEFINE w == [doc |-> NotificationDoc(b.tap.target, Account[d]),
                   val |-> TRUE, then |-> "none", tap |-> b.tap]
  <2>1. w \in Records
    BY <1>2, FollowDocsType DEF Records
  <2>2. OtherDoc(w.doc)
    BY DocsApart
  <2>3. Enqueue(d, w) /\ UNCHANGED db
    BY <1>1, <1>6 DEF RunNotifyBlock, Enqueue
  <2> HIDE DEF w
  <2> QED BY <1>3, <1>4, <2>1, <2>2, <2>3, EnqueueGood, DocumentsStay DEF OtherDoc
<1>7. CASE RunFeedBlock(b)
  <2> DEFINE T == PostsOf(d, b.tap.target)
  <2>1. CASE UNCHANGED storeVars
    BY <1>3, <1>4, <2>1, StoreSame
  <2>2. ASSUME NEW s \in SetToSeqs(T),
               EnqueueAll(d, [i \in DOMAIN s |-> FeedWrite(d, b.tap, s[i])])
        PROVE  QueuesOK' /\ Kept /\ Heard /\ DocumentsOK'
    <3> DEFINE ws == [i \in DOMAIN s |-> FeedWrite(d, b.tap, s[i])]
    <3>1. T \subseteq Posts /\ \A p \in T : LocalView(d, PostDoc(p))
      BY DEF PostsOf
    <3>2. IsFiniteSet(T)
      BY <3>1, FollowAssumption, FS_Subset DEF FollowAssumption
    <3> HIDE DEF T
    <3>3. PICK n \in Nat : DOMAIN s = 1..n /\ s \in [1..n -> T]
      BY <2>2, <3>2, ListFacts
    <3>4. ASSUME NEW p \in T
          PROVE  /\ FeedWrite(d, b.tap, p) \in Records
                 /\ FeedWrite(d, b.tap, p).doc = FeedDoc(Account[d], p)
      <4>1. FeedDoc(Account[d], p) \in Docs
        BY <1>2, <3>1 DEF FeedDoc, Docs
      <4> QED BY <1>2, <4>1 DEF FeedWrite, Records
    <3>5. ws \in Seq(Records) /\ Len(ws) = n
      BY <3>3, <3>4
    <3>6. ASSUME NEW i \in 1..Len(ws), NEW p \in Posts
          PROVE  /\ ws[i].doc # PostDoc(p)
                 /\ \A u \in Users : ws[i].doc = FeedDoc(u, p)
                      => Ahead(SentPosts, queue[d], Len(queue[d]), p)
      <4>1. s[i] \in T /\ ws[i] = FeedWrite(d, b.tap, s[i])
        BY <3>3, <3>5
      <4>2. ws[i].doc = FeedDoc(Account[d], s[i])
        BY <3>4, <4>1
      <4>3. \A u : ws[i].doc = FeedDoc(u, p) => p = s[i]
        BY <4>2, DocsApart
      <4>4. LocalView(d, PostDoc(s[i])) /\ s[i] \in Posts
        BY <3>1, <4>1
      <4>5. Ahead(SentPosts, queue[d], Len(queue[d]), s[i])
        BY <4>4, FoundAhead
      <4> QED BY <4>2, <4>3, <4>5, DocsApart
    <3>7. EnqueueAll(d, ws) /\ UNCHANGED db
      BY <2>2 DEF EnqueueAll
    <3> HIDE DEF ws
    <3> QED BY <1>4, <3>5, <3>6, <3>7, EnqueueAllGood, DocumentsStay
  <2> QED BY <1>1, <1>3, <1>7, <2>1, <2>2 DEF RunFeedBlock
<1> QED BY <1>1, <1>5, <1>6, <1>7

LEMMA AnswerAnyGood ==
  ASSUME QueuesOK, DocumentsOK, AppOK, Remember, NEW d \in Devices, AnswerAny(d)
  PROVE  /\ MayFail(d) /\ QueuesOK' /\ Kept /\ Heard /\ DocumentsOK'
         /\ UNCHANGED taps /\ blocks' \subseteq TapBlocks
<1>1. PICK then : Answer(d, then) /\ then # "uploaded"
  BY DEF AnswerAny, AnswerMirror, AnswerProfile, AnswerRow, AnswerSilent
<1>2. MayFail(d) /\ UNCHANGED <<taps, db>>
  BY DEF AnswerAny, AnswerMirror, AnswerProfile, AnswerRow, AnswerSilent, Answer, MayFail
<1>3. Grows
  BY <1>2, Growing
<1>4. /\ Oldest(d) \in Records /\ Oldest(d).tap \in UploadTaps
      /\ Oldest(d).tap.target \in Users /\ Account[d] \in Users
  BY <1>1, <1>3, AnswerFacts, AccountType DEF Records, UploadTaps
<1>5. \/ Dequeue(d)
      \/ \E w \in Records : DequeueThenEnqueue(d, w) /\ OtherDoc(w.doc)
  <2>1. CASE AnswerMirror(d)
    <3> DEFINE w == [Oldest(d) EXCEPT !.doc = FollowersDoc(Oldest(d).tap.target, Account[d]),
                                      !.then = "done"]
    <3>1. /\ w \in Records
          /\ w.doc = FollowersDoc(Oldest(d).tap.target, Account[d])
      BY <1>4, FollowDocsType DEF Records
    <3>2. DequeueThenEnqueue(d, w)
      BY <2>1 DEF AnswerMirror
    <3> HIDE DEF w
    <3> QED BY <3>1, <3>2, DocsApart
  <2>2. CASE AnswerProfile(d) \/ AnswerRow(d) \/ AnswerSilent(d)
    BY <2>2 DEF AnswerProfile, AnswerRow, AnswerSilent
  <2> QED BY <2>1, <2>2 DEF AnswerAny
<1>6. QueuesOK' /\ Kept /\ Heard
  BY <1>1, <1>3, <1>5, AnswerGood DEF Heard
<1>7. blocks' \subseteq TapBlocks
  <2>1. CASE AnswerProfile(d)
    <3>1. \A x \in [dev : {d}, tap : {Oldest(d).tap},
                    kind : IF Oldest(d).tap.val THEN {"notify", "feed"} ELSE {"feed"}] :
            x \in TapBlocks
      BY <1>4 DEF TapBlocks
    <3> QED BY <2>1, <3>1 DEF AnswerProfile, AppOK
  <2>2. CASE AnswerMirror(d) \/ AnswerRow(d) \/ AnswerSilent(d)
    BY <2>2 DEF AnswerMirror, AnswerRow, AnswerSilent, AppOK
  <2> QED BY <2>1, <2>2 DEF AnswerAny
<1> QED BY <1>2, <1>3, <1>6, <1>7, DocumentsStay

LEMMA FollowStepKeeps ==
  ASSUME UploadInv, Remember, NEW d \in Devices, FollowStep(d)
  PROVE  UploadInv'
<1>1. QueuesOK /\ DocumentsOK /\ AppOK /\ UNCHANGED screenVars
  BY DEF UploadInv, FollowStep
<1>2. ASSUME MayFail(d), taps' \in [Devices -> Nat], blocks' \subseteq TapBlocks
      PROVE  AppOK' /\ Grows
  BY <1>1, <1>2, Growing DEF AppOK
<1>3. ASSUME QueuesOK', DocumentsOK', AppOK', Grows, Kept, Heard PROVE UploadInv'
  BY <1>1, <1>3, RestStays DEF UploadInv
<1>4. CASE UserStep(d) \/ ReadStep(d)
  <2>1. /\ MayFail(d) /\ UNCHANGED storeVars
        /\ taps' \in [Devices -> Nat] /\ blocks' \subseteq TapBlocks
    BY <1>1, <1>4, ScreenStep
  <2> QED BY <1>1, <1>2, <1>3, <2>1, StoreSame
<1>5. CASE BlockStep(d) \/ AnswerAny(d)
  <2>1. /\ MayFail(d) /\ QueuesOK' /\ Kept /\ Heard /\ DocumentsOK'
        /\ UNCHANGED taps /\ blocks' \subseteq TapBlocks
    BY <1>1, <1>5, BlockStepGood, AnswerAnyGood
  <2> QED BY <1>1, <1>2, <1>3, <2>1 DEF AppOK
<1>6. CASE Apply(d)
  <2>1. Commit(d) /\ UNCHANGED <<taps, blocks, failed>>
    BY <1>6 DEF Apply
  <2>2. AppOK' /\ Grows
    BY <1>1, <1>2, <2>1 DEF MayFail, AppOK
  <2> QED BY <1>1, <1>3, <2>1, <2>2, ApplyGood
<1>7. CASE Resend(d)
  <2>1. Reopen(d) /\ UNCHANGED <<taps, blocks, failed, db>>
    BY <1>7 DEF Resend, Reopen, followVars
  <2>2. AppOK' /\ Grows
    BY <1>1, <1>2, <2>1 DEF MayFail, AppOK
  <2> QED BY <1>1, <1>3, <2>1, <2>2, ReopenGood, DocumentsStay
<1> QED BY <1>4, <1>5, <1>6, <1>7 DEF FollowStep

-----------------------------------------------------------------------------
(* The steps of uploads. *)

(* Each query under way, and each HUD that is up, was accounted for before and
   still is, or is accounted for anew. *)
LEMMA AskedStays ==
  ASSUME UploadInv, Kept,
         \A d \in Devices, p \in Posts :
           <<d, p, "followers">> \in uploads' =>
             \/ <<d, p, "followers">> \in uploads
             \/ Ahead(SentPosts', queue'[d], Len(queue'[d]), p)
  PROVE  AskedOK'
BY DEF UploadInv, AskedOK, Kept

LEMMA HudStays ==
  ASSUME UploadInv, Grows,
         \A d \in Devices : hud'[d] =>
           \/ \E p \in Posts : <<d, p, "image">> \in uploads'
           \/ Waits(queue'[d])
           \/ failed'[d] = "readfail"
           \/ /\ hud[d]
              /\ Waits(queue[d]) => Waits(queue'[d])
              /\ \A p \in Posts : <<d, p, "image">> \in uploads
                                    => <<d, p, "image">> \in uploads'
  PROVE  UploadHudAwaited'
<1>1. ASSUME NEW d \in Devices, hud'[d]
      PROVE  \/ \E p \in Posts : <<d, p, "image">> \in uploads'
             \/ Waits(queue'[d])
             \/ failed'[d] = "readfail"
  <2>1. hud[d] => \/ \E p \in Posts : <<d, p, "image">> \in uploads
                  \/ Waits(queue[d])
                  \/ failed[d] = "readfail"
    BY DEF UploadInv, UploadHudAwaited, Waits
  <2> QED BY <1>1, <2>1 DEF Grows
<1> QED BY <1>1 DEF UploadHudAwaited, Waits

LEMMA TapDoneKeeps ==
  ASSUME UploadInv, Remember, NEW d \in Devices, TapDone(d)
  PROVE  UploadInv'
<1>1. /\ QueuesOK /\ DocumentsOK /\ AppOK /\ UploadsOK
      /\ UNCHANGED <<storeVars, taps, blocks, failed>>
  BY DEF UploadInv, TapDone, vars, followVars
<1>2. AppOK' /\ Grows
  BY <1>1, Growing DEF MayFail, AppOK
<1>3. QueuesOK' /\ Kept /\ Heard /\ DocumentsOK'
  BY <1>1, <1>2, StoreSame
<1>4. PICK p \in Posts \ uploaded :
        /\ Owner[p] = Account[d]
        /\ uploads' = uploads \cup {<<d, p, "image">>}
        /\ uploaded' = uploaded \cup {p}
        /\ hud' = [hud EXCEPT ![d] = TRUE]
  BY DEF TapDone
<1>5. UploadsOK'
  <2>1. ASSUME NEW x \in uploads' PROVE Owner[x[2]] = Account[x[1]] /\ x[2] \in uploaded' \ InitPosts
    <3>1. CASE x \in uploads
      BY <1>1, <1>4, <3>1 DEF UploadsOK
    <3>2. CASE x = <<d, p, "image">>
      BY <1>1, <1>4, <3>2 DEF UploadsOK
    <3> QED BY <1>4, <3>1, <3>2
  <2> QED BY <1>1, <1>4, <2>1 DEF UploadsOK
<1>6. AskedOK'
  BY <1>3, <1>4, AskedStays
<1>7. UploadHudAwaited'
  <2>1. \A e \in Devices : hud'[e] => e = d \/ hud[e]
    BY <1>1, <1>4 DEF UploadsOK
  <2> QED BY <1>2, <1>3, <1>4, <2>1, HudStays DEF Heard
<1> QED BY <1>2, <1>3, <1>5, <1>6, <1>7 DEF UploadInv

LEMMA ImageFailsKeeps ==
  ASSUME UploadInv, Remember, NEW d \in Devices, NEW p \in Posts, ImageFails(d, p)
  PROVE  UploadInv'
<1>1. /\ QueuesOK /\ DocumentsOK /\ AppOK /\ UploadsOK
      /\ UNCHANGED <<storeVars, taps, blocks, uploaded, hud>>
      /\ uploads' = uploads \ {<<d, p, "image">>}
      /\ Fails(d, "readfail")
  BY DEF UploadInv, ImageFails
<1>2. AppOK' /\ Grows
  BY <1>1, Growing DEF MayFail, AppOK
<1>3. QueuesOK' /\ Kept /\ Heard /\ DocumentsOK'
  BY <1>1, <1>2, StoreSame
<1>4. UploadsOK'
  BY <1>1 DEF UploadsOK
<1>5. AskedOK'
  BY <1>1, <1>3, AskedStays
<1>6. UploadHudAwaited'
  <2>1. failed'[d] = "readfail"
    BY <1>1 DEF Fails, AppOK
  <2>2. \A e \in Devices \ {d}, x \in Posts :
          <<e, x, "image">> \in uploads => <<e, x, "image">> \in uploads'
    BY <1>1
  <2> QED BY <1>1, <1>2, <1>3, <2>1, <2>2, HudStays DEF Heard
<1> QED BY <1>2, <1>3, <1>4, <1>5, <1>6 DEF UploadInv

LEMMA UploadTapType == \A d \in Devices : UploadTap(d) \in UploadTaps
BY AccountType DEF UploadTap, UploadTaps

(* The post is queued before the followers are asked for. *)
LEMMA ImageStoredKeeps ==
  ASSUME UploadInv, Remember, NEW d \in Devices, NEW p \in Posts, ImageStored(d, p)
  PROVE  UploadInv'
<1> DEFINE w == PostWrite(d, p)
<1>1. /\ QueuesOK /\ DocumentsOK /\ AppOK /\ UploadsOK
      /\ UNCHANGED <<db, taps, blocks, failed, uploaded, hud>>
      /\ uploads' = (uploads \ {<<d, p, "image">>}) \cup {<<d, p, "followers">>}
      /\ <<d, p, "image">> \in uploads
      /\ Enqueue(d, w)
  BY DEF UploadInv, ImageStored, Enqueue, followVars
<1>2. AppOK' /\ Grows
  BY <1>1, Growing DEF MayFail, AppOK
<1>3. Owner[p] = Account[d] /\ p \in uploaded \ InitPosts
  BY <1>1 DEF UploadsOK
<1>4. /\ w \in Records /\ w.doc = PostDoc(p) /\ w.val = TRUE /\ w.then = "uploaded"
  <2>1. PostDoc(p) \in Docs
    BY OwnerType DEF PostDoc, Docs
  <2> QED BY <2>1, UploadTapType DEF PostWrite, Records
<1> HIDE DEF w
<1>5. /\ QueuesOK' /\ Kept /\ Heard
      /\ \E i \in 1..Len(queue'[d]) : queue'[d][i] = w
  <2>1. ASSUME NEW x \in Posts
        PROVE  /\ w.doc = PostDoc(x) => w.val /\ Owner[x] = Account[d]
               /\ \A u \in Users : w.doc # FeedDoc(u, x)
    BY <1>3, <1>4, DocsApart
  <2> QED BY <1>1, <1>2, <1>4, <2>1, EnqueueGood
<1>6. DocumentsOK'
  BY <1>1, <1>2, DocumentsStay
<1>7. UploadsOK'
  BY <1>1, <1>3 DEF UploadsOK
<1>8. AskedOK'
  <2>1. Ahead(SentPosts', queue'[d], Len(queue'[d]), p)
    BY <1>4, <1>5 DEF Ahead
  <2>2. \A e \in Devices, x \in Posts :
          <<e, x, "followers">> \in uploads' =>
            <<e, x, "followers">> \in uploads \/ (e = d /\ x = p)
    BY <1>1
  <2> QED BY <1>5, <2>1, <2>2, AskedStays
<1>9. UploadHudAwaited'
  <2>1. Waits(queue'[d])
    BY <1>4, <1>5 DEF Waits
  <2>2. \A e \in Devices \ {d}, x \in Posts :
          <<e, x, "image">> \in uploads => <<e, x, "image">> \in uploads'
    BY <1>1
  <2> QED BY <1>1, <1>2, <1>5, <2>1, <2>2, HudStays DEF Heard
<1> QED BY <1>2, <1>5, <1>6, <1>7, <1>8, <1>9 DEF UploadInv

(* The feeds go behind the post. *)
LEMMA FanOutKeeps ==
  ASSUME UploadInv, Remember, NEW d \in Devices, NEW p \in Posts, FanOut(d, p)
  PROVE  UploadInv'
<1>1. /\ QueuesOK /\ DocumentsOK /\ AppOK /\ UploadsOK /\ AskedOK
      /\ UNCHANGED <<taps, blocks, uploaded, hud>>
      /\ uploads' = uploads \ {<<d, p, "followers">>}
      /\ <<d, p, "followers">> \in uploads
  BY DEF UploadInv, FanOut
<1>2. AppOK' /\ Grows
  <2>1. MayFail(d)
    BY DEF FanOut, MayFail
  <2> QED BY <1>1, <2>1, Growing DEF AppOK
<1>3. QueuesOK' /\ Kept /\ Heard /\ DocumentsOK'
  <2> DEFINE T == FollowersOf(d, Account[d])
  <2>1. CASE UNCHANGED storeVars
    BY <1>1, <1>2, <2>1, StoreSame
  <2>2. ASSUME NEW s \in SetToSeqs(T),
               EnqueueAll(d, [i \in DOMAIN s |-> FeedsWrite(d, s[i], p)]
                               \o <<FeedsWrite(d, Account[d], p)>>)
        PROVE  QueuesOK' /\ Kept /\ Heard /\ DocumentsOK'
    <3> DEFINE feeds == [i \in DOMAIN s |-> FeedsWrite(d, s[i], p)]
               own   == <<FeedsWrite(d, Account[d], p)>>
               ws    == feeds \o own
    <3>1. T \subseteq Users /\ IsFiniteSet(T)
      BY UploadAssumption, FS_Subset DEF FollowersOf, UploadAssumption
    <3> HIDE DEF T
    <3>2. PICK n \in Nat : DOMAIN s = 1..n /\ s \in [1..n -> T]
      BY <2>2, <3>1, ListFacts
    <3> DEFINE FeedsOfPost == {FeedsWrite(d, u, p) : u \in Users}
    <3>3. feeds \in Seq(FeedsOfPost) /\ own \in Seq(FeedsOfPost)
      <4>1. \A i \in 1..n : FeedsWrite(d, s[i], p) \in FeedsOfPost
        BY <3>1, <3>2
      <4>2. FeedsWrite(d, Account[d], p) \in FeedsOfPost
        BY AccountType
      <4> HIDE DEF FeedsOfPost
      <4> QED BY <3>2, <4>1, <4>2
    <3> HIDE DEF feeds, own
    <3>4. ws \in Seq(FeedsOfPost)
      <4> HIDE DEF FeedsOfPost
      <4> QED BY <3>3
    <3>5. ASSUME NEW w \in FeedsOfPost
          PROVE  /\ w \in Records
                 /\ \A x \in Posts : /\ w.doc # PostDoc(x)
                                     /\ \A u \in Users : w.doc = FeedDoc(u, x) => x = p
      <4>1. PICK u \in Users : w = FeedsWrite(d, u, p)
        OBVIOUS
      <4>2. FeedDoc(u, p) \in Docs
        BY DEF FeedDoc, Docs
      <4>3. w \in Records /\ w.doc = FeedDoc(u, p)
        BY <4>1, <4>2, UploadTapType DEF FeedsWrite, Records
      <4> QED BY <4>3, DocsApart
    <3>6. ws \in Seq(Records) /\ \A i \in 1..Len(ws) : ws[i] \in FeedsOfPost
      <4>1. FeedsOfPost \subseteq Records
        BY <3>5
      <4> HIDE DEF FeedsOfPost
      <4> QED BY <3>4, <4>1
    <3>7. EnqueueAll(d, ws) /\ UNCHANGED db
      BY <2>2 DEF EnqueueAll, feeds, own
    <3>8. Ahead(SentPosts, queue[d], Len(queue[d]), p)
      BY <1>1 DEF AskedOK
    <3> HIDE DEF ws, FeedsOfPost
    <3>9. ASSUME NEW i \in 1..Len(ws), NEW x \in Posts
          PROVE  /\ ws[i].doc # PostDoc(x)
                 /\ \A u \in Users : ws[i].doc = FeedDoc(u, x)
                      => Ahead(SentPosts, queue[d], Len(queue[d]), x)
      BY <3>5, <3>6, <3>8
    <3> QED BY <1>1, <1>2, <3>6, <3>7, <3>9, EnqueueAllGood, DocumentsStay
  <2> QED BY <2>1, <2>2 DEF FanOut
<1>4. UploadsOK'
  BY <1>1 DEF UploadsOK
<1>5. AskedOK'
  BY <1>1, <1>3, AskedStays
<1>6. UploadHudAwaited'
  <2>1. \A e \in Devices, x \in Posts :
          <<e, x, "image">> \in uploads => <<e, x, "image">> \in uploads'
    BY <1>1
  <2> QED BY <1>1, <1>2, <1>3, <2>1, HudStays DEF Heard
<1> QED BY <1>2, <1>3, <1>4, <1>5, <1>6 DEF UploadInv

LEMMA AnswerUploadedKeeps ==
  ASSUME UploadInv, Remember, NEW d \in Devices, AnswerUploaded(d)
  PROVE  UploadInv'
<1>1. /\ QueuesOK /\ DocumentsOK /\ AppOK /\ UploadsOK
      /\ UNCHANGED <<db, taps, blocks, uploads, uploaded>>
      /\ Answer(d, "uploaded") /\ Dequeue(d)
      /\ hud' = [hud EXCEPT ![d] = FALSE]
  BY DEF UploadInv, AnswerUploaded
<1>2. AppOK' /\ Grows
  <2>1. MayFail(d)
    BY <1>1 DEF Answer, MayFail
  <2> QED BY <1>1, <2>1, Growing DEF AppOK
<1>3. /\ QueuesOK' /\ Kept
      /\ \A e \in Devices \ {d} : Waits(queue[e]) => Waits(queue'[e])
  BY <1>1, <1>2, AnswerGood
<1>4. DocumentsOK'
  BY <1>1, <1>2, DocumentsStay
<1>5. UploadsOK'
  BY <1>1 DEF UploadsOK
<1>6. AskedOK'
  BY <1>1, <1>3, AskedStays
<1>7. UploadHudAwaited'
  <2>1. \A e \in Devices : hud'[e] => e # d /\ hud[e]
    BY <1>1 DEF UploadsOK
  <2> QED BY <1>1, <1>2, <1>3, <2>1, HudStays
<1> QED BY <1>2, <1>3, <1>4, <1>5, <1>6, <1>7 DEF UploadInv

LEMMA CrashUploadKeeps ==
  ASSUME UploadInv, Remember, NEW d \in Devices, CrashUpload(d)
  PROVE  UploadInv'
<1>1. /\ QueuesOK /\ DocumentsOK /\ AppOK /\ UploadsOK
      /\ UNCHANGED <<db, taps, uploaded>>
      /\ uploads' = {x \in uploads : x[1] # d}
      /\ hud' = [hud EXCEPT ![d] = FALSE]
      /\ blocks' = {b \in blocks : b.dev # d}
      /\ Fails(d, "crash") /\ LoseProcess(d)
  BY DEF UploadInv, CrashUpload, Crash, LoseProcess
<1>2. AppOK' /\ Grows
  <2>1. MayFail(d)
    BY <1>1 DEF MayFail
  <2> QED BY <1>1, <2>1, Growing DEF AppOK
<1>3. QueuesOK' /\ Kept /\ \A e \in Devices \ {d} : queue'[e] = queue[e]
  BY <1>1, <1>2, LoseGood
<1>4. DocumentsOK'
  BY <1>1, <1>2, DocumentsStay
<1>5. UploadsOK'
  BY <1>1 DEF UploadsOK
<1>6. AskedOK'
  BY <1>1, <1>3, AskedStays
<1>7. UploadHudAwaited'
  <2>1. \A e \in Devices : hud'[e] => e # d /\ hud[e]
    BY <1>1 DEF UploadsOK
  <2>2. \A e \in Devices \ {d}, x \in Posts :
          <<e, x, "image">> \in uploads => <<e, x, "image">> \in uploads'
    BY <1>1
  <2> QED BY <1>1, <1>2, <1>3, <2>1, <2>2, HudStays
<1> QED BY <1>2, <1>3, <1>4, <1>5, <1>6, <1>7 DEF UploadInv

LEMMA StepUploadInv == UploadInv /\ [UploadNext]_allVars => UploadInv'
<1> SUFFICES ASSUME UploadInv, [UploadNext]_allVars PROVE UploadInv'
  OBVIOUS
<1>1. ASSUME NEW d \in Devices, Remember,
             \/ FollowStep(d) \/ TapDone(d) \/ UploadStep(d)
             \/ AnswerUploaded(d) \/ CrashUpload(d)
      PROVE  UploadInv'
  <2>1. CASE UploadStep(d)
    BY <1>1, <2>1, ImageStoredKeeps, ImageFailsKeeps, FanOutKeeps DEF UploadStep
  <2> QED BY <1>1, <2>1, FollowStepKeeps, TapDoneKeeps, AnswerUploadedKeeps, CrashUploadKeeps
<1>2. CASE UNCHANGED allVars
  BY <1>2 DEF allVars, vars, storeVars, followVars, uploadVars, screenVars, UploadInv,
     QueuesOK, DocumentsOK, AppOK, UploadsOK, AskedOK, UploadHudAwaited, SentPosts
<1> QED BY <1>1, <1>2 DEF UploadNext

LEMMA UploadCorrect == UploadSpec => []UploadInv
BY InitUploadInv, StepUploadInv, PTL DEF UploadSpec

(* Uploads are type correct: among the writes of follows and uploads no phone
   has more applied than queued, and an upload under way is of a post of the
   phone's own user that did not exist before. *)
THEOREM UploadTypeCorrect == UploadSpec => []UploadTypeOK
BY UploadCorrect, InvType, PTL

(* No feed names a post that was not stored, whoever put it there and whatever
   the order in which the phones' streams were reopened and their processes
   ended: unless the write of the post itself was refused. *)
THEOREM FeedHasPostCorrect == UploadSpec => []FeedHasPost
BY UploadCorrect, InvFeed, PTL

(* The HUD of an upload is never left up with nothing to take it down, but for
   an image that failed to upload. *)
THEOREM UploadHudCorrect == UploadSpec => []UploadHudAwaited
<1>1. UploadInv => UploadHudAwaited
  BY DEF UploadInv
<1> QED BY <1>1, UploadCorrect, PTL

-----------------------------------------------------------------------------
(* SteadyFollowersGetPost.  The writes of one document x in the queue q of a
   phone, n of whose writes are applied. *)

Absent(q, x) == \A i \in 1..Len(q) : q[i].doc # x

Once(q, x) == \E k \in 1..Len(q) : q[k].doc = x /\ \A i \in 1..Len(q) : q[i].doc = x => i = k

(* Whatever write of x is applied, v is stored. *)
Arrived(q, n, x, stored, v) == \A i \in 1..n : q[i].doc = x => stored = v

(* No write of x comes or goes, and none is newly applied. *)
SameWrites(q, n, q2, n2, x) ==
  /\ Absent(q2, x) <=> Absent(q, x)
  /\ Once(q, x) => Once(q2, x)
  /\ \A stored, v : Arrived(q, n, x, stored, v) => Arrived(q2, n2, x, stored, v)
  /\ \A i \in 1..Len(q2) : q2[i].doc = x => \E j \in 1..Len(q) : q[j] = q2[i]

(* Writes of other documents are added. *)
LEMMA GrowSame ==
  ASSUME NEW S, NEW q \in Seq(S), NEW q2 \in Seq(S), Len(q) <= Len(q2),
         \A i \in 1..Len(q) : q2[i] = q[i], NEW x,
         \A i \in 1..Len(q2) : i > Len(q) => q2[i].doc # x,
         NEW n \in Nat, n <= Len(q), NEW m \in Nat, m <= n
  PROVE  SameWrites(q, n, q2, m, x)
<1>1. Len(q) \in Nat /\ Len(q2) \in Nat
  OBVIOUS
<1>2. \A i \in 1..Len(q2) : q2[i].doc = x => i \in 1..Len(q) /\ q2[i] = q[i]
  BY <1>1
<1>3. \A i \in 1..Len(q) : i \in 1..Len(q2)
  BY <1>1
<1>4. Absent(q2, x) <=> Absent(q, x)
  BY <1>2, <1>3 DEF Absent
<1>5. Once(q, x) => Once(q2, x)
  <2> SUFFICES ASSUME Once(q, x) PROVE Once(q2, x)
    OBVIOUS
  <2>1. PICK k \in 1..Len(q) : q[k].doc = x /\ \A i \in 1..Len(q) : q[i].doc = x => i = k
    BY DEF Once
  <2>2. k \in 1..Len(q2) /\ q2[k].doc = x
    BY <1>3, <2>1
  <2>3. \A i \in 1..Len(q2) : q2[i].doc = x => i = k
    BY <1>2, <2>1
  <2> QED BY <2>2, <2>3 DEF Once
<1>6. \A stored, v : Arrived(q, n, x, stored, v) => Arrived(q2, m, x, stored, v)
  <2>1. \A i \in 1..m : i \in 1..n /\ q2[i] = q[i]
    BY <1>1
  <2> QED BY <2>1 DEF Arrived
<1> QED BY <1>2, <1>4, <1>5, <1>6 DEF SameWrites

(* The first write of x is added. *)
LEMMA GrowOnce ==
  ASSUME NEW S, NEW q \in Seq(S), NEW q2 \in Seq(S), Len(q2) = Len(q) + 1,
         \A i \in 1..Len(q) : q2[i] = q[i], NEW x, Absent(q, x), q2[Len(q2)].doc = x
  PROVE  Once(q2, x)
<1>1. Len(q2) \in 1..Len(q2)
  OBVIOUS
<1>2. ASSUME NEW i \in 1..Len(q2), q2[i].doc = x PROVE i = Len(q2)
  <2>1. i \in 1..Len(q) => q2[i].doc # x
    BY DEF Absent
  <2> QED BY <1>2, <2>1
<1> QED BY <1>1, <1>2 DEF Once

(* The oldest write is answered, which is applied and of another document, and
   a write of another document may be added. *)
LEMMA ShrinkSame ==
  ASSUME NEW S, NEW q \in Seq(S), NEW q2 \in Seq(S), Len(q) > 0,
         Len(q2) \in {Len(q) - 1, Len(q)},
         \A i \in 1..Len(q) - 1 : q2[i] = q[i + 1], NEW x, q[1].doc # x,
         Len(q2) = Len(q) => q2[Len(q)].doc # x,
         NEW n \in Nat \ {0}, n <= Len(q)
  PROVE  SameWrites(q, n, q2, n - 1, x)
<1>1. Len(q) \in Nat /\ Len(q2) \in Nat /\ Len(q2) <= Len(q)
  OBVIOUS
<1>2. ASSUME NEW i \in 1..Len(q2), q2[i].doc = x
      PROVE  i \in 1..Len(q) - 1 /\ i + 1 \in 1..Len(q) /\ q2[i] = q[i + 1]
  <2>1. i # Len(q)
    <3>1. i = Len(q) => Len(q2) = Len(q)
      BY <1>1
    <3> QED BY <1>2, <3>1
  <2>2. i \in 1..Len(q) - 1 /\ i + 1 \in 1..Len(q)
    BY <1>1, <2>1
  <2> QED BY <2>2
<1>3. ASSUME NEW i \in 1..Len(q), q[i].doc = x
      PROVE  i - 1 \in 1..Len(q2) /\ q2[i - 1] = q[i]
  <2>1. i # 1
    BY <1>3
  <2>2. i - 1 \in 1..Len(q) - 1 /\ i - 1 \in 1..Len(q2) /\ (i - 1) + 1 = i
    BY <1>1, <2>1
  <2> QED BY <2>2
<1>4. Absent(q2, x) <=> Absent(q, x)
  BY <1>2, <1>3 DEF Absent
<1>5. Once(q, x) => Once(q2, x)
  <2> SUFFICES ASSUME Once(q, x) PROVE Once(q2, x)
    OBVIOUS
  <2>1. PICK k \in 1..Len(q) : q[k].doc = x /\ \A i \in 1..Len(q) : q[i].doc = x => i = k
    BY DEF Once
  <2>2. k - 1 \in 1..Len(q2) /\ q2[k - 1].doc = x
    BY <1>3, <2>1
  <2>3. ASSUME NEW i \in 1..Len(q2), q2[i].doc = x PROVE i = k - 1
    <3>1. i + 1 = k
      BY <1>2, <2>1, <2>3
    <3> QED BY <3>1
  <2> QED BY <2>2, <2>3 DEF Once
<1>6. \A stored, v : Arrived(q, n, x, stored, v) => Arrived(q2, n - 1, x, stored, v)
  <2>1. \A i \in 1..n - 1 : i + 1 \in 1..n /\ q2[i] = q[i + 1]
    <3>1. \A i \in 1..n - 1 : i + 1 \in 1..n /\ i \in 1..Len(q) - 1
      BY <1>1
    <3> QED BY <3>1
  <2> QED BY <2>1 DEF Arrived
<1> QED BY <1>2, <1>4, <1>5, <1>6 DEF SameWrites

(* The only write of x is answered. *)
LEMMA ShrinkOnce ==
  ASSUME NEW S, NEW q \in Seq(S), NEW q2 \in Seq(S), Len(q) > 0,
         Len(q2) \in {Len(q) - 1, Len(q)},
         \A i \in 1..Len(q) - 1 : q2[i] = q[i + 1], NEW x, q[1].doc = x, Once(q, x),
         Len(q2) = Len(q) => q2[Len(q)].doc # x
  PROVE  Absent(q2, x)
<1> SUFFICES ASSUME NEW i \in 1..Len(q2), q2[i].doc = x PROVE FALSE
  BY DEF Absent
<1>1. Len(q) \in Nat /\ Len(q2) \in Nat /\ Len(q2) <= Len(q) /\ 1 \in 1..Len(q)
  OBVIOUS
<1>2. i # Len(q)
  <2>1. i = Len(q) => Len(q2) = Len(q)
    BY <1>1
  <2> QED BY <2>1
<1>3. i \in 1..Len(q) - 1 /\ i + 1 \in 1..Len(q)
  BY <1>1, <1>2
<1>4. PICK k \in 1..Len(q) : q[k].doc = x /\ \A j \in 1..Len(q) : q[j].doc = x => j = k
  BY DEF Once
<1>5. 1 = k /\ i + 1 = k
  BY <1>1, <1>3, <1>4
<1> QED BY <1>3, <1>5

(* A write of x is answered, as all those that are applied were of v. *)
LEMMA ShrinkFed ==
  ASSUME NEW S, NEW q \in Seq(S), NEW q2 \in Seq(S), Len(q) > 0,
         Len(q2) = Len(q) - 1,
         \A i \in 1..Len(q) - 1 : q2[i] = q[i + 1], NEW x, NEW stored, NEW v,
         NEW n \in Nat \ {0}, n <= Len(q), Arrived(q, n, x, stored, v),
         \A i \in 1..Len(q) : q[i].doc = x => q[i].val = v
  PROVE  /\ Arrived(q2, n - 1, x, stored, v)
         /\ \A i \in 1..Len(q2) : q2[i].doc = x => q2[i].val = v
         /\ q[1].doc = x => stored = v
         /\ Absent(q, x) => Absent(q2, x)
<1>1. /\ \A i \in 1..n - 1 : i + 1 \in 1..n /\ i \in 1..Len(q) - 1
      /\ \A i \in 1..Len(q2) : i + 1 \in 1..Len(q) /\ i \in 1..Len(q) - 1
      /\ 1 \in 1..n
  OBVIOUS
<1> QED BY <1>1 DEF Arrived, Absent

-----------------------------------------------------------------------------
(* As long as no phone met with a fault, the writes of a phone are those of
   its user's taps on follow buttons and of its uploads. *)

FollowWrite(d, w) ==
  /\ w.tap.screen \in Screens
  /\ taps[d] >= 1
  /\ \/ w.then = "mirror" /\ w.doc = FollowingDoc(Account[d], w.tap.target) /\ w.val = w.tap.val
     \/ w.then = "done" /\ w.doc = FollowersDoc(w.tap.target, Account[d]) /\ w.val = w.tap.val
     \/ w.then = "none" /\ w.doc = NotificationDoc(w.tap.target, Account[d]) /\ w.val = TRUE
     \/ /\ w.then = "none" /\ w.val = w.tap.val
        /\ \E p \in Posts : Owner[p] = w.tap.target /\ w.doc = FeedDoc(Account[d], p)

UploadWrite(d, w) ==
  /\ w.tap.screen = "upload" /\ w.val = TRUE
  /\ \E p \in uploaded : /\ Owner[p] = Account[d]
                         /\ \/ w.then = "uploaded" /\ w.doc = PostDoc(p)
                            \/ w.then = "none" /\ \E u \in Users : w.doc = FeedDoc(u, p)

WritesOK ==
  /\ \A d \in Devices : \A i \in 1..Len(queue[d]) :
       FollowWrite(d, queue[d][i]) \/ UploadWrite(d, queue[d][i])
  /\ \A b \in blocks : b.tap.screen \in Screens /\ taps[b.dev] >= 1

(* A post whose upload was begun is stored, or will be. *)
PostsOK ==
  /\ wasPost \subseteq uploaded
  /\ \A p \in wasPost : db[PostDoc(p)] = TRUE
  /\ \A x, y \in uploads : x[2] = y[2] => x = y
  /\ \A p \in uploaded \ wasPost :
       \/ \E d \in Devices : <<d, p, "image">> \in uploads
       \/ \E d \in Devices : ~Absent(queue[d], PostDoc(p))

(* Who can be followed from a row has sent a notification. *)
RowsOK ==
  /\ rows \in [Devices -> [Users -> Row]]
  /\ \A d \in Devices, t \in Users :
       rows[d][t].listed /\ t # Account[d] => db[NotificationDoc(Account[d], t)] = TRUE

UnderWay ==
  /\ db \in [Docs -> BOOLEAN]
  /\ WritesOK
  /\ PostsOK
  /\ RowsOK

(* The followers of the owner of p have been asked for. *)
Fanned(p) == p \in uploaded /\ \A x \in uploads : x[2] # p

NoWrites(x) == \A d \in Devices : Absent(queue[d], x)

(* What is stored in x, or will be as soon as all is applied, is v. *)
Fed(x, v) ==
  /\ \A d \in Devices :
       /\ \A i \in 1..Len(queue[d]) : queue[d][i].doc = x => queue[d][i].val = v
       /\ Arrived(queue[d], applied[d], x, db[x], v)
  /\ db[x] = v \/ \E d \in Devices : ~Absent(queue[d], x)

(* The work of the phones of u on following t. *)
BlockOf(b, u, t) == Account[b.dev] = u /\ b.kind # "notify" /\ b.tap.target = t

Block(e, kind, k) == [dev |-> e, kind |-> kind, tap |-> k]

(* Nothing of a tap of u on the owner of p is left to do but, maybe, to apply
   the writes of the post in the feed of u. *)
RestingOn(u, p, t, f, m, x) ==
  /\ \A b \in blocks : ~BlockOf(b, u, t)
  /\ NoWrites(f) /\ NoWrites(m)
  /\ db[f] = db[m]
  /\ IF Fanned(p) THEN Fed(x, db[f]) ELSE db[x] = FALSE /\ NoWrites(x)

(* The tap k of u on the owner of p, made on phone e, is being carried out. *)
BusyWith(e, k, t, f, m, x) ==
  /\ k.target = t /\ k.screen = "profile"
  /\ \A b \in blocks : b.dev = e /\ b.kind # "notify" /\ b.tap.target = t => b.tap = k
  /\ \A i \in 1..Len(queue[e]) : queue[e][i].doc \in {f, m} => queue[e][i].tap = k
  /\ NoWrites(x)

(* The block of the tap waits; its first write is queued; the second; the
   block that updates the feed waits. *)
Stage1(p, e, k, f, m, x) ==
  /\ Block(e, "follow", k) \in blocks /\ Block(e, "feed", k) \notin blocks
  /\ Absent(queue[e], f) /\ Absent(queue[e], m) /\ db[f] = db[m]
  /\ db[x] = (Fanned(p) /\ db[f])

Stage2(e, k, f, m) ==
  /\ Block(e, "follow", k) \notin blocks /\ Block(e, "feed", k) \notin blocks
  /\ Once(queue[e], f) /\ Absent(queue[e], m)
  /\ Arrived(queue[e], applied[e], f, db[f], k.val)

Stage3(e, k, f, m) ==
  /\ Block(e, "follow", k) \notin blocks /\ Block(e, "feed", k) \notin blocks
  /\ Absent(queue[e], f) /\ Once(queue[e], m)
  /\ db[f] = k.val /\ Arrived(queue[e], applied[e], m, db[m], k.val)

Stage4(e, k, f, m) ==
  /\ Block(e, "follow", k) \notin blocks /\ Block(e, "feed", k) \in blocks
  /\ Absent(queue[e], f) /\ Absent(queue[e], m)
  /\ db[f] = k.val /\ db[m] = k.val

BusyOn(p, e, k, t, f, m, x) ==
  /\ BusyWith(e, k, t, f, m, x)
  /\ \/ Stage1(p, e, k, f, m, x) \/ Stage2(e, k, f, m)
     \/ Stage3(e, k, f, m) \/ Stage4(e, k, f, m)

Resting(u, p) ==
  RestingOn(u, p, Owner[p], FollowingDoc(u, Owner[p]), FollowersDoc(Owner[p], u), FeedDoc(u, p))

Busy(u, p, e, k) ==
  /\ Account[e] = u
  /\ BusyOn(p, e, k, Owner[p], FollowingDoc(u, Owner[p]), FollowersDoc(Owner[p], u), FeedDoc(u, p))

Steady(u, p) == Resting(u, p) \/ \E e \in Devices, k \in UploadTaps : Busy(u, p, e, k)

Covered(u, p) == u # Owner[p] /\ OneTap(u, Owner[p]) /\ <<u, p>> \notin overlap

OverlapOK ==
  \A u \in Users, p \in Posts :
    Uploading(p) /\ Following(u, Owner[p]) => <<u, p>> \in overlap

SteadyInv ==
  /\ OverlapOK
  /\ Quiet => /\ UnderWay
              /\ \A u \in Users, p \in Posts : Covered(u, p) => Steady(u, p)

-----------------------------------------------------------------------------
(* A step that does not touch the document y. *)

Untouched(y) ==
  /\ db'[y] = db[y]
  /\ \A e \in Devices : SameWrites(queue[e], applied[e], queue'[e], applied'[e], y)

SameBlocks(u, t) == \A b \in TapBlocks : BlockOf(b, u, t) => (b \in blocks' <=> b \in blocks)

LEMMA NoWritesStay ==
  ASSUME NEW y, Untouched(y)
  PROVE  NoWrites(y)' <=> NoWrites(y)
BY DEF Untouched, NoWrites, SameWrites

LEMMA FedStays ==
  ASSUME NEW x, NEW v, NEW v2, v2 = v, Untouched(x), Fed(x, v)
  PROVE  Fed(x, v2)'
<1>1. ASSUME NEW e \in Devices
      PROVE  /\ \A i \in 1..Len(queue'[e]) : queue'[e][i].doc = x => queue'[e][i].val = v
             /\ Arrived(queue'[e], applied'[e], x, db'[x], v)
             /\ ~Absent(queue[e], x) => ~Absent(queue'[e], x)
  <2>1. /\ SameWrites(queue[e], applied[e], queue'[e], applied'[e], x)
        /\ db'[x] = db[x]
    BY DEF Untouched
  <2>2. ASSUME NEW i \in 1..Len(queue'[e]), queue'[e][i].doc = x PROVE queue'[e][i].val = v
    <3>1. PICK j \in 1..Len(queue[e]) : queue[e][j] = queue'[e][i]
      BY <2>1, <2>2 DEF SameWrites
    <3> QED BY <2>2, <3>1 DEF Fed
  <2>3. Arrived(queue'[e], applied'[e], x, db'[x], v)
    BY <2>1 DEF SameWrites, Fed
  <2> QED BY <2>1, <2>2, <2>3 DEF SameWrites
<1>2. db'[x] = v \/ \E d \in Devices : ~Absent(queue'[d], x)
  BY <1>1 DEF Untouched, Fed
<1> QED BY <1>1, <1>2 DEF Fed

LEMMA RestingStays ==
  ASSUME NEW u, NEW p, NEW t, NEW f, NEW m, NEW x, blocks' \subseteq TapBlocks,
         Untouched(f), Untouched(m), Untouched(x), SameBlocks(u, t),
         Fanned(p)' <=> Fanned(p), RestingOn(u, p, t, f, m, x)
  PROVE  RestingOn(u, p, t, f, m, x)'
<1>1. \A b \in blocks' : ~BlockOf(b, u, t)
  BY DEF SameBlocks, RestingOn
<1>2. NoWrites(f)' /\ NoWrites(m)' /\ (NoWrites(x)' <=> NoWrites(x))
  BY NoWritesStay DEF RestingOn
<1>3. db'[f] = db[f] /\ db'[m] = db[m] /\ db'[x] = db[x]
  BY DEF Untouched
<1>4. ASSUME Fed(x, db[f]) PROVE Fed(x, db[f])'
  BY <1>3, <1>4, FedStays
<1> QED BY <1>1, <1>2, <1>3, <1>4 DEF RestingOn, BlockOf

LEMMA BusyStays ==
  ASSUME NEW u, NEW p, NEW t, NEW f, NEW m, NEW x, blocks' \subseteq TapBlocks,
         NEW e \in Devices, NEW k \in UploadTaps, Account[e] = u,
         Untouched(f), Untouched(m), Untouched(x), SameBlocks(u, t),
         Fanned(p)' <=> Fanned(p), BusyOn(p, e, k, t, f, m, x)
  PROVE  BusyOn(p, e, k, t, f, m, x)'
<1>1. /\ k.target = t /\ k.screen = "profile" /\ NoWrites(x)
      /\ \A b \in blocks : b.dev = e /\ b.kind # "notify" /\ b.tap.target = t => b.tap = k
      /\ \A i \in 1..Len(queue[e]) : queue[e][i].doc \in {f, m} => queue[e][i].tap = k
  BY DEF BusyOn, BusyWith
<1>2. ASSUME NEW b \in blocks', b.dev = e, b.kind # "notify", b.tap.target = t
      PROVE  b.tap = k
  <2>1. b \in TapBlocks /\ BlockOf(b, u, t)
    BY <1>2 DEF BlockOf
  <2>2. b \in blocks
    BY <1>2, <2>1 DEF SameBlocks
  <2> QED BY <1>1, <1>2, <2>2
<1>3. \A i \in 1..Len(queue'[e]) : queue'[e][i].doc \in {f, m} => queue'[e][i].tap = k
  <2>1. ASSUME NEW y, y \in {f, m}, NEW i \in 1..Len(queue'[e]), queue'[e][i].doc = y
        PROVE  queue'[e][i].tap = k
    <3>1. PICK j \in 1..Len(queue[e]) : queue[e][j] = queue'[e][i]
      BY <2>1 DEF Untouched, SameWrites
    <3> QED BY <1>1, <2>1, <3>1
  <2> QED BY <2>1
<1>4. NoWrites(x)'
  BY <1>1, NoWritesStay
<1>5. ASSUME NEW kind \in {"follow", "feed"}
      PROVE  Block(e, kind, k) \in blocks' <=> Block(e, kind, k) \in blocks
  <2>1. Block(e, kind, k) \in TapBlocks /\ BlockOf(Block(e, kind, k), u, t)
    BY <1>1 DEF Block, TapBlocks, BlockOf
  <2> QED BY <2>1 DEF SameBlocks
<1>6. db'[f] = db[f] /\ db'[m] = db[m] /\ db'[x] = db[x]
  BY DEF Untouched
<1>7. ASSUME NEW y \in {f, m}
      PROVE  /\ Absent(queue[e], y) => Absent(queue'[e], y)
             /\ Once(queue[e], y) => Once(queue'[e], y)
             /\ \A v : Arrived(queue[e], applied[e], y, db[y], v)
                         => Arrived(queue'[e], applied'[e], y, db[y], v)
  BY <1>7 DEF Untouched, SameWrites
<1>8. BusyWith(e, k, t, f, m, x)'
  BY <1>1, <1>2, <1>3, <1>4 DEF BusyWith
<1>9. Block(e, "follow", k)' = Block(e, "follow", k) /\ Block(e, "feed", k)' = Block(e, "feed", k)
  BY DEF Block
<1>10. CASE Stage1(p, e, k, f, m, x)
  BY <1>5, <1>6, <1>7, <1>8, <1>9, <1>10 DEF BusyOn, Stage1
<1>11. CASE Stage2(e, k, f, m)
  BY <1>5, <1>6, <1>7, <1>8, <1>9, <1>11 DEF BusyOn, Stage2
<1>12. CASE Stage3(e, k, f, m)
  BY <1>5, <1>6, <1>7, <1>8, <1>9, <1>12 DEF BusyOn, Stage3
<1>13. CASE Stage4(e, k, f, m)
  BY <1>5, <1>6, <1>7, <1>8, <1>9, <1>13 DEF BusyOn, Stage4
<1> QED BY <1>10, <1>11, <1>12, <1>13 DEF BusyOn

(* A step that touches none of the documents of u, the owner of p and p. *)
LEMMA SteadyStays ==
  ASSUME NEW u, NEW p, blocks' \subseteq TapBlocks,
         Untouched(FollowingDoc(u, Owner[p])), Untouched(FollowersDoc(Owner[p], u)),
         Untouched(FeedDoc(u, p)), SameBlocks(u, Owner[p]), Fanned(p)' <=> Fanned(p),
         Steady(u, p)
  PROVE  Steady(u, p)'
<1> DEFINE t == Owner[p]
           f == FollowingDoc(u, t)
           m == FollowersDoc(t, u)
           x == FeedDoc(u, p)
<1>1. ASSUME RestingOn(u, p, t, f, m, x) PROVE RestingOn(u, p, t, f, m, x)'
  BY <1>1, RestingStays
<1>2. ASSUME NEW e \in Devices, NEW k \in UploadTaps, Account[e] = u,
             BusyOn(p, e, k, t, f, m, x)
      PROVE  BusyOn(p, e, k, t, f, m, x)'
  BY <1>2, BusyStays
<1>3. ASSUME Resting(u, p) PROVE Resting(u, p)'
  BY <1>1, <1>3 DEF Resting
<1>4. ASSUME NEW e \in Devices, NEW k \in UploadTaps, Busy(u, p, e, k) PROVE Busy(u, p, e, k)'
  BY <1>2, <1>4 DEF Busy
<1> QED BY <1>3, <1>4 DEF Steady

-----------------------------------------------------------------------------
(* What each change of a queue leaves alone. *)

LEMMA PhoneFacts ==
  ASSUME QueuesOK, NEW e \in Devices
  PROVE  /\ queue[e] \in Seq(Records) /\ Len(queue[e]) \in Nat
         /\ applied[e] \in Nat /\ applied[e] <= Len(queue[e])
BY DEF QueuesOK, GoodQueue

LEMMA SameSame ==
  ASSUME QueuesOK, NEW e \in Devices, queue'[e] = queue[e], applied'[e] = applied[e], NEW y
  PROVE  SameWrites(queue[e], applied[e], queue'[e], applied'[e], y)
BY DEF SameWrites

LEMMA UntouchedSame ==
  ASSUME QueuesOK, UNCHANGED storeVars, NEW y
  PROVE  Untouched(y)
BY SameSame DEF Untouched, storeVars

(* Writes are put at the end of a queue. *)
LEMMA EnqueueFacts ==
  ASSUME QueuesOK, NEW d \in Devices, NEW ws \in Seq(Records), EnqueueAll(d, ws)
  PROVE  /\ queue'[d] \in Seq(Records) /\ Len(queue'[d]) = Len(queue[d]) + Len(ws)
         /\ Len(ws) \in Nat
         /\ \A i \in 1..Len(queue[d]) : queue'[d][i] = queue[d][i]
         /\ \A i \in 1..Len(ws) : queue'[d][Len(queue[d]) + i] = ws[i]
         /\ \A i \in 1..Len(queue'[d]) : i > Len(queue[d]) =>
              i - Len(queue[d]) \in 1..Len(ws) /\ queue'[d][i] = ws[i - Len(queue[d])]
         /\ \A e \in Devices \ {d} : queue'[e] = queue[e]
         /\ applied' = applied /\ db' = db
<1>1. /\ queue[d] \in Seq(Records) /\ Len(queue[d]) \in Nat /\ Len(ws) \in Nat
      /\ queue'[d] = queue[d] \o ws
      /\ \A e \in Devices \ {d} : queue'[e] = queue[e]
      /\ applied' = applied /\ db' = db
  BY PhoneFacts DEF QueuesOK, EnqueueAll
<1> DEFINE q == queue[d]
           r == queue'[d]
<1>2. /\ r \in Seq(Records) /\ Len(r) = Len(q) + Len(ws)
      /\ \A i \in 1..Len(q) : r[i] = q[i]
      /\ \A i \in 1..Len(ws) : r[Len(q) + i] = ws[i]
  BY <1>1
<1>3. ASSUME NEW i \in 1..Len(r), i > Len(q)
      PROVE  i - Len(q) \in 1..Len(ws) /\ r[i] = ws[i - Len(q)]
  <2>1. i - Len(q) \in 1..Len(ws) /\ Len(q) + (i - Len(q)) = i
    BY <1>1, <1>2, <1>3
  <2> QED BY <1>2, <2>1
<1> QED BY <1>1, <1>2, <1>3

LEMMA UntouchedEnqueue ==
  ASSUME QueuesOK, NEW d \in Devices, NEW ws \in Seq(Records), EnqueueAll(d, ws), NEW y,
         \A i \in 1..Len(ws) : ws[i].doc # y
  PROVE  Untouched(y)
<1>1. ASSUME NEW e \in Devices
      PROVE  SameWrites(queue[e], applied[e], queue'[e], applied'[e], y)
  <2>1. CASE e = d
    <3> DEFINE q == queue[d]
               r == queue'[d]
               n == applied[d]
    <3>1. /\ q \in Seq(Records) /\ r \in Seq(Records)
          /\ Len(q) \in Nat /\ Len(ws) \in Nat /\ Len(r) = Len(q) + Len(ws)
          /\ \A i \in 1..Len(q) : r[i] = q[i]
          /\ \A i \in 1..Len(r) : i > Len(q) =>
               i - Len(q) \in 1..Len(ws) /\ r[i] = ws[i - Len(q)]
          /\ n \in Nat /\ n <= Len(q) /\ applied' = applied
      BY PhoneFacts, EnqueueFacts
    <3> HIDE DEF q, r, n
    <3>2. SameWrites(q, n, r, n, y)
      <4>1. n <= n /\ Len(q) <= Len(r)
        BY <3>1
      <4>2. \A i \in 1..Len(r) : i > Len(q) => r[i].doc # y
        BY <3>1
      <4> QED BY <3>1, <4>1, <4>2, GrowSame
    <3> QED BY <2>1, <3>1, <3>2 DEF q, r, n
  <2>2. CASE e # d
    BY <2>2, EnqueueFacts, SameSame
  <2> QED BY <2>1, <2>2
<1>2. db'[y] = db[y]
  BY EnqueueFacts
<1> QED BY <1>1, <1>2 DEF Untouched

(* The backend applies a write of another document. *)
LEMMA CommitFacts ==
  ASSUME QueuesOK, DocumentsOK, NEW d \in Devices, Commit(d)
  PROVE  /\ applied[d] + 1 \in 1..Len(queue[d])
         /\ queue[d][applied[d] + 1] \in Records
         /\ queue' = queue /\ applied'[d] = applied[d] + 1
         /\ \A e \in Devices \ {d} : applied'[e] = applied[e]
         /\ DOMAIN db' = Docs
         /\ \A y \in Docs : db'[y] = IF y = queue[d][applied[d] + 1].doc
                                     THEN queue[d][applied[d] + 1].val ELSE db[y]
<1>1. /\ applied[d] + 1 \in 1..Len(queue[d]) /\ queue[d] \in Seq(Records)
      /\ applied \in [Devices -> Nat]
  BY PhoneFacts DEF Commit, QueuesOK
<1>2. /\ queue' = queue /\ applied'[d] = applied[d] + 1
      /\ \A e \in Devices \ {d} : applied'[e] = applied[e]
      /\ db' = [db EXCEPT ![queue[d][applied[d] + 1].doc] = queue[d][applied[d] + 1].val]
  BY <1>1 DEF Commit
<1>3. DOMAIN db = Docs
  BY DEF DocumentsOK
<1> QED BY <1>1, <1>2, <1>3

LEMMA UntouchedCommit ==
  ASSUME QueuesOK, DocumentsOK, NEW d \in Devices, Commit(d), NEW y \in Docs,
         queue[d][applied[d] + 1].doc # y
  PROVE  Untouched(y)
<1>1. ASSUME NEW e \in Devices
      PROVE  SameWrites(queue[e], applied[e], queue'[e], applied'[e], y)
  <2>1. CASE e = d
    <3>1. /\ queue'[e] = queue[e] /\ applied'[e] = applied[e] + 1
          /\ \A i \in 1..(applied[e] + 1) : i \in 1..applied[e] \/ i = applied[e] + 1
      BY <2>1, CommitFacts, PhoneFacts
    <3> QED BY <2>1, <3>1 DEF SameWrites, Arrived
  <2>2. CASE e # d
    BY <2>2, CommitFacts, SameSame
  <2> QED BY <2>1, <2>2
<1>2. db'[y] = db[y]
  BY CommitFacts
<1> QED BY <1>1, <1>2 DEF Untouched

LEMMA UntouchedReopen ==
  ASSUME QueuesOK, NEW d \in Devices, Reopen(d), NEW y
  PROVE  Untouched(y)
<1>1. /\ queue' = queue /\ db' = db /\ applied'[d] = 0
      /\ \A e \in Devices \ {d} : applied'[e] = applied[e]
  BY DEF Reopen, QueuesOK
<1>2. ASSUME NEW e \in Devices
      PROVE  SameWrites(queue[e], applied[e], queue'[e], applied'[e], y)
  <2>1. CASE e = d
    BY <1>1, <2>1 DEF SameWrites, Arrived
  <2>2. CASE e # d
    BY <1>1, <2>2, SameSame
  <2> QED BY <2>1, <2>2
<1> QED BY <1>1, <1>2 DEF Untouched

(* The oldest write is answered, and one may be put at the end. *)
Answers(d, ws) ==
  /\ Answered(d)
  /\ queue' = [queue EXCEPT ![d] = Tail(@) \o ws]
  /\ UNCHANGED db

LEMMA AnswersFacts ==
  ASSUME QueuesOK, NEW d \in Devices, NEW ws \in Seq(Records), Len(ws) \in {0, 1},
         Answers(d, ws)
  PROVE  /\ Len(queue[d]) > 0 /\ queue[d][1] \in Records /\ Oldest(d) = queue[d][1]
         /\ applied[d] \in Nat \ {0} /\ applied'[d] = applied[d] - 1
         /\ queue'[d] \in Seq(Records) /\ Len(queue'[d]) = Len(queue[d]) - 1 + Len(ws)
         /\ \A i \in 1..Len(queue[d]) - 1 : queue'[d][i] = queue[d][i + 1]
         /\ Len(ws) = 1 => queue'[d][Len(queue[d])] = ws[1]
         /\ \A e \in Devices \ {d} : queue'[e] = queue[e] /\ applied'[e] = applied[e]
         /\ db' = db
<1> DEFINE q == queue[d]
           r == Tail(q)
<1>1. /\ queue \in [Devices -> Seq(Records)] /\ applied \in [Devices -> Nat]
      /\ q \in Seq(Records) /\ q # <<>> /\ applied[d] > 0
      /\ applied' = [applied EXCEPT ![d] = @ - 1]
      /\ queue'[d] = r \o ws /\ db' = db
      /\ \A e \in Devices \ {d} : queue'[e] = queue[e]
  BY DEF QueuesOK, Answers, Answered
<1>2. /\ r \in Seq(Records) /\ Len(r) = Len(q) - 1 /\ Len(q) \in Nat \ {0}
      /\ \A i \in 1..Len(r) : r[i] = q[i + 1]
  BY <1>1, TailFacts
<1>3. q[1] \in Records /\ Oldest(d) = q[1]
  <2>1. 1 \in 1..Len(q)
    BY <1>2
  <2> QED BY <1>1, <2>1 DEF Oldest
<1>4. /\ applied[d] \in Nat \ {0} /\ applied'[d] = applied[d] - 1
      /\ \A e \in Devices \ {d} : applied'[e] = applied[e]
  BY <1>1
<1> HIDE DEF q, r
<1>5. /\ r \o ws \in Seq(Records) /\ Len(r \o ws) = Len(r) + Len(ws)
      /\ \A i \in 1..Len(r) : (r \o ws)[i] = r[i]
      /\ \A i \in 1..Len(ws) : (r \o ws)[Len(r) + i] = ws[i]
  <2>1. r \in Seq(Records)
    BY <1>2
  <2> QED BY <2>1
<1>6. Len(ws) = 1 => 1 \in 1..Len(ws) /\ Len(r) + 1 = Len(q)
  BY <1>2
<1> QED BY <1>1, <1>2, <1>3, <1>4, <1>5, <1>6 DEF q

LEMMA UntouchedAnswers ==
  ASSUME QueuesOK, NEW d \in Devices, NEW ws \in Seq(Records), Len(ws) \in {0, 1},
         Answers(d, ws), NEW y, queue[d][1].doc # y, Len(ws) = 1 => ws[1].doc # y
  PROVE  Untouched(y)
<1>1. ASSUME NEW e \in Devices
      PROVE  SameWrites(queue[e], applied[e], queue'[e], applied'[e], y)
  <2>1. CASE e = d
    <3> DEFINE q == queue[d]
               r == queue'[d]
               n == applied[d]
    <3>1. /\ q \in Seq(Records) /\ r \in Seq(Records) /\ Len(q) > 0 /\ Len(q) \in Nat
          /\ Len(r) = Len(q) - 1 + Len(ws)
          /\ \A i \in 1..Len(q) - 1 : r[i] = q[i + 1]
          /\ Len(ws) = 1 => r[Len(q)] = ws[1]
          /\ q[1].doc # y
          /\ n \in Nat \ {0} /\ n <= Len(q) /\ applied'[d] = n - 1
      BY PhoneFacts, AnswersFacts
    <3> HIDE DEF q, r, n
    <3>2. /\ Len(r) \in {Len(q) - 1, Len(q)}
          /\ Len(r) = Len(q) => Len(ws) = 1
      <4> DEFINE j == Len(ws)
      <4>1. j \in {0, 1} /\ Len(q) \in Nat /\ Len(r) = Len(q) - 1 + j
        BY <3>1
      <4> HIDE DEF j
      <4>2. /\ Len(r) \in {Len(q) - 1, Len(q)}
            /\ Len(r) = Len(q) => j = 1
        BY <4>1
      <4> QED BY <4>2 DEF j
    <3>3. SameWrites(q, n, r, n - 1, y)
      BY <3>1, <3>2, ShrinkSame
    <3>4. SameWrites(queue[e], applied[e], queue'[e], applied[e] - 1, y)
      BY <2>1, <3>3 DEF q, r, n
    <3>5. applied'[e] = applied[e] - 1
      BY <2>1, <3>1 DEF n
    <3> QED BY <3>4, <3>5
  <2>2. CASE e # d
    <3>1. queue'[e] = queue[e] /\ applied'[e] = applied[e]
      BY <2>2, AnswersFacts
    <3> QED BY <3>1, SameSame
  <2> QED BY <2>1, <2>2
<1>2. db'[y] = db[y]
  BY AnswersFacts
<1> QED BY <1>1, <1>2 DEF Untouched

-----------------------------------------------------------------------------
(* The steps in which nothing fails, as far as the documents, the blocks and
   the uploads are concerned. *)

FirstWrite(b) == [doc |-> FollowingDoc(Account[b.dev], b.tap.target), val |-> b.tap.val,
                  then |-> "mirror", tap |-> b.tap]

NotifyWrite(b) == [doc |-> NotificationDoc(b.tap.target, Account[b.dev]), val |-> TRUE,
                   then |-> "none", tap |-> b.tap]

SecondWrite(d, w) == [w EXCEPT !.doc = FollowersDoc(w.tap.target, Account[d]), !.then = "done"]

Looks == UNCHANGED <<storeVars, taps, blocks, uploads, uploaded>>

Taken(d, k) ==
  /\ k.screen \in Screens
  /\ \/ k.screen = "profile" /\ k.target # Account[d]
     \/ k.screen = "row" /\ rows[d][k.target].listed
  /\ taps' = [taps EXCEPT ![d] = @ + 1]
  /\ blocks' = blocks \cup {Block(d, "follow", k)}
  /\ UNCHANGED <<storeVars, uploads, uploaded>>

RunsBlock(d, b, ws) ==
  /\ b.dev = d
  /\ \/ b.kind = "follow" /\ ws = <<FirstWrite(b)>>
     \/ b.kind = "notify" /\ ws = <<NotifyWrite(b)>>
     \/ /\ b.kind = "feed"
        /\ \A i \in 1..Len(ws) : \E p \in PostsOf(d, b.tap.target) : ws[i] = FeedWrite(d, b.tap, p)
        /\ \A p \in PostsOf(d, b.tap.target) :
             \E i \in 1..Len(ws) : ws[i] = FeedWrite(d, b.tap, p)
  /\ EnqueueAll(d, ws)
  /\ blocks' = blocks \ {b}
  /\ UNCHANGED <<taps, uploads, uploaded>>

Mirrors(d, w) ==
  /\ w.then = "mirror"
  /\ Answers(d, <<SecondWrite(d, w)>>)
  /\ UNCHANGED <<taps, blocks, uploads, uploaded>>

ProfileAnswers(d, w) ==
  /\ w.then = "done" /\ w.tap.screen = "profile"
  /\ Answers(d, <<>>)
  /\ blocks' = blocks \cup [dev : {d}, tap : {w.tap},
                            kind : IF w.tap.val THEN {"notify", "feed"} ELSE {"feed"}]
  /\ UNCHANGED <<taps, uploads, uploaded>>

OnlyAnswers(d, w) ==
  /\ w.then \in {"none", "uploaded"} \/ (w.then = "done" /\ w.tap.screen = "row")
  /\ Answers(d, <<>>)
  /\ UNCHANGED <<taps, blocks, uploads, uploaded>>

Applies(d) == Commit(d) /\ UNCHANGED <<taps, blocks, uploads, uploaded>>

Reopens(d) == Reopen(d) /\ UNCHANGED <<taps, blocks, uploads, uploaded>>

Begins(d, p) ==
  /\ p \notin uploaded /\ Owner[p] = Account[d]
  /\ uploads' = uploads \cup {<<d, p, "image">>}
  /\ uploaded' = uploaded \cup {p}
  /\ UNCHANGED <<storeVars, taps, blocks>>

Stores(d, p) ==
  /\ <<d, p, "image">> \in uploads
  /\ uploads' = (uploads \ {<<d, p, "image">>}) \cup {<<d, p, "followers">>}
  /\ EnqueueAll(d, <<PostWrite(d, p)>>)
  /\ UNCHANGED <<taps, blocks, uploaded>>

FansOut(d, p, ws) ==
  /\ <<d, p, "followers">> \in uploads
  /\ uploads' = uploads \ {<<d, p, "followers">>}
  /\ \A i \in 1..Len(ws) : \E u \in FollowersOf(d, Account[d]) \cup {Account[d]} :
       ws[i] = FeedsWrite(d, u, p)
  /\ \A u \in FollowersOf(d, Account[d]) \cup {Account[d]} :
       \E i \in 1..Len(ws) : ws[i] = FeedsWrite(d, u, p)
  /\ EnqueueAll(d, ws)
  /\ UNCHANGED <<taps, blocks, uploaded>>

(* The writes a step of phone d puts at the end of its queue. *)
Batches == Seq(Records)

Calm(d) ==
  \/ Looks
  \/ \E k \in UploadTaps : Taken(d, k)
  \/ \E b \in blocks, ws \in Batches : RunsBlock(d, b, ws)
  \/ Mirrors(d, Oldest(d)) \/ ProfileAnswers(d, Oldest(d)) \/ OnlyAnswers(d, Oldest(d))
  \/ Applies(d) \/ Reopens(d)
  \/ \E p \in Posts : \/ Begins(d, p) \/ Stores(d, p)
                      \/ \E ws \in Batches : FansOut(d, p, ws)

(* A list of a finite set has all its elements. *)
LEMMA ListAll ==
  ASSUME NEW T, IsFiniteSet(T), NEW s \in SetToSeqs(T)
  PROVE  \E n \in Nat : /\ DOMAIN s = 1..n /\ s \in [1..n -> T]
                        /\ \A u \in T : \E i \in 1..n : s[i] = u
<1> DEFINE n == Cardinality(T)
<1>1. n \in Nat
  BY FS_CardinalityType
<1>2. s \in [1..n -> T] /\ \A i, j \in 1..n : i # j => s[i] # s[j]
  BY DEF SetToSeqs
<1>3. s \in Injection(1..n, T)
  <2>1. IsInjective(s)
    BY <1>2 DEF IsInjective
  <2> QED BY <1>2, <2>1 DEF Injection
<1>4. Cardinality(1..n) = n
  BY <1>1, FS_Interval
<1>5. s \in Surjection(1..n, T)
  BY <1>3, <1>4, FS_Injection
<1>6. \A u \in T : \E i \in 1..n : s[i] = u
  BY <1>5 DEF Surjection
<1> QED BY <1>1, <1>2, <1>6

LEMMA Unfailing ==
  ASSUME AppOK, NEW d \in Devices, Quiet', NEW fault, Fails(d, fault)
  PROVE  FALSE
<1>1. fault \in {"crash", "reject", "readfail"}
  BY PhoneAssumption DEF Fails, PhoneAssumption
<1>2. failed'[d] = fault
  BY DEF Fails, AppOK
<1> QED BY <1>1, <1>2 DEF Quiet

LEMMA EnqueueOne ==
  ASSUME QueuesOK, NEW d \in Devices, NEW w, Enqueue(d, w)
  PROVE  EnqueueAll(d, <<w>>)
<1>1. queue[d] \in Seq(Records)
  BY PhoneFacts
<1>2. Append(queue[d], w) = queue[d] \o <<w>>
  BY <1>1
<1> QED BY <1>2 DEF Enqueue, EnqueueAll

LEMMA AnswerCalm ==
  ASSUME QueuesOK, AppOK, NEW d \in Devices, Quiet', NEW then, Answer(d, then), UNCHANGED db
  PROVE  /\ Oldest(d).then = then
         /\ Dequeue(d) => Answers(d, <<>>)
         /\ \A w : DequeueThenEnqueue(d, w) => Answers(d, <<w>>)
<1>1. Answered(d) /\ Oldest(d).then = then
  BY Unfailing DEF Answer
<1>2. queue[d] \in Seq(Records) /\ queue[d] # <<>>
  BY <1>1, PhoneFacts DEF Answered
<1>3. Tail(queue[d]) \in Seq(Records)
  BY <1>2, TailFacts
<1>4. /\ Tail(queue[d]) \o <<>> = Tail(queue[d])
      /\ \A w : Append(Tail(queue[d]), w) = Tail(queue[d]) \o <<w>>
  BY <1>3
<1> QED BY <1>1, <1>4 DEF Answers, Dequeue, DequeueThenEnqueue

LEMMA CalmUser ==
  ASSUME UploadInv, Quiet', NEW d \in Devices, UserStep(d) \/ ReadStep(d),
         UNCHANGED screenVars
  PROVE  Calm(d)
<1>1. AppOK /\ uploads' = uploads /\ uploaded' = uploaded
  BY DEF UploadInv, screenVars
<1>2. ASSUME NEW t \in Users, OpenProfile(d, t) \/ ProfileCheckResult(d, t) \/ RowCheckResult(d, t)
      PROVE  Looks
  BY <1>1, <1>2 DEF OpenProfile, ProfileCheckResult, RowCheckResult, Looks
<1>3. ASSUME NEW t \in Users, TapProfile(d, t) \/ TapRow(d, t)
      PROVE  \E k \in UploadTaps : Taken(d, k)
  <2>0. PICK screen \in Screens :
          /\ \E isFollowed : Tap(d, t, screen, isFollowed)
          /\ \/ screen = "profile" /\ t # Account[d]
             \/ screen = "row" /\ rows[d][t].listed
    BY <1>3 DEF TapProfile, TapRow, Screens
  <2>1. PICK isFollowed : Tap(d, t, screen, isFollowed)
    BY <2>0
  <2>2. taps[d] + 1 \in Nat /\ (~isFollowed) \in BOOLEAN
    BY <1>1 DEF AppOK
  <2>3. PICK k \in UploadTaps :
          k = [n |-> taps[d] + 1, screen |-> screen, target |-> t, val |-> ~isFollowed]
    BY <2>2 DEF UploadTaps
  <2>4. k.screen = screen /\ k.target = t
    BY <2>3
  <2>5. taps' = [taps EXCEPT ![d] = @ + 1] /\ blocks' = blocks \cup {Block(d, "follow", k)}
    BY <2>1, <2>3 DEF Tap, Block
  <2>6. UNCHANGED storeVars
    BY <1>3 DEF TapProfile, TapRow
  <2>7. Taken(d, k)
    BY <1>1, <2>0, <2>4, <2>5, <2>6 DEF Taken
  <2> QED BY <2>7
<1>4. ASSUME Refresh(d) \/ NotificationsArrive(d) PROVE Looks
  BY <1>1, <1>4 DEF Refresh, NotificationsArrive, Looks
<1>5. ASSUME NEW c, c[1] = d, CheckFails(c) PROVE Looks
  BY <1>1, <1>5 DEF CheckFails, Looks
<1> QED BY <1>2, <1>3, <1>4, <1>5 DEF UserStep, ReadStep, Calm

LEMMA CalmBlock ==
  ASSUME UploadInv, Quiet', NEW d \in Devices, BlockStep(d), UNCHANGED screenVars
  PROVE  Calm(d)
<1>1. /\ QueuesOK /\ AppOK /\ uploads' = uploads /\ uploaded' = uploaded
  BY DEF UploadInv, screenVars
<1>2. PICK b \in blocks : b.dev = d /\ (RunFollowBlock(b) \/ RunNotifyBlock(b) \/ RunFeedBlock(b))
  BY DEF BlockStep
<1>3. /\ b.tap \in UploadTaps /\ b.tap.target \in Users /\ b.tap.val \in BOOLEAN
      /\ Account[d] \in Users
  BY <1>1, AccountType DEF AppOK, TapBlocks, UploadTaps
<1>4. blocks' = blocks \ {b} /\ taps' = taps
  BY <1>2 DEF RunFollowBlock, RunNotifyBlock, RunFeedBlock
<1>5. CASE RunFollowBlock(b)
  <2>1. FirstWrite(b) \in Records
    BY <1>2, <1>3, FollowDocsType DEF FirstWrite, Records
  <2>2. <<FirstWrite(b)>> \in Batches
    BY <2>1 DEF Batches
  <2>3. b.kind = "follow" /\ Enqueue(d, FirstWrite(b))
    BY <1>2, <1>5 DEF RunFollowBlock, FirstWrite
  <2>4. RunsBlock(d, b, <<FirstWrite(b)>>)
    BY <1>1, <1>2, <1>4, <2>3, EnqueueOne DEF RunsBlock
  <2> QED BY <2>2, <2>4 DEF Calm
<1>6. CASE RunNotifyBlock(b)
  <2>1. NotifyWrite(b) \in Records
    BY <1>2, <1>3, FollowDocsType DEF NotifyWrite, Records
  <2>2. <<NotifyWrite(b)>> \in Batches
    BY <2>1 DEF Batches
  <2>3. b.kind = "notify" /\ Enqueue(d, NotifyWrite(b))
    BY <1>2, <1>6 DEF RunNotifyBlock, NotifyWrite
  <2>4. RunsBlock(d, b, <<NotifyWrite(b)>>)
    BY <1>1, <1>2, <1>4, <2>3, EnqueueOne DEF RunsBlock
  <2> QED BY <2>2, <2>4 DEF Calm
<1>7. CASE RunFeedBlock(b)
  <2> DEFINE T == PostsOf(d, b.tap.target)
  <2>1. PICK s \in SetToSeqs(T) :
          EnqueueAll(d, [i \in DOMAIN s |-> FeedWrite(d, b.tap, s[i])])
    BY <1>1, <1>2, <1>7, Unfailing DEF RunFeedBlock
  <2>2. T \subseteq Posts /\ IsFiniteSet(T)
    BY FollowAssumption, FS_Subset DEF FollowAssumption, PostsOf
  <2> HIDE DEF T
  <2>3. PICK n \in Nat : /\ DOMAIN s = 1..n /\ s \in [1..n -> T]
                         /\ \A p \in T : \E i \in 1..n : s[i] = p
    BY <2>2, ListAll
  <2>4. \A p \in T : FeedWrite(d, b.tap, p) \in Records
    <3>1. \A p \in T : FeedDoc(Account[d], p) \in Docs
      BY <1>3, <2>2 DEF FeedDoc, Docs
    <3> QED BY <1>3, <3>1 DEF FeedWrite, Records
  <2>5. PICK ws \in Batches : ws = [i \in DOMAIN s |-> FeedWrite(d, b.tap, s[i])]
    <3>1. [i \in 1..n |-> FeedWrite(d, b.tap, s[i])] \in Seq(Records)
      BY <2>3, <2>4
    <3> QED BY <2>3, <3>1 DEF Batches
  <2>6. Len(ws) = n /\ \A i \in 1..n : ws[i] = FeedWrite(d, b.tap, s[i])
    BY <2>3, <2>5
  <2>7. /\ \A i \in 1..Len(ws) : \E p \in T : ws[i] = FeedWrite(d, b.tap, p)
        /\ \A p \in T : \E i \in 1..Len(ws) : ws[i] = FeedWrite(d, b.tap, p)
    <3>1. \A i \in 1..n : s[i] \in T
      BY <2>3
    <3> QED BY <2>3, <2>6, <3>1
  <2>8. b.kind = "feed"
    BY <1>7 DEF RunFeedBlock
  <2>9. RunsBlock(d, b, ws)
    BY <1>1, <1>2, <1>4, <2>1, <2>5, <2>7, <2>8 DEF RunsBlock, T
  <2> QED BY <2>9 DEF Calm
<1> QED BY <1>2, <1>5, <1>6, <1>7

LEMMA CalmAnswer ==
  ASSUME UploadInv, Quiet', NEW d \in Devices,
         (AnswerAny(d) /\ UNCHANGED screenVars) \/ AnswerUploaded(d)
  PROVE  Calm(d)
<1>1. /\ QueuesOK /\ AppOK /\ uploads' = uploads /\ uploaded' = uploaded
      /\ taps' = taps /\ db' = db
  BY DEF UploadInv, screenVars, AnswerAny, AnswerMirror, AnswerProfile, AnswerRow,
     AnswerSilent, AnswerUploaded
<1>2. CASE AnswerMirror(d)
  <2>1. /\ Answer(d, "mirror") /\ blocks' = blocks
        /\ DequeueThenEnqueue(d, SecondWrite(d, Oldest(d)))
    BY <1>2 DEF AnswerMirror, SecondWrite
  <2>2. Mirrors(d, Oldest(d))
    BY <1>1, <2>1, AnswerCalm DEF Mirrors
  <2> QED BY <2>2 DEF Calm
<1>3. CASE AnswerProfile(d)
  <2>1. /\ Answer(d, "done") /\ Dequeue(d) /\ Oldest(d).tap.screen = "profile"
        /\ blocks' = blocks \cup [dev : {d}, tap : {Oldest(d).tap},
                             kind : IF Oldest(d).tap.val THEN {"notify", "feed"} ELSE {"feed"}]
    BY <1>3 DEF AnswerProfile
  <2>2. ProfileAnswers(d, Oldest(d))
    BY <1>1, <2>1, AnswerCalm DEF ProfileAnswers
  <2> QED BY <2>2 DEF Calm
<1>4. CASE AnswerRow(d) \/ AnswerSilent(d) \/ AnswerUploaded(d)
  <2>1. /\ \/ Answer(d, "none") \/ Answer(d, "uploaded")
           \/ Answer(d, "done") /\ Oldest(d).tap.screen = "row"
        /\ Dequeue(d) /\ blocks' = blocks
    BY <1>4 DEF AnswerRow, AnswerSilent, AnswerUploaded
  <2>2. OnlyAnswers(d, Oldest(d))
    BY <1>1, <2>1, AnswerCalm DEF OnlyAnswers
  <2> QED BY <2>2 DEF Calm
<1> QED BY <1>2, <1>3, <1>4 DEF AnswerAny

LEMMA CalmUpload ==
  ASSUME UploadInv, Quiet', NEW d \in Devices, TapDone(d) \/ UploadStep(d)
  PROVE  Calm(d)
<1>1. QueuesOK /\ AppOK /\ UploadsOK
  BY DEF UploadInv
<1>2. CASE TapDone(d)
  <2>1. PICK p \in Posts : Begins(d, p)
    BY <1>2 DEF TapDone, Begins, vars, followVars
  <2> QED BY <2>1 DEF Calm
<1>3. ASSUME NEW p \in Posts, ImageStored(d, p) PROVE Calm(d)
  <2>1. Enqueue(d, PostWrite(d, p))
    BY <1>3 DEF ImageStored
  <2>2. Stores(d, p)
    BY <1>1, <1>3, <2>1, EnqueueOne DEF ImageStored, followVars, Stores
  <2> QED BY <2>2 DEF Calm
<1>4. ASSUME NEW p \in Posts, ImageFails(d, p) PROVE Calm(d)
  BY <1>1, <1>4, Unfailing DEF ImageFails
<1>5. ASSUME NEW p \in Posts, FanOut(d, p) PROVE Calm(d)
  <2> DEFINE T == FollowersOf(d, Account[d])
             own == <<FeedsWrite(d, Account[d], p)>>
  <2>1. PICK s \in SetToSeqs(T) :
          EnqueueAll(d, [i \in DOMAIN s |-> FeedsWrite(d, s[i], p)]
                          \o <<FeedsWrite(d, Account[d], p)>>)
    BY <1>1, <1>5, Unfailing DEF FanOut
  <2>2. T \subseteq Users /\ IsFiniteSet(T) /\ Account[d] \in Users
    BY AccountType, UploadAssumption, FS_Subset DEF FollowersOf, UploadAssumption
  <2> HIDE DEF T
  <2>3. PICK n \in Nat : /\ DOMAIN s = 1..n /\ s \in [1..n -> T]
                         /\ \A u \in T : \E i \in 1..n : s[i] = u
    <3>1. IsFiniteSet(T) /\ s \in SetToSeqs(T)
      BY <2>1, <2>2
    <3> QED BY <3>1, ListAll
  <2>4. \A u \in Users : FeedsWrite(d, u, p) \in Records
    <3>1. \A u \in Users : FeedDoc(u, p) \in Docs
      BY DEF FeedDoc, Docs
    <3> QED BY <3>1, UploadTapType DEF FeedsWrite, Records
  <2>5. PICK fs \in Seq(Records) : fs = [i \in DOMAIN s |-> FeedsWrite(d, s[i], p)]
    <3>1. \A i \in 1..n : FeedsWrite(d, s[i], p) \in Records
      BY <2>2, <2>3, <2>4
    <3>2. [i \in 1..n |-> FeedsWrite(d, s[i], p)] \in Seq(Records)
      BY <3>1
    <3> QED BY <2>3, <3>2
  <2>6. Len(fs) = n /\ \A i \in 1..n : fs[i] = FeedsWrite(d, s[i], p)
    BY <2>3, <2>5
  <2>7. own \in Seq(Records) /\ Len(own) = 1 /\ own[1] = FeedsWrite(d, Account[d], p)
    BY <2>2, <2>4
  <2>8. EnqueueAll(d, fs \o own)
    BY <2>1, <2>5
  <2> HIDE DEF own
  <2>9. PICK ws \in Batches : ws = fs \o own
    BY <2>7, ConcatFacts DEF Batches
  <2>10. /\ Len(ws) = n + 1
         /\ \A i \in 1..n : ws[i] = FeedsWrite(d, s[i], p)
         /\ ws[n + 1] = FeedsWrite(d, Account[d], p)
    <3>1. 1 \in 1..Len(own)
      BY <2>7
    <3>2. /\ Len(ws) = Len(fs) + Len(own)
          /\ \A i \in 1..Len(fs) : ws[i] = fs[i]
          /\ \A i \in 1..Len(own) : ws[Len(fs) + i] = own[i]
      <4>1. /\ Len(fs \o own) = Len(fs) + Len(own)
            /\ \A i \in 1..Len(fs) : (fs \o own)[i] = fs[i]
            /\ \A i \in 1..Len(own) : (fs \o own)[Len(fs) + i] = own[i]
        <5>1. fs \in Seq(Records) /\ own \in Seq(Records)
          BY <2>7
        <5> QED BY <5>1
      <4> QED BY <2>9, <4>1
    <3> QED BY <2>6, <2>7, <3>1, <3>2
  <2>11. ASSUME NEW i \in 1..Len(ws)
         PROVE  \E u \in T \cup {Account[d]} : ws[i] = FeedsWrite(d, u, p)
    <3>1. i \in 1..n \/ i = n + 1
      BY <2>10
    <3>2. i \in 1..n => s[i] \in T
      BY <2>3
    <3> QED BY <2>10, <3>1, <3>2
  <2>12. ASSUME NEW u \in T \cup {Account[d]}
         PROVE  \E i \in 1..Len(ws) : ws[i] = FeedsWrite(d, u, p)
    <3>1. n + 1 \in 1..Len(ws) /\ \A i \in 1..n : i \in 1..Len(ws)
      BY <2>10
    <3> QED BY <2>3, <2>10, <3>1
  <2>13. /\ <<d, p, "followers">> \in uploads
         /\ uploads' = uploads \ {<<d, p, "followers">>}
         /\ UNCHANGED <<taps, blocks, uploaded>>
    BY <1>5 DEF FanOut
  <2>14. FansOut(d, p, ws)
    BY <2>8, <2>9, <2>11, <2>12, <2>13 DEF FansOut, T
  <2> QED BY <2>14 DEF Calm
<1> QED BY <1>2, <1>3, <1>4, <1>5 DEF UploadStep

LEMMA CalmStep ==
  ASSUME UploadInv, Quiet', [UploadNext]_allVars
  PROVE  \/ UNCHANGED allVars
         \/ Remember /\ \E d \in Devices : Calm(d)
<1>1. ASSUME NEW d \in Devices, FollowStep(d) PROVE Calm(d)
  <2>1. CASE Apply(d)
    BY <1>1, <2>1 DEF FollowStep, screenVars, Apply, Applies, Calm
  <2>2. CASE Resend(d)
    BY <1>1, <2>2 DEF FollowStep, screenVars, Resend, followVars, Reopens, Calm
  <2> QED BY <1>1, <2>1, <2>2, CalmUser, CalmBlock, CalmAnswer DEF FollowStep
<1>2. ASSUME NEW d \in Devices, CrashUpload(d) PROVE FALSE
  BY <1>2, Unfailing DEF CrashUpload, Crash, UploadInv
<1> QED BY <1>1, <1>2, CalmAnswer, CalmUpload DEF UploadNext

-----------------------------------------------------------------------------
(* What a queued write tells by its document. *)

LEMMA Names ==
  ASSUME NEW u, NEW t, NEW p, NEW v, NEW s, NEW q
  PROVE  /\ FollowingDoc(u, t) = FollowingDoc(v, s) => u = v /\ t = s
         /\ FollowersDoc(t, u) = FollowersDoc(s, v) => u = v /\ t = s
         /\ NotificationDoc(t, u) = NotificationDoc(s, v) => u = v /\ t = s
         /\ FeedDoc(u, p) = FeedDoc(v, q) => u = v /\ p = q
         /\ PostDoc(p) = PostDoc(q) => p = q
         /\ FollowingDoc(u, t) # FollowersDoc(s, v)
         /\ FollowingDoc(u, t) # NotificationDoc(s, v)
         /\ FollowingDoc(u, t) # FeedDoc(v, q)
         /\ FollowingDoc(u, t) # PostDoc(q)
         /\ FollowersDoc(t, u) # NotificationDoc(s, v)
         /\ FollowersDoc(t, u) # FeedDoc(v, q)
         /\ FollowersDoc(t, u) # PostDoc(q)
         /\ NotificationDoc(t, u) # FeedDoc(v, q)
         /\ NotificationDoc(t, u) # PostDoc(q)
         /\ FeedDoc(u, p) # PostDoc(q)
<1>1. /\ FollowingDoc(u, t)[1] = "following" /\ FollowersDoc(t, u)[1] = "followers"
      /\ NotificationDoc(t, u)[1] = "user-notifications"
      /\ FeedDoc(u, p)[1] = "user-feed" /\ FeedDoc(v, q)[1] = "user-feed"
      /\ FollowersDoc(s, v)[1] = "followers"
      /\ NotificationDoc(s, v)[1] = "user-notifications" /\ PostDoc(q)[1] = "posts"
  BY DEF FollowingDoc, FollowersDoc, NotificationDoc, FeedDoc, PostDoc
<1>2. /\ FollowingDoc(u, t) = FollowingDoc(v, s) => u = v /\ t = s
      /\ FollowersDoc(t, u) = FollowersDoc(s, v) => u = v /\ t = s
      /\ NotificationDoc(t, u) = NotificationDoc(s, v) => u = v /\ t = s
      /\ FeedDoc(u, p) = FeedDoc(v, q) => u = v /\ p = q
      /\ PostDoc(p) = PostDoc(q) => p = q
  BY DEF FollowingDoc, FollowersDoc, NotificationDoc, FeedDoc, PostDoc
<1>3. /\ "following" # "followers" /\ "following" # "user-notifications"
      /\ "following" # "user-feed" /\ "following" # "posts"
      /\ "followers" # "user-notifications" /\ "followers" # "user-feed"
      /\ "followers" # "posts" /\ "user-notifications" # "user-feed"
      /\ "user-notifications" # "posts" /\ "user-feed" # "posts"
  OBVIOUS
<1> QED BY <1>1, <1>2, <1>3

LEMMA FollowWriteDoc ==
  ASSUME NEW d, NEW w, FollowWrite(d, w), NEW u, NEW t
  PROVE  /\ w.doc = FollowingDoc(u, t) =>
              w.then = "mirror" /\ Account[d] = u /\ w.tap.target = t /\ w.val = w.tap.val
         /\ w.doc = FollowersDoc(t, u) =>
              w.then = "done" /\ Account[d] = u /\ w.tap.target = t /\ w.val = w.tap.val
         /\ w.doc = NotificationDoc(t, u) =>
              w.then = "none" /\ Account[d] = u /\ w.tap.target = t /\ w.val = TRUE
<1>1. ASSUME NEW q \in Posts, w.then = "none", w.val = w.tap.val,
             Owner[q] = w.tap.target, w.doc = FeedDoc(Account[d], q)
      PROVE  /\ w.doc # FollowingDoc(u, t) /\ w.doc # FollowersDoc(t, u)
             /\ w.doc # NotificationDoc(t, u)
  BY <1>1, Names
<1> QED BY <1>1, Names DEF FollowWrite

LEMMA FollowWriteFeed ==
  ASSUME NEW d, NEW w, FollowWrite(d, w), NEW u, NEW p
  PROVE  /\ w.doc = FeedDoc(u, p) =>
              w.then = "none" /\ Account[d] = u /\ w.tap.target = Owner[p] /\ w.val = w.tap.val
         /\ w.doc # PostDoc(p)
<1>1. ASSUME NEW q \in Posts, w.then = "none", w.val = w.tap.val,
             Owner[q] = w.tap.target, w.doc = FeedDoc(Account[d], q)
      PROVE  /\ w.doc = FeedDoc(u, p) => Account[d] = u /\ w.tap.target = Owner[p]
             /\ w.doc # PostDoc(p)
  BY <1>1, Names
<1> QED BY <1>1, Names DEF FollowWrite

LEMMA UploadWriteDoc ==
  ASSUME NEW d, NEW w, UploadWrite(d, w), NEW u, NEW t
  PROVE  /\ w.val = TRUE /\ w.tap.screen = "upload"
         /\ w.doc # FollowingDoc(u, t) /\ w.doc # FollowersDoc(t, u)
         /\ w.doc # NotificationDoc(t, u)
<1>1. PICK q \in uploaded : w.doc = PostDoc(q) \/ \E v \in Users : w.doc = FeedDoc(v, q)
  BY DEF UploadWrite
<1> QED BY <1>1, Names DEF UploadWrite

LEMMA UploadWriteFeed ==
  ASSUME NEW d, NEW w, UploadWrite(d, w), NEW u, NEW p
  PROVE  /\ w.doc = FeedDoc(u, p) =>
              w.then = "none" /\ Owner[p] = Account[d] /\ p \in uploaded /\ w.doc[3] = p
         /\ w.doc = PostDoc(p) =>
              w.then = "uploaded" /\ Owner[p] = Account[d] /\ p \in uploaded /\ w.doc[3] = p
<1>1. PICK q \in uploaded :
        /\ Owner[q] = Account[d]
        /\ \/ w.then = "uploaded" /\ w.doc = PostDoc(q)
           \/ w.then = "none" /\ \E v \in Users : w.doc = FeedDoc(v, q)
  BY DEF UploadWrite
<1>2. FeedDoc(u, p)[3] = p /\ PostDoc(p)[3] = p
  BY DEF FeedDoc, PostDoc
<1> QED BY <1>1, <1>2, Names

LEMMA QueuedWrite ==
  ASSUME QueuesOK, WritesOK, NEW d \in Devices, NEW i \in 1..Len(queue[d]), NEW w, w = queue[d][i]
  PROVE  (FollowWrite(d, w) \/ UploadWrite(d, w)) /\ w \in Records
<1>1. queue[d] \in Seq(Records)
  BY PhoneFacts
<1>2. w \in Records
  BY <1>1
<1>3. FollowWrite(d, w) \/ UploadWrite(d, w)
  BY DEF WritesOK
<1> QED BY <1>2, <1>3

-----------------------------------------------------------------------------
(* The documents of a step in which nothing fails. *)

LEMMA CalmDb ==
  ASSUME NEW d \in Devices, Calm(d)
  PROVE  UNCHANGED db \/ Applies(d)
BY DEF Calm, Looks, Taken, RunsBlock, Mirrors, ProfileAnswers, OnlyAnswers, Reopens,
   Begins, Stores, FansOut, EnqueueAll, Answers, Reopen, storeVars

LEMMA CalmDbType ==
  ASSUME UploadInv, UnderWay, NEW d \in Devices, Calm(d)
  PROVE  db' \in [Docs -> BOOLEAN]
<1>1. QueuesOK /\ DocumentsOK /\ db \in [Docs -> BOOLEAN]
  BY DEF UploadInv, UnderWay
<1>2. CASE Commit(d)
  <2>1. /\ db' = [db EXCEPT ![queue[d][applied[d] + 1].doc] = queue[d][applied[d] + 1].val]
        /\ queue[d][applied[d] + 1] \in Records
    BY <1>1, <1>2, CommitFacts DEF Commit
  <2>2. queue[d][applied[d] + 1].val \in BOOLEAN
    BY <2>1 DEF Records
  <2> QED BY <1>1, <2>1, <2>2
<1> QED BY <1>1, <1>2, CalmDb DEF Applies

(* Notifications stay. *)
LEMMA NotesStay ==
  ASSUME UploadInv, UnderWay, NEW d \in Devices, Calm(d), NEW u \in Users, NEW t \in Users,
         db[NotificationDoc(t, u)] = TRUE
  PROVE  db'[NotificationDoc(t, u)] = TRUE
<1>1. QueuesOK /\ DocumentsOK /\ WritesOK
  BY DEF UploadInv, UnderWay
<1>2. CASE Commit(d)
  <2>1. PICK w : w = queue[d][applied[d] + 1]
    OBVIOUS
  <2>2. /\ applied[d] + 1 \in 1..Len(queue[d])
        /\ \A y \in Docs : db'[y] = IF y = w.doc THEN w.val ELSE db[y]
    BY <1>1, <1>2, <2>1, CommitFacts
  <2>3. FollowWrite(d, w) \/ UploadWrite(d, w)
    BY <1>1, <2>1, <2>2, QueuedWrite
  <2>4. w.doc = NotificationDoc(t, u) => w.val = TRUE
    BY <2>3, FollowWriteDoc, UploadWriteDoc
  <2> QED BY <2>2, <2>4, FollowDocsType
<1> QED BY <1>2, CalmDb DEF Applies

-----------------------------------------------------------------------------
(* WritesOK. *)

GoodWrite(d, w) == FollowWrite(d, w) \/ UploadWrite(d, w)

LEMMA GoodWriteStays ==
  ASSUME NEW d \in Devices, taps'[d] >= taps[d], taps[d] \in Nat, taps'[d] \in Nat,
         uploaded \subseteq uploaded', NEW w, GoodWrite(d, w)
  PROVE  GoodWrite(d, w)'
<1>1. taps[d] >= 1 => taps'[d] >= 1
  OBVIOUS
<1> QED BY <1>1 DEF GoodWrite, FollowWrite, UploadWrite

Onward ==
  /\ \A e \in Devices : taps[e] \in Nat /\ taps'[e] \in Nat /\ taps'[e] >= taps[e]
  /\ uploaded \subseteq uploaded'

LEMMA CalmOnward ==
  ASSUME UploadInv, NEW d \in Devices, Calm(d)
  PROVE  Onward
<1>1. taps \in [Devices -> Nat]
  BY DEF UploadInv, AppOK
<1>2. \/ taps' = taps
      \/ taps' = [taps EXCEPT ![d] = @ + 1]
  BY DEF Calm, Looks, Taken, RunsBlock, Mirrors, ProfileAnswers, OnlyAnswers, Reopens,
     Begins, Stores, FansOut, Applies
<1>3. uploaded \subseteq uploaded'
  BY DEF Calm, Looks, Taken, RunsBlock, Mirrors, ProfileAnswers, OnlyAnswers, Reopens,
     Begins, Stores, FansOut, Applies
<1>4. \A e \in Devices : taps[e] \in Nat /\ taps'[e] \in Nat /\ taps'[e] >= taps[e]
  BY <1>1, <1>2
<1> QED BY <1>3, <1>4 DEF Onward

LEMMA WritesStay ==
  ASSUME WritesOK, Onward, blocks \subseteq TapBlocks,
         \A e \in Devices : \A i \in 1..Len(queue'[e]) : \A w : w = queue'[e][i] =>
           (\E j \in 1..Len(queue[e]) : w = queue[e][j]) \/ GoodWrite(e, w)',
         \A b \in blocks' : b \in blocks \/ (b.tap.screen \in Screens /\ taps'[b.dev] >= 1)
  PROVE  WritesOK'
<1>1. ASSUME NEW e \in Devices, NEW i \in 1..Len(queue'[e]), NEW w, w = queue'[e][i]
      PROVE  GoodWrite(e, w)'
  <2>1. ASSUME NEW j \in 1..Len(queue[e]), w = queue[e][j] PROVE GoodWrite(e, w)'
    <3>1. GoodWrite(e, w)
      BY <2>1 DEF WritesOK, GoodWrite
    <3> QED BY <3>1, GoodWriteStays DEF Onward
  <2> QED BY <1>1, <2>1
<1>2. ASSUME NEW e \in Devices, NEW i \in 1..Len(queue'[e])
      PROVE  FollowWrite(e, queue[e][i])' \/ UploadWrite(e, queue[e][i])'
  <2>1. PICK w : w = queue'[e][i]
    OBVIOUS
  <2>2. GoodWrite(e, w)'
    BY <1>1, <2>1
  <2> QED BY <2>1, <2>2 DEF GoodWrite, FollowWrite, UploadWrite
<1>3. ASSUME NEW b \in blocks' PROVE b.tap.screen \in Screens /\ taps'[b.dev] >= 1
  <2>1. CASE b \in blocks
    <3>1. b.dev \in Devices /\ b.tap.screen \in Screens /\ taps[b.dev] >= 1
      BY <2>1 DEF WritesOK, TapBlocks
    <3>2. taps[b.dev] \in Nat /\ taps'[b.dev] \in Nat /\ taps'[b.dev] >= taps[b.dev]
      BY <3>1 DEF Onward
    <3> QED BY <3>1, <3>2
  <2> QED BY <1>3, <2>1
<1> QED BY <1>2, <1>3 DEF WritesOK

(* What a step puts in the queues. *)
LEMMA NewWrites ==
  ASSUME UploadInv, UnderWay, NEW d \in Devices, NEW ws \in Batches,
         EnqueueAll(d, ws) \/ (Answers(d, ws) /\ Len(ws) \in {0, 1}),
         NEW e \in Devices, NEW i \in 1..Len(queue'[e]), NEW w, w = queue'[e][i]
  PROVE  \/ \E j \in 1..Len(queue[e]) : w = queue[e][j]
         \/ e = d /\ \E j \in 1..Len(ws) : w = ws[j]
<1>1. QueuesOK /\ ws \in Seq(Records)
  BY DEF UploadInv, Batches
<1>2. CASE EnqueueAll(d, ws)
  <2>1. CASE e = d
    <3>1. CASE i \in 1..Len(queue[d])
      BY <1>1, <1>2, <2>1, <3>1, EnqueueFacts
    <3>2. CASE i \notin 1..Len(queue[d])
      <4>1. i > Len(queue[d])
        BY <1>1, <2>1, <3>2, PhoneFacts
      <4>2. /\ i - Len(queue[d]) \in 1..Len(ws)
            /\ queue'[d][i] = ws[i - Len(queue[d])]
        BY <1>1, <1>2, <2>1, <4>1, EnqueueFacts
      <4> QED BY <2>1, <4>2
    <3> QED BY <3>1, <3>2
  <2>2. CASE e # d
    BY <1>1, <1>2, <2>2, EnqueueFacts
  <2> QED BY <2>1, <2>2
<1>3. CASE Answers(d, ws) /\ Len(ws) \in {0, 1}
  <2>0. /\ Len(queue'[d]) = Len(queue[d]) - 1 + Len(ws) /\ Len(queue[d]) \in Nat
        /\ Len(ws) \in {0, 1}
        /\ \A n \in 1..Len(queue[d]) - 1 : queue'[d][n] = queue[d][n + 1]
        /\ Len(ws) = 1 => queue'[d][Len(queue[d])] = ws[1]
        /\ \A n \in Devices \ {d} : queue'[n] = queue[n]
    BY <1>1, <1>3, AnswersFacts, PhoneFacts
  <2>1. CASE e = d
    <3>1. CASE i \in 1..Len(queue[d]) - 1
      <4>1. i + 1 \in 1..Len(queue[d])
        BY <2>0, <3>1
      <4>2. queue'[d][i] = queue[d][i + 1]
        BY <2>0, <3>1
      <4>3. w = queue[e][i + 1] /\ i + 1 \in 1..Len(queue[e])
        BY <2>1, <4>1, <4>2
      <4> QED BY <4>3
    <3>2. CASE i \notin 1..Len(queue[d]) - 1
      <4> DEFINE n == Len(ws)
                 c == Len(queue[d])
                 c2 == Len(queue'[d])
      <4>1. n \in {0, 1} /\ c \in Nat /\ c2 = c - 1 + n /\ i \in 1..c2 /\ i \notin 1..c - 1
        BY <2>0, <2>1, <3>2
      <4> HIDE DEF n, c, c2
      <4>2. n = 1 /\ i = c
        BY <4>1
      <4>3. w = ws[1] /\ 1 \in 1..Len(ws)
        BY <2>0, <2>1, <4>2 DEF n, c
      <4> QED BY <2>1, <4>3
    <3> QED BY <3>1, <3>2
  <2>2. CASE e # d
    BY <2>0, <2>2
  <2> QED BY <2>1, <2>2
<1> QED BY <1>2, <1>3

LEMMA BlockWrites ==
  ASSUME UploadInv, UnderWay, NEW d \in Devices, NEW b \in blocks, NEW ws, RunsBlock(d, b, ws),
         NEW j \in 1..Len(ws), NEW w, w = ws[j]
  PROVE  FollowWrite(d, w)
<1>1. b.tap.screen \in Screens /\ taps[d] >= 1 /\ b.dev = d
  BY DEF UnderWay, WritesOK, RunsBlock
<1>2. CASE ws = <<FirstWrite(b)>>
  <2>1. w = FirstWrite(b)
    BY <1>2
  <2> QED BY <1>1, <2>1 DEF FirstWrite, FollowWrite
<1>3. CASE ws = <<NotifyWrite(b)>>
  <2>1. w = NotifyWrite(b)
    BY <1>3
  <2> QED BY <1>1, <2>1 DEF NotifyWrite, FollowWrite
<1>4. ASSUME NEW p \in PostsOf(d, b.tap.target), w = FeedWrite(d, b.tap, p)
      PROVE  FollowWrite(d, w)
  <2>1. p \in Posts /\ Owner[p] = b.tap.target
    BY DEF PostsOf
  <2> QED BY <1>1, <1>4, <2>1 DEF FeedWrite, FollowWrite
<1> QED BY <1>2, <1>3, <1>4 DEF RunsBlock

LEMMA OldestFacts ==
  ASSUME UploadInv, UnderWay, NEW d \in Devices, Answered(d)
  PROVE  /\ 1 \in 1..Len(queue[d]) /\ Oldest(d) = queue[d][1] /\ Oldest(d) \in Records
         /\ FollowWrite(d, Oldest(d)) \/ UploadWrite(d, Oldest(d))
         /\ Oldest(d).then \in {"mirror", "done"} => FollowWrite(d, Oldest(d))
<1>1. QueuesOK /\ WritesOK
  BY DEF UploadInv, UnderWay
<1>2. queue[d] \in Seq(Records) /\ queue[d] # <<>>
  BY <1>1, PhoneFacts DEF Answered
<1>3. 1 \in 1..Len(queue[d]) /\ Oldest(d) = queue[d][1]
  BY <1>2 DEF Oldest
<1>4. (FollowWrite(d, Oldest(d)) \/ UploadWrite(d, Oldest(d))) /\ Oldest(d) \in Records
  BY <1>1, <1>3, QueuedWrite
<1>5. UploadWrite(d, Oldest(d)) => Oldest(d).then \notin {"mirror", "done"}
  BY DEF UploadWrite
<1> QED BY <1>3, <1>4, <1>5

LEMMA MirrorWrite ==
  ASSUME UploadInv, UnderWay, NEW d \in Devices, NEW w, w = Oldest(d), Mirrors(d, w)
  PROVE  /\ FollowWrite(d, w) /\ w \in Records
         /\ w.doc = FollowingDoc(Account[d], w.tap.target) /\ w.val = w.tap.val
         /\ FollowWrite(d, SecondWrite(d, w)) /\ SecondWrite(d, w) \in Records
         /\ SecondWrite(d, w).doc = FollowersDoc(w.tap.target, Account[d])
         /\ SecondWrite(d, w).tap = w.tap
<1>1. Answered(d) /\ w.then = "mirror"
  BY DEF Mirrors, Answers
<1>2. FollowWrite(d, w) /\ w \in Records
  BY <1>1, OldestFacts
<1>3. w.doc = FollowingDoc(Account[d], w.tap.target) /\ w.val = w.tap.val
  BY <1>1, <1>2 DEF FollowWrite
<1>4. FollowersDoc(w.tap.target, Account[d]) \in Docs
  BY <1>2, AccountType, FollowDocsType DEF Records, UploadTaps
<1>5. /\ SecondWrite(d, w) \in Records
      /\ SecondWrite(d, w).doc = FollowersDoc(w.tap.target, Account[d])
      /\ SecondWrite(d, w).val = w.val /\ SecondWrite(d, w).then = "done"
      /\ SecondWrite(d, w).tap = w.tap
  BY <1>2, <1>4 DEF SecondWrite, Records
<1>6. FollowWrite(d, SecondWrite(d, w))
  BY <1>2, <1>3, <1>5 DEF FollowWrite
<1> QED BY <1>2, <1>3, <1>5, <1>6

(* The blocks and the queues of a step. *)
LEMMA CalmWrites ==
  ASSUME UploadInv, UnderWay, NEW d \in Devices, Calm(d)
  PROVE  WritesOK'
<1>1. QueuesOK /\ AppOK /\ UploadsOK /\ WritesOK /\ blocks \subseteq TapBlocks
  BY DEF UploadInv, UnderWay, AppOK
<1>2. Onward
  BY CalmOnward
<1>3. ASSUME NEW w, FollowWrite(d, w) \/ UploadWrite(d, w) PROVE GoodWrite(d, w)'
  <2>1. GoodWrite(d, w)
    BY <1>3 DEF GoodWrite
  <2> QED BY <1>2, <2>1, GoodWriteStays DEF Onward
<1>4. ASSUME queue' = queue,
             \A b \in blocks' : b \in blocks \/ (b.tap.screen \in Screens /\ taps'[b.dev] >= 1)
      PROVE  WritesOK'
  <2>1. \A e \in Devices : \A i \in 1..Len(queue'[e]) : \A w : w = queue'[e][i] =>
          \E j \in 1..Len(queue[e]) : w = queue[e][j]
    BY <1>4
  <2> QED BY <1>1, <1>2, <1>4, <2>1, WritesStay
<1>5. ASSUME NEW ws \in Batches,
             EnqueueAll(d, ws) \/ (Answers(d, ws) /\ Len(ws) \in {0, 1}),
             \A j \in 1..Len(ws) : \A w : w = ws[j] => FollowWrite(d, w) \/ UploadWrite(d, w),
             \A b \in blocks' : b \in blocks \/ (b.tap.screen \in Screens /\ taps'[b.dev] >= 1)
      PROVE  WritesOK'
  <2>1. ASSUME NEW e \in Devices, NEW i \in 1..Len(queue'[e]), NEW w, w = queue'[e][i]
        PROVE  (\E j \in 1..Len(queue[e]) : w = queue[e][j]) \/ GoodWrite(e, w)'
    <3>1. \/ \E j \in 1..Len(queue[e]) : w = queue[e][j]
          \/ e = d /\ \E j \in 1..Len(ws) : w = ws[j]
      BY <1>5, <2>1, NewWrites
    <3>2. ASSUME NEW j \in 1..Len(ws), w = ws[j] PROVE GoodWrite(d, w)'
      BY <1>3, <1>5, <3>2
    <3> QED BY <3>1, <3>2
  <2> QED BY <1>1, <1>2, <1>5, <2>1, WritesStay
<1>6. CASE Looks \/ Applies(d) \/ Reopens(d) \/ \E p \in Posts : Begins(d, p)
  <2>1. queue' = queue /\ blocks' = blocks
    BY <1>6 DEF Looks, Applies, Commit, Reopens, Reopen, Begins, storeVars
  <2> QED BY <1>4, <2>1
<1>7. ASSUME NEW k \in UploadTaps, Taken(d, k) PROVE WritesOK'
  <2>1. /\ queue' = queue /\ taps'[d] = taps[d] + 1 /\ taps[d] \in Nat
        /\ k.screen \in Screens /\ blocks' = blocks \cup {Block(d, "follow", k)}
    BY <1>1, <1>7 DEF Taken, storeVars, AppOK
  <2>2. taps'[d] >= 1
    BY <2>1
  <2>3. Block(d, "follow", k).dev = d /\ Block(d, "follow", k).tap = k
    BY DEF Block
  <2> QED BY <1>4, <2>1, <2>2, <2>3
<1>8. ASSUME NEW b \in blocks, NEW ws \in Batches, RunsBlock(d, b, ws) PROVE WritesOK'
  <2>1. EnqueueAll(d, ws) /\ blocks' \subseteq blocks
    BY <1>8 DEF RunsBlock
  <2>2. \A j \in 1..Len(ws) : \A w : w = ws[j] => FollowWrite(d, w)
    BY <1>8, BlockWrites
  <2> QED BY <1>5, <2>1, <2>2
<1>9. CASE Mirrors(d, Oldest(d))
  <2> DEFINE ws == <<SecondWrite(d, Oldest(d))>>
  <2>1. FollowWrite(d, SecondWrite(d, Oldest(d))) /\ SecondWrite(d, Oldest(d)) \in Records
    BY <1>9, MirrorWrite
  <2>2. /\ ws \in Batches /\ Len(ws) = 1
        /\ \A j \in 1..Len(ws) : ws[j] = SecondWrite(d, Oldest(d))
    BY <2>1 DEF Batches
  <2>3. Answers(d, ws) /\ blocks' = blocks
    BY <1>9 DEF Mirrors
  <2> HIDE DEF ws
  <2>4. Len(ws) \in {0, 1}
    BY <2>2
  <2>5. \A j \in 1..Len(ws) : \A w : w = ws[j] => FollowWrite(d, w) \/ UploadWrite(d, w)
    BY <2>1, <2>2
  <2> QED BY <1>5, <2>2, <2>3, <2>4, <2>5
<1>10. <<>> \in Batches /\ Len(<<>>) \in {0, 1} /\ 1..Len(<<>>) = {}
  BY DEF Batches
<1>11. CASE ProfileAnswers(d, Oldest(d))
  <2> DEFINE new == [dev : {d}, tap : {Oldest(d).tap},
                     kind : IF Oldest(d).tap.val THEN {"notify", "feed"} ELSE {"feed"}]
  <2>1. Answers(d, <<>>) /\ Oldest(d).then = "done" /\ blocks' = blocks \cup new /\ taps' = taps
    BY <1>11 DEF ProfileAnswers
  <2>2. FollowWrite(d, Oldest(d))
    BY <2>1, OldestFacts DEF Answers
  <2>3. \A b \in new : b.dev = d /\ b.tap = Oldest(d).tap
    OBVIOUS
  <2>4. Oldest(d).tap.screen \in Screens /\ taps'[d] >= 1
    BY <2>1, <2>2 DEF FollowWrite
  <2> HIDE DEF new
  <2>5. \A b \in blocks' : b \in blocks \/ (b.tap.screen \in Screens /\ taps'[b.dev] >= 1)
    BY <2>1, <2>3, <2>4
  <2> QED BY <1>5, <1>10, <2>1, <2>5
<1>12. CASE OnlyAnswers(d, Oldest(d))
  <2>1. Answers(d, <<>>) /\ blocks' = blocks
    BY <1>12 DEF OnlyAnswers
  <2> QED BY <1>5, <1>10, <2>1
<1>13. ASSUME NEW p \in Posts, Stores(d, p) PROVE WritesOK'
  <2> DEFINE w == PostWrite(d, p)
  <2>1. p \in uploaded /\ Owner[p] = Account[d]
    BY <1>1, <1>13 DEF Stores, UploadsOK
  <2>2. UploadWrite(d, w)
    BY <2>1 DEF PostWrite, UploadTap, UploadWrite
  <2>3. w \in Records
    <3>1. PostDoc(p) \in Docs
      BY OwnerType DEF PostDoc, Docs
    <3> QED BY <3>1, UploadTapType DEF PostWrite, Records
  <2>4. EnqueueAll(d, <<w>>) /\ blocks' = blocks
    BY <1>13 DEF Stores
  <2> HIDE DEF w
  <2>5. /\ <<w>> \in Batches
        /\ \A j \in 1..Len(<<w>>) : <<w>>[j] = w
    BY <2>3 DEF Batches
  <2> QED BY <1>5, <2>2, <2>4, <2>5
<1>14. ASSUME NEW p \in Posts, NEW ws \in Batches, FansOut(d, p, ws) PROVE WritesOK'
  <2>1. p \in uploaded /\ Owner[p] = Account[d]
    BY <1>1, <1>14 DEF FansOut, UploadsOK
  <2>2. ASSUME NEW u \in Users PROVE UploadWrite(d, FeedsWrite(d, u, p))
    BY <2>1 DEF FeedsWrite, UploadTap, UploadWrite
  <2>3. FollowersOf(d, Account[d]) \cup {Account[d]} \subseteq Users
    BY AccountType DEF FollowersOf
  <2>4. \A j \in 1..Len(ws) : \A w : w = ws[j] => UploadWrite(d, w)
    BY <1>14, <2>2, <2>3 DEF FansOut
  <2>5. EnqueueAll(d, ws) /\ blocks' = blocks
    BY <1>14 DEF FansOut
  <2> QED BY <1>5, <2>4, <2>5
<1> QED BY <1>6, <1>7, <1>8, <1>9, <1>11, <1>12, <1>13, <1>14 DEF Calm

-----------------------------------------------------------------------------
(* PostsOK. *)

LEMMA EnqueueKeeps ==
  ASSUME QueuesOK, NEW d \in Devices, NEW ws \in Batches, EnqueueAll(d, ws),
         NEW e \in Devices, NEW y, ~Absent(queue[e], y)
  PROVE  ~Absent(queue'[e], y)
<1>1. ws \in Seq(Records)
  BY DEF Batches
<1>2. PICK i \in 1..Len(queue[e]) : queue[e][i].doc = y
  BY DEF Absent
<1>3. CASE e = d
  <2>1. /\ queue'[d][i] = queue[d][i] /\ Len(queue'[d]) = Len(queue[d]) + Len(ws)
        /\ Len(ws) \in Nat /\ Len(queue[d]) \in Nat
    BY <1>1, <1>2, <1>3, EnqueueFacts, PhoneFacts
  <2>2. i \in 1..Len(queue'[d])
    BY <1>2, <1>3, <2>1
  <2> QED BY <1>2, <1>3, <2>1, <2>2 DEF Absent
<1>4. CASE e # d
  <2>1. queue'[e] = queue[e]
    BY <1>1, <1>4, EnqueueFacts
  <2> QED BY <2>1
<1> QED BY <1>3, <1>4

LEMMA AnswersKeep ==
  ASSUME QueuesOK, NEW d \in Devices, NEW ws \in Batches, Answers(d, ws), Len(ws) \in {0, 1},
         NEW e \in Devices, NEW y, ~Absent(queue[e], y), e = d => queue[d][1].doc # y
  PROVE  ~Absent(queue'[e], y)
<1>1. ws \in Seq(Records)
  BY DEF Batches
<1>2. PICK i \in 1..Len(queue[e]) : queue[e][i].doc = y
  BY DEF Absent
<1>3. CASE e = d
  <2>1. /\ \A j \in 1..Len(queue[d]) - 1 : queue'[d][j] = queue[d][j + 1]
        /\ Len(queue'[d]) = Len(queue[d]) - 1 + Len(ws)
        /\ Len(queue[d]) \in Nat
    BY <1>1, AnswersFacts, PhoneFacts
  <2>2. Len(queue'[d]) >= Len(queue[d]) - 1 /\ Len(queue'[d]) \in Int
    <3> DEFINE n == Len(ws)
    <3>1. n \in {0, 1} /\ Len(queue'[d]) = Len(queue[d]) - 1 + n /\ Len(queue[d]) \in Nat
      BY <2>1
    <3> HIDE DEF n
    <3> QED BY <3>1
  <2>3. i # 1
    BY <1>2, <1>3
  <2>4. i - 1 \in 1..Len(queue[d]) - 1 /\ i - 1 \in 1..Len(queue'[d]) /\ (i - 1) + 1 = i
    BY <1>2, <1>3, <2>1, <2>2, <2>3
  <2>5. queue'[d][i - 1].doc = y
    BY <1>2, <1>3, <2>1, <2>4
  <2> QED BY <1>3, <2>4, <2>5 DEF Absent
<1>4. CASE e # d
  <2>1. queue'[e] = queue[e]
    BY <1>1, <1>4, AnswersFacts
  <2> QED BY <2>1
<1> QED BY <1>3, <1>4

PostQueued(p) == \E d \in Devices : ~Absent(queue[d], PostDoc(p))

ImageAwaited(p) == \E d \in Devices : <<d, p, "image">> \in uploads

(* The writes of posts that are taken off the queues have been applied. *)
LEMMA CalmQueued ==
  ASSUME UploadInv, UnderWay, NEW d \in Devices, Calm(d), NEW p \in Posts, p \notin wasPost,
         PostQueued(p)
  PROVE  PostQueued(p)'
<1>1. QueuesOK
  BY DEF UploadInv
<1>2. PICK e \in Devices : ~Absent(queue[e], PostDoc(p))
  BY DEF PostQueued
<1>3. SUFFICES ~Absent(queue'[e], PostDoc(p))
  BY DEF PostQueued
<1>4. CASE queue' = queue
  BY <1>2, <1>4
<1>5. ASSUME NEW ws \in Batches, EnqueueAll(d, ws) PROVE ~Absent(queue'[e], PostDoc(p))
  BY <1>1, <1>2, <1>5, EnqueueKeeps
<1>6. ASSUME NEW ws \in Batches, Answers(d, ws), Len(ws) \in {0, 1}
      PROVE  ~Absent(queue'[e], PostDoc(p))
  <2>1. queue[d][1].doc # PostDoc(p)
    <3>1. 1 \in 1..applied[d] /\ GoodQueue(SentPosts, wasPost, d, queue[d], applied[d])
      BY <1>1, <1>6, PhoneFacts DEF Answers, Answered, QueuesOK
    <3> QED BY <3>1 DEF GoodQueue
  <2> QED BY <1>1, <1>2, <1>6, <2>1, AnswersKeep
<1>7. <<>> \in Batches /\ Len(<<>>) \in {0, 1}
  BY DEF Batches
<1>8. ASSUME Mirrors(d, Oldest(d)) PROVE ~Absent(queue'[e], PostDoc(p))
  <2>1. SecondWrite(d, Oldest(d)) \in Records /\ Answers(d, <<SecondWrite(d, Oldest(d))>>)
    BY <1>8, MirrorWrite DEF Mirrors
  <2>2. <<SecondWrite(d, Oldest(d))>> \in Batches /\ Len(<<SecondWrite(d, Oldest(d))>>) \in {0, 1}
    BY <2>1 DEF Batches
  <2> QED BY <1>6, <2>1, <2>2
<1>9. ASSUME NEW q \in Posts, Stores(d, q) PROVE ~Absent(queue'[e], PostDoc(p))
  <2>1. PostWrite(d, q) \in Records
    <3>1. PostDoc(q) \in Docs
      BY OwnerType DEF PostDoc, Docs
    <3> QED BY <3>1, UploadTapType DEF PostWrite, Records
  <2>2. <<PostWrite(d, q)>> \in Batches
    BY <2>1 DEF Batches
  <2> QED BY <1>5, <1>9, <2>2 DEF Stores
<1>10. CASE Looks \/ (\E k \in UploadTaps : Taken(d, k)) \/ Applies(d) \/ Reopens(d)
            \/ \E q \in Posts : Begins(d, q)
  <2>1. queue' = queue
    BY <1>10 DEF Looks, Taken, Applies, Commit, Reopens, Reopen, Begins, storeVars
  <2> QED BY <1>4, <2>1
<1>11. CASE \/ \E b \in blocks, ws \in Batches : RunsBlock(d, b, ws)
            \/ \E q \in Posts : \E ws \in Batches : FansOut(d, q, ws)
  BY <1>5, <1>11 DEF RunsBlock, FansOut
<1>12. CASE ProfileAnswers(d, Oldest(d)) \/ OnlyAnswers(d, Oldest(d))
  BY <1>6, <1>7, <1>12 DEF ProfileAnswers, OnlyAnswers
<1> QED BY <1>8, <1>9, <1>10, <1>11, <1>12 DEF Calm

(* The uploads of a step. *)
LEMMA CalmUploads ==
  ASSUME UploadInv, UnderWay, NEW d \in Devices, Calm(d)
  PROVE  /\ \A x, y \in uploads' : x[2] = y[2] => x = y
         /\ \A p \in uploaded' \ wasPost : ImageAwaited(p)' \/ PostQueued(p)'
<1>1. /\ QueuesOK /\ UploadsOK /\ \A x, y \in uploads : x[2] = y[2] => x = y
      /\ \A p \in uploaded \ wasPost : ImageAwaited(p) \/ PostQueued(p)
      /\ uploaded \subseteq Posts
  BY DEF UploadInv, UnderWay, PostsOK, ImageAwaited, PostQueued, UploadsOK
<1>2. CASE uploads' = uploads /\ uploaded' = uploaded
  <2>1. \A p \in uploaded' \ wasPost : ImageAwaited(p)' \/ PostQueued(p)'
    BY <1>1, <1>2, CalmQueued DEF ImageAwaited
  <2> QED BY <1>1, <1>2, <2>1
<1>3. ASSUME NEW q \in Posts, Begins(d, q)
      PROVE  /\ \A x, y \in uploads' : x[2] = y[2] => x = y
             /\ \A p \in uploaded' \ wasPost : ImageAwaited(p)' \/ PostQueued(p)'
  <2>1. /\ q \notin uploaded /\ uploads' = uploads \cup {<<d, q, "image">>}
        /\ uploaded' = uploaded \cup {q}
    BY <1>3 DEF Begins
  <2>2. \A x \in uploads : x[2] # q
    BY <1>1, <2>1 DEF UploadsOK
  <2>3. \A x, y \in uploads' : x[2] = y[2] => x = y
    BY <1>1, <2>1, <2>2
  <2>4. ASSUME NEW p \in uploaded' \ wasPost PROVE ImageAwaited(p)' \/ PostQueued(p)'
    <3>1. CASE p = q
      BY <2>1, <3>1 DEF ImageAwaited
    <3>2. CASE p # q
      <4>1. p \in uploaded \ wasPost /\ p \in Posts
        BY <1>1, <2>1, <2>4, <3>2
      <4>2. ImageAwaited(p) => ImageAwaited(p)'
        BY <2>1 DEF ImageAwaited
      <4> QED BY <1>1, <4>1, <4>2, CalmQueued
    <3> QED BY <3>1, <3>2
  <2> QED BY <2>3, <2>4
<1>4. ASSUME NEW q \in Posts, Stores(d, q)
      PROVE  /\ \A x, y \in uploads' : x[2] = y[2] => x = y
             /\ \A p \in uploaded' \ wasPost : ImageAwaited(p)' \/ PostQueued(p)'
  <2>1. /\ <<d, q, "image">> \in uploads /\ uploaded' = uploaded
        /\ uploads' = (uploads \ {<<d, q, "image">>}) \cup {<<d, q, "followers">>}
        /\ EnqueueAll(d, <<PostWrite(d, q)>>)
    BY <1>4 DEF Stores
  <2>2. \A x \in uploads : x[2] = q => x = <<d, q, "image">>
    BY <1>1, <2>1
  <2>3. \A x, y \in uploads' : x[2] = y[2] => x = y
    BY <1>1, <2>1, <2>2
  <2>4. PostQueued(q)'
    <3>1. PostDoc(q) \in Docs
      BY OwnerType DEF PostDoc, Docs
    <3>2. PostWrite(d, q) \in Records /\ PostWrite(d, q).doc = PostDoc(q)
      BY <3>1, UploadTapType DEF PostWrite, Records
    <3> DEFINE ws == <<PostWrite(d, q)>>
    <3>3. ws \in Seq(Records) /\ Len(ws) = 1 /\ ws[1].doc = PostDoc(q)
      BY <3>2
    <3> HIDE DEF ws
    <3>4. /\ Len(queue'[d]) = Len(queue[d]) + Len(ws) /\ Len(queue[d]) \in Nat
          /\ \A i \in 1..Len(ws) : queue'[d][Len(queue[d]) + i] = ws[i]
      BY <1>1, <2>1, <3>3, EnqueueFacts, PhoneFacts DEF ws
    <3>5. /\ Len(queue[d]) + 1 \in 1..Len(queue'[d]) /\ 1 \in 1..Len(ws)
      BY <3>3, <3>4
    <3>6. queue'[d][Len(queue[d]) + 1].doc = PostDoc(q)
      BY <3>3, <3>4, <3>5
    <3>7. ~Absent(queue'[d], PostDoc(q))
      BY <3>5, <3>6 DEF Absent
    <3> QED BY <3>7 DEF PostQueued
  <2>5. ASSUME NEW p \in uploaded' \ wasPost, p # q PROVE ImageAwaited(p)' \/ PostQueued(p)'
    <3>1. p \in uploaded \ wasPost /\ p \in Posts
      BY <1>1, <2>1
    <3>2. ImageAwaited(p) => ImageAwaited(p)'
      BY <2>1, <2>5 DEF ImageAwaited
    <3> QED BY <1>1, <3>1, <3>2, CalmQueued
  <2> QED BY <2>3, <2>4, <2>5
<1>5. ASSUME NEW q \in Posts, NEW ws \in Batches, FansOut(d, q, ws)
      PROVE  /\ \A x, y \in uploads' : x[2] = y[2] => x = y
             /\ \A p \in uploaded' \ wasPost : ImageAwaited(p)' \/ PostQueued(p)'
  <2>1. uploaded' = uploaded /\ uploads' = uploads \ {<<d, q, "followers">>}
    BY <1>5 DEF FansOut
  <2>2. ASSUME NEW p \in uploaded' \ wasPost PROVE ImageAwaited(p)' \/ PostQueued(p)'
    <3>1. p \in uploaded \ wasPost /\ p \in Posts
      BY <1>1, <2>1
    <3>2. ImageAwaited(p) => ImageAwaited(p)'
      BY <2>1 DEF ImageAwaited
    <3> QED BY <1>1, <3>1, <3>2, CalmQueued
  <2> QED BY <1>1, <2>1, <2>2
<1>6. CASE \/ Looks \/ (\E k \in UploadTaps : Taken(d, k)) \/ Applies(d) \/ Reopens(d)
           \/ \E b \in blocks, ws \in Batches : RunsBlock(d, b, ws)
           \/ Mirrors(d, Oldest(d)) \/ ProfileAnswers(d, Oldest(d)) \/ OnlyAnswers(d, Oldest(d))
  <2>1. uploads' = uploads /\ uploaded' = uploaded
    BY <1>6 DEF Looks, Taken, Applies, Reopens, RunsBlock, Mirrors, ProfileAnswers, OnlyAnswers
  <2> QED BY <1>2, <2>1
<1> QED BY <1>3, <1>4, <1>5, <1>6 DEF Calm

LEMMA FollowWritePost ==
  ASSUME NEW d, NEW w, FollowWrite(d, w), NEW p
  PROVE  w.doc # PostDoc(p)
BY Names DEF FollowWrite

LEMMA UploadWritePost ==
  ASSUME NEW d, NEW w, UploadWrite(d, w), NEW p, w.doc = PostDoc(p)
  PROVE  p \in uploaded
<1>1. PICK q \in uploaded :
        \/ w.then = "uploaded" /\ w.doc = PostDoc(q)
        \/ w.then = "none" /\ \E v \in Users : w.doc = FeedDoc(v, q)
  BY DEF UploadWrite
<1>2. PostDoc(p)[3] = p /\ PostDoc(q)[3] = q
  BY DEF PostDoc
<1> QED BY <1>1, <1>2, Names

LEMMA CalmPosts ==
  ASSUME UploadInv, UnderWay, Remember, NEW d \in Devices, Calm(d)
  PROVE  PostsOK'
<1>1. /\ QueuesOK /\ DocumentsOK /\ UploadsOK /\ WritesOK
      /\ wasPost \subseteq uploaded /\ \A p \in wasPost : db[PostDoc(p)] = TRUE
      /\ uploaded \subseteq Posts
      /\ wasPost' = wasPost \cup {p \in Posts : db'[PostDoc(p)]}
  BY DEF UploadInv, UnderWay, PostsOK, UploadsOK, Remember
<1>2. uploaded \subseteq uploaded' /\ db' \in [Docs -> BOOLEAN]
  BY CalmOnward, CalmDbType DEF Onward
<1>3. ASSUME NEW p \in Posts, db'[PostDoc(p)]
      PROVE  p \in wasPost \/ p \in uploaded
  <2>1. CASE UNCHANGED db
    BY <1>1, <1>3, <2>1 DEF DocumentsOK
  <2>2. CASE Commit(d)
    <3>1. PICK w : w = queue[d][applied[d] + 1]
      OBVIOUS
    <3>2. /\ applied[d] + 1 \in 1..Len(queue[d])
          /\ \A y \in Docs : db'[y] = IF y = w.doc THEN w.val ELSE db[y]
      BY <1>1, <2>2, <3>1, CommitFacts
    <3>3. FollowWrite(d, w) \/ UploadWrite(d, w)
      BY <1>1, <3>1, <3>2, QueuedWrite
    <3>4. PostDoc(p) \in Docs
      BY OwnerType DEF PostDoc, Docs
    <3>5. CASE w.doc = PostDoc(p)
      BY <3>3, <3>5, FollowWritePost, UploadWritePost
    <3>6. CASE w.doc # PostDoc(p)
      <4>1. db[PostDoc(p)]
        BY <1>3, <3>2, <3>4, <3>6
      <4> QED BY <1>1, <4>1 DEF DocumentsOK
    <3> QED BY <3>5, <3>6
  <2> QED BY <2>1, <2>2, CalmDb DEF Applies
<1>4. wasPost' \subseteq uploaded'
  BY <1>1, <1>2, <1>3
<1>5. ASSUME NEW p \in wasPost PROVE db'[PostDoc(p)] = TRUE
  <2>1. CASE UNCHANGED db
    BY <1>1, <2>1
  <2>2. CASE Commit(d)
    <3>1. PICK w : w = queue[d][applied[d] + 1]
      OBVIOUS
    <3>2. /\ applied[d] + 1 \in 1..Len(queue[d])
          /\ \A y \in Docs : db'[y] = IF y = w.doc THEN w.val ELSE db[y]
      BY <1>1, <2>2, <3>1, CommitFacts
    <3>3. FollowWrite(d, w) \/ UploadWrite(d, w)
      BY <1>1, <3>1, <3>2, QueuedWrite
    <3>4. PostDoc(p) \in Docs
      BY <1>1, OwnerType DEF PostDoc, Docs
    <3>5. w.doc = PostDoc(p) => w.val = TRUE
      BY <3>3, FollowWriteFeed DEF UploadWrite
    <3> QED BY <1>1, <3>2, <3>4, <3>5
  <2> QED BY <2>1, <2>2, CalmDb DEF Applies
<1>6. ASSUME NEW p \in wasPost' PROVE db'[PostDoc(p)] = TRUE
  <2>1. CASE p \in wasPost
    BY <1>5, <2>1
  <2>2. CASE p \in Posts /\ db'[PostDoc(p)]
    <3>1. PostDoc(p) \in Docs
      BY <2>2, OwnerType DEF PostDoc, Docs
    <3> QED BY <1>2, <2>2, <3>1
  <2> QED BY <1>1, <1>6, <2>1, <2>2
<1>7. /\ \A x, y \in uploads' : x[2] = y[2] => x = y
      /\ \A p \in uploaded' \ wasPost' : ImageAwaited(p)' \/ PostQueued(p)'
  BY <1>1, CalmUploads
<1> QED BY <1>4, <1>6, <1>7 DEF PostsOK, ImageAwaited, PostQueued

-----------------------------------------------------------------------------
(* RowsOK. *)

LEMMA ViewStored ==
  ASSUME NEW d, NEW x, Absent(queue[d], x)
  PROVE  LocalView(d, x) = db[x]
<1>1. PendingOn(d, x) = {}
  BY DEF PendingOn, Absent
<1> QED BY <1>1 DEF LocalView

(* What a phone sees of a document with a write queued is such a write. *)
LEMMA ViewPending ==
  ASSUME QueuesOK, NEW d \in Devices, NEW x, ~Absent(queue[d], x)
  PROVE  \E i \in 1..Len(queue[d]) : queue[d][i].doc = x /\ LocalView(d, x) = queue[d][i].val
<1> DEFINE P == PendingOn(d, x)
           last == CHOOSE i \in P : \A j \in P : j <= i
<1>1. P \subseteq 1..Len(queue[d]) /\ Len(queue[d]) \in Nat
  BY PhoneFacts DEF PendingOn
<1>2. P # {}
  BY DEF PendingOn, Absent
<1>3. \E i \in P : \A j \in P : j <= i
  BY <1>1, <1>2, LastExists
<1>4. last \in P
  BY <1>3
<1>5. last \in 1..Len(queue[d]) /\ queue[d][last].doc = x
  BY <1>4 DEF PendingOn
<1> QED BY <1>2, <1>5 DEF LocalView

LEMMA ViewType ==
  ASSUME QueuesOK, db \in [Docs -> BOOLEAN], NEW d \in Devices, NEW x \in Docs
  PROVE  LocalView(d, x) \in BOOLEAN
<1>1. CASE Absent(queue[d], x)
  BY <1>1, ViewStored
<1>2. CASE ~Absent(queue[d], x)
  <2>1. PICK i \in 1..Len(queue[d]) : LocalView(d, x) = queue[d][i].val
    BY <1>2, ViewPending
  <2>2. queue[d][i] \in Records
    <3>1. queue[d] \in Seq(Records)
      BY PhoneFacts
    <3> QED BY <3>1
  <2> QED BY <2>1, <2>2 DEF Records
<1> QED BY <1>1, <1>2

LEMMA NoteWrite ==
  ASSUME NEW d, NEW w, NEW u, NEW t, w.doc = NotificationDoc(t, u),
         FollowWrite(d, w) \/ UploadWrite(d, w)
  PROVE  Account[d] = u
<1>1. ASSUME FollowWrite(d, w) PROVE Account[d] = u
  <2>1. \/ \E s, v : w.doc = FollowingDoc(v, s) \/ w.doc = FollowersDoc(s, v)
        \/ w.doc = NotificationDoc(w.tap.target, Account[d])
        \/ \E v, p : w.doc = FeedDoc(v, p)
    BY <1>1 DEF FollowWrite
  <2> QED BY <2>1, Names
<1>2. ASSUME UploadWrite(d, w) PROVE FALSE
  BY <1>2, UploadWriteDoc
<1> QED BY <1>1, <1>2

LEMMA NotifierKnown ==
  ASSUME UploadInv, UnderWay, NEW d \in Devices, NEW t \in Users, t # Account[d],
         LocalView(d, NotificationDoc(Account[d], t))
  PROVE  db[NotificationDoc(Account[d], t)] = TRUE
<1>1. QueuesOK /\ WritesOK /\ db \in [Docs -> BOOLEAN]
  BY DEF UploadInv, UnderWay
<1>2. PICK u \in Users : u = Account[d]
  BY AccountType
<1>3. Absent(queue[d], NotificationDoc(u, t))
  <2> SUFFICES ASSUME NEW i \in 1..Len(queue[d]), NEW w, w = queue[d][i],
                      w.doc = NotificationDoc(u, t)
               PROVE  FALSE
    BY DEF Absent
  <2>1. FollowWrite(d, w) \/ UploadWrite(d, w)
    BY <1>1, QueuedWrite
  <2>2. Account[d] = t
    BY <2>1, NoteWrite
  <2> QED BY <1>2, <2>2
<1>4. db[NotificationDoc(u, t)] \in BOOLEAN
  BY <1>1, FollowDocsType
<1> QED BY <1>2, <1>3, <1>4, ViewStored

NewRows(d, r) ==
  /\ rows' = [rows EXCEPT ![d] = r]
  /\ r \in [Users -> Row]
  /\ \A t \in Users : r[t].listed /\ t # Account[d] => db[NotificationDoc(Account[d], t)] = TRUE

LEMMA RefreshRows ==
  ASSUME NEW d \in Devices, rows' = [rows EXCEPT ![d] = [t \in Users |-> NoRow]]
  PROVE  \E r : NewRows(d, r)
<1>1. PICK r : r = [t \in Users |-> NoRow]
  OBVIOUS
<1>2. r \in [Users -> Row] /\ \A t \in Users : r[t].listed = FALSE
  BY <1>1 DEF Row, NoRow
<1>3. NewRows(d, r)
  BY <1>1, <1>2 DEF NewRows
<1> QED BY <1>3

LEMMA ListRows ==
  ASSUME UploadInv, UnderWay, NEW d \in Devices, NotificationsArrive(d)
  PROVE  \E r : NewRows(d, r)
<1>1. rows' = [rows EXCEPT ![d] =
                 [t \in Users |-> [listed |-> t \in Notifiers(d), list |-> FALSE, cell |-> FALSE]]]
  BY DEF NotificationsArrive
<1>2. PICK r : r = [t \in Users |-> [listed |-> t \in Notifiers(d), list |-> FALSE, cell |-> FALSE]]
  OBVIOUS
<1>3. r \in [Users -> Row] /\ \A t \in Users : r[t].listed = (t \in Notifiers(d))
  BY <1>2 DEF Row
<1>4. ASSUME NEW t \in Users, r[t].listed, t # Account[d]
      PROVE  db[NotificationDoc(Account[d], t)] = TRUE
  BY <1>3, <1>4, NotifierKnown DEF Notifiers
<1> QED BY <1>1, <1>2, <1>3, <1>4 DEF NewRows

LEMMA CheckRows ==
  ASSUME UploadInv, UnderWay, NEW d \in Devices, NEW x \in Users, RowCheckResult(d, x)
  PROVE  rows' = rows \/ \E r : NewRows(d, r)
<1>1. /\ QueuesOK /\ db \in [Docs -> BOOLEAN] /\ rows \in [Devices -> [Users -> Row]]
      /\ \A t \in Users : rows[d][t].listed /\ t # Account[d] =>
           db[NotificationDoc(Account[d], t)] = TRUE
  BY DEF UploadInv, UnderWay, RowsOK
<1>2. LocalView(d, FollowingDoc(Account[d], x)) \in BOOLEAN
  BY <1>1, ViewType, FollowDocsType, AccountType
<1>3. CASE rows[d][x].listed
  <2> DEFINE list == [y \in Users |->
                        IF y = x THEN LocalView(d, FollowingDoc(Account[d], x))
                                 ELSE rows[d][y].list]
             new == [y \in Users |-> [listed |-> rows[d][y].listed,
                                      list |-> list[y], cell |-> list[y]]]
  <2>1. rows' = [rows EXCEPT ![d] = new]
    BY <1>3 DEF RowCheckResult
  <2>2. \A y \in Users : rows[d][y].listed \in BOOLEAN /\ rows[d][y].list \in BOOLEAN
    BY <1>1 DEF Row
  <2>3. \A y \in Users : list[y] \in BOOLEAN
    BY <1>2, <2>2
  <2> HIDE DEF list
  <2>4. new \in [Users -> Row] /\ \A y \in Users : new[y].listed = rows[d][y].listed
    BY <2>2, <2>3 DEF Row
  <2> HIDE DEF new
  <2>5. NewRows(d, new)
    BY <1>1, <2>1, <2>4 DEF NewRows
  <2> QED BY <2>5
<1>4. CASE ~rows[d][x].listed
  BY <1>4 DEF RowCheckResult
<1> QED BY <1>3, <1>4

LEMMA CellRows ==
  ASSUME UploadInv, UnderWay, NEW d \in Devices, AnswerRow(d)
  PROVE  rows' = rows \/ \E r : NewRows(d, r)
<1>1. /\ rows \in [Devices -> [Users -> Row]]
      /\ \A t \in Users : rows[d][t].listed /\ t # Account[d] =>
           db[NotificationDoc(Account[d], t)] = TRUE
  BY DEF UnderWay, RowsOK
<1>2. PICK x : rows' = [rows EXCEPT ![d][x].cell = rows[d][x].listed /\ ~@]
  BY DEF AnswerRow
<1>3. CASE x \in Users
  <2>1. PICK c \in BOOLEAN : c = (rows[d][x].listed /\ ~rows[d][x].cell)
    OBVIOUS
  <2>2. PICK v : v = [rows[d][x] EXCEPT !.cell = c]
    OBVIOUS
  <2>3. rows[d] \in [Users -> Row] /\ rows[d][x] \in Row
    BY <1>1, <1>3
  <2>4. v \in Row /\ v.listed = rows[d][x].listed
    BY <2>2, <2>3 DEF Row
  <2>5. PICK r : r = [rows[d] EXCEPT ![x] = v]
    OBVIOUS
  <2>6. rows' = [rows EXCEPT ![d] = r]
    BY <1>2, <2>1, <2>2, <2>5
  <2>7. r \in [Users -> Row] /\ \A t \in Users : r[t].listed = rows[d][t].listed
    BY <2>3, <2>4, <2>5
  <2>8. NewRows(d, r)
    BY <1>1, <2>6, <2>7 DEF NewRows
  <2> QED BY <2>8
<1>4. CASE x \notin Users
  <2>1. rows[d] \in [Users -> Row]
    BY <1>1
  <2>2. NewRows(d, rows[d])
    BY <1>1, <1>2, <1>4, <2>1 DEF NewRows
  <2> QED BY <2>2
<1> QED BY <1>3, <1>4

LEMMA StepRows ==
  ASSUME UploadInv, UnderWay, [UploadNext]_allVars
  PROVE  rows' = rows \/ \E d \in Devices : \E r : NewRows(d, r)
<1>1. ASSUME NEW d \in Devices, UserStep(d) PROVE rows' = rows \/ \E r : NewRows(d, r)
  BY <1>1, RefreshRows DEF UserStep, OpenProfile, TapProfile, TapRow, Refresh, screens
<1>2. ASSUME NEW d \in Devices, ReadStep(d) PROVE rows' = rows \/ \E r : NewRows(d, r)
  BY <1>2, CheckRows, ListRows DEF ReadStep, ProfileCheckResult, CheckFails, screens
<1>3. ASSUME NEW d \in Devices, BlockStep(d) PROVE rows' = rows
  BY <1>3 DEF BlockStep, RunFollowBlock, RunNotifyBlock, RunFeedBlock, screens
<1>4. ASSUME NEW d \in Devices, AnswerAny(d) PROVE rows' = rows \/ \E r : NewRows(d, r)
  BY <1>4, CellRows DEF AnswerAny, AnswerMirror, AnswerProfile, AnswerSilent, screens
<1>5. ASSUME NEW d \in Devices, Apply(d) \/ Resend(d) \/ TapDone(d) \/ AnswerUploaded(d)
      PROVE  rows' = rows
  BY <1>5 DEF Apply, Resend, TapDone, AnswerUploaded, vars, followVars, screens
<1>6. ASSUME NEW d \in Devices, UploadStep(d) PROVE rows' = rows
  BY <1>6 DEF UploadStep, ImageStored, ImageFails, FanOut, followVars, screens
<1>7. ASSUME NEW d \in Devices, Crash(d) PROVE \E r : NewRows(d, r)
  BY <1>7, RefreshRows DEF Crash
<1>8. CASE UNCHANGED allVars
  BY <1>8 DEF allVars, vars, followVars, screens
<1> QED BY <1>1, <1>2, <1>3, <1>4, <1>5, <1>6, <1>7, <1>8
     DEF UploadNext, FollowStep, CrashUpload

LEMMA CalmRows ==
  ASSUME UploadInv, UnderWay, [UploadNext]_allVars, NEW d \in Devices, Calm(d)
  PROVE  RowsOK'
<1>1. /\ rows \in [Devices -> [Users -> Row]]
      /\ \A e \in Devices, t \in Users : rows[e][t].listed /\ t # Account[e] =>
           db[NotificationDoc(Account[e], t)] = TRUE
  BY DEF UnderWay, RowsOK
<1>2. rows' \in [Devices -> [Users -> Row]]
  BY <1>1, StepRows DEF NewRows
<1>3. ASSUME NEW e \in Devices, NEW t \in Users, rows'[e][t].listed, t # Account[e]
      PROVE  db[NotificationDoc(Account[e], t)] = TRUE
  <2>1. CASE rows' = rows
    BY <1>1, <1>3, <2>1
  <2>2. ASSUME NEW c \in Devices, NEW r, NewRows(c, r) PROVE db[NotificationDoc(Account[e], t)] = TRUE
    BY <1>1, <1>3, <2>2 DEF NewRows
  <2> QED BY <2>1, <2>2, StepRows
<1>4. \A e \in Devices : Account[e] \in Users
  BY AccountType
<1>5. ASSUME NEW e \in Devices, NEW t \in Users, rows'[e][t].listed, t # Account[e]
      PROVE  db'[NotificationDoc(Account[e], t)] = TRUE
  BY <1>3, <1>4, <1>5, NotesStay
<1> QED BY <1>2, <1>5 DEF RowsOK, NotificationDoc

LEMMA CalmUnderWay ==
  ASSUME UploadInv, UnderWay, [UploadNext]_allVars, Remember, NEW d \in Devices, Calm(d)
  PROVE  UnderWay'
BY CalmDbType, CalmWrites, CalmPosts, CalmRows DEF UnderWay

-----------------------------------------------------------------------------
(* What a step tells of the state before it. *)

LEMMA StepOverlap ==
  ASSUME OverlapOK, UploadInv, [UploadNext]_allVars
  PROVE  OverlapOK' /\ overlap \subseteq overlap'
<1>1. CASE Remember
  BY <1>1 DEF Remember, OverlapOK
<1>2. CASE UNCHANGED allVars
  BY <1>2 DEF allVars, vars, storeVars, followVars, uploadVars, screenVars, OverlapOK,
     Uploading, Following
<1> QED BY <1>1, <1>2 DEF UploadNext

LEMMA StepFails ==
  ASSUME [UploadNext]_allVars
  PROVE  failed' = failed \/ \E d \in Devices : \E fault : Fails(d, fault)
<1>1. ASSUME NEW d \in Devices, FollowStep(d) PROVE failed' = failed \/ \E c \in Devices : \E fault : Fails(c, fault)
  <2>1. CASE UserStep(d)
    BY <2>1 DEF UserStep, OpenProfile, TapProfile, TapRow, Refresh
  <2>2. CASE ReadStep(d)
    BY <2>2 DEF ReadStep, NotificationsArrive, ProfileCheckResult, RowCheckResult, CheckFails
  <2>3. CASE BlockStep(d)
    BY <2>3 DEF BlockStep, RunFollowBlock, RunNotifyBlock, RunFeedBlock
  <2>4. CASE AnswerAny(d)
    BY <2>4 DEF AnswerAny, AnswerMirror, AnswerProfile, AnswerRow, AnswerSilent, Answer
  <2>5. CASE Apply(d) \/ Resend(d)
    BY <2>5 DEF Apply, Resend, followVars
  <2> QED BY <1>1, <2>1, <2>2, <2>3, <2>4, <2>5 DEF FollowStep
<1>2. ASSUME NEW d \in Devices, TapDone(d) \/ UploadStep(d) \/ AnswerUploaded(d) \/ CrashUpload(d)
      PROVE  failed' = failed \/ \E fault : Fails(d, fault)
  BY <1>2 DEF TapDone, UploadStep, ImageStored, ImageFails, FanOut, AnswerUploaded, Answer,
     CrashUpload, Crash, vars, followVars
<1>3. CASE UNCHANGED allVars
  BY <1>3 DEF allVars, vars, followVars
<1> QED BY <1>1, <1>2, <1>3 DEF UploadNext

LEMMA QuietBack ==
  ASSUME UploadInv, [UploadNext]_allVars, Quiet'
  PROVE  Quiet
<1>1. failed \in [Devices -> {"none", "crash", "reject", "readfail"}]
  BY DEF UploadInv, AppOK
<1>2. ASSUME NEW d \in Devices, NEW fault, Fails(d, fault) PROVE FALSE
  BY <1>2, Unfailing DEF UploadInv
<1>3. failed' = failed
  BY <1>2, StepFails
<1> QED BY <1>3 DEF Quiet

(* A step about the user u and the post p. *)
Apart(u, p) == ~(Uploading(p) /\ Following(u, Owner[p]))

Pair(u, p) ==
  /\ UploadInv /\ UnderWay /\ Quiet
  /\ u \in Users /\ p \in Posts /\ u # Owner[p] /\ Owner[p] \in Users
  /\ OneTap(u, Owner[p]) /\ OneTap(u, Owner[p])'
  /\ Apart(u, p) /\ Apart(u, p)'

LEMMA PairStep ==
  ASSUME UploadInv, UnderWay, Quiet, OverlapOK, [UploadNext]_allVars,
         NEW u \in Users, NEW p \in Posts, Covered(u, p)', NEW d \in Devices, Calm(d)
  PROVE  Covered(u, p) /\ Pair(u, p)
<1>1. u # Owner[p] /\ OneTap(u, Owner[p])' /\ <<u, p>> \notin overlap'
  BY DEF Covered
<1>2. OverlapOK' /\ <<u, p>> \notin overlap
  BY <1>1, StepOverlap
<1>3. Owner[p] \in Users
  BY OwnerType
<1>4. Apart(u, p)
  BY <1>2 DEF Apart, OverlapOK
<1>5. Apart(u, p)'
  BY <1>1, <1>2 DEF Apart, OverlapOK
<1>6. OneTap(u, Owner[p])
  <2>1. ASSUME NEW c \in Devices, Account[c] = u PROVE Sole(c) /\ taps[c] <= 1
    <3>1. Sole(c) /\ taps'[c] <= 1
      BY <1>1, <2>1 DEF OneTap, Sole
    <3>2. taps[c] \in Nat /\ taps'[c] \in Nat /\ taps'[c] >= taps[c]
      BY CalmOnward DEF Onward
    <3> QED BY <3>1, <3>2
  <2>2. ~db'[NotificationDoc(u, Owner[p])]
    BY <1>1 DEF OneTap, NotificationDoc
  <2>3. NotificationDoc(u, Owner[p]) \in Docs /\ db \in [Docs -> BOOLEAN]
    BY <1>3, FollowDocsType DEF UnderWay
  <2>4. ~db[NotificationDoc(u, Owner[p])]
    BY <1>3, <2>2, <2>3, NotesStay
  <2> QED BY <2>1, <2>4 DEF OneTap
<1> QED BY <1>1, <1>2, <1>3, <1>4, <1>5, <1>6 DEF Covered, Pair

-----------------------------------------------------------------------------
(* The documents of a pair. *)

LEMMA PairPhone ==
  ASSUME NEW u, NEW p, Pair(u, p), NEW c \in Devices, NEW d \in Devices,
         Account[c] = u, Account[d] = u
  PROVE  c = d
BY DEF Pair, OneTap, Sole

LEMMA PairDocs ==
  ASSUME NEW u, NEW p, Pair(u, p), NEW f, NEW m, NEW x, f = FollowingDoc(u, Owner[p]),
         m = FollowersDoc(Owner[p], u), x = FeedDoc(u, p)
  PROVE  /\ f \in Docs /\ m \in Docs /\ x \in Docs /\ PostDoc(p) \in Docs
         /\ f # m /\ f # x /\ m # x
         /\ db[f] \in BOOLEAN /\ db[m] \in BOOLEAN /\ db[x] \in BOOLEAN
<1>1. u \in Users /\ p \in Posts /\ Owner[p] \in Users /\ db \in [Docs -> BOOLEAN]
  BY DEF Pair, UnderWay
<1>2. f \in Docs /\ m \in Docs /\ x \in Docs /\ PostDoc(p) \in Docs
  BY <1>1, DocsType
<1>3. f # m /\ f # x /\ m # x
  BY Names
<1> QED BY <1>1, <1>2, <1>3

(* Whoever writes a document of the pair. *)
TapWrite(u, t, c, w) ==
  /\ Account[c] = u /\ taps[c] >= 1
  /\ w.tap.target = t /\ w.tap.screen \in Screens /\ w.val = w.tap.val

LEMMA WriterFollowing ==
  ASSUME NEW c, NEW w, FollowWrite(c, w) \/ UploadWrite(c, w), NEW u, NEW t,
         w.doc = FollowingDoc(u, t)
  PROVE  TapWrite(u, t, c, w) /\ w.then = "mirror"
<1>1. CASE FollowWrite(c, w)
  <2>1. \/ /\ w.then = "mirror" /\ w.val = w.tap.val
           /\ w.doc = FollowingDoc(Account[c], w.tap.target)
        \/ \E s, v, q : \/ w.doc = FollowersDoc(s, v) \/ w.doc = NotificationDoc(s, v)
                        \/ w.doc = FeedDoc(v, q)
    BY <1>1 DEF FollowWrite
  <2>2. /\ w.then = "mirror" /\ w.val = w.tap.val
        /\ Account[c] = u /\ w.tap.target = t
    BY <2>1, Names
  <2> QED BY <1>1, <2>2 DEF FollowWrite, TapWrite
<1>2. CASE UploadWrite(c, w)
  BY <1>2, UploadWriteDoc
<1> QED BY <1>1, <1>2

LEMMA WriterFollowers ==
  ASSUME NEW c, NEW w, FollowWrite(c, w) \/ UploadWrite(c, w), NEW u, NEW t,
         w.doc = FollowersDoc(t, u)
  PROVE  TapWrite(u, t, c, w) /\ w.then = "done"
<1>1. CASE FollowWrite(c, w)
  <2>1. \/ /\ w.then = "done" /\ w.val = w.tap.val
           /\ w.doc = FollowersDoc(w.tap.target, Account[c])
        \/ \E s, v, q : \/ w.doc = FollowingDoc(s, v) \/ w.doc = NotificationDoc(s, v)
                        \/ w.doc = FeedDoc(v, q)
    BY <1>1 DEF FollowWrite
  <2>2. /\ w.then = "done" /\ w.val = w.tap.val
        /\ Account[c] = u /\ w.tap.target = t
    BY <2>1, Names
  <2> QED BY <1>1, <2>2 DEF FollowWrite, TapWrite
<1>2. CASE UploadWrite(c, w)
  BY <1>2, UploadWriteDoc
<1> QED BY <1>1, <1>2

LEMMA WriterFeed ==
  ASSUME NEW c, NEW w, FollowWrite(c, w) \/ UploadWrite(c, w), NEW u, NEW p,
         w.doc = FeedDoc(u, p)
  PROVE  /\ w.then = "none"
         /\ \/ TapWrite(u, Owner[p], c, w)
            \/ w.tap.screen = "upload" /\ w.doc[3] = p
<1>1. CASE FollowWrite(c, w)
  <2>1. \/ \E q \in Posts : /\ w.then = "none" /\ w.val = w.tap.val
                            /\ w.doc = FeedDoc(Account[c], q) /\ Owner[q] = w.tap.target
        \/ \E s, v : \/ w.doc = FollowingDoc(s, v) \/ w.doc = NotificationDoc(s, v)
                     \/ w.doc = FollowersDoc(s, v)
    BY <1>1 DEF FollowWrite
  <2>2. PICK q \in Posts : /\ w.then = "none" /\ w.val = w.tap.val
                          /\ w.doc = FeedDoc(Account[c], q) /\ Owner[q] = w.tap.target
    BY <2>1, Names
  <2>3. FeedDoc(Account[c], q)[2] = FeedDoc(u, p)[2] /\ FeedDoc(Account[c], q)[3] = FeedDoc(u, p)[3]
    BY <2>2
  <2>4. Account[c] = u /\ q = p
    BY <2>3 DEF FeedDoc
  <2>5. /\ w.then = "none" /\ w.val = w.tap.val
        /\ Account[c] = u /\ w.tap.target = Owner[p]
    BY <2>2, <2>4
  <2> QED BY <1>1, <2>5 DEF FollowWrite, TapWrite
<1>2. CASE UploadWrite(c, w)
  <2>1. PICK q \in uploaded : /\ \/ w.then = "uploaded" /\ w.doc = PostDoc(q)
                                 \/ w.then = "none" /\ \E v \in Users : w.doc = FeedDoc(v, q)
    BY <1>2 DEF UploadWrite
  <2>2. w.then = "none"
    BY <2>1, Names
  <2>3. w.doc[3] = p
    BY DEF FeedDoc
  <2> QED BY <1>2, <2>2, <2>3 DEF UploadWrite
<1> QED BY <1>1, <1>2

(* The writes of an upload make it one under way. *)
LEMMA WriterUploads ==
  ASSUME NEW c \in Devices, NEW i \in 1..Len(queue[c]), NEW w, w = queue[c][i],
         NEW p, w.doc[3] = p, w.tap.screen = "upload"
  PROVE  Uploading(p)
BY DEF Uploading

LEMMA BusyFollows ==
  ASSUME NEW u, NEW p, NEW e \in Devices, NEW k \in UploadTaps, Busy(u, p, e, k)
  PROVE  Following(u, Owner[p])
<1> DEFINE t == Owner[p]
           f == FollowingDoc(u, t)
           m == FollowersDoc(t, u)
           x == FeedDoc(u, p)
<1>1. /\ Account[e] = u /\ BusyWith(e, k, t, f, m, x)
      /\ \/ Stage1(p, e, k, f, m, x) \/ Stage2(e, k, f, m)
         \/ Stage3(e, k, f, m) \/ Stage4(e, k, f, m)
  BY DEF Busy, BusyOn
<1>2. k.target = t /\ k.screen = "profile" /\ "profile" # "upload"
  BY <1>1 DEF BusyWith
<1>3. ASSUME NEW kind \in {"follow", "feed"}, Block(e, kind, k) \in blocks PROVE Following(u, t)
  <2>1. /\ Block(e, kind, k).dev = e /\ Block(e, kind, k).kind # "notify"
        /\ Block(e, kind, k).tap.target = t
    BY <1>2, <1>3 DEF Block
  <2> QED BY <1>1, <1>3, <2>1 DEF Following
<1>4. ASSUME NEW i \in 1..Len(queue[e]), queue[e][i].doc \in {f, m} PROVE Following(u, t)
  <2>1. queue[e][i].tap = k
    BY <1>1, <1>4 DEF BusyWith
  <2>2. queue[e][i].doc[1] # "user-notifications"
    BY <1>4 DEF FollowingDoc, FollowersDoc
  <2> QED BY <1>1, <1>2, <2>1, <2>2 DEF Following
<1> QED BY <1>1, <1>3, <1>4 DEF Stage1, Stage2, Stage3, Stage4, Once

(* A post that is not being uploaded. *)
LEMMA NotUploading ==
  ASSUME NEW u, NEW p, Pair(u, p), ~Uploading(p)
  PROVE  /\ NoWrites(PostDoc(p))
         /\ Fanned(p) => db[PostDoc(p)] = TRUE
         /\ ~Fanned(p) => db[PostDoc(p)] = FALSE /\ p \notin uploaded
<1>1. /\ QueuesOK /\ DocumentsOK /\ WritesOK /\ PostsOK /\ p \in Posts /\ db \in [Docs -> BOOLEAN]
      /\ PostDoc(p) \in Docs
  BY OwnerType DEF Pair, UploadInv, UnderWay, PostDoc, Docs
<1>2. NoWrites(PostDoc(p))
  <2> SUFFICES ASSUME NEW c \in Devices, NEW i \in 1..Len(queue[c]),
                      NEW w, w = queue[c][i], w.doc = PostDoc(p)
               PROVE  FALSE
    BY DEF NoWrites, Absent
  <2>1. FollowWrite(c, w) \/ UploadWrite(c, w)
    BY <1>1, QueuedWrite
  <2>2. ~FollowWrite(c, w)
    BY FollowWritePost
  <2>3. w.tap.screen = "upload"
    BY <2>1, <2>2 DEF UploadWrite
  <2>4. w.doc[3] = p
    BY DEF PostDoc
  <2> QED BY <2>3, <2>4, WriterUploads
<1>3. \A y \in uploads : y[2] # p
  BY DEF Uploading
<1>4. ASSUME p \in uploaded PROVE p \in wasPost
  <2>1. ASSUME NEW d \in Devices, <<d, p, "image">> \in uploads PROVE FALSE
    <3>1. <<d, p, "image">>[2] = p
      OBVIOUS
    <3> QED BY <1>3, <2>1, <3>1
  <2>2. \A d \in Devices : Absent(queue[d], PostDoc(p))
    BY <1>2 DEF NoWrites
  <2> QED BY <1>1, <1>4, <2>1, <2>2 DEF PostsOK
<1>5. p \notin uploaded => db[PostDoc(p)] = FALSE
  <2>1. db[PostDoc(p)] \in BOOLEAN
    BY <1>1
  <2>2. db[PostDoc(p)] => p \in wasPost
    BY <1>1 DEF DocumentsOK
  <2> QED BY <1>1, <2>1, <2>2 DEF PostsOK
<1> QED BY <1>1, <1>2, <1>3, <1>4, <1>5 DEF Fanned, PostsOK

-----------------------------------------------------------------------------
(* Each kind of step keeps a covered pair steady. *)

Named(u, p, t, f, m, x) ==
  /\ t = Owner[p] /\ f = FollowingDoc(u, t) /\ m = FollowersDoc(t, u) /\ x = FeedDoc(u, p)

SteadyOn(u, p, t, f, m, x) ==
  \/ RestingOn(u, p, t, f, m, x)
  \/ \E e \in Devices, k \in UploadTaps : Account[e] = u /\ BusyOn(p, e, k, t, f, m, x)

LEMMA SteadyNamed ==
  ASSUME NEW u, NEW p, NEW t, NEW f, NEW m, NEW x, Named(u, p, t, f, m, x)
  PROVE  /\ Steady(u, p) <=> SteadyOn(u, p, t, f, m, x)
         /\ Steady(u, p)' <=> SteadyOn(u, p, t, f, m, x)'
BY DEF Named, Steady, SteadyOn, Resting, Busy

LEMMA PairState ==
  ASSUME NEW u, NEW p, Pair(u, p)
  PROVE  /\ QueuesOK /\ DocumentsOK /\ WritesOK /\ blocks \subseteq TapBlocks
         /\ \A b \in blocks : taps[b.dev] >= 1
         /\ taps \in [Devices -> Nat]
BY DEF Pair, UploadInv, UnderWay, AppOK, WritesOK

LEMMA OnStays ==
  ASSUME NEW u, NEW p, NEW t, NEW f, NEW m, NEW x, blocks' \subseteq TapBlocks,
         Untouched(f), Untouched(m), Untouched(x), SameBlocks(u, t),
         Fanned(p)' <=> Fanned(p), SteadyOn(u, p, t, f, m, x)
  PROVE  SteadyOn(u, p, t, f, m, x)'
<1>1. ASSUME RestingOn(u, p, t, f, m, x) PROVE RestingOn(u, p, t, f, m, x)'
  BY <1>1, RestingStays
<1>2. ASSUME NEW e \in Devices, NEW k \in UploadTaps, Account[e] = u,
             BusyOn(p, e, k, t, f, m, x)
      PROVE  BusyOn(p, e, k, t, f, m, x)'
  BY <1>2, BusyStays
<1> QED BY <1>1, <1>2 DEF SteadyOn

LEMMA LooksKeeps ==
  ASSUME NEW u, NEW p, Pair(u, p), NEW t, NEW f, NEW m, NEW x, Named(u, p, t, f, m, x),
         SteadyOn(u, p, t, f, m, x), Looks
  PROVE  SteadyOn(u, p, t, f, m, x)'
<1>1. QueuesOK /\ blocks \subseteq TapBlocks /\ UNCHANGED storeVars /\ blocks' = blocks
  BY PairState DEF Looks
<1>2. Untouched(f) /\ Untouched(m) /\ Untouched(x)
  BY <1>1, UntouchedSame
<1>3. Fanned(p)' <=> Fanned(p)
  BY DEF Looks, Fanned
<1> QED BY <1>1, <1>2, <1>3, OnStays DEF SameBlocks

LEMMA ReopensKeeps ==
  ASSUME NEW u, NEW p, Pair(u, p), NEW t, NEW f, NEW m, NEW x, Named(u, p, t, f, m, x),
         SteadyOn(u, p, t, f, m, x), NEW d \in Devices, Reopens(d)
  PROVE  SteadyOn(u, p, t, f, m, x)'
<1>1. QueuesOK /\ blocks \subseteq TapBlocks /\ Reopen(d) /\ blocks' = blocks
  BY PairState DEF Reopens
<1>2. Untouched(f) /\ Untouched(m) /\ Untouched(x)
  BY <1>1, UntouchedReopen
<1>3. Fanned(p)' <=> Fanned(p)
  BY DEF Reopens, Fanned
<1> QED BY <1>1, <1>2, <1>3, OnStays DEF SameBlocks

LEMMA BeginsKeeps ==
  ASSUME NEW u, NEW p, Pair(u, p), NEW t, NEW f, NEW m, NEW x, Named(u, p, t, f, m, x),
         SteadyOn(u, p, t, f, m, x), NEW d \in Devices, NEW q \in Posts, Begins(d, q)
  PROVE  SteadyOn(u, p, t, f, m, x)'
<1>1. QueuesOK /\ blocks \subseteq TapBlocks /\ UNCHANGED storeVars /\ blocks' = blocks
  BY PairState DEF Begins
<1>2. Untouched(f) /\ Untouched(m) /\ Untouched(x)
  BY <1>1, UntouchedSame
<1>3. Fanned(p)' <=> Fanned(p)
  <2>1. uploads' = uploads \cup {<<d, q, "image">>} /\ <<d, q, "image">>[2] = q
        /\ uploaded' = uploaded \cup {q} /\ q \notin uploaded
    BY DEF Begins
  <2> QED BY <2>1 DEF Fanned
<1> QED BY <1>1, <1>2, <1>3, OnStays DEF SameBlocks

LEMMA StoresKeeps ==
  ASSUME NEW u, NEW p, Pair(u, p), NEW t, NEW f, NEW m, NEW x, Named(u, p, t, f, m, x),
         SteadyOn(u, p, t, f, m, x), NEW d \in Devices, NEW q \in Posts, Stores(d, q)
  PROVE  SteadyOn(u, p, t, f, m, x)'
<1>1. QueuesOK /\ blocks \subseteq TapBlocks /\ blocks' = blocks
  BY PairState DEF Stores
<1>2. PICK ws : ws = <<PostWrite(d, q)>>
  OBVIOUS
<1>3. PostWrite(d, q) \in Records
  <2>1. PostDoc(q) \in Docs
    BY OwnerType DEF PostDoc, Docs
  <2> QED BY <2>1, UploadTapType DEF PostWrite, Records
<1>4. ws \in Seq(Records) /\ EnqueueAll(d, ws) /\ \A i \in 1..Len(ws) : ws[i].doc = PostDoc(q)
  BY <1>2, <1>3 DEF Stores, PostWrite
<1>5. PostDoc(q) # f /\ PostDoc(q) # m /\ PostDoc(q) # x
  BY Names DEF Named
<1>6. Untouched(f) /\ Untouched(m) /\ Untouched(x)
  BY <1>1, <1>4, <1>5, UntouchedEnqueue
<1>7. Fanned(p)' <=> Fanned(p)
  <2>1. /\ uploads' = (uploads \ {<<d, q, "image">>}) \cup {<<d, q, "followers">>}
        /\ <<d, q, "image">> \in uploads /\ uploaded' = uploaded
        /\ <<d, q, "image">>[2] = q /\ <<d, q, "followers">>[2] = q
    BY DEF Stores
  <2> QED BY <2>1 DEF Fanned
<1> QED BY <1>1, <1>6, <1>7, OnStays DEF SameBlocks

LEMMA AppliesKeeps ==
  ASSUME NEW u, NEW p, Pair(u, p), NEW t, NEW f, NEW m, NEW x, Named(u, p, t, f, m, x),
         SteadyOn(u, p, t, f, m, x), NEW d \in Devices, Applies(d)
  PROVE  SteadyOn(u, p, t, f, m, x)'
<1>1. /\ QueuesOK /\ DocumentsOK /\ WritesOK /\ blocks \subseteq TapBlocks
      /\ Commit(d) /\ blocks' = blocks
  BY PairState DEF Applies
<1>2. /\ f \in Docs /\ m \in Docs /\ x \in Docs /\ f # m /\ f # x /\ m # x
  BY PairDocs DEF Named
<1>3. Fanned(p)' <=> Fanned(p)
  BY DEF Applies, Fanned
<1>4. PICK w : w = queue[d][applied[d] + 1]
  OBVIOUS
<1>5. /\ applied[d] + 1 \in 1..Len(queue[d]) /\ w \in Records
      /\ queue' = queue /\ \A y \in Docs : db'[y] = IF y = w.doc THEN w.val ELSE db[y]
  BY <1>1, <1>4, CommitFacts
<1>6. FollowWrite(d, w) \/ UploadWrite(d, w)
  BY <1>1, <1>4, <1>5, QueuedWrite
<1>7. \A y \in {f, m, x} : y # w.doc => Untouched(y)
  BY <1>1, <1>2, <1>4, UntouchedCommit
<1>8. ~NoWrites(w.doc) /\ ~Absent(queue[d], w.doc)
  BY <1>4, <1>5 DEF NoWrites, Absent
<1>9. SameBlocks(u, t)
  BY <1>1 DEF SameBlocks
<1>10. CASE w.doc \notin {f, m, x}
  BY <1>1, <1>3, <1>7, <1>9, <1>10, OnStays
<1>11. CASE w.doc = x
  <2>1. RestingOn(u, p, t, f, m, x)
    BY <1>8, <1>11 DEF SteadyOn, BusyOn, BusyWith
  <2>2. Fanned(p) /\ Fed(x, db[f])
    BY <1>8, <1>11, <2>1 DEF RestingOn
  <2>3. w.val = db[f]
    BY <1>4, <1>5, <1>11, <2>2 DEF Fed
  <2>4. db'[f] = db[f] /\ db'[m] = db[m] /\ db'[x] = db[f]
    BY <1>2, <1>5, <1>11, <2>3
  <2>5. Fed(x, db[f])'
    BY <1>5, <2>2, <2>4 DEF Fed, Arrived
  <2>6. NoWrites(f)' /\ NoWrites(m)'
    BY <1>5, <2>1 DEF NoWrites, RestingOn
  <2>7. RestingOn(u, p, t, f, m, x)'
    BY <1>1, <1>3, <2>1, <2>2, <2>4, <2>5, <2>6 DEF RestingOn, BlockOf
  <2> QED BY <2>7 DEF SteadyOn
<1>12. CASE w.doc = f \/ w.doc = m
  <2>1. TapWrite(u, t, d, w)
    BY <1>6, <1>12, WriterFollowing, WriterFollowers DEF Named
  <2>2. PICK e \in Devices, k \in UploadTaps : Account[e] = u /\ BusyOn(p, e, k, t, f, m, x)
    BY <1>8, <1>12 DEF SteadyOn, RestingOn
  <2>3. e = d
    BY <2>1, <2>2, PairPhone DEF TapWrite
  <2>4. w.val = k.val
    BY <1>4, <1>5, <1>12, <2>1, <2>2, <2>3 DEF BusyOn, BusyWith, TapWrite
  <2>5. BusyWith(e, k, t, f, m, x)'
    BY <1>1, <1>5, <2>2 DEF BusyOn, BusyWith, NoWrites
  <2>6. Block(e, "follow", k)' = Block(e, "follow", k) /\ Block(e, "feed", k)' = Block(e, "feed", k)
    BY DEF Block
  <2>7. CASE w.doc = f
    <3>1. Stage2(e, k, f, m)
      BY <1>8, <2>2, <2>3, <2>7 DEF BusyOn, Stage1, Stage3, Stage4
    <3>2. db'[f] = k.val
      BY <1>2, <1>5, <2>4, <2>7
    <3>3. Stage2(e, k, f, m)'
      BY <1>1, <1>5, <2>6, <3>1, <3>2 DEF Stage2, Arrived
    <3> QED BY <2>2, <2>5, <3>3 DEF SteadyOn, BusyOn
  <2>8. CASE w.doc = m
    <3>1. Stage3(e, k, f, m)
      BY <1>8, <2>2, <2>3, <2>8 DEF BusyOn, Stage1, Stage2, Stage4
    <3>2. db'[m] = k.val /\ db'[f] = db[f]
      BY <1>2, <1>5, <2>4, <2>8
    <3>3. Stage3(e, k, f, m)'
      BY <1>1, <1>5, <2>6, <3>1, <3>2 DEF Stage3, Arrived
    <3> QED BY <2>2, <2>5, <3>3 DEF SteadyOn, BusyOn
  <2> QED BY <1>12, <2>7, <2>8
<1> QED BY <1>10, <1>11, <1>12

(* A covered tap is the first thing its phone does about anybody. *)
LEMMA TakenKeeps ==
  ASSUME NEW u, NEW p, Pair(u, p), NEW t, NEW f, NEW m, NEW x, Named(u, p, t, f, m, x),
         SteadyOn(u, p, t, f, m, x), NEW d \in Devices, NEW k \in UploadTaps, Taken(d, k)
  PROVE  SteadyOn(u, p, t, f, m, x)'
<1> DEFINE nb == Block(d, "follow", k)
<1>1. /\ QueuesOK /\ WritesOK /\ blocks \subseteq TapBlocks
      /\ \A b \in blocks : taps[b.dev] >= 1
      /\ taps \in [Devices -> Nat]
  BY PairState
<1>2. /\ UNCHANGED storeVars /\ blocks' = blocks \cup {nb}
      /\ taps' = [taps EXCEPT ![d] = @ + 1]
  BY DEF Taken
<1>3. Untouched(f) /\ Untouched(m) /\ Untouched(x)
  BY <1>1, <1>2, UntouchedSame
<1>4. Fanned(p)' <=> Fanned(p)
  BY DEF Taken, Fanned
<1>5. /\ nb \in TapBlocks /\ nb.dev = d /\ nb.tap = k /\ nb.kind = "follow"
  BY DEF Block, TapBlocks
<1>6. blocks' \subseteq TapBlocks
  BY <1>1, <1>2, <1>5
<1>7. CASE ~(Account[d] = u /\ k.target = t)
  <2>1. ~BlockOf(nb, u, t)
    BY <1>5, <1>7 DEF BlockOf
  <2>2. SameBlocks(u, t)
    BY <1>2, <2>1 DEF SameBlocks
  <2> QED BY <1>3, <1>4, <1>6, <2>2, OnStays
<1>8. CASE Account[d] = u /\ k.target = t
  <2>1. taps[d] = 0
    <3>1. taps'[d] <= 1
      BY <1>8 DEF Pair, OneTap
    <3> QED BY <1>1, <1>2, <3>1
  <2>2. \A b \in blocks : b.dev # d
    BY <1>1, <2>1
  <2>3. \A c \in Devices : Account[c] = u => c = d
    BY <1>8, PairPhone
  <2>4. ASSUME NEW c \in Devices, NEW w, TapWrite(u, t, c, w) PROVE FALSE
    BY <2>1, <2>3, <2>4 DEF TapWrite
  <2>5. Following(u, t)'
    <3>1. nb \in blocks' /\ nb.dev = d /\ nb.kind # "notify" /\ nb.tap.target = t
      BY <1>2, <1>5, <1>8
    <3> HIDE DEF nb
    <3> QED BY <1>8, <3>1 DEF Following
  <2>6. ~Uploading(p)
    <3>1. ~Uploading(p)'
      BY <2>5 DEF Pair, Apart, Named
    <3>2. queue' = queue /\ uploads' = uploads
      BY <1>2 DEF Taken, storeVars
    <3> QED BY <3>1, <3>2 DEF Uploading
  <2>7. NoWrites(f) /\ NoWrites(m) /\ NoWrites(x)
    <3>1. ASSUME NEW c \in Devices, NEW i \in 1..Len(queue[c]), NEW w, w = queue[c][i]
          PROVE  w.doc # f /\ w.doc # m /\ w.doc # x
      <4>1. FollowWrite(c, w) \/ UploadWrite(c, w)
        BY <1>1, <3>1, QueuedWrite
      <4>2. w.doc # f
        BY <2>4, <4>1, WriterFollowing DEF Named
      <4>3. w.doc # m
        BY <2>4, <4>1, WriterFollowers DEF Named
      <4>4. w.doc # x
        <5>1. ASSUME w.doc = x PROVE w.tap.screen = "upload" /\ w.doc[3] = p
          BY <2>4, <4>1, <5>1, WriterFeed DEF Named
        <5> QED BY <2>6, <3>1, <5>1, WriterUploads
      <4> QED BY <4>2, <4>3, <4>4
    <3> QED BY <3>1 DEF NoWrites, Absent
  <2>8. k.screen = "profile"
    <3>1. ASSUME k.screen = "row" PROVE FALSE
      <4>1. t \in Users /\ t # Account[d] /\ rows[d][t].listed
        BY <1>8, <3>1 DEF Taken, Pair, Named
      <4>2. db[NotificationDoc(u, t)] = TRUE
        BY <1>8, <4>1 DEF Pair, UnderWay, RowsOK
      <4> QED BY <4>2 DEF Pair, OneTap, Named
    <3> QED BY <3>1 DEF Taken, Screens
  <2>9. RestingOn(u, p, t, f, m, x)
    <3> SUFFICES ASSUME NEW e \in Devices, NEW h \in UploadTaps, Account[e] = u,
                        BusyOn(p, e, h, t, f, m, x)
                 PROVE  FALSE
      BY DEF SteadyOn
    <3>1. e = d
      BY <2>3
    <3>2. Block(e, "follow", h) \notin blocks /\ Block(e, "feed", h) \notin blocks
      BY <2>2, <3>1 DEF Block
    <3>3. Absent(queue[e], f) /\ Absent(queue[e], m)
      BY <2>7 DEF NoWrites
    <3> QED BY <3>2, <3>3 DEF BusyOn, Stage1, Stage2, Stage3, Stage4, Once, Absent
  <2>10. db[x] = (Fanned(p) /\ db[f]) /\ db[f] = db[m]
    <3>1. db[x] \in BOOLEAN /\ db[f] \in BOOLEAN
      BY PairDocs DEF Named
    <3>2. Fanned(p) => db[x] = db[f]
      BY <2>7, <2>9 DEF RestingOn, Fed, NoWrites
    <3> QED BY <2>9, <3>1, <3>2 DEF RestingOn
  <2>11. /\ queue' = queue /\ db' = db
    BY <1>2 DEF storeVars
  <2>12. BusyWith(d, k, t, f, m, x)'
    <3>1. \A b \in blocks' : b.dev = d => b.tap = k
      BY <1>2, <1>5, <2>2
    <3> QED BY <1>8, <2>7, <2>8, <2>11, <3>1 DEF BusyWith, NoWrites, Absent
  <2>13. Stage1(p, d, k, f, m, x)'
    <3>1. nb \in blocks'
      BY <1>2
    <3>2. Block(d, "feed", k) \notin blocks'
      <4>1. Block(d, "feed", k).dev = d /\ Block(d, "feed", k).kind = "feed"
        BY DEF Block
      <4> QED BY <1>2, <1>5, <2>2, <4>1
    <3> QED BY <1>4, <2>7, <2>10, <2>11, <3>1, <3>2 DEF Stage1, NoWrites, Block
  <2> QED BY <1>8, <2>12, <2>13 DEF SteadyOn, BusyOn
<1> QED BY <1>7, <1>8

-----------------------------------------------------------------------------
(* A block that runs. *)

LEMMA BlockRest ==
  ASSUME NEW u, NEW p, Pair(u, p), NEW t, NEW f, NEW m, NEW x, Named(u, p, t, f, m, x),
         SteadyOn(u, p, t, f, m, x), NEW d \in Devices, NEW b \in blocks, NEW ws \in Batches,
         RunsBlock(d, b, ws), ~BlockOf(b, u, t)
  PROVE  SteadyOn(u, p, t, f, m, x)'
<1>1. QueuesOK /\ blocks \subseteq TapBlocks
  BY PairState
<1>2. b.dev = d /\ EnqueueAll(d, ws) /\ blocks' = blocks \ {b} /\ ws \in Seq(Records)
  BY DEF RunsBlock, Batches
<1>3. SameBlocks(u, t) /\ blocks' \subseteq TapBlocks
  BY <1>1, <1>2 DEF SameBlocks
<1>4. Fanned(p)' <=> Fanned(p)
  BY DEF RunsBlock, Fanned
<1>5. ASSUME NEW i \in 1..Len(ws) PROVE ws[i].doc # f /\ ws[i].doc # m /\ ws[i].doc # x
  <2>1. CASE b.kind = "follow" /\ ws = <<FirstWrite(b)>>
    <3>1. ws[i].doc = FollowingDoc(Account[b.dev], b.tap.target)
      BY <1>5, <2>1 DEF FirstWrite
    <3>2. ~(Account[b.dev] = u /\ b.tap.target = t)
      BY <2>1 DEF BlockOf
    <3> QED BY <3>1, <3>2, Names DEF Named
  <2>2. CASE b.kind = "notify" /\ ws = <<NotifyWrite(b)>>
    <3>1. ws[i].doc = NotificationDoc(b.tap.target, Account[b.dev])
      BY <1>5, <2>2 DEF NotifyWrite
    <3> QED BY <3>1, Names DEF Named
  <2>3. CASE b.kind = "feed" /\ \E q \in PostsOf(d, b.tap.target) : ws[i] = FeedWrite(d, b.tap, q)
    <3>1. PICK q \in PostsOf(d, b.tap.target) : ws[i] = FeedWrite(d, b.tap, q)
      BY <2>3
    <3>2. ws[i].doc = FeedDoc(Account[d], q) /\ Owner[q] = b.tap.target
      BY <3>1 DEF FeedWrite, PostsOf
    <3>3. ~(Account[d] = u /\ b.tap.target = t)
      BY <1>2, <2>3 DEF BlockOf
    <3>4. ~(Account[d] = u /\ q = p)
      BY <3>2, <3>3 DEF Named
    <3> QED BY <3>2, <3>4, Names DEF Named
  <2> QED BY <2>1, <2>2, <2>3 DEF RunsBlock
<1>6. Untouched(f) /\ Untouched(m) /\ Untouched(x)
  BY <1>1, <1>2, <1>5, UntouchedEnqueue
<1> QED BY <1>3, <1>4, <1>6, OnStays

(* The block of the covered tap. *)
LEMMA BlockBusy ==
  ASSUME NEW u, NEW p, Pair(u, p), NEW t, NEW f, NEW m, NEW x, Named(u, p, t, f, m, x),
         SteadyOn(u, p, t, f, m, x), NEW b \in blocks, BlockOf(b, u, t)
  PROVE  \E k \in UploadTaps :
           /\ BusyOn(p, b.dev, k, t, f, m, x) /\ b.tap = k /\ b.dev \in Devices
           /\ b = Block(b.dev, b.kind, k) /\ b.kind \in {"follow", "feed"}
<1>1. PICK e \in Devices, k \in UploadTaps : Account[e] = u /\ BusyOn(p, e, k, t, f, m, x)
  BY DEF SteadyOn, RestingOn
<1>2. b \in TapBlocks /\ b.dev \in Devices /\ Account[b.dev] = u /\ b.kind # "notify"
      /\ b.tap.target = t
  BY PairState DEF BlockOf, TapBlocks
<1>3. b.dev = e
  BY <1>1, <1>2, PairPhone
<1>4. b.tap = k
  BY <1>1, <1>2, <1>3 DEF BusyOn, BusyWith
<1>5. b = Block(b.dev, b.kind, b.tap) /\ b.kind \in {"follow", "feed"}
  BY <1>2 DEF Block, TapBlocks
<1> QED BY <1>1, <1>2, <1>3, <1>4, <1>5

LEMMA FollowBlockKeeps ==
  ASSUME NEW u, NEW p, Pair(u, p), NEW t, NEW f, NEW m, NEW x, Named(u, p, t, f, m, x),
         SteadyOn(u, p, t, f, m, x), NEW d \in Devices, NEW b \in blocks, NEW ws \in Batches,
         RunsBlock(d, b, ws), BlockOf(b, u, t), b.kind = "follow"
  PROVE  SteadyOn(u, p, t, f, m, x)'
<1>1. QueuesOK /\ blocks \subseteq TapBlocks
  BY PairState
<1>2. /\ b.dev = d /\ EnqueueAll(d, ws) /\ blocks' = blocks \ {b} /\ ws \in Seq(Records)
      /\ ws = <<FirstWrite(b)>>
  BY DEF RunsBlock, Batches
<1>3. PICK k \in UploadTaps : /\ BusyOn(p, d, k, t, f, m, x) /\ b.tap = k
                              /\ b = Block(d, "follow", k)
  BY <1>2, BlockBusy
<1>4. Stage1(p, d, k, f, m, x)
  BY <1>3 DEF BusyOn, Stage2, Stage3, Stage4
<1>5. Account[d] = u /\ k.target = t
  BY <1>2, <1>3 DEF BlockOf
<1>6. Len(ws) = 1 /\ ws[1].doc = f /\ ws[1].tap = k
  BY <1>2, <1>3, <1>5 DEF FirstWrite, Named
<1>7. f # m /\ f # x
  BY PairDocs DEF Named
<1>8. \A i \in 1..Len(ws) : ws[i].doc # m /\ ws[i].doc # x
  BY <1>6, <1>7
<1>9. Untouched(m) /\ Untouched(x)
  BY <1>1, <1>2, <1>8, UntouchedEnqueue
<1> DEFINE q == queue[d]
           r == queue'[d]
           n == applied[d]
<1>10. /\ q \in Seq(Records) /\ r \in Seq(Records) /\ Len(q) \in Nat /\ Len(r) = Len(q) + 1
       /\ \A i \in 1..Len(q) : r[i] = q[i]
       /\ r[Len(q) + 1] = ws[1]
       /\ n \in Nat /\ n <= Len(q) /\ applied'[d] = n /\ db' = db
  <2>1. 1 \in 1..Len(ws)
    BY <1>6
  <2> QED BY <1>1, <1>2, <1>6, <2>1, EnqueueFacts, PhoneFacts
<1>11. Absent(q, f) /\ Absent(q, m)
  BY <1>4 DEF Stage1
<1> HIDE DEF q, r, n
<1>12. Once(r, f)
  BY <1>6, <1>10, <1>11, GrowOnce
<1>13. Arrived(r, n, f, db[f], k.val)
  <2>1. \A i \in 1..n : i \in 1..Len(q)
    BY <1>10
  <2>2. \A i \in 1..n : r[i].doc # f
    BY <1>10, <1>11, <2>1 DEF Absent
  <2> QED BY <2>2 DEF Arrived
<1>14. Absent(r, m)
  BY <1>9, <1>11 DEF Untouched, SameWrites, q, r
<1>15. NoWrites(x)'
  BY <1>3, <1>9, NoWritesStay DEF BusyOn, BusyWith
<1>16. ASSUME NEW i \in 1..Len(r), r[i].doc \in {f, m} PROVE r[i].tap = k
  <2>1. CASE i \in 1..Len(q)
    BY <1>10, <1>11, <1>16, <2>1 DEF Absent
  <2>2. CASE i = Len(q) + 1
    BY <1>6, <1>10, <2>2
  <2> QED BY <1>10, <2>1, <2>2
<1>17. BusyWith(d, k, t, f, m, x)'
  BY <1>2, <1>3, <1>15, <1>16 DEF BusyOn, BusyWith, r
<1>18. Stage2(d, k, f, m)'
  <2>1. Block(d, "follow", k) \notin blocks' /\ Block(d, "feed", k) \notin blocks'
    BY <1>2, <1>3, <1>4 DEF Stage1
  <2> QED BY <1>10, <1>12, <1>13, <1>14, <2>1 DEF Stage2, Block, r
<1> QED BY <1>5, <1>17, <1>18 DEF SteadyOn, BusyOn

(* A write put at the end of a queue without one of its document. *)
LEMMA GrowFed ==
  ASSUME QueuesOK, NEW d \in Devices, NEW ws \in Batches, EnqueueAll(d, ws), NEW x, NEW v,
         NoWrites(x), \A i \in 1..Len(ws) : ws[i].doc = x => ws[i].val = v,
         \E i \in 1..Len(ws) : ws[i].doc = x
  PROVE  Fed(x, v)'
<1>1. ws \in Seq(Records)
  BY DEF Batches
<1>2. /\ Len(queue[d]) \in Nat /\ Len(ws) \in Nat /\ Len(queue'[d]) = Len(queue[d]) + Len(ws)
      /\ \A i \in 1..Len(queue[d]) : queue'[d][i] = queue[d][i]
      /\ \A i \in 1..Len(ws) : queue'[d][Len(queue[d]) + i] = ws[i]
      /\ \A i \in 1..Len(queue'[d]) : i > Len(queue[d]) =>
           i - Len(queue[d]) \in 1..Len(ws) /\ queue'[d][i] = ws[i - Len(queue[d])]
      /\ \A e \in Devices \ {d} : queue'[e] = queue[e]
      /\ applied' = applied /\ db' = db
  BY <1>1, EnqueueFacts, PhoneFacts
<1>3. \A e \in Devices : \A i \in 1..Len(queue[e]) : queue[e][i].doc # x
  BY DEF NoWrites, Absent
<1>4. ASSUME NEW e \in Devices, NEW i \in 1..Len(queue'[e]), queue'[e][i].doc = x
      PROVE  queue'[e][i].val = v
  <2>1. e = d
    BY <1>2, <1>3, <1>4
  <2>2. i > Len(queue[d])
    <3>1. i \in 1..Len(queue[d]) => FALSE
      BY <1>2, <1>3, <1>4, <2>1
    <3> QED BY <1>2, <2>1, <3>1
  <2>3. /\ i - Len(queue[d]) \in 1..Len(ws)
        /\ queue'[d][i] = ws[i - Len(queue[d])]
    BY <1>2, <2>1, <2>2
  <2> QED BY <1>4, <2>1, <2>3
<1>5. ASSUME NEW e \in Devices PROVE Arrived(queue'[e], applied'[e], x, db'[x], v)
  <2>1. applied[e] \in Nat /\ applied[e] <= Len(queue[e]) /\ Len(queue[e]) \in Nat
    BY PhoneFacts
  <2>2. \A i \in 1..applied[e] : i \in 1..Len(queue[e])
    BY <2>1
  <2>3. \A i \in 1..Len(queue[e]) : queue'[e][i] = queue[e][i]
    BY <1>2
  <2>4. \A i \in 1..applied'[e] : queue'[e][i].doc # x
    BY <1>2, <1>3, <2>2, <2>3
  <2> QED BY <2>4 DEF Arrived
<1>6. ~Absent(queue'[d], x)
  <2>1. PICK i \in 1..Len(ws) : ws[i].doc = x
    OBVIOUS
  <2>2. Len(queue[d]) + i \in 1..Len(queue'[d]) /\ queue'[d][Len(queue[d]) + i] = ws[i]
    <3> DEFINE n == Len(queue[d])
               l == Len(ws)
               n2 == Len(queue'[d])
    <3>1. n \in Nat /\ l \in Nat /\ n2 = n + l /\ i \in 1..l
      BY <1>2
    <3> HIDE DEF n, l, n2
    <3>2. n + i \in 1..n2
      BY <3>1
    <3>3. queue'[d][n + i] = ws[i]
      BY <1>2, <2>1 DEF n
    <3> QED BY <3>2, <3>3 DEF n, n2
  <2>3. queue'[d][Len(queue[d]) + i].doc = x
    BY <2>1, <2>2
  <2> QED BY <2>2, <2>3 DEF Absent
<1> QED BY <1>4, <1>5, <1>6 DEF Fed

LEMMA FeedBlockKeeps ==
  ASSUME NEW u, NEW p, Pair(u, p), NEW t, NEW f, NEW m, NEW x, Named(u, p, t, f, m, x),
         SteadyOn(u, p, t, f, m, x), NEW d \in Devices, NEW b \in blocks, NEW ws \in Batches,
         RunsBlock(d, b, ws), BlockOf(b, u, t), b.kind = "feed"
  PROVE  SteadyOn(u, p, t, f, m, x)'
<1>1. QueuesOK /\ WritesOK /\ DocumentsOK /\ blocks \subseteq TapBlocks /\ p \in Posts
  BY PairState DEF Pair
<1>2. /\ b.dev = d /\ EnqueueAll(d, ws) /\ blocks' = blocks \ {b} /\ ws \in Seq(Records)
      /\ \A i \in 1..Len(ws) : \E q \in PostsOf(d, b.tap.target) : ws[i] = FeedWrite(d, b.tap, q)
      /\ \A q \in PostsOf(d, b.tap.target) :
           \E i \in 1..Len(ws) : ws[i] = FeedWrite(d, b.tap, q)
  BY DEF RunsBlock, Batches
<1>3. PICK k \in UploadTaps : /\ BusyOn(p, d, k, t, f, m, x) /\ b.tap = k
                              /\ b = Block(d, "feed", k)
  BY <1>2, BlockBusy
<1>4. Stage4(d, k, f, m) /\ BusyWith(d, k, t, f, m, x)
  BY <1>3 DEF BusyOn, Stage1, Stage2, Stage3
<1>5. Account[d] = u /\ k.target = t
  BY <1>2, <1>3 DEF BlockOf
<1>6. Following(u, t)
  BY <1>2 DEF Following, BlockOf
<1>7. ~Uploading(p)
  BY <1>6 DEF Pair, Apart, Named
<1>8. /\ NoWrites(PostDoc(p))
      /\ Fanned(p) => db[PostDoc(p)] = TRUE
      /\ ~Fanned(p) => db[PostDoc(p)] = FALSE /\ p \notin uploaded
  BY <1>7, NotUploading
<1>9. /\ f # m /\ f # x /\ m # x /\ db[x] \in BOOLEAN
  BY PairDocs DEF Named
<1>10. ASSUME NEW i \in 1..Len(ws) PROVE ws[i].doc # f /\ ws[i].doc # m
  <2>1. \E q : ws[i].doc = FeedDoc(Account[d], q)
    <3>1. PICK q \in PostsOf(d, b.tap.target) : ws[i] = FeedWrite(d, b.tap, q)
      BY <1>2
    <3>2. ws[i].doc = FeedDoc(Account[d], q)
      BY <3>1 DEF FeedWrite
    <3> QED BY <3>2
  <2> QED BY <2>1, Names DEF Named
<1>11. Untouched(f) /\ Untouched(m)
  BY <1>1, <1>2, <1>10, UntouchedEnqueue
<1>12. NoWrites(f) /\ NoWrites(m)
  <2>1. ASSUME NEW c \in Devices, NEW i \in 1..Len(queue[c]), NEW w, w = queue[c][i],
               w.doc = f \/ w.doc = m
        PROVE  FALSE
    <3>1. FollowWrite(c, w) \/ UploadWrite(c, w)
      BY <1>1, <2>1, QueuedWrite
    <3>2. TapWrite(u, t, c, w)
      BY <2>1, <3>1, WriterFollowing, WriterFollowers DEF Named
    <3>3. c = d
      BY <1>5, <3>2, PairPhone DEF TapWrite
    <3> QED BY <1>4, <2>1, <3>3 DEF Stage4, Absent
  <2> QED BY <2>1 DEF NoWrites, Absent
<1>13. NoWrites(f)' /\ NoWrites(m)'
  BY <1>11, <1>12, NoWritesStay
<1>14. db'[f] = k.val /\ db'[m] = k.val /\ db' = db
  <2>1. db' = db
    BY <1>2 DEF EnqueueAll
  <2> QED BY <1>4, <2>1 DEF Stage4
<1>15. ASSUME NEW c \in blocks' PROVE ~BlockOf(c, u, t)
  <2> SUFFICES ASSUME BlockOf(c, u, t) PROVE FALSE
    OBVIOUS
  <2>1. c \in blocks /\ c # b /\ c \in TapBlocks /\ c.dev \in Devices
    BY <1>1, <1>2 DEF TapBlocks
  <2>2. c.dev = d /\ c.kind # "notify" /\ c.tap.target = t
    BY <1>5, <2>1, PairPhone DEF BlockOf
  <2>3. c.tap = k
    BY <1>4, <2>1, <2>2 DEF BusyWith
  <2>4. c = Block(c.dev, c.kind, c.tap) /\ c.kind \in {"follow", "feed"}
    BY <2>1, <2>2 DEF Block, TapBlocks
  <2> QED BY <1>3, <1>4, <2>1, <2>2, <2>3, <2>4 DEF Stage4
<1>16. Fanned(p)' <=> Fanned(p)
  BY DEF RunsBlock, Fanned
<1>17. NoWrites(x)
  BY <1>4 DEF BusyWith
<1>18. Owner[p] = b.tap.target /\ b.tap = k /\ LocalView(d, PostDoc(p)) = db[PostDoc(p)]
  <2>1. Absent(queue[d], PostDoc(p))
    BY <1>8 DEF NoWrites
  <2>2. LocalView(d, PostDoc(p)) = db[PostDoc(p)]
    BY <2>1, ViewStored
  <2> QED BY <1>3, <1>5, <2>2 DEF Named
<1>19. CASE Fanned(p)
  <2>1. p \in PostsOf(d, b.tap.target)
    <3>1. LocalView(d, PostDoc(p))
      BY <1>8, <1>18, <1>19
    <3> QED BY <1>1, <1>18, <3>1 DEF PostsOf
  <2>2. \E i \in 1..Len(ws) : ws[i].doc = x
    <3>1. PICK i \in 1..Len(ws) : ws[i] = FeedWrite(d, b.tap, p)
      BY <1>2, <2>1
    <3>2. ws[i].doc = x
      BY <1>5, <3>1 DEF FeedWrite, Named
    <3> QED BY <3>2
  <2>3. \A i \in 1..Len(ws) : ws[i].val = k.val
    <3> SUFFICES ASSUME NEW i \in 1..Len(ws) PROVE ws[i].val = k.val
      OBVIOUS
    <3>1. PICK q \in PostsOf(d, b.tap.target) : ws[i] = FeedWrite(d, b.tap, q)
      BY <1>2
    <3> QED BY <1>18, <3>1 DEF FeedWrite
  <2>4. Fed(x, k.val)'
    BY <1>1, <1>2, <1>17, <2>2, <2>3, GrowFed
  <2>5. Fed(x, db[f])'
    BY <1>14, <2>4 DEF Fed
  <2> QED BY <1>13, <1>14, <1>15, <1>16, <1>19, <2>5 DEF SteadyOn, RestingOn, BlockOf
<1>20. CASE ~Fanned(p)
  <2>1. p \notin PostsOf(d, b.tap.target)
    BY <1>8, <1>18, <1>20 DEF PostsOf
  <2>2. ASSUME NEW i \in 1..Len(ws) PROVE ws[i].doc # x
    <3>1. PICK q \in PostsOf(d, b.tap.target) : ws[i] = FeedWrite(d, b.tap, q)
      BY <1>2
    <3>2. ws[i].doc = FeedDoc(Account[d], q) /\ q # p
      BY <2>1, <3>1 DEF FeedWrite
    <3> QED BY <3>2, Names DEF Named
  <2>3. Untouched(x)
    BY <1>1, <1>2, <2>2, UntouchedEnqueue
  <2>4. NoWrites(x)'
    BY <1>17, <2>3, NoWritesStay
  <2>5. db[x] = FALSE
    <3>1. u \in Users /\ Quiet /\ wasPost \subseteq uploaded
      BY DEF Pair, UnderWay, PostsOK
    <3>2. p \notin SentPosts
      BY <1>8, <1>20, <3>1 DEF SentPosts, Quiet
    <3>3. ~db[x]
      BY <1>1, <3>1, <3>2 DEF DocumentsOK, Named
    <3> QED BY <1>9, <3>3
  <2> QED BY <1>13, <1>14, <1>15, <1>16, <1>20, <2>4, <2>5 DEF SteadyOn, RestingOn, BlockOf
<1> QED BY <1>19, <1>20

LEMMA BlockKeeps ==
  ASSUME NEW u, NEW p, Pair(u, p), NEW t, NEW f, NEW m, NEW x, Named(u, p, t, f, m, x),
         SteadyOn(u, p, t, f, m, x), NEW d \in Devices, NEW b \in blocks, NEW ws \in Batches,
         RunsBlock(d, b, ws)
  PROVE  SteadyOn(u, p, t, f, m, x)'
<1>1. CASE ~BlockOf(b, u, t)
  BY <1>1, BlockRest
<1>2. CASE BlockOf(b, u, t)
  <2>1. b.kind \in {"follow", "feed"}
    BY <1>2, BlockBusy
  <2>2. b.kind = "follow" => SteadyOn(u, p, t, f, m, x)'
    BY <1>2, FollowBlockKeeps
  <2>3. b.kind = "feed" => SteadyOn(u, p, t, f, m, x)'
    BY <1>2, FeedBlockKeeps
  <2> QED BY <2>1, <2>2, <2>3
<1> QED BY <1>1, <1>2

-----------------------------------------------------------------------------
(* An answered write. *)

(* The first write of x is put where one is answered. *)
LEMMA ReplaceOnce ==
  ASSUME NEW S, NEW q \in Seq(S), NEW q2 \in Seq(S), Len(q) > 0, Len(q2) = Len(q),
         \A i \in 1..Len(q) - 1 : q2[i] = q[i + 1], NEW x, Absent(q, x), q2[Len(q)].doc = x,
         NEW n \in Nat, n <= Len(q), NEW stored, NEW v
  PROVE  Once(q2, x) /\ Arrived(q2, n - 1, x, stored, v)
<1>1. Len(q) \in Nat /\ Len(q) \in 1..Len(q2)
  OBVIOUS
<1>2. ASSUME NEW i \in 1..Len(q) - 1 PROVE q2[i].doc # x
  <2>1. i + 1 \in 1..Len(q) /\ q2[i] = q[i + 1]
    BY <1>1
  <2> QED BY <2>1 DEF Absent
<1>3. ASSUME NEW i \in 1..Len(q2), q2[i].doc = x PROVE i = Len(q)
  <2>1. i # Len(q) => i \in 1..Len(q) - 1
    BY <1>1
  <2> QED BY <1>2, <1>3, <2>1
<1>4. Once(q2, x)
  BY <1>1, <1>3 DEF Once
<1>5. \A i \in 1..n - 1 : i \in 1..Len(q) - 1
  BY <1>1
<1> QED BY <1>2, <1>4, <1>5 DEF Arrived

LEMMA OneBatch == <<>> \in Batches /\ \A r \in Records : <<r>> \in Batches
<1>1. <<>> \in Seq(Records) /\ \A r \in Records : <<r>> \in Seq(Records)
  OBVIOUS
<1> QED BY <1>1 DEF Batches

LEMMA AnswerRest ==
  ASSUME NEW u, NEW p, Pair(u, p), NEW t, NEW f, NEW m, NEW x, Named(u, p, t, f, m, x),
         SteadyOn(u, p, t, f, m, x), NEW d \in Devices, NEW ws \in Batches,
         Len(ws) \in {0, 1}, Answers(d, ws), queue[d][1].doc \notin {f, m, x},
         Len(ws) = 1 => ws[1].doc \notin {f, m, x}, UNCHANGED <<uploads, uploaded>>,
         blocks' \subseteq TapBlocks, SameBlocks(u, t)
  PROVE  SteadyOn(u, p, t, f, m, x)'
<1>1. QueuesOK /\ ws \in Seq(Records)
  BY PairState DEF Batches
<1>2. Untouched(f) /\ Untouched(m) /\ Untouched(x)
  BY <1>1, UntouchedAnswers
<1>3. Fanned(p)' <=> Fanned(p)
  BY DEF Fanned
<1> QED BY <1>2, <1>3, OnStays

(* The oldest write is one of the covered tap. *)
LEMMA AnswerBusy ==
  ASSUME NEW u, NEW p, Pair(u, p), NEW t, NEW f, NEW m, NEW x, Named(u, p, t, f, m, x),
         SteadyOn(u, p, t, f, m, x), NEW d \in Devices, Answered(d), NEW w, w = Oldest(d),
         w.doc = f \/ w.doc = m
  PROVE  /\ TapWrite(u, t, d, w) /\ Account[d] = u
         /\ \E k \in UploadTaps : /\ BusyOn(p, d, k, t, f, m, x) /\ w.tap = k
                                  /\ w.doc = f => Stage2(d, k, f, m)
                                  /\ w.doc = m => Stage3(d, k, f, m)
<1>1. /\ 1 \in 1..Len(queue[d]) /\ w = queue[d][1]
  BY OldestFacts DEF Pair
<1>2. FollowWrite(d, w) \/ UploadWrite(d, w)
  BY OldestFacts DEF Pair
<1>3. TapWrite(u, t, d, w)
  BY <1>2, WriterFollowing, WriterFollowers DEF Named
<1>5. ~Absent(queue[d], w.doc) /\ ~NoWrites(w.doc)
  BY <1>1 DEF Absent, NoWrites
<1>6. PICK e \in Devices, k \in UploadTaps : Account[e] = u /\ BusyOn(p, e, k, t, f, m, x)
  BY <1>5 DEF SteadyOn, RestingOn
<1>7. e = d
  BY <1>3, <1>6, PairPhone DEF TapWrite
<1>8. w.tap = k
  BY <1>1, <1>6, <1>7 DEF BusyOn, BusyWith
<1>9. w.doc = f => Stage2(d, k, f, m)
  BY <1>5, <1>6, <1>7 DEF BusyOn, Stage1, Stage3, Stage4
<1>10. w.doc = m => Stage3(d, k, f, m)
  BY <1>5, <1>6, <1>7 DEF BusyOn, Stage1, Stage2, Stage4
<1> QED BY <1>3, <1>6, <1>7, <1>8, <1>9, <1>10 DEF TapWrite

LEMMA OnlyAnswersKeeps ==
  ASSUME NEW u, NEW p, Pair(u, p), NEW t, NEW f, NEW m, NEW x, Named(u, p, t, f, m, x),
         SteadyOn(u, p, t, f, m, x), NEW d \in Devices, OnlyAnswers(d, Oldest(d))
  PROVE  SteadyOn(u, p, t, f, m, x)'
<1>1. QueuesOK /\ WritesOK /\ blocks \subseteq TapBlocks
  BY PairState
<1>2. PICK w : w = Oldest(d)
  OBVIOUS
<1>3. PICK ws \in Batches : ws = <<>>
  BY OneBatch
<1>4. /\ Answers(d, ws) /\ Answered(d) /\ Len(ws) = 0 /\ ws \in Seq(Records)
      /\ blocks' = blocks /\ UNCHANGED <<uploads, uploaded>>
      /\ w.then \in {"none", "uploaded"} \/ (w.then = "done" /\ w.tap.screen = "row")
  BY <1>2, <1>3 DEF OnlyAnswers, Answers, Batches
<1>5. 1 \in 1..Len(queue[d]) /\ w = queue[d][1]
  BY <1>2, <1>4, OldestFacts DEF Pair
<1>6. FollowWrite(d, w) \/ UploadWrite(d, w)
  BY <1>2, <1>4, OldestFacts DEF Pair
<1>7. f # m /\ f # x /\ m # x
  BY PairDocs DEF Named
<1>8. w.doc # f
  BY <1>4, <1>6, WriterFollowing DEF Named
<1>9. w.doc # m
  <2> SUFFICES ASSUME w.doc = m PROVE FALSE
    OBVIOUS
  <2>1. w.then = "done"
    BY <1>6, WriterFollowers DEF Named
  <2>2. w.tap.screen = "row"
    BY <1>4, <2>1
  <2>3. \E k \in UploadTaps : BusyOn(p, d, k, t, f, m, x) /\ w.tap = k
    BY <1>2, <1>4, AnswerBusy
  <2> QED BY <2>2, <2>3 DEF BusyOn, BusyWith
<1>10. CASE w.doc # x
  <2>1. queue[d][1].doc \notin {f, m, x} /\ SameBlocks(u, t)
    BY <1>1, <1>4, <1>5, <1>8, <1>9, <1>10 DEF SameBlocks
  <2> QED BY <1>1, <1>4, <2>1, AnswerRest
<1>11. CASE w.doc = x
  <2>1. ~NoWrites(x)
    BY <1>5, <1>11 DEF NoWrites, Absent
  <2>2. RestingOn(u, p, t, f, m, x)
    BY <2>1 DEF SteadyOn, BusyOn, BusyWith
  <2>3. Fanned(p) /\ Fed(x, db[f])
    BY <2>1, <2>2 DEF RestingOn
  <2>4. Untouched(f) /\ Untouched(m)
    <3>1. Len(ws) \in {0, 1} /\ Len(ws) # 1 /\ queue[d][1].doc # f /\ queue[d][1].doc # m
      BY <1>4, <1>5, <1>8, <1>9
    <3> QED BY <1>1, <1>4, <3>1, UntouchedAnswers
  <2>5. NoWrites(f)' /\ NoWrites(m)'
    BY <2>2, <2>4, NoWritesStay DEF RestingOn
  <2> DEFINE q == queue[d]
             r == queue'[d]
             n == applied[d]
             v == db[f]
  <2>6. /\ q \in Seq(Records) /\ r \in Seq(Records) /\ Len(q) > 0 /\ Len(r) = Len(q) - 1
        /\ \A i \in 1..Len(q) - 1 : r[i] = q[i + 1]
        /\ n \in Nat \ {0} /\ n <= Len(q) /\ applied'[d] = n - 1 /\ db' = db
        /\ \A e \in Devices \ {d} : queue'[e] = queue[e] /\ applied'[e] = applied[e]
    <3>1. Len(queue[d]) \in Nat /\ Len(queue'[d]) = Len(queue[d]) - 1 + Len(ws)
          /\ queue[d] \in Seq(Records) /\ applied[d] <= Len(queue[d])
      BY <1>1, <1>4, AnswersFacts, PhoneFacts
    <3>2. Len(queue'[d]) = Len(queue[d]) - 1
      BY <1>4, <3>1
    <3> QED BY <1>1, <1>4, <3>1, <3>2, AnswersFacts
  <2>7. /\ Arrived(q, n, x, db[x], v)
        /\ \A i \in 1..Len(q) : q[i].doc = x => q[i].val = v
    BY <2>3 DEF Fed
  <2>8. /\ Arrived(r, n - 1, x, db[x], v)
        /\ \A i \in 1..Len(r) : r[i].doc = x => r[i].val = v
        /\ q[1].doc = x => db[x] = v
    <3>1. PICK stored : stored = db[x]
      OBVIOUS
    <3> HIDE DEF q, r, n, v
    <3>2. Arrived(q, n, x, stored, v)
      BY <2>7, <3>1
    <3>3. /\ q \in Seq(Records) /\ r \in Seq(Records) /\ Len(q) > 0 /\ Len(r) = Len(q) - 1
          /\ \A i \in 1..Len(q) - 1 : r[i] = q[i + 1]
          /\ n \in Nat \ {0} /\ n <= Len(q)
          /\ \A i \in 1..Len(q) : q[i].doc = x => q[i].val = v
      BY <2>6, <2>7
    <3>4. Arrived(r, n - 1, x, stored, v)
      BY <3>2, <3>3, ShrinkFed
    <3>5. \A i \in 1..Len(r) : r[i].doc = x => r[i].val = v
      BY <3>2, <3>3, ShrinkFed
    <3>6. q[1].doc = x => stored = v
      BY <3>2, <3>3, ShrinkFed
    <3> QED BY <3>1, <3>4, <3>5, <3>6
  <2>9. db[x] = v
    BY <1>5, <1>11, <2>8
  <2>10. ASSUME NEW e \in Devices
         PROVE  /\ \A i \in 1..Len(queue'[e]) : queue'[e][i].doc = x => queue'[e][i].val = v
                /\ Arrived(queue'[e], applied'[e], x, db'[x], v)
    <3>1. CASE e = d
      BY <2>6, <2>8, <3>1
    <3>2. CASE e # d
      BY <2>3, <2>6, <3>2 DEF Fed
    <3> QED BY <3>1, <3>2
  <2>11. Fed(x, db[f])'
    BY <2>6, <2>9, <2>10 DEF Fed
  <2>12. Fanned(p)' <=> Fanned(p)
    BY <1>4 DEF Fanned
  <2> QED BY <1>4, <2>2, <2>3, <2>5, <2>6, <2>11, <2>12 DEF SteadyOn, RestingOn, BlockOf
<1> QED BY <1>10, <1>11

LEMMA MirrorsKeeps ==
  ASSUME NEW u, NEW p, Pair(u, p), NEW t, NEW f, NEW m, NEW x, Named(u, p, t, f, m, x),
         SteadyOn(u, p, t, f, m, x), NEW d \in Devices, Mirrors(d, Oldest(d))
  PROVE  SteadyOn(u, p, t, f, m, x)'
<1>1. QueuesOK /\ WritesOK /\ blocks \subseteq TapBlocks
  BY PairState
<1>2. PICK w : w = Oldest(d)
  OBVIOUS
<1>3. /\ FollowWrite(d, w) /\ w \in Records
      /\ w.doc = FollowingDoc(Account[d], w.tap.target) /\ w.val = w.tap.val
      /\ SecondWrite(d, w) \in Records
      /\ SecondWrite(d, w).doc = FollowersDoc(w.tap.target, Account[d])
      /\ SecondWrite(d, w).tap = w.tap
  BY <1>2, MirrorWrite DEF Pair
<1>4. PICK ws \in Batches : ws = <<SecondWrite(d, w)>>
  BY <1>3, OneBatch
<1>5. /\ Answers(d, ws) /\ Answered(d) /\ Len(ws) = 1 /\ ws \in Seq(Records)
      /\ ws[1] = SecondWrite(d, w)
      /\ blocks' = blocks /\ UNCHANGED <<uploads, uploaded>>
  BY <1>2, <1>4 DEF Mirrors, Answers, Batches
<1>6. 1 \in 1..Len(queue[d]) /\ w = queue[d][1]
  BY <1>2, <1>5, OldestFacts DEF Pair
<1>7. f # m /\ f # x /\ m # x
  BY PairDocs DEF Named
<1>8. CASE ~(Account[d] = u /\ w.tap.target = t)
  <2>1. w.doc \notin {f, m, x}
    BY <1>3, <1>8, Names DEF Named
  <2>2. ws[1].doc \notin {f, m, x}
    BY <1>3, <1>5, <1>8, Names DEF Named
  <2>3. SameBlocks(u, t)
    BY <1>5 DEF SameBlocks
  <2> QED BY <1>1, <1>5, <1>6, <2>1, <2>2, <2>3, AnswerRest
<1>9. CASE Account[d] = u /\ w.tap.target = t
  <2>1. w.doc = f /\ ws[1].doc = m
    BY <1>3, <1>5, <1>9 DEF Named
  <2>2. PICK k \in UploadTaps : /\ BusyOn(p, d, k, t, f, m, x) /\ w.tap = k
                                /\ Stage2(d, k, f, m)
    BY <1>2, <1>5, <2>1, AnswerBusy
  <2>3. Untouched(x)
    BY <1>1, <1>5, <1>6, <1>7, <2>1, UntouchedAnswers
  <2> DEFINE q == queue[d]
             r == queue'[d]
             n == applied[d]
  <2>4. /\ q \in Seq(Records) /\ r \in Seq(Records) /\ Len(q) > 0 /\ Len(r) = Len(q)
        /\ \A i \in 1..Len(q) - 1 : r[i] = q[i + 1]
        /\ r[Len(q)] = ws[1]
        /\ n \in Nat \ {0} /\ n <= Len(q) /\ applied'[d] = n - 1 /\ db' = db
        /\ q[1] = w
    <3>1. Len(queue[d]) \in Nat /\ Len(queue'[d]) = Len(queue[d]) - 1 + Len(ws)
          /\ queue[d] \in Seq(Records) /\ applied[d] <= Len(queue[d])
      BY <1>1, <1>5, AnswersFacts, PhoneFacts
    <3>2. Len(queue'[d]) = Len(queue[d])
      BY <1>5, <3>1
    <3> QED BY <1>1, <1>5, <1>6, <3>1, <3>2, AnswersFacts
  <2>5. Once(q, f) /\ Absent(q, m) /\ Arrived(q, n, f, db[f], k.val)
    BY <2>2 DEF Stage2
  <2> HIDE DEF q, r, n
  <2>6. Absent(r, f)
    BY <1>7, <2>1, <2>4, <2>5, ShrinkOnce
  <2>7. Once(r, m) /\ Arrived(r, n - 1, m, db[m], k.val)
    BY <2>1, <2>4, <2>5, ReplaceOnce
  <2>8. db[f] = k.val
    <3>1. 1 \in 1..n
      BY <2>4
    <3> QED BY <2>1, <2>4, <2>5, <3>1 DEF Arrived
  <2>9. ASSUME NEW i \in 1..Len(r), r[i].doc \in {f, m} PROVE r[i].tap = k
    <3>1. CASE i = Len(q)
      BY <1>3, <1>5, <2>2, <2>4, <3>1
    <3>2. CASE i # Len(q)
      <4>1. i \in 1..Len(q) - 1 /\ i + 1 \in 1..Len(q)
        BY <2>4, <3>2
      <4>2. r[i] = q[i + 1]
        BY <2>4, <4>1
      <4>3. q[i + 1].doc \in {f, m}
        BY <2>9, <4>2
      <4>4. q[i + 1].tap = k
        BY <2>2, <4>1, <4>3 DEF BusyOn, BusyWith, q
      <4> QED BY <4>2, <4>4
    <3> QED BY <3>1, <3>2
  <2>10. NoWrites(x)'
    BY <2>2, <2>3, NoWritesStay DEF BusyOn, BusyWith
  <2>11. BusyWith(d, k, t, f, m, x)'
    BY <1>5, <2>2, <2>9, <2>10 DEF BusyOn, BusyWith, r
  <2>12. Stage3(d, k, f, m)'
    BY <1>5, <2>2, <2>4, <2>6, <2>7, <2>8 DEF Stage2, Stage3, Block, r
  <2> QED BY <1>9, <2>11, <2>12 DEF SteadyOn, BusyOn
<1> QED BY <1>8, <1>9

LEMMA ProfileAnswersKeeps ==
  ASSUME NEW u, NEW p, Pair(u, p), NEW t, NEW f, NEW m, NEW x, Named(u, p, t, f, m, x),
         SteadyOn(u, p, t, f, m, x), NEW d \in Devices, ProfileAnswers(d, Oldest(d))
  PROVE  SteadyOn(u, p, t, f, m, x)'
<1>1. QueuesOK /\ WritesOK /\ blocks \subseteq TapBlocks
  BY PairState
<1>2. PICK w : w = Oldest(d)
  OBVIOUS
<1> DEFINE new == [dev : {d}, tap : {w.tap},
                   kind : IF w.tap.val THEN {"notify", "feed"} ELSE {"feed"}]
<1>3. PICK ws \in Batches : ws = <<>>
  BY OneBatch
<1>4. /\ Answers(d, ws) /\ Answered(d) /\ Len(ws) = 0 /\ ws \in Seq(Records)
      /\ blocks' = blocks \cup new /\ UNCHANGED <<uploads, uploaded>>
      /\ w.then = "done" /\ w.tap.screen = "profile"
  BY <1>2, <1>3 DEF ProfileAnswers, Answers, Batches
<1>5. 1 \in 1..Len(queue[d]) /\ w = queue[d][1] /\ w \in Records
  BY <1>2, <1>4, OldestFacts DEF Pair
<1>6. FollowWrite(d, w)
  BY <1>2, <1>4, OldestFacts DEF Pair
<1>7. w.doc = FollowersDoc(w.tap.target, Account[d])
  BY <1>4, <1>6 DEF FollowWrite
<1>8. f # m /\ f # x /\ m # x
  BY PairDocs DEF Named
<1>9. /\ new \subseteq TapBlocks /\ Block(d, "feed", w.tap) \in new
      /\ \A b \in new : b.dev = d /\ b.tap = w.tap /\ b.kind \in {"notify", "feed"}
  BY <1>5 DEF TapBlocks, Records, Block
<1> HIDE DEF new
<1>10. blocks' \subseteq TapBlocks
  BY <1>1, <1>4, <1>9
<1>11. CASE ~(Account[d] = u /\ w.tap.target = t)
  <2>1. w.doc \notin {f, m, x}
    BY <1>7, <1>11, Names DEF Named
  <2>2. SameBlocks(u, t)
    BY <1>4, <1>9, <1>11 DEF SameBlocks, BlockOf
  <2> QED BY <1>1, <1>4, <1>5, <1>10, <2>1, <2>2, AnswerRest
<1>12. CASE Account[d] = u /\ w.tap.target = t
  <2>1. w.doc = m
    BY <1>7, <1>12 DEF Named
  <2>2. PICK k \in UploadTaps : /\ BusyOn(p, d, k, t, f, m, x) /\ w.tap = k
                                /\ Stage3(d, k, f, m)
    BY <1>2, <1>4, <2>1, AnswerBusy
  <2>3. Untouched(f) /\ Untouched(x)
    <3>1. Len(ws) \in {0, 1} /\ Len(ws) # 1 /\ queue[d][1].doc # f /\ queue[d][1].doc # x
      BY <1>4, <1>5, <1>8, <2>1
    <3> QED BY <1>1, <1>4, <3>1, UntouchedAnswers
  <2> DEFINE q == queue[d]
             r == queue'[d]
             n == applied[d]
  <2>4. /\ q \in Seq(Records) /\ r \in Seq(Records) /\ Len(q) > 0 /\ Len(r) = Len(q) - 1
        /\ \A i \in 1..Len(q) - 1 : r[i] = q[i + 1]
        /\ n \in Nat \ {0} /\ n <= Len(q) /\ applied'[d] = n - 1 /\ db' = db
        /\ q[1] = w
    <3>1. Len(queue[d]) \in Nat /\ Len(queue'[d]) = Len(queue[d]) - 1 + Len(ws)
          /\ queue[d] \in Seq(Records) /\ applied[d] <= Len(queue[d])
      BY <1>1, <1>4, AnswersFacts, PhoneFacts
    <3>2. Len(queue'[d]) = Len(queue[d]) - 1
      BY <1>4, <3>1
    <3> QED BY <1>1, <1>4, <1>5, <3>1, <3>2, AnswersFacts
  <2>5. Once(q, m) /\ Arrived(q, n, m, db[m], k.val) /\ Absent(q, f)
    BY <2>2 DEF Stage3
  <2> HIDE DEF q, r, n
  <2>6. Absent(r, m)
    <3>1. Len(r) \in {Len(q) - 1, Len(q)} /\ (Len(r) = Len(q) => r[Len(q)].doc # m)
      BY <2>4
    <3> QED BY <2>1, <2>4, <2>5, <3>1, ShrinkOnce
  <2>7. Absent(r, f)
    BY <2>3, <2>5 DEF Untouched, SameWrites, q, r
  <2>8. db[m] = k.val
    <3>1. 1 \in 1..n
      BY <2>4
    <3> QED BY <2>1, <2>4, <2>5, <3>1 DEF Arrived
  <2>9. NoWrites(x)'
    BY <2>2, <2>3, NoWritesStay DEF BusyOn, BusyWith
  <2>10. BusyWith(d, k, t, f, m, x)'
    <3>1. \A b \in blocks' : b.dev = d /\ b.kind # "notify" /\ b.tap.target = t => b.tap = k
      BY <1>4, <1>9, <2>2 DEF BusyOn, BusyWith
    <3>2. \A i \in 1..Len(r) : r[i].doc \notin {f, m}
      BY <2>6, <2>7 DEF Absent
    <3> QED BY <2>2, <2>9, <3>1, <3>2 DEF BusyOn, BusyWith, r
  <2>11. Stage4(d, k, f, m)'
    <3>1. Block(d, "follow", k) \notin blocks'
      <4>1. Block(d, "follow", k).kind = "follow"
        BY DEF Block
      <4> QED BY <1>4, <1>9, <2>2, <4>1 DEF Stage3
    <3>2. Block(d, "feed", k) \in blocks'
      BY <1>4, <1>9, <2>2
    <3> QED BY <2>2, <2>4, <2>6, <2>7, <2>8, <3>1, <3>2 DEF Stage3, Stage4, Block, r
  <2> QED BY <1>12, <2>10, <2>11 DEF SteadyOn, BusyOn
<1> QED BY <1>11, <1>12

-----------------------------------------------------------------------------
(* The feeds of a post are written. *)

LEMMA FansOutRest ==
  ASSUME NEW u, NEW p, Pair(u, p), NEW t, NEW f, NEW m, NEW x, Named(u, p, t, f, m, x),
         SteadyOn(u, p, t, f, m, x), NEW d \in Devices, NEW q \in Posts, q # p,
         NEW ws \in Batches, FansOut(d, q, ws)
  PROVE  SteadyOn(u, p, t, f, m, x)'
<1>1. QueuesOK /\ blocks \subseteq TapBlocks /\ blocks' = blocks /\ ws \in Seq(Records)
      /\ EnqueueAll(d, ws)
  BY PairState DEF FansOut, Batches
<1>2. Fanned(p)' <=> Fanned(p)
  <2>1. /\ uploads' = uploads \ {<<d, q, "followers">>} /\ <<d, q, "followers">>[2] = q
        /\ uploaded' = uploaded
    BY DEF FansOut
  <2> QED BY <2>1 DEF Fanned
<1>3. ASSUME NEW i \in 1..Len(ws) PROVE ws[i].doc # f /\ ws[i].doc # m /\ ws[i].doc # x
  <2>1. PICK v : ws[i] = FeedsWrite(d, v, q)
    BY DEF FansOut
  <2>2. ws[i].doc = FeedDoc(v, q)
    BY <2>1 DEF FeedsWrite
  <2> QED BY <2>2, Names DEF Named
<1>4. Untouched(f) /\ Untouched(m) /\ Untouched(x)
  BY <1>1, <1>3, UntouchedEnqueue
<1> QED BY <1>1, <1>2, <1>4, OnStays DEF SameBlocks

LEMMA FansOutKeeps ==
  ASSUME NEW u, NEW p, Pair(u, p), NEW t, NEW f, NEW m, NEW x, Named(u, p, t, f, m, x),
         SteadyOn(u, p, t, f, m, x), NEW d \in Devices, NEW ws \in Batches, FansOut(d, p, ws)
  PROVE  SteadyOn(u, p, t, f, m, x)'
<1>1. /\ QueuesOK /\ blocks \subseteq TapBlocks /\ blocks' = blocks /\ ws \in Seq(Records)
      /\ EnqueueAll(d, ws)
      /\ <<d, p, "followers">> \in uploads /\ uploads' = uploads \ {<<d, p, "followers">>}
      /\ uploaded' = uploaded /\ <<d, p, "followers">>[2] = p
      /\ <<d, p, "followers">>[1] = d
  BY PairState DEF FansOut, Batches
<1>2. /\ p \in uploaded /\ Owner[p] = Account[d]
      /\ \A y, z \in uploads : y[2] = z[2] => y = z
      /\ u \in Users /\ u # t /\ t = Account[d]
  BY <1>1 DEF Pair, UploadInv, UploadsOK, UnderWay, PostsOK, Named
<1>3. Uploading(p) /\ ~Fanned(p)
  BY <1>1 DEF Uploading, Fanned
<1>4. Fanned(p)'
  <2>1. ASSUME NEW y \in uploads', y[2] = p PROVE FALSE
    BY <1>1, <1>2, <2>1
  <2> QED BY <1>1, <1>2, <2>1 DEF Fanned
<1>5. ~Following(u, t)
  BY <1>3 DEF Pair, Apart, Named
<1>6. RestingOn(u, p, t, f, m, x)
  <2>1. ASSUME NEW e \in Devices, NEW k \in UploadTaps, Account[e] = u,
               BusyOn(p, e, k, t, f, m, x)
        PROVE  FALSE
    <3>1. Busy(u, p, e, k)
      BY <2>1 DEF Busy, Named
    <3>2. Following(u, Owner[p])
      BY <3>1, BusyFollows
    <3> QED BY <1>5, <3>2 DEF Named
  <2> QED BY <2>1 DEF SteadyOn
<1>7. /\ NoWrites(f) /\ NoWrites(m) /\ db[f] = db[m] /\ db[x] = FALSE /\ NoWrites(x)
  BY <1>3, <1>6 DEF RestingOn
<1>8. ASSUME NEW i \in 1..Len(ws)
      PROVE  /\ ws[i].doc # f /\ ws[i].doc # m /\ ws[i].val = TRUE
             /\ \E v \in FollowersOf(d, t) \cup {t} : ws[i].doc = FeedDoc(v, p)
  <2>1. PICK v \in FollowersOf(d, t) \cup {t} : ws[i] = FeedsWrite(d, v, p)
    BY <1>2 DEF FansOut
  <2>2. ws[i].doc = FeedDoc(v, p) /\ ws[i].val = TRUE
    BY <2>1 DEF FeedsWrite
  <2>3. FeedDoc(v, p) # f /\ FeedDoc(v, p) # m
    BY Names DEF Named
  <2> QED BY <2>2, <2>3
<1>9. Untouched(f) /\ Untouched(m)
  BY <1>1, <1>8, UntouchedEnqueue
<1>10. NoWrites(f)' /\ NoWrites(m)' /\ db' = db
  BY <1>1, <1>7, <1>9, NoWritesStay DEF EnqueueAll
<1>11. LocalView(d, m) = db[m] /\ db[m] \in BOOLEAN
  <2>1. Absent(queue[d], m)
    BY <1>7 DEF NoWrites
  <2>2. LocalView(d, m) = db[m]
    BY <2>1, ViewStored
  <2>3. db[m] \in BOOLEAN
    BY PairDocs DEF Named
  <2> QED BY <2>2, <2>3
<1>12. u \in FollowersOf(d, t) <=> db[m]
  BY <1>2, <1>11 DEF FollowersOf, Named
<1>13. Fed(x, db[f])'
  <2>1. CASE db[m]
    <3>1. PICK i \in 1..Len(ws) : ws[i] = FeedsWrite(d, u, p)
      BY <1>2, <1>12, <2>1 DEF FansOut
    <3>2. ws[i].doc = x
      BY <3>1 DEF FeedsWrite, Named
    <3>3. Fed(x, TRUE)'
      BY <1>1, <1>7, <1>8, <3>2, GrowFed
    <3>4. db'[f] = TRUE
      BY <1>7, <1>10, <1>11, <2>1
    <3> QED BY <3>3, <3>4 DEF Fed
  <2>2. CASE ~db[m]
    <3>1. ASSUME NEW i \in 1..Len(ws) PROVE ws[i].doc # x
      <4>1. PICK v \in FollowersOf(d, t) \cup {t} : ws[i].doc = FeedDoc(v, p)
        BY <1>8
      <4>2. v # u
        BY <1>2, <1>12, <2>2, <4>1
      <4> QED BY <4>1, <4>2, Names DEF Named
    <3>2. Untouched(x)
      BY <1>1, <3>1, UntouchedEnqueue
    <3>3. NoWrites(x)'
      BY <1>7, <3>2, NoWritesStay
    <3>4. db'[x] = db'[f]
      BY <1>7, <1>10, <1>11, <2>2
    <3>5. \A e \in Devices : \A i \in 1..Len(queue'[e]) : queue'[e][i].doc # x
      BY <3>3 DEF NoWrites, Absent
    <3> QED BY <3>4, <3>5 DEF Fed, Arrived
  <2> QED BY <2>1, <2>2
<1> QED BY <1>1, <1>4, <1>6, <1>7, <1>10, <1>13 DEF SteadyOn, RestingOn, BlockOf

-----------------------------------------------------------------------------
(* The invariant. *)

LEMMA CalmSteady ==
  ASSUME NEW u, NEW p, Pair(u, p), Steady(u, p), NEW d \in Devices, Calm(d)
  PROVE  Steady(u, p)'
<1>1. PICK t, f, m, x : Named(u, p, t, f, m, x)
  BY DEF Named
<1>2. SteadyOn(u, p, t, f, m, x)
  BY <1>1, SteadyNamed
<1>3. SUFFICES SteadyOn(u, p, t, f, m, x)'
  BY <1>1, SteadyNamed
<1>4. CASE Looks
  BY <1>1, <1>2, <1>4, LooksKeeps
<1>5. ASSUME NEW k \in UploadTaps, Taken(d, k) PROVE SteadyOn(u, p, t, f, m, x)'
  BY <1>1, <1>2, <1>5, TakenKeeps
<1>6. ASSUME NEW b \in blocks, NEW ws \in Batches, RunsBlock(d, b, ws)
      PROVE  SteadyOn(u, p, t, f, m, x)'
  BY <1>1, <1>2, <1>6, BlockKeeps
<1>7. CASE Mirrors(d, Oldest(d))
  BY <1>1, <1>2, <1>7, MirrorsKeeps
<1>8. CASE ProfileAnswers(d, Oldest(d))
  BY <1>1, <1>2, <1>8, ProfileAnswersKeeps
<1>9. CASE OnlyAnswers(d, Oldest(d))
  BY <1>1, <1>2, <1>9, OnlyAnswersKeeps
<1>10. CASE Applies(d)
  BY <1>1, <1>2, <1>10, AppliesKeeps
<1>11. CASE Reopens(d)
  BY <1>1, <1>2, <1>11, ReopensKeeps
<1>12. ASSUME NEW q \in Posts, Begins(d, q) PROVE SteadyOn(u, p, t, f, m, x)'
  BY <1>1, <1>2, <1>12, BeginsKeeps
<1>13. ASSUME NEW q \in Posts, Stores(d, q) PROVE SteadyOn(u, p, t, f, m, x)'
  BY <1>1, <1>2, <1>13, StoresKeeps
<1>14. ASSUME NEW q \in Posts, NEW ws \in Batches, FansOut(d, q, ws)
       PROVE  SteadyOn(u, p, t, f, m, x)'
  <2>1. CASE q = p
    BY <1>1, <1>2, <1>14, <2>1, FansOutKeeps
  <2>2. CASE q # p
    BY <1>1, <1>2, <1>14, <2>2, FansOutRest
  <2> QED BY <2>1, <2>2
<1> QED BY <1>4, <1>5, <1>6, <1>7, <1>8, <1>9, <1>10, <1>11, <1>12, <1>13, <1>14 DEF Calm

LEMMA StepSteady ==
  ASSUME UploadInv, SteadyInv, [UploadNext]_allVars
  PROVE  SteadyInv'
<1>1. OverlapOK'
  BY StepOverlap DEF SteadyInv
<1>2. ASSUME Quiet'
      PROVE  /\ UnderWay'
             /\ \A u \in Users, p \in Posts : Covered(u, p)' => Steady(u, p)'
  <2>1. Quiet /\ UnderWay /\ OverlapOK
    BY <1>2, QuietBack DEF SteadyInv
  <2>2. CASE UNCHANGED allVars
    <3>1. UnderWay' /\ \A u, p : (Covered(u, p)' <=> Covered(u, p)) /\ (Steady(u, p)' <=> Steady(u, p))
      <4>1. /\ db' = db /\ queue' = queue /\ applied' = applied /\ taps' = taps
            /\ blocks' = blocks /\ rows' = rows /\ uploads' = uploads
            /\ uploaded' = uploaded /\ wasPost' = wasPost /\ overlap' = overlap
        BY <2>2 DEF allVars, vars, storeVars, followVars, screens, uploadVars, screenVars
      <4>2. UnderWay'
        BY <2>1, <4>1 DEF UnderWay, WritesOK, FollowWrite, UploadWrite, PostsOK, RowsOK
      <4>3. ASSUME NEW u, NEW p PROVE Covered(u, p)' <=> Covered(u, p)
        BY <4>1 DEF Covered, OneTap
      <4>4. ASSUME NEW u, NEW p PROVE Steady(u, p)' <=> Steady(u, p)
        <5>1. Fanned(p)' <=> Fanned(p)
          BY <4>1 DEF Fanned
        <5>2. Resting(u, p)' <=> Resting(u, p)
          BY <4>1, <5>1 DEF Resting, RestingOn, BlockOf, NoWrites, Fed
        <5>3. ASSUME NEW e, NEW k PROVE Busy(u, p, e, k)' <=> Busy(u, p, e, k)
          BY <4>1, <5>1 DEF Busy, BusyOn, BusyWith, NoWrites, Stage1, Stage2, Stage3, Stage4,
             Block
        <5> QED BY <5>2, <5>3 DEF Steady
      <4> QED BY <4>2, <4>3, <4>4
    <3> QED BY <1>2, <2>1, <3>1 DEF SteadyInv
  <2>3. ASSUME Remember, NEW d \in Devices, Calm(d)
        PROVE  /\ UnderWay'
               /\ \A u \in Users, p \in Posts : Covered(u, p)' => Steady(u, p)'
    <3>1. UnderWay'
      BY <2>1, <2>3, CalmUnderWay
    <3>2. ASSUME NEW u \in Users, NEW p \in Posts, Covered(u, p)' PROVE Steady(u, p)'
      <4>1. Covered(u, p) /\ Pair(u, p)
        BY <2>1, <2>3, <3>2, PairStep
      <4>2. Steady(u, p)
        BY <2>1, <4>1 DEF SteadyInv
      <4> QED BY <2>3, <4>1, <4>2, CalmSteady
    <3> QED BY <3>1, <3>2
  <2> QED BY <1>2, <2>2, <2>3, CalmStep
<1> QED BY <1>1, <1>2 DEF SteadyInv

LEMMA InitSteady ==
  ASSUME UploadInit
  PROVE  SteadyInv
<1>1. /\ queue = [d \in Devices |-> <<>>] /\ applied = [d \in Devices |-> 0]
      /\ blocks = {} /\ uploads = {} /\ uploaded = InitPosts /\ wasPost = InitPosts
      /\ rows = [d \in Devices |-> [t \in Users |-> NoRow]]
  BY DEF UploadInit, Init
<1>2. \A d \in Devices : queue[d] = <<>> /\ Len(queue[d]) = 0 /\ 1..Len(queue[d]) = {}
                         /\ applied[d] = 0 /\ 1..applied[d] = {}
  <2> SUFFICES ASSUME NEW d \in Devices
               PROVE  /\ queue[d] = <<>> /\ Len(queue[d]) = 0 /\ 1..Len(queue[d]) = {}
                      /\ applied[d] = 0 /\ 1..applied[d] = {}
    OBVIOUS
  <2>1. queue[d] = <<>> /\ applied[d] = 0 /\ Len(<<>>) = 0 /\ 1..0 = {}
    BY <1>1
  <2> QED BY <2>1
<1>3. OverlapOK
  BY <1>1, <1>2 DEF OverlapOK, Following, Uploading
<1>4. \A y : NoWrites(y)
  BY <1>2 DEF NoWrites, Absent
<1>5. db = [y \in Docs |-> \/ /\ y[1] = "following" /\ <<y[2], y[3]>> \in InitFollows
                           \/ /\ y[1] = "followers" /\ <<y[3], y[2]>> \in InitFollows
                           \/ /\ y[1] = "user-notifications"
                              /\ <<y[3], y[2]>> \in InitFollows
                           \/ /\ y[1] = "posts"
                              /\ y[3] \in InitPosts /\ y[2] = Owner[y[3]]
                           \/ /\ y[1] = "user-feed"
                              /\ y[3] \in InitPosts
                              /\ \/ y[2] = Owner[y[3]]
                                 \/ <<y[2], Owner[y[3]]>> \in InitFollows]
  BY DEF UploadInit, Init
<1>6. db \in [Docs -> BOOLEAN]
  BY <1>5
<1>7. ASSUME NEW u \in Users, NEW t \in Users
      PROVE  /\ db[FollowingDoc(u, t)] = (<<u, t>> \in InitFollows)
             /\ db[FollowersDoc(t, u)] = (<<u, t>> \in InitFollows)
  <2>1. /\ FollowingDoc(u, t) \in Docs /\ FollowersDoc(t, u) \in Docs
        /\ FollowingDoc(u, t)[1] = "following" /\ FollowingDoc(u, t)[2] = u
        /\ FollowingDoc(u, t)[3] = t
        /\ FollowersDoc(t, u)[1] = "followers" /\ FollowersDoc(t, u)[2] = t
        /\ FollowersDoc(t, u)[3] = u
    BY FollowDocsType DEF FollowingDoc, FollowersDoc
  <2>2. /\ "following" # "followers" /\ "following" # "user-notifications"
        /\ "following" # "posts" /\ "following" # "user-feed"
        /\ "followers" # "user-notifications" /\ "followers" # "posts"
        /\ "followers" # "user-feed"
    OBVIOUS
  <2>3. db[FollowingDoc(u, t)] = (<<u, t>> \in InitFollows)
    <3>1. db[FollowingDoc(u, t)] \in BOOLEAN
      BY <1>6, <2>1
    <3>2. db[FollowingDoc(u, t)] <=> <<u, t>> \in InitFollows
      BY <1>5, <2>1, <2>2
    <3> QED BY <3>1, <3>2
  <2>4. db[FollowersDoc(t, u)] = (<<u, t>> \in InitFollows)
    <3>1. db[FollowersDoc(t, u)] \in BOOLEAN
      BY <1>6, <2>1
    <3>2. db[FollowersDoc(t, u)] <=> <<u, t>> \in InitFollows
      BY <1>5, <2>1, <2>2
    <3> QED BY <3>1, <3>2
  <2> QED BY <2>3, <2>4
<1>8. ASSUME NEW p \in Posts
      PROVE  /\ db[PostDoc(p)] = (p \in InitPosts)
             /\ \A u \in Users : db[FeedDoc(u, p)] =
                  (p \in InitPosts /\ (u = Owner[p] \/ <<u, Owner[p]>> \in InitFollows))
  <2>1. /\ PostDoc(p) \in Docs /\ PostDoc(p)[1] = "posts" /\ PostDoc(p)[2] = Owner[p]
        /\ PostDoc(p)[3] = p
    BY OwnerType DEF PostDoc, Docs
  <2>2. \A u \in Users : /\ FeedDoc(u, p) \in Docs /\ FeedDoc(u, p)[1] = "user-feed"
                         /\ FeedDoc(u, p)[2] = u /\ FeedDoc(u, p)[3] = p
    BY DEF FeedDoc, Docs
  <2>3. /\ "posts" # "followers" /\ "posts" # "user-notifications"
        /\ "posts" # "following" /\ "posts" # "user-feed"
        /\ "user-feed" # "user-notifications" /\ "user-feed" # "following"
        /\ "user-feed" # "followers"
    OBVIOUS
  <2>4. db[PostDoc(p)] = (p \in InitPosts)
    <3>1. db[PostDoc(p)] \in BOOLEAN
      BY <1>6, <2>1
    <3>2. db[PostDoc(p)] <=> p \in InitPosts
      BY <1>5, <2>1, <2>3
    <3> QED BY <3>1, <3>2
  <2>5. ASSUME NEW u \in Users
        PROVE  db[FeedDoc(u, p)] =
                 (p \in InitPosts /\ (u = Owner[p] \/ <<u, Owner[p]>> \in InitFollows))
    BY <1>5, <2>2, <2>3
  <2> QED BY <2>4, <2>5
<1>9. UnderWay
  <2>1. WritesOK
    BY <1>1, <1>2 DEF WritesOK
  <2>2. PostsOK
    <3>1. InitPosts \subseteq Posts
      BY FollowAssumption DEF FollowAssumption
    <3> QED BY <1>1, <1>8, <3>1 DEF PostsOK
  <2>3. RowsOK
    BY <1>1 DEF RowsOK, NoRow, Row
  <2> QED BY <1>6, <2>1, <2>2, <2>3 DEF UnderWay
<1>10. ASSUME NEW u \in Users, NEW p \in Posts, u # Owner[p] PROVE Resting(u, p)
  <2> DEFINE f == FollowingDoc(u, Owner[p])
             m == FollowersDoc(Owner[p], u)
             x == FeedDoc(u, p)
  <2>1. db[f] = db[m] /\ db[f] = (<<u, Owner[p]>> \in InitFollows)
    BY <1>7, OwnerType
  <2>2. db[x] = (p \in InitPosts /\ <<u, Owner[p]>> \in InitFollows)
    BY <1>8, <1>10
  <2>3. Fanned(p) <=> p \in InitPosts
    BY <1>1 DEF Fanned
  <2> HIDE DEF f, m, x
  <2>4. Fanned(p) => Fed(x, db[f])
    BY <1>2, <2>1, <2>2, <2>3 DEF Fed, Arrived
  <2>5. ~Fanned(p) => db[x] = FALSE
    BY <2>2, <2>3
  <2>6. RestingOn(u, p, Owner[p], f, m, x)
    BY <1>1, <1>4, <2>1, <2>4, <2>5 DEF RestingOn
  <2> QED BY <2>6 DEF Resting, f, m, x
<1> QED BY <1>3, <1>9, <1>10 DEF SteadyInv, Covered, Steady

LEMMA SteadyEnough ==
  ASSUME UploadInv, SteadyInv
  PROVE  SteadyFollowersGetPost
<1> SUFFICES ASSUME NEW u \in Users, NEW p \in Posts, p \in wasPost, u # Owner[p], Quiet,
                    OneTap(u, Owner[p]), <<u, p>> \notin overlap, ~Uploading(p),
                    ~Following(u, Owner[p])
             PROVE  db[FeedDoc(u, p)] = db[FollowingDoc(u, Owner[p])]
  BY DEF SteadyFollowersGetPost
<1> DEFINE t == Owner[p]
           f == FollowingDoc(u, t)
           x == FeedDoc(u, p)
<1>1. UnderWay /\ QueuesOK /\ WritesOK /\ wasPost \subseteq uploaded
  BY DEF SteadyInv, UploadInv, UnderWay, PostsOK
<1>2. Steady(u, p)
  BY DEF SteadyInv, Covered
<1>3. Fanned(p)
  BY <1>1 DEF Fanned, Uploading
<1>4. Resting(u, p)
  <2> SUFFICES ASSUME NEW e \in Devices, NEW k \in UploadTaps, Busy(u, p, e, k) PROVE FALSE
    BY <1>2 DEF Steady
  <2> QED BY BusyFollows
<1>5. Fed(x, db[f])
  BY <1>3, <1>4 DEF Resting, RestingOn
<1>6. NoWrites(x)
  <2> SUFFICES ASSUME NEW c \in Devices, NEW i \in 1..Len(queue[c]), NEW w, w = queue[c][i],
                      w.doc = x
               PROVE  FALSE
    BY DEF NoWrites, Absent
  <2>1. FollowWrite(c, w) \/ UploadWrite(c, w)
    BY <1>1, QueuedWrite
  <2>2. TapWrite(u, t, c, w) \/ (w.tap.screen = "upload" /\ w.doc[3] = p)
    BY <2>1, WriterFeed
  <2>3. CASE w.tap.screen = "upload" /\ w.doc[3] = p
    BY <2>3, WriterUploads
  <2>4. CASE TapWrite(u, t, c, w)
    <3>1. w.doc[1] = "user-feed" /\ "user-feed" # "user-notifications"
      BY DEF FeedDoc
    <3>2. Account[c] = u /\ w.tap.target = t /\ w.tap.screen # "upload"
      BY <2>4 DEF TapWrite, Screens
    <3> QED BY <3>1, <3>2 DEF Following
  <2> QED BY <2>2, <2>3, <2>4
<1> QED BY <1>5, <1>6 DEF Fed, NoWrites

(* A user who follows the owner all through an upload has the post in the feed,
   and one who does not has not, however the writes, resends and answers of
   all phones interleave: both updateUserFeedAfterPost and
   updateUserFeedAfterFollowing look where the other one has written. *)
THEOREM SteadyFollowersCorrect == UploadSpec => []SteadyFollowersGetPost
<1>1. UploadInit => SteadyInv
  BY InitSteady
<1>2. UploadInv /\ SteadyInv /\ [UploadNext]_allVars => SteadyInv'
  BY StepSteady
<1>3. UploadInv /\ SteadyInv => SteadyFollowersGetPost
  BY SteadyEnough
<1> QED BY <1>1, <1>2, <1>3, UploadCorrect, PTL DEF UploadSpec
=============================================================================
