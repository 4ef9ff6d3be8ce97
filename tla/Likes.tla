-------------------------------- MODULE Likes --------------------------------
(***************************************************************************)
(* Liking and unliking a post from the feed: PostService.likePost and      *)
(* unlikePost, FeedController, which calls them and shows the outcome, and *)
(* the notification a like goes on to send.                                *)
(*                                                                         *)
(* A like is three documents: the counter posts/p.likes, overwritten with  *)
(* the number the cell showed plus one, posts/p/post-likes/u, and, issued  *)
(* by the completion block of that one, users/u/user-likes/p.              *)
(*                                                                         *)
(* Bounds: MaxTaps taps per phone; every phone shows the whole feed or     *)
(* nothing of it; one posts query and one liked-query per post outstanding *)
(* on each phone; at most one fault per phone.  No post is removed.        *)
(***************************************************************************)
EXTENDS Phone, FiniteSets

CONSTANTS Posts,
          Owner,      \* the ownerUid of every post
          InitLikes,  \* the pairs <<u, p>>, u likes p, at the start
          MaxTaps     \* taps on like buttons, per phone

ASSUME LikesAssumption ==
  /\ IsFiniteSet(Users)
  /\ Owner \in [Posts -> Users]
  /\ InitLikes \subseteq Users \X Posts
  /\ MaxTaps \in Nat

VARIABLES taps,      \* taps made on each phone
          blocks,    \* DispatchQueue.global() blocks not yet run
          fetching,  \* the posts query is outstanding
          checks,    \* checkIfUserLikedPost reads not yet answered
          listed,    \* FeedController.posts is not empty
          list,      \* FeedController.posts: likes and didLike of every post
          cells,     \* the same, as the cells on the screen hold them
          mark,      \* the taps made when the cells were last reloaded
          wasLiked,  \* history: the pairs ever in the user-likes collection
          stale      \* history: the posts tapped on outdated information

screens   == <<listed, list, cells, mark>>
reads     == <<fetching, checks>>
history   == <<wasLiked, stale>>
likesVars == <<taps, blocks, reads, screens, failed, history>>
vars      == <<storeVars, likesVars>>

-----------------------------------------------------------------------------
(* Documents, taps and writes. *)

LikesDoc(p)           == <<"posts", p>>
PostLikeDoc(p, u)     == <<"post-likes", p, u>>
UserLikeDoc(u, p)     == <<"user-likes", p, u>>
NotificationDoc(p, u) == <<"user-notifications", p, u>>

Counters == {LikesDoc(p) : p \in Posts}
Flags    == {"post-likes", "user-likes", "user-notifications"} \X Posts \X Users
Docs     == Counters \cup Flags

Item   == [likes : Nat, didLike : BOOLEAN]
Taps   == [n : 1..MaxTaps, post : Posts, like : BOOLEAN, likes : Nat]
Blocks == [dev : Devices, kind : {"count", "flag", "notify"}, tap : Taps]

Blank == [likes |-> 0, didLike |-> FALSE]

Likers(p) == {u \in Users : db[PostLikeDoc(p, u)]}

Init ==
  /\ db = [x \in Docs |-> IF x \in Counters
                          THEN Cardinality({y \in InitLikes : y[2] = x[2]})
                          ELSE x[1] # "user-notifications" /\ <<x[3], x[2]>> \in InitLikes]
  /\ queue = [d \in Devices |-> <<>>]
  /\ applied = [d \in Devices |-> 0]
  /\ taps = [d \in Devices |-> 0]
  /\ blocks = {}
  /\ fetching = [d \in Devices |-> FALSE]
  /\ checks = {}
  /\ listed = [d \in Devices |-> FALSE]
  /\ list = [d \in Devices |-> [p \in Posts |-> Blank]]
  /\ cells = list
  /\ mark = [d \in Devices |-> 0]
  /\ NoFailures
  /\ wasLiked = InitLikes
  /\ stale = {}

-----------------------------------------------------------------------------
(* The feed. *)

(* posts is assigned: its didSet reloads the collection view, so every cell
   shows its entry again. *)
ShowPosts(d, posts) ==
  /\ list' = [list EXCEPT ![d] = posts]
  /\ cells' = [cells EXCEPT ![d] = posts]
  /\ mark' = [mark EXCEPT ![d] = taps[d]]

(* viewDidLoad and viewWillAppear query the posts; pulling to refresh (and
   returning from an upload) empties the list first. *)
Appear(d) ==
  /\ fetching' = [fetching EXCEPT ![d] = TRUE]
  /\ UNCHANGED <<storeVars, taps, blocks, checks, screens, failed, history>>

Refresh(d) ==
  /\ fetching' = [fetching EXCEPT ![d] = TRUE]
  /\ listed' = [listed EXCEPT ![d] = FALSE]
  /\ ShowPosts(d, [p \in Posts |-> Blank])
  /\ UNCHANGED <<storeVars, taps, blocks, checks, failed, history>>

(* The posts arrive, not liked so far, and each is asked after. *)
PostsArrive(d) ==
  /\ fetching[d]
  /\ fetching' = [fetching EXCEPT ![d] = FALSE]
  /\ listed' = [listed EXCEPT ![d] = TRUE]
  /\ ShowPosts(d, [p \in Posts |-> [likes |-> LocalView(d, LikesDoc(p)),
                                    didLike |-> FALSE]])
  /\ checks' = checks \cup ({d} \X Posts)
  /\ UNCHANGED <<storeVars, taps, blocks, failed, history>>

(* The answer goes to the list, which reloads all the cells from it. *)
LikedArrives(d, p) ==
  /\ <<d, p>> \in checks
  /\ checks' = checks \ {<<d, p>>}
  /\ IF listed[d]
     THEN ShowPosts(d, [list[d] EXCEPT ![p].didLike =
                                         LocalView(d, UserLikeDoc(Account[d], p))])
     ELSE UNCHANGED <<list, cells, mark>>
  /\ UNCHANGED <<storeVars, taps, blocks, fetching, listed, failed, history>>

(* A read that fails returns without calling back. *)
ReadFails(d) ==
  /\ Fails(d, "readfail")
  /\ \/ /\ fetching[d]
        /\ fetching' = [fetching EXCEPT ![d] = FALSE]
        /\ UNCHANGED checks
     \/ /\ \E p \in Posts : /\ <<d, p>> \in checks
                            /\ checks' = checks \ {<<d, p>>}
        /\ UNCHANGED fetching
  /\ UNCHANGED <<storeVars, taps, blocks, screens, history>>

-----------------------------------------------------------------------------
(* The like button. *)

(* A change of the counter or of the likers of p is on its way somewhere. *)
Concerns(doc, p) == doc = LikesDoc(p) \/ \E u \in Users : doc = PostLikeDoc(p, u)

InFlight(p) ==
  \/ \E b \in blocks : b.kind \in {"count", "flag"} /\ b.tap.post = p
  \/ \E d \in Devices : \E i \in 1..Len(queue[d]) : Concerns(queue[d][i].doc, p)

UpToDate(d, p) ==
  /\ cells[d][p] = [likes   |-> db[LikesDoc(p)],
                    didLike |-> db[PostLikeDoc(p, Account[d])]]
  /\ ~InFlight(p)

(* unlikePost returns when the post it is given has no likes; the variant does
   not look. *)
CanAct_Always(item) == TRUE

CanAct(item) == item.didLike => item.likes > 0

(* The heart of the cell toggles at once, and what the cell showed goes to
   likePost or unlikePost. *)
TapLike(d, p) ==
  /\ listed[d]
  /\ taps[d] < MaxTaps
  /\ taps' = [taps EXCEPT ![d] = @ + 1]
  /\ cells' = [cells EXCEPT ![d][p].didLike = ~@]
  /\ IF CanAct(cells[d][p])
     THEN /\ blocks' = blocks \cup
               {[dev |-> d, kind |-> "count",
                 tap |-> [n |-> taps[d] + 1, post |-> p, like |-> ~cells[d][p].didLike,
                          likes |-> cells[d][p].likes]]}
          /\ stale' = IF UpToDate(d, p) THEN stale ELSE stale \cup {p}
     ELSE UNCHANGED <<blocks, stale>>
  /\ UNCHANGED <<storeVars, reads, listed, list, mark, failed, wasLiked>>

-----------------------------------------------------------------------------
(* The block of a tap makes two writes, between which any other step may come:
   the counter, whose answer nobody awaits, and the flag at the post. *)

(* Variant of Outcome: unlikePost as a copy of likePost. *)
Outcome_OnlyUp(tap) == tap.likes + 1

Outcome(tap) == IF tap.like THEN tap.likes + 1 ELSE tap.likes - 1

RunCountBlock(b) ==
  /\ b.kind = "count"
  /\ blocks' = (blocks \ {b}) \cup {[b EXCEPT !.kind = "flag"]}
  /\ Enqueue(b.dev, [doc |-> LikesDoc(b.tap.post), val |-> Outcome(b.tap),
                     then |-> "none", tap |-> b.tap])
  /\ UNCHANGED <<taps, reads, screens, failed, history>>

RunFlagBlock(b) ==
  /\ b.kind = "flag"
  /\ blocks' = blocks \ {b}
  /\ Enqueue(b.dev, [doc |-> PostLikeDoc(b.tap.post, Account[b.dev]), val |-> b.tap.like,
                     then |-> "user", tap |-> b.tap])
  /\ UNCHANGED <<taps, reads, screens, failed, history>>

(* NotificationService.uploadNotification. *)
RunNotifyBlock(b) ==
  /\ b.kind = "notify"
  /\ blocks' = blocks \ {b}
  /\ Enqueue(b.dev, [doc |-> NotificationDoc(b.tap.post, Account[b.dev]), val |-> TRUE,
                     then |-> "none", tap |-> b.tap])
  /\ UNCHANGED <<taps, reads, screens, failed, history>>

-----------------------------------------------------------------------------
(* Answers. *)

(* Variant of AnswerUser: unlikePost leaves the flag at the user. *)
AnswerUser_UnlikeForgets(d) ==
  /\ Answer(d, "user")
  /\ IF Oldest(d).val
     THEN DequeueThenEnqueue(d, [Oldest(d) EXCEPT
            !.doc = UserLikeDoc(Account[d], Oldest(d).tap.post), !.then = "done"])
     ELSE Dequeue(d)
  /\ UNCHANGED <<db, taps, blocks, reads, screens, history>>

(* The flag at the post is answered, its error ignored: the flag at the user
   is next. *)
AnswerUser(d) ==
  /\ Answer(d, "user")
  /\ DequeueThenEnqueue(d, [Oldest(d) EXCEPT
        !.doc = UserLikeDoc(Account[d], Oldest(d).tap.post), !.then = "done"])
  /\ UNCHANGED <<db, taps, blocks, reads, screens, history>>

(* The cell of a tap shows another post, or none, when the cells were reloaded
   since. *)
CellShows(d, tap, likes) ==
  IF tap.n > mark[d]
  THEN cells' = [cells EXCEPT ![d][tap.post].likes = likes]
  ELSE \/ UNCHANGED cells
       \/ /\ listed[d]
          /\ \E p \in Posts : cells' = [cells EXCEPT ![d][p].likes = likes]

Notification(d, tap) ==
  IF tap.like /\ Owner[tap.post] # Account[d]
  THEN {[dev |-> d, kind |-> "notify", tap |-> tap]} ELSE {}

(* Variant of AnswerDone: an error of the last write is ignored. *)
AnswerDone_IgnoresError(d) ==
  LET tap == Oldest(d).tap
  IN  /\ Answer(d, "done")
      /\ Dequeue(d)
      /\ CellShows(d, tap, Outcome(tap))
      /\ blocks' = blocks \cup Notification(d, tap)
      /\ UNCHANGED <<db, taps, reads, listed, list, mark, history>>

(* Both flags are stored: the cell shows the new number, and the owner of a
   post of somebody else's is notified of a like.  After an error nothing. *)
AnswerDone(d) ==
  LET tap == Oldest(d).tap
  IN  /\ Answer(d, "done")
      /\ Dequeue(d)
      /\ \/ /\ applied[d] > 0
            /\ CellShows(d, tap, Outcome(tap))
            /\ blocks' = blocks \cup Notification(d, tap)
         \/ /\ applied[d] = 0
            /\ UNCHANGED <<cells, blocks>>
      /\ UNCHANGED <<db, taps, reads, listed, list, mark, history>>

(* A write nobody waits for. *)
AnswerSilent(d) ==
  /\ Answer(d, "none")
  /\ Dequeue(d)
  /\ UNCHANGED <<db, taps, blocks, reads, screens, history>>

AnswerAny(d) == AnswerUser(d) \/ AnswerDone(d) \/ AnswerSilent(d)

-----------------------------------------------------------------------------
(* The backend, the network and the end of the process. *)

Apply(d) ==
  /\ Commit(d)
  /\ wasLiked' = wasLiked \cup {x \in Users \X Posts : db'[UserLikeDoc(x[1], x[2])]}
  /\ UNCHANGED <<taps, blocks, reads, screens, failed, stale>>

Resend(d) ==
  /\ Reopen(d)
  /\ UNCHANGED likesVars

Crash(d) ==
  /\ Fails(d, "crash")
  /\ LoseProcess(d)
  /\ blocks' = {b \in blocks : b.dev # d}
  /\ fetching' = [fetching EXCEPT ![d] = FALSE]
  /\ checks' = {c \in checks : c[1] # d}
  /\ listed' = [listed EXCEPT ![d] = FALSE]
  /\ ShowPosts(d, [p \in Posts |-> Blank])
  /\ UNCHANGED <<taps, history>>

-----------------------------------------------------------------------------
UserStep(d) ==
  Appear(d) \/ Refresh(d) \/ \E p \in Posts : TapLike(d, p)

ReadStep(d) ==
  PostsArrive(d) \/ ReadFails(d) \/ \E p \in Posts : LikedArrives(d, p)

BlockStep(d) ==
  \E b \in blocks : b.dev = d /\ (RunCountBlock(b) \/ RunFlagBlock(b) \/ RunNotifyBlock(b))

Next ==
  \E d \in Devices : \/ UserStep(d) \/ ReadStep(d) \/ BlockStep(d)
                     \/ AnswerAny(d) \/ Apply(d) \/ Resend(d) \/ Crash(d)

Spec == Init /\ [][Next]_vars

(* The dispatch queue runs its blocks, a phone that stays connected gets its
   writes applied, and again and again the stream stays open long enough for
   an answer to come back. *)
Fairness ==
  \A d \in Devices : WF_vars(BlockStep(d)) /\ WF_vars(Apply(d)) /\ SF_vars(AnswerAny(d))

FairSpec == Spec /\ Fairness

-----------------------------------------------------------------------------
(* Properties. *)

(* Every variable stays in its domain.  In particular no counter is ever set
   below zero, whatever outdated numbers the taps of several phones act on:
   unlikePost returns when the post showed no likes. *)
WriteOK(w) ==
  /\ w.doc \in Docs
  /\ IF w.doc \in Counters THEN w.val \in Nat ELSE w.val \in BOOLEAN
  /\ w.then \in {"user", "done", "none"}
  /\ w.tap \in Taps

TypeOK ==
  /\ DOMAIN db = Docs
  /\ \A x \in Docs : IF x \in Counters THEN db[x] \in Nat ELSE db[x] \in BOOLEAN
  /\ \A d \in Devices : \A i \in 1..Len(queue[d]) : WriteOK(queue[d][i])
  /\ \A d \in Devices : applied[d] \in 0..Len(queue[d])
  /\ taps \in [Devices -> 0..MaxTaps]
  /\ blocks \subseteq Blocks
  /\ fetching \in [Devices -> BOOLEAN]
  /\ checks \subseteq Devices \X Posts
  /\ listed \in [Devices -> BOOLEAN]
  /\ list \in [Devices -> [Posts -> Item]]
  /\ cells \in [Devices -> [Posts -> Item]]
  /\ \A d \in Devices : mark[d] \in 0..taps[d]
  /\ failed \in [Devices -> {"none", "crash", "reject", "readfail"}]
  /\ wasLiked \subseteq Users \X Posts
  /\ stale \subseteq Posts

(* The counter is the number of the likers, however often the stream was
   reopened and whatever was on its way before, as long as every tap acted on
   what is stored and no phone died or had a write refused: likePost and
   unlikePost store both, and what a resent write stores is absolute. *)
LikesExact ==
  \A p \in Posts :
    (p \notin stale /\ ~InFlight(p) /\ \A d \in Devices : Sound(d))
      => db[LikesDoc(p)] = Cardinality(Likers(p))

(* A post's owner is notified of a like only after it has been stored under
   the user who likes, refused writes and lost processes included: didLike
   looks at the error of the last write before it notifies. *)
LikedFirst ==
  \A p \in Posts, u \in Users : db[NotificationDoc(p, u)] => <<u, p>> \in wasLiked

Writing(d, p) == \E i \in 1..Len(queue[d]) : /\ queue[d][i].then # "none"
                                             /\ queue[d][i].tap.post = p

PairList == Users \X Posts

LostPairs ==
  {x \in PairList : \A d \in Devices : Account[d] = x[1] => ~(Sole(d) /\ Sound(d))}

Dir == INSTANCE Directory WITH
  Pairs     <- PairList,
  following <- [x \in PairList |-> db[UserLikeDoc(x[1], x[2])]],
  followers <- [x \in PairList |-> db[PostLikeDoc(x[2], x[1])]],
  lost      <- LostPairs,
  busy      <- LostPairs \cup
               {x \in PairList : \E d \in Devices : Account[d] = x[1] /\ Writing(d, x[2])}

(* The likers of a post and the posts liked by a user are two copies of one
   relation, kept as Directory.tla says: a copy changes only while its phone
   is writing the pair, which ends only with equal copies: likePost and
   unlikePost write both. *)
LikesAreDirectory == Dir!Spec

(* A pair of the relation is not written for ever: the writes of a tap are
   answered, one after the other, although every answer may start another and
   the stream may be reopened at any time. *)
LikesReleased == Dir!Released
=============================================================================
