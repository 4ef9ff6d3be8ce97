------------------------------- MODULE Follow -------------------------------
(***************************************************************************)
(* Following and unfollowing: UserService, the two screens that call it    *)
(* (ProfileController's header and NotificationController's rows), and     *)
(* what its completion goes on to write (a notification, the user's feed). *)
(*                                                                         *)
(* A follow is two documents: following/u/user-following/t says u follows  *)
(* t, followers/t/user-followers/u mirrors it.  The second write is issued *)
(* only by the completion block of the first, on the phone.                *)
(*                                                                         *)
(* Bounds: MaxTaps taps per phone; one ProfileController per phone and     *)
(* user, never popped; one read of a kind outstanding per screen; at most  *)
(* one fault per phone.  Notifications of one user to another are one      *)
(* document here (their timestamps and fresh ids are not modelled).        *)
(***************************************************************************)
EXTENDS Phone, FiniteSets, SequencesExt

CONSTANTS Posts,
          Owner,        \* the ownerUid of every post
          InitPosts,    \* the posts that exist
          InitFollows,  \* the pairs <<u, t>>, u follows t, at the start
          Visits,       \* the profiles <<d, t>> that may be opened
          Lists,        \* the phones whose notification screen may be opened
          MaxTaps       \* taps on follow buttons, per phone

ASSUME FollowAssumption ==
  /\ IsFiniteSet(Posts)
  /\ Owner \in [Posts -> Users]
  /\ InitPosts \subseteq Posts
  /\ InitFollows \subseteq {x \in Users \X Users : x[1] # x[2]}
  /\ Visits \subseteq Devices \X Users
  /\ Lists \subseteq Devices
  /\ MaxTaps \in Nat

VARIABLES taps,       \* taps made on each phone
          blocks,     \* DispatchQueue.global() blocks not yet run
          checks,     \* reads not yet answered: isFollowed, or the notifications
          profile,    \* ProfileController.user, per phone and user
          rows,       \* the follow rows of NotificationController, per phone
          reloaded,   \* the table was reloaded since the last tap on a row
          loader,     \* the HUD that a row puts up is up
          wasFollower \* history: the pairs ever in the followers collection

screens == <<profile, rows, reloaded, loader>>
followVars == <<taps, blocks, checks, screens, failed, wasFollower>>
vars == <<storeVars, followVars>>

-----------------------------------------------------------------------------
(* Documents, taps and writes. *)

FollowingDoc(u, t)    == <<"following", u, t>>
FollowersDoc(t, u)    == <<"followers", t, u>>
NotificationDoc(t, u) == <<"user-notifications", t, u>>
FeedDoc(u, p)         == <<"user-feed", u, p>>
PostDoc(p)            == <<"posts", Owner[p], p>>

Docs == ({"following", "followers", "user-notifications"} \X Users \X Users)
          \cup ({"user-feed", "posts"} \X Users \X Posts)

Screens == {"profile", "row"}
Reads   == Screens \cup {"list"}
Taps    == [n : 1..MaxTaps, screen : Screens, target : Users, val : BOOLEAN]
Blocks  == [dev : Devices, kind : {"follow", "notify", "feed"}, tap : Taps]
Writes  == [doc : Docs, val : BOOLEAN, then : {"mirror", "done", "none"},
            tap : Taps]

Profile == [open : BOOLEAN, isFollowed : BOOLEAN]
Row     == [listed : BOOLEAN, list : BOOLEAN, cell : BOOLEAN]

Closed == [open |-> FALSE, isFollowed |-> FALSE]
NoRow  == [listed |-> FALSE, list |-> FALSE, cell |-> FALSE]

Init ==
  /\ db = [x \in Docs |-> \/ /\ x[1] = "following" /\ <<x[2], x[3]>> \in InitFollows
                          \/ /\ x[1] = "followers" /\ <<x[3], x[2]>> \in InitFollows
                          \/ /\ x[1] = "user-notifications"
                             /\ <<x[3], x[2]>> \in InitFollows
                          \/ /\ x[1] = "posts"
                             /\ x[3] \in InitPosts /\ x[2] = Owner[x[3]]
                          \/ /\ x[1] = "user-feed"
                             /\ x[3] \in InitPosts
                             /\ \/ x[2] = Owner[x[3]]
                                \/ <<x[2], Owner[x[3]]>> \in InitFollows]
  /\ queue = [d \in Devices |-> <<>>]
  /\ applied = [d \in Devices |-> 0]
  /\ taps = [d \in Devices |-> 0]
  /\ blocks = {}
  /\ checks = {}
  /\ profile = [d \in Devices |-> [t \in Users |-> Closed]]
  /\ rows = [d \in Devices |-> [t \in Users |-> NoRow]]
  /\ reloaded = [d \in Devices |-> FALSE]
  /\ loader = [d \in Devices |-> FALSE]
  /\ NoFailures
  /\ wasFollower = InitFollows

-----------------------------------------------------------------------------
(* The profile screen. *)

(* viewDidLoad of a new ProfileController. *)
OpenProfile(d, t) ==
  /\ <<d, t>> \in Visits
  /\ ~profile[d][t].open
  /\ profile' = [profile EXCEPT ![d][t].open = TRUE]
  /\ checks' = checks \cup {<<d, "profile", t>>}
  /\ UNCHANGED <<storeVars, taps, blocks, rows, reloaded, loader, failed, wasFollower>>

(* checkIfUserIsFollowed answers: what the phone sees now is what is shown,
   since completions queued on the main queue earlier have already run. *)
ProfileCheckResult(d, t) ==
  /\ <<d, "profile", t>> \in checks
  /\ checks' = checks \ {<<d, "profile", t>>}
  /\ profile' = [profile EXCEPT ![d][t].isFollowed =
                                  LocalView(d, FollowingDoc(Account[d], t))]
  /\ UNCHANGED <<storeVars, taps, blocks, rows, reloaded, loader, failed,
                 wasFollower>>

(* A tap on either screen hands follow or unfollow to the global queue. *)
Tap(d, t, screen, isFollowed) ==
  /\ taps[d] < MaxTaps
  /\ taps' = [taps EXCEPT ![d] = @ + 1]
  /\ blocks' = blocks \cup
       {[dev |-> d, kind |-> "follow",
         tap |-> [n |-> taps[d] + 1, screen |-> screen, target |-> t,
                  val |-> ~isFollowed]]}

(* The action button of the header; on one's own profile it edits instead. *)
TapProfile(d, t) ==
  /\ profile[d][t].open
  /\ t # Account[d]
  /\ Tap(d, t, "profile", profile[d][t].isFollowed)
  /\ UNCHANGED <<storeVars, checks, screens, failed, wasFollower>>

-----------------------------------------------------------------------------
(* The notification screen. *)

(* viewDidLoad, or a pull to refresh, which the HUD does not keep from the
   table it lies in: the list is emptied and read anew. *)
Refresh(d) ==
  /\ d \in Lists
  /\ rows' = [rows EXCEPT ![d] = [t \in Users |-> NoRow]]
  /\ reloaded' = [reloaded EXCEPT ![d] = TRUE]
  /\ checks' = checks \cup {<<d, "list", Account[d]>>}
  /\ UNCHANGED <<storeVars, taps, blocks, profile, loader, failed, wasFollower>>

(* The notifications have come, and every follow row asks whether its user is
   followed. *)
Notifiers(d) == {t \in Users : LocalView(d, NotificationDoc(Account[d], t))}

NotificationsArrive(d) ==
  /\ <<d, "list", Account[d]>> \in checks
  /\ checks' = (checks \ {<<d, "list", Account[d]>>})
                 \cup {<<d, "row", t>> : t \in Notifiers(d)}
  /\ rows' = [rows EXCEPT ![d] =
       [t \in Users |-> [listed |-> t \in Notifiers(d), list |-> FALSE, cell |-> FALSE]]]
  /\ reloaded' = [reloaded EXCEPT ![d] = TRUE]
  /\ UNCHANGED <<storeVars, taps, blocks, profile, loader, failed, wasFollower>>

(* The answer is stored in the list, whose didSet reloads the whole table:
   every cell shows its list entry again. *)
RowCheckResult(d, t) ==
  /\ <<d, "row", t>> \in checks
  /\ checks' = checks \ {<<d, "row", t>>}
  /\ IF rows[d][t].listed
     THEN LET list == [x \in Users |->
                        IF x = t THEN LocalView(d, FollowingDoc(Account[d], t))
                                 ELSE rows[d][x].list]
          IN  /\ rows' = [rows EXCEPT ![d] =
                           [x \in Users |-> [listed |-> rows[d][x].listed,
                                             list |-> list[x], cell |-> list[x]]]]
              /\ reloaded' = [reloaded EXCEPT ![d] = TRUE]
     ELSE UNCHANGED <<rows, reloaded>>
  /\ UNCHANGED <<storeVars, taps, blocks, profile, loader, failed, wasFollower>>

(* handleFollowTapped decides by what the cell shows; the HUD goes up.  It
   scrolls with the table, so that another row can be tapped below it. *)
TapRow(d, t) ==
  /\ rows[d][t].listed
  /\ Tap(d, t, "row", rows[d][t].cell)
  /\ loader' = [loader EXCEPT ![d] = TRUE]
  /\ reloaded' = [reloaded EXCEPT ![d] = FALSE]
  /\ UNCHANGED <<storeVars, checks, profile, rows, failed, wasFollower>>

(* A read that fails returns without calling back. *)
CheckFails(c) ==
  /\ c \in checks
  /\ checks' = checks \ {c}
  /\ Fails(c[1], "readfail")
  /\ UNCHANGED <<storeVars, taps, blocks, screens, wasFollower>>

-----------------------------------------------------------------------------
(* Blocks on the concurrent global queue run in any order. *)

(* UserService.follow / unfollow issue their first write. *)
RunFollowBlock(b) ==
  /\ b.kind = "follow"
  /\ blocks' = blocks \ {b}
  /\ Enqueue(b.dev, [doc |-> FollowingDoc(Account[b.dev], b.tap.target),
                     val |-> b.tap.val, then |-> "mirror", tap |-> b.tap])
  /\ UNCHANGED <<taps, checks, screens, failed, wasFollower>>

(* NotificationService.uploadNotification. *)
RunNotifyBlock(b) ==
  /\ b.kind = "notify"
  /\ blocks' = blocks \ {b}
  /\ Enqueue(b.dev, [doc |-> NotificationDoc(b.tap.target, Account[b.dev]),
                     val |-> TRUE, then |-> "none", tap |-> b.tap])
  /\ UNCHANGED <<taps, checks, screens, failed, wasFollower>>

(* PostService.updateUserFeedAfterFollowing: the posts the phone finds are put
   in, or taken out of, the feed of its user. *)
PostsOf(d, t) == {p \in Posts : Owner[p] = t /\ LocalView(d, PostDoc(p))}

FeedWrite(d, tap, p) == [doc |-> FeedDoc(Account[d], p), val |-> tap.val,
                         then |-> "none", tap |-> tap]

RunFeedBlock(b) ==
  /\ b.kind = "feed"
  /\ blocks' = blocks \ {b}
  /\ \/ /\ \E s \in SetToSeqs(PostsOf(b.dev, b.tap.target)) :
             EnqueueAll(b.dev, [i \in DOMAIN s |-> FeedWrite(b.dev, b.tap, s[i])])
        /\ UNCHANGED failed
     \/ /\ Fails(b.dev, "readfail")
        /\ UNCHANGED storeVars
  /\ UNCHANGED <<taps, checks, screens, wasFollower>>

-----------------------------------------------------------------------------
(* Answers.  No completion block looks at its error: a refused write runs the
   same code as an applied one. *)

(* Variants of AnswerMirror the runs refute: an unfollow that forgets the
   second document, and a notification sent after the first. *)
AnswerMirror_UnfollowForgets(d) ==
  /\ Answer(d, "mirror")
  /\ IF Oldest(d).val
     THEN DequeueThenEnqueue(d, [Oldest(d) EXCEPT
            !.doc = FollowersDoc(Oldest(d).tap.target, Account[d]), !.then = "done"])
     ELSE Dequeue(d)
  /\ UNCHANGED <<db, taps, blocks, checks, screens, wasFollower>>

AnswerMirror_NotifiesEarly(d) ==
  /\ Answer(d, "mirror")
  /\ DequeueThenEnqueue(d, [Oldest(d) EXCEPT
        !.doc = FollowersDoc(Oldest(d).tap.target, Account[d]), !.then = "done"])
  /\ blocks' = blocks \cup {[dev |-> d, kind |-> "notify", tap |-> Oldest(d).tap]}
  /\ UNCHANGED <<db, taps, checks, screens, wasFollower>>

(* The completion of the first write issues the second. *)
AnswerMirror(d) ==
  /\ Answer(d, "mirror")
  /\ DequeueThenEnqueue(d, [Oldest(d) EXCEPT
        !.doc = FollowersDoc(Oldest(d).tap.target, Account[d]), !.then = "done"])
  /\ UNCHANGED <<db, taps, blocks, checks, screens, wasFollower>>

(* Variant of AnswerProfile: the flag is toggled, as the rows do it. *)
AnswerProfile_Toggles(d) ==
  LET tap == Oldest(d).tap
  IN  /\ Answer(d, "done")
      /\ tap.screen = "profile"
      /\ Dequeue(d)
      /\ profile' = [profile EXCEPT ![d][tap.target].isFollowed = ~@]
      /\ blocks' = blocks \cup [dev : {d}, tap : {tap},
                                kind : IF tap.val THEN {"notify", "feed"} ELSE {"feed"}]
      /\ UNCHANGED <<db, taps, checks, rows, reloaded, loader, wasFollower>>

(* The header's completion: the flag, then the notification of a follow and
   the feed. *)
AnswerProfile(d) ==
  LET tap == Oldest(d).tap
  IN  /\ Answer(d, "done")
      /\ tap.screen = "profile"
      /\ Dequeue(d)
      /\ profile' = [profile EXCEPT ![d][tap.target].isFollowed = tap.val]
      /\ blocks' = blocks \cup [dev : {d}, tap : {tap},
                                kind : IF tap.val THEN {"notify", "feed"} ELSE {"feed"}]
      /\ UNCHANGED <<db, taps, checks, rows, reloaded, loader, wasFollower>>

(* Variant of AnswerRow: nothing is done for a cell that was reloaded. *)
AnswerRow_SameCellOnly(d) ==
  LET tap == Oldest(d).tap
  IN  /\ Answer(d, "done")
      /\ tap.screen = "row"
      /\ Dequeue(d)
      /\ IF reloaded[d]
         THEN UNCHANGED <<loader, rows>>
         ELSE /\ loader' = [loader EXCEPT ![d] = FALSE]
              /\ rows' = [rows EXCEPT ![d][tap.target].cell = ~@]
      /\ UNCHANGED <<db, taps, blocks, checks, profile, reloaded, wasFollower>>

(* The row's completion takes the HUD down and toggles its cell, which shows
   another row, or none, if the table was reloaded meanwhile. *)
AnswerRow(d) ==
  LET tap == Oldest(d).tap
  IN  /\ Answer(d, "done")
      /\ tap.screen = "row"
      /\ Dequeue(d)
      /\ loader' = [loader EXCEPT ![d] = FALSE]
      /\ \E t \in IF reloaded[d] THEN Users ELSE {tap.target} :
           rows' = [rows EXCEPT ![d][t].cell = rows[d][t].listed /\ ~@]
      /\ UNCHANGED <<db, taps, blocks, checks, profile, reloaded, wasFollower>>

(* A write nobody waits for. *)
AnswerSilent(d) ==
  /\ Answer(d, "none")
  /\ Dequeue(d)
  /\ UNCHANGED <<db, taps, blocks, checks, screens, wasFollower>>

AnswerAny(d) == AnswerMirror(d) \/ AnswerProfile(d) \/ AnswerRow(d) \/ AnswerSilent(d)

-----------------------------------------------------------------------------
(* The backend and the network. *)

Apply(d) ==
  /\ Commit(d)
  /\ wasFollower' = wasFollower \cup
       {x \in Users \X Users : db'[FollowersDoc(x[2], x[1])]}
  /\ UNCHANGED <<taps, blocks, checks, screens, failed>>

Resend(d) ==
  /\ Reopen(d)
  /\ UNCHANGED followVars

(* The process dies (or exit(0)): everything on the screens and the global
   queue is gone, the mutation queue is not. *)
Crash(d) ==
  /\ Fails(d, "crash")
  /\ LoseProcess(d)
  /\ blocks' = {b \in blocks : b.dev # d}
  /\ checks' = {c \in checks : c[1] # d}
  /\ profile' = [profile EXCEPT ![d] = [t \in Users |-> Closed]]
  /\ rows' = [rows EXCEPT ![d] = [t \in Users |-> NoRow]]
  /\ reloaded' = [reloaded EXCEPT ![d] = FALSE]
  /\ loader' = [loader EXCEPT ![d] = FALSE]
  /\ UNCHANGED <<taps, wasFollower>>

-----------------------------------------------------------------------------
UserStep(d) ==
  \/ \E t \in Users : OpenProfile(d, t) \/ TapProfile(d, t) \/ TapRow(d, t)
  \/ Refresh(d)

ReadStep(d) ==
  \/ \E t \in Users : ProfileCheckResult(d, t) \/ RowCheckResult(d, t)
  \/ NotificationsArrive(d)
  \/ \E c \in checks : c[1] = d /\ CheckFails(c)

BlockStep(d) ==
  \E b \in blocks : b.dev = d /\ (RunFollowBlock(b) \/ RunNotifyBlock(b) \/ RunFeedBlock(b))

Next ==
  \E d \in Devices : \/ UserStep(d) \/ ReadStep(d) \/ BlockStep(d)
                     \/ AnswerAny(d) \/ Apply(d) \/ Resend(d) \/ Crash(d)

Spec == Init /\ [][Next]_vars

(* The dispatch queues run their blocks, a phone that stays connected gets
   its writes applied, and the stream stays open long enough, again and
   again, for an answer to come back.  Nothing is assumed of the user. *)
Fairness ==
  \A d \in Devices : /\ WF_vars(BlockStep(d)) /\ WF_vars(ReadStep(d))
                     /\ WF_vars(Apply(d)) /\ SF_vars(AnswerAny(d))

FairSpec == Spec /\ Fairness

-----------------------------------------------------------------------------
(* Properties. *)

(* Every variable stays in its domain: the queues hold well-formed writes, no
   more are applied than are queued, a phone taps at most MaxTaps times. *)
TypeOK ==
  /\ db \in [Docs -> BOOLEAN]
  /\ queue \in [Devices -> Seq(Writes)]
  /\ applied \in [Devices -> Nat]
  /\ \A d \in Devices : applied[d] <= Len(queue[d])
  /\ taps \in [Devices -> 0..MaxTaps]
  /\ blocks \subseteq Blocks
  /\ checks \subseteq Devices \X Reads \X Users
  /\ profile \in [Devices -> [Users -> Profile]]
  /\ rows \in [Devices -> [Users -> Row]]
  /\ reloaded \in [Devices -> BOOLEAN]
  /\ loader \in [Devices -> BOOLEAN]
  /\ failed \in [Devices -> {"none", "crash", "reject", "readfail"}]
  /\ wasFollower \subseteq Users \X Users

(* A write of the pair is queued whose completion the app still awaits. *)
Writing(d, t) == \E i \in 1..Len(queue[d]) : /\ queue[d][i].then # "none"
                                             /\ queue[d][i].tap.target = t

(* Once the writes of all the taps on t are answered, "u follows t" and "t is
   followed by u" are both stored or neither is, whatever the order in which
   the blocks of several taps ran and however often the stream was reopened:
   the follow and unfollow of UserService keep the two collections mirrored. *)
MirrorAgrees ==
  \A d \in Devices, t \in Users :
    Sole(d) /\ Sound(d) /\ ~Writing(d, t)
      => db[FollowingDoc(Account[d], t)] = db[FollowersDoc(t, Account[d])]

(* A notification of u reaches t, and a post of t other than a first one gets
   into the feed of u, only after u has been in the list of t's followers:
   ProfileController writes them in the completion of both follow writes. *)
FollowedFirst ==
  \A u \in Users :
    (\A d \in Devices : Account[d] = u => failed[d] # "reject") =>
      /\ \A t \in Users : db[NotificationDoc(t, u)] => <<u, t>> \in wasFollower
      /\ \A p \in Posts : db[FeedDoc(u, p)] /\ Owner[p] # u
                            => <<u, Owner[p]>> \in wasFollower

(* A profile shows the truth when it has come to rest: no tap on t is under
   way and no read is outstanding.  Users who notified the phone's owner have
   a row as well, through which they can be followed behind the profile's
   back, and are not covered. *)
AtRest(d, t) ==
  /\ ~Writing(d, t)
  /\ <<d, "profile", t>> \notin checks
  /\ \A b \in blocks : ~(b.dev = d /\ b.kind = "follow" /\ b.tap.target = t)

ProfileShowsFollow ==
  \A d \in Devices, t \in Users :
    (/\ Sole(d) /\ failed[d] \in {"none", "crash"}
     /\ profile[d][t].open /\ AtRest(d, t)
     /\ ~db[NotificationDoc(Account[d], t)])
      => profile[d][t].isFollowed = LocalView(d, FollowingDoc(Account[d], t))

(* The HUD that a tap on a row puts up is taken down again, whether the writes
   are applied or refused, whatever the stream and the app go through, and
   also when further rows are tapped and the list is refreshed meanwhile:
   wantsToFollow and wantsToUnfollow dismiss it in the second completion. *)
LoaderReleased == \A d \in Devices : loader[d] ~> ~loader[d]

(* PostService.swift:194 says of a follow that the posts appear in the feed and
   of an unfollow that they disappear: once nothing is queued or dispatched on
   a phone that never failed, its user's feed has exactly the posts of those
   the user follows. *)
FeedFollowsFollow ==
  \A d \in Devices, p \in Posts :
    (/\ Sole(d) /\ failed[d] = "none"
     /\ queue[d] = <<>> /\ \A b \in blocks : b.dev # d
     /\ db[PostDoc(p)] /\ Owner[p] # Account[d])
      => db[FeedDoc(Account[d], p)] = db[FollowingDoc(Account[d], Owner[p])]

PairList == Users \X Users

LostPairs ==
  {x \in PairList : \A d \in Devices : Account[d] = x[1] => ~(Sole(d) /\ Sound(d))}

Dir == INSTANCE Directory WITH
  Pairs     <- PairList,
  following <- [x \in PairList |-> db[FollowingDoc(x[1], x[2])]],
  followers <- [x \in PairList |-> db[FollowersDoc(x[2], x[1])]],
  lost      <- LostPairs,
  busy      <- LostPairs \cup
               {x \in PairList : \E d \in Devices : Account[d] = x[1] /\ Writing(d, x[2])}

(* Following implements the directory of Directory.tla: every step changes at
   most one copy of a pair, only while its phone has a write of it queued, and
   the last of them is answered only when the copies are equal. *)
DirectorySpec == Dir!Spec

(* A pair does not stay half written: the two writes of a tap are answered one
   after the other, whatever becomes of the stream, unless the process dies or
   a write is refused. *)
DirectoryReleased == Dir!Released
=============================================================================
