# DogVillage in TLA+

DogVillage is an iOS app (Swift, UIKit, Firebase) in which users post pictures
of their pets, follow each other, like and comment posts, and are notified of
what others do with theirs. There is no server code: every phone writes
directly to Cloud Firestore, and whatever has to happen after a write is done
by a completion block on the phone that made it. What can go wrong is therefore
in the order of taps, blocks, writes, answers and reads, on several phones,
some of which die or go offline half way. These modules model that.

Paths below are relative to `src/DogVillage/DogVillage/`; the vendored Firestore
client is under `src/DogVillage/Pods/FirebaseFirestore/Firestore/core/src/`.

## The system

| Component | State | Operations | Interacts through | Hard part |
|---|---|---|---|---|
| Firestore client (`remote/remote_store.cc`, `core/sync_engine.cc`, `local/`) | mutation queue on disk, write pipeline, completion callbacks in memory | write, answer, refuse, resend, read with pending writes | the network; the main queue | resending, loss of callbacks with the process, pipeline limit |
| Following (`Controller/UserService.swift`) | `following/u/user-following/t`, `followers/t/user-followers/u` | follow, unfollow, checkIfUserIsFollowed, fetchUserState | completion blocks of both screens | two documents written in two steps; error of the first ignored |
| Profile screen (`Controller/ProfileController.swift`) | `user.isFollowed`, `user.stats`, posts | load, appear, action button | UserService, NotificationService, PostService | quick taps, late reads |
| Notification screen (`Controller/NotificationController.swift`, `View/NotificationCell.swift`) | list of notifications, one copy per cell, HUD | load, refresh, follow and unfollow a row, open a post or a user | UserService | completions that toggle a reused cell; the HUD |
| Notifications (`API/NotificationService.swift`) | `notifications/t/user-notifications/*` | send, fetch | sent by completions of follow, like, comment | a notification of something that did not happen |
| Posts and feed documents (`API/PostService.swift`) | `posts/p`, `users/u/user-feed/p` | upload, fan-out to followers, feed update after a follow, remove, fetch | ImageUploader, UserService's collections | unordered queries; fan-out racing with follows |
| Likes (`API/PostService.swift`) | `posts/p.likes`, `posts/p/post-likes/u`, `users/u/user-likes/p` | likePost, unlikePost, checkIfUserLikedPost | feed cells, NotificationService | read-modify-write of a counter; three writes in two steps |
| Feed screen (`Controller/FeedController.swift`, `View/FeedCell.swift`) | list of posts, a copy per cell | load, appear, refresh, like, remove, log out | PostService | reloads between a tap and its answer |
| Upload (`Controller/UploadPostController.swift`, `API/ImageUploader.swift`) | HUD | upload image, add post | PostService, MainTabController | a failed image upload never calls back; Share is above the HUD, so that uploads overlap |
| Accounts (`API/AuthService.swift`, `Controller/Authentication/`, `EditProfileController.swift`) | Auth account, `users/u` | register, log in, reset, update, delete, `exit(0)` | ImageUploader, Auth, Firestore | steps that fail apart |
| Session and tabs (`Controller/MainTabController.swift`, `AppDelegate.swift`) | `tab.user`, presented login | fetchUser, authenticationComplete, first-launch sign-out | every screen reads `tab.user` | answers for a previous login |
| Comments (`API/CommentService.swift`, `Controller/CommentController.swift`) | `posts/p/comments/*`, listener | upload, listen | NotificationService | listener order, listeners never removed |
| Shared HUD (`Utils/Extensions.swift`, JGProgressHUD) | the view it is in, the animation under way, a dismissal that waits | showLoader(true), showLoader(false) | every screen uses the one HUD | completions of one screen meet the animations of another |
| Search, Calendar | copies of the users, of the posts | filter, select, lookup | UserService, PostService | row index against the wrong list |
| Models, view models, cells | none of their own | formatting | | |

What makes each correct: **following** – the two collections agree once a tap is
done, and are half written for a bounded time only; **profile and rows** – at rest
the button shows what is stored and no HUD is left over; **notifications and
feed documents** – they tell of follows and likes that were stored, and the feed
is that of the users followed; **likes** – the counter is the number of likers,
never negative, and the two like collections agree; **upload** – every follower gets
the post, the HUD comes down; **accounts** – an account has its document and
the other way round; **session** – every screen works for who is signed in;
**comments** – every stored comment gets onto every open screen, once; **HUD** – it is up
only while something is waited for.

## The modules

| Module | Models |
|---|---|
| `Firestore` | The client and the backend as the app can tell them apart: one queue of writes per phone, of which the first `applied` have been applied by the backend but not answered yet |
| `WritePipeline` | The client's write path in detail: LevelDB queues of several users, SyncEngine's callbacks, RemoteStore's pipeline, the write stream and the wire. Implements `Firestore` |
| `Phone` | Who is signed in on which phone, and the faults: a crash, a refused write, a failed read |
| `Follow` | UserService, ProfileController, NotificationController, and what a follow writes next (notification, feed). Extends `Phone` |
| `Upload` | UploadPostController, uploadPost, ImageUploader, the fan-out to the followers, next to every step of `Follow`, which it extends |
| `Stats` | The number of followers in the header: fetchUserState and the completions that adjust it, next to every step of `Follow`, which it extends |
| `Likes` | likePost, unlikePost, FeedController, and the notification of a like. Extends `Phone` |
| `Comments` | CommentService and CommentController: the listener, both writes of a comment, the HUD. Extends `Phone` |
| `Session` | AuthService and the screens that call it, launch, login, logout, the user of the tabs, the mutation queues the client keeps per user. Extends `Firestore` |
| `Hud` | The one HUD and its animations, and the ways the screens use it |
| `Directory` | Abstract: a relation kept twice. Both `Follow` and `Likes` implement it |
| `QueueFacts` | Lemmas that the proofs share: about sequences, and about two documents kept equal by two writes of a queue, and about what a phone sees of its own writes |
| `FollowProof` | Proofs of `TypeOK`, `MirrorAgrees`, `DirectorySpec`, `FollowedFirst` and `ProfileShowsFollow` of `Follow`, and of `StatsTypeOK` and `StatsExact` of `Stats` |
| `LikesProof` | Proofs of `TypeOK`, `LikedFirst`, `LikesAreDirectory` and `LikesExact` of `Likes` |
| `UploadProof` | Proofs of `UploadTypeOK`, `FeedHasPost`, `UploadHudAwaited` and `SteadyFollowersGetPost` of `Upload` |
| `HudProof` | Proofs of the three invariants of `Hud` |
| `PipelineProof` | Proofs of `AssertionsHold`, `OwnCallback` and `StoreSpec` of `WritePipeline` |
| `SessionProof` | Proofs of the four invariants of `Session` |
| `CommentsProof` | Proofs of the four invariants of `Comments` |
| `MC*` | Instances for TLC |

### How the state corresponds

* `db[doc]` is a document at the backend. A document is named by its collection
  and ids; documents that only exist or not (`setData([:])`, `delete()`) are
  Booleans, `posts/p` is its `likes` number in `Likes`, a comment its writer in
  `Comments`, a user document "absent, registered, edited" in `Session`.
* `queue[d]` is the LevelDB mutation queue of phone `d`; a write also carries which
  completion block its answer runs (`then`) and, where the block captured one, the
  tap it belongs to. A crash keeps the queue and clears `then`: callbacks restored
  from disk do not exist (`SyncEngine::NotifyUser`).
* `applied[d]` counts the writes the backend applied and the phone has not heard
  of. `Commit` applies the next one of the pipeline (`MaxPipeline` is
  `kMaxPendingWrites`), `Answered` takes the first off, `Reopen` sets the count to
  zero, so that everything unanswered is applied again, `Refused` takes the first
  one off unapplied. Each answer runs its completion in the same step, as
  the callbacks of one phone run in the order of the answers on the main queue
  and touch nothing but that phone.
* `blocks` are closures given to `DispatchQueue.global()`, which is concurrent: they
  run in any order. A like's block makes its two writes in two steps.
* In `Follow` a refresh empties the list and starts the read of the notifications, whose
  arrival starts the reads of the rows. The HUD a row puts up lies in the table and scrolls
  away with it: neither a refresh nor a further tap waits for it. In the same way it lies
  below the bar with Share: `TapDone` is possible with any number of uploads under way, and
  `hud` is then up for all of them.
* `checks`, `fetching`, `counts` and `reads` are reads under way. In `Follow` and
  `Likes` a read shows its result in the step that reads: of the two hops through the
  main queue, user taps commute with it, and a completion that overtakes it is covered
  by the reading before that completion. A read sees the phone's pending writes
  over the backend (`LocalView`). In `Stats` reading and delivering are two steps,
  since a number read early and delivered late is the point.
* A screen keeps a list and a copy of each entry in a cell. Reloading sets all cells
  from the list. A completion captured its cell, which after a reload may be
  anybody's: `reloaded` in `Follow` and `mark` in `Likes` record that, and the
  completion then changes any cell, or none that is visible.
* In `Session` the `Devices` of `Firestore` are pairs of a phone and a user: the client
  keeps a mutation queue for everybody who was ever signed in and sends only that
  of the current one. `current` is in the keychain and survives an end of the
  process, `tab` does not; `jobs` are requests to Auth and Storage and blocks
  under way, named for their next step. A request may be carried out although its
  answer is lost with the process, so an account may be made, or be
  deleted, without the phone hearing of it.
  The profile from which one edits or deletes one's account is that of the tabs, or, after a
  login that left the tabs of another, the one found in the search; a first launch after an
  installation keeps nobody (`KeptUser`, `AppDelegate.swift:48`).
* In `Hud` the variables are those of JGProgressHUD (`targetView`,
  `_dismissAfterTransitionFinished`, and its transition flag); `pending` are requests whose
  completion will call `showLoader(false)`. The screens are four kinds: those whose button
  the HUD does not cover (Post on the keyboard, Share in the bar, rows of a table it scrolls
  with), one that is closed by a completion that dismisses it, one by a completion that does
  not, and one whose requests may never call back.
* `WritePipeline` has one variable per field of the client's classes, and the
  messages on the wire. It implements `Firestore` with one "device" per user of the phone:
  `applied` is the number of positive answers on the wire to the client. A broken stream,
  a change of user and a change of connectivity all lose what is on the wire; the last is
  `HandleCredentialChange` with the same user, which also calls `RestartNetwork`. The
  backend (external) answers in order and ends a stream only with an error.
* `was...`, `commented`, `stale`, `mixed`, `overlap`, `astray`, `ran`, `holder` and `lost` are
  history, read by properties only.

## The runs

| Run | Instance | Shows |
|---|---|---|
| `follow_one` | 1 phone, 2 users, 1 post, 3 taps, crash or refused write | `TypeOK`, `MirrorAgrees`, `ProfileShowsFollow`, `FollowedFirst` |
| `follow_live` | 1 phone, profile and rows, 2 taps, no posts, every fault, fair | `DirectorySpec`, `DirectoryReleased`, `LoaderReleased` |
| `follow_feed_order` | profile only, no fault | `FeedFollowsFollow` fails: the feed updates of two taps may run in the wrong order |
| `upload` | an owner who uploads and another user, a follower or not, who taps once, or who uploads twice; at most one phone has a fault, fair | `UploadTypeOK`, `FeedHasPost`, `SteadyFollowersGetPost`, `UploadHudAwaited`, `UploadHudReleased` |
| `likes_two` | 2 phones of 2 accounts, 1 post, 1 tap each | `LikesExact` |
| `likes_live` | 1 phone, 1 post, 2 taps, every fault, fair | `TypeOK` (no counter below zero), `LikedFirst`, `LikesAreDirectory`, `LikesReleased` |
| `session` | 1 phone, 2 users of whom one has an account, 2 uses of the login screens, 3 edits and deletions, every fault, fair | `SessionTypeOK`, `TabIsCurrent`, `AccountHasDocument`, `PostsDeletedLast`, `LoginHudReleased`, `EditStored` |
| `session_delete` | 1 phone, 1 user, no fault, fair | `DeletedIsGone` fails: Auth may sign out before the document's deletion is sent |
| `comments` | 2 phones of 2 accounts, 2 comments, crash or refused write, fair | `CommentsTypeOK`, `ShownOnce`, `CommentedFirst`, `ShownIsStored`, `CommentsShown`, `CommentHudReleased` |
| `stats` | 1 phone, 3 users, 2 taps, crash or failed read | `StatsTypeOK`, `StatsExact` |
| `hud` | 4 screens of these kinds, 4 requests, fair | `HudTypeOK`, `HudUpMeansWaiting`, `CoveredUntilAnswered`, `HudReleased` |
| `pipeline` | 2 users, 2 documents, 3 writes, 3 failures, pipeline of 2, fair | `AssertionsHold`, `OwnCallback`, `StoreSpec`, `WritesAnswered` |

The deadlock check is off in `upload`, `session`, `session_delete`, `comments` and `pipeline`, whose
instances really stop: when the posts, the logins, the taps or the writes are used up, and what
was begun is answered, nothing is left to do. In the others a profile can be opened, a list
refreshed or a screen left in every state.

Bounds, and why they are enough. Three taps on one button give follow, unfollow, follow,
whose blocks can run in all orders, before and after each answer; with fewer, a tap cannot
fall between two writes of two others. `MaxPipeline` is 2 instead of 10, so that a third
write really waits. One fault per phone: the properties stop claiming anything of a phone
after a crash or a refusal, so a second one shows nothing new; in `upload` the bound
`OneFault` allows one fault on one of the two phones, since the claims about a post only
except its owner's phone. A single post suffices for the feed, since posts do not interact
in it; `follow_live` needs none. `Lists` names the phones whose notification screen may be
opened: none in `upload`, where nobody has a follow row of a user who posts. Two accounts
with one tap each give every order of two likes, including the lost update `stale` records.
An upload has three stages and a follow four writes: one of each, on two phones, meets in
all ways (`OneUpload`: the second upload is for instances without a tap). Two uploads, the
second begun before or after any stage of the first, share a HUD; a third is to the second
what that is to the first. Two uses of the login screens give a login after a logout, a
registration after a failed one, and a second launch between them; three edits and deletions
(`Few`) are those of one user and one of the other. These three bounds hold up no step that
is taken to be fair. Two comments, on one phone or on two, are reported by the listener in
either order, together or apart; a third adds no order that two have not. In `stats` the
third user makes the number differ from the flag. In `hud` four requests let a completion of
one screen, a dismissal that waits and a new request of another meet in one animation. Three
writes and a pipeline of two need `FillWritePipeline` to refill; three failures allow a
refusal, a broken stream and a change of user in one behaviour, or leaving a user and coming
back.

What the properties do not claim is as important:

* `MirrorAgrees`, `DirectorySpec` and `LikesAreDirectory` are about an account used on
  one phone that neither died between two writes nor had one refused. In
  the other cases the collections really can differ for good, since the
  second write is issued by the phone, in the completion of the first.
* `FollowedFirst` and `CommentedFirst` need that no write of the account is refused: the
  completions do not look at their error (`ProfileController.swift:151`,
  `CommentController.swift:132`). `LikedFirst` needs no such thing, since `FeedController` does.
* Following from a row (`NotificationController.swift:108`) never touches the feed, and a follow
  during an upload may miss the post: the uploader's query for the followers
  (`PostService.swift:245`) comes before the follow is stored and the follower's query
  for the posts before the post is. `SteadyFollowersGetPost` is about users who neither
  followed nor unfollowed during the upload and tapped at most once, from the profile, on their
  only phone: with two phones, one may follow and the other unfollow while the updates of
  the feed come in the other order (`PostService.swift:199`).
* `FeedHasPost` is about owners none of whose writes was refused, since the feeds are
  written whatever becomes of the post.
* `LikesExact` is about posts on which every tap acted on the stored number while no
  other was under way. The number is overwritten, not incremented: two likes
  at once count once. It also excludes phones that died, because the process
  can end between the write of the number and that of the flag.
* `StatsExact` excludes profiles on which a tap overlapped a read or another tap: the
  completion then adds what the read has counted already, or a late read takes it back.
* `ProfileShowsFollow` leaves out users with a row in the notification screen,
  through which they can be followed without the profile hearing of it.
* `TabIsCurrent` excludes overlapping fetches (`MainTabController.swift:118`): the answer for an
  earlier login may come after that for a later one, and stay.
* `AccountHasDocument` excludes an end of the process between `createUser` and the write
  (`AuthService.swift:31`), after which the account has no document for good.
* `EditStored` names the failures after which an edit is lost although success was reported
  when it had only begun (`ResetInfomation.swift:130`).
* `ShownIsStored` excludes refused comments: the listener passes over removals
  (`CommentService.swift:48`), so that a refused comment stays on its writer's screen.
* `UploadHudAwaited` and `UploadHudReleased` except an image that failed to upload, and
  do not claim that the HUD stays up until every upload is answered: the first answer
  takes it down for all (`UploadPostController.swift:105`).
* `HudUpMeansWaiting` and `HudReleased` except requests that never call back: an image that
  fails to upload, a document that is not there.

Fairness. The dispatch queues run every block they are given (weak fairness of
`BlockStep`, of `ReadStep` in `Follow`, and of `UploadStep`, in which Storage answers and the
list of followers arrives). A phone that is connected gets its
next write applied (weak fairness of `Apply`). The stream may be reopened at any
time, which takes back `applied`; what the reconnection logic of the client gives is that
a stream stays up long enough, again and again, for an answer to arrive: strong
fairness of the answers. `pipeline` shows where that comes from: the client's tasks and a backend
that answers, with finitely many failures, are enough there, without strong fairness. A
phone that stays offline for ever is not covered: its HUD does stay. In `Session`
requests to Auth and Storage end, well or badly (`Reply`), and somebody opens the app again
after it ended (`Launch`), without which a queue left on disk would stay there; `exit(0)` comes. In
`Comments` the listener is told of every change in the end. In `Hud` animations end and
requests are answered. Nothing else is assumed of the user, nor of faults, or of `Reopen`.

`UploadHudReleased` rests on the order in which `didTapDone`'s completion works: the HUD is
taken down before the error is looked at, so that a refused post ends it as well.
`LoaderReleased` is not obvious because its completion is the second of a chain, and whoever
answers may be a refusal, and a crash ends the screen; it would break were the completion to
depend on its cell still showing the same row. `LoginHudReleased` holds although a
successful registration shows the HUD again instead of hiding it
(`RegisterationController.swift:192`), because the screen it is in is dismissed.

## Disagreements with the repository's own words

`API/PostService.swift:194` says that on a follow the posts appear in the feed and on
an unfollow they disappear. The queries of two calls of `updateUserFeedAfterFollowing`
are unordered (`PostService.swift:199`), so the update of the follow may be the last
although the unfollow was: `FeedFollowsFollow`. The feed documents are read by `fetchFeedPosts`
only, which no screen calls at present.

`Controller/EditProfileController.swift:81` says that the account has been deleted. The
deletion of the account and of its document are started side by side (`AuthService.swift:115`).
When Auth answers first the phone is signed out, the client swaps to another mutation
queue, and the deletion of the document stays in the queue of a user who cannot sign in again:
`DeletedIsGone`. `PostsDeletedLast` is what does hold.

## Proofs

Checked by TLAPS for every value of the constants, under the named assumptions of
the modules (`PipelineAssumption`: the pipeline holds at least one write;
`PhoneAssumption`: every phone is signed in to a user; `FollowAssumption`: posts are
finitely many, have owners, and nobody follows himself at the start; `LikesAssumption`:
users are finitely many, posts have owners; `UploadAssumption` and `StatsAssumption`: users are
finitely many;
`HudAssumption`). There is no bound on
phones, users, screens, requests or taps.

* `FollowProof!TypeCorrect`: `Spec => []TypeOK`. `TypeOK` is inductive. It includes that a
  phone never has more writes applied than queued, which is what lets the answer of
  the oldest write be taken for that of an applied one.
* `FollowProof!MirrorCorrect`: `Spec => []MirrorAgrees`. `MirrorAgrees` alone is not
  inductive: it says nothing while a pair is being written. `MirrorInv` adds `Shape`
  (a write awaited as `mirror` addresses the following document of its tap, one
  awaited as `done` the followers document, each with the value of the tap, and
  nothing else in a queue addresses either) and `PairInv`: on the only phone of an
  account, what the pair's two documents will hold once everything queued is
  applied is related write by write. The last `mirror` write still queued, if any,
  decides the final following value and its successor, not yet issued, the final
  followers value; if only `done` writes are left, the last of them agrees with
  the following document; if none is, the two documents agree. Resending does not disturb
  this since it re-applies a prefix of the queue whose last writes per document are
  unchanged. One lemma per action. How a tap, an answer, a commit and a reopened stream change such
  a pair of documents is stated once, for any two kinds of writes, by the pair lemmas of `QueueFacts`.
* `FollowProof!DirectoryImplemented`: `Spec => DirectorySpec`. The abstract directory holds a
  relation twice; a pair is claimed, either copy is set while it is, and it may be released
  only when the copies agree. That a tap claims the pair, and that the blocks, the second write
  and a resent write change only claimed pairs, is read off each action; that a pair is
  released in agreement is `MirrorInv` after the step, so the refinement rests on the
  same invariant as `MirrorAgrees`.
* `FollowProof!FollowedFirstCorrect`: `Spec => []FollowedFirst`, for any number of
  phones, also of one account, of which the runs have one. From the followers document to the
  notification and the feed there is a chain: an applied write, its answer, a block,
  another write, the document. `FirstInv` says in every link that the follow is *known*: it was
  stored, or a write of the account was refused, and what is known stays known.
* `FollowProof!ProfileShowsCorrect`: `Spec => []ProfileShowsFollow`. What a header shows at rest is
  decided long before. `HeaderInv` says what the queue will make of it: no write of the following
  document comes after a first write of the pair but another first one; when none of these is left, the
  last second write has the value the phone sees (its last queued write of the document,
  or what is stored); when no second one is left either, the header has it, unless a
  read is to set it. What the phone sees is the same before and after a write is applied or answered,
  since what is stored is the last applied write (`StoredOK`), also after the stream was
  reopened. `RowsInv` keeps taps of the other screen out of it: a row is only for a user whose
  notification is stored, and nobody has a row, or a tap, for himself. `MirrorInv` and `FirstInv`
  give the shape and the values of the writes. The proof does not need that no block of a tap is
  waiting: a tap changes nothing before its first write is queued.
* `FollowProof!StatsTypeCorrect`: `StatsSpec => []StatsTypeOK`. A number that was read is a
  number of users; from there it goes up and down by completions only, so what has to be
  shown is that a tap completes once. `TapsInv` says that taps are numbered and that a tap is in one
  place, in the block that is to issue its first write or in the one queued write whose
  completion is awaited; `Done` is the number of taps that are in no place any more, and
  `StatsInv` bounds the error of every header by it. A resent write does not complete
  again, and what dies with the process (`Forgotten`) never does.
* `FollowProof!StatsExactCorrect`: `StatsSpec => []StatsExact`. The number goes up when the second write
  is *answered*, the documents change when it is *applied*, and a read counts what the phone
  sees, its own unanswered writes included. `CountInv` says of a header that is `Clean` (nothing
  failed, no other phone taps, no overlap so far) that it is `Before` a tap (each number shown or read is
  that of the documents) or `During` one: the number shown is that of the `Others` plus what the
  tap found of its own, and the own document has the new value as soon as the second write is applied.
  It rests on `LoneInv`, which repeats `PairInv` for a phone that shares its account
  with phones that never tap, as a tap must ask for what is not so already, and gives
  queued writes the value of their tap.
* `LikesProof!LikesTypeCorrect`, `LikesProof!LikedFirstCorrect`: `TypeOK` of `Likes` is not inductive:
  that the counter is never set below zero rests on the tap, which `unlikePost` lets through only
  with a number above zero, and which is remembered in the block, in the writes and in
  the completion, although the cell may change in between. `LikesInv` says that of all
  of them, that the two flags of a tap have the tap's value, and, for `LikedFirst`,
  that the like is stored where the last flag is applied, where a block is to notify, and
  where a notification is queued.
* `LikesProof!LikesDirectoryImplemented`: `Spec => LikesAreDirectory`, the abstract directory
  again: the flag at the post and the flag at the user are the two copies, and the counter,
  which nothing protects, is not part of it. `FlagsInv` is `LikesInv` with the `Shape` and the
  `PairInv` of the flags, proved with the pair lemmas that `MirrorInv` uses; the write of the
  counter, from the same block, is to a third document.
* `LikesProof!LikesExactCorrect`: `Spec => []LikesExact`. The number a tap stores is computed from what
  its cell shows, is written by another block than the flag, and may be sent again. `ExactInv` says that while no tap acted
  on an outdated number a post is `Settled` (nothing under way, the counter is the number of
  likers) or one tap is under way for it, whose number is already that of those who will like
  the post; what is stored then is what it was or what the tap writes (`Arrived`), and by
  `Stage` the flag's write is queued last and once, so that it is stored when none is left.
* `UploadProof!FeedHasPostCorrect`: a feed is written by two phones at different times, by the
  uploader's fan-out and by a reader's query, and neither looks at the post again. What makes
  it right is the order of the queue: `GoodQueue` says of every queued write of a feed that its
  post is settled (stored, or possibly refused) or is written by an earlier write of the same
  queue, and of every applied write of a post that it was stored; `AskedOK` says the same of
  the end of the queue for an upload that waits for the list of followers, as the reader's
  query finds only posts for which it holds. Reopened streams, lost processes and refusals
  keep it since they change nothing ahead of a write but what they settle.
  `UploadHudCorrect` and `UploadTypeCorrect` come from the same `UploadInv`: whichever of
  the overlapping uploads put the HUD up, none of them ends, but by a failed image, without an
  answer that takes it down.
* `UploadProof!SteadyFollowersCorrect`: `UploadSpec => []SteadyFollowersGetPost`. Two queries race:
  the uploader asks for the followers once the post is queued, the follower for the posts once
  both documents of the follow are applied, and each may miss what the other writes. `SteadyInv` says, as long as
  nothing failed, that a pair of a user and a post with at most one tap is `Resting` (the two
  copies agree, and once the followers were asked for the feed has, or will get from a write already
  queued, what they say) or `Busy` with its one tap, in one of four stages: its block
  waits, its first write is queued, its second one, the block that updates the feed waits. In the last
  three the feed does not matter, since that last block writes it for every stored post; that
  the post is stored by then, or the followers are asked for only later, is what `UnderWay` and
  `OverlapOK` (an upload that meets a tap is recorded in `overlap`) provide. A step that touches no
  document of the pair keeps all this (`Untouched`); the others are one lemma each.
* `HudProof`: `HudTypeCorrect`, `HudUpCorrect` and `CoveredCorrect` for any screens of any
  kinds and any number of requests.

* `PipelineProof`: `AssertionsCorrect`, `OwnCallbackCorrect` and `StoreImplemented`
  (`PipelineSpec => StoreSpec`). A result says nothing of the write it is the result of;
  `RemoteStore` takes it for that of the first write of the pipeline. `PipelineInv` says why that
  is right: `QueuesOK` (ids increase in every queue, and the next one is above all of the
  queue that is loaded), `AtFront` (the pipeline is the front of the queue of the user who is signed in,
  never longer than `MaxPipeline`) and `Wire` (on a stream that is ready, what is on the wire to the backend
  is the end of the pipeline, and what is on the wire back answers the rest, one by one, with a
  refusal last if at all; on any other stream there is at most a handshake). `OwnCallback` adds
  that two callbacks with one user and id, and a batch of that id still queued, belong to the
  same write: ids start again only above what is left in the queues, and what is not in a queue any more has
  run its callback. With `Wire` each step of the client is an abstract one: the message the backend takes is the
  write that `Commit` applies, the answered one is the head of the abstract queue, and all ways of
  losing a stream are `Reopen` or a stutter. This is what entitles the other modules to `Firestore`.
* `SessionProof`: `SessionTypeCorrect`, `TabIsCurrentCorrect`, `AccountHasDocumentCorrect` and
  `PostsDeletedLastCorrect`, from one `SessionInv`. A job is one step of a chain over Auth, Storage and
  Firestore, and what it may rely on was established several steps before it, by answers that
  went through a queue which is not even sent while another user is signed in. `JobsOK`, `LeavingOK`,
  `RegisteredOK`, `AccountsOK`, `QueuesOK` and `DeletionsOK` state that for every kind of
  job and of queued write: a write that registers is queued only for an account that was made; while it is
  queued nothing behind it deletes; the posts are queued for deletion only when the deletion of
  the document was applied, and it cannot be undone by a write that was resent. `TabsOK` ties
  the tabs to the reads under way.
* `CommentsProof`: `CommentsTypeCorrect`, `ShownOnceCorrect`, `CommentedFirstCorrect` and
  `ShownIsStoredCorrect`. The listener forgets what is removed while the screen keeps it, so that a
  comment would be shown twice if one that was removed could come back. `CommentsInv`
  shows that it cannot: a comment is queued on one phone only and once (`QueuedOnce`), what is
  stored stays, so what is neither stored nor queued is `Gone` and its number will not be given
  again. `ScreensOK` says that the screen shows, once each, the snapshot and comments that are gone. For
  `CommentedFirst`, `QueuesOK` and `BlocksOK` carry "a comment of this user was stored, or a write of the
  phone refused" from the applied write to its answer, the block, the notification's write and its
  document.

The inductive invariants were checked by TLC on the small instances before. With these,
every invariant of a passing run, and every action property and refinement, is a theorem. Only
model-checked: liveness and everything with fairness (out of the prover's
reach, as is `ENABLED`).

## Plan

Done: `Firestore`, `Phone`, `Follow`, `Directory`, `Likes`, `Upload`; `Session`, `Stats`, `Comments`, `Hud` and
`WritePipeline`; the proofs above. Worth doing next: the composition of `Upload` with the deletion of an account, whose
listener and fan-out could meet.

## Not modelled

Formatting, layout, cells and view models (stateless) and the unused `ViewController` template;
images and their URLs; timestamps and the order of lists by time, the text of comments; the fresh
ids of notifications (one document per pair here, so that two notifications of the same
follow are one). Search is a list read once and a filter: the wrong list is indexed while the
filter is active (`SearchController.swift:121`), a matter of one line and of no order of
steps. The calendar is one read and a lookup. The notification list is a single read
(`NotificationController.swift:41`), so that what arrives later is shown only after a
refresh. Of the screens, the page of a single post and the opening of
one screen from another; listeners that outlive their screen. Code that cannot run
or that nothing calls: removing a post, whose button is never added to a cell
(`View/FeedCell.swift:135`), `fetchFeedPosts`, the `emailDuplicate` check. Of Firestore, listeners'
caches, the watch stream, garbage collection, transactions, and a read answered from an outdated
cache while offline; Auth, Storage and the other Pods, more than nine tenths of the
repository's lines, are third-party code that the app only configures; their effect is
modelled where the app calls them.
