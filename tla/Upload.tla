------------------------------- MODULE Upload -------------------------------
(***************************************************************************)
(* Uploading a post while others follow its owner: UploadPostController,   *)
(* PostService.uploadPost, ImageUploader and updateUserFeedAfterPost, next *)
(* to every step of Follow.                                                *)
(*                                                                         *)
(* The post is put in the feeds of those the phone finds among the owner's *)
(* followers right after it queued the post; whoever follows later fetches *)
(* the posts himself, with updateUserFeedAfterFollowing.                   *)
(*                                                                         *)
(* Bounds: a post of Posts is uploaded once; its id stands for the fresh   *)
(* one of addDocument.  A failed read is also a failed image upload.  The  *)
(* animations of the HUD are those of Hud.tla.                             *)
(***************************************************************************)
EXTENDS Follow

(* There are finitely many accounts: the followers found are a list. *)
ASSUME UploadAssumption == IsFiniteSet(Users)

VARIABLES uploads,   \* <<d, p, phase>>: image under way, or followers queried
          uploaded,  \* posts whose upload was begun, or that exist at the start
          hud,       \* the HUD that Share puts up is up
          wasPost,   \* history: the posts ever stored
          overlap    \* history: <<u, p>>, u (un)followed during the upload of p

screenVars == <<uploads, uploaded, hud>>
uploadVars == <<screenVars, wasPost, overlap>>
allVars    == <<vars, uploadVars>>

UploadInit ==
  /\ Init
  /\ uploads = {}
  /\ uploaded = InitPosts
  /\ hud = [d \in Devices |-> FALSE]
  /\ wasPost = InitPosts
  /\ overlap = {}

-----------------------------------------------------------------------------
(* History. *)

(* The upload of p has begun and not all its writes are answered. *)
Uploading(p) ==
  \/ \E x \in uploads : x[2] = p
  \/ \E d \in Devices : \E i \in 1..Len(queue[d]) :
       /\ queue[d][i].doc[3] = p
       /\ queue[d][i].tap.screen = "upload"

(* A tap of u on t is being carried out, the update of the feed included. *)
Following(u, t) ==
  \E d \in Devices :
    /\ Account[d] = u
    /\ \/ \E b \in blocks : b.dev = d /\ b.kind # "notify" /\ b.tap.target = t
       \/ \E i \in 1..Len(queue[d]) : /\ queue[d][i].tap.target = t
                                      /\ queue[d][i].tap.screen # "upload"
                                      /\ queue[d][i].doc[1] # "user-notifications"

Remember ==
  /\ wasPost' = wasPost \cup {p \in Posts : db'[PostDoc(p)]}
  /\ overlap' = overlap \cup
       {x \in Users \X Posts : Uploading(x[2])' /\ Following(x[1], Owner[x[2]])'}

-----------------------------------------------------------------------------
(* didTapDone shows the HUD; uploadPost uploads the image first.  The HUD lies
   below the bar that Share is in: it can be tapped again, here or on another
   screen after a Cancel, with uploads under way; the HUD then stays as it is. *)
TapDone(d) ==
  /\ hud' = [hud EXCEPT ![d] = TRUE]
  /\ \E p \in Posts \ uploaded :
       /\ Owner[p] = Account[d]
       /\ uploads' = uploads \cup {<<d, p, "image">>}
       /\ uploaded' = uploaded \cup {p}
  /\ UNCHANGED vars

(* An image that fails to upload ends it there: nothing is called back. *)
ImageFails(d, p) ==
  /\ <<d, p, "image">> \in uploads
  /\ uploads' = uploads \ {<<d, p, "image">>}
  /\ Fails(d, "readfail")
  /\ UNCHANGED <<storeVars, taps, blocks, checks, screens, wasFollower, uploaded, hud>>

UploadTap(d) == [n |-> 0, screen |-> "upload", target |-> Account[d], val |-> TRUE]

(* Variant of PostWrite: its answer is not waited for. *)
PostWrite_Unheard(d, p) == [doc |-> PostDoc(p), val |-> TRUE, then |-> "none",
                            tap |-> UploadTap(d)]

PostWrite(d, p) == [doc |-> PostDoc(p), val |-> TRUE, then |-> "uploaded",
                    tap |-> UploadTap(d)]

FeedsWrite(d, u, p) == [doc |-> FeedDoc(u, p), val |-> TRUE, then |-> "none",
                        tap |-> UploadTap(d)]

(* The followers the phone finds; the variant asks the wrong collection. *)
FollowersOf_Followed(d, t) == {u \in Users : LocalView(d, FollowingDoc(t, u))}

FollowersOf(d, t) == {u \in Users : LocalView(d, FollowersDoc(t, u))}

(* Variant of ImageStored: the feeds are written before the post. *)
ImageStored_FeedsFirst(d, p) ==
  /\ <<d, p, "image">> \in uploads
  /\ uploads' = uploads \ {<<d, p, "image">>}
  /\ \E s \in SetToSeqs(FollowersOf(d, Account[d])) :
       EnqueueAll(d, [i \in DOMAIN s |-> FeedsWrite(d, s[i], p)]
                       \o <<FeedsWrite(d, Account[d], p), PostWrite(d, p)>>)
  /\ UNCHANGED <<followVars, uploaded, hud>>

(* The image is stored: addDocument, and the query for the followers. *)
ImageStored(d, p) ==
  /\ <<d, p, "image">> \in uploads
  /\ uploads' = (uploads \ {<<d, p, "image">>}) \cup {<<d, p, "followers">>}
  /\ Enqueue(d, PostWrite(d, p))
  /\ UNCHANGED <<followVars, uploaded, hud>>

(* updateUserFeedAfterPost: the feed of every follower found, then the
   owner's; without an answer no feed at all. *)
FanOut(d, p) ==
  /\ <<d, p, "followers">> \in uploads
  /\ uploads' = uploads \ {<<d, p, "followers">>}
  /\ \/ /\ \E s \in SetToSeqs(FollowersOf(d, Account[d])) :
             EnqueueAll(d, [i \in DOMAIN s |-> FeedsWrite(d, s[i], p)]
                             \o <<FeedsWrite(d, Account[d], p)>>)
        /\ UNCHANGED failed
     \/ /\ Fails(d, "readfail")
        /\ UNCHANGED storeVars
  /\ UNCHANGED <<taps, blocks, checks, screens, wasFollower, uploaded, hud>>

(* Variant of AnswerUploaded: it returns on an error before the HUD is down. *)
AnswerUploaded_ReturnsOnError(d) ==
  /\ Answer(d, "uploaded")
  /\ Dequeue(d)
  /\ hud' = [hud EXCEPT ![d] = @ /\ applied[d] = 0]
  /\ UNCHANGED <<db, taps, blocks, checks, screens, wasFollower, uploads, uploaded>>

(* addDocument is answered: the HUD goes down, also when it is up for another
   upload; after an error it is left at that. *)
AnswerUploaded(d) ==
  /\ Answer(d, "uploaded")
  /\ Dequeue(d)
  /\ hud' = [hud EXCEPT ![d] = FALSE]
  /\ UNCHANGED <<db, taps, blocks, checks, screens, wasFollower, uploads, uploaded>>

(* The end of the process ends its uploads. *)
CrashUpload(d) ==
  /\ Crash(d)
  /\ uploads' = {x \in uploads : x[1] # d}
  /\ hud' = [hud EXCEPT ![d] = FALSE]
  /\ UNCHANGED uploaded

-----------------------------------------------------------------------------
FollowStep(d) ==
  /\ \/ UserStep(d) \/ ReadStep(d) \/ BlockStep(d)
     \/ AnswerAny(d) \/ Apply(d) \/ Resend(d)
  /\ UNCHANGED screenVars

UploadStep(d) ==
  \E p \in Posts : ImageStored(d, p) \/ ImageFails(d, p) \/ FanOut(d, p)

UploadNext ==
  \E d \in Devices : /\ \/ FollowStep(d) \/ TapDone(d) \/ UploadStep(d)
                        \/ AnswerUploaded(d) \/ CrashUpload(d)
                     /\ Remember

UploadSpec == UploadInit /\ [][UploadNext]_allVars

(* Storage and Firestore answer; nothing is assumed of the user. *)
UploadFairness ==
  \A d \in Devices :
    /\ WF_allVars(UploadStep(d) /\ Remember)
    /\ WF_allVars(Apply(d) /\ UNCHANGED screenVars /\ Remember)
    /\ SF_allVars((AnswerUploaded(d) \/ (AnswerAny(d) /\ UNCHANGED screenVars)) /\ Remember)

FairUploadSpec == UploadSpec /\ UploadFairness

-----------------------------------------------------------------------------
(* Properties. *)

(* The variables of the upload stay in their domains, and with the writes of
   uploads among those of follows no phone has more applied than queued. *)
UploadTypeOK ==
  /\ uploads \subseteq Devices \X Posts \X {"image", "followers"}
  /\ uploaded \subseteq Posts
  /\ hud \in [Devices -> BOOLEAN]
  /\ \A d \in Devices : applied[d] \in 0..Len(queue[d])
  /\ \A x \in uploads : Owner[x[2]] = Account[x[1]] /\ x[2] \in uploaded \ InitPosts

(* A feed names a post only when it has been stored, be it by the fan-out of
   its upload or by the reader's own query after a follow: uploadPost writes
   the post before the feeds, and a phone's writes are applied in their order,
   also when they are sent again or left over by a dead process. *)
FeedHasPost ==
  \A u \in Users, p \in Posts :
    (/\ db[FeedDoc(u, p)]
     /\ \A d \in Devices : Account[d] = Owner[p] => failed[d] # "reject") => p \in wasPost

(* Everyone who followed the owner all through the upload has the post in the
   feed, and nobody who did not: updateUserFeedAfterPost finds the followers
   then, and updateUserFeedAfterFollowing the posts of follows before or after
   it.  Of a user's taps on the owner only a first one from the profile is
   covered, on his only phone: of two phones one may follow and the other
   unfollow, and the feeds be updated in the other order. *)
Quiet == \A d \in Devices : failed[d] = "none"

OneTap(u, t) ==
  /\ \A d \in Devices : Account[d] = u => Sole(d) /\ taps[d] <= 1
  /\ ~db[NotificationDoc(u, t)]

SteadyFollowersGetPost ==
  \A u \in Users, p \in Posts :
    (/\ p \in wasPost /\ u # Owner[p] /\ Quiet /\ OneTap(u, Owner[p])
     /\ <<u, p>> \notin overlap /\ ~Uploading(p) /\ ~Following(u, Owner[p]))
      => db[FeedDoc(u, p)] = db[FollowingDoc(u, Owner[p])]

(* The HUD of an upload is up only while something is still to take it down:
   the transfer of an image or the answer of addDocument, although Share can be
   tapped again at any time and the answer of any of the uploads takes down
   the HUD of all, and whatever the crashes, refusals and resent writes.  An
   image that fails to upload is the exception: nobody is called back then. *)
UploadHudAwaited ==
  \A d \in Devices : hud[d] =>
    \/ \E p \in Posts : <<d, p, "image">> \in uploads
    \/ \E i \in 1..Len(queue[d]) : queue[d][i].then = "uploaded"
    \/ failed[d] = "readfail"

(* And it does come down, however many uploads overlap and whether their posts
   are stored or refused, unless an image failed. *)
UploadHudReleased ==
  \A d \in Devices : hud[d] ~> (~hud[d] \/ failed[d] = "readfail")
=============================================================================
