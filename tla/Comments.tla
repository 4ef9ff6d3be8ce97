------------------------------ MODULE Comments ------------------------------
(***************************************************************************)
(* The comments of one post: CommentService and CommentController on       *)
(* several phones.  The screen shows what its snapshot listener collects:  *)
(* the changes of type "added", in the order they are reported.            *)
(*                                                                         *)
(* A comment is the number of its timestamp; its document holds the user   *)
(* who wrote it.  The text is not modelled: Post takes whatever is in the  *)
(* field, and the HUD does not cover it.                                   *)
(*                                                                         *)
(* Bounds: MaxTaps taps on Post; the clocks of the phones agree;           *)
(* the notifications of one user are one document; a screen is opened once *)
(* per process.                                                            *)
(***************************************************************************)
EXTENDS Phone, SequencesExt

CONSTANTS PostOwner,     \* the ownerUid of the post
          NoOne,         \* the value of a document that does not exist
          InitComments,  \* comments stored at the start, by the owner
          MaxTaps

ASSUME CommentsAssumption ==
  /\ PostOwner \in Users /\ NoOne \notin Users
  /\ InitComments \in Nat /\ MaxTaps \in Nat

VARIABLES taps,      \* taps on Post, on all phones
          blocks,    \* <<d, kind, k>>: blocks on the global queue
          written,   \* comments given a timestamp so far
          open,      \* CommentController is on the screen
          seen,      \* the documents of the listener's last snapshot
          comments,  \* CommentController.comments
          hud,       \* the HUD is up
          commented  \* history: users of whom a comment was ever stored

screenVars == <<open, seen, comments>>
commentVars == <<taps, blocks, written, screenVars, hud, failed, commented>>
allVars == <<storeVars, commentVars>>

Numbers == 1..(InitComments + MaxTaps)

CommentDoc(n)      == <<"comments", n>>
NotificationDoc(u) == <<"user-notifications", u>>
Docs == ({"comments"} \X Numbers) \cup ({"user-notifications"} \X Users)

Visible(d) == {n \in Numbers : LocalView(d, CommentDoc(n)) # NoOne}

CommentsInit ==
  /\ db = [x \in Docs |-> IF x[1] = "comments" /\ x[2] \in 1..InitComments
                          THEN PostOwner ELSE NoOne]
  /\ queue = [d \in Devices |-> <<>>]
  /\ applied = [d \in Devices |-> 0]
  /\ taps = 0
  /\ blocks = {}
  /\ written = InitComments
  /\ open = [d \in Devices |-> FALSE]
  /\ seen = [d \in Devices |-> {}]
  /\ comments = [d \in Devices |-> <<>>]
  /\ hud = [d \in Devices |-> FALSE]
  /\ NoFailures
  /\ commented = IF InitComments > 0 THEN {PostOwner} ELSE {}

(* viewDidLoad attaches the listener. *)
OpenComments(d) ==
  /\ ~open[d]
  /\ open' = [open EXCEPT ![d] = TRUE]
  /\ UNCHANGED <<storeVars, taps, blocks, written, seen, comments, hud, failed, commented>>

(* Variant of Reported: all the documents of the snapshot. *)
Reported_All(d, found) == found

(* Variant of Reported: the newest document only. *)
Reported_Newest(d, found) == {n \in found \ seen[d] : \A m \in found : m <= n}

Reported(d, found) == found \ seen[d]

(* The lists of a set of comments, from the newest to the oldest. *)
NewestFirst(S) ==
  {list \in [1..Cardinality(S) -> S] :
     ToSet(list) = S /\ \A i, k \in DOMAIN list : i < k => list[i] > list[k]}

(* Variant of Listening: a single read, as the notifications have it. *)
Listening_Once(d) == open[d] /\ seen[d] = {}

Listening(d) == open[d]

(* A snapshot: the phone's own pending comments, and what the backend has sent
   of the others; what was added is appended, newest first, what was removed
   is passed over. *)
Snapshot(d) ==
  /\ Listening(d)
  /\ \E found \in SUBSET Visible(d) :
       /\ found # seen[d]
       /\ seen[d] \cap Visible(d) \subseteq found
       /\ {n \in Visible(d) : PendingOn(d, CommentDoc(n)) # {}} \subseteq found
       /\ seen' = [seen EXCEPT ![d] = found]
       /\ \E added \in NewestFirst(Reported(d, found)) :
            comments' = [comments EXCEPT ![d] = @ \o added]
  /\ UNCHANGED <<storeVars, taps, blocks, written, open, hud, failed, commented>>

(* Variant of TapPost: the owner is notified at once. *)
TapPost_Notifies(d) ==
  /\ open[d] /\ taps < MaxTaps
  /\ taps' = taps + 1
  /\ blocks' = blocks \cup {<<d, "comment", taps'>>}
                      \cup (IF Account[d] = PostOwner THEN {} ELSE {<<d, "notify", taps'>>})
  /\ hud' = [hud EXCEPT ![d] = TRUE]
  /\ UNCHANGED <<storeVars, written, screenVars, failed, commented>>

(* The Post button. *)
TapPost(d) ==
  /\ open[d] /\ taps < MaxTaps
  /\ taps' = taps + 1
  /\ blocks' = blocks \cup {<<d, "comment", taps'>>}
  /\ hud' = [hud EXCEPT ![d] = TRUE]
  /\ UNCHANGED <<storeVars, written, screenVars, failed, commented>>

(* uploadComment. *)
RunCommentBlock(d, k) ==
  /\ <<d, "comment", k>> \in blocks
  /\ blocks' = blocks \ {<<d, "comment", k>>}
  /\ written' = written + 1
  /\ Enqueue(d, [doc |-> CommentDoc(written'), val |-> Account[d], then |-> "comment"])
  /\ UNCHANGED <<taps, screenVars, hud, failed, commented>>

(* uploadNotification(toUid:fromUser:type:post:). *)
RunNotifyBlock(d, k) ==
  /\ <<d, "notify", k>> \in blocks
  /\ blocks' = blocks \ {<<d, "notify", k>>}
  /\ Enqueue(d, [doc |-> NotificationDoc(Account[d]), val |-> Account[d], then |-> "none"])
  /\ UNCHANGED <<taps, written, screenVars, hud, failed, commented>>

(* Variant of AnswerComment: an error is returned early. *)
AnswerComment_ReturnsOnError(d) ==
  /\ Answer(d, "comment")
  /\ Dequeue(d)
  /\ hud' = [hud EXCEPT ![d] = @ /\ applied[d] = 0]
  /\ blocks' = blocks \cup (IF Account[d] = PostOwner \/ applied[d] = 0 THEN {}
                            ELSE {<<d, "notify", Oldest(d).doc[2]>>})
  /\ UNCHANGED <<db, taps, written, screenVars, commented>>

(* The completion does not look at its error: the HUD goes down and the owner
   of the post is notified. *)
AnswerComment(d) ==
  /\ Answer(d, "comment")
  /\ Dequeue(d)
  /\ hud' = [hud EXCEPT ![d] = FALSE]
  /\ blocks' = blocks \cup (IF Account[d] = PostOwner THEN {}
                            ELSE {<<d, "notify", Oldest(d).doc[2]>>})
  /\ UNCHANGED <<db, taps, written, screenVars, commented>>

AnswerSilent(d) ==
  /\ Answer(d, "none")
  /\ Dequeue(d)
  /\ UNCHANGED <<db, taps, blocks, written, screenVars, hud, commented>>

Apply(d) ==
  /\ Commit(d)
  /\ commented' = commented \cup {u \in Users : \E n \in Numbers : db'[CommentDoc(n)] = u}
  /\ UNCHANGED <<taps, blocks, written, screenVars, hud, failed>>

Resend(d) == Reopen(d) /\ UNCHANGED commentVars

Crash(d) ==
  /\ Fails(d, "crash")
  /\ LoseProcess(d)
  /\ blocks' = {b \in blocks : b[1] # d}
  /\ open' = [open EXCEPT ![d] = FALSE]
  /\ seen' = [seen EXCEPT ![d] = {}]
  /\ comments' = [comments EXCEPT ![d] = <<>>]
  /\ hud' = [hud EXCEPT ![d] = FALSE]
  /\ UNCHANGED <<taps, written, commented>>

-----------------------------------------------------------------------------
BlockStep(d) == \E b \in blocks : b[1] = d /\ (RunCommentBlock(d, b[3]) \/ RunNotifyBlock(d, b[3]))

Answers(d) == AnswerComment(d) \/ AnswerSilent(d)

CommentsNext ==
  \E d \in Devices : \/ OpenComments(d) \/ Snapshot(d) \/ TapPost(d) \/ BlockStep(d)
                     \/ Answers(d) \/ Apply(d) \/ Resend(d) \/ Crash(d)

CommentsSpec == CommentsInit /\ [][CommentsNext]_allVars

(* As in Follow; the listener is told of every change in the end. *)
CommentsFairness ==
  \A d \in Devices : /\ WF_allVars(BlockStep(d)) /\ WF_allVars(Snapshot(d))
                     /\ WF_allVars(Apply(d)) /\ SF_allVars(Answers(d))

FairCommentsSpec == CommentsSpec /\ CommentsFairness

-----------------------------------------------------------------------------
(* Properties. *)

(* The variables stay in their domains; timestamps are only given to comments
   whose button was tapped, and none is shown that was not written. *)
CommentsTypeOK ==
  /\ db \in [Docs -> Users \cup {NoOne}]
  /\ \A d \in Devices : applied[d] \in 0..Len(queue[d])
  /\ blocks \subseteq Devices \X {"comment", "notify"} \X Numbers
  /\ written \in {0} \cup Numbers
  /\ \A d \in Devices : ToSet(comments[d]) \cup seen[d] \subseteq 1..written
  /\ {open, hud} \subseteq [Devices -> BOOLEAN]
  /\ commented \subseteq Users

(* A comment is shown at most once, however many snapshots, answers and resent
   writes there are: the listener is attached once per screen and appends the
   added documents only. *)
ShownOnce == \A d \in Devices : IsInjective(comments[d])

(* The owner of the post is notified only by somebody of whom a comment was
   stored before, unless a write of theirs was refused: the notification is
   sent by the completion of the comment's write. *)
CommentedFirst ==
  \A u \in Users :
    (\A d \in Devices : Account[d] = u => failed[d] # "reject")
      => (db[NotificationDoc(u)] # NoOne => u \in commented)

(* Whatever is stored gets onto every screen that is open, also what others
   write meanwhile: the listener is not a single read. *)
CommentsShown ==
  \A d \in Devices, n \in Numbers :
    (open[d] /\ db[CommentDoc(n)] # NoOne) ~> (~open[d] \/ n \in ToSet(comments[d]))

(* The HUD goes down whether the comment is stored or refused. *)
CommentHudReleased == \A d \in Devices : hud[d] ~> ~hud[d]

(* Once nothing is queued on a phone and its listener is up to date, its screen
   shows exactly what is stored, whatever the order in which its own comments
   and those of others were added and reported.  Only a comment that was
   refused stays: the listener passes over what is removed. *)
ShownIsStored ==
  \A d \in Devices :
    (open[d] /\ queue[d] = <<>> /\ seen[d] = Visible(d) /\ failed[d] # "reject")
      => ToSet(comments[d]) = {n \in Numbers : db[CommentDoc(n)] # NoOne}
=============================================================================
