-------------------------------- MODULE Stats --------------------------------
(***************************************************************************)
(* The number of followers in the header of a profile, next to every step  *)
(* of Follow: fetchUserState reads it when the screen is loaded and every  *)
(* time it appears, the completions of follow and unfollow add and         *)
(* subtract one.                                                           *)
(*                                                                         *)
(* The followers are read first; the numbers are delivered when those of   *)
(* the followed and of the posts, which nothing here changes, have come.   *)
(*                                                                         *)
(* Bounds: a profile that is shown again asks only when nothing else is    *)
(* outstanding.                                                            *)
(***************************************************************************)
EXTENDS Follow

ASSUME StatsAssumption == IsFiniteSet(Users)

VARIABLES followers,  \* user.stats.followers, per phone and user
          counts,     \* <<d, t, n, found>>: the n-th fetchUserState under way
          mixed       \* history: profiles where taps and reads overlapped

statsVars == <<followers, counts, mixed>>
allVars   == <<vars, statsVars>>

Unread == -1

StatsInit ==
  /\ Init
  /\ followers = [d \in Devices |-> [t \in Users |-> 0]]
  /\ counts = {}
  /\ mixed = {}

Counting(d, t) == \E c \in counts : c[1] = d /\ c[2] = t

FollowersOf(d, t) == {u \in Users : LocalView(d, FollowersDoc(t, u))}

(* The taps on t whose completion is still to come. *)
TapsOn(d, t) ==
  {b.tap : b \in {b \in blocks : b.dev = d /\ b.kind = "follow" /\ b.tap.target = t}}
    \cup {queue[d][i].tap : i \in {i \in 1..Len(queue[d]) : /\ queue[d][i].then # "none"
                                                            /\ queue[d][i].tap.target = t}}

(* A tap coincides with a read, with another tap or one on a row, or asks for
   what is so already. *)
Overlap(d, t) ==
  /\ profile[d][t].open
  /\ TapsOn(d, t) # {}
  /\ \/ Counting(d, t)
     \/ \E x, y \in TapsOn(d, t) : x # y
     \/ \E x \in TapsOn(d, t) : x.screen = "row"
     \/ \E b \in blocks : /\ b.dev = d /\ b.kind = "follow" /\ b.tap.target = t
                          /\ b.tap.val = LocalView(d, FollowingDoc(Account[d], t))

Remember == mixed' = mixed \cup {x \in Devices \X Users : Overlap(x[1], x[2])'}

(* viewDidLoad and viewWillAppear both ask; later appearances ask once. *)
ShowProfile(d, t) ==
  /\ OpenProfile(d, t)
  /\ counts' = counts \cup {<<d, t, 1, Unread>>, <<d, t, 2, Unread>>}
  /\ UNCHANGED followers

ShowAgain(d, t) ==
  /\ profile[d][t].open /\ ~Counting(d, t)
  /\ counts' = counts \cup {<<d, t, 2, Unread>>}
  /\ UNCHANGED <<vars, followers>>

(* The first of the three reads; an error counts as none. *)
CountFollowers(c) ==
  /\ c \in counts /\ c[4] = Unread
  /\ \/ /\ counts' = (counts \ {c}) \cup
              {<<c[1], c[2], c[3], Cardinality(FollowersOf(c[1], c[2]))>>}
        /\ UNCHANGED failed
     \/ /\ counts' = (counts \ {c}) \cup {<<c[1], c[2], c[3], 0>>}
        /\ Fails(c[1], "readfail")
  /\ UNCHANGED <<storeVars, taps, blocks, checks, screens, wasFollower, followers>>

StatsArrive(c) ==
  /\ c \in counts /\ c[4] # Unread
  /\ counts' = counts \ {c}
  /\ followers' = [followers EXCEPT ![c[1]][c[2]] = c[4]]
  /\ UNCHANGED vars

(* Variant of AnswerStats: an unfollow leaves the number. *)
AnswerStats_OnlyUp(d) ==
  /\ AnswerProfile(d)
  /\ LET tap == Oldest(d).tap
     IN  followers' = [followers EXCEPT ![d][tap.target] = @ + (IF tap.val THEN 1 ELSE 0)]
  /\ UNCHANGED counts

(* The completion of the header's button. *)
AnswerStats(d) ==
  /\ AnswerProfile(d)
  /\ LET tap == Oldest(d).tap
     IN  followers' = [followers EXCEPT ![d][tap.target] = @ + (IF tap.val THEN 1 ELSE -1)]
  /\ UNCHANGED counts

CrashStats(d) ==
  /\ Crash(d)
  /\ followers' = [followers EXCEPT ![d] = [t \in Users |-> 0]]
  /\ counts' = {c \in counts : c[1] # d}

-----------------------------------------------------------------------------
FollowStep(d) ==
  /\ \/ \E t \in Users : TapProfile(d, t) \/ TapRow(d, t)
     \/ Refresh(d) \/ ReadStep(d) \/ BlockStep(d)
     \/ AnswerMirror(d) \/ AnswerRow(d) \/ AnswerSilent(d) \/ Apply(d) \/ Resend(d)
  /\ UNCHANGED <<followers, counts>>

StatsNext ==
  /\ \/ \E d \in Devices : \/ FollowStep(d) \/ AnswerStats(d) \/ CrashStats(d)
                           \/ \E t \in Users : ShowProfile(d, t) \/ ShowAgain(d, t)
     \/ \E c \in counts : CountFollowers(c) \/ StatsArrive(c)
  /\ Remember

StatsSpec == StatsInit /\ [][StatsNext]_allVars

-----------------------------------------------------------------------------
(* Properties. *)

(* The variables stay in their domains; the number of followers is out of
   bounds by at most one for every tap. *)
StatsTypeOK ==
  /\ \A d \in Devices, t \in Users :
       followers[d][t] \in (-MaxTaps)..(Cardinality(Users) + MaxTaps)
  /\ counts \subseteq Devices \X Users \X {1, 2} \X ({Unread} \cup 0..Cardinality(Users))
  /\ mixed \subseteq Devices \X Users
  /\ \A d \in Devices : applied[d] \in 0..Len(queue[d])

(* The header counts the followers that are stored, when nothing on the phone
   is under way or has failed and no other phone taps: reading them and adding
   to them agree, as long as a tap and a read, or two taps, do not overlap. *)
Settled(d, t) ==
  /\ profile[d][t].open /\ AtRest(d, t) /\ ~Counting(d, t)
  /\ failed[d] = "none" /\ \A e \in Devices : e # d => taps[e] = 0

StatsExact ==
  \A d \in Devices, t \in Users :
    Settled(d, t) /\ <<d, t>> \notin mixed
      => followers[d][t] = Cardinality({u \in Users : db[FollowersDoc(t, u)]})
=============================================================================
