------------------------------ MODULE Directory ------------------------------
(***************************************************************************)
(* What following promises, without phones or queues: who follows whom is  *)
(* kept twice, once under the follower and once under the followed.  The   *)
(* two copies of a pair change only while the pair is busy, a pair stops   *)
(* being busy only with equal copies, and it does stop, unless the work on *)
(* it was abandoned.                                                       *)
(***************************************************************************)
CONSTANT Pairs  \* who may follow whom

VARIABLES following, followers,  \* the two copies of every pair
          busy,                  \* the pairs being worked on
          lost                   \* those whose work was abandoned midway

dirVars == <<following, followers, busy, lost>>

Init ==
  /\ following \in [Pairs -> BOOLEAN]
  /\ followers = following
  /\ lost \in SUBSET Pairs
  /\ busy = lost

Begin(x) ==
  /\ busy' = busy \cup {x}
  /\ UNCHANGED <<following, followers, lost>>

(* One copy of a busy pair is written. *)
Write(x) ==
  /\ x \in busy
  /\ \E v \in BOOLEAN : \/ /\ following' = [following EXCEPT ![x] = v]
                           /\ UNCHANGED followers
                        \/ /\ followers' = [followers EXCEPT ![x] = v]
                           /\ UNCHANGED following
  /\ UNCHANGED <<busy, lost>>

End(x) ==
  /\ x \in busy \ lost
  /\ following[x] = followers[x]
  /\ busy' = busy \ {x}
  /\ UNCHANGED <<following, followers, lost>>

(* Whoever worked on these pairs will not finish. *)
Abandon(S) ==
  /\ busy' = busy \cup S
  /\ lost' = lost \cup S
  /\ UNCHANGED <<following, followers>>

Next ==
  \/ \E x \in Pairs : Begin(x) \/ Write(x) \/ End(x)
  \/ \E S \in SUBSET Pairs : Abandon(S)

Spec == Init /\ [][Next]_dirVars

Released == \A x \in Pairs : x \in busy ~> (x \notin busy \/ x \in lost)

FairSpec == Spec /\ Released
==============================================================================
