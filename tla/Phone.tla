-------------------------------- MODULE Phone --------------------------------
(***************************************************************************)
(* What the screens of the app have in common: every phone is signed in to *)
(* an account throughout, and goes wrong at most once.  A "crash" is the   *)
(* end of the process (also the exit(0) of EditProfileController), a       *)
(* "reject" a write the backend refuses, a "readfail" a read that returns  *)
(* an error.                                                               *)
(***************************************************************************)
EXTENDS Firestore

CONSTANTS Users,
          Account,  \* who is signed in on each phone: Auth.auth().currentUser
          Faults    \* which of the faults may happen

ASSUME PhoneAssumption ==
  /\ Account \in [Devices -> Users]
  /\ Faults \subseteq {"crash", "reject", "readfail"}

VARIABLE failed  \* what has gone wrong on each phone, or "none"

NoFailures == failed = [d \in Devices |-> "none"]

Fails(d, fault) ==
  /\ fault \in Faults
  /\ failed[d] = "none"
  /\ failed' = [failed EXCEPT ![d] = fault]

(* No other phone is signed in to the account of this one. *)
Sole(d) == \A e \in Devices : Account[e] = Account[d] => e = d

(* The phone neither died nor had a write refused. *)
Sound(d) == failed[d] \notin {"crash", "reject"}

(* The oldest write is answered: applied, or refused for good. *)
Oldest(d) == Head(queue[d])

Answer(d, then) ==
  /\ \/ Answered(d) /\ UNCHANGED failed
     \/ Refused(d) /\ Fails(d, "reject")
  /\ Oldest(d).then = then
==============================================================================
