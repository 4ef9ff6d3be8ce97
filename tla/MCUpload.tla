------------------------------ MODULE MCUpload ------------------------------
(* Instances of Upload for TLC: u1 uploads on d1, u2 taps on d2, or u1 uploads
   twice and u2 does not tap. *)
EXTENDS Upload

CONSTANTS u1, u2, d1

OwnAccounts == [d \in Devices |-> IF d = d1 THEN u1 ELSE u2]

PostsOfU1   == [p \in Posts |-> u1]

(* Every phone but d1 opens the profile of u1. *)
U1Profile   == (Devices \ {d1}) \X {u1}

PhoneFaults == {"crash", "reject", "readfail"}

(* At the start u2 follows u1, or nobody follows anybody. *)
NoFollows   == {}
Followed    == INSTANCE Upload WITH InitFollows <- {<<u2, u1>>}
MCInit      == UploadInit \/ Followed!UploadInit

(* At most one of the phones meets with a fault, and only one upload with a tap.
   Neither holds up a step that is taken to be fair. *)
OneFault    == Cardinality({d \in Devices : failed[d] # "none"}) <= 1
OneUpload   == Cardinality(uploaded) <= 1 \/ \A d \in Devices : taps[d] = 0

MCSpec      == /\ MCInit
               /\ [][UploadNext /\ OneFault' /\ OneUpload']_allVars
               /\ UploadFairness
=============================================================================
