------------------------------ MODULE MCFollow ------------------------------
(* Instances of Follow for TLC: small sets of phones, users and posts. *)
EXTENDS Follow

CONSTANTS u1, u2

(* Every phone is signed in to the account of u1. *)
OneAccount  == [d \in Devices |-> u1]

(* Every post is u2's. *)
PostsOfU2   == [p \in Posts |-> u2]

(* Who follows whom at the start: everyone else follows u1, or nobody does. *)
AllFollowU1 == (Users \ {u1}) \X {u1}
NoFollows   == {}

(* The profile of u2 is opened on every phone. *)
U2Profile   == Devices \X {u2}

AllFaults   == {"crash", "reject", "readfail"}
PhoneFaults == {"crash", "reject"}
NoFaults    == {}
=============================================================================
