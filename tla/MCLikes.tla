------------------------------- MODULE MCLikes -------------------------------
(* Instances of Likes for TLC: posts of u2, on the phones of u1 and u2. *)
EXTENDS Likes

CONSTANTS u1, u2, d1

(* u1 has the phone d1, u2 the others. *)
OwnAccounts == [d \in Devices |-> IF d = d1 THEN u1 ELSE u2]

PostsOfU2   == [p \in Posts |-> u2]

(* At the start u2 likes every post, or nobody does. *)
LikedByU2   == {u2} \X Posts
NoLikes     == {}

AllFaults   == {"crash", "reject", "readfail"}
NoFaults    == {}
=============================================================================
