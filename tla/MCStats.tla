------------------------------- MODULE MCStats -------------------------------
(* Instances of Stats for TLC: one phone of u1 and the profile of u2, whom a
   third user follows, and who follows u1, so that u1 has a row for u2. *)
EXTENDS Stats

CONSTANTS u1, u2, u3

OneAccount  == [d \in Devices |-> u1]
NoPosts     == [p \in Posts |-> u2]
SomeFollows == {<<u3, u2>>, <<u2, u1>>}
U2Profile   == Devices \X {u2}

PhoneFaults == {"crash", "readfail"}
=============================================================================
