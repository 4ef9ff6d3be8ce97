------------------------------ MODULE MCSession ------------------------------
(* Instances of Session for TLC. *)
EXTENDS Session

CONSTANTS u1, u2

(* A mutation queue for every user of every phone, and one for nobody. *)
Queues      == Phones \X (Users \cup {Nobody})

OnlyU1      == {u1}

NoFaults    == {}
AllFaults   == {"crash", "reject", "image", "reply", "read"}

(* At most three edits and deletions, none of which is taken to be fair. *)
Few         == Cardinality(told) <= 3

MCSpec      == SessionInit /\ [][SessionNext /\ Few']_sessionVars /\ SessionFairness
=============================================================================
