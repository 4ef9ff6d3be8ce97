----------------------------- MODULE MCComments -----------------------------
(* Instances of Comments for TLC. *)
EXTENDS Comments

CONSTANTS u1, u2

(* Every phone has an account of its own. *)
OwnAccounts == CHOOSE f \in [Devices -> Users] : \A d, e \in Devices : f[d] = f[e] => d = e

PhoneFaults == {"crash", "reject"}
=============================================================================
