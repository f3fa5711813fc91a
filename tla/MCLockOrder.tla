----------------------------- MODULE MCLockOrder -----------------------------
(* One campaign with a code and its scan, and a second to fund next to it. *)
EXTENDS LockOrder, TLC

CONSTANTS c1, c2, o1, q1

PublisherOfAll == [c \in Campaigns |-> o1]
CampaignOfAll == [q \in Codes |-> c1]
CodeOfAll == [s \in Scans |-> q1]

Symmetry == Permutations(Workers)
===============================================================================
