--------------------------- MODULE MCOrganizations ---------------------------
(* Model-checking instance of Organizations: one organization whose          *)
(* invitations make owners.                                                  *)
EXTENDS Organizations, TLC

CONSTANT u1

MCInvitedTo == [i \in Invitations |-> CHOOSE o \in Orgs : TRUE]
MCInvitedAs == [i \in Invitations |-> "owner"]
MCInvitedBy == [i \in Invitations |-> u1]
IdSymmetry == Permutations(MemberIds) \cup Permutations(Requests)
=============================================================================
