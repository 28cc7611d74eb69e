---------------------------- MODULE Organizations ----------------------------
(***************************************************************************)
(* Organizations, their members and invitations, and the deletion of users *)
(* (src/organizations/organizations.service.ts, users/user.service.ts, the *)
(* foreign keys of the organization migration).                            *)
(*                                                                         *)
(* A request checks the caller's role, reads a row, and saves the copy it  *)
(* has changed, each in a statement of its own.  Nothing makes the         *)
(* membership of a user in an organization unique.                         *)
(***************************************************************************)
EXTENDS Naturals, FiniteSetsExt

CONSTANTS
    Users,          \* user ids
    Orgs,           \* organization ids: bounds the organizations created
    MemberIds,      \* membership ids: bounds the memberships created
    Invitations,    \* invitation ids
    InvitedTo,      \* the organization of an invitation
    InvitedAs,      \* the role it grants
    InvitedBy,      \* and who sent it
    Requests,       \* requests in flight
    Nil

Roles == {"owner", "admin", "member"}

ASSUME InvitationAssumption ==
    /\ InvitedTo \in [Invitations -> Orgs]
    /\ InvitedAs \in [Invitations -> Roles]
    /\ InvitedBy \in [Invitations -> Users]

InvitationStates == {"open", "expired", "used"}

\* A row of organization_memberships.
Membership == [org: Orgs, user: Users, role: Roles, isActive: BOOLEAN]

ASSUME FiniteAssumption == IsFiniteSet(MemberIds) /\ IsFiniteSet(Requests)

ASSUME NilAssumption ==
    /\ Nil \notin Users \cup Orgs \cup MemberIds \cup Invitations
    /\ Nil \notin Membership \cup InvitationStates

VARIABLES
    users,        \* table users: the ids in it
    orgs,         \* table organizations
    members,      \* table organization_memberships
    memberIds,    \* history: membership ids that were ever used
    invitations,  \* table organization_invitations: what may become of each
    req,          \* the requests
    granted,      \* history: memberships an invitation has granted
    unmarked      \* history: acceptances that died before marking it used

vars == <<users, orgs, members, memberIds, invitations, req, granted, unmarked>>

-----------------------------------------------------------------------------
\* What a request does next.  stale: has another request written memberships
\* since this one read its copy?
Pcs == {"idle", "own", "invite", "pending", "issue", "change role", "save role",
        "remove", "count", "save removal", "join", "mark", "decline", "delete user"}
Idle == [pc |-> "idle", user |-> Nil, org |-> Nil, member |-> Nil,
         copy |-> Nil, invitation |-> Nil, stale |-> FALSE]

\* Bounds of the histories: past them the property that reads them holds.
GrantCap == Cardinality(MemberIds)
UnmarkedCap == GrantCap - Min({GrantCap, Cardinality(Requests)})

TypeOK ==
    /\ users \subseteq Users /\ orgs \subseteq Orgs
    /\ members \in [MemberIds -> Membership \cup {Nil}]
    /\ memberIds \subseteq MemberIds
    /\ invitations \in [Invitations -> InvitationStates \cup {Nil}]
    /\ req \in [Requests ->
           [pc: Pcs, user: Users \cup {Nil}, org: Orgs \cup {Nil},
            member: MemberIds \cup {Nil}, copy: Membership \cup {Nil},
            invitation: Invitations \cup {Nil}, stale: BOOLEAN]]
    /\ granted \in [Invitations -> 0 .. GrantCap]
    /\ unmarked \in [Invitations -> 0 .. UnmarkedCap]

Init ==
    /\ users = Users
    /\ orgs = {}
    /\ members = [m \in MemberIds |-> Nil]
    /\ memberIds = {}
    /\ invitations = [i \in Invitations |-> Nil]
    /\ req = [r \in Requests |-> Idle]
    /\ granted = [i \in Invitations |-> 0]
    /\ unmarked = [i \in Invitations |-> 0]

-----------------------------------------------------------------------------
(* The tables.                                                             *)

Rows == {m \in MemberIds : members[m] # Nil}
MembersOf(o) == {m \in Rows : members[m].org = o}
Active(o) == {m \in MembersOf(o) : members[m].isActive}
Owners(o) == {m \in Active(o) : members[m].role = "owner"}

Waiting(r, next) == req' = [req EXCEPT ![r] = next]
Done(r) == Waiting(r, Idle)

\* A write to the memberships: the copies of other requests are stale.
WroteMembers(r, next) ==
    req' = [q \in Requests |-> IF q = r THEN next
                               ELSE [req[q] EXCEPT !.stale = req[q].copy # Nil]]

\* A new membership; its user must exist (foreign key).
AddMember(o, u, role) ==
    /\ u \in users
    /\ \E m \in MemberIds \ memberIds :
          /\ members' = [members EXCEPT ![m] =
                 [org |-> o, user |-> u, role |-> role, isActive |-> TRUE]]
          /\ memberIds' = memberIds \cup {m}

\* save() of a copy, the row read again and written in one step: the row
\* becomes the copy.  If it went with its user the insert violates the foreign
\* key: nothing is written.
SaveMember(m, copy) ==
    members' = IF members[m] = Nil THEN members ELSE [members EXCEPT ![m] = copy]

Histories == UNCHANGED <<granted, unmarked>>

-----------------------------------------------------------------------------
(* Mutated forms of definitions below: plausible slips in the code that    *)
(* the properties must notice.  Nothing refers to them.                    *)

\* Owners counted without isActive: true.
CountedEvenRemoved(o) == {m \in MembersOf(o) : members[m].role = "owner"}

\* An invitation that is not marked used.
MarkForgotten(r) ==
    /\ req[r].pc \in {"mark", "decline"}
    /\ Done(r)
    /\ UNCHANGED <<users, orgs, members, memberIds, invitations>> /\ Histories

\* A role change that makes the member active again.
SaveRoleActive(r, role) ==
    /\ req[r].pc = "save role"
    /\ SaveMember(req[r].member, [req[r].copy EXCEPT !.role = role,
                                                     !.isActive = TRUE])
    /\ WroteMembers(r, Idle)
    /\ UNCHANGED <<users, orgs, memberIds, invitations>> /\ Histories

-----------------------------------------------------------------------------
(* Organizations.                                                          *)

Tables == UNCHANGED <<users, orgs, members, memberIds, invitations>>

\* create: the organization, then its owner in a second statement.
CreateOrg(r, u, o) ==
    /\ req[r].pc = "idle" /\ u \in users /\ o \notin orgs
    /\ orgs' = orgs \cup {o}
    /\ Waiting(r, [Idle EXCEPT !.pc = "own", !.user = u, !.org = o])
    /\ UNCHANGED <<users, members, memberIds, invitations>> /\ Histories

CreateOwner(r) ==
    /\ req[r].pc = "own"
    /\ AddMember(req[r].org, req[r].user, "owner")
    /\ WroteMembers(r, Idle)
    /\ UNCHANGED <<users, orgs, invitations>> /\ Histories

\* checkUserPermission: some active membership of the caller has the role.
Allowed(op) == IF op = "change role" THEN {"owner"} ELSE {"owner", "admin"}
Permit(r, u, o, op) ==
    /\ req[r].pc = "idle"
    /\ \E m \in Active(o) : members[m].user = u /\ members[m].role \in Allowed(op)
    /\ Waiting(r, [Idle EXCEPT !.pc = op, !.user = u, !.org = o])
    /\ Tables /\ Histories

-----------------------------------------------------------------------------
(* Invitations.                                                            *)

\* The lookup of inviteMember is meant for the memberships of the invited user
\* w, and asks for any membership of the organization.
SeenMembers(o, w) == MembersOf(o)

InviteLookup(r, w) ==
    /\ req[r].pc = "invite"
    /\ IF SeenMembers(req[r].org, w) # {} THEN Done(r)
       ELSE Waiting(r, [req[r] EXCEPT !.pc = "pending"])
    /\ Tables /\ Histories

\* Is there an unused invitation of that address already?  (All addresses are
\* one here: the lookup finds any, or none.)
InvitePending(r) ==
    /\ req[r].pc = "pending"
    /\ Waiting(r, [req[r] EXCEPT !.pc = "issue"])
    /\ Tables /\ Histories

\* The row of an invitation; its inviter and organization must exist (foreign
\* keys).
CanInsert(i) ==
    invitations[i] = Nil /\ InvitedBy[i] \in users /\ InvitedTo[i] \in orgs

Issue(r) ==
    /\ req[r].pc = "issue"
    /\ \E i \in Invitations :
          /\ InvitedBy[i] = req[r].user /\ InvitedTo[i] = req[r].org
          /\ invitations' = IF CanInsert(i) THEN [invitations EXCEPT ![i] = "open"]
                            ELSE invitations
    /\ Done(r)
    /\ UNCHANGED <<users, orgs, members, memberIds>> /\ Histories

\* acceptInvitation: an unused invitation that has not expired ...
AcceptFind(r, u, i) ==
    /\ req[r].pc = "idle" /\ u \in users /\ invitations[i] = "open"
    /\ Waiting(r, [Idle EXCEPT !.pc = "join", !.user = u, !.invitation = i])
    /\ Tables /\ Histories

RoleGranted(i) == InvitedAs[i]

\* ... gives a membership, whoever else has used it meanwhile ...
Join(r) ==
    LET i == req[r].invitation IN
    /\ req[r].pc = "join"
    /\ AddMember(InvitedTo[i], req[r].user, RoleGranted(i))
    /\ granted' = [granted EXCEPT ![i] = @ + 1]
    /\ WroteMembers(r, [req[r] EXCEPT !.pc = "mark", !.user = Nil])
    /\ UNCHANGED <<users, orgs, invitations, unmarked>>

\* ... and is marked used.
Mark(r) ==
    /\ req[r].pc \in {"mark", "decline"}
    /\ invitations' = [invitations EXCEPT ![req[r].invitation] = "used"]
    /\ Done(r)
    /\ UNCHANGED <<users, orgs, members, memberIds>> /\ Histories

\* declineInvitation marks it the same way.
DeclineFind(r, u, i) ==
    /\ req[r].pc = "idle" /\ u \in users /\ invitations[i] = "open"
    /\ Waiting(r, [Idle EXCEPT !.pc = "decline", !.invitation = i])
    /\ Tables /\ Histories

\* A row that an operator inserts by hand: no code does (NonMembersInvited).
ByHand(i) ==
    /\ CanInsert(i)
    /\ invitations' = [invitations EXCEPT ![i] = "open"]
    /\ UNCHANGED <<users, orgs, members, memberIds, req>> /\ Histories

\* Seven days pass.
Expire(i) ==
    /\ invitations[i] = "open"
    /\ invitations' = [invitations EXCEPT ![i] = "expired"]
    /\ UNCHANGED <<users, orgs, members, memberIds, req>> /\ Histories

-----------------------------------------------------------------------------
(* Members.                                                                *)

\* The membership a request names, active or not.
ReadMember(r, m, next) ==
    Waiting(r, [req[r] EXCEPT !.pc = next, !.user = Nil, !.member = m,
                              !.copy = members[m]])

\* updateMemberRole
RoleFind(r, m) ==
    /\ req[r].pc = "change role" /\ m \in MembersOf(req[r].org)
    /\ ReadMember(r, m, "save role")
    /\ Tables /\ Histories

RoleSave(r, role) ==
    /\ req[r].pc = "save role"
    /\ SaveMember(req[r].member, [req[r].copy EXCEPT !.role = role])
    /\ WroteMembers(r, Idle)
    /\ UNCHANGED <<users, orgs, memberIds, invitations>> /\ Histories

\* removeMember: an owner only when it is not the last one counted.
RemoveFind(r, m) ==
    /\ req[r].pc = "remove" /\ m \in MembersOf(req[r].org)
    /\ ReadMember(r, m,
                  IF members[m].role = "owner" THEN "count" ELSE "save removal")
    /\ Tables /\ Histories

Counted(o) == Owners(o)

RemoveCount(r) ==
    /\ req[r].pc = "count"
    /\ IF Cardinality(Counted(req[r].org)) <= 1 THEN Done(r)
       ELSE Waiting(r, [req[r] EXCEPT !.pc = "save removal"])
    /\ Tables /\ Histories

RemoveSave(r) ==
    /\ req[r].pc = "save removal"
    /\ SaveMember(req[r].member, [req[r].copy EXCEPT !.isActive = FALSE])
    /\ WroteMembers(r, Idle)
    /\ UNCHANGED <<users, orgs, memberIds, invitations>> /\ Histories

-----------------------------------------------------------------------------
(* Users.                                                                  *)

\* UsersService.remove: the user is there, then it is deleted, and its
\* memberships with it (ON DELETE CASCADE).
DeleteUserFind(r, u) ==
    /\ req[r].pc = "idle" /\ u \in users
    /\ Waiting(r, [Idle EXCEPT !.pc = "delete user", !.user = u])
    /\ Tables /\ Histories

\* The foreign key of an invitation would set its inviter to NULL, which the
\* column does not allow: who has invited somebody cannot be deleted.
HasInvited(u) == \E i \in Invitations : invitations[i] # Nil /\ InvitedBy[i] = u

DeleteUser(r) ==
    /\ req[r].pc = "delete user" /\ ~HasInvited(req[r].user)
    /\ users' = users \ {req[r].user}
    /\ members' = [m \in MemberIds |->
           IF m \in Rows /\ members[m].user = req[r].user THEN Nil ELSE members[m]]
    /\ WroteMembers(r, Idle)
    /\ UNCHANGED <<orgs, memberIds, invitations>> /\ Histories

\* A statement fails, a lookup finds nothing, or the process dies.
Fail(r) ==
    /\ req[r].pc # "idle"
    /\ Done(r)
    /\ unmarked' = IF req[r].pc = "mark"
                   THEN [unmarked EXCEPT ![req[r].invitation] =
                             IF @ = UnmarkedCap THEN @ ELSE @ + 1]
                   ELSE unmarked
    /\ UNCHANGED granted /\ Tables

-----------------------------------------------------------------------------
OrganizationRequest(r) ==
    \/ \E u \in Users, o \in Orgs :
          \/ CreateOrg(r, u, o)
          \/ \E op \in {"invite", "change role", "remove"} : Permit(r, u, o, op)
    \/ CreateOwner(r)
    \/ \E w \in Users : InviteLookup(r, w)
    \/ InvitePending(r) \/ Issue(r)
    \/ \E u \in Users, i \in Invitations : AcceptFind(r, u, i) \/ DeclineFind(r, u, i)
    \/ Join(r) \/ Mark(r)
    \/ \E m \in MemberIds : RoleFind(r, m) \/ RemoveFind(r, m)
    \/ \E role \in Roles : RoleSave(r, role)
    \/ RemoveCount(r) \/ RemoveSave(r)

UserRequest(r) ==
    \/ \E u \in Users : DeleteUserFind(r, u)
    \/ DeleteUser(r)

Next ==
    \/ \E r \in Requests : OrganizationRequest(r) \/ UserRequest(r) \/ Fail(r)
    \/ \E i \in Invitations : ByHand(i) \/ Expire(i)

Spec == Init /\ [][Next]_vars

-----------------------------------------------------------------------------
(* Properties.                                                             *)

\* removeMember never leaves an organization without the owner it had, as
\* long as nobody else wrote memberships between its find and its save; the
\* owner it counts is one who is still there ("Cannot remove the last owner").
RemovalKeepsAnOwner ==
    [][\A r \in Requests :
          req[r].pc = "save removal" /\ req'[r].pc = "idle" /\ ~req[r].stale
          => \A o \in Orgs : Owners(o) # {} => Owners(o)' # {}]_vars

\* A removed member stays removed once no role change holds a copy of the
\* membership from before the removal.
HoldsActiveCopy(m) ==
    \E r \in Requests : req[r].member = m /\ req[r].copy.isActive
RemovedStaysRemoved ==
    [][\A m \in Rows :
          ~members[m].isActive /\ ~HoldsActiveCopy(m)
          => members'[m] = Nil \/ ~members'[m].isActive]_vars

\* One invitation gives at most as many memberships as requests accept it at
\* once, plus one for each acceptance that died before it had marked it.
GrantsBounded ==
    \A i \in Invitations :
        granted[i] <= Cardinality(Requests) + unmarked[i]

\* What inviteMember is for ("Check if user is already a member",
\* organizations.service.ts:178): inviting somebody who is not a member passes
\* the lookup.  It does not: the lookup finds the caller's own membership.
NonMembersInvited ==
    [][\A r \in Requests, w \in Users :
          InviteLookup(r, w)
          /\ ~\E m \in MembersOf(req[r].org) : members[m].user = w
          => req'[r].pc = "pending"]_vars
=============================================================================
