------------------------ MODULE OrganizationsProofs -------------------------
(***************************************************************************)
(* Members, removals and invitations under any number of overlapping       *)
(* requests.                                                               *)
(*                                                                         *)
(* SlotOK says what a request in flight may rely on.  A step changes the   *)
(* tables as TableStep says, whoever takes it, and no such change takes    *)
(* from another request what it relies on.  The last part counts what an   *)
(* invitation grants.                                                      *)
(***************************************************************************)
EXTENDS Organizations, FiniteSetTheorems, TLAPS

\* Where a request holds the copy of a membership.
Copying == {"save role", "count", "save removal"}

Slot == [pc: Pcs, user: Users \cup {Nil}, org: Orgs \cup {Nil},
         member: MemberIds \cup {Nil}, copy: Membership \cup {Nil},
         invitation: Invitations \cup {Nil}, stale: BOOLEAN]

\* The types of what the properties are about.
Typed ==
    /\ users \subseteq Users
    /\ members \in [MemberIds -> Membership \cup {Nil}]
    /\ memberIds \subseteq MemberIds
    /\ \A m \in MemberIds : members[m] # Nil => m \in memberIds
    /\ IsFiniteSet(memberIds)

\* Ids a request goes by.
Names(s) ==
    /\ s.pc \in {"own", "join", "delete user"} => s.user \in Users
    /\ s.pc \in {"own", "change role", "remove"} \cup Copying => s.org \in Orgs
    /\ s.pc \in {"join", "mark", "decline"} => s.invitation \in Invitations

\* An inviter is a member or deleted; past the lookup, it is deleted.
Inviter(s) ==
    /\ s.pc = "invite" =>
          \/ s.user \notin users
          \/ \E m \in MembersOf(s.org) : members[m].user = s.user
    /\ s.pc \in {"pending", "issue"} => s.user \notin users

\* A copy is of a row that was there; the row it is saved to, if it is still
\* there, is of the same user and organization, and what was read of it while
\* no other request has written memberships.
Copy(s) ==
    /\ s.pc \in Copying =>
          /\ s.copy \in Membership /\ s.member \in memberIds
          /\ s.copy.org = s.org
          /\ members[s.member] # Nil =>
                /\ members[s.member].user = s.copy.user
                /\ members[s.member].org = s.copy.org
          /\ ~s.stale => members[s.member] = s.copy
    /\ s.pc \notin Copying => s.copy = Nil /\ s.member = Nil

\* Besides an owner that is about to be removed there is another one.
Removal(s) ==
    s.pc = "save removal" /\ ~s.stale /\ s.copy.role = "owner"
    => \E m \in Owners(s.org) : m # s.member

SlotOK(s) == s \in Slot /\ Names(s) /\ Inviter(s) /\ Copy(s) /\ Removal(s)

IInv ==
    /\ Typed
    /\ DOMAIN req = Requests /\ req = [r \in Requests |-> req[r]]
    /\ \A r \in Requests : SlotOK(req[r])

-----------------------------------------------------------------------------
(* What a step does to the tables and to the other requests.               *)

TableStep ==
    /\ users' \subseteq users
    /\ Typed'
    /\ memberIds \subseteq memberIds'
    /\ \A m \in MemberIds : members[m] # Nil =>
          \/ /\ members'[m] # Nil
             /\ members'[m].user = members[m].user
             /\ members'[m].org = members[m].org
          \/ members'[m] = Nil /\ members[m].user \notin users'
    /\ \A m \in memberIds : members[m] = Nil => members'[m] = Nil

OtherSlot(x) ==
    \/ req'[x] = req[x] /\ members' = members
    \/ req'[x] = [req[x] EXCEPT !.stale = (req[x].copy # Nil)]

LEMMA OthersKeep ==
    ASSUME Typed, TableStep, NEW x \in Requests, SlotOK(req[x]), OtherSlot(x)
    PROVE  SlotOK(req[x])'
<1> DEFINE s == req[x]  t == req'[x]
<1>1. /\ t \in Slot
      /\ t.pc = s.pc /\ t.user = s.user /\ t.org = s.org /\ t.member = s.member
      /\ t.copy = s.copy /\ t.invitation = s.invitation
      /\ \/ t.stale = s.stale /\ members' = members
         \/ t.stale = (s.copy # Nil)
    BY DEF SlotOK, OtherSlot, Slot
<1>2. s.pc \in Copying => s.copy # Nil /\ s.member \in MemberIds
    BY NilAssumption DEF SlotOK, Copy, Typed
<1>3. Names(req[x])'
    BY <1>1 DEF SlotOK, Names
<1>4. Inviter(req[x])'
    <2>1. ASSUME s.pc = "invite", s.user \in users'
          PROVE  \E m \in MembersOf(s.org)' : members'[m].user = s.user
        <3>1. PICK m \in MembersOf(s.org) : members[m].user = s.user
            BY <2>1 DEF SlotOK, Inviter, TableStep
        <3>2. /\ m \in MemberIds /\ members'[m] # Nil
              /\ members'[m].user = members[m].user
              /\ members'[m].org = s.org
            BY <2>1, <3>1 DEF TableStep, MembersOf, Rows
        <3>3. QED BY <1>1, <3>1, <3>2 DEF MembersOf, Rows
    <2>2. QED BY <1>1, <2>1 DEF SlotOK, Inviter, TableStep
<1>5. Copy(req[x])'
    BY <1>1, <1>2 DEF SlotOK, Copy, TableStep
<1>6. Removal(req[x])'
    <2>1. CASE t.stale = s.stale /\ members' = members
        BY <1>1, <2>1 DEF SlotOK, Removal, Owners, Active, MembersOf, Rows
    <2>2. CASE t.stale = (s.copy # Nil)
        BY <1>1, <1>2, <2>2 DEF Removal, Copying
    <2>3. QED BY <1>1, <2>1, <2>2
<1>7. QED BY <1>1, <1>3, <1>4, <1>5, <1>6 DEF SlotOK

LEMMA Quiet ==
    ASSUME IInv, NEW r \in Requests, NEW next, Waiting(r, next), SlotOK(next),
           UNCHANGED <<users, members, memberIds>>
    PROVE  IInv'
<1>1. TableStep
    BY DEF IInv, Typed, TableStep
<1>2. /\ DOMAIN req' = Requests /\ req' = [q \in Requests |-> req'[q]]
      /\ req'[r] = next
      /\ \A x \in Requests \ {r} : OtherSlot(x)
    BY DEF IInv, Waiting, OtherSlot
<1>3. SlotOK(req[r])'
    <2>1. SlotOK(next)'
        BY DEF SlotOK, Slot, Names, Inviter, Copy, Removal, Owners, Active,
               MembersOf, Rows
    <2>2. QED BY <1>2, <2>1 DEF SlotOK, Slot, Names, Inviter, Copy, Removal
<1>4. \A x \in Requests : SlotOK(req[x])'
    BY <1>1, <1>2, <1>3, OthersKeep DEF IInv
<1>5. QED BY <1>1, <1>2, <1>4 DEF IInv, TableStep

LEMMA Loud ==
    ASSUME IInv, NEW r \in Requests, NEW next, WroteMembers(r, next), TableStep,
           next \in Slot, next.pc \in {"idle", "mark"},
           next.copy = Nil, next.member = Nil,
           next.pc = "mark" => next.invitation \in Invitations
    PROVE  IInv'
<1>1. /\ DOMAIN req' = Requests /\ req' = [q \in Requests |-> req'[q]]
      /\ req'[r] = next
      /\ \A x \in Requests \ {r} : OtherSlot(x)
    BY DEF WroteMembers, OtherSlot
<1>2. SlotOK(req[r])'
    BY <1>1 DEF SlotOK, Names, Inviter, Copy, Removal, Copying, Slot
<1>3. \A x \in Requests : SlotOK(req[x])'
    BY <1>1, <1>2, OthersKeep DEF IInv
<1>4. QED BY <1>1, <1>3 DEF IInv, TableStep

LEMMA IdleOK == SlotOK(Idle) /\ Idle \in Slot
BY DEF SlotOK, Slot, Names, Inviter, Copy, Removal, Copying, Idle, Pcs

-----------------------------------------------------------------------------
(* The three writes to the memberships.                                    *)

LEMMA AddStep ==
    ASSUME IInv, NEW o \in Orgs, NEW u, NEW role \in Roles, AddMember(o, u, role),
           UNCHANGED users
    PROVE  TableStep /\ \A m \in Rows : members'[m] = members[m]
<1>1. PICK m \in MemberIds \ memberIds :
          /\ members' = [members EXCEPT ![m] =
                 [org |-> o, user |-> u, role |-> role, isActive |-> TRUE]]
          /\ memberIds' = memberIds \cup {m}
    BY DEF AddMember
<1>2. [org |-> o, user |-> u, role |-> role, isActive |-> TRUE] \in Membership
    BY DEF AddMember, Membership, IInv, Typed
<1>3. Typed'
    <2>1. IsFiniteSet(memberIds')
        BY <1>1, FS_AddElement DEF IInv, Typed
    <2>2. QED BY <1>1, <1>2, <2>1 DEF IInv, Typed
<1>4. QED BY <1>1, <1>3 DEF IInv, Typed, TableStep, Rows

LEMMA SaveStep ==
    ASSUME IInv, NEW r \in Requests, req[r].pc \in Copying, NEW copy \in Membership,
           copy.user = req[r].copy.user, copy.org = req[r].copy.org,
           SaveMember(req[r].member, copy), UNCHANGED <<users, memberIds>>
    PROVE  TableStep
<1> DEFINE m == req[r].member
<1>1. /\ m \in MemberIds /\ m \in memberIds
      /\ members[m] # Nil => members[m].user = copy.user /\ members[m].org = copy.org
    BY DEF IInv, SlotOK, Copy, Typed
<1>2. \/ members[m] = Nil /\ members' = members
      \/ members[m] # Nil /\ members' = [members EXCEPT ![m] = copy]
    BY DEF SaveMember
<1> HIDE DEF m
<1>3. Typed'
    BY <1>1, <1>2 DEF IInv, Typed
<1>4. QED BY <1>1, <1>2, <1>3, NilAssumption DEF IInv, Typed, TableStep

LEMMA DeleteStep ==
    ASSUME IInv, NEW r \in Requests, DeleteUser(r)
    PROVE  TableStep
<1>1. Typed'
    BY DEF IInv, Typed, DeleteUser
<1>2. QED BY <1>1 DEF IInv, Typed, TableStep, DeleteUser, Rows

-----------------------------------------------------------------------------
(* Every step keeps the invariant.                                         *)

LEMMA InitOK == Init => IInv
<1> SUFFICES ASSUME Init PROVE IInv OBVIOUS
<1>1. Typed
    BY FS_EmptySet DEF Init, Typed
<1>2. \A r \in Requests : req[r] = Idle
    BY DEF Init
<1>3. QED BY <1>1, <1>2, IdleOK DEF Init, IInv

\* A request that ends.
LEMMA EndOK ==
    ASSUME IInv, NEW r \in Requests, Done(r), UNCHANGED <<users, members, memberIds>>
    PROVE  IInv'
BY Quiet, IdleOK DEF Done

\* A request that starts with a user, or in the name of one.
LEMMA StartOK ==
    ASSUME IInv, NEW r \in Requests, NEW next, Waiting(r, next),
           UNCHANGED <<users, members, memberIds>>,
           next \in Slot, next.copy = Nil, next.member = Nil,
           next.pc \in {"own", "join", "decline", "delete user", "change role",
                        "remove", "invite"},
           Names(next), Inviter(next)
    PROVE  IInv'
<1>1. SlotOK(next)
    BY DEF SlotOK, Copy, Removal, Copying
<1>2. QED BY <1>1, Quiet

\* A request that goes on without a copy.
LEMMA InviteOK ==
    ASSUME IInv, NEW r \in Requests,
           (\E w \in Users : InviteLookup(r, w)) \/ InvitePending(r)
    PROVE  IInv'
<1>1. SlotOK(req[r]) /\ UNCHANGED <<users, members, memberIds>>
    BY DEF IInv, InviteLookup, InvitePending, Tables
<1>2. CASE Done(r)
    BY <1>1, <1>2, EndOK
<1>3. CASE /\ Waiting(r, [req[r] EXCEPT !.pc = "pending"])
           /\ req[r].pc = "invite" /\ MembersOf(req[r].org) = {}
    <2> DEFINE next == [req[r] EXCEPT !.pc = "pending"]
    <2>1. SlotOK(next)
        BY <1>1, <1>3 DEF SlotOK, Slot, Names, Inviter, Copy, Removal, Copying, Pcs
    <2>2. QED BY <1>1, <1>3, <2>1, Quiet
<1>4. CASE Waiting(r, [req[r] EXCEPT !.pc = "issue"]) /\ req[r].pc = "pending"
    <2> DEFINE next == [req[r] EXCEPT !.pc = "issue"]
    <2>1. SlotOK(next)
        BY <1>1, <1>4 DEF SlotOK, Slot, Names, Inviter, Copy, Removal, Copying, Pcs
    <2>2. QED BY <1>1, <1>4, <2>1, Quiet
<1>5. QED BY <1>2, <1>3, <1>4 DEF InviteLookup, InvitePending, SeenMembers

\* A request that reads the membership it names.
LEMMA ReadOK ==
    ASSUME IInv, NEW r \in Requests, req[r].pc \in {"change role", "remove"},
           NEW m \in MembersOf(req[r].org),
           NEW pc \in {"save role", "count", "save removal"}, ReadMember(r, m, pc),
           UNCHANGED <<users, members, memberIds>>,
           pc = "save removal" => members[m].role # "owner"
    PROVE  IInv'
<1> DEFINE next == [req[r] EXCEPT !.pc = pc, !.user = Nil, !.member = m,
                                  !.copy = members[m]]
<1>1. /\ m \in MemberIds /\ m \in memberIds /\ members[m] \in Membership
      /\ members[m].org = req[r].org
    BY DEF IInv, Typed, MembersOf, Rows
<1>2. SlotOK(req[r]) /\ req[r] \in Slot
    BY DEF IInv, SlotOK
<1>3. /\ next.pc = pc /\ next.user = Nil /\ next.member = m
      /\ next.copy = members[m] /\ next.org = req[r].org
      /\ next \in Slot
    BY <1>1, <1>2 DEF Slot, Pcs
<1>4. SlotOK(next)
    BY <1>1, <1>2, <1>3 DEF SlotOK, Names, Inviter, Copy, Removal, Copying
<1>5. QED BY <1>4, Quiet DEF ReadMember

LEMMA RemoveCountOK ==
    ASSUME IInv, NEW r \in Requests, RemoveCount(r)
    PROVE  IInv'
<1>1. SlotOK(req[r]) /\ UNCHANGED <<users, members, memberIds>>
    BY DEF IInv, RemoveCount, Tables
<1>2. CASE Done(r)
    BY <1>1, <1>2, EndOK
<1>3. CASE /\ Waiting(r, [req[r] EXCEPT !.pc = "save removal"])
           /\ ~(Cardinality(Owners(req[r].org)) <= 1)
    <2> DEFINE S == Owners(req[r].org)
               next == [req[r] EXCEPT !.pc = "save removal"]
    <2>1. IsFiniteSet(S)
        <3>1. S \subseteq memberIds
            BY DEF Owners, Active, MembersOf, Rows, IInv, Typed
        <3>2. QED BY <3>1, FS_Subset DEF IInv, Typed
    <2>2. \E m \in S : m # req[r].member
        <3>1. SUFFICES ASSUME S \subseteq {req[r].member} PROVE FALSE
            OBVIOUS
        <3>2. S = {} \/ S = {req[r].member}
            BY <3>1
        <3>3. Cardinality(S) = 0 \/ Cardinality(S) = 1
            BY <3>2, FS_EmptySet, FS_Singleton
        <3>4. Cardinality(S) <= 1
            BY <3>3
        <3>5. QED BY <1>3, <3>4, Zenon
    <2>3. req[r].pc = "count"
        BY DEF RemoveCount
    <2> HIDE DEF S
    <2>4. SlotOK(next)
        BY <1>1, <2>2, <2>3
           DEF S, SlotOK, Slot, Names, Inviter, Copy, Removal, Copying, Pcs
    <2>5. QED BY <1>1, <1>3, <2>4, Quiet
<1>4. QED BY <1>2, <1>3 DEF RemoveCount, Counted

\* A request that has written a copy ends.
LEMMA WrittenOK ==
    ASSUME IInv, NEW r \in Requests, WroteMembers(r, Idle), TableStep
    PROVE  IInv'
BY Loud, IdleOK DEF Idle

\* Nobody moves, or an invitation does.
LEMMA SameOK ==
    ASSUME IInv, UNCHANGED <<users, members, memberIds, req>>
    PROVE  IInv'
<1>1. Typed'
    BY DEF IInv, Typed
<1>2. ASSUME NEW r \in Requests
      PROVE  SlotOK(req[r])'
    <2>1. SlotOK(req[r])
        BY DEF IInv
    <2>2. QED
        BY <2>1 DEF SlotOK, Slot, Names, Inviter, Copy, Removal, Owners, Active,
                    MembersOf, Rows
<1>3. QED BY <1>1, <1>2 DEF IInv

\* A request starts.
LEMMA StartStep ==
    ASSUME IInv, NEW r \in Requests, NEW u \in Users, NEW o \in Orgs,
           \/ CreateOrg(r, u, o)
           \/ \E op \in {"invite", "change role", "remove"} : Permit(r, u, o, op)
    PROVE  IInv'
<1>1. CASE CreateOrg(r, u, o)
    <2> DEFINE next == [Idle EXCEPT !.pc = "own", !.user = u, !.org = o]
    <2>1. /\ next.pc = "own" /\ next.user = u /\ next.org = o /\ next.copy = Nil
          /\ next.member = Nil /\ next \in Slot
        BY DEF Idle, Slot, Pcs
    <2>2. Names(next) /\ Inviter(next)
        BY <2>1 DEF Names, Inviter, Copying
    <2>3. Waiting(r, next) /\ UNCHANGED <<users, members, memberIds>>
        BY <1>1 DEF CreateOrg
    <2> HIDE DEF next
    <2>4. QED BY <2>1, <2>2, <2>3, StartOK
<1>2. ASSUME NEW op \in {"invite", "change role", "remove"}, Permit(r, u, o, op)
      PROVE  IInv'
    <2> DEFINE next == [Idle EXCEPT !.pc = op, !.user = u, !.org = o]
    <2>1. \E m \in MembersOf(o) : members[m].user = u
        BY <1>2 DEF Permit, Active
    <2>2. /\ next.pc = op /\ next.user = u /\ next.org = o /\ next.copy = Nil
          /\ next.member = Nil /\ next \in Slot
        BY DEF Idle, Slot, Pcs
    <2>3. Names(next) /\ Inviter(next)
        BY <2>1, <2>2 DEF Names, Inviter, Copying
    <2>4. Waiting(r, next) /\ UNCHANGED <<users, members, memberIds>>
        BY <1>2 DEF Permit, Tables
    <2> HIDE DEF next
    <2>5. QED BY <2>2, <2>3, <2>4, StartOK
<1>3. QED BY <1>1, <1>2

LEMMA UserStartStep ==
    ASSUME IInv, NEW r \in Requests, NEW u \in Users,
           \/ DeleteUserFind(r, u)
           \/ \E i \in Invitations : AcceptFind(r, u, i) \/ DeclineFind(r, u, i)
    PROVE  IInv'
<1>1. PICK next :
          /\ Waiting(r, next) /\ UNCHANGED <<users, members, memberIds>>
          /\ \/ next = [Idle EXCEPT !.pc = "delete user", !.user = u]
             \/ \E i \in Invitations :
                   \/ next = [Idle EXCEPT !.pc = "join", !.user = u,
                                          !.invitation = i]
                   \/ next = [Idle EXCEPT !.pc = "decline", !.invitation = i]
    BY DEF DeleteUserFind, AcceptFind, DeclineFind, Tables
<1>2. /\ next \in Slot /\ next.copy = Nil /\ next.member = Nil
      /\ next.pc \in {"join", "decline", "delete user"}
    BY <1>1 DEF Idle, Slot, Pcs
<1>3. Names(next) /\ Inviter(next)
    BY <1>1, <1>2 DEF Idle, Names, Inviter, Copying
<1>4. QED BY <1>1, <1>2, <1>3, StartOK

\* A request writes memberships.
LEMMA WriteStep ==
    ASSUME IInv, NEW r \in Requests,
           \/ CreateOwner(r) \/ Join(r) \/ RemoveSave(r) \/ DeleteUser(r)
           \/ \E role \in Roles : RoleSave(r, role)
    PROVE  IInv' /\ TableStep
<1>0. SlotOK(req[r]) /\ req[r] \in Slot
    BY DEF IInv, SlotOK
<1>1. CASE CreateOwner(r)
    <2>1. TableStep
        BY <1>0, <1>1, AddStep DEF CreateOwner, SlotOK, Names, Roles
    <2>2. QED BY <1>1, <2>1, WrittenOK DEF CreateOwner
<1>2. CASE Join(r)
    <2> DEFINE next == [req[r] EXCEPT !.pc = "mark", !.user = Nil]
    <2>1. req[r].invitation \in Invitations /\ req[r].pc = "join"
        BY <1>0, <1>2 DEF Join, SlotOK, Names
    <2>2. /\ InvitedTo[req[r].invitation] \in Orgs
          /\ RoleGranted(req[r].invitation) \in Roles
        BY <2>1, InvitationAssumption DEF RoleGranted
    <2>3. TableStep
        BY <1>2, <2>2, AddStep DEF Join
    <2>4. next \in Slot /\ next.copy = Nil /\ next.member = Nil
        BY <1>0, <2>1 DEF Slot, Pcs, SlotOK, Copy, Copying
    <2>5. next.pc = "mark" /\ next.invitation \in Invitations
        BY <1>0, <2>1 DEF Slot
    <2>6. WroteMembers(r, next)
        BY <1>2 DEF Join
    <2> HIDE DEF next
    <2>7. QED BY <2>3, <2>4, <2>5, <2>6, Loud
<1>3. CASE RemoveSave(r)
    <2> DEFINE copy == [req[r].copy EXCEPT !.isActive = FALSE]
    <2>1. req[r].pc \in Copying /\ req[r].copy \in Membership
        BY <1>0, <1>3 DEF RemoveSave, SlotOK, Copy, Copying
    <2>2. /\ copy \in Membership /\ copy.user = req[r].copy.user
          /\ copy.org = req[r].copy.org
        BY <2>1 DEF Membership
    <2>3. TableStep
        BY <1>3, <2>1, <2>2, SaveStep DEF RemoveSave
    <2>4. QED BY <1>3, <2>3, WrittenOK DEF RemoveSave
<1>4. CASE DeleteUser(r)
    <2>1. TableStep
        BY <1>4, DeleteStep
    <2>2. QED BY <1>4, <2>1, WrittenOK DEF DeleteUser
<1>5. ASSUME NEW role \in Roles, RoleSave(r, role)
      PROVE  IInv' /\ TableStep
    <2> DEFINE copy == [req[r].copy EXCEPT !.role = role]
    <2>1. req[r].pc \in Copying /\ req[r].copy \in Membership
        BY <1>0, <1>5 DEF RoleSave, SlotOK, Copy, Copying
    <2>2. /\ copy \in Membership /\ copy.user = req[r].copy.user
          /\ copy.org = req[r].copy.org
        BY <2>1 DEF Membership
    <2>3. TableStep
        BY <1>5, <2>1, <2>2, SaveStep DEF RoleSave
    <2>4. QED BY <1>5, <2>3, WrittenOK DEF RoleSave
<1>6. QED BY <1>1, <1>2, <1>3, <1>4, <1>5

\* A request goes on or ends without writing memberships.
LEMMA PassStep ==
    ASSUME IInv, NEW r \in Requests,
           \/ \E w \in Users : InviteLookup(r, w)
           \/ InvitePending(r) \/ Issue(r) \/ Mark(r)
           \/ RemoveCount(r) \/ Fail(r)
           \/ \E m \in MemberIds : RoleFind(r, m) \/ RemoveFind(r, m)
    PROVE  IInv'
<1>1. CASE (\E w \in Users : InviteLookup(r, w)) \/ InvitePending(r)
    BY <1>1, InviteOK
<1>2. CASE Issue(r) \/ Mark(r) \/ Fail(r)
    BY <1>2, EndOK DEF Issue, Mark, Fail, Tables
<1>3. CASE RemoveCount(r)
    BY <1>3, RemoveCountOK
<1>4. ASSUME NEW m \in MemberIds, RoleFind(r, m)
      PROVE  IInv'
    BY <1>4, ReadOK DEF RoleFind, Tables
<1>5. ASSUME NEW m \in MemberIds, RemoveFind(r, m)
      PROVE  IInv'
    <2> DEFINE pc == IF members[m].role = "owner" THEN "count" ELSE "save removal"
    <2>1. /\ pc \in {"save role", "count", "save removal"}
          /\ pc = "save removal" => members[m].role # "owner"
        OBVIOUS
    <2>2. /\ ReadMember(r, m, pc) /\ m \in MembersOf(req[r].org)
          /\ req[r].pc = "remove" /\ UNCHANGED <<users, members, memberIds>>
        BY <1>5 DEF RemoveFind, Tables
    <2> HIDE DEF pc
    <2>3. QED BY <2>1, <2>2, ReadOK
<1>6. QED BY <1>1, <1>2, <1>3, <1>4, <1>5

LEMMA NextOK == IInv /\ [Next]_vars => IInv'
<1> SUFFICES ASSUME IInv, [Next]_vars PROVE IInv' OBVIOUS
<1>1. CASE UNCHANGED vars
    BY <1>1, SameOK DEF vars
<1>2. ASSUME NEW i \in Invitations, ByHand(i) \/ Expire(i)
      PROVE  IInv'
    BY <1>2, SameOK DEF ByHand, Expire
<1>3. ASSUME NEW r \in Requests,
             OrganizationRequest(r) \/ UserRequest(r) \/ Fail(r)
      PROVE  IInv'
    <2>1. CASE OrganizationRequest(r)
        BY <2>1, StartStep, UserStartStep, WriteStep, PassStep
           DEF OrganizationRequest
    <2>2. CASE UserRequest(r)
        BY <2>2, UserStartStep, WriteStep DEF UserRequest
    <2>3. CASE Fail(r)
        BY <2>3, PassStep
    <2>4. QED BY <1>3, <2>1, <2>2, <2>3
<1>4. QED BY <1>1, <1>2, <1>3 DEF Next

\* The invariant of the proofs below.
THEOREM InvariantHolds == Spec => []IInv
<1>1. Init => IInv BY InitOK
<1>2. IInv /\ [Next]_vars => IInv' BY NextOK
<1>3. QED BY <1>1, <1>2, PTL DEF Spec

-----------------------------------------------------------------------------
(* What one step can do.                                                   *)

\* Only a request's own step takes it to another place.
LEMMA OwnStep ==
    ASSUME IInv, [Next]_vars, NEW r \in Requests, req'[r].pc # req[r].pc
    PROVE  OrganizationRequest(r) \/ UserRequest(r) \/ Fail(r)
<1>1. req' # req
    OBVIOUS
<1>2. PICK q \in Requests : OrganizationRequest(q) \/ UserRequest(q) \/ Fail(q)
    BY <1>1 DEF Next, vars, ByHand, Expire
<1>3. \E next : Waiting(q, next) \/ WroteMembers(q, next)
    <2>1. CASE OrganizationRequest(q)
        BY <2>1, Zenon
           DEF OrganizationRequest, CreateOrg, Permit, CreateOwner, InviteLookup,
               InvitePending, Issue, AcceptFind, DeclineFind, Join, Mark, RoleFind,
               RemoveFind, ReadMember, RoleSave, RemoveCount, RemoveSave, Done
    <2>2. CASE UserRequest(q) \/ Fail(q)
        BY <2>2, Zenon DEF UserRequest, DeleteUserFind, DeleteUser, Fail, Done
    <2>3. QED BY <1>2, <2>1, <2>2
<1>4. ASSUME q # r PROVE FALSE
    <2>1. \/ req'[r] = req[r]
          \/ req'[r] = [req[r] EXCEPT !.stale = (req[r].copy # Nil)]
        BY <1>3, <1>4 DEF Waiting, WroteMembers, IInv
    <2>2. req[r] \in Slot
        BY DEF IInv, SlotOK
    <2>3. req'[r].pc = req[r].pc
        BY <2>1, <2>2 DEF Slot
    <2>4. QED BY <2>3
<1>5. QED BY <1>2, <1>4

\* A row changes when its user is deleted, or when a request saves a copy.
LEMMA MemberWrites ==
    ASSUME IInv, [Next]_vars, NEW m \in Rows, members'[m] # members[m]
    PROVE  \/ members'[m] = Nil
           \/ \E r \in Requests :
                 /\ req[r].member = m
                 /\ members'[m].isActive => req[r].copy.isActive
<1>1. members' # members
    OBVIOUS
<1>2. PICK r \in Requests : OrganizationRequest(r) \/ UserRequest(r)
    BY <1>1 DEF Next, vars, ByHand, Expire, Fail, Tables
<1>3. \/ CreateOwner(r) \/ Join(r) \/ RemoveSave(r) \/ DeleteUser(r)
      \/ \E role \in Roles : RoleSave(r, role)
    BY <1>1, <1>2
       DEF OrganizationRequest, UserRequest, CreateOrg, Permit, InviteLookup,
           InvitePending, Issue, AcceptFind, DeclineFind, Mark, RoleFind,
           RemoveFind, RemoveCount, DeleteUserFind, Tables
<1>4. SlotOK(req[r]) /\ req[r] \in Slot
    BY DEF IInv, SlotOK
<1>5. CASE CreateOwner(r)
    <2>1. req[r].org \in Orgs
        BY <1>4, <1>5 DEF CreateOwner, SlotOK, Names
    <2>2. QED BY <1>5, <2>1, AddStep DEF CreateOwner, Roles
<1>6. CASE Join(r)
    <2>1. /\ InvitedTo[req[r].invitation] \in Orgs
          /\ RoleGranted(req[r].invitation) \in Roles
        BY <1>4, <1>6, InvitationAssumption DEF Join, RoleGranted, SlotOK, Names
    <2>2. QED BY <1>6, <2>1, AddStep DEF Join
<1>7. CASE DeleteUser(r)
    BY <1>7 DEF DeleteUser, Rows
<1>8. CASE RemoveSave(r) \/ \E role \in Roles : RoleSave(r, role)
    <2>1. req[r].copy \in Membership /\ req[r].member \in MemberIds
        BY <1>4, <1>8 DEF RemoveSave, RoleSave, SlotOK, Copy, Copying, IInv, Typed
    <2>2. PICK copy \in Membership :
              /\ SaveMember(req[r].member, copy)
              /\ copy.isActive => req[r].copy.isActive
        <3>1. CASE RemoveSave(r)
            <4> DEFINE copy == [req[r].copy EXCEPT !.isActive = FALSE]
            <4>1. copy \in Membership /\ ~copy.isActive
                BY <2>1 DEF Membership
            <4>2. SaveMember(req[r].member, copy)
                BY <3>1 DEF RemoveSave
            <4> HIDE DEF copy
            <4>3. QED BY <4>1, <4>2
        <3>2. ASSUME NEW role \in Roles, RoleSave(r, role)
              PROVE  \E copy \in Membership :
                        /\ SaveMember(req[r].member, copy)
                        /\ copy.isActive => req[r].copy.isActive
            <4> DEFINE copy == [req[r].copy EXCEPT !.role = role]
            <4>1. copy \in Membership /\ copy.isActive = req[r].copy.isActive
                BY <2>1 DEF Membership
            <4>2. SaveMember(req[r].member, copy)
                BY <3>2 DEF RoleSave
            <4> HIDE DEF copy
            <4>3. QED BY <4>1, <4>2
        <3>3. QED BY <1>8, <3>1, <3>2
    <2>3. req[r].member = m /\ members'[m] = copy
        BY <2>1, <2>2 DEF SaveMember, IInv, Typed, Rows
    <2>4. QED BY <2>2, <2>3
<1>9. QED BY <1>3, <1>5, <1>6, <1>7, <1>8

LEMMA RemovalStep ==
    ASSUME IInv, [Next]_vars, NEW r \in Requests, NEW o \in Orgs,
           req[r].pc = "save removal", req'[r].pc = "idle", ~req[r].stale,
           Owners(o) # {}
    PROVE  Owners(o)' # {}
<1>1. RemoveSave(r) \/ Fail(r)
    <2>1. OrganizationRequest(r) \/ UserRequest(r) \/ Fail(r)
        BY OwnStep
    <2>2. QED
        BY <2>1
           DEF OrganizationRequest, UserRequest, CreateOrg, CreateOwner, Permit,
               InviteLookup, InvitePending, Issue, AcceptFind, DeclineFind, Join,
               Mark, RoleFind, RemoveFind, RoleSave, RemoveCount, DeleteUserFind,
               DeleteUser
<1>2. CASE Fail(r)
    BY <1>2 DEF Fail, Tables, Owners, Active, MembersOf, Rows
<1>3. CASE RemoveSave(r)
    <2> DEFINE id == req[r].member  copy == req[r].copy
    <2>1. /\ id \in MemberIds /\ copy \in Membership /\ members[id] = copy
          /\ copy.org = req[r].org
          /\ copy.role = "owner" => \E m \in Owners(req[r].org) : m # id
        BY DEF IInv, Typed, SlotOK, Copy, Copying, Removal
    <2>2. members' = [members EXCEPT ![id] = [copy EXCEPT !.isActive = FALSE]]
        BY <1>3, <2>1, NilAssumption DEF RemoveSave, SaveMember
    <2>3. \E m \in Owners(o) : m # id
        <3>1. PICK m \in Owners(o) : TRUE
            OBVIOUS
        <3>2. members[m].org = o /\ members[m].role = "owner"
            BY DEF Owners, Active, MembersOf
        <3>3. CASE m = id
            BY <2>1, <3>2, <3>3
        <3>4. QED BY <3>3
    <2>4. PICK m \in Owners(o) : m # id
        BY <2>3
    <2>5. members'[m] = members[m] /\ m \in MemberIds
        BY <2>2, <2>4 DEF IInv, Typed, Owners, Active, MembersOf, Rows
    <2>6. m \in Owners(o)'
        BY <2>4, <2>5 DEF Owners, Active, MembersOf, Rows
    <2>7. QED BY <2>6
<1>4. QED BY <1>1, <1>2, <1>3

LEMMA IssueStep ==
    ASSUME IInv, [Next]_vars, NEW r \in Requests,
           req[r].pc = "issue", req'[r].pc = "idle"
    PROVE  invitations' = invitations
<1>1. Issue(r) \/ Fail(r)
    <2>1. OrganizationRequest(r) \/ UserRequest(r) \/ Fail(r)
        BY OwnStep
    <2>2. QED
        BY <2>1
           DEF OrganizationRequest, UserRequest, CreateOrg, CreateOwner, Permit,
               InviteLookup, InvitePending, AcceptFind, DeclineFind, Join, Mark,
               RoleFind, RemoveFind, RoleSave, RemoveCount, RemoveSave,
               DeleteUserFind, DeleteUser
<1>2. req[r].user \notin users
    BY DEF IInv, SlotOK, Inviter
<1>3. QED BY <1>1, <1>2 DEF Issue, Fail, Tables, CanInsert

-----------------------------------------------------------------------------
\* An unhurried removal leaves an organization the owner it had: the count
\* of owners implies another one, and only other requests' writes could take
\* that one away (removeMember).
THEOREM OwnerKept == Spec => RemovalKeepsAnOwner
<1>1. IInv /\ [Next]_vars
      => [\A r \in Requests :
             req[r].pc = "save removal" /\ req'[r].pc = "idle" /\ ~req[r].stale
             => \A o \in Orgs : Owners(o) # {} => Owners(o)' # {}]_vars
    BY RemovalStep
<1>2. QED BY <1>1, InvariantHolds, PTL DEF Spec, RemovalKeepsAnOwner

\* A removed member comes back only by the save of a copy that was read while
\* it was active (updateMemberRole, removeMember).
THEOREM RemovalIsFinal == Spec => RemovedStaysRemoved
<1>1. IInv /\ [Next]_vars
      => [\A m \in Rows :
             ~members[m].isActive /\ ~HoldsActiveCopy(m)
             => members'[m] = Nil \/ ~members'[m].isActive]_vars
    BY MemberWrites DEF HoldsActiveCopy
<1>2. QED BY <1>1, InvariantHolds, PTL DEF Spec, RemovedStaysRemoved

\* inviteMember never stores an invitation, however many requests and deletions
\* of users overlap: past its lookup the inviter is deleted.  (What it is for,
\* NonMembersInvited, is therefore lost, and invitations are rows that an
\* operator inserts, ByHand.)
THEOREM NoInvitation ==
    Spec => [][\A r \in Requests :
                  req[r].pc = "issue" /\ req'[r].pc = "idle"
                  => invitations' = invitations]_vars
<1>1. IInv /\ [Next]_vars
      => [\A r \in Requests :
             req[r].pc = "issue" /\ req'[r].pc = "idle"
             => invitations' = invitations]_vars
    BY IssueStep
<1>2. QED BY <1>1, InvariantHolds, PTL DEF Spec

-----------------------------------------------------------------------------
(* What an invitation grants.  While it is open, every membership it has    *)
(* granted is followed by a request about to mark it used, or by one that   *)
(* died before it could.  Marking it stops new acceptances: from then on    *)
(* only requests that found it open can still join.                         *)

Accepting(pc, i) == {r \in Requests : req[r].pc = pc /\ req[r].invitation = i}

\* (At UnmarkedCap the history of died acceptances no longer counts, and the
\* ids of the memberships are the bound.)
GrantsCovered(i) ==
    \/ unmarked[i] = UnmarkedCap
    \/ /\ invitations[i] \notin {"used", "expired"} =>
              granted[i] <= unmarked[i] + Cardinality(Accepting("mark", i))
       /\ granted[i] + Cardinality(Accepting("join", i))
              <= Cardinality(Requests) + unmarked[i]

HistoryTyped ==
    /\ orgs \subseteq Orgs
    /\ invitations \in [Invitations -> InvitationStates \cup {Nil}]
    /\ granted \in [Invitations -> Nat]
    /\ unmarked \in [Invitations -> 0 .. UnmarkedCap]
    /\ \A i \in Invitations : granted[i] <= Cardinality(memberIds)

GInv == HistoryTyped /\ \A i \in Invitations : GrantsCovered(i)

LEMMA Caps ==
    /\ GrantCap \in Nat /\ UnmarkedCap \in Nat /\ Cardinality(Requests) \in Nat
    /\ GrantCap <= Cardinality(Requests) + UnmarkedCap
<1>1. GrantCap \in Nat /\ Cardinality(Requests) \in Nat
    BY FiniteAssumption, FS_CardinalityType DEF GrantCap
<1>2. ASSUME NEW a \in Nat, NEW b \in Nat
      PROVE  Min({a, b}) = IF a <= b THEN a ELSE b
    BY <1>2 DEF Min
<1>3. PICK n \in Nat : n = Cardinality(Requests)
    BY <1>1
<1>4. Min({GrantCap, n}) = IF GrantCap <= n THEN GrantCap ELSE n
    BY <1>1, <1>2
<1>5. UnmarkedCap = IF GrantCap <= n THEN 0 ELSE GrantCap - n
    BY <1>1, <1>3, <1>4 DEF UnmarkedCap
<1>6. QED BY <1>1, <1>3, <1>5

LEMMA AcceptingFinite ==
    ASSUME NEW pc, NEW i
    PROVE  IsFiniteSet(Accepting(pc, i)) /\ Cardinality(Accepting(pc, i)) \in Nat
<1>1. Accepting(pc, i) \subseteq Requests
    BY DEF Accepting
<1>2. QED BY <1>1, FiniteAssumption, FS_Subset, FS_CardinalityType

LEMMA DisjointBound ==
    ASSUME NEW S \in SUBSET Requests, NEW T \in SUBSET Requests, S \cap T = {}
    PROVE  Cardinality(S) + Cardinality(T) <= Cardinality(Requests)
<1>1. /\ IsFiniteSet(S) /\ IsFiniteSet(T)
      /\ Cardinality(S) \in Nat /\ Cardinality(T) \in Nat
    BY FiniteAssumption, FS_Subset, FS_CardinalityType
<1>2. S \cup T \in SUBSET Requests
    OBVIOUS
<1>3. Cardinality(S \cup T) = Cardinality(S) + Cardinality(T) - Cardinality(S \cap T)
    BY <1>1, FS_Union
<1>4. Cardinality(S \cup T) <= Cardinality(Requests)
    BY <1>2, FiniteAssumption, FS_Subset
<1>5. Cardinality(S \cap T) = 0
    BY FS_EmptySet
<1>6. QED BY <1>1, <1>3, <1>4, <1>5

\* A request that joins is not one that marks.
LEMMA AcceptingBound ==
    ASSUME NEW i
    PROVE  Cardinality(Accepting("join", i)') + Cardinality(Accepting("mark", i)')
               <= Cardinality(Requests)
<1>1. PICK J, M : J = Accepting("join", i)' /\ M = Accepting("mark", i)'
    OBVIOUS
<1>2. J \in SUBSET Requests /\ M \in SUBSET Requests /\ J \cap M = {}
    BY <1>1 DEF Accepting
<1>3. Cardinality(J) + Cardinality(M) <= Cardinality(Requests)
    BY <1>2, DisjointBound
<1>4. QED BY <1>1, <1>3

\* The other requests stay where they are.
OthersStay(r) ==
    \A x \in Requests \ {r} :
        req'[x].pc = req[x].pc /\ req'[x].invitation = req[x].invitation

LEMMA AcceptingChanges ==
    ASSUME NEW r \in Requests, OthersStay(r), NEW pc, NEW i
    PROVE  /\ Cardinality(Accepting(pc, i)') \in Nat
           /\ Cardinality(Accepting(pc, i)')
              + (IF req[r].pc = pc /\ req[r].invitation = i THEN 1 ELSE 0)
              = Cardinality(Accepting(pc, i))
              + (IF req'[r].pc = pc /\ req'[r].invitation = i THEN 1 ELSE 0)
<1>1. PICK before, after :
          before = Accepting(pc, i) /\ after = Accepting(pc, i)'
    OBVIOUS
<1>2. before \ {r} = after \ {r}
    BY <1>1 DEF Accepting, OthersStay
<1>3. /\ before \subseteq Requests /\ after \subseteq Requests
      /\ r \in before <=> req[r].pc = pc /\ req[r].invitation = i
      /\ r \in after <=> req'[r].pc = pc /\ req'[r].invitation = i
    BY <1>1 DEF Accepting
<1>4. /\ IsFiniteSet(before) /\ IsFiniteSet(after)
      /\ Cardinality(before) \in Nat /\ Cardinality(after) \in Nat
    BY <1>3, FiniteAssumption, FS_Subset, FS_CardinalityType
<1>5. Cardinality(before \ {r}) =
          IF r \in before THEN Cardinality(before) - 1 ELSE Cardinality(before)
    BY <1>4, FS_RemoveElement
<1>6. Cardinality(after \ {r}) =
          IF r \in after THEN Cardinality(after) - 1 ELSE Cardinality(after)
    BY <1>4, FS_RemoveElement
<1>7. Cardinality(after) + (IF r \in before THEN 1 ELSE 0)
      = Cardinality(before) + (IF r \in after THEN 1 ELSE 0)
    BY <1>2, <1>4, <1>5, <1>6
<1>8. Cardinality(Accepting(pc, i)) = Cardinality(before)
      /\ Cardinality(Accepting(pc, i)') = Cardinality(after)
    BY <1>1
<1>9. QED BY <1>3, <1>4, <1>7, <1>8

LEMMA OwnSlot ==
    ASSUME IInv, NEW r \in Requests, NEW next,
           Waiting(r, next) \/ WroteMembers(r, next)
    PROVE  req'[r] = next /\ OthersStay(r)
<1>1. CASE Waiting(r, next)
    BY <1>1 DEF Waiting, IInv, OthersStay
<1>2. CASE WroteMembers(r, next)
    <2>1. \A x \in Requests : req[x] \in Slot
        BY DEF IInv, SlotOK
    <2>2. QED BY <1>2, <2>1 DEF WroteMembers, OthersStay, Slot
<1>3. QED BY <1>1, <1>2

-----------------------------------------------------------------------------
(* The steps that matter to an invitation, and those that do not.          *)

Elsewhere == {"join", "mark"}

Passes(r) ==
    /\ OthersStay(r)
    /\ req[r].pc \notin Elsewhere /\ req'[r].pc \notin Elsewhere
    /\ orgs' \subseteq Orgs
    /\ \A i \in Invitations :
          \/ invitations'[i] = invitations[i]
          \/ invitations[i] = Nil /\ invitations'[i] = "open"
    /\ invitations' \in [Invitations -> InvitationStates \cup {Nil}]
    /\ UNCHANGED <<granted, unmarked>>

LEMMA PassesStep ==
    ASSUME IInv, HistoryTyped, NEW r \in Requests,
           OrganizationRequest(r) \/ UserRequest(r)
    PROVE  \/ Passes(r)
           \/ \E u \in Users, i \in Invitations : AcceptFind(r, u, i) \/ DeclineFind(r, u, i)
           \/ Join(r) \/ Mark(r)
<1>0. req[r] \in Slot
    BY DEF IInv, SlotOK
<1>1. ASSUME NEW next, Waiting(r, next) \/ WroteMembers(r, next),
             req[r].pc \notin Elsewhere, next.pc \notin Elsewhere,
             orgs' \subseteq Orgs, UNCHANGED <<invitations, granted, unmarked>>
      PROVE  Passes(r)
    BY <1>1, OwnSlot DEF Passes, HistoryTyped
<1>2. ASSUME NEW u \in Users, NEW o \in Orgs, CreateOrg(r, u, o)
      PROVE  Passes(r)
    <2> DEFINE next == [Idle EXCEPT !.pc = "own", !.user = u, !.org = o]
    <2>1. next.pc = "own"
        BY DEF Idle
    <2>2. /\ Waiting(r, next) /\ req[r].pc = "idle" /\ orgs' \subseteq Orgs
          /\ UNCHANGED <<invitations, granted, unmarked>>
        BY <1>2 DEF CreateOrg, Histories, HistoryTyped
    <2> HIDE DEF next
    <2>3. QED BY <1>1, <2>1, <2>2 DEF Elsewhere
<1>3. ASSUME NEW u \in Users, NEW o \in Orgs,
             NEW op \in {"invite", "change role", "remove"}, Permit(r, u, o, op)
      PROVE  Passes(r)
    <2> DEFINE next == [Idle EXCEPT !.pc = op, !.user = u, !.org = o]
    <2>1. next.pc = op
        BY DEF Idle
    <2>2. /\ Waiting(r, next) /\ req[r].pc = "idle" /\ orgs' \subseteq Orgs
          /\ UNCHANGED <<invitations, granted, unmarked>>
        BY <1>3 DEF Permit, Tables, Histories, HistoryTyped
    <2> HIDE DEF next
    <2>3. QED BY <1>1, <2>1, <2>2 DEF Elsewhere
<1>4. ASSUME req[r].pc \notin Elsewhere, WroteMembers(r, Idle) \/ Done(r),
             UNCHANGED <<orgs, invitations, granted, unmarked>>
      PROVE  Passes(r)
    <2>1. Idle.pc = "idle"
        BY DEF Idle
    <2>2. QED BY <1>1, <1>4, <2>1 DEF Elsewhere, Done, HistoryTyped
<1>5. CASE \/ CreateOwner(r) \/ RemoveSave(r) \/ DeleteUser(r)
           \/ \E role \in Roles : RoleSave(r, role)
    BY <1>4, <1>5 DEF CreateOwner, RemoveSave, DeleteUser, RoleSave, Histories, Elsewhere
<1>6. ASSUME NEW pc \in Pcs \ Elsewhere, Waiting(r, [req[r] EXCEPT !.pc = pc]),
             req[r].pc \notin Elsewhere, Tables, Histories
      PROVE  Passes(r)
    <2> DEFINE next == [req[r] EXCEPT !.pc = pc]
    <2>1. next.pc = pc
        BY <1>0 DEF Slot
    <2>2. Waiting(r, next)
        BY <1>6
    <2> HIDE DEF next
    <2>3. QED BY <1>1, <1>6, <2>1, <2>2 DEF Tables, Histories, HistoryTyped
<1>7. CASE (\E w \in Users : InviteLookup(r, w)) \/ InvitePending(r) \/ RemoveCount(r)
    BY <1>4, <1>6, <1>7
       DEF InviteLookup, InvitePending, RemoveCount, Tables, Histories, Elsewhere, Pcs
<1>8. ASSUME NEW m \in MemberIds, RoleFind(r, m) \/ RemoveFind(r, m)
      PROVE  Passes(r)
    <2>1. PICK pc \in {"save role", "count", "save removal"} : ReadMember(r, m, pc)
        BY <1>8 DEF RoleFind, RemoveFind
    <2> DEFINE next == [req[r] EXCEPT !.pc = pc, !.user = Nil, !.member = m,
                                      !.copy = members[m]]
    <2>2. next.pc = pc
        BY <1>0 DEF Slot
    <2>3. Waiting(r, next)
        BY <2>1 DEF ReadMember
    <2>4. /\ req[r].pc \notin Elsewhere /\ orgs' \subseteq Orgs
          /\ UNCHANGED <<invitations, granted, unmarked>>
        BY <1>8 DEF RoleFind, RemoveFind, Tables, Histories, HistoryTyped, Elsewhere
    <2> HIDE DEF next
    <2>5. QED BY <1>1, <2>2, <2>3, <2>4 DEF Elsewhere
<1>9. CASE Issue(r)
    <2>1. PICK i \in Invitations :
              invitations' = IF CanInsert(i) THEN [invitations EXCEPT ![i] = "open"]
                             ELSE invitations
        BY <1>9 DEF Issue
    <2>2. /\ invitations' \in [Invitations -> InvitationStates \cup {Nil}]
          /\ \A k \in Invitations :
                \/ invitations'[k] = invitations[k]
                \/ invitations[k] = Nil /\ invitations'[k] = "open"
        BY <2>1 DEF HistoryTyped, CanInsert, InvitationStates
    <2>3. Done(r) /\ req[r].pc = "issue" /\ UNCHANGED <<orgs, granted, unmarked>>
        BY <1>9 DEF Issue, Histories
    <2>4. req'[r] = Idle /\ OthersStay(r) /\ Idle.pc = "idle"
        BY <2>3, OwnSlot DEF Done, Idle
    <2>5. QED BY <2>2, <2>3, <2>4 DEF Passes, Elsewhere, HistoryTyped
<1>10. ASSUME NEW u \in Users, DeleteUserFind(r, u)
       PROVE  Passes(r)
    <2> DEFINE next == [Idle EXCEPT !.pc = "delete user", !.user = u]
    <2>1. next.pc = "delete user"
        BY DEF Idle
    <2>2. /\ Waiting(r, next) /\ req[r].pc = "idle" /\ orgs' \subseteq Orgs
          /\ UNCHANGED <<invitations, granted, unmarked>>
        BY <1>10 DEF DeleteUserFind, Tables, Histories, HistoryTyped
    <2> HIDE DEF next
    <2>3. QED BY <1>1, <2>1, <2>2 DEF Elsewhere
<1>11. QED
    BY <1>2, <1>3, <1>5, <1>7, <1>8, <1>9, <1>10 DEF OrganizationRequest, UserRequest

\* Membership ids are used once.
LEMMA IdsGrow ==
    ASSUME IInv, IInv', memberIds \subseteq memberIds'
    PROVE  /\ Cardinality(memberIds) \in Nat /\ Cardinality(memberIds') \in Nat
           /\ Cardinality(memberIds) <= Cardinality(memberIds')
<1>1. PICK before, after : before = memberIds /\ after = memberIds'
    OBVIOUS
<1>2. IsFiniteSet(before) /\ IsFiniteSet(after) /\ before \subseteq after
    BY <1>1 DEF IInv, Typed
<1>3. /\ Cardinality(before) \in Nat /\ Cardinality(after) \in Nat
      /\ Cardinality(before) <= Cardinality(after)
    BY <1>2, FS_CardinalityType, FS_Subset
<1>4. QED BY <1>1, <1>3

\* What an invitation is about to grant when no request goes by it.
LEMMA CoverKept ==
    ASSUME HistoryTyped, NEW i \in Invitations, GrantsCovered(i),
           NEW r \in Requests, OthersStay(r),
           req[r].pc \in Elsewhere => req[r].invitation # i,
           req'[r].pc \in Elsewhere => req'[r].invitation # i,
           granted'[i] = granted[i], unmarked'[i] = unmarked[i],
           \/ invitations'[i] = invitations[i]
           \/ invitations[i] = Nil \/ invitations'[i] \in {"used", "expired"}
    PROVE  GrantsCovered(i)'
<1>1. \A pc \in Elsewhere : Cardinality(Accepting(pc, i)') = Cardinality(Accepting(pc, i))
    BY AcceptingChanges, AcceptingFinite
<1>2. Nil \notin {"used", "expired"}
    BY NilAssumption DEF InvitationStates
<1>3. QED BY <1>1, <1>2 DEF GrantsCovered, Elsewhere

\* A request that found the invitation open.
LEMMA FindCovers ==
    ASSUME IInv, HistoryTyped, NEW i \in Invitations, GrantsCovered(i),
           NEW r \in Requests, NEW u \in Users, NEW k \in Invitations,
           AcceptFind(r, u, k) \/ DeclineFind(r, u, k)
    PROVE  GrantsCovered(i)'
<1> DEFINE next == IF AcceptFind(r, u, k)
                   THEN [Idle EXCEPT !.pc = "join", !.user = u, !.invitation = k]
                   ELSE [Idle EXCEPT !.pc = "decline", !.invitation = k]
<1>1. next.pc \in {"join", "decline"} /\ next.invitation = k
    BY DEF Idle
<1>2. /\ Waiting(r, next) /\ invitations[k] = "open" /\ req[r].pc = "idle"
      /\ UNCHANGED <<invitations, granted, unmarked>>
    BY DEF AcceptFind, DeclineFind, Tables, Histories
<1> HIDE DEF next
<1>3. req'[r] = next /\ OthersStay(r)
    BY <1>2, OwnSlot
<1>4. CASE i # k
    BY <1>1, <1>2, <1>3, <1>4, CoverKept DEF Elsewhere
<1>5. CASE i = k
    <2>1. PICK j, m, n, j2, m2 \in Nat :
              /\ j = Cardinality(Accepting("join", i))
              /\ m = Cardinality(Accepting("mark", i))
              /\ j2 = Cardinality(Accepting("join", i)')
              /\ m2 = Cardinality(Accepting("mark", i)')
              /\ n = Cardinality(Requests)
        BY <1>3, AcceptingFinite, AcceptingChanges, Caps
    <2>2. j2 = j + (IF next.pc = "join" THEN 1 ELSE 0)
        BY <1>1, <1>2, <1>3, <1>5, <2>1, AcceptingChanges
    <2>3. m2 = m
        BY <1>1, <1>2, <1>3, <1>5, <2>1, AcceptingChanges
    <2>4. j2 + m2 <= n
        BY <2>1, AcceptingBound
    <2>5. /\ granted[i] \in Nat /\ unmarked[i] \in Nat
          /\ granted'[i] = granted[i] /\ unmarked'[i] = unmarked[i]
        BY <1>2, Caps DEF HistoryTyped
    <2>6. unmarked[i] = UnmarkedCap \/ granted[i] <= unmarked[i] + m
        BY <1>2, <1>5, <2>1 DEF GrantsCovered
    <2>7. \/ unmarked'[i] = UnmarkedCap
          \/ granted'[i] <= unmarked'[i] + m2 /\ granted'[i] + j2 <= n + unmarked'[i]
        BY <2>2, <2>3, <2>4, <2>5, <2>6
    <2>8. QED BY <2>1, <2>7 DEF GrantsCovered
<1>6. QED BY <1>4, <1>5

\* A membership that an invitation grants.
LEMMA JoinCovers ==
    ASSUME IInv, HistoryTyped, NEW i \in Invitations, GrantsCovered(i),
           NEW r \in Requests, Join(r)
    PROVE  GrantsCovered(i)'
<1> DEFINE k == req[r].invitation
           next == [req[r] EXCEPT !.pc = "mark", !.user = Nil]
<1>1. /\ req[r].pc = "join" /\ k \in Invitations
      /\ granted' = [granted EXCEPT ![k] = @ + 1]
      /\ UNCHANGED <<invitations, unmarked>>
    BY DEF Join, IInv, SlotOK, Names
<1>2. next.pc = "mark" /\ next.invitation = k
    BY DEF IInv, SlotOK, Slot
<1>3. WroteMembers(r, next)
    BY DEF Join
<1> HIDE DEF next, k
<1>4. req'[r] = next /\ OthersStay(r)
    BY <1>3, OwnSlot
<1>5. CASE i # k
    <2>1. granted'[i] = granted[i]
        BY <1>1, <1>5 DEF HistoryTyped
    <2>2. QED BY <1>1, <1>2, <1>4, <1>5, <2>1, CoverKept DEF k
<1>6. CASE i = k
    <2>1. PICK j, m, n, j2, m2 \in Nat :
              /\ j = Cardinality(Accepting("join", i))
              /\ m = Cardinality(Accepting("mark", i))
              /\ j2 = Cardinality(Accepting("join", i)')
              /\ m2 = Cardinality(Accepting("mark", i)')
              /\ n = Cardinality(Requests)
        BY <1>4, AcceptingFinite, AcceptingChanges, Caps
    <2>2. req[r].invitation = i /\ next.invitation = i
        BY <1>2, <1>6 DEF k
    <2>3. j2 + 1 = j
        BY <1>1, <1>2, <1>4, <2>1, <2>2, AcceptingChanges
    <2>4. m2 = m + 1
        BY <1>1, <1>2, <1>4, <2>1, <2>2, AcceptingChanges
    <2>5. /\ granted[i] \in Nat /\ unmarked[i] \in Nat
          /\ granted'[i] = granted[i] + 1 /\ unmarked'[i] = unmarked[i]
        BY <1>1, <1>6, Caps DEF HistoryTyped
    <2>6. \/ unmarked[i] = UnmarkedCap
          \/ /\ invitations[i] \notin {"used", "expired"} =>
                    granted[i] <= unmarked[i] + m
             /\ granted[i] + j <= n + unmarked[i]
        BY <2>1 DEF GrantsCovered
    <2>7. \/ unmarked'[i] = UnmarkedCap
          \/ /\ invitations[i] \notin {"used", "expired"} =>
                    granted'[i] <= unmarked'[i] + m2
             /\ granted'[i] + j2 <= n + unmarked'[i]
        BY <2>3, <2>4, <2>5, <2>6
    <2>8. QED BY <1>1, <2>1, <2>7 DEF GrantsCovered
<1>7. QED BY <1>5, <1>6

\* An acceptance that ends: marked, or not.
LEMMA EndCovers ==
    ASSUME IInv, HistoryTyped, NEW i \in Invitations, GrantsCovered(i),
           NEW r \in Requests, Mark(r) \/ Fail(r)
    PROVE  GrantsCovered(i)'
<1> DEFINE k == req[r].invitation
<1>1. /\ Done(r) /\ granted' = granted
      /\ req[r].pc \in Elsewhere => k \in Invitations
    BY DEF Mark, Fail, Histories, Elsewhere, IInv, SlotOK, Names
<1>2. Idle.pc \notin Elsewhere
    BY DEF Idle, Elsewhere
<1>3. req'[r] = Idle /\ OthersStay(r)
    BY <1>1, OwnSlot DEF Done
<1>4. CASE req[r].pc \in Elsewhere => i # k
    <2>1. /\ invitations'[i] = invitations[i] \/ invitations'[i] = "used"
          /\ unmarked'[i] = unmarked[i]
        BY <1>4 DEF Mark, Fail, Tables, Histories, HistoryTyped, Elsewhere
    <2>2. QED BY <1>1, <1>2, <1>3, <1>4, <2>1, CoverKept
<1>5. CASE req[r].pc \in Elsewhere /\ i = k
    <2>1. PICK j, m, n, j2, m2 \in Nat :
              /\ j = Cardinality(Accepting("join", i))
              /\ m = Cardinality(Accepting("mark", i))
              /\ j2 = Cardinality(Accepting("join", i)')
              /\ m2 = Cardinality(Accepting("mark", i)')
              /\ n = Cardinality(Requests)
        BY <1>3, AcceptingFinite, AcceptingChanges, Caps
    <2>2. /\ Idle.pc # "join" /\ Idle.pc # "mark"
        BY <1>2 DEF Elsewhere
    <2>3. j2 + (IF req[r].pc = "join" THEN 1 ELSE 0) = j
        BY <1>3, <1>5, <2>1, <2>2, AcceptingChanges
    <2>4. m2 + (IF req[r].pc = "mark" THEN 1 ELSE 0) = m
        BY <1>3, <1>5, <2>1, <2>2, AcceptingChanges
    <2>5. granted[i] \in Nat /\ unmarked[i] \in 0 .. UnmarkedCap /\ UnmarkedCap \in Nat
        BY Caps DEF HistoryTyped
    <2>6. \/ unmarked[i] = UnmarkedCap
          \/ /\ invitations[i] \notin {"used", "expired"} =>
                    granted[i] <= unmarked[i] + m
             /\ granted[i] + j <= n + unmarked[i]
        BY <2>1 DEF GrantsCovered
    <2>7. CASE Mark(r)
        <3>1. /\ invitations'[i] = "used" /\ unmarked'[i] = unmarked[i]
              /\ req[r].pc = "mark"
            BY <1>5, <2>7 DEF Mark, Histories, HistoryTyped, Elsewhere
        <3>2. unmarked'[i] = UnmarkedCap \/ granted'[i] + j2 <= n + unmarked'[i]
            BY <1>1, <2>3, <2>5, <2>6, <3>1
        <3>3. QED BY <2>1, <3>1, <3>2 DEF GrantsCovered
    <2>8. CASE Fail(r)
        <3>1. invitations'[i] = invitations[i]
            BY <2>8 DEF Fail, Tables
        <3>2. unmarked'[i] = IF req[r].pc = "mark" /\ unmarked[i] # UnmarkedCap
                             THEN unmarked[i] + 1 ELSE unmarked[i]
            BY <1>5, <2>8 DEF Fail, HistoryTyped
        <3>3. \/ unmarked'[i] = UnmarkedCap
              \/ /\ invitations[i] \notin {"used", "expired"} =>
                        granted'[i] <= unmarked'[i] + m2
                 /\ granted'[i] + j2 <= n + unmarked'[i]
            <4>1. CASE req[r].pc = "mark"
                BY <1>1, <2>3, <2>4, <2>5, <2>6, <3>2, <4>1
            <4>2. CASE req[r].pc = "join"
                BY <1>1, <2>3, <2>4, <2>5, <2>6, <3>2, <4>2
            <4>3. QED BY <1>5, <4>1, <4>2 DEF Elsewhere
        <3>4. QED BY <2>1, <3>1, <3>3 DEF GrantsCovered
    <2>9. QED BY <2>7, <2>8
<1>6. QED BY <1>4, <1>5

-----------------------------------------------------------------------------
(* Every step keeps what the histories say.                                *)

LEMMA IdsStep ==
    ASSUME IInv, [Next]_vars
    PROVE  memberIds \subseteq memberIds'
<1>1. CASE memberIds' = memberIds
    BY <1>1
<1>2. ASSUME NEW r \in Requests,
             OrganizationRequest(r) \/ UserRequest(r) \/ Fail(r)
      PROVE  memberIds \subseteq memberIds'
    <2>1. CASE \/ CreateOwner(r) \/ Join(r) \/ RemoveSave(r) \/ DeleteUser(r)
               \/ \E role \in Roles : RoleSave(r, role)
        BY <2>1, WriteStep DEF TableStep
    <2>2. QED
        BY <1>1, <1>2, <2>1
           DEF OrganizationRequest, UserRequest, CreateOrg, Permit, InviteLookup,
               InvitePending, Issue, AcceptFind, DeclineFind, Mark, RoleFind,
               RemoveFind, RemoveCount, DeleteUserFind, Fail, Tables
<1>3. QED BY <1>1, <1>2 DEF Next, ByHand, Expire, vars

LEMMA HistoryStep ==
    ASSUME IInv, HistoryTyped, [Next]_vars
    PROVE  HistoryTyped'
<1>1. /\ Cardinality(memberIds) \in Nat /\ Cardinality(memberIds') \in Nat
      /\ Cardinality(memberIds) <= Cardinality(memberIds')
    BY IdsStep, IdsGrow, NextOK
<1>2. ASSUME granted' = granted, unmarked' \in [Invitations -> 0 .. UnmarkedCap],
             orgs' \subseteq Orgs,
             invitations' \in [Invitations -> InvitationStates \cup {Nil}]
      PROVE  HistoryTyped'
    BY <1>1, <1>2 DEF HistoryTyped
<1>3. CASE UNCHANGED vars
    BY <1>2, <1>3 DEF vars, HistoryTyped
<1>4. ASSUME NEW i \in Invitations, ByHand(i) \/ Expire(i)
      PROVE  HistoryTyped'
    BY <1>2, <1>4 DEF ByHand, Expire, Histories, HistoryTyped, InvitationStates
<1>5. ASSUME NEW r \in Requests, Fail(r)
      PROVE  HistoryTyped'
    <2>1. unmarked' \in [Invitations -> 0 .. UnmarkedCap]
        <3>1. CASE unmarked' = unmarked
            BY <3>1 DEF HistoryTyped
        <3>2. CASE unmarked' # unmarked
            <4>1. PICK k \in Invitations :
                      unmarked' = [unmarked EXCEPT ![k] =
                                       IF @ = UnmarkedCap THEN @ ELSE @ + 1]
                BY <1>5, <3>2 DEF Fail, IInv, SlotOK, Names
            <4>2. \A n \in 0 .. UnmarkedCap :
                      (IF n = UnmarkedCap THEN n ELSE n + 1) \in 0 .. UnmarkedCap
                BY Caps
            <4>3. QED BY <4>1, <4>2 DEF HistoryTyped
        <3>3. QED BY <3>1, <3>2
    <2>2. QED BY <1>2, <1>5, <2>1 DEF Fail, Tables, HistoryTyped
<1>6. ASSUME NEW r \in Requests, OrganizationRequest(r) \/ UserRequest(r)
      PROVE  HistoryTyped'
    <2>1. CASE Passes(r)
        BY <1>2, <2>1 DEF Passes, HistoryTyped
    <2>2. CASE \E u \in Users, i \in Invitations : AcceptFind(r, u, i) \/ DeclineFind(r, u, i)
        BY <1>2, <2>2 DEF AcceptFind, DeclineFind, Tables, Histories, HistoryTyped
    <2>3. CASE Mark(r)
        <3>1. invitations' \in [Invitations -> InvitationStates \cup {Nil}]
            BY <2>3 DEF Mark, HistoryTyped, InvitationStates
        <3>2. QED BY <1>2, <2>3, <3>1 DEF Mark, Histories, HistoryTyped
    <2>4. CASE Join(r)
        <3>1. PICK m \in MemberIds \ memberIds : memberIds' = memberIds \cup {m}
            BY <2>4 DEF Join, AddMember
        <3>2. PICK before, after : /\ before = memberIds /\ after = memberIds'
                                   /\ after = before \cup {m} /\ m \notin before
            BY <3>1
        <3>3. Cardinality(after) = Cardinality(before) + 1
            <4>1. IsFiniteSet(before)
                BY <3>2 DEF IInv, Typed
            <4>2. QED BY <3>2, <4>1, FS_AddElement
        <3>4. Cardinality(memberIds') = Cardinality(memberIds) + 1
            BY <3>2, <3>3
        <3>5. PICK k \in Invitations :
                  /\ granted' = [granted EXCEPT ![k] = @ + 1]
                  /\ UNCHANGED <<orgs, invitations, unmarked>>
            BY <2>4 DEF Join, IInv, SlotOK, Names
        <3>6. /\ granted' \in [Invitations -> Nat]
              /\ \A i \in Invitations : granted'[i] <= granted[i] + 1
            BY <3>5 DEF HistoryTyped
        <3>7. \A i \in Invitations : granted'[i] <= Cardinality(memberIds')
            BY <1>1, <3>4, <3>6 DEF HistoryTyped
        <3>8. QED BY <3>5, <3>6, <3>7 DEF HistoryTyped
    <2>5. QED BY <1>6, <2>1, <2>2, <2>3, <2>4, PassesStep
<1>7. QED BY <1>3, <1>4, <1>5, <1>6 DEF Next

LEMMA CoverStep ==
    ASSUME IInv, GInv, [Next]_vars, NEW i \in Invitations
    PROVE  GrantsCovered(i)'
<1>0. HistoryTyped /\ GrantsCovered(i)
    BY DEF GInv
<1>1. ASSUME UNCHANGED <<req, granted, unmarked>>,
             \/ invitations'[i] = invitations[i]
             \/ invitations[i] = Nil \/ invitations'[i] = "expired"
      PROVE  GrantsCovered(i)'
    <2>1. \A pc : Accepting(pc, i)' = Accepting(pc, i)
        BY <1>1 DEF Accepting
    <2>2. Nil \notin {"used", "expired"}
        BY NilAssumption DEF InvitationStates
    <2>3. QED BY <1>0, <1>1, <2>1, <2>2 DEF GrantsCovered
<1>2. CASE UNCHANGED vars
    BY <1>1, <1>2 DEF vars
<1>3. ASSUME NEW k \in Invitations, ByHand(k) \/ Expire(k)
      PROVE  GrantsCovered(i)'
    BY <1>0, <1>1, <1>3 DEF ByHand, Expire, CanInsert, Histories, HistoryTyped
<1>4. ASSUME NEW r \in Requests, Passes(r)
      PROVE  GrantsCovered(i)'
    BY <1>0, <1>4, CoverKept DEF Passes
<1>5. ASSUME NEW r \in Requests,
             OrganizationRequest(r) \/ UserRequest(r) \/ Fail(r)
      PROVE  GrantsCovered(i)'
    BY <1>0, <1>4, <1>5, PassesStep, FindCovers, JoinCovers, EndCovers
<1>6. QED BY <1>2, <1>3, <1>5 DEF Next

LEMMA InitHistories == Init => GInv
<1> SUFFICES ASSUME Init PROVE GInv OBVIOUS
<1>1. Cardinality(memberIds) = 0
    BY FS_EmptySet DEF Init
<1>2. HistoryTyped
    BY <1>1, Caps DEF Init, HistoryTyped
<1>3. ASSUME NEW i \in Invitations
      PROVE  GrantsCovered(i)
    <2>1. \A pc \in Elsewhere : Accepting(pc, i) = {}
        BY DEF Init, Accepting, Idle, Elsewhere
    <2>2. \A pc \in Elsewhere : Cardinality(Accepting(pc, i)) = 0
        BY <2>1, FS_EmptySet
    <2>3. granted[i] = 0 /\ unmarked[i] = 0
        BY DEF Init
    <2>4. QED BY <2>2, <2>3, Caps DEF GrantsCovered, Elsewhere
<1>4. QED BY <1>2, <1>3 DEF GInv

THEOREM HistoriesHold == Spec => [](IInv /\ GInv)
<1>1. Init => IInv /\ GInv
    BY InitOK, InitHistories
<1>2. IInv /\ GInv /\ [Next]_vars => (IInv /\ GInv)'
    BY NextOK, HistoryStep, CoverStep DEF GInv
<1>3. QED BY <1>1, <1>2, PTL DEF Spec

LEMMA IdsCapped ==
    ASSUME IInv
    PROVE  Cardinality(memberIds) \in Nat /\ Cardinality(memberIds) <= GrantCap
<1>1. PICK ids \in SUBSET MemberIds : ids = memberIds
    BY DEF IInv, Typed
<1>2. Cardinality(ids) \in Nat /\ Cardinality(ids) <= GrantCap
    BY <1>1, FiniteAssumption, FS_Subset, FS_CardinalityType DEF GrantCap
<1>3. QED BY <1>1, <1>2

\* The tables, the requests and the histories keep their types, however many
\* requests overlap and whatever fails.
THEOREM TypeCorrectness == Spec => []TypeOK
<1>1. IInv /\ GInv => TypeOK
    <2> SUFFICES ASSUME IInv, GInv PROVE TypeOK OBVIOUS
    <2>1. req \in [Requests -> Slot]
        BY DEF IInv, SlotOK
    <2>2. granted \in [Invitations -> 0 .. GrantCap]
        BY IdsCapped, Caps DEF GInv, HistoryTyped
    <2>3. QED BY <2>1, <2>2 DEF TypeOK, Slot, IInv, Typed, GInv, HistoryTyped
<1>2. QED BY <1>1, HistoriesHold, PTL

\* One invitation grants at most as many memberships as requests overlap,
\* plus one for each acceptance that died between storing the membership and
\* marking the invitation used (acceptInvitation).
THEOREM GrantsAreBounded == Spec => []GrantsBounded
<1>1. IInv /\ GInv => GrantsBounded
    <2> SUFFICES ASSUME IInv, GInv, NEW i \in Invitations
                 PROVE  granted[i] <= Cardinality(Requests) + unmarked[i]
        BY DEF GrantsBounded
    <2>1. /\ granted[i] \in Nat /\ unmarked[i] \in 0 .. UnmarkedCap
          /\ granted[i] <= Cardinality(memberIds) /\ GrantsCovered(i)
        BY DEF GInv, HistoryTyped
    <2>2. granted[i] <= GrantCap
        BY <2>1, IdsCapped, Caps
    <2>3. CASE unmarked[i] = UnmarkedCap
        BY <2>1, <2>2, <2>3, Caps
    <2>4. CASE granted[i] + Cardinality(Accepting("join", i))
                   <= Cardinality(Requests) + unmarked[i]
        BY <2>1, <2>4, AcceptingFinite, Caps
    <2>5. QED BY <2>1, <2>3, <2>4 DEF GrantsCovered
<1>2. QED BY <1>1, HistoriesHold, PTL
=============================================================================
