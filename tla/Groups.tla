------------------------------- MODULE Groups -------------------------------
(***************************************************************************)
(* Groups and their members.  Deleting a group deletes its memberships     *)
(* first, since the foreign key does not cascade.  Accounts are never      *)
(* deleted, only disabled, which nothing here reads.                       *)
(***************************************************************************)
EXTENDS Requests

CONSTANTS
    User,  \* user ids
    Group  \* group ids, each issued at most once

ASSUME GroupsConstantsOK == Nothing \notin User \cup Group

VARIABLES
    enrolled, \* users
    group,    \* groups
    member,   \* group_memberships
    desk      \* handlers between their read and their commit

groupVars == <<enrolled, group, member, desk>>

-----------------------------------------------------------------------------
Members(g) == {u \in User : <<u, g>> \in member}
Free == [call |-> "none", user |-> Nothing, group |-> Nothing, rows |-> {}]

GroupsTypeOK ==
    /\ enrolled \in SUBSET User
    /\ group \in [Group -> {"none", "there", "gone"}]
    /\ member \in SUBSET (User \X Group)
    /\ desk \in [Client -> [call : {"none", "join", "disband"}, user : User \cup {Nothing},
                            group : Group \cup {Nothing}, rows : SUBSET User]]

GroupsInit ==
    /\ enrolled = {}
    /\ group = [g \in Group |-> "none"]
    /\ member = {}
    /\ desk = [c \in Client |-> Free]

-----------------------------------------------------------------------------
UserEnrolled(u) ==
    /\ enrolled' = enrolled \cup {u}
    /\ UNCHANGED <<group, member, desk>>

GroupCreated(g) ==
    /\ group[g] = "none"
    /\ group' = [group EXCEPT ![g] = "there"]
    /\ UNCHANGED <<enrolled, member, desk>>

Waits(c, call, u, g, rows) ==
    /\ desk[c] = Free
    /\ desk' = [desk EXCEPT ![c] = [call |-> call, user |-> u, group |-> g, rows |-> rows]]
    /\ UNCHANGED <<enrolled, group, member>>

Answered(c) ==
    /\ desk' = [desk EXCEPT ![c] = Free]
    /\ UNCHANGED enrolled

\* add_group_member looks neither for the group nor for the user.
JoinReads(c, u, g) ==
    /\ group[g] # "none"
    /\ <<u, g>> \notin member
    /\ Waits(c, "join", u, g, {})

\* The keys a new membership refers to exist, and it does not.
CanJoin(u, g) ==
    /\ <<u, g>> \notin member
    /\ FKEnforced => u \in enrolled /\ group[g] = "there"

JoinCommits(c) ==
    /\ desk[c].call = "join"
    /\ CanJoin(desk[c].user, desk[c].group)
    /\ member' = member \cup {<<desk[c].user, desk[c].group>>}
    /\ Answered(c)
    /\ UNCHANGED group

JoinFails(c) ==
    /\ desk[c].call = "join"
    /\ ~CanJoin(desk[c].user, desk[c].group)
    /\ Answered(c)
    /\ UNCHANGED <<group, member>>

MemberRemoved(u, g) ==
    /\ <<u, g>> \in member
    /\ member' = member \ {<<u, g>>}
    /\ UNCHANGED <<enrolled, group, desk>>

\* delete_group deletes the memberships it finds, then the group.
DisbandReads(c, g) ==
    /\ group[g] = "there"
    /\ Waits(c, "disband", Nothing, g, Members(g))

\* A membership added meanwhile still refers to the group.
Refused(c) == FKEnforced /\ ~(Members(desk[c].group) \subseteq desk[c].rows)

DisbandCommits(c) ==
    /\ desk[c].call = "disband"
    /\ ~Refused(c)
    /\ member' = member \ (desk[c].rows \X {desk[c].group})
    /\ group' = [group EXCEPT ![desk[c].group] = "gone"]
    /\ Answered(c)

\* Mutant of DisbandFails: the memberships were deleted in their own transaction.
DisbandFailsHalfway(c) ==
    /\ desk[c].call = "disband"
    /\ Refused(c)
    /\ member' = member \ (desk[c].rows \X {desk[c].group})
    /\ Answered(c)
    /\ UNCHANGED group

DisbandFails(c) ==
    /\ desk[c].call = "disband"
    /\ Refused(c)
    /\ Answered(c)
    /\ UNCHANGED <<group, member>>

GroupsNext ==
    \/ \E u \in User \ enrolled : UserEnrolled(u)
    \/ \E g \in Group : GroupCreated(g)
    \/ \E u \in User, g \in Group : MemberRemoved(u, g)
    \/ \E c \in Client, u \in User, g \in Group : JoinReads(c, u, g)
    \/ \E c \in Client, g \in Group : DisbandReads(c, g)
    \/ \E c \in Client : JoinCommits(c) \/ JoinFails(c) \/ DisbandCommits(c) \/ DisbandFails(c)

GroupsSpec == GroupsInit /\ [][GroupsNext]_groupVars

-----------------------------------------------------------------------------
\* A member loses a group only by being removed from it or with the whole group:
\* a DELETE of the group that fails takes no one out of it (delete_group).
MembersLeaveOnPurpose ==
    [][\A u \in User, g \in Group : <<u, g>> \in member \ member' =>
          group'[g] = "gone" \/ MemberRemoved(u, g)]_groupVars
=============================================================================
