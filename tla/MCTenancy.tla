----------------------------- MODULE MCTenancy -----------------------------
(* Small instances of Invitations and of Workspaces.  A behaviour is of one  *)
(* of the two, which have no state in common: the other stays as it is.      *)
(*                                                                           *)
(* Invitations: an owner and an invitee, who may become a manager.           *)
(* Workspaces: the names "Foo" and "foo!", which share their slug, and       *)
(* "Foo 2", whose slug is the second number of theirs.                       *)
EXTENDS Invitations, TLC

CONSTANTS Owners, Ids, Names, Stems, Base, MaxWorkspaces, MaxInt, Gone, two, foo

MCBase == [n \in Names |-> IF n = two THEN <<foo, 2>> ELSE <<foo>>]

VARIABLES
    part,   \* which component the behaviour is of
    alone,  \* whether it serves one request at a time
    workspace, limit, most, creation

W == INSTANCE Workspaces WITH
        Users <- Owners, Limits <- MaxWorkspaces, request <- creation

ASSUME TenancyConstants == W!WorkspaceConstants /\ W!RowsAreRows

wvars == <<workspace, limit, most, creation>>
mcvars == <<vars, wvars, part, alone>>

MCInit ==
    /\ alone \in BOOLEAN
    /\ Init
    /\ W!Init
    /\ \/ /\ part = "invitations"
          /\ workspace = [i \in Ids |-> None]
          /\ \A u \in Owners : \A n \in MaxWorkspaces : n <= limit[u]
       \/ /\ part = "workspaces"
          /\ account = [u \in Users |-> "active"]
          /\ \A n \in Limits : n <= seats

InvitationsNext ==
    /\ part = "invitations"
    /\ Next
    /\ alone => Cardinality({q \in Requests : request'[q] # Idle}) <= 1
    /\ UNCHANGED <<part, alone, wvars>>

WorkspacesNext ==
    /\ part = "workspaces"
    /\ W!Next
    /\ alone => Cardinality({q \in Requests : creation'[q] # W!Idle}) <= 1
    /\ UNCHANGED <<part, alone, vars>>

MCNext == InvitationsNext \/ WorkspacesNext

MCSpec == MCInit /\ [][MCNext]_mcvars

Symmetry == Permutations(Requests)

\* See Invitations and Workspaces.
TypesOK == TypeOK /\ W!TypeOK
AnswersAreUsedUp ==
    /\ JoinsAreBounded(IF alone THEN 1 ELSE Cardinality(Requests))
    /\ alone => MembersDidNotReject
OverrunIsBounded == W!OverrunIsBounded
SlugFollowsNameAlone == alone => W!SlugFollowsName

=============================================================================
