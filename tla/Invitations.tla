---------------------------- MODULE Invitations ----------------------------
(***************************************************************************)
(* The members of a workspace and its invitations: inviteMember,           *)
(* resendInvitation, acceptInvitation, rejectInvitation, updateMemberRole, *)
(* removeMember and deleteWorkspace of WorkspacesService, each with its    *)
(* validator.  A request validates in one step and then writes; what it    *)
(* validated may no longer hold.                                           *)
(*                                                                         *)
(* A user and his email address are one: the user may exist or not, and    *)
(* inviting an unknown address makes a shadow user for it.                 *)
(***************************************************************************)
EXTENDS Naturals, FiniteSets

CONSTANTS
    Users,      \* email addresses, and the users that have them
    Owner,      \* the owner of the workspace
    Limits,     \* the values of plans.maxSeats
    MaxTokens,  \* bounds how many invitation tokens are issued
    Requests,   \* requests that can be in progress at once
    None

ASSUME InvitationConstants ==
    /\ Owner \in Users
    /\ Limits \subseteq Nat
    /\ MaxTokens \in Nat
    /\ IsFiniteSet(Requests)
    /\ None \notin Users \union Nat \union {"OWNER", "MANAGER", "MEMBER"}

VARIABLES
    account,     \* table users: "none", "shadow" or "active"
    seats,       \* maxSeats of the owner's plan
    open,        \* whether the workspace exists
    member,      \* table workspace_members: the role of each member
    invitation,  \* table workspace_invitations, by email
    issued,      \* how many tokens were issued; a token is a number
    inbox,       \* tokens in the invitee's inbox
    mailed,      \* tokens handed to the email queue
    request,     \* requests inside WorkspacesService
    lost,        \* history variable: tokens whose request failed half-way
    joins        \* history variable: how often each invitation made a member

tables == <<account, open, member, invitation>>
history == <<lost, joins>>
vars == <<account, seats, open, member, invitation, issued, inbox, mailed, request,
          lost, joins>>

-----------------------------------------------------------------------------

\* "MEMBER" stands for READ_ONLY too: nothing here tells them apart.
Roles == {"OWNER", "MANAGER", "MEMBER"}

\* The roles an invitation may carry, and a member may be given.
GrantedRoles == Roles \ {"OWNER"}

Tokens == 1..MaxTokens

InvitationRow ==
    [token : Tokens, role : GrantedRoles, status : {"PENDING", "ACCEPTED", "REJECTED"},
     accepted : BOOLEAN, rejected : BOOLEAN, expired : BOOLEAN]

ASSUME RowsAreRows == None \notin InvitationRow

Ops == {"invite", "resend", "accept", "reject", "role", "remove", "delete"}

RequestRecord ==
    [pc : {"idle", "valid", "unknown", "known", "stored", "told"}, op : Ops \union {None},
     email : Users \union {None}, role : GrantedRoles \union {None}, token : Tokens \union {None}]

Idle == [pc |-> "idle", op |-> None, email |-> None, role |-> None, token |-> None]

TypeOK ==
    /\ account \in [Users -> {"none", "shadow", "active"}]
    /\ seats \in Limits
    /\ open \in BOOLEAN
    /\ member \in [Users -> Roles \union {None}]
    /\ invitation \in [Users -> InvitationRow \union {None}]
    /\ issued \in 0..MaxTokens
    /\ inbox \subseteq Tokens
    /\ mailed \subseteq Tokens
    /\ request \in [Requests -> RequestRecord]
    /\ lost \subseteq Tokens
    /\ joins \in [Users -> Nat]

Members == {u \in Users : member[u] # None}

Init ==
    /\ account \in [Users -> {"none", "active"}]
    /\ account[Owner] = "active"
    /\ seats \in Limits
    /\ open = TRUE
    /\ member = [u \in Users |-> IF u = Owner THEN "OWNER" ELSE None]
    /\ invitation = [u \in Users |-> None]
    /\ issued = 0
    /\ inbox = {}
    /\ mailed = {}
    /\ request = [q \in Requests |-> Idle]
    /\ lost = {}
    /\ joins = [u \in Users |-> 0]

-----------------------------------------------------------------------------
(* What the validators ask                                                  *)

CanManageTeam(u) == u = Owner \/ member[u] = "MANAGER"

\* findByWorkspaceAndEmail: a rejected invitation is still found, an expired or
\* accepted one is not.
Pending(e) == invitation[e] # None /\ ~invitation[e].accepted /\ ~invitation[e].expired

\* The owner has a row in workspace_members and is counted again.
SeatsTaken == Cardinality(Members) + 1

Start(q, op, e, role, token) ==
    /\ request[q].pc = "idle"
    /\ request' = [request EXCEPT ![q] =
          [pc |-> "valid", op |-> op, email |-> e, role |-> role, token |-> token]]
    /\ UNCHANGED <<tables, seats, issued, inbox, mailed, history>>

Finish(q) == request' = [request EXCEPT ![q] = Idle]

\* The request throws before it wrote anything that others see.
Fail(q) ==
    /\ Finish(q)
    /\ UNCHANGED <<tables, seats, issued, inbox, mailed, history>>

-----------------------------------------------------------------------------
(* inviteMember                                                             *)

ValidateInvite(q, u, e, role) ==
    /\ open
    /\ account[u] = "active"
    /\ CanManageTeam(u)
    /\ SeatsTaken < seats
    /\ e \notin Members
    /\ ~Pending(e)
    /\ Start(q, "invite", e, role, None)

\* findByEmail
FindInvitee(q) ==
    LET known == account[request[q].email] # "none"
    IN  /\ request[q].pc = "valid"
        /\ request[q].op = "invite"
        /\ request' = [request EXCEPT ![q].pc = IF known THEN "known" ELSE "unknown"]
        /\ UNCHANGED <<tables, seats, issued, inbox, mailed, history>>

\* createShadowUser throws if the address has got a user meanwhile.
CreateShadowUser(q) ==
    LET e == request[q].email
    IN  /\ request[q].pc = "unknown"
        /\ account[e] = "none"
        /\ account' = [account EXCEPT ![e] = "shadow"]
        /\ request' = [request EXCEPT ![q].pc = "known"]
        /\ UNCHANGED <<open, member, invitation, seats, issued, inbox, mailed, history>>

\* Mutation of NewInvitation: the status is not the enum's.
NewInvitationLowerCase(role) ==
    [token |-> issued + 1, role |-> role, status |-> "pending",
     accepted |-> FALSE, rejected |-> FALSE, expired |-> FALSE]

NewInvitation(role) ==
    [token |-> issued + 1, role |-> role, status |-> "PENDING",
     accepted |-> FALSE, rejected |-> FALSE, expired |-> FALSE]

StoreInvitation(q) ==
    LET e == request[q].email
    IN  /\ request[q].pc = "known"
        /\ open
        /\ issued < MaxTokens
        /\ invitation[e] = None
        /\ invitation' = [invitation EXCEPT ![e] = NewInvitation(request[q].role)]
        /\ issued' = issued + 1
        /\ request' = [request EXCEPT ![q].pc = "stored", ![q].token = issued + 1]
        /\ UNCHANGED <<account, open, member, seats, inbox, mailed, history>>

\* The unique key (workspaceId, email): create throws whatever became of the row, also
\* for a member who accepted it and was removed since.
RefuseSecondInvitation(q) ==
    LET e == request[q].email
    IN  /\ request[q].pc = "known"
        /\ invitation[e] # None
        /\ Fail(q)

-----------------------------------------------------------------------------
(* resendInvitation                                                         *)

ValidateResend(q, u, e) ==
    /\ open
    /\ account[u] = "active"
    /\ CanManageTeam(u)
    /\ Pending(e)
    /\ Start(q, "resend", e, None, None)

\* Mutation of UpdateToken: the token that was replaced is sent.
UpdateTokenSendsOld(q) ==
    LET e == request[q].email
    IN  /\ request[q].pc = "valid"
        /\ request[q].op = "resend"
        /\ invitation[e] # None
        /\ issued < MaxTokens
        /\ invitation' = [invitation EXCEPT ![e].token = issued + 1, ![e].expired = FALSE]
        /\ issued' = issued + 1
        /\ request' = [request EXCEPT ![q].pc = "stored", ![q].token = invitation[e].token]
        /\ UNCHANGED <<account, open, member, seats, inbox, mailed, history>>

\* updateToken, by the row's id.  (The findByEmail that follows finds the user, see
\* CurrentTokenIsOnItsWay.)
UpdateToken(q) ==
    LET e == request[q].email
    IN  /\ request[q].pc = "valid"
        /\ request[q].op = "resend"
        /\ invitation[e] # None
        /\ issued < MaxTokens
        /\ invitation' = [invitation EXCEPT ![e].token = issued + 1, ![e].expired = FALSE]
        /\ issued' = issued + 1
        /\ request' = [request EXCEPT ![q].pc = "stored", ![q].token = issued + 1]
        /\ UNCHANGED <<account, open, member, seats, inbox, mailed, history>>

\* The inbox message, then the email, of either operation.
CreateInboxMessage(q) ==
    /\ request[q].pc = "stored"
    /\ inbox' = inbox \union {request[q].token}
    /\ request' = [request EXCEPT ![q].pc = "told"]
    /\ UNCHANGED <<tables, seats, issued, mailed, history>>

SendWorkspaceInvitation(q) ==
    /\ request[q].pc = "told"
    /\ mailed' = mailed \union {request[q].token}
    /\ Finish(q)
    /\ UNCHANGED <<tables, seats, issued, inbox, history>>

-----------------------------------------------------------------------------
(* acceptInvitation, rejectInvitation                                       *)

\* Someone opens a link that was sent to him.
Holds(u, token) == token \in inbox \union mailed /\ invitation[u] # None /\ invitation[u].token = token

\* Mutation of ValidateAccept: without the check of acceptedAt.
ValidateAcceptAgain(q, u, token) ==
    /\ account[u] = "active"
    /\ Holds(u, token)
    /\ ~invitation[u].expired
    /\ u \notin Members
    /\ Start(q, "accept", u, invitation[u].role, token)

ValidateAccept(q, u, token) ==
    /\ account[u] = "active"
    /\ Holds(u, token)
    /\ ~invitation[u].accepted
    /\ ~invitation[u].expired
    /\ u \notin Members
    /\ Start(q, "accept", u, invitation[u].role, token)

ValidateReject(q, u, token) ==
    /\ account[u] = "active"
    /\ Holds(u, token)
    /\ ~invitation[u].accepted
    /\ ~invitation[u].rejected
    /\ ~invitation[u].expired
    /\ Start(q, "reject", u, None, token)

\* Mutation of HasToken: the row is looked up by its id.
HasRow(q) == invitation[request[q].email] # None

\* Both write by token: the row must still have it.
HasToken(q) ==
    LET e == request[q].email
    IN  invitation[e] # None /\ invitation[e].token = request[q].token

\* The row stays, accepted.
AcceptInvitationAndCreateMember(q) ==
    LET e == request[q].email
    IN  /\ request[q].pc = "valid"
        /\ request[q].op = "accept"
        /\ HasToken(q)
        /\ e \notin Members
        /\ invitation' = [invitation EXCEPT ![e].accepted = TRUE, ![e].status = "ACCEPTED"]
        /\ member' = [member EXCEPT ![e] = request[q].role]
        /\ joins' = [joins EXCEPT ![e] = @ + 1]
        /\ Finish(q)
        /\ UNCHANGED <<account, open, seats, issued, inbox, mailed, lost>>

MarkAsRejected(q) ==
    LET e == request[q].email
    IN  /\ request[q].pc = "valid"
        /\ request[q].op = "reject"
        /\ HasToken(q)
        /\ invitation' = [invitation EXCEPT ![e].rejected = TRUE, ![e].status = "REJECTED"]
        /\ Finish(q)
        /\ UNCHANGED <<account, open, member, seats, issued, inbox, mailed, history>>

-----------------------------------------------------------------------------
(* updateMemberRole, removeMember, deleteWorkspace                          *)

\* Only the owner gives roles, never his own, and never the role OWNER.
ValidateUpdateRole(q, u, role) ==
    /\ open
    /\ u \in Members \ {Owner}
    /\ Start(q, "role", u, role, None)

UpdateRole(q) ==
    /\ request[q].pc = "valid"
    /\ request[q].op = "role"
    /\ request[q].email \in Members
    /\ member' = [member EXCEPT ![request[q].email] = request[q].role]
    /\ Finish(q)
    /\ UNCHANGED <<account, open, invitation, seats, issued, inbox, mailed, history>>

\* The owner or a manager removes a member, or a member leaves.
\* Mutation of ValidateRemove: the owner may be removed.
ValidateRemoveAnyone(q, u, target) ==
    /\ open
    /\ account[u] = "active"
    /\ CanManageTeam(u) \/ u = target
    /\ target \in Members
    /\ Start(q, "remove", target, None, None)

ValidateRemove(q, u, target) ==
    /\ open
    /\ account[u] = "active"
    /\ CanManageTeam(u) \/ u = target
    /\ target \in Members \ {Owner}
    /\ Start(q, "remove", target, None, None)

Remove(q) ==
    /\ request[q].pc = "valid"
    /\ request[q].op = "remove"
    /\ request[q].email \in Members
    /\ member' = [member EXCEPT ![request[q].email] = None]
    /\ Finish(q)
    /\ UNCHANGED <<account, open, invitation, seats, issued, inbox, mailed, history>>

ValidateDelete(q) ==
    /\ open
    /\ Start(q, "delete", None, None, None)

\* The members and invitations go with the workspace (onDelete: Cascade).
Delete(q) ==
    /\ request[q].pc = "valid"
    /\ request[q].op = "delete"
    /\ open
    /\ open' = FALSE
    /\ member' = [u \in Users |-> None]
    /\ invitation' = [u \in Users |-> None]
    /\ Finish(q)
    /\ UNCHANGED <<account, seats, issued, inbox, mailed, history>>

-----------------------------------------------------------------------------
(* The rest of the world                                                    *)

\* A row, or the right to write it, is gone; the database or Redis throws; or the
\* process dies.  What was stored stays, and its token may have reached nobody.
RequestFails(q) ==
    /\ request[q].pc # "idle"
    /\ lost' = IF request[q].pc = "stored" THEN lost \union {request[q].token} ELSE lost
    /\ Finish(q)
    /\ UNCHANGED <<tables, seats, issued, inbox, mailed, joins>>

\* Someone registers, or activates the shadow user made for him (see module Accounts).
Register(u) ==
    /\ account[u] # "active"
    /\ account' = [account EXCEPT ![u] = "active"]
    /\ UNCHANGED <<open, member, invitation, seats, issued, inbox, mailed, request, history>>

\* The seven days of an invitation pass.
Expire(e) ==
    /\ invitation[e] # None
    /\ ~invitation[e].expired
    /\ invitation' = [invitation EXCEPT ![e].expired = TRUE]
    /\ UNCHANGED <<account, open, member, seats, issued, inbox, mailed, request, history>>

PlanChanges(n) ==
    /\ n # seats
    /\ seats' = n
    /\ UNCHANGED <<tables, issued, inbox, mailed, request, history>>

-----------------------------------------------------------------------------

Invite(q) ==
    \/ \E u, e \in Users, role \in GrantedRoles : ValidateInvite(q, u, e, role)
    \/ FindInvitee(q)
    \/ CreateShadowUser(q)
    \/ StoreInvitation(q)
    \/ RefuseSecondInvitation(q)

Resend(q) ==
    \/ \E u, e \in Users : ValidateResend(q, u, e)
    \/ UpdateToken(q)

Tell(q) ==
    \/ CreateInboxMessage(q)
    \/ SendWorkspaceInvitation(q)

Answer(q) ==
    \/ \E u \in Users, token \in Tokens : ValidateAccept(q, u, token)
    \/ \E u \in Users, token \in Tokens : ValidateReject(q, u, token)
    \/ AcceptInvitationAndCreateMember(q)
    \/ MarkAsRejected(q)

Manage(q) ==
    \/ \E u \in Users, role \in GrantedRoles : ValidateUpdateRole(q, u, role)
    \/ UpdateRole(q)
    \/ \E u, target \in Users : ValidateRemove(q, u, target)
    \/ Remove(q)
    \/ ValidateDelete(q)
    \/ Delete(q)

Next ==
    \/ \E q \in Requests : Invite(q) \/ Resend(q) \/ Tell(q) \/ Answer(q) \/ Manage(q)
    \/ \E q \in Requests : RequestFails(q)
    \/ \E u \in Users : Register(u) \/ Expire(u)
    \/ \E n \in Limits : PlanChanges(n)

Spec == Init /\ [][Next]_vars

-----------------------------------------------------------------------------
(* Properties                                                               *)

\* While the workspace exists its owner is a member with role OWNER, and nobody else
\* ever has that role, whatever invitations, role changes and removals overlap.
OneOwner ==
    /\ open => member[Owner] = "OWNER"
    /\ \A u \in Members \ {Owner} : member[u] # "OWNER"

\* Who becomes a member of the workspace has a user, and an invitation whose token, as
\* it is then, was sent to him, and gets the role it offers: no link that a resend has
\* replaced, and no request that outlived the workspace, lets him in.
NewMembersAreInvited ==
    [][\A u \in Users : u \notin Members /\ u \in Members' =>
          /\ open
          /\ account[u] = "active"
          /\ invitation[u] # None
          /\ invitation[u].token \in inbox \union mailed
          /\ member'[u] = invitation[u].role]_vars

\* The invitee has a user, and the token his invitation can be answered with has
\* reached him, or a request is about to send it, or that request failed: no other
\* resend, nor its order, leaves him with dead links only.
CurrentTokenIsOnItsWay ==
    \A u \in Users : invitation[u] # None =>
        /\ account[u] # "none"
        /\ \/ invitation[u].token \in inbox \union lost
           \/ \E q \in Requests : request[q].pc = "stored" /\ request[q].token = invitation[u].token

\* The comment on validateAcceptInvitation, "Check if invitation is already
\* accepted": an invitation is used up by accepting it, also for a member who is
\* removed later, except by the requests that had read it before.
JoinsAreBounded(most) == \A u \in Users : joins[u] <= most

\* The same comment on validateRejectInvitation: with one request at a time no
\* invitation of a member, if there is one, is REJECTED.
MembersDidNotReject ==
    \A u \in Members \ {Owner} : invitation[u] # None => invitation[u].status # "REJECTED"

\* The comment on acceptInvitation, "adds user as member and deletes invitation".
AcceptanceDeletesInvitation ==
    [][\A u \in Users : u \notin Members /\ u \in Members' => invitation'[u] = None]_vars

=============================================================================
