------------------------------ MODULE Accounts ------------------------------
(***************************************************************************)
(* How a user comes to have an account: AuthService.register, the OAuth    *)
(* callbacks, verifyEmail, resendVerification, requestPasswordReset,       *)
(* confirmPasswordReset and changePassword with their validators, and the  *)
(* hourly cron that deletes expired verification requests.  (Logins and    *)
(* their sessions are in module Sessions.)                                 *)
(*                                                                         *)
(* A request validates in one step and then writes; the only transactions  *)
(* are the three of UserRepository that make or activate a user with his   *)
(* workspace and subscription.                                             *)
(***************************************************************************)
EXTENDS Naturals, FiniteSets

CONSTANTS
    Users,      \* email addresses, and the users that have them
    Passwords,
    MaxTokens,  \* bounds how many verification tokens are issued
    Requests,   \* requests that can be in progress at once
    None

ASSUME AccountConstants ==
    /\ MaxTokens \in Nat
    /\ IsFiniteSet(Requests)
    /\ None \notin Users \union Passwords \union Nat \union {"none", "INVITED"}

VARIABLES
    account,    \* tables users, local_auth_accounts and oauth_accounts
    onboarded,  \* how many workspaces and subscriptions registration made for a user
    row,        \* table verification_requests, by token
    issued,     \* how many tokens were issued; a token is a number
    mailed,     \* tokens handed to the email queue
    request,    \* requests inside AuthService
    lost,       \* history variable: tokens whose request failed half-way
    used,       \* history variable: tokens that set a password
    again       \* history variable: tokens that set a second one

tables == <<account, onboarded, row, issued>>
history == <<lost, used, again>>
vars == <<account, onboarded, row, issued, mailed, request, lost, used, again>>

-----------------------------------------------------------------------------

Tokens == 1..MaxTokens

Types == {"EMAIL_VERIFICATION", "PASSWORD_RESET"}

\* "none" is no user; INVITED is a shadow user, made for an invitation.
Statuses == {"none", "INVITED", "INACTIVE", "ACTIVE"}

AccountRow ==
    [status : Statuses, verified : BOOLEAN, password : Passwords \union {None}, linked : BOOLEAN]

NoAccount == [status |-> "none", verified |-> FALSE, password |-> None, linked |-> FALSE]

VerificationRow == [user : Users, type : Types, expired : BOOLEAN]

ASSUME RowsAreRows == None \notin VerificationRow

Ops == {"register", "oauth", "resend", "forgot", "verify", "reset", "change"}

\* seen is what validation read and a later write still goes by: the status of the
\* user for "register" and "oauth", his password for "reset".
RequestRecord ==
    [pc : {"idle", "valid", "deleted", "stored", "written"}, op : Ops \union {None},
     user : Users \union {None}, token : Tokens \union {None},
     seen : Statuses \union Passwords \union {None}, new : Passwords \union {None}]

Idle == [pc |-> "idle", op |-> None, user |-> None, token |-> None,
         seen |-> None, new |-> None]

TypeOK ==
    /\ account \in [Users -> AccountRow]
    /\ onboarded \in [Users -> Nat]
    /\ row \in [Tokens -> VerificationRow \union {None}]
    /\ issued \in 0..MaxTokens
    /\ mailed \subseteq Tokens
    /\ request \in [Requests -> RequestRecord]
    /\ lost \subseteq Tokens
    /\ used \subseteq Tokens
    /\ again \subseteq Tokens

Init ==
    /\ account = [u \in Users |-> NoAccount]
    /\ onboarded = [u \in Users |-> 0]
    /\ row = [t \in Tokens |-> None]
    /\ issued = 0
    /\ mailed = {}
    /\ request = [q \in Requests |-> Idle]
    /\ lost = {}
    /\ used = {}
    /\ again = {}

\* Mutation of TypeOf: the type is the name of the operation.
TypeOfOp(op) == op

TypeOf(op) == IF op \in {"forgot", "reset"} THEN "PASSWORD_RESET" ELSE "EMAIL_VERIFICATION"

RowsOf(u, type) == {t \in Tokens : row[t] # None /\ row[t].user = u /\ row[t].type = type}

Start(q, op, u, t, seen, new) ==
    /\ request[q].pc = "idle"
    /\ request' = [request EXCEPT ![q] =
          [pc |-> "valid", op |-> op, user |-> u, token |-> t, seen |-> seen, new |-> new]]
    /\ UNCHANGED <<tables, mailed, history>>

-----------------------------------------------------------------------------
(* register                                                                 *)

ValidateRegister(q, u, p) ==
    /\ account[u].status \in {"none", "INVITED"}
    /\ Start(q, "register", u, None, account[u].status, p)

\* createUserWithWorkspaceAndSubscription, for an address nobody has: the unique
\* key of users.email refuses a second row.
CreateUser(q) ==
    LET u == request[q].user
    IN  /\ request[q].pc = "valid"
        /\ request[q].op = "register"
        /\ request[q].seen = "none"
        /\ account[u].status = "none"
        /\ issued < MaxTokens
        /\ account' = [account EXCEPT ![u] =
              [status |-> "INACTIVE", verified |-> FALSE, password |-> request[q].new, linked |-> FALSE]]
        /\ onboarded' = [onboarded EXCEPT ![u] = @ + 1]
        /\ row' = [row EXCEPT ![issued + 1] =
              [user |-> u, type |-> "EMAIL_VERIFICATION", expired |-> FALSE]]
        /\ issued' = issued + 1
        /\ request' = [request EXCEPT ![q].pc = "stored", ![q].token = issued + 1]
        /\ UNCHANGED <<mailed, history>>

\* Mutation of HasNoPassword: a password the user has is replaced.
HasNoPasswordOrReplaced(u) == account[u].password \in Passwords \union {None}

\* The unique key of local_auth_accounts.userId.
HasNoPassword(u) == account[u].password = None

\* activateShadowUserWithWorkspaceAndSubscription looks at the id alone: not whether
\* the user is still INVITED.
ActivateShadowUser(q) ==
    LET u == request[q].user
    IN  /\ request[q].pc = "valid"
        /\ request[q].op = "register"
        /\ request[q].seen = "INVITED"
        /\ HasNoPassword(u)
        /\ account' = [account EXCEPT ![u] =
              [@ EXCEPT !.status = "ACTIVE", !.verified = TRUE, !.password = request[q].new]]
        /\ onboarded' = [onboarded EXCEPT ![u] = @ + 1]
        /\ request' = [request EXCEPT ![q] = Idle]
        /\ UNCHANGED <<row, issued, mailed, history>>

\* inviteMember makes a shadow user for an address that has none.
CreateShadowUser(u) ==
    /\ account[u].status = "none"
    /\ account' = [account EXCEPT ![u].status = "INVITED"]
    /\ UNCHANGED <<onboarded, row, issued, mailed, request, history>>

-----------------------------------------------------------------------------
(* handleGoogleCallback and handleGitHubCallback, which do the same.  The   *)
(* callback of a user who is linked already only refreshes his tokens.      *)

FindOAuthAccount(q, u) ==
    /\ ~account[u].linked
    /\ Start(q, "oauth", u, None, account[u].status, None)

\* A user found by his address is linked whatever his status, and stays as he is.
LinkOAuthAccount(q) ==
    LET u == request[q].user
    IN  /\ request[q].pc = "valid"
        /\ request[q].op = "oauth"
        /\ request[q].seen # "none"
        /\ ~account[u].linked
        /\ account' = [account EXCEPT ![u].linked = TRUE]
        /\ request' = [request EXCEPT ![q] = Idle]
        /\ UNCHANGED <<onboarded, row, issued, mailed, history>>

CreateOAuthUser(q) ==
    LET u == request[q].user
    IN  /\ request[q].pc = "valid"
        /\ request[q].op = "oauth"
        /\ request[q].seen = "none"
        /\ account[u].status = "none"
        /\ account' = [account EXCEPT ![u] =
              [status |-> "ACTIVE", verified |-> TRUE, password |-> None, linked |-> TRUE]]
        /\ onboarded' = [onboarded EXCEPT ![u] = @ + 1]
        /\ request' = [request EXCEPT ![q] = Idle]
        /\ UNCHANGED <<row, issued, mailed, history>>

-----------------------------------------------------------------------------
(* resendVerification and requestPasswordReset: delete, create, mail        *)

ValidateResendVerification(q, u) ==
    /\ account[u].status # "none"
    /\ ~account[u].verified
    /\ Start(q, "resend", u, None, None, None)

ValidateResetPasswordRequest(q, u) ==
    /\ account[u].status # "none"
    /\ Start(q, "forgot", u, None, None, None)

\* Mutation of DeleteByUserIdAndType: the rows of the other type are deleted.
DeleteByUserIdAndOtherType(q) ==
    LET r == request[q]
        other == CHOOSE type \in Types : type # TypeOf(r.op)
    IN  /\ r.pc = "valid"
        /\ r.op \in {"resend", "forgot"}
        /\ row' = [t \in Tokens |-> IF t \in RowsOf(r.user, other) THEN None ELSE row[t]]
        /\ request' = [request EXCEPT ![q].pc = "deleted"]
        /\ UNCHANGED <<account, onboarded, issued, mailed, history>>

DeleteByUserIdAndType(q) ==
    LET r == request[q]
    IN  /\ r.pc = "valid"
        /\ r.op \in {"resend", "forgot"}
        /\ row' = [t \in Tokens |-> IF t \in RowsOf(r.user, TypeOf(r.op)) THEN None ELSE row[t]]
        /\ request' = [request EXCEPT ![q].pc = "deleted"]
        /\ UNCHANGED <<account, onboarded, issued, mailed, history>>

CreateVerificationRequest(q) ==
    /\ request[q].pc = "deleted"
    /\ issued < MaxTokens
    /\ row' = [row EXCEPT ![issued + 1] =
          [user |-> request[q].user, type |-> TypeOf(request[q].op), expired |-> FALSE]]
    /\ issued' = issued + 1
    /\ request' = [request EXCEPT ![q].pc = "stored", ![q].token = issued + 1]
    /\ UNCHANGED <<account, onboarded, mailed, history>>

SendToken(q) ==
    /\ request[q].pc = "stored"
    /\ mailed' = mailed \union {request[q].token}
    /\ request' = [request EXCEPT ![q] = Idle]
    /\ UNCHANGED <<tables, history>>

-----------------------------------------------------------------------------
(* verifyEmail and confirmPasswordReset: write, then delete the token       *)

Valid(t, type) == row[t] # None /\ ~row[t].expired /\ row[t].type = type

ValidateVerifyEmail(q, t) ==
    /\ t \in mailed
    /\ Valid(t, "EMAIL_VERIFICATION")
    /\ Start(q, "verify", row[t].user, t, None, None)

\* Mutation of VerifiedAccount: only the date is written.
VerifiedAccountDateOnly(a) == [a EXCEPT !.verified = TRUE]

VerifiedAccount(a) == [a EXCEPT !.verified = TRUE, !.status = "ACTIVE"]

VerifyUser(q) ==
    /\ request[q].pc = "valid"
    /\ request[q].op = "verify"
    /\ account' = [account EXCEPT ![request[q].user] = VerifiedAccount(@)]
    /\ request' = [request EXCEPT ![q].pc = "written"]
    /\ UNCHANGED <<onboarded, row, issued, mailed, history>>

ValidateResetPasswordConfirm(q, t, p) ==
    /\ t \in mailed
    /\ Valid(t, "PASSWORD_RESET")
    /\ Start(q, "reset", row[t].user, t, account[row[t].user].password, p)

\* updatePassword for a user who had a password when the token was validated, create
\* for one who had none.
SetPassword(q) ==
    LET u == request[q].user
    IN  /\ request[q].pc = "valid"
        /\ request[q].op = "reset"
        /\ request[q].seen = None => HasNoPassword(u)
        /\ account' = [account EXCEPT ![u].password = request[q].new]
        /\ used' = used \union {request[q].token}
        /\ again' = again \union ({request[q].token} \intersect used)
        /\ request' = [request EXCEPT ![q].pc = "written"]
        /\ UNCHANGED <<onboarded, row, issued, mailed, lost>>

\* Mutation of DeleteByToken: the token of a password reset stays.
DeleteByTokenOfEmails(q) ==
    /\ request[q].pc = "written"
    /\ row' = [row EXCEPT ![request[q].token] = IF request[q].op = "verify" THEN None ELSE @]
    /\ request' = [request EXCEPT ![q] = Idle]
    /\ UNCHANGED <<account, onboarded, issued, mailed, history>>

DeleteByToken(q) ==
    /\ request[q].pc = "written"
    /\ row' = [row EXCEPT ![request[q].token] = None]
    /\ request' = [request EXCEPT ![q] = Idle]
    /\ UNCHANGED <<account, onboarded, issued, mailed, history>>

-----------------------------------------------------------------------------
(* changePassword, of a user who is logged in                               *)

ValidateChangePassword(q, u, p) ==
    /\ account[u].status = "ACTIVE"
    /\ account[u].password # None
    /\ Start(q, "change", u, None, None, p)

UpdatePassword(q) ==
    /\ request[q].pc = "valid"
    /\ request[q].op = "change"
    /\ account' = [account EXCEPT ![request[q].user].password = request[q].new]
    /\ request' = [request EXCEPT ![q] = Idle]
    /\ UNCHANGED <<onboarded, row, issued, mailed, history>>

-----------------------------------------------------------------------------

\* A unique key refuses the write, the database throws or the process dies between
\* two steps.
RequestFails(q) ==
    /\ request[q].pc # "idle"
    /\ request' = [request EXCEPT ![q] = Idle]
    /\ lost' = IF request[q].pc = "written" THEN lost \union {request[q].token} ELSE lost
    /\ UNCHANGED <<tables, mailed, used, again>>

TokenExpires(t) ==
    /\ row[t] # None
    /\ row' = [row EXCEPT ![t].expired = TRUE]
    /\ UNCHANGED <<account, onboarded, issued, mailed, request, history>>

Expired(t) == row[t] # None /\ row[t].expired

\* CleanupExpiredSessionsCron, every hour.
DeleteExpired ==
    /\ \E t \in Tokens : Expired(t)
    /\ row' = [t \in Tokens |-> IF Expired(t) THEN None ELSE row[t]]
    /\ UNCHANGED <<account, onboarded, issued, mailed, request, history>>

Register(q) ==
    \/ \E u \in Users, p \in Passwords : ValidateRegister(q, u, p)
    \/ CreateUser(q)
    \/ ActivateShadowUser(q)

HandleOAuthCallback(q) ==
    \/ \E u \in Users : FindOAuthAccount(q, u)
    \/ LinkOAuthAccount(q)
    \/ CreateOAuthUser(q)

RenewToken(q) ==
    \/ \E u \in Users : ValidateResendVerification(q, u)
    \/ \E u \in Users : ValidateResetPasswordRequest(q, u)
    \/ DeleteByUserIdAndType(q)
    \/ CreateVerificationRequest(q)
    \/ SendToken(q)

VerifyEmail(q) ==
    \/ \E t \in Tokens : ValidateVerifyEmail(q, t)
    \/ VerifyUser(q)

ConfirmPasswordReset(q) ==
    \/ \E t \in Tokens, p \in Passwords : ValidateResetPasswordConfirm(q, t, p)
    \/ SetPassword(q)
    \/ DeleteByToken(q)

ChangePassword(q) ==
    \/ \E u \in Users, p \in Passwords : ValidateChangePassword(q, u, p)
    \/ UpdatePassword(q)

Request(q) ==
    \/ Register(q) \/ HandleOAuthCallback(q)
    \/ RenewToken(q) \/ VerifyEmail(q) \/ ConfirmPasswordReset(q)
    \/ ChangePassword(q) \/ RequestFails(q)

Next ==
    \/ \E q \in Requests : Request(q)
    \/ \E u \in Users : CreateShadowUser(u)
    \/ \E t \in Tokens : TokenExpires(t)
    \/ DeleteExpired

Spec == Init /\ [][Next]_vars

-----------------------------------------------------------------------------
(* Properties                                                               *)

\* However registrations, OAuth callbacks and password resets overlap, a user gets
\* one workspace and one free subscription: the unique keys of users.email and of
\* local_auth_accounts.userId make up for what validateRegister read too early.
OnboardedOnce == \A u \in Users : onboarded[u] <= 1

\* What makes it inductive: a user who is not there, or still
\* INVITED, was not onboarded, nor was a user without a password whom a registration
\* saw INVITED.
OnboardingIsRecorded ==
    \A u \in Users :
        /\ account[u].status = "none" => onboarded[u] = 0 /\ account[u].password = None
        /\ account[u].status = "INVITED" => onboarded[u] = 0

ShadowsWithAPassword ==
    \A q \in Requests :
        /\ request[q].op = "register"
        /\ request[q].seen = "INVITED"
        /\ account[request[q].user].password = None
        => onboarded[request[q].user] = 0

\* login asks for a verified address and the status ACTIVE, the middleware for the
\* status alone: no interleaving leaves one without the other.
ActiveIsVerified == \A u \in Users : account[u].verified <=> account[u].status = "ACTIVE"

\* However resendVerification and requestPasswordReset overlap, which delete and
\* create in two calls, a user has no more links of a type than requests can be in
\* progress: with one request at a time, the newest.
LinksAreBounded ==
    \A u \in Users, type \in Types : Cardinality(RowsOf(u, type)) <= Cardinality(Requests)

\* A link of a password reset sets one password, with one request at a time, unless
\* its request failed between the password and the deletion of the token.
ResetsOnce == again \subseteq lost

=============================================================================
