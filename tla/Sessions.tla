------------------------------ MODULE Sessions ------------------------------
(***************************************************************************)
(* The sessions of one user: AuthService.login, the last steps of the      *)
(* OAuth callbacks and of the MFA challenges, refreshToken, logout, and    *)
(* the hourly cron that deletes expired sessions.                          *)
(*                                                                         *)
(* A refresh token is a JWT of the user's own data and of the second it    *)
(* was signed in, and no key keeps sessions from sharing it: the token is  *)
(* the second.                                                             *)
(***************************************************************************)
EXTENDS Naturals, FiniteSets

CONSTANTS
    MaxRows,   \* bounds how many rows table sessions ever has
    MaxTime,   \* bounds the clock, in seconds
    Requests,  \* requests that can be in progress at once
    None

SessionConstants ==
    /\ MaxRows \in Nat
    /\ MaxTime \in Nat
    /\ None \notin Nat

VARIABLES
    row,      \* table sessions, by id
    rows,     \* how many rows were created
    now,      \* the clock
    request,  \* requests inside AuthService
    ended     \* history variable: logins whose token was presented to logout

vars == <<row, rows, now, request, ended>>

-----------------------------------------------------------------------------

Ids == 1..MaxRows
Seconds == 0..MaxTime

\* login is the id of the row the login created that this row descends from.
Row == [token : Seconds, remember : BOOLEAN, login : Ids, state : {"live", "expired", "deleted"}]

RowsAreRows == None \notin Row

\* What a request still has to do: create a row, after deleting those of its token.
RequestRecord ==
    [pc : {"idle", "delete", "create"}, token : Seconds \union {None},
     remember : BOOLEAN \union {None}, login : Ids \union {None}]

Idle == [pc |-> "idle", token |-> None, remember |-> None, login |-> None]

TypeOK ==
    /\ row \in [Ids -> Row \union {None}]
    /\ rows \in 0..MaxRows
    /\ now \in Seconds
    /\ request \in [Requests -> RequestRecord]
    /\ ended \subseteq Ids

Init ==
    /\ row = [i \in Ids |-> None]
    /\ rows = 0
    /\ now = 0
    /\ request = [q \in Requests |-> Idle]
    /\ ended = {}

Exists(i) == row[i] # None /\ row[i].state # "deleted"

RowsWith(t)    == {i \in Ids : Exists(i) /\ row[i].token = t}
RowsOfLogin(l) == {i \in Ids : Exists(i) /\ row[i].login = l}

-----------------------------------------------------------------------------

\* login, an OAuth callback, challengeMfa or consumeBackupCode has found the user to
\* be who he says.
ValidateLogin(q, remember) ==
    /\ request[q].pc = "idle"
    /\ request' = [request EXCEPT ![q] =
          [pc |-> "create", token |-> None, remember |-> remember, login |-> None]]
    /\ UNCHANGED <<row, rows, now, ended>>

\* Mutation of MayRefresh: a token is good because it was signed once.
MayRefreshSigned(i) == row[i] # None

MayRefresh(i) == row[i] # None /\ row[i].state = "live"

\* findSessionByRefreshToken finds one of the rows of the token.
ValidateRefreshToken(q, i) ==
    /\ request[q].pc = "idle"
    /\ MayRefresh(i)
    /\ request' = [request EXCEPT ![q] =
          [pc |-> "delete", token |-> row[i].token,
           remember |-> row[i].remember, login |-> row[i].login]]
    /\ UNCHANGED <<row, rows, now, ended>>

Delete(ids) ==
    [i \in Ids |-> IF i \in ids THEN [row[i] EXCEPT !.state = "deleted"] ELSE row[i]]

\* Mutation of DeleteSessions: a session to be remembered is kept.
DeleteForgotten(q) ==
    /\ request[q].pc = "delete"
    /\ row' = IF request[q].remember THEN row ELSE Delete(RowsWith(request[q].token))
    /\ request' = [request EXCEPT ![q].pc = "create"]
    /\ UNCHANGED <<rows, now, ended>>

\* deleteMany: it does not fail when there is nothing to delete any more.
DeleteSessions(q) ==
    /\ request[q].pc = "delete"
    /\ row' = Delete(RowsWith(request[q].token))
    /\ request' = [request EXCEPT ![q].pc = "create"]
    /\ UNCHANGED <<rows, now, ended>>

\* generateTokens and createSession.
CreateSession(q) ==
    LET id == rows + 1
    IN  /\ request[q].pc = "create"
        /\ id <= MaxRows
        /\ row' = [row EXCEPT ![id] =
              [token |-> now, remember |-> request[q].remember, state |-> "live",
               login |-> IF request[q].login = None THEN id ELSE request[q].login]]
        /\ rows' = id
        /\ request' = [request EXCEPT ![q] = Idle]
        /\ UNCHANGED <<now, ended>>

\* logout validates the form of the token and deletes its rows: one write, one step.
Logout(q, t) ==
    /\ request[q].pc = "idle"
    /\ row' = Delete(RowsWith(t))
    /\ ended' = ended \union {row[i].login : i \in RowsWith(t)}
    /\ UNCHANGED <<rows, now, request>>

\* The database throws, or the process dies between two steps.
RequestFails(q) ==
    /\ request[q].pc # "idle"
    /\ request' = [request EXCEPT ![q] = Idle]
    /\ UNCHANGED <<row, rows, now, ended>>

Tick ==
    /\ now < MaxTime
    /\ now' = now + 1
    /\ UNCHANGED <<row, rows, request, ended>>

\* After a day, or after thirty for one who asked to be remembered.
SessionExpires(i) ==
    /\ row[i] # None
    /\ row[i].state = "live"
    /\ row' = [row EXCEPT ![i].state = "expired"]
    /\ UNCHANGED <<rows, now, request, ended>>

Expired(i) == row[i] # None /\ row[i].state = "expired"

\* CleanupExpiredSessionsCron, every hour.
DeleteExpiredSessions ==
    /\ \E i \in Ids : Expired(i)
    /\ row' = Delete({i \in Ids : Expired(i)})
    /\ UNCHANGED <<rows, now, request, ended>>

\* login, and the OAuth callbacks of a user without two-factor authentication.
Login(q) ==
    \/ \E remember \in BOOLEAN : ValidateLogin(q, remember)
    \/ CreateSession(q)

RefreshToken(q) ==
    \/ \E i \in Ids : ValidateRefreshToken(q, i)
    \/ DeleteSessions(q)

Request(q) ==
    \/ Login(q)
    \/ RefreshToken(q)
    \/ \E t \in Seconds : Logout(q, t)
    \/ RequestFails(q)

Next ==
    \/ \E q \in Requests : Request(q)
    \/ Tick
    \/ \E i \in Ids : SessionExpires(i)
    \/ DeleteExpiredSessions

Spec == Init /\ [][Next]_vars

-----------------------------------------------------------------------------
(* Properties                                                               *)

\* A login lives on in its sessions, and in the requests that are refreshing one.
Alive(l) == RowsOfLogin(l) # {} \/ \E q \in Requests : request[q].login = l

\* However logout, the refreshing of tokens and the cron overlap, a login that lost
\* its last session stays lost: no token of it makes another.
DeadLoginsStayDead == [][\A l \in 1..rows : ~Alive(l) => ~Alive(l)']_vars

\* refreshToken deletes and creates in two calls; with one request at a time it
\* replaces a session, so a login never has two.
OneSessionPerLogin == \A l \in Ids : Cardinality(RowsOfLogin(l)) <= 1

\* logout, "Invalidate refresh token (logout)": with one request at a time it ends
\* the login for good, and all that share the token.
LogoutEndsLogin ==
    (\A q \in Requests : request[q].pc = "idle") => \A l \in ended : RowsOfLogin(l) = {}

=============================================================================
