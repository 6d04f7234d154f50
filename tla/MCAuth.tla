------------------------------- MODULE MCAuth -------------------------------
(* Small instances of Accounts, of Sessions and of Mfa.  A behaviour is of   *)
(* one of the three, which have no state in common: the others stay as they  *)
(* are.                                                                      *)
EXTENDS Accounts, TLC

CONSTANTS MaxRows, MaxTime, MaxSecrets, MaxBatches, Size, Challenges

VARIABLES
    part,   \* which component the behaviour is of
    alone,  \* whether it serves one request at a time
    session, rows, now, login, ended,
    secret, enabled, secrets, code, batches, challenge, check, confirmed, renewed, granted

S == INSTANCE Sessions WITH row <- session, request <- login
M == INSTANCE Mfa WITH request <- check

ASSUME AuthConstants == S!SessionConstants /\ S!RowsAreRows /\ M!MfaConstants

svars == <<session, rows, now, login, ended>>
mvars == <<secret, enabled, secrets, code, batches, challenge, check, confirmed, renewed, granted>>
mcvars == <<vars, svars, mvars, part, alone>>

MCInit ==
    /\ part \in {"accounts", "sessions", "mfa"}
    /\ alone \in BOOLEAN
    /\ Init
    /\ S!Init
    /\ M!Init

AccountsNext ==
    /\ part = "accounts"
    /\ Next
    /\ alone => Cardinality({q \in Requests : request'[q] # Idle}) <= 1
    /\ UNCHANGED <<part, alone, svars, mvars>>

SessionsNext ==
    /\ part = "sessions"
    /\ S!Next
    /\ alone => /\ Cardinality({q \in Requests : login'[q] # S!Idle}) <= 1
                \* logout, which is one step, waits for its turn as well.
                /\ ended' # ended => \A q \in Requests : login[q] = S!Idle
    /\ UNCHANGED <<part, alone, vars, mvars>>

MfaNext ==
    /\ part = "mfa"
    /\ M!Next
    /\ alone => Cardinality({q \in Requests : check'[q] # M!Idle}) <= 1
    /\ UNCHANGED <<part, alone, vars, svars>>

MCNext == AccountsNext \/ SessionsNext \/ MfaNext

MCSpec == MCInit /\ [][MCNext]_mcvars

Symmetry == Permutations(Requests)

\* No action reads what used and again are for, and ResetsOnce is about requests that
\* are alone.
View == <<part, alone, tables, mailed, request,
          IF alone THEN history ELSE <<>>, svars, mvars>>

\* See Accounts, Sessions and Mfa.
TypesOK == TypeOK /\ S!TypeOK /\ M!TypeOK
ResetsOnceAlone == alone => ResetsOnce
DeadLoginsStayDead == S!DeadLoginsStayDead
LoginsAlone == alone => S!OneSessionPerLogin /\ S!LogoutEndsLogin
CodeReuseIsBounded == M!CodeReuseIsBounded /\ (alone => M!CodesGrantOnce)
MfaAlone == alone => M!EnabledWithConfirmedSecret /\ M!PreviousCodesAreInvalid

=============================================================================
