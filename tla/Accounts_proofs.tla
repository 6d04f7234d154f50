--------------------------- MODULE Accounts_proofs ---------------------------
(***************************************************************************)
(* Proofs about Accounts, for any users, passwords, requests and number of *)
(* verification tokens: its types, that a user is onboarded once, that the *)
(* two marks of a verified user agree, and that the links he has of a type *)
(* are as many as requests can be in progress, at most.                    *)
(***************************************************************************)
EXTENDS Accounts, FiniteSetTheorems, TLAPS

Known(u) == account[u].status # "none"

\* What holds of a request: what it needs later is there, its user exists if its
\* validation found him, and a user who was INVITED when a registration was validated
\* and has no password yet was not onboarded meanwhile.
RequestOK(r) ==
    \/ r = Idle
    \/ /\ r.pc # "idle"
       /\ r.user \in Users
       /\ r.pc = "deleted" => r.op \in {"resend", "forgot"}
       /\ r.pc = "stored" => r.token \in Tokens
       /\ r.pc = "written" => r.op \in {"verify", "reset"}
       /\ r.op \in {"verify", "reset"} => r.token \in Tokens
       /\ r.op \in {"register", "reset", "change"} => r.new \in Passwords
       /\ r.op \notin {"register", "oauth"} => Known(r.user)
       /\ r.op = "register" /\ r.seen = "INVITED" =>
             /\ Known(r.user)
             /\ account[r.user].password = None => onboarded[r.user] = 0

AccountOK(u) ==
    /\ onboarded[u] <= 1
    /\ account[u].verified <=> account[u].status = "ACTIVE"
    /\ account[u].status = "none" => onboarded[u] = 0 /\ account[u].password = None
    /\ account[u].status = "INVITED" => onboarded[u] = 0

RowsAreOfUsers == \A t \in Tokens : row[t] # None => Known(row[t].user)

Inv ==
    /\ TypeOK
    /\ \A u \in Users : AccountOK(u)
    /\ \A q \in Requests : RequestOK(request[q])
    /\ RowsAreOfUsers

-----------------------------------------------------------------------------

\* What a step does to the rows and the counts: it adds rows of known users alone.
RowsGoOn ==
    /\ row' \in [Tokens -> VerificationRow \union {None}]
    /\ issued' \in 0..MaxTokens
    /\ mailed' \subseteq Tokens
    /\ lost' \subseteq Tokens
    /\ used' \subseteq Tokens
    /\ again' \subseteq Tokens
    /\ \A t \in Tokens : row'[t] # None =>
          \/ row[t] # None /\ row'[t].user = row[t].user
          \/ Known(row[t].user)'

\* What a step does to a user: he does not vanish, and gets a password or stays as he
\* was, if he was there.
UserGoesOn(u) ==
    /\ account'[u] \in AccountRow
    /\ onboarded'[u] \in Nat
    /\ AccountOK(u)'
    /\ Known(u) =>
          /\ Known(u)'
          /\ account'[u].password = None =>
                account[u].password = None /\ onboarded'[u] = onboarded[u]

\* A request that goes on beside a step stays sound.
LEMMA OtherRequests ==
    ASSUME Inv, NEW r, RequestOK(r), \A u \in Users : UserGoesOn(u)
    PROVE  RequestOK(r)'
<1>1. CASE r = Idle
  BY <1>1 DEF RequestOK
<1>2. CASE r # Idle
  <2>1. r.user \in Users /\ UserGoesOn(r.user)
    BY <1>2 DEF RequestOK
  <2> QED
    BY <1>2, <2>1 DEF RequestOK, UserGoesOn
<1> QED
  BY <1>1, <1>2

\* A step keeps the invariant if it leaves the users and the rows in order, and the
\* requests as they were or sound.
LEMMA AnyStep ==
    ASSUME Inv,
           request' \in [Requests -> RequestRecord],
           \A k \in Requests : request'[k] = request[k] \/ RequestOK(request[k])',
           account' \in [Users -> AccountRow],
           onboarded' \in [Users -> Nat],
           \A u \in Users : UserGoesOn(u),
           RowsGoOn
    PROVE  Inv'
<1>1. TypeOK /\ TypeOK'
  BY DEF Inv, TypeOK, RowsGoOn
<1>3. \A k \in Requests : RequestOK(request[k])'
  <2> SUFFICES ASSUME NEW k \in Requests, request'[k] = request[k]
               PROVE  RequestOK(request[k])'
    OBVIOUS
  <2>1. PICK s : s = request[k]
    OBVIOUS
  <2>2. RequestOK(s)'
    BY <2>1, OtherRequests DEF Inv
  <2>3. request'[k] = s
    BY <2>1
  <2> QED
    BY <2>2, <2>3 DEF RequestOK, Known
<1>4. \A u \in Users : AccountOK(u)'
  BY DEF UserGoesOn
<1>5. RowsAreOfUsers'
  <2> SUFFICES ASSUME NEW t \in Tokens, row'[t] # None PROVE Known(row[t].user)'
    BY DEF RowsAreOfUsers
  <2>1. CASE row[t] # None /\ row'[t].user = row[t].user
    <3>1. row[t].user \in Users /\ Known(row[t].user)
      BY <1>1, <2>1 DEF Inv, TypeOK, VerificationRow, RowsAreOfUsers
    <3> QED
      BY <2>1, <3>1 DEF UserGoesOn, Known
  <2>2. CASE Known(row[t].user)'
    BY <2>2
  <2> QED
    BY <2>1, <2>2 DEF RowsGoOn
<1> QED
  BY <1>1, <1>3, <1>4, <1>5 DEF Inv

\* A step of one request.
LEMMA Step ==
    ASSUME Inv, NEW q \in Requests, NEW r \in RequestRecord,
           request' = [request EXCEPT ![q] = r],
           RequestOK(r)',
           account' \in [Users -> AccountRow],
           onboarded' \in [Users -> Nat],
           \A u \in Users : UserGoesOn(u),
           RowsGoOn
    PROVE  Inv'
<1>1. /\ request' \in [Requests -> RequestRecord]
      /\ \A k \in Requests : request'[k] = IF k = q THEN r ELSE request[k]
  BY DEF Inv, TypeOK
<1>2. \A k \in Requests : request'[k] = request[k] \/ RequestOK(request[k])'
  BY <1>1 DEF RequestOK
<1> QED
  BY <1>1, <1>2, AnyStep

\* A step that changes no user.
LEMMA SameUsers ==
    ASSUME Inv, UNCHANGED <<account, onboarded>>
    PROVE  /\ account' \in [Users -> AccountRow]
           /\ onboarded' \in [Users -> Nat]
           /\ \A u \in Users : UserGoesOn(u)
  BY DEF Inv, TypeOK, UserGoesOn, AccountOK, Known

\* A step that changes no row.
LEMMA SameRows ==
    ASSUME Inv, UNCHANGED row, issued' \in 0..MaxTokens, mailed' \subseteq Tokens,
           lost' \subseteq Tokens, used' \subseteq Tokens, again' \subseteq Tokens
    PROVE  RowsGoOn
  BY DEF Inv, TypeOK, RowsGoOn

\* A user that is there and was onboarded n times.
UserRecordOK(rec, n) ==
    /\ n <= 1
    /\ rec.verified <=> rec.status = "ACTIVE"
    /\ rec.status # "none"
    /\ rec.status = "INVITED" => n = 0

\* A step that changes one user.
LEMMA OneUser ==
    ASSUME Inv, NEW u \in Users, NEW rec \in AccountRow, NEW n \in Nat,
           account' = [account EXCEPT ![u] = rec],
           onboarded' = [onboarded EXCEPT ![u] = n],
           UserRecordOK(rec, n),
           Known(u) /\ rec.password = None => account[u].password = None /\ n = onboarded[u]
    PROVE  /\ account' \in [Users -> AccountRow]
           /\ onboarded' \in [Users -> Nat]
           /\ \A v \in Users : UserGoesOn(v)
<1>1. /\ account' \in [Users -> AccountRow]
      /\ onboarded' \in [Users -> Nat]
  BY DEF Inv, TypeOK
<1>2. /\ account'[u] = rec /\ onboarded'[u] = n
      /\ \A v \in Users \ {u} : account'[v] = account[v] /\ onboarded'[v] = onboarded[v]
  BY DEF Inv, TypeOK
<1>3. UserGoesOn(u)
  BY <1>2 DEF UserRecordOK, UserGoesOn, AccountOK, Known
<1>4. \A v \in Users \ {u} : UserGoesOn(v)
  BY <1>1, <1>2 DEF Inv, UserGoesOn, AccountOK, Known
<1> QED
  BY <1>1, <1>3, <1>4

\* What holds of a request and of its user before a step of it.
LEMMA RequestFacts ==
    ASSUME Inv, NEW q \in Requests, request[q].pc # "idle"
    PROVE  /\ RequestOK(request[q])
           /\ request[q] # Idle
           /\ request[q] \in RequestRecord
           /\ request[q].user \in Users
           /\ account[request[q].user] \in AccountRow
           /\ onboarded[request[q].user] \in Nat
           /\ AccountOK(request[q].user)
<1>1. request[q] # Idle
  BY DEF Idle
<1> QED
  BY <1>1 DEF Inv, TypeOK, RequestOK

LEMMA IdleIsOK == Idle \in RequestRecord /\ RequestOK(Idle) /\ RequestOK(Idle)'
  BY DEF Idle, RequestRecord, RequestOK

-----------------------------------------------------------------------------
(* Each operation                                                           *)

\* A request that validates reads what its later writes rely on.
LEMMA StartStep ==
    ASSUME Inv, NEW q \in Requests, NEW op \in Ops, NEW u \in Users,
           NEW t \in Tokens \union {None}, NEW seen \in Statuses \union Passwords \union {None},
           NEW new \in Passwords \union {None},
           Start(q, op, u, t, seen, new),
           op \in {"verify", "reset"} => t \in Tokens,
           op \in {"register", "reset", "change"} => new \in Passwords,
           op = "register" => seen = account[u].status,
           op \notin {"register", "oauth"} => Known(u)
    PROVE  Inv'
<1> DEFINE r == [pc |-> "valid", op |-> op, user |-> u, token |-> t, seen |-> seen, new |-> new]
<1>1. r \in RequestRecord /\ request' = [request EXCEPT ![q] = r]
  BY DEF Start, RequestRecord
<1>2. UNCHANGED <<account, onboarded, row, issued, mailed, lost, used, again>>
  BY DEF Start, tables, history
<1>3. RequestOK(r)
  <2>1. op = "register" /\ seen = "INVITED" => Known(u) /\ onboarded[u] = 0
    BY DEF Inv, AccountOK, Known
  <2> QED
    BY <2>1 DEF RequestOK
<1>4. RequestOK(r)'
  BY <1>2, <1>3 DEF RequestOK, Known
<1>5. RowsGoOn
  BY <1>2, SameRows DEF Inv, TypeOK
<1> HIDE DEF r
<1> QED
  BY <1>1, <1>2, <1>4, <1>5, SameUsers, Step

LEMMA RegisterStep ==
    ASSUME Inv, NEW q \in Requests, Register(q)
    PROVE  Inv'
<1>1. ASSUME NEW u \in Users, NEW p \in Passwords, ValidateRegister(q, u, p)
      PROVE  Inv'
  <2>1. account[u].status \in Statuses
    BY DEF Inv, TypeOK, AccountRow
  <2> QED
    BY <1>1, <2>1, StartStep DEF ValidateRegister, Ops
<1>2. CASE CreateUser(q)
  <2> DEFINE u == request[q].user
             rec == [status |-> "INACTIVE", verified |-> FALSE,
                     password |-> request[q].new, linked |-> FALSE]
  <2>1. /\ RequestOK(request[q]) /\ request[q] # Idle /\ request[q] \in RequestRecord
        /\ u \in Users /\ onboarded[u] = 0 /\ ~Known(u)
    BY <1>2, RequestFacts DEF CreateUser, AccountOK, Known
  <2>2. /\ rec \in AccountRow
        /\ UserRecordOK(rec, 1)
    BY <2>1 DEF AccountRow, RequestRecord, Statuses, UserRecordOK
  <2>3. issued + 1 \in Tokens
    BY <1>2, AccountConstants DEF Inv, TypeOK, CreateUser, Tokens
  <2>4. PICK r \in RequestRecord :
           /\ r = [request[q] EXCEPT !.pc = "stored", !.token = issued + 1]
           /\ request' = [request EXCEPT ![q] = r]
    <3>1. [request[q] EXCEPT !.pc = "stored", !.token = issued + 1] \in RequestRecord
      BY <2>1, <2>3 DEF RequestRecord
    <3> QED
      BY <1>2, <3>1 DEF CreateUser, Inv, TypeOK
  <2>k. PICK k : k = u
    OBVIOUS
  <2>5. /\ r.pc = "stored" /\ r.token = issued + 1 /\ r.op = "register"
        /\ r.user = k /\ r.seen = "none" /\ r.new \in Passwords
    BY <1>2, <2>1, <2>4, <2>k DEF CreateUser, RequestRecord, RequestOK
  <2>6. account' = [account EXCEPT ![u] = rec] /\ onboarded' = [onboarded EXCEPT ![u] = 1]
    BY <1>2, <2>1 DEF CreateUser, Inv, TypeOK
  <2> HIDE DEF rec
  <2>7. /\ account' \in [Users -> AccountRow]
        /\ onboarded' \in [Users -> Nat]
        /\ \A v \in Users : UserGoesOn(v)
    BY <2>1, <2>2, <2>6, OneUser
  <2>8. RequestOK(r)'
    <3>1. k \in Users
      BY <2>1, <2>k
    <3> QED
      BY <2>3, <2>5, <3>1 DEF RequestOK, Tokens
  <2>9. RowsGoOn
    <3>1. [user |-> u, type |-> "EMAIL_VERIFICATION", expired |-> FALSE] \in VerificationRow
      BY <2>1 DEF VerificationRow, Types
    <3>2. /\ row' = [row EXCEPT ![issued + 1] =
                [user |-> u, type |-> "EMAIL_VERIFICATION", expired |-> FALSE]]
          /\ issued' = issued + 1
          /\ UNCHANGED <<mailed, lost, used, again>>
      BY <1>2 DEF CreateUser, history
    <3>3. account'[u].status # "none"
      BY <2>1, <2>6 DEF Inv, TypeOK, rec
    <3> QED
      BY <2>1, <2>3, <3>1, <3>2, <3>3 DEF Inv, TypeOK, RowsGoOn, Tokens, Known
  <2> QED
    BY <2>4, <2>7, <2>8, <2>9, Step
<1>3. CASE ActivateShadowUser(q)
  <2> DEFINE u == request[q].user
             rec == [account[u] EXCEPT !.status = "ACTIVE", !.verified = TRUE,
                                       !.password = request[q].new]
  <2>1. /\ RequestOK(request[q]) /\ request[q] # Idle /\ request[q] \in RequestRecord
        /\ u \in Users /\ account[u] \in AccountRow /\ AccountOK(u)
    BY <1>3, RequestFacts DEF ActivateShadowUser
  <2>2. request[q].new \in Passwords /\ onboarded[u] = 0
    BY <1>3, <2>1 DEF ActivateShadowUser, HasNoPassword, RequestOK
  <2>3. /\ rec \in AccountRow
        /\ UserRecordOK(rec, 1)
        /\ rec.password # None
    <3>1. rec \in AccountRow /\ rec.password # None
      BY <2>1, <2>2, AccountConstants DEF AccountRow, Statuses
    <3>2. rec.verified = TRUE /\ rec.status = "ACTIVE"
      BY <2>1 DEF AccountRow
    <3>3. rec.verified <=> rec.status = "ACTIVE"
      BY <3>2
    <3> HIDE DEF rec
    <3> QED
      BY <3>1, <3>2, <3>3 DEF UserRecordOK
  <2>4. account' = [account EXCEPT ![u] = rec] /\ onboarded' = [onboarded EXCEPT ![u] = 1]
    BY <1>3, <2>1, <2>2 DEF ActivateShadowUser, Inv, TypeOK
  <2> HIDE DEF rec
  <2>5. /\ account' \in [Users -> AccountRow]
        /\ onboarded' \in [Users -> Nat]
        /\ \A v \in Users : UserGoesOn(v)
    BY <2>1, <2>2, <2>3, <2>4, OneUser
  <2>6. RowsGoOn /\ request' = [request EXCEPT ![q] = Idle]
    BY <1>3, SameRows DEF ActivateShadowUser, Inv, TypeOK, history
  <2> QED
    BY <2>5, <2>6, IdleIsOK, Step
<1> QED
  BY <1>1, <1>2, <1>3 DEF Register

LEMMA OAuthStep ==
    ASSUME Inv, NEW q \in Requests, HandleOAuthCallback(q)
    PROVE  Inv'
<1>1. ASSUME NEW u \in Users, FindOAuthAccount(q, u)
      PROVE  Inv'
  <2>1. account[u].status \in Statuses
    BY DEF Inv, TypeOK, AccountRow
  <2> QED
    BY <1>1, <2>1, StartStep DEF FindOAuthAccount, Ops
<1>2. CASE LinkOAuthAccount(q)
  <2> DEFINE u == request[q].user
             rec == [account[u] EXCEPT !.linked = TRUE]
  <2>1. /\ request[q] \in RequestRecord /\ u \in Users /\ account[u] \in AccountRow
        /\ onboarded[u] \in Nat /\ AccountOK(u)
    BY <1>2, RequestFacts DEF LinkOAuthAccount
  <2>2. /\ rec \in AccountRow /\ rec.status = account[u].status
        /\ rec.verified = account[u].verified /\ rec.password = account[u].password
    BY <2>1 DEF AccountRow
  <2>3. account' = [account EXCEPT ![u] = rec] /\ UNCHANGED onboarded
    BY <1>2, <2>1 DEF LinkOAuthAccount, Inv, TypeOK
  <2> HIDE DEF rec
  <2>4. /\ account' \in [Users -> AccountRow]
        /\ onboarded' \in [Users -> Nat]
        /\ \A v \in Users : UserGoesOn(v)
    BY <2>1, <2>2, <2>3 DEF Inv, TypeOK, UserGoesOn, AccountOK, Known
  <2>5. RowsGoOn /\ request' = [request EXCEPT ![q] = Idle]
    BY <1>2, SameRows DEF LinkOAuthAccount, Inv, TypeOK, history
  <2> QED
    BY <2>4, <2>5, IdleIsOK, Step
<1>3. CASE CreateOAuthUser(q)
  <2> DEFINE u == request[q].user
             rec == [status |-> "ACTIVE", verified |-> TRUE, password |-> None, linked |-> TRUE]
  <2>1. u \in Users /\ onboarded[u] = 0 /\ ~Known(u)
    BY <1>3, RequestFacts DEF CreateOAuthUser, AccountOK, Known
  <2>2. /\ rec \in AccountRow
        /\ UserRecordOK(rec, 1)
    BY DEF AccountRow, Statuses, UserRecordOK
  <2>3. account' = [account EXCEPT ![u] = rec] /\ onboarded' = [onboarded EXCEPT ![u] = 1]
    BY <1>3, <2>1 DEF CreateOAuthUser, Inv, TypeOK
  <2> HIDE DEF rec
  <2>4. /\ account' \in [Users -> AccountRow]
        /\ onboarded' \in [Users -> Nat]
        /\ \A v \in Users : UserGoesOn(v)
    BY <2>1, <2>2, <2>3, OneUser
  <2>5. RowsGoOn /\ request' = [request EXCEPT ![q] = Idle]
    BY <1>3, SameRows DEF CreateOAuthUser, Inv, TypeOK, history
  <2> QED
    BY <2>4, <2>5, IdleIsOK, Step
<1> QED
  BY <1>1, <1>2, <1>3 DEF HandleOAuthCallback

\* Deleting a user's tokens of a type, and making him a new one.
LEMMA RenewStep ==
    ASSUME Inv, NEW q \in Requests, RenewToken(q)
    PROVE  Inv'
<1>1. ASSUME NEW u \in Users,
             ValidateResendVerification(q, u) \/ ValidateResetPasswordRequest(q, u)
      PROVE  Inv'
  BY <1>1, StartStep DEF ValidateResendVerification, ValidateResetPasswordRequest, Ops, Known
<1>2. CASE DeleteByUserIdAndType(q)
  <2>1. /\ RequestOK(request[q]) /\ request[q] # Idle /\ request[q] \in RequestRecord
        /\ request[q].op \in {"resend", "forgot"}
    BY <1>2, RequestFacts DEF DeleteByUserIdAndType
  <2>2. PICK r \in RequestRecord :
           /\ r = [request[q] EXCEPT !.pc = "deleted"]
           /\ request' = [request EXCEPT ![q] = r]
    <3>1. [request[q] EXCEPT !.pc = "deleted"] \in RequestRecord
      BY <2>1 DEF RequestRecord
    <3> QED
      BY <1>2, <3>1 DEF DeleteByUserIdAndType, Inv, TypeOK
  <2>3. UNCHANGED <<account, onboarded, issued, mailed, lost, used, again>>
    BY <1>2 DEF DeleteByUserIdAndType, history
  <2>4. RequestOK(r)
    BY <2>1, <2>2 DEF RequestRecord, RequestOK, Known
  <2>5. RequestOK(r)'
    BY <2>3, <2>4 DEF RequestOK, Known
  <2>6. RowsGoOn
    BY <1>2, <2>3 DEF DeleteByUserIdAndType, Inv, TypeOK, RowsGoOn
  <2> QED
    BY <2>2, <2>3, <2>5, <2>6, SameUsers, Step
<1>3. CASE CreateVerificationRequest(q)
  <2>1. /\ RequestOK(request[q]) /\ request[q] # Idle /\ request[q] \in RequestRecord
        /\ request[q].user \in Users
    BY <1>3, RequestFacts DEF CreateVerificationRequest
  <2>2. issued + 1 \in Tokens /\ issued + 1 \in 0..MaxTokens
    BY <1>3, AccountConstants DEF Inv, TypeOK, CreateVerificationRequest, Tokens
  <2>3. PICK r \in RequestRecord :
           /\ r = [request[q] EXCEPT !.pc = "stored", !.token = issued + 1]
           /\ request' = [request EXCEPT ![q] = r]
    <3>1. [request[q] EXCEPT !.pc = "stored", !.token = issued + 1] \in RequestRecord
      BY <2>1, <2>2 DEF RequestRecord
    <3> QED
      BY <1>3, <3>1 DEF CreateVerificationRequest, Inv, TypeOK
  <2>4. UNCHANGED <<account, onboarded, mailed, lost, used, again>> /\ issued' = issued + 1
    BY <1>3 DEF CreateVerificationRequest, history
  <2>5. request[q].op \in {"resend", "forgot"} /\ Known(request[q].user)
    BY <1>3, <2>1 DEF CreateVerificationRequest, RequestOK
  <2>6. RequestOK(r)
    <3>1. /\ r.pc = "stored" /\ r.token \in Tokens /\ r.user = request[q].user
          /\ r.op = request[q].op
      BY <2>1, <2>2, <2>3 DEF RequestRecord
    <3>2. r.op \in {"verify", "reset"} => r.token \in Tokens
      BY <3>1
    <3> QED
      BY <2>1, <2>5, <3>1, <3>2 DEF RequestOK
  <2>7. RequestOK(r)'
    BY <2>4, <2>6 DEF RequestOK, Known
  <2>8. RowsGoOn
    <3> DEFINE v == [user |-> request[q].user, type |-> TypeOf(request[q].op), expired |-> FALSE]
    <3>1. v \in VerificationRow /\ v.user = request[q].user
      BY <2>1 DEF VerificationRow, Types, TypeOf
    <3>2. row' = [row EXCEPT ![issued + 1] = v]
      BY <1>3 DEF CreateVerificationRequest
    <3> HIDE DEF v
    <3>3. /\ row' \in [Tokens -> VerificationRow \union {None}]
          /\ \A t \in Tokens : row'[t] = IF t = issued + 1 THEN v ELSE row[t]
      BY <2>2, <3>1, <3>2 DEF Inv, TypeOK
    <3> QED
      BY <2>2, <2>4, <2>5, <3>1, <3>3 DEF Inv, TypeOK, RowsGoOn, Known
  <2> QED
    BY <2>3, <2>4, <2>7, <2>8, SameUsers, Step
<1>4. CASE SendToken(q)
  <2>1. request[q].token \in Tokens
    BY <1>4, RequestFacts DEF SendToken, RequestOK
  <2>2. /\ UNCHANGED <<account, onboarded, row, issued, lost, used, again>>
        /\ mailed' = mailed \union {request[q].token}
        /\ request' = [request EXCEPT ![q] = Idle]
    BY <1>4 DEF SendToken, tables, history
  <2>3. RowsGoOn
    BY <2>1, <2>2, SameRows DEF Inv, TypeOK
  <2> QED
    BY <2>2, <2>3, IdleIsOK, SameUsers, Step
<1> QED
  BY <1>1, <1>2, <1>3, <1>4 DEF RenewToken

\* Writing a user whose token was validated leaves the token to be deleted.
LEMMA WrittenIsOK ==
    ASSUME Inv, NEW q \in Requests, request[q].pc # "idle", request[q].op \in {"verify", "reset"},
           \A u \in Users : UserGoesOn(u)
    PROVE  \E r \in RequestRecord :
              /\ [request EXCEPT ![q].pc = "written"] = [request EXCEPT ![q] = r]
              /\ RequestOK(r)'
<1>1. /\ RequestOK(request[q]) /\ request[q] # Idle /\ request[q] \in RequestRecord
  BY RequestFacts
<1>2. PICK r : r = [request[q] EXCEPT !.pc = "written"]
  OBVIOUS
<1>3. r \in RequestRecord
  BY <1>1, <1>2 DEF RequestRecord
<1>4. RequestOK(r)
  BY <1>1, <1>2 DEF RequestRecord, RequestOK, Known
<1>5. [request EXCEPT ![q].pc = "written"] = [request EXCEPT ![q] = r]
  BY <1>2 DEF Inv, TypeOK
<1> QED
  BY <1>3, <1>4, <1>5, OtherRequests

LEMMA VerifyStep ==
    ASSUME Inv, NEW q \in Requests, VerifyEmail(q)
    PROVE  Inv'
<1>1. ASSUME NEW t \in Tokens, ValidateVerifyEmail(q, t)
      PROVE  Inv'
  <2>1. row[t].user \in Users /\ Known(row[t].user)
    BY <1>1 DEF ValidateVerifyEmail, Valid, Inv, TypeOK, VerificationRow, RowsAreOfUsers
  <2> QED
    BY <1>1, <2>1, StartStep DEF ValidateVerifyEmail, Ops
<1>2. CASE VerifyUser(q)
  <2> DEFINE u == request[q].user
             rec == [account[u] EXCEPT !.verified = TRUE, !.status = "ACTIVE"]
  <2>1. /\ request[q] \in RequestRecord /\ u \in Users /\ account[u] \in AccountRow
        /\ onboarded[u] \in Nat /\ AccountOK(u)
    BY <1>2, RequestFacts DEF VerifyUser
  <2>2. /\ rec \in AccountRow /\ rec.password = account[u].password
        /\ UserRecordOK(rec, onboarded[u])
    <3>1. rec \in AccountRow /\ rec.password = account[u].password
      BY <2>1 DEF AccountRow, Statuses
    <3>2. rec.verified = TRUE /\ rec.status = "ACTIVE"
      BY <2>1 DEF AccountRow
    <3>3. rec.verified <=> rec.status = "ACTIVE"
      BY <3>2
    <3> HIDE DEF rec
    <3> QED
      BY <2>1, <3>1, <3>2, <3>3 DEF UserRecordOK, AccountOK
  <2>3. /\ account' = [account EXCEPT ![u] = rec]
        /\ onboarded' = [onboarded EXCEPT ![u] = onboarded[u]]
    BY <1>2, <2>1 DEF VerifyUser, VerifiedAccount, Inv, TypeOK
  <2> HIDE DEF rec
  <2>4. /\ account' \in [Users -> AccountRow]
        /\ onboarded' \in [Users -> Nat]
        /\ \A v \in Users : UserGoesOn(v)
    BY <2>1, <2>2, <2>3, OneUser
  <2>5. RowsGoOn /\ request' = [request EXCEPT ![q].pc = "written"]
    BY <1>2, SameRows DEF VerifyUser, Inv, TypeOK, history
  <2> QED
    BY <1>2, <2>4, <2>5, WrittenIsOK, Step DEF VerifyUser
<1> QED
  BY <1>1, <1>2 DEF VerifyEmail

\* A new password leaves the rest of the user as it is.
LEMMA PasswordIsOK ==
    ASSUME Inv, NEW q \in Requests, request[q].pc # "idle",
           request[q].op \in {"reset", "change"},
           account' = [account EXCEPT ![request[q].user].password = request[q].new],
           UNCHANGED onboarded
    PROVE  /\ account' \in [Users -> AccountRow]
           /\ onboarded' \in [Users -> Nat]
           /\ \A v \in Users : UserGoesOn(v)
<1> DEFINE u == request[q].user
           rec == [account[u] EXCEPT !.password = request[q].new]
<1>1. /\ request[q] \in RequestRecord /\ u \in Users /\ account[u] \in AccountRow
      /\ onboarded[u] \in Nat /\ AccountOK(u) /\ Known(u)
      /\ request[q].new # None
  BY RequestFacts, AccountConstants DEF RequestOK
<1>2. /\ rec \in AccountRow /\ rec.status = account[u].status
      /\ rec.verified = account[u].verified /\ rec.password = request[q].new
  BY <1>1 DEF AccountRow, RequestRecord
<1>3. UserRecordOK(rec, onboarded[u])
  <2> HIDE DEF rec
  <2> QED
    BY <1>1, <1>2 DEF UserRecordOK, AccountOK, Known
<1>4. /\ account' = [account EXCEPT ![u] = rec]
      /\ onboarded' = [onboarded EXCEPT ![u] = onboarded[u]]
  BY <1>1 DEF Inv, TypeOK
<1> HIDE DEF rec
<1> QED
  BY <1>1, <1>2, <1>3, <1>4, OneUser

LEMMA ResetStep ==
    ASSUME Inv, NEW q \in Requests, ConfirmPasswordReset(q)
    PROVE  Inv'
<1>1. ASSUME NEW t \in Tokens, NEW p \in Passwords, ValidateResetPasswordConfirm(q, t, p)
      PROVE  Inv'
  <2>1. /\ row[t].user \in Users /\ Known(row[t].user)
        /\ account[row[t].user].password \in Passwords \union {None}
    BY <1>1 DEF ValidateResetPasswordConfirm, Valid, Inv, TypeOK, VerificationRow,
                RowsAreOfUsers, AccountRow
  <2> QED
    BY <1>1, <2>1, StartStep DEF ValidateResetPasswordConfirm, Ops
<1>2. CASE SetPassword(q)
  <2>1. request[q].token \in Tokens
    BY <1>2, RequestFacts DEF SetPassword, RequestOK
  <2>2. /\ UNCHANGED <<onboarded, row, issued, mailed, lost>>
        /\ used' = used \union {request[q].token}
        /\ again' = again \union ({request[q].token} \intersect used)
        /\ request' = [request EXCEPT ![q].pc = "written"]
        /\ account' = [account EXCEPT ![request[q].user].password = request[q].new]
    BY <1>2 DEF SetPassword
  <2>3. /\ account' \in [Users -> AccountRow]
        /\ onboarded' \in [Users -> Nat]
        /\ \A v \in Users : UserGoesOn(v)
    BY <1>2, <2>2, PasswordIsOK DEF SetPassword
  <2>4. RowsGoOn
    BY <2>1, <2>2, SameRows DEF Inv, TypeOK
  <2> QED
    BY <1>2, <2>2, <2>3, <2>4, WrittenIsOK, Step DEF SetPassword
<1>3. CASE DeleteByToken(q)
  <2>1. /\ UNCHANGED <<account, onboarded, issued, mailed, lost, used, again>>
        /\ row' = [row EXCEPT ![request[q].token] = None]
        /\ request' = [request EXCEPT ![q] = Idle]
    BY <1>3 DEF DeleteByToken, history
  <2>2. RowsGoOn
    BY <2>1 DEF Inv, TypeOK, RowsGoOn
  <2> QED
    BY <2>1, <2>2, IdleIsOK, SameUsers, Step
<1> QED
  BY <1>1, <1>2, <1>3 DEF ConfirmPasswordReset

LEMMA ChangeStep ==
    ASSUME Inv, NEW q \in Requests, ChangePassword(q) \/ RequestFails(q)
    PROVE  Inv'
<1>1. ASSUME NEW u \in Users, NEW p \in Passwords, ValidateChangePassword(q, u, p)
      PROVE  Inv'
  BY <1>1, StartStep DEF ValidateChangePassword, Ops, Known
<1>2. CASE UpdatePassword(q)
  <2>1. /\ account' \in [Users -> AccountRow]
        /\ onboarded' \in [Users -> Nat]
        /\ \A v \in Users : UserGoesOn(v)
    BY <1>2, PasswordIsOK DEF UpdatePassword
  <2>2. RowsGoOn /\ request' = [request EXCEPT ![q] = Idle]
    BY <1>2, SameRows DEF UpdatePassword, Inv, TypeOK, history
  <2> QED
    BY <2>1, <2>2, IdleIsOK, Step
<1>3. CASE RequestFails(q)
  <2>1. request[q].pc = "written" => request[q].token \in Tokens
    BY <1>3, RequestFacts DEF RequestFails, RequestOK
  <2>2. /\ UNCHANGED <<account, onboarded, row, issued, mailed, used, again>>
        /\ request' = [request EXCEPT ![q] = Idle]
        /\ lost' \subseteq Tokens
    BY <1>3, <2>1 DEF RequestFails, tables, Inv, TypeOK
  <2>3. RowsGoOn
    BY <2>2, SameRows DEF Inv, TypeOK
  <2> QED
    BY <2>2, <2>3, IdleIsOK, SameUsers, Step
<1> QED
  BY <1>1, <1>2, <1>3 DEF ChangePassword

\* The steps of nobody's request: an invitation makes a shadow user, a token expires
\* and the cron deletes those that did.
LEMMA WorldStep ==
    ASSUME Inv,
           \/ \E u \in Users : CreateShadowUser(u)
           \/ \E t \in Tokens : TokenExpires(t)
           \/ DeleteExpired
    PROVE  Inv'
<1>1. UNCHANGED request
  BY DEF CreateShadowUser, TokenExpires, DeleteExpired
<1>2. /\ request' \in [Requests -> RequestRecord]
      /\ \A k \in Requests : request'[k] = request[k]
  BY <1>1 DEF Inv, TypeOK
<1>3. ASSUME NEW u \in Users, CreateShadowUser(u)
      PROVE  Inv'
  <2> DEFINE rec == [account[u] EXCEPT !.status = "INVITED"]
  <2>1. /\ account[u] \in AccountRow /\ AccountOK(u) /\ ~Known(u)
        /\ onboarded[u] = 0 /\ onboarded[u] \in Nat
    BY <1>3 DEF CreateShadowUser, Inv, TypeOK, AccountOK, Known
  <2>2. /\ rec \in AccountRow /\ rec.status = "INVITED"
        /\ rec.verified = account[u].verified
    BY <2>1 DEF AccountRow, Statuses
  <2>3. account' = [account EXCEPT ![u] = rec] /\ onboarded' = [onboarded EXCEPT ![u] = 0]
    BY <1>3, <2>1 DEF CreateShadowUser, Inv, TypeOK
  <2>4. UserRecordOK(rec, 0)
    <3> HIDE DEF rec
    <3> QED
      BY <2>1, <2>2 DEF UserRecordOK, AccountOK, Known
  <2> HIDE DEF rec
  <2>5. /\ account' \in [Users -> AccountRow]
        /\ onboarded' \in [Users -> Nat]
        /\ \A v \in Users : UserGoesOn(v)
    BY <2>1, <2>2, <2>3, <2>4, OneUser
  <2>6. RowsGoOn
    BY <1>3, SameRows DEF CreateShadowUser, Inv, TypeOK, history
  <2> QED
    BY <1>2, <2>5, <2>6, AnyStep
<1>4. ASSUME NEW t \in Tokens, TokenExpires(t)
      PROVE  Inv'
  <2>1. UNCHANGED <<account, onboarded, issued, mailed, lost, used, again>>
    BY <1>4 DEF TokenExpires, history
  <2>2. RowsGoOn
    <3>1. row[t] \in VerificationRow
      BY <1>4 DEF TokenExpires, Inv, TypeOK
    <3>2. PICK v : v = [row[t] EXCEPT !.expired = TRUE]
      OBVIOUS
    <3>3. v \in VerificationRow /\ v.user = row[t].user
      BY <3>1, <3>2 DEF VerificationRow
    <3>4. row' = [row EXCEPT ![t] = v]
      BY <1>4, <3>2 DEF TokenExpires, Inv, TypeOK
    <3> QED
      BY <1>4, <2>1, <3>3, <3>4 DEF TokenExpires, Inv, TypeOK, RowsGoOn
  <2> QED
    BY <1>2, <2>1, <2>2, SameUsers, AnyStep
<1>5. CASE DeleteExpired
  <2>1. UNCHANGED <<account, onboarded, issued, mailed, lost, used, again>>
    BY <1>5 DEF DeleteExpired, history
  <2>2. RowsGoOn
    BY <1>5, <2>1 DEF DeleteExpired, Inv, TypeOK, RowsGoOn
  <2> QED
    BY <1>2, <2>1, <2>2, SameUsers, AnyStep
<1> QED
  BY <1>3, <1>4, <1>5

-----------------------------------------------------------------------------
(* The specification                                                        *)

\* The initial states have no user, no token and no request.
THEOREM InitInv == Init => Inv
<1> SUFFICES ASSUME Init PROVE Inv
  OBVIOUS
<1>1. NoAccount \in AccountRow /\ Idle \in RequestRecord /\ RequestOK(Idle)
  BY IdleIsOK DEF NoAccount, AccountRow, Statuses
<1>2. TypeOK
  BY <1>1, AccountConstants DEF Init, TypeOK
<1>3. \A u \in Users : AccountOK(u)
  BY DEF Init, NoAccount, AccountOK
<1>4. \A q \in Requests : RequestOK(request[q])
  BY <1>1 DEF Init
<1> QED
  BY <1>2, <1>3, <1>4 DEF Init, Inv, RowsAreOfUsers

\* Every step of a request, of an invitation and of the cron keeps the invariant.
THEOREM InvStep == Inv /\ [Next]_vars => Inv'
<1> SUFFICES ASSUME Inv, [Next]_vars PROVE Inv'
  OBVIOUS
<1>1. ASSUME NEW q \in Requests, Request(q)
      PROVE  Inv'
  BY <1>1, RegisterStep, OAuthStep, RenewStep, VerifyStep, ResetStep, ChangeStep DEF Request
<1>2. CASE \/ \E u \in Users : CreateShadowUser(u)
           \/ \E t \in Tokens : TokenExpires(t)
           \/ DeleteExpired
  BY <1>2, WorldStep
<1>3. CASE UNCHANGED vars
  <2>1. UNCHANGED <<account, onboarded, row, issued, mailed, request, lost, used, again>>
    BY <1>3 DEF vars
  <2> QED
    BY <2>1, SameUsers, SameRows, AnyStep DEF Inv, TypeOK
<1> QED
  BY <1>1, <1>2, <1>3 DEF Next

\* The invariant holds of every reachable state.
THEOREM Invariance == Spec => []Inv
<1> QED
  BY InitInv, InvStep, PTL DEF Spec

\* Every user, token and request has its type.
THEOREM TypeCorrect == Spec => []TypeOK
<1>1. Inv => TypeOK
  BY DEF Inv
<1> QED
  BY <1>1, Invariance, PTL

\* However many registrations, OAuth callbacks and password resets overlap, a user
\* gets one workspace and one subscription: the activation of a shadow user, which
\* looks at the id alone, relies on the unique key of local_auth_accounts.userId.
THEOREM UsersAreOnboardedOnce == Spec => []OnboardedOnce
<1>1. Inv => OnboardedOnce
  BY DEF Inv, AccountOK, OnboardedOnce
<1> QED
  BY <1>1, Invariance, PTL

\* What login asks of a user and what the middleware asks never differ.
THEOREM ActiveUsersAreVerified == Spec => []ActiveIsVerified
<1>1. Inv => ActiveIsVerified
  BY DEF Inv, AccountOK, ActiveIsVerified
<1> QED
  BY <1>1, Invariance, PTL

-----------------------------------------------------------------------------
(* Links                                                                    *)

\* The requests that deleted the links of a type of a user and have not made the new
\* one yet.
Makers(u, type) ==
    {q \in Requests :
        request[q].pc = "deleted" /\ request[q].user = u /\ TypeOf(request[q].op) = type}

\* A request that makes a link takes the place of one, of its own or of none: the links
\* there are and those that are about to be made are no more than the requests.
LinksAndMakers ==
    \A u \in Users, type \in Types :
        Cardinality(RowsOf(u, type)) + Cardinality(Makers(u, type)) <= Cardinality(Requests)

LEMMA FiniteLinks ==
    ASSUME NEW u, NEW type
    PROVE  /\ IsFiniteSet(RowsOf(u, type)) /\ IsFiniteSet(Makers(u, type))
           /\ IsFiniteSet(RowsOf(u, type)') /\ IsFiniteSet(Makers(u, type)')
           /\ Cardinality(RowsOf(u, type)) \in Nat /\ Cardinality(Makers(u, type)) \in Nat
           /\ Cardinality(RowsOf(u, type)') \in Nat /\ Cardinality(Makers(u, type)') \in Nat
           /\ Cardinality(Requests) \in Nat
           /\ Cardinality(Makers(u, type)') <= Cardinality(Requests)
<1>1. IsFiniteSet(Tokens) /\ IsFiniteSet(Requests)
  BY AccountConstants, FS_Interval DEF Tokens
<1>2. /\ RowsOf(u, type) \in SUBSET Tokens /\ RowsOf(u, type)' \in SUBSET Tokens
      /\ Makers(u, type) \in SUBSET Requests /\ Makers(u, type)' \in SUBSET Requests
  BY DEF RowsOf, Makers
<1>3. /\ IsFiniteSet(RowsOf(u, type)) /\ IsFiniteSet(Makers(u, type))
      /\ IsFiniteSet(RowsOf(u, type)') /\ IsFiniteSet(Makers(u, type)')
      /\ Cardinality(Makers(u, type)') <= Cardinality(Requests)
  BY <1>1, <1>2, FS_Subset
<1> QED
  BY <1>1, <1>3, FS_CardinalityType

\* A step that makes no link and no maker of one.
LEMMA NoNewLink ==
    ASSUME LinksAndMakers, NEW u \in Users, NEW type \in Types,
           RowsOf(u, type)' \subseteq RowsOf(u, type),
           Makers(u, type)' \subseteq Makers(u, type)
    PROVE  Cardinality(RowsOf(u, type)') + Cardinality(Makers(u, type)') <= Cardinality(Requests)
<1>1. /\ Cardinality(RowsOf(u, type)') <= Cardinality(RowsOf(u, type))
      /\ Cardinality(Makers(u, type)') <= Cardinality(Makers(u, type))
  BY FiniteLinks, FS_Subset
<1> QED
  BY <1>1, FiniteLinks DEF LinksAndMakers

\* What most steps do: they make no link, and every request that makes one was about to.
LEMMA NoLinkAtAll ==
    ASSUME LinksAndMakers,
           \A t \in Tokens : row'[t] # None =>
              row[t] # None /\ row'[t].user = row[t].user /\ row'[t].type = row[t].type,
           \A q \in Requests : request'[q].pc = "deleted" => request'[q] = request[q]
    PROVE  LinksAndMakers'
<1>1. ASSUME NEW u \in Users, NEW type \in Types
      PROVE  /\ RowsOf(u, type)' \subseteq RowsOf(u, type)
             /\ Makers(u, type)' \subseteq Makers(u, type)
  BY DEF RowsOf, Makers
<1> QED
  BY <1>1, NoNewLink DEF LinksAndMakers

\* One token is issued, for a user and of a type.
LEMMA OneNewLink ==
    ASSUME Inv, LinksAndMakers, NEW u \in Users, NEW type \in Types,
           row' = [row EXCEPT ![issued + 1] = [user |-> u, type |-> type, expired |-> FALSE]],
           issued < MaxTokens,
           \A q \in Requests : request'[q].pc = "deleted" => request'[q] = request[q],
           Cardinality(RowsOf(u, type)) + Cardinality(Makers(u, type)') < Cardinality(Requests)
    PROVE  LinksAndMakers'
<1> DEFINE new == [user |-> u, type |-> type, expired |-> FALSE]
<1>1. /\ \A t \in Tokens : row'[t] = IF t = issued + 1 THEN new ELSE row[t]
      /\ new.user = u /\ new.type = type
  BY DEF Inv, TypeOK
<1> HIDE DEF new
<1> SUFFICES ASSUME NEW v \in Users, NEW kind \in Types
             PROVE  Cardinality(RowsOf(v, kind)') + Cardinality(Makers(v, kind)')
                       <= Cardinality(Requests)
  BY DEF LinksAndMakers
<1>2. Makers(v, kind)' \subseteq Makers(v, kind)
  BY DEF Makers
<1>3. CASE v = u /\ kind = type
  <2>1. RowsOf(v, kind)' \subseteq RowsOf(v, kind) \union {issued + 1}
    BY <1>1 DEF RowsOf
  <2>2. /\ IsFiniteSet(RowsOf(v, kind) \union {issued + 1})
        /\ Cardinality(RowsOf(v, kind) \union {issued + 1}) <= Cardinality(RowsOf(v, kind)) + 1
    <3>1. IsFiniteSet(RowsOf(v, kind)) /\ Cardinality(RowsOf(v, kind)) \in Nat
      BY FiniteLinks
    <3>2. ASSUME NEW S, IsFiniteSet(S), Cardinality(S) \in Nat, NEW x
          PROVE  IsFiniteSet(S \union {x}) /\ Cardinality(S \union {x}) <= Cardinality(S) + 1
      <4>1. IsFiniteSet(S \union {x})
        BY <3>2, FS_AddElement
      <4>2. Cardinality(S \union {x}) \in {Cardinality(S), Cardinality(S) + 1}
        BY <3>2, FS_AddElement, Zenon
      <4> QED
        BY <3>2, <4>1, <4>2
    <3> QED
      BY <3>1, <3>2
  <2>3. Cardinality(RowsOf(v, kind)') <= Cardinality(RowsOf(v, kind) \union {issued + 1})
    BY <2>1, <2>2, FS_Subset
  <2>4. Cardinality(RowsOf(v, kind) \union {issued + 1}) \in Nat
    BY <2>2, FS_CardinalityType
  <2> QED
    BY <1>3, <2>2, <2>3, <2>4, FiniteLinks
<1>4. CASE ~(v = u /\ kind = type)
  <2>1. RowsOf(v, kind)' \subseteq RowsOf(v, kind)
    BY <1>1, <1>4 DEF RowsOf
  <2> QED
    BY <1>2, <2>1, NoNewLink
<1> QED
  BY <1>3, <1>4

\* Steps of requests and others that make no link.
LEMMA LinkNeutralStep ==
    ASSUME Inv, LinksAndMakers, NEW q \in Requests, NEW r,
           request' = [request EXCEPT ![q] = r],
           r.pc # "deleted",
           UNCHANGED row \/ \E t : row' = [row EXCEPT ![t] = None]
    PROVE  LinksAndMakers'
<1>1. \A k \in Requests : request'[k] = IF k = q THEN r ELSE request[k]
  BY DEF Inv, TypeOK
<1>2. \A t \in Tokens : row'[t] # None => row'[t] = row[t]
  BY DEF Inv, TypeOK
<1> QED
  BY <1>1, <1>2, NoLinkAtAll

LEMMA LinkStart ==
    ASSUME Inv, LinksAndMakers, NEW q \in Requests, NEW op, NEW u, NEW t, NEW seen, NEW new,
           Start(q, op, u, t, seen, new)
    PROVE  LinksAndMakers'
<1> DEFINE r == [pc |-> "valid", op |-> op, user |-> u, token |-> t, seen |-> seen, new |-> new]
<1>1. request' = [request EXCEPT ![q] = r] /\ r.pc # "deleted" /\ UNCHANGED row
  BY DEF Start, tables
<1> HIDE DEF r
<1> QED
  BY <1>1, LinkNeutralStep

LEMMA LinkRegister ==
    ASSUME Inv, LinksAndMakers, NEW q \in Requests,
           Register(q) \/ HandleOAuthCallback(q) \/ VerifyEmail(q)
           \/ ConfirmPasswordReset(q) \/ ChangePassword(q) \/ RequestFails(q)
    PROVE  LinksAndMakers'
<1>1. CASE \/ \E u \in Users, p \in Passwords : ValidateRegister(q, u, p)
           \/ \E u \in Users : FindOAuthAccount(q, u)
           \/ \E t \in Tokens : ValidateVerifyEmail(q, t)
           \/ \E t \in Tokens, p \in Passwords : ValidateResetPasswordConfirm(q, t, p)
           \/ \E u \in Users, p \in Passwords : ValidateChangePassword(q, u, p)
  BY <1>1, LinkStart DEF ValidateRegister, FindOAuthAccount, ValidateVerifyEmail,
                         ValidateResetPasswordConfirm, ValidateChangePassword
<1>2. CASE CreateUser(q)
  <2>u. PICK u : u = request[q].user
    OBVIOUS
  <2>1. u \in Users /\ ~Known(u)
    BY <1>2, <2>u, RequestFacts DEF CreateUser, Known
  <2>2. RowsOf(u, "EMAIL_VERIFICATION") = {}
    BY <2>1 DEF RowsOf, Inv, RowsAreOfUsers
  <2>3. \A k \in Requests : request'[k].pc = "deleted" => request'[k] = request[k]
    BY <1>2 DEF CreateUser, Inv, TypeOK, RequestRecord
  <2>4. Makers(u, "EMAIL_VERIFICATION")' = {}
    <3> SUFFICES ASSUME NEW k \in Requests, request[k].pc = "deleted" PROVE request[k].user # u
      BY <2>3 DEF Makers
    <3>1. RequestOK(request[k])
      BY DEF Inv
    <3> QED
      BY <2>1, <3>1 DEF RequestOK, Idle
  <2>5. Cardinality(Requests) \in Nat /\ Cardinality(Requests) # 0
    BY AccountConstants, FS_CardinalityType, FS_EmptySet
  <2>6. Cardinality({}) = 0
    BY FS_EmptySet
  <2>7. row' = [row EXCEPT ![issued + 1] =
                  [user |-> u, type |-> "EMAIL_VERIFICATION", expired |-> FALSE]]
        /\ issued < MaxTokens
    BY <1>2, <2>u DEF CreateUser
  <2>8. Cardinality(RowsOf(u, "EMAIL_VERIFICATION"))
           + Cardinality(Makers(u, "EMAIL_VERIFICATION")') < Cardinality(Requests)
    BY <2>2, <2>4, <2>5, <2>6
  <2> QED
    BY <2>1, <2>3, <2>7, <2>8, OneNewLink DEF Types
<1>3. CASE \/ ActivateShadowUser(q) \/ LinkOAuthAccount(q) \/ CreateOAuthUser(q)
           \/ DeleteByToken(q) \/ UpdatePassword(q) \/ RequestFails(q)
  <2>1. request' = [request EXCEPT ![q] = Idle] /\ Idle.pc # "deleted"
    BY <1>3 DEF ActivateShadowUser, LinkOAuthAccount, CreateOAuthUser, DeleteByToken,
                UpdatePassword, RequestFails, Idle
  <2>2. UNCHANGED row \/ \E t : row' = [row EXCEPT ![t] = None]
    BY <1>3 DEF ActivateShadowUser, LinkOAuthAccount, CreateOAuthUser, DeleteByToken,
                UpdatePassword, RequestFails, tables
  <2> QED
    BY <2>1, <2>2, LinkNeutralStep
<1>4. CASE VerifyUser(q) \/ SetPassword(q)
  <2>1. request' = [request EXCEPT ![q].pc = "written"] /\ UNCHANGED row
    BY <1>4 DEF VerifyUser, SetPassword
  <2>2. PICK r : r = [request[q] EXCEPT !.pc = "written"]
    OBVIOUS
  <2>3. request' = [request EXCEPT ![q] = r] /\ r.pc = "written"
    BY <2>1, <2>2 DEF Inv, TypeOK, RequestRecord
  <2> QED
    BY <2>1, <2>3, LinkNeutralStep
<1> QED
  BY <1>1, <1>2, <1>3, <1>4 DEF Register, HandleOAuthCallback, VerifyEmail,
                                ConfirmPasswordReset, ChangePassword

LEMMA LinkRenew ==
    ASSUME Inv, LinksAndMakers, NEW q \in Requests, RenewToken(q)
    PROVE  LinksAndMakers'
<1>1. CASE \/ \E u \in Users : ValidateResendVerification(q, u)
           \/ \E u \in Users : ValidateResetPasswordRequest(q, u)
  BY <1>1, LinkStart DEF ValidateResendVerification, ValidateResetPasswordRequest
<1>2. CASE DeleteByUserIdAndType(q)
  <2>u. PICK u : u = request[q].user
    OBVIOUS
  <2>t. PICK type : type = TypeOf(request[q].op)
    OBVIOUS
  <2>1. \A t \in Tokens : row'[t] = IF t \in RowsOf(u, type) THEN None ELSE row[t]
    BY <1>2, <2>u, <2>t DEF DeleteByUserIdAndType
  <2>2. \A k \in Requests : k # q => request'[k] = request[k]
    BY <1>2 DEF DeleteByUserIdAndType, Inv, TypeOK
  <2>3. request'[q].user = u /\ TypeOf(request'[q].op) = type
    BY <1>2, <2>u, <2>t DEF DeleteByUserIdAndType, Inv, TypeOK, RequestRecord
  <2> SUFFICES ASSUME NEW v \in Users, NEW kind \in Types
               PROVE  Cardinality(RowsOf(v, kind)') + Cardinality(Makers(v, kind)')
                         <= Cardinality(Requests)
    BY DEF LinksAndMakers
  <2>4. CASE v = u /\ kind = type
    <3>1. RowsOf(v, kind)' = {}
      BY <2>1, <2>4 DEF RowsOf
    <3> QED
      BY <3>1, FiniteLinks, FS_EmptySet
  <2>5. CASE ~(v = u /\ kind = type)
    <3>1. RowsOf(v, kind)' \subseteq RowsOf(v, kind)
      BY <2>1 DEF RowsOf
    <3>2. Makers(v, kind)' \subseteq Makers(v, kind)
      BY <2>2, <2>3, <2>5 DEF Makers
    <3> QED
      BY <3>1, <3>2, NoNewLink
  <2> QED
    BY <2>4, <2>5
<1>3. CASE CreateVerificationRequest(q)
  <2>u. PICK u : u = request[q].user
    OBVIOUS
  <2>t. PICK type : type = TypeOf(request[q].op)
    OBVIOUS
  <2>1. u \in Users /\ type \in Types
    BY <1>3, <2>u, <2>t, RequestFacts DEF CreateVerificationRequest, TypeOf, Types
  <2>2. /\ row' = [row EXCEPT ![issued + 1] = [user |-> u, type |-> type, expired |-> FALSE]]
        /\ issued < MaxTokens
    BY <1>3, <2>u, <2>t DEF CreateVerificationRequest
  <2>3. /\ \A k \in Requests : k # q => request'[k] = request[k]
        /\ request'[q].pc = "stored"
    BY <1>3 DEF CreateVerificationRequest, Inv, TypeOK, RequestRecord
  <2>4. q \in Makers(u, type) /\ q \notin Makers(u, type)'
    BY <1>3, <2>3, <2>u, <2>t DEF CreateVerificationRequest, Makers
  <2>5. Makers(u, type)' \subseteq Makers(u, type) \ {q}
    BY <2>3 DEF Makers
  <2>6. /\ IsFiniteSet(Makers(u, type) \ {q})
        /\ Cardinality(Makers(u, type) \ {q}) = Cardinality(Makers(u, type)) - 1
    BY <2>4, FiniteLinks, FS_RemoveElement
  <2>7. Cardinality(Makers(u, type)') <= Cardinality(Makers(u, type)) - 1
    BY <2>5, <2>6, FS_Subset
  <2>8. Cardinality(RowsOf(u, type)) + Cardinality(Makers(u, type)') < Cardinality(Requests)
    BY <2>1, <2>7, FiniteLinks DEF LinksAndMakers
  <2>9. \A k \in Requests : request'[k].pc = "deleted" => request'[k] = request[k]
    BY <2>3
  <2> QED
    BY <2>1, <2>2, <2>8, <2>9, OneNewLink
<1>4. CASE SendToken(q)
  <2>1. request' = [request EXCEPT ![q] = Idle] /\ Idle.pc # "deleted" /\ UNCHANGED row
    BY <1>4 DEF SendToken, tables, Idle
  <2> QED
    BY <2>1, LinkNeutralStep
<1> QED
  BY <1>1, <1>2, <1>3, <1>4 DEF RenewToken

LEMMA LinkWorld ==
    ASSUME Inv, LinksAndMakers,
           \/ \E u \in Users : CreateShadowUser(u)
           \/ \E t \in Tokens : TokenExpires(t)
           \/ DeleteExpired
           \/ UNCHANGED vars
    PROVE  LinksAndMakers'
<1>1. UNCHANGED request
  BY DEF CreateShadowUser, TokenExpires, DeleteExpired, vars
<1>2. \A t \in Tokens : row'[t] # None =>
         row[t] # None /\ row'[t].user = row[t].user /\ row'[t].type = row[t].type
  <2>1. CASE \E u \in Users : CreateShadowUser(u)
    BY <2>1 DEF CreateShadowUser
  <2>2. ASSUME NEW k \in Tokens, TokenExpires(k)
        PROVE  \A t \in Tokens : row'[t] # None =>
                  row[t] # None /\ row'[t].user = row[t].user /\ row'[t].type = row[t].type
    <3>1. row[k] \in VerificationRow
      BY <2>2 DEF TokenExpires, Inv, TypeOK
    <3>2. PICK v : v = [row[k] EXCEPT !.expired = TRUE]
      OBVIOUS
    <3>3. v.user = row[k].user /\ v.type = row[k].type
      BY <3>1, <3>2 DEF VerificationRow
    <3>4. \A t \in Tokens : row'[t] = IF t = k THEN v ELSE row[t]
      BY <2>2, <3>2 DEF TokenExpires, Inv, TypeOK
    <3> QED
      BY <2>2, <3>3, <3>4 DEF TokenExpires
  <2>3. CASE DeleteExpired
    BY <2>3 DEF DeleteExpired
  <2>4. CASE UNCHANGED vars
    BY <2>4 DEF vars
  <2> QED
    BY <2>1, <2>2, <2>3, <2>4
<1> QED
  BY <1>1, <1>2, NoLinkAtAll

\* However resendVerification and requestPasswordReset overlap, a user has no more links
\* of a type than requests can be in progress: a request that creates a link deleted
\* those it found.
THEOREM LinksStayBounded == Spec => []LinksAreBounded
<1>1. Init => LinksAndMakers
  <2> SUFFICES ASSUME Init, NEW u \in Users, NEW type \in Types
               PROVE  RowsOf(u, type) = {} /\ Makers(u, type) = {}
    <3>1. Cardinality({}) = 0 /\ Cardinality(Requests) \in Nat
      BY FS_EmptySet, AccountConstants, FS_CardinalityType
    <3> QED
      BY <3>1 DEF LinksAndMakers
  <2> QED
    BY DEF Init, RowsOf, Makers, Idle
<1>2. Inv /\ LinksAndMakers /\ [Next]_vars => LinksAndMakers'
  BY LinkRegister, LinkRenew, LinkWorld DEF Next, Request
<1>3. LinksAndMakers => LinksAreBounded
  BY FiniteLinks DEF LinksAndMakers, LinksAreBounded
<1> QED
  BY <1>1, <1>2, <1>3, Invariance, PTL DEF Spec

=============================================================================
