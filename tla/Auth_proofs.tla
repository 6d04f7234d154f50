----------------------------- MODULE Auth_proofs -----------------------------
(***************************************************************************)
(* Proofs about Sessions and Mfa, and about Accounts, Sessions and Mfa     *)
(* with one request at a time, for any number of rows, tokens, secrets,    *)
(* codes and requests: that a login that lost its last session makes no    *)
(* other, how many sessions a login has and what logout leaves of it, how  *)
(* many logins a backup code grants, which secret two-factor               *)
(* authentication is on with, and how often a link sets a password.        *)
(***************************************************************************)
EXTENDS MCAuth, Accounts_proofs

\* The operators of FiniteSets that the instances see are the same.
LEMMA SameCounts ==
    /\ \A X : S!Cardinality(X) = Cardinality(X)
    /\ \A X : M!Cardinality(X) = Cardinality(X)
    /\ \A X : S!IsFiniteSet(X) <=> IsFiniteSet(X)
    /\ \A X : M!IsFiniteSet(X) <=> IsFiniteSet(X)
  BY DEF S!Cardinality, M!Cardinality, Cardinality, S!IsFiniteSet, M!IsFiniteSet, IsFiniteSet

\* A finite set counts at most one element if and only if any two of it are the same.
LEMMA AtMostOne ==
    ASSUME NEW X, IsFiniteSet(X)
    PROVE  Cardinality(X) <= 1 <=> \A x, y \in X : x = y
<1>1. CASE X = {}
  BY <1>1, FS_EmptySet
<1>2. CASE X # {}
  <2>1. PICK x : x \in X
    BY <1>2
  <2>2. ASSUME \A y, z \in X : y = z PROVE Cardinality(X) <= 1
    <3>1. X = {x}
      BY <2>1, <2>2
    <3> QED
      BY <3>1, FS_Singleton
  <2>3. ASSUME Cardinality(X) <= 1 PROVE \A y, z \in X : y = z
    <3>1. Cardinality(X) \in Nat /\ Cardinality(X) # 0
      BY <1>2, FS_CardinalityType, FS_EmptySet
    <3>2. Cardinality(X) = 1
      BY <2>3, <3>1
    <3>3. PICK z : X = {z}
      BY <3>2, FS_Singleton
    <3> QED
      BY <3>3
  <2> QED
    BY <2>2, <2>3
<1> QED
  BY <1>1, <1>2

LEMMA Requests1 == IsFiniteSet(Requests) /\ Cardinality(Requests) \in Nat
  BY AccountConstants, FS_CardinalityType

\* At most one of the requests is not where Idle is.
LEMMA OneBusy ==
    ASSUME NEW f, NEW idle, Cardinality({q \in Requests : f[q] # idle}) <= 1
    PROVE  \A q, k \in Requests : f[q] # idle /\ f[k] # idle => q = k
<1>1. IsFiniteSet({q \in Requests : f[q] # idle})
  BY Requests1, FS_Subset
<1> QED
  BY <1>1, AtMostOne

-----------------------------------------------------------------------------
(* Sessions                                                                 *)

\* Rows and logins are those that were created.
SessionsOK ==
    /\ S!TypeOK
    /\ \A i \in S!Ids : session[i] # None => i <= rows /\ session[i].login <= rows
    /\ \A q \in Requests :
          /\ login[q] # S!Idle => login[q].remember \in BOOLEAN
          /\ login[q].login # None => login[q].login <= rows

\* What a step does to the sessions that are there: none comes back.
RowsShrink ==
    /\ session' \in [S!Ids -> S!Row \union {None}]
    /\ \A i \in S!Ids :
          /\ session'[i] # None =>
                /\ session[i] # None
                /\ session'[i].login = session[i].login
                /\ session'[i].token = session[i].token
          /\ S!Exists(i)' => S!Exists(i)

\* Deleting sessions.
LEMMA DeleteShrinks ==
    ASSUME SessionsOK, NEW ids \in SUBSET S!Ids, \A i \in ids : session[i] # None,
           session' = S!Delete(ids)
    PROVE  RowsShrink /\ \A i \in ids : ~S!Exists(i)'
<1>1. \A i \in S!Ids :
         session'[i] = IF i \in ids THEN [session[i] EXCEPT !.state = "deleted"] ELSE session[i]
  BY DEF S!Delete
<1>2. ASSUME NEW i \in S!Ids
      PROVE  /\ session'[i] \in S!Row \union {None}
             /\ session'[i] # None =>
                   /\ session[i] # None
                   /\ session'[i].login = session[i].login
                   /\ session'[i].token = session[i].token
             /\ i \in ids => session'[i].state = "deleted"
             /\ i \notin ids => session'[i] = session[i]
  <2>1. CASE i \in ids
    <3>1. session[i] \in S!Row
      BY <2>1 DEF SessionsOK, S!TypeOK
    <3> QED
      BY <1>1, <2>1, <3>1 DEF S!Row
  <2>2. CASE i \notin ids
    BY <1>1, <2>2 DEF SessionsOK, S!TypeOK
  <2> QED
    BY <2>1, <2>2
<1>3. session' \in [S!Ids -> S!Row \union {None}]
  <2>1. session' = [i \in S!Ids |-> session'[i]]
    BY DEF S!Delete
  <2> QED
    BY <1>2, <2>1
<1>4. ASSUME NEW i \in S!Ids
      PROVE  /\ S!Exists(i)' => S!Exists(i)
             /\ i \in ids => ~S!Exists(i)'
  BY <1>2 DEF S!Exists
<1> QED
  BY <1>2, <1>3, <1>4 DEF RowsShrink

LEMMA NoChangeShrinks ==
    ASSUME SessionsOK, UNCHANGED session
    PROVE  RowsShrink
  BY DEF SessionsOK, S!TypeOK, RowsShrink, S!Exists

\* What each step of a request does to it, and to the sessions.
SessionStep(q, r) ==
    /\ login' = [login EXCEPT ![q] = r]
    /\ r \in S!RequestRecord
    /\ r # S!Idle => r.remember \in BOOLEAN

\* A request q goes on as r: with no login, with that of a session it found, or with the
\* one it had, whose sessions it deletes.
GoesOn(q, r) ==
    \/ r.login = None
    \/ \E i \in S!Ids :
          /\ login[q].pc = "idle"
          /\ UNCHANGED session
          /\ S!Exists(i) /\ session[i].login = r.login
          /\ r.pc = "delete" /\ r.token = session[i].token
    \/ /\ login[q].pc = "delete" /\ r.pc = "create"
       /\ r.login = login[q].login
       /\ \A i \in S!Ids : S!Exists(i) /\ session[i].token = login[q].token => ~S!Exists(i)'

\* A step that makes no session and ends no login, and logout.
QuietStep ==
    /\ RowsShrink
    /\ UNCHANGED <<rows, ended>>
    /\ now' \in S!Seconds
    /\ \/ UNCHANGED login
       \/ \E q \in Requests, r \in S!RequestRecord : SessionStep(q, r) /\ GoesOn(q, r)

LogoutStep ==
    /\ RowsShrink
    /\ UNCHANGED <<rows, now, login>>
    /\ \E t \in S!Seconds :
          /\ ended' = ended \union {session[i].login : i \in S!RowsWith(t)}
          /\ \A i \in S!RowsWith(t) : ~S!Exists(i)'

\* The steps of Sessions, by what they do to the rows: all but one make none.
LEMMA SessionSteps ==
    ASSUME SessionsOK, [S!Next]_svars
    PROVE  QuietStep \/ LogoutStep \/ \E q \in Requests : S!CreateSession(q)
<1>0. SessionsOK /\ S!TypeOK
  BY DEF SessionsOK
<1>1. ASSUME NEW q \in Requests, NEW remember \in BOOLEAN, S!ValidateLogin(q, remember)
      PROVE  \E r \in S!RequestRecord : SessionStep(q, r) /\ r.login = None
                /\ UNCHANGED <<session, rows, now, ended>>
  <2> DEFINE r == [pc |-> "create", token |-> None, remember |-> remember, login |-> None]
  <2>1. r \in S!RequestRecord /\ r.login = None /\ r.remember \in BOOLEAN
    BY DEF S!RequestRecord
  <2>2. login' = [login EXCEPT ![q] = r] /\ UNCHANGED <<session, rows, now, ended>>
    BY <1>1 DEF S!ValidateLogin
  <2> HIDE DEF r
  <2> QED
    BY <2>1, <2>2 DEF SessionStep
<1>2. ASSUME NEW q \in Requests, NEW i \in S!Ids, S!ValidateRefreshToken(q, i)
      PROVE  /\ \E r \in S!RequestRecord :
                   /\ SessionStep(q, r)
                   /\ S!Exists(i) /\ session[i].login = r.login
                   /\ r.pc = "delete" /\ r.token = session[i].token
             /\ login[q].pc = "idle"
             /\ UNCHANGED <<session, rows, now, ended>>
  <2> DEFINE r == [pc |-> "delete", token |-> session[i].token,
                   remember |-> session[i].remember, login |-> session[i].login]
  <2>1. session[i] \in S!Row /\ S!Exists(i)
    BY <1>0, <1>2 DEF S!ValidateRefreshToken, S!MayRefresh, S!TypeOK, S!Exists
  <2>2. /\ r \in S!RequestRecord /\ r.login = session[i].login /\ r.remember \in BOOLEAN
        /\ r.pc = "delete" /\ r.token = session[i].token
    BY <2>1 DEF S!RequestRecord, S!Row
  <2>3. /\ login' = [login EXCEPT ![q] = r] /\ login[q].pc = "idle"
        /\ UNCHANGED <<session, rows, now, ended>>
    BY <1>2 DEF S!ValidateRefreshToken
  <2> HIDE DEF r
  <2> QED
    BY <2>1, <2>2, <2>3 DEF SessionStep
<1>3. ASSUME NEW q \in Requests, S!DeleteSessions(q)
      PROVE  /\ \E r \in S!RequestRecord :
                   /\ SessionStep(q, r)
                   /\ r.pc = "create" /\ r.login = login[q].login
             /\ login[q].pc = "delete"
             /\ RowsShrink
             /\ \A i \in S!Ids : S!Exists(i) /\ session[i].token = login[q].token => ~S!Exists(i)'
             /\ UNCHANGED <<rows, now, ended>>
  <2>1. PICK r : r = [login[q] EXCEPT !.pc = "create"]
    OBVIOUS
  <2>2. login[q] \in S!RequestRecord /\ login[q].pc = "delete" /\ login[q] # S!Idle
    BY <1>0, <1>3 DEF S!DeleteSessions, S!TypeOK, S!Idle
  <2>3. r \in S!RequestRecord /\ r.pc = "create" /\ r.login = login[q].login
        /\ r.remember \in BOOLEAN
    BY <2>1, <2>2 DEF S!RequestRecord, SessionsOK
  <2>4. login' = [login EXCEPT ![q] = r] /\ UNCHANGED <<rows, now, ended>>
    BY <1>0, <1>3, <2>1 DEF S!DeleteSessions, S!TypeOK
  <2>5. session' = S!Delete(S!RowsWith(login[q].token))
    BY <1>3 DEF S!DeleteSessions
  <2>6. /\ S!RowsWith(login[q].token) \in SUBSET S!Ids
        /\ \A i \in S!RowsWith(login[q].token) : session[i] # None
    BY DEF S!RowsWith, S!Exists
  <2>7. RowsShrink /\ \A i \in S!RowsWith(login[q].token) : ~S!Exists(i)'
    BY <2>5, <2>6, DeleteShrinks
  <2> QED
    BY <2>2, <2>3, <2>4, <2>7 DEF SessionStep, S!RowsWith
<1>4. ASSUME NEW q \in Requests, NEW t \in S!Seconds, S!Logout(q, t)
      PROVE  /\ RowsShrink
             /\ UNCHANGED <<rows, now, login>>
             /\ ended' = ended \union {session[i].login : i \in S!RowsWith(t)}
             /\ \A i \in S!RowsWith(t) : ~S!Exists(i)'
  <2>1. /\ S!RowsWith(t) \in SUBSET S!Ids
        /\ \A i \in S!RowsWith(t) : session[i] # None
    BY DEF S!RowsWith, S!Exists
  <2>2. /\ session' = S!Delete(S!RowsWith(t))
        /\ UNCHANGED <<rows, now, login>>
        /\ ended' = ended \union {session[i].login : i \in S!RowsWith(t)}
    BY <1>4 DEF S!Logout
  <2> QED
    BY <2>1, <2>2, DeleteShrinks
<1>5. ASSUME NEW q \in Requests, S!RequestFails(q)
      PROVE  \E r \in S!RequestRecord : SessionStep(q, r) /\ r.login = None
                /\ UNCHANGED <<session, rows, now, ended>>
  <2>1. S!Idle \in S!RequestRecord /\ S!Idle.login = None
    BY DEF S!Idle, S!RequestRecord
  <2> QED
    BY <1>5, <2>1 DEF S!RequestFails, SessionStep
<1>6. CASE S!Tick
  <2>1. now' \in S!Seconds /\ UNCHANGED <<session, rows, login, ended>>
    BY <1>0, <1>6, AuthConstants DEF S!Tick, S!TypeOK, S!Seconds, S!SessionConstants
  <2> QED
    BY <2>1, NoChangeShrinks DEF QuietStep
<1>7. ASSUME NEW i \in S!Ids, S!SessionExpires(i)
      PROVE  RowsShrink /\ UNCHANGED <<rows, now, login, ended>>
  <2>1. PICK e : e = [session[i] EXCEPT !.state = "expired"]
    OBVIOUS
  <2>2. session[i] \in S!Row /\ session[i].state = "live"
    BY <1>0, <1>7 DEF S!SessionExpires, S!TypeOK
  <2>3. /\ e \in S!Row /\ e.login = session[i].login /\ e.token = session[i].token
    BY <2>1, <2>2 DEF S!Row
  <2>4. /\ session' = [session EXCEPT ![i] = e]
        /\ UNCHANGED <<rows, now, login, ended>>
    BY <1>0, <1>7, <2>1 DEF S!SessionExpires, S!TypeOK
  <2>5. session[i] # None /\ S!Exists(i)
    BY <1>7, <2>2 DEF S!SessionExpires, S!Exists
  <2>6. /\ session' \in [S!Ids -> S!Row \union {None}]
        /\ \A k \in S!Ids : session'[k] = IF k = i THEN e ELSE session[k]
    BY <1>0, <2>3, <2>4 DEF S!TypeOK
  <2> QED
    BY <2>3, <2>4, <2>5, <2>6 DEF RowsShrink, S!Exists
<1>8. CASE S!DeleteExpiredSessions
  <2>1. /\ {i \in S!Ids : S!Expired(i)} \in SUBSET S!Ids
        /\ \A i \in {k \in S!Ids : S!Expired(k)} : session[i] # None
    BY DEF S!Expired
  <2>2. /\ session' = S!Delete({i \in S!Ids : S!Expired(i)})
        /\ now' \in S!Seconds /\ UNCHANGED <<rows, login, ended>>
    BY <1>0, <1>8 DEF S!DeleteExpiredSessions, S!TypeOK
  <2>3. RowsShrink
    BY <2>1, <2>2, DeleteShrinks
  <2> QED
    BY <2>2, <2>3 DEF QuietStep
<1>9. CASE UNCHANGED svars
  BY <1>0, <1>9, NoChangeShrinks DEF svars, S!TypeOK, QuietStep
<1>10. \A q \in Requests :
          S!Request(q) =>
             \/ \E remember \in BOOLEAN : S!ValidateLogin(q, remember)
             \/ S!CreateSession(q)
             \/ \E i \in S!Ids : S!ValidateRefreshToken(q, i)
             \/ S!DeleteSessions(q)
             \/ \E t \in S!Seconds : S!Logout(q, t)
             \/ S!RequestFails(q)
  BY DEF S!Request, S!Login, S!RefreshToken
<1>n. now \in S!Seconds
  BY <1>0 DEF S!TypeOK
<1>11. ASSUME NEW q \in Requests, S!Request(q)
       PROVE  QuietStep \/ LogoutStep \/ S!CreateSession(q)
  <2>1. CASE \/ \E remember \in BOOLEAN : S!ValidateLogin(q, remember)
             \/ S!RequestFails(q)
    BY <1>n, <1>1, <1>5, <2>1, NoChangeShrinks DEF QuietStep, GoesOn
  <2>2. CASE \E i \in S!Ids : S!ValidateRefreshToken(q, i)
    BY <1>n, <1>2, <2>2, NoChangeShrinks DEF QuietStep, GoesOn
  <2>3. CASE S!DeleteSessions(q)
    BY <1>n, <1>3, <2>3 DEF QuietStep, GoesOn
  <2>4. CASE \E t \in S!Seconds : S!Logout(q, t)
    BY <1>4, <2>4 DEF LogoutStep
  <2> QED
    BY <1>10, <1>11, <2>1, <2>2, <2>3, <2>4
<1>12. CASE S!Tick \/ (\E i \in S!Ids : S!SessionExpires(i)) \/ S!DeleteExpiredSessions
            \/ UNCHANGED svars
  BY <1>n, <1>6, <1>7, <1>8, <1>9, <1>12 DEF QuietStep
<1> QED
  BY <1>11, <1>12 DEF S!Next

\* The step that makes a session: of the login of the request, or of a login of its own.
LEMMA CreateFacts ==
    ASSUME SessionsOK, NEW q \in Requests, S!CreateSession(q)
    PROVE  /\ rows + 1 \in S!Ids /\ rows' = rows + 1 /\ UNCHANGED <<now, ended>>
           /\ session' \in [S!Ids -> S!Row \union {None}]
           /\ \A i \in S!Ids : i # rows + 1 => session'[i] = session[i]
           /\ session'[rows + 1] \in S!Row
           /\ session'[rows + 1].login =
                 IF login[q].login = None THEN rows + 1 ELSE login[q].login
           /\ login[q].pc = "create" /\ login[q] # S!Idle
           /\ SessionStep(q, S!Idle)
<1> DEFINE l == IF login[q].login = None THEN rows + 1 ELSE login[q].login
           new == [token |-> now, remember |-> login[q].remember, state |-> "live", login |-> l]
<1>1. S!TypeOK /\ login[q] \in S!RequestRecord /\ login[q].pc = "create"
  BY DEF SessionsOK, S!TypeOK, S!CreateSession
<1>2. login[q] # S!Idle
  BY <1>1 DEF S!Idle
<1>3. rows + 1 \in S!Ids
  BY <1>1, AuthConstants DEF S!CreateSession, S!TypeOK, S!Ids, S!SessionConstants
<1>4. l \in S!Ids
  BY <1>1, <1>3 DEF S!RequestRecord
<1> HIDE DEF l
<1>5. new \in S!Row /\ new.login = l
  BY <1>1, <1>2, <1>4 DEF S!Row, SessionsOK, S!TypeOK
<1>6. /\ session' = [session EXCEPT ![rows + 1] = new]
      /\ rows' = rows + 1 /\ UNCHANGED <<now, ended>>
      /\ login' = [login EXCEPT ![q] = S!Idle]
  BY DEF S!CreateSession, l
<1> HIDE DEF new
<1>7. /\ session' \in [S!Ids -> S!Row \union {None}]
      /\ \A i \in S!Ids : i # rows + 1 => session'[i] = session[i]
      /\ session'[rows + 1] = new
  BY <1>1, <1>3, <1>5, <1>6 DEF S!TypeOK
<1>8. S!Idle \in S!RequestRecord
  BY DEF S!Idle, S!RequestRecord
<1> QED
  BY <1>1, <1>2, <1>3, <1>5, <1>6, <1>7, <1>8 DEF l, SessionStep

LEMMA SessionsInit == S!Init => SessionsOK
<1> SUFFICES ASSUME S!Init PROVE SessionsOK
  OBVIOUS
<1>1. S!Idle \in S!RequestRecord /\ S!Idle.login = None
  BY DEF S!Idle, S!RequestRecord
<1>2. 0 \in S!Seconds /\ 0 \in 0..MaxRows
  BY AuthConstants DEF S!Seconds, S!SessionConstants
<1> QED
  BY <1>1, <1>2 DEF S!Init, S!TypeOK, SessionsOK

LEMMA SessionsStep ==
    ASSUME SessionsOK, [S!Next]_svars
    PROVE  SessionsOK'
<1>1. S!TypeOK /\ None \notin Nat /\ MaxRows \in Nat
  BY AuthConstants DEF SessionsOK, S!SessionConstants
<1>r. rows \in Nat /\ S!Ids \subseteq Nat
  BY <1>1 DEF S!TypeOK, S!Ids
<1>2. CASE QuietStep
  <2>1. /\ RowsShrink /\ UNCHANGED <<rows, ended>> /\ now' \in S!Seconds
    BY <1>2 DEF QuietStep
  <2>2. /\ login' \in [Requests -> S!RequestRecord]
        /\ \A q \in Requests :
              /\ login'[q] # S!Idle => login'[q].remember \in BOOLEAN
              /\ login'[q].login # None => login'[q].login <= rows
    <3>1. CASE UNCHANGED login
      BY <1>1, <3>1 DEF SessionsOK, S!TypeOK
    <3>2. ASSUME NEW q \in Requests, NEW r \in S!RequestRecord, SessionStep(q, r), GoesOn(q, r)
          PROVE  /\ login' \in [Requests -> S!RequestRecord]
                 /\ \A k \in Requests :
                       /\ login'[k] # S!Idle => login'[k].remember \in BOOLEAN
                       /\ login'[k].login # None => login'[k].login <= rows
      <4>1. /\ login' \in [Requests -> S!RequestRecord]
            /\ \A k \in Requests : login'[k] = IF k = q THEN r ELSE login[k]
        BY <1>1, <3>2 DEF SessionStep, S!TypeOK
      <4>2. r.login # None => r.login <= rows
        BY <3>2 DEF GoesOn, SessionsOK, S!Exists
      <4> QED
        BY <3>2, <4>1, <4>2 DEF SessionStep, SessionsOK
    <3> QED
      BY <1>2, <3>1, <3>2 DEF QuietStep
  <2> QED
    BY <1>1, <2>1, <2>2 DEF SessionsOK, S!TypeOK, RowsShrink
<1>3. CASE LogoutStep
  <2>1. RowsShrink /\ UNCHANGED <<rows, now, login>>
    BY <1>3 DEF LogoutStep
  <2>2. ended' \subseteq S!Ids
    <3>1. \A t \in S!Seconds : \A i \in S!RowsWith(t) : session[i].login \in S!Ids
      BY <1>1 DEF S!TypeOK, S!RowsWith, S!Exists, S!Row
    <3> QED
      BY <1>1, <1>3, <3>1 DEF LogoutStep, S!TypeOK
  <2> QED
    BY <1>1, <2>1, <2>2 DEF SessionsOK, S!TypeOK, RowsShrink
<1>4. ASSUME NEW q \in Requests, S!CreateSession(q)
      PROVE  SessionsOK'
  <2>1. /\ rows + 1 \in S!Ids /\ rows' = rows + 1 /\ UNCHANGED <<now, ended>>
        /\ session' \in [S!Ids -> S!Row \union {None}]
        /\ \A i \in S!Ids : i # rows + 1 => session'[i] = session[i]
        /\ session'[rows + 1].login =
              IF login[q].login = None THEN rows + 1 ELSE login[q].login
        /\ login' = [login EXCEPT ![q] = S!Idle]
        /\ S!Idle \in S!RequestRecord
    BY <1>4, CreateFacts DEF SessionStep
  <2>2. /\ login' \in [Requests -> S!RequestRecord]
        /\ \A k \in Requests : login'[k] = IF k = q THEN S!Idle ELSE login[k]
    BY <1>1, <2>1 DEF S!TypeOK
  <2>3. S!Idle.login = None
    BY DEF S!Idle
  <2>4. \A k \in Requests :
           /\ login'[k] # S!Idle => login'[k].remember \in BOOLEAN
           /\ login'[k].login # None => login'[k].login <= rows + 1
    <3> SUFFICES ASSUME NEW k \in Requests
                 PROVE  /\ login'[k] # S!Idle => login'[k].remember \in BOOLEAN
                        /\ login'[k].login # None => login'[k].login <= rows + 1
      OBVIOUS
    <3>1. login[k].login # None => login[k].login <= rows + 1
      <4>1. login[k] \in S!RequestRecord
        BY <1>1 DEF S!TypeOK
      <4>2. login[k].login \in S!Ids \union {None}
        BY <4>1 DEF S!RequestRecord
      <4>3. CASE login[k].login # None
        <5>1. login[k].login <= rows /\ login[k].login \in Nat
          BY <1>r, <4>2, <4>3 DEF SessionsOK
        <5> QED
          BY <1>r, <5>1
      <4> QED
        BY <4>3
    <3> QED
      BY <2>2, <2>3, <3>1 DEF SessionsOK
  <2>5. \A i \in S!Ids : session'[i] # None => i <= rows + 1 /\ session'[i].login <= rows + 1
    <3> SUFFICES ASSUME NEW i \in S!Ids, session'[i] # None
                 PROVE  i <= rows + 1 /\ session'[i].login <= rows + 1
      OBVIOUS
    <3>1. CASE i # rows + 1
      <4>1. session[i] # None /\ session'[i] = session[i] /\ session[i] \in S!Row
        BY <1>1, <2>1, <3>1 DEF S!TypeOK
      <4>2. i <= rows /\ session[i].login <= rows /\ session[i].login \in Nat
        BY <1>r, <4>1 DEF SessionsOK, S!Row
      <4> QED
        BY <1>r, <4>1, <4>2
    <3>2. CASE i = rows + 1
      <4>1. login[q].login # None => login[q].login <= rows /\ login[q].login \in Nat
        BY <1>1, <1>r DEF SessionsOK, S!TypeOK, S!RequestRecord
      <4> QED
        BY <1>r, <2>1, <3>2, <4>1
    <3> QED
      BY <3>1, <3>2
  <2>6. rows' \in 0..MaxRows
    BY <1>1, <2>1 DEF S!Ids
  <2> QED
    BY <1>1, <2>1, <2>2, <2>4, <2>5, <2>6 DEF SessionsOK, S!TypeOK
<1> QED
  BY <1>2, <1>3, <1>4, SessionSteps

\* A login that has no session and no request that is refreshing one makes no other: a
\* session is made for a login of its own, or for that of a request that found one.
LEMMA DeadLoginsStep ==
    ASSUME SessionsOK, [S!Next]_svars
    PROVE  \A l \in 1..rows : ~S!Alive(l) => ~S!Alive(l)'
<1> SUFFICES ASSUME NEW l \in 1..rows, ~S!Alive(l) PROVE ~S!Alive(l)'
  OBVIOUS
<1>1. S!TypeOK /\ None \notin Nat /\ rows \in Nat
  BY AuthConstants DEF SessionsOK, S!SessionConstants, S!TypeOK
<1>l. l # None
  BY <1>1
<1>2. /\ \A i \in S!Ids : S!Exists(i) => session[i].login # l
      /\ \A q \in Requests : login[q].login # l
  BY DEF S!Alive, S!RowsOfLogin
<1> SUFFICES /\ \A i \in S!Ids : S!Exists(i)' => session'[i].login # l
             /\ \A q \in Requests : login'[q].login # l
  BY DEF S!Alive, S!RowsOfLogin
<1>3. RowsShrink => \A i \in S!Ids : S!Exists(i)' => session'[i].login # l
  BY <1>2 DEF RowsShrink, S!Exists
<1>4. CASE QuietStep
  <2>1. ASSUME NEW q \in Requests, NEW r \in S!RequestRecord, SessionStep(q, r), GoesOn(q, r)
        PROVE  \A k \in Requests : login'[k].login # l
    <3>1. \A k \in Requests : login'[k] = IF k = q THEN r ELSE login[k]
      BY <1>1, <2>1 DEF SessionStep, S!TypeOK
    <3>2. r.login # l
      BY <1>2, <1>l, <2>1 DEF GoesOn
    <3> QED
      BY <1>2, <3>1, <3>2
  <2> QED
    BY <1>2, <1>3, <1>4, <2>1 DEF QuietStep
<1>5. CASE LogoutStep
  BY <1>2, <1>3, <1>5 DEF LogoutStep
<1>6. ASSUME NEW q \in Requests, S!CreateSession(q)
      PROVE  /\ \A i \in S!Ids : S!Exists(i)' => session'[i].login # l
             /\ \A k \in Requests : login'[k].login # l
  <2>1. /\ \A i \in S!Ids : i # rows + 1 => session'[i] = session[i]
        /\ session'[rows + 1].login =
              IF login[q].login = None THEN rows + 1 ELSE login[q].login
        /\ login' = [login EXCEPT ![q] = S!Idle]
    BY <1>6, CreateFacts DEF SessionStep
  <2>2. \A k \in Requests : login'[k] = IF k = q THEN S!Idle ELSE login[k]
    BY <1>1, <2>1 DEF S!TypeOK
  <2>3. S!Idle.login # l
    BY <1>l DEF S!Idle
  <2>4. session'[rows + 1].login # l
    BY <1>1, <1>2, <2>1
  <2>5. \A i \in S!Ids : S!Exists(i)' => session'[i].login # l
    <3> SUFFICES ASSUME NEW i \in S!Ids, S!Exists(i)' PROVE session'[i].login # l
      OBVIOUS
    <3>1. CASE i # rows + 1
      BY <1>2, <2>1, <3>1 DEF S!Exists
    <3> QED
      BY <2>4, <3>1
  <2> QED
    BY <1>2, <2>2, <2>3, <2>5
<1> QED
  BY <1>4, <1>5, <1>6, SessionSteps

\* With one request at a time: a login has one session, which is the one that a request
\* that refreshes it is about to delete; an ended login has none, and no request.
SessionsInTurn ==
    /\ \A q, k \in Requests : login[q] # S!Idle /\ login[k] # S!Idle => q = k
    /\ \A i, j \in S!Ids :
          S!Exists(i) /\ S!Exists(j) /\ session[i].login = session[j].login => i = j
    /\ \A q \in Requests, i \in S!Ids :
          S!Exists(i) /\ session[i].login = login[q].login =>
             login[q].pc = "delete" /\ session[i].token = login[q].token
    /\ \A l \in ended :
          /\ l <= rows
          /\ \A i \in S!Ids : S!Exists(i) => session[i].login # l
          /\ \A q \in Requests : login[q].login # l

LEMMA SessionsTakeTurns ==
    ASSUME SessionsOK, SessionsInTurn, [S!Next]_svars,
           \A q, k \in Requests : login'[q] # S!Idle /\ login'[k] # S!Idle => q = k,
           ended' # ended => \A q \in Requests : login[q] = S!Idle
    PROVE  SessionsInTurn'
<1>1. S!TypeOK /\ None \notin Nat /\ rows \in Nat /\ S!Ids \subseteq Nat
  BY AuthConstants DEF SessionsOK, S!SessionConstants, S!TypeOK, S!Ids
<1>2. \A i \in S!Ids : S!Exists(i) => session[i].login \in Nat /\ session[i].login # None
  BY <1>1 DEF S!TypeOK, S!Exists, S!Row
<1>3. RowsShrink => \A i \in S!Ids : S!Exists(i)' =>
         /\ S!Exists(i)
         /\ session'[i].login = session[i].login
         /\ session'[i].token = session[i].token
  BY DEF RowsShrink, S!Exists
<1>4. S!Idle.login = None
  BY DEF S!Idle
<1>5. CASE QuietStep
  <2>0. RowsShrink /\ UNCHANGED <<rows, ended>>
    BY <1>5 DEF QuietStep
  <2>1. CASE UNCHANGED login
    BY <1>3, <2>0, <2>1 DEF SessionsInTurn
  <2>2. ASSUME NEW q \in Requests, NEW r \in S!RequestRecord, SessionStep(q, r), GoesOn(q, r)
        PROVE  SessionsInTurn'
    <3>1. \A k \in Requests : login'[k] = IF k = q THEN r ELSE login[k]
      BY <1>1, <2>2 DEF SessionStep, S!TypeOK
    <3>2. ASSUME NEW i \in S!Ids, S!Exists(i)', session'[i].login = r.login
          PROVE  r.pc = "delete" /\ session'[i].token = r.token
      <4>1. /\ S!Exists(i) /\ session[i].login = r.login /\ r.login # None
            /\ session'[i].token = session[i].token
        BY <1>2, <1>3, <2>0, <3>2
      <4>2. CASE \E j \in S!Ids :
                    /\ S!Exists(j) /\ session[j].login = r.login
                    /\ r.pc = "delete" /\ r.token = session[j].token
        BY <4>1, <4>2 DEF SessionsInTurn
      <4>3. CASE /\ r.login = login[q].login
                 /\ \A j \in S!Ids :
                       S!Exists(j) /\ session[j].token = login[q].token => ~S!Exists(j)'
        BY <3>2, <4>1, <4>3 DEF SessionsInTurn
      <4> QED
        BY <2>2, <4>1, <4>2, <4>3 DEF GoesOn
    <3>3. ASSUME NEW l \in ended PROVE r.login # l
      <4>1. l \in Nat /\ l # None
        BY <1>1 DEF S!TypeOK
      <4> QED
        BY <2>2, <4>1 DEF GoesOn, SessionsInTurn
    <3>4. \A k \in Requests, i \in S!Ids :
             S!Exists(i)' /\ session'[i].login = login'[k].login =>
                login'[k].pc = "delete" /\ session'[i].token = login'[k].token
      BY <1>3, <2>0, <3>1, <3>2 DEF SessionsInTurn
    <3>5. \A i, j \in S!Ids :
             S!Exists(i)' /\ S!Exists(j)' /\ session'[i].login = session'[j].login => i = j
      BY <1>3, <2>0 DEF SessionsInTurn
    <3>6. \A l \in ended' :
             /\ l <= rows'
             /\ \A i \in S!Ids : S!Exists(i)' => session'[i].login # l
             /\ \A k \in Requests : login'[k].login # l
      BY <1>3, <2>0, <3>1, <3>3 DEF SessionsInTurn
    <3> QED
      BY <3>4, <3>5, <3>6 DEF SessionsInTurn
  <2> QED
    BY <1>5, <2>1, <2>2 DEF QuietStep
<1>6. CASE LogoutStep
  <2>0. RowsShrink /\ UNCHANGED <<rows, now, login>>
    BY <1>6 DEF LogoutStep
  <2>1. PICK t \in S!Seconds :
           /\ ended' = ended \union {session[i].login : i \in S!RowsWith(t)}
           /\ \A i \in S!RowsWith(t) : ~S!Exists(i)'
    BY <1>6 DEF LogoutStep
  <2>2. ASSUME NEW l \in ended'
        PROVE  /\ l <= rows
               /\ \A i \in S!Ids : S!Exists(i)' => session'[i].login # l
               /\ \A q \in Requests : login[q].login # l
    <3>1. CASE l \in ended
      BY <1>3, <2>0, <3>1 DEF SessionsInTurn
    <3>2. CASE l \notin ended
      <4>1. PICK i \in S!RowsWith(t) : l = session[i].login
        BY <2>1, <2>2, <3>2
      <4>2. i \in S!Ids /\ S!Exists(i) /\ ~S!Exists(i)'
        BY <2>1, <4>1 DEF S!RowsWith
      <4>3. l <= rows /\ l # None
        BY <1>2, <4>1, <4>2 DEF SessionsOK, S!Exists
      <4>4. \A q \in Requests : login[q] = S!Idle
        BY <2>2, <3>2
      <4>5. \A j \in S!Ids : S!Exists(j)' => session'[j].login # l
        BY <1>3, <2>0, <4>1, <4>2 DEF SessionsInTurn
      <4> QED
        BY <1>4, <4>3, <4>4, <4>5
    <3> QED
      BY <3>1, <3>2
  <2>3. \A q \in Requests : login'[q] = login[q]
    BY <2>0
  <2> QED
    BY <1>3, <2>0, <2>2, <2>3 DEF SessionsInTurn
<1>7. ASSUME NEW q \in Requests, S!CreateSession(q)
      PROVE  SessionsInTurn'
  <2> DEFINE new == session'[rows + 1]
  <2>1. /\ rows + 1 \in S!Ids /\ rows' = rows + 1 /\ UNCHANGED <<now, ended>>
        /\ \A i \in S!Ids : i # rows + 1 => session'[i] = session[i]
        /\ new \in S!Row
        /\ new.login = IF login[q].login = None THEN rows + 1 ELSE login[q].login
        /\ login[q].pc = "create" /\ login[q] # S!Idle
        /\ login' = [login EXCEPT ![q] = S!Idle]
    BY <1>7, CreateFacts DEF SessionStep
  <2>2. new.login \in Nat /\ new.login # None
    BY <1>1, <2>1 DEF S!Row
  <2>3. \A i \in S!Ids : i # rows + 1 /\ S!Exists(i)' =>
           S!Exists(i) /\ session'[i] = session[i]
    BY <2>1 DEF S!Exists
  <2>4. \A i \in S!Ids : S!Exists(i) => session[i].login # new.login
    <3> SUFFICES ASSUME NEW i \in S!Ids, S!Exists(i) PROVE session[i].login # new.login
      OBVIOUS
    <3>1. session[i].login <= rows /\ session[i].login \in Nat /\ session[i].login # None
      BY <1>2 DEF SessionsOK, S!Exists
    <3>2. session[i].login # login[q].login
      BY <2>1 DEF SessionsInTurn
    <3> QED
      BY <1>1, <2>1, <3>1, <3>2
  <2>5. \A k \in Requests : login'[k] = S!Idle
    <3>1. \A k \in Requests : login'[k] = IF k = q THEN S!Idle ELSE login[k]
      BY <1>1, <2>1 DEF S!TypeOK
    <3> QED
      BY <2>1, <3>1 DEF SessionsInTurn
  <2>6. \A i, j \in S!Ids :
           S!Exists(i)' /\ S!Exists(j)' /\ session'[i].login = session'[j].login => i = j
    <3> SUFFICES ASSUME NEW i \in S!Ids, NEW j \in S!Ids, S!Exists(i)', S!Exists(j)',
                        session'[i].login = session'[j].login
                 PROVE  i = j
      OBVIOUS
    <3>1. CASE i # rows + 1 /\ j # rows + 1
      BY <2>3, <3>1 DEF SessionsInTurn
    <3>2. CASE i = rows + 1 /\ j # rows + 1
      BY <2>3, <2>4, <3>2
    <3>3. CASE i # rows + 1 /\ j = rows + 1
      BY <2>3, <2>4, <3>3
    <3> QED
      BY <3>1, <3>2, <3>3
  <2>7. \A k \in Requests, i \in S!Ids : S!Exists(i)' => session'[i].login # login'[k].login
    <3> SUFFICES ASSUME NEW i \in S!Ids, S!Exists(i)' PROVE session'[i].login # None
      BY <1>4, <2>5
    <3>1. CASE i # rows + 1
      BY <1>2, <2>3, <3>1
    <3>2. CASE i = rows + 1
      BY <2>2, <3>2
    <3> QED
      BY <3>1, <3>2
  <2>8. ASSUME NEW l \in ended'
        PROVE  /\ l <= rows'
               /\ \A i \in S!Ids : S!Exists(i)' => session'[i].login # l
               /\ \A k \in Requests : login'[k].login # l
    <3>1. /\ l \in Nat /\ l <= rows /\ l # None
          /\ login[q].login # l
          /\ \A i \in S!Ids : S!Exists(i) => session[i].login # l
      BY <1>1, <2>1 DEF SessionsInTurn, S!TypeOK
    <3>2. new.login # l
      BY <1>1, <2>1, <3>1
    <3>3. l <= rows'
      BY <1>1, <2>1, <3>1
    <3>4. \A i \in S!Ids : S!Exists(i)' => session'[i].login # l
      <4> SUFFICES ASSUME NEW i \in S!Ids, S!Exists(i)' PROVE session'[i].login # l
        OBVIOUS
      <4>1. CASE i # rows + 1
        BY <2>3, <3>1, <4>1
      <4>2. CASE i = rows + 1
        BY <3>2, <4>2
      <4> QED
        BY <4>1, <4>2
    <3> QED
      BY <1>4, <2>5, <3>1, <3>3, <3>4
  <2> QED
    BY <2>5, <2>6, <2>7, <2>8 DEF SessionsInTurn
<1> QED
  BY <1>5, <1>6, <1>7, SessionSteps

\* What the invariant says of logins.
LEMMA LoginsInTurn ==
    ASSUME SessionsOK, SessionsInTurn
    PROVE  S!OneSessionPerLogin /\ S!LogoutEndsLogin
<1>1. ASSUME NEW l \in S!Ids PROVE S!Cardinality(S!RowsOfLogin(l)) <= 1
  <2>1. S!RowsOfLogin(l) \in SUBSET (1..MaxRows)
    BY DEF S!RowsOfLogin, S!Ids
  <2>2. IsFiniteSet(S!RowsOfLogin(l))
    <3>1. IsFiniteSet(1..MaxRows)
      BY AuthConstants, FS_Interval DEF S!SessionConstants
    <3> QED
      BY <2>1, <3>1, FS_Subset
  <2>3. \A i, j \in S!RowsOfLogin(l) : i = j
    BY DEF S!RowsOfLogin, SessionsInTurn
  <2> QED
    BY <2>2, <2>3, AtMostOne, SameCounts
<1>2. \A l \in ended : S!RowsOfLogin(l) = {}
  BY DEF SessionsInTurn, S!RowsOfLogin
<1> QED
  BY <1>1, <1>2 DEF S!OneSessionPerLogin, S!LogoutEndsLogin

\* The sessions of a behaviour of MCAuth.
SessionsInv == SessionsOK /\ (alone => SessionsInTurn)

LEMMA SessionsInvariance == MCSpec => []SessionsInv
<1>1. MCInit => SessionsInv
  <2> SUFFICES ASSUME MCInit PROVE SessionsOK /\ SessionsInTurn
    BY DEF SessionsInv
  <2> QED
    BY SessionsInit DEF MCInit, S!Init, SessionsInTurn, S!Exists
<1>2. SessionsInv /\ [MCNext]_mcvars => SessionsInv'
  <2> SUFFICES ASSUME SessionsInv, [MCNext]_mcvars PROVE SessionsInv'
    OBVIOUS
  <2>1. CASE SessionsNext
    <3>1. [S!Next]_svars /\ alone' = alone
      BY <2>1 DEF SessionsNext
    <3>2. SessionsOK'
      BY <3>1, SessionsStep DEF SessionsInv
    <3>3. ASSUME alone PROVE SessionsInTurn'
      <4>1. /\ Cardinality({q \in Requests : login'[q] # S!Idle}) <= 1
            /\ ended' # ended => \A q \in Requests : login[q] = S!Idle
        BY <2>1, <3>3 DEF SessionsNext
      <4>2. \A q, k \in Requests : login'[q] # S!Idle /\ login'[k] # S!Idle => q = k
        <5>1. PICK f, idle : f = login' /\ idle = S!Idle
          OBVIOUS
        <5>2. Cardinality({q \in Requests : f[q] # idle}) <= 1
          BY <4>1, <5>1
        <5> QED
          BY <5>1, <5>2, OneBusy
      <4> QED
        BY <3>1, <3>3, <4>1, <4>2, SessionsTakeTurns DEF SessionsInv
    <3> QED
      BY <3>1, <3>2, <3>3 DEF SessionsInv
  <2>2. CASE UNCHANGED <<svars, alone>>
    <3>1. UNCHANGED <<session, rows, now, login, ended, alone>>
      BY <2>2 DEF svars
    <3>2. SessionsOK'
      BY <2>2, SessionsStep DEF SessionsInv
    <3>3. SessionsInTurn => SessionsInTurn'
      BY <3>1 DEF SessionsInTurn, S!Exists
    <3> QED
      BY <3>1, <3>2, <3>3 DEF SessionsInv
  <2> QED
    BY <2>1, <2>2 DEF MCNext, AccountsNext, MfaNext, mcvars
<1> QED
  BY <1>1, <1>2, PTL DEF MCSpec

\* However logout, the refreshing of tokens and the cron overlap, a login that lost its
\* last session makes no other, for any number of requests and rows.
THEOREM LostLoginsStayLost == MCSpec => DeadLoginsStayDead
<1>1. SessionsInv /\ [MCNext]_mcvars => [\A l \in 1..rows : ~S!Alive(l) => ~S!Alive(l)']_(S!vars)
  <2> SUFFICES ASSUME SessionsInv, [MCNext]_mcvars, ~UNCHANGED S!vars
               PROVE  \A l \in 1..rows : ~S!Alive(l) => ~S!Alive(l)'
    OBVIOUS
  <2>1. [S!Next]_svars
    BY DEF MCNext, AccountsNext, SessionsNext, MfaNext, mcvars
  <2> QED
    BY <2>1, DeadLoginsStep DEF SessionsInv
<1> QED
  BY <1>1, SessionsInvariance, PTL DEF MCSpec, DeadLoginsStayDead, S!DeadLoginsStayDead

\* With one request at a time, failures included, refreshToken replaces a session, and
\* logout ends the login for good.
THEOREM LoginsOneAtATime == MCSpec => []LoginsAlone
<1>1. SessionsInv => LoginsAlone
  BY LoginsInTurn DEF SessionsInv, LoginsAlone
<1> QED
  BY <1>1, SessionsInvariance, PTL

-----------------------------------------------------------------------------
(* Two-factor authentication                                                *)

\* Requests that present a backup code and have not granted a login for it yet.
Holders(c) == {q \in Requests : check[q].code = c}

\* A code that is unused granted nothing yet and was marked by nobody, and a batch that
\* was not made yet is of no use to anybody.
MfaOK ==
    /\ M!TypeOK
    /\ \A q \in Requests : check[q].op = "challenge" => check[q].code = None
    /\ \A c \in M!Codes : code[c] = "unused" =>
          /\ granted[c] = 0
          /\ \A q \in Holders(c) : check[q].pc \notin {"marked", "granting"}
    /\ \A c \in M!Codes : c[1] > batches =>
          code[c] = None /\ granted[c] = 0 /\ Holders(c) = {}

\* The logins a code granted and those it is about to grant are at most n.
GrantsWithin(n) == \A c \in M!Codes : granted[c] + Cardinality(Holders(c)) <= n

LEMMA FiniteHolders ==
    ASSUME NEW c
    PROVE  /\ IsFiniteSet(Holders(c)) /\ IsFiniteSet(Holders(c)')
           /\ Cardinality(Holders(c)) \in Nat /\ Cardinality(Holders(c)') \in Nat
           /\ Cardinality(Holders(c)') <= Cardinality(Requests)
<1>1. Holders(c) \in SUBSET Requests /\ Holders(c)' \in SUBSET Requests
  BY DEF Holders
<1>2. /\ IsFiniteSet(Holders(c)) /\ IsFiniteSet(Holders(c)')
      /\ Cardinality(Holders(c)') <= Cardinality(Requests)
  BY <1>1, Requests1, FS_Subset
<1> QED
  BY <1>2, FS_CardinalityType

\* A code is a value of its own.
LEMMA CodesAreCodes ==
    /\ None \notin M!Codes
    /\ \A c \in M!Codes : c[1] \in M!Batches /\ c[1] \in Nat
    /\ M!Batches \subseteq Nat
    /\ None # "unused" /\ None # "used" /\ None # "deleted"
<1>1. M!Batches \subseteq Nat /\ (1..Size) \subseteq Nat
  BY AuthConstants DEF M!MfaConstants, M!Batches
<1>2. M!Codes \subseteq Nat \X Nat
  BY <1>1 DEF M!Codes
<1>3. \A c \in M!Codes : c[1] \in M!Batches
  BY DEF M!Codes
<1> QED
  BY <1>1, <1>2, <1>3, AuthConstants DEF M!MfaConstants

\* A request q becomes r: it holds no code, the code it held, or one that is unused.
MfaGoesOn(q, r) ==
    /\ check' = [check EXCEPT ![q] = r]
    /\ \/ r.code = None
       \/ /\ r.code = check[q].code /\ r.op = check[q].op
          /\ r.pc \in {"marked", "granting"} /\ r.code \in M!Codes => code'[r.code] # "unused"
       \/ /\ r.pc = "valid" /\ r.op = "consume"
          /\ code[r.code] = "unused"

\* A step that makes no code and grants no login.
QuietCheck ==
    /\ M!TypeOK'
    /\ UNCHANGED <<batches, granted>>
    /\ \A c \in M!Codes :
          /\ code'[c] = "unused" => code[c] = "unused"
          /\ code[c] = None => code'[c] = None
    /\ \/ UNCHANGED check
       \/ \E q \in Requests, r \in M!RequestRecord : MfaGoesOn(q, r)

\* Where a request goes when it starts, goes on and finishes.
LEMMA MfaStart ==
    ASSUME M!TypeOK, NEW q \in Requests, NEW op \in M!Ops,
           NEW s \in Challenges \union {None}, NEW c \in M!Codes \union {None},
           NEW sec \in M!Secrets \union {None},
           M!Start(q, op, s, c, sec)
    PROVE  /\ check[q].pc = "idle"
           /\ UNCHANGED <<secret, enabled, secrets, code, batches, challenge, confirmed,
                          renewed, granted>>
           /\ M!TypeOK'
           /\ \E r \in M!RequestRecord :
                 /\ check' = [check EXCEPT ![q] = r]
                 /\ r.pc = "valid" /\ r.op = op /\ r.code = c /\ r.secret = sec
<1> DEFINE r == [pc |-> "valid", op |-> op, challenge |-> s, code |-> c, secret |-> sec]
<1>1. /\ check' = [check EXCEPT ![q] = r] /\ check[q].pc = "idle"
      /\ UNCHANGED <<secret, enabled, secrets, code, batches, challenge, confirmed,
                     renewed, granted>>
  BY DEF M!Start, M!user, M!codes, M!history
<1>2. /\ r \in M!RequestRecord
      /\ r.pc = "valid" /\ r.op = op /\ r.code = c /\ r.secret = sec
  BY DEF M!RequestRecord
<1> HIDE DEF r
<1>3. check' \in [Requests -> M!RequestRecord]
  BY <1>1, <1>2 DEF M!TypeOK
<1> QED
  BY <1>1, <1>2, <1>3 DEF M!TypeOK

LEMMA MfaGoto ==
    ASSUME M!TypeOK, NEW q \in Requests,
           NEW pc \in {"deleted", "created", "off", "marked", "granting"}, M!Goto(q, pc)
    PROVE  /\ check' \in [Requests -> M!RequestRecord]
           /\ \E r \in M!RequestRecord :
                 /\ check' = [check EXCEPT ![q] = r]
                 /\ r.pc = pc /\ r.op = check[q].op /\ r.code = check[q].code
                 /\ r.secret = check[q].secret
<1>1. PICK r : r = [check[q] EXCEPT !.pc = pc]
  OBVIOUS
<1>2. check' = [check EXCEPT ![q] = r]
  BY <1>1 DEF M!Goto, M!TypeOK
<1>3. /\ r \in M!RequestRecord
      /\ r.pc = pc /\ r.op = check[q].op /\ r.code = check[q].code
      /\ r.secret = check[q].secret
  BY <1>1 DEF M!TypeOK, M!RequestRecord
<1> QED
  BY <1>2, <1>3 DEF M!TypeOK

LEMMA MfaFinish ==
    ASSUME M!TypeOK, NEW q \in Requests, M!Finish(q)
    PROVE  /\ check' \in [Requests -> M!RequestRecord]
           /\ check' = [check EXCEPT ![q] = M!Idle]
           /\ M!Idle \in M!RequestRecord /\ M!Idle.code = None
  BY DEF M!Finish, M!TypeOK, M!Idle, M!RequestRecord

\* The steps of Mfa, by what they do to the codes: all but two make none and grant none.
LEMMA MfaSteps ==
    ASSUME MfaOK, [M!Next]_mvars
    PROVE  QuietCheck \/ \E q \in Requests : M!CreateCodes(q) \/ M!CreateSession(q)
<1>0. M!TypeOK
  BY DEF MfaOK
<1>s. UNCHANGED <<batches, granted, code>> /\ M!TypeOK' /\ UNCHANGED check => QuietCheck
  BY DEF QuietCheck
<1>g. ASSUME UNCHANGED <<batches, granted, code>>, M!TypeOK',
             NEW q \in Requests, NEW r \in M!RequestRecord, MfaGoesOn(q, r)
      PROVE  QuietCheck
  BY <1>g DEF QuietCheck
<1>1. ASSUME NEW q \in Requests,
             M!ValidateSetup(q) \/ M!ValidateVerify(q) \/ M!ValidateDisable(q)
             \/ M!ValidateRegenerate(q) \/ \E s \in Challenges : M!ValidateChallenge(q, s)
      PROVE  QuietCheck
  <2>1. \E op \in M!Ops, s \in Challenges \union {None}, sec \in M!Secrets \union {None} :
           M!Start(q, op, s, None, sec)
    BY <1>0, <1>1 DEF M!ValidateSetup, M!ValidateVerify, M!ValidateDisable,
       M!ValidateRegenerate, M!ValidateChallenge, M!Ops, M!TypeOK
  <2>2. /\ UNCHANGED <<code, batches, granted>> /\ M!TypeOK'
        /\ \E r \in M!RequestRecord : check' = [check EXCEPT ![q] = r] /\ r.code = None
    BY <1>0, <2>1, MfaStart
  <2> QED
    BY <1>g, <2>2 DEF MfaGoesOn
<1>2. ASSUME NEW q \in Requests, NEW s \in Challenges, NEW c \in M!Codes,
             M!ValidateConsume(q, s, c)
      PROVE  QuietCheck
  <2>1. M!Start(q, "consume", s, c, None) /\ code[c] = "unused" /\ "consume" \in M!Ops
    BY <1>2 DEF M!ValidateConsume, M!Usable, M!Ops
  <2>2. /\ UNCHANGED <<code, batches, granted>> /\ M!TypeOK'
        /\ \E r \in M!RequestRecord :
              check' = [check EXCEPT ![q] = r] /\ r.code = c /\ r.pc = "valid" /\ r.op = "consume"
    BY <1>0, <2>1, MfaStart
  <2> QED
    BY <1>g, <2>1, <2>2 DEF MfaGoesOn
<1>3. ASSUME NEW q \in Requests, M!SetSecret(q) \/ M!Enable(q) \/ M!RequestFails(q)
      PROVE  QuietCheck
  <2>1. M!Finish(q) /\ UNCHANGED <<code, batches, granted, challenge>>
    BY <1>3 DEF M!SetSecret, M!Enable, M!RequestFails, M!codes, M!history
  <2>2. /\ check' \in [Requests -> M!RequestRecord]
        /\ check' = [check EXCEPT ![q] = M!Idle]
        /\ M!Idle \in M!RequestRecord /\ M!Idle.code = None
    BY <1>0, <2>1, MfaFinish
  <2>3. /\ secret' \in M!Secrets \union {None} /\ enabled' \in BOOLEAN
        /\ secrets' \in 0..MaxSecrets
        /\ confirmed' \in M!Secrets \union {None} /\ renewed' \subseteq M!Batches
    <3>1. CASE M!SetSecret(q)
      BY <1>0, <3>1, AuthConstants DEF M!SetSecret, M!TypeOK, M!Secrets, M!MfaConstants,
                                       M!history
    <3>2. CASE M!Enable(q)
      BY <1>0, <3>2 DEF M!Enable, M!TypeOK, M!RequestRecord
    <3>3. CASE M!RequestFails(q)
      BY <1>0, <3>3 DEF M!RequestFails, M!TypeOK, M!user, M!history
    <3> QED
      BY <1>3, <3>1, <3>2, <3>3
  <2>4. M!TypeOK'
    BY <1>0, <2>1, <2>2, <2>3 DEF M!TypeOK
  <2>5. MfaGoesOn(q, M!Idle)
    BY <2>2 DEF MfaGoesOn
  <2> QED
    BY <1>g, <2>1, <2>2, <2>4, <2>5
<1>4. ASSUME NEW q \in Requests, M!MarkAsUsed(q)
      PROVE  QuietCheck
  <2>1. /\ code' = [code EXCEPT ![check[q].code] = "used"]
        /\ M!Goto(q, "marked")
        /\ UNCHANGED <<secret, enabled, secrets, batches, challenge, confirmed, renewed, granted>>
        /\ code[check[q].code] \in {"unused", "used"}
    BY <1>4 DEF M!MarkAsUsed, M!MarkedAsUsed, M!user, M!history
  <2>2. /\ check' \in [Requests -> M!RequestRecord]
        /\ \E r \in M!RequestRecord :
              /\ check' = [check EXCEPT ![q] = r]
              /\ r.pc = "marked" /\ r.op = check[q].op /\ r.code = check[q].code
    BY <1>0, <2>1, MfaGoto
  <2>3. /\ code' \in [M!Codes -> {None, "unused", "used", "deleted"}]
        /\ \A c \in M!Codes : code'[c] = IF c = check[q].code THEN "used" ELSE code[c]
    BY <1>0, <2>1 DEF M!TypeOK
  <2>4. M!TypeOK'
    BY <1>0, <2>1, <2>2, <2>3 DEF M!TypeOK
  <2> QED
    BY <2>1, <2>2, <2>3, <2>4, CodesAreCodes DEF QuietCheck, MfaGoesOn
<1>5. ASSUME NEW q \in Requests, M!MarkVerified(q)
      PROVE  QuietCheck
  <2>1. /\ M!Goto(q, "granting")
        /\ UNCHANGED <<secret, enabled, secrets, code, batches, confirmed, renewed, granted>>
        /\ challenge' = [challenge EXCEPT ![check[q].challenge] =
                            IF @ = "over" THEN @ ELSE "verified"]
        /\ M!At(q, "challenge", "valid") \/ M!At(q, "consume", "marked")
    BY <1>5 DEF M!MarkVerified, M!user, M!codes, M!history
  <2>2. /\ check' \in [Requests -> M!RequestRecord]
        /\ \E r \in M!RequestRecord :
              /\ check' = [check EXCEPT ![q] = r]
              /\ r.pc = "granting" /\ r.op = check[q].op /\ r.code = check[q].code
    BY <1>0, <2>1, MfaGoto
  <2>3. challenge' \in [Challenges -> {None, "pending", "verified", "over"}]
    BY <1>0, <2>1 DEF M!TypeOK
  <2>4. M!TypeOK'
    BY <1>0, <2>1, <2>2, <2>3 DEF M!TypeOK
  <2>5. check[q].code = None \/ (check[q].code \in M!Codes => code[check[q].code] # "unused")
    BY <2>1 DEF M!At, MfaOK, Holders
  <2> QED
    BY <1>g, <2>1, <2>2, <2>4, <2>5 DEF MfaGoesOn
<1>6. ASSUME NEW q \in Requests, M!Disable(q)
      PROVE  QuietCheck
  <2>1. /\ M!Goto(q, "off")
        /\ secret' = None /\ enabled' = FALSE
        /\ UNCHANGED <<secrets, code, batches, challenge, confirmed, renewed, granted>>
    BY <1>6 DEF M!Disable, M!codes, M!history
  <2>2. /\ check' \in [Requests -> M!RequestRecord]
        /\ \E r \in M!RequestRecord :
              /\ check' = [check EXCEPT ![q] = r]
              /\ r.pc = "off" /\ r.op = check[q].op /\ r.code = check[q].code
    BY <1>0, <2>1, MfaGoto
  <2>3. M!TypeOK'
    BY <1>0, <2>1, <2>2 DEF M!TypeOK
  <2> QED
    BY <1>g, <2>1, <2>2, <2>3 DEF MfaGoesOn
<1>7. ASSUME NEW q \in Requests, M!DeleteCodes(q)
      PROVE  QuietCheck
  <2>1. /\ code' = [c \in M!Codes |-> IF M!Exists(c) THEN "deleted" ELSE code[c]]
        /\ M!Finish(q) \/ M!Goto(q, "deleted")
        /\ UNCHANGED <<secret, enabled, secrets, batches, challenge, confirmed, renewed, granted>>
    BY <1>7 DEF M!DeleteCodes, M!user, M!history
  <2>2. /\ check' \in [Requests -> M!RequestRecord]
        /\ \E r \in M!RequestRecord :
              /\ check' = [check EXCEPT ![q] = r]
              /\ \/ r.code = None
                 \/ r.pc = "deleted" /\ r.op = check[q].op /\ r.code = check[q].code
    BY <1>0, <2>1, MfaGoto, MfaFinish
  <2>3. \A c \in M!Codes :
           /\ code'[c] \in {None, "unused", "used", "deleted"}
           /\ code'[c] = "unused" => code[c] = "unused"
           /\ code[c] = None => code'[c] = None
    BY <1>0, <2>1, CodesAreCodes DEF M!TypeOK, M!Exists
  <2>4. code' \in [M!Codes -> {None, "unused", "used", "deleted"}]
    BY <2>1, <2>3
  <2>5. M!TypeOK'
    BY <1>0, <2>1, <2>2, <2>4 DEF M!TypeOK
  <2> QED
    BY <2>1, <2>2, <2>3, <2>5 DEF QuietCheck, MfaGoesOn
<1>8. ASSUME NEW s \in Challenges, M!LoginRequiresTwoFactor(s) \/ M!ChallengeExpires(s)
      PROVE  QuietCheck
  <2>1. /\ challenge' = [challenge EXCEPT ![s] = "pending"]
           \/ challenge' = [challenge EXCEPT ![s] = "over"]
        /\ UNCHANGED <<secret, enabled, secrets, code, batches, check, confirmed, renewed, granted>>
    BY <1>8 DEF M!LoginRequiresTwoFactor, M!ChallengeExpires, M!user, M!codes, M!history
  <2>2. M!TypeOK'
    BY <1>0, <2>1 DEF M!TypeOK
  <2> QED
    BY <1>s, <2>1, <2>2
<1>9. CASE UNCHANGED mvars
  <2>1. UNCHANGED <<secret, enabled, secrets, code, batches, challenge, check, confirmed,
                    renewed, granted>>
    BY <1>9 DEF mvars
  <2>2. M!TypeOK'
    BY <1>0, <2>1 DEF M!TypeOK
  <2> QED
    BY <1>s, <2>1, <2>2
<1>10. ASSUME NEW q \in Requests, M!Request(q)
       PROVE  QuietCheck \/ M!CreateCodes(q) \/ M!CreateSession(q)
  BY <1>1, <1>2, <1>3, <1>4, <1>5, <1>6, <1>7, <1>10
  DEF M!Request, M!SetupMfa, M!VerifyMfa, M!ChallengeMfa, M!ConsumeBackupCode, M!DisableMfa,
      M!RegenerateBackupCodes
<1> QED
  BY <1>8, <1>9, <1>10 DEF M!Next

\* The step that makes a batch of codes.
LEMMA CreateCodesFacts ==
    ASSUME MfaOK, NEW q \in Requests, M!CreateCodes(q)
    PROVE  /\ M!TypeOK'
           /\ batches \in Nat /\ batches' = batches + 1 /\ batches + 1 \in M!Batches
           /\ \A c \in M!Codes :
                 code'[c] = IF c[1] = batches + 1 THEN "unused" ELSE code[c]
           /\ UNCHANGED <<granted, secret, enabled, confirmed>>
           /\ \E r \in M!RequestRecord :
                 /\ check' = [check EXCEPT ![q] = r]
                 /\ \/ /\ r = M!Idle /\ check[q].op # "verify" /\ M!At(q, "regenerate", "deleted")
                       /\ renewed' = renewed \union {batches + 1}
                    \/ /\ M!At(q, "verify", "valid")
                       /\ r.pc = "created" /\ r.op = "verify" /\ renewed' = renewed
                       /\ r.code = check[q].code /\ r.secret = check[q].secret
<1>0. M!TypeOK /\ batches \in Nat
  BY DEF MfaOK, M!TypeOK
<1>1. /\ code' = [c \in M!Codes |-> IF c[1] = batches + 1 THEN "unused" ELSE code[c]]
      /\ batches' = batches + 1
      /\ UNCHANGED <<secret, enabled, secrets, challenge, confirmed, granted>>
      /\ batches < MaxBatches
  BY DEF M!CreateCodes, M!user
<1>2. batches + 1 \in M!Batches /\ batches + 1 \in 0..MaxBatches
  BY <1>0, <1>1, AuthConstants DEF M!Batches, M!MfaConstants
<1>3. code' \in [M!Codes -> {None, "unused", "used", "deleted"}]
  BY <1>0, <1>1 DEF M!TypeOK
<1>4. CASE check[q].op = "verify"
  <2>1. M!Goto(q, "created") /\ renewed' = renewed /\ M!At(q, "verify", "valid")
    BY <1>4 DEF M!CreateCodes, M!At
  <2>2. /\ check' \in [Requests -> M!RequestRecord]
        /\ \E r \in M!RequestRecord :
              /\ check' = [check EXCEPT ![q] = r]
              /\ r.pc = "created" /\ r.op = check[q].op /\ r.code = check[q].code
              /\ r.secret = check[q].secret
    BY <1>0, <2>1, MfaGoto
  <2>3. M!TypeOK'
    BY <1>0, <1>1, <1>2, <1>3, <2>1, <2>2 DEF M!TypeOK
  <2> QED
    BY <1>0, <1>1, <1>2, <1>4, <2>1, <2>2, <2>3
<1>5. CASE check[q].op # "verify"
  <2>1. /\ M!Finish(q) /\ renewed' = renewed \union {batches + 1}
        /\ M!At(q, "regenerate", "deleted")
    BY <1>5 DEF M!CreateCodes, M!At
  <2>2. /\ check' \in [Requests -> M!RequestRecord]
        /\ check' = [check EXCEPT ![q] = M!Idle] /\ M!Idle \in M!RequestRecord
    BY <1>0, <2>1, MfaFinish
  <2>3. M!TypeOK'
    BY <1>0, <1>1, <1>2, <1>3, <2>1, <2>2 DEF M!TypeOK
  <2> QED
    BY <1>0, <1>1, <1>2, <1>5, <2>1, <2>2, <2>3
<1> QED
  BY <1>4, <1>5

\* The step that logs a user in.
LEMMA GrantFacts ==
    ASSUME MfaOK, NEW q \in Requests, M!CreateSession(q)
    PROVE  /\ M!TypeOK'
           /\ check[q].pc = "granting"
           /\ UNCHANGED <<secret, enabled, confirmed, renewed, code, batches>>
           /\ \A c \in M!Codes :
                 granted'[c] = IF c = check[q].code THEN granted[c] + 1 ELSE granted[c]
           /\ check' = [check EXCEPT ![q] = M!Idle]
           /\ M!Idle \in M!RequestRecord /\ M!Idle.code = None
<1>0. M!TypeOK
  BY DEF MfaOK
<1>1. /\ granted' = [c \in M!Codes |-> granted[c] + IF c = check[q].code THEN 1 ELSE 0]
      /\ M!Finish(q) /\ check[q].pc = "granting"
      /\ UNCHANGED <<secret, enabled, secrets, challenge, confirmed, renewed, code, batches>>
  BY DEF M!CreateSession, M!user, M!codes
<1>2. \A c \in M!Codes :
         /\ granted'[c] = IF c = check[q].code THEN granted[c] + 1 ELSE granted[c]
         /\ granted'[c] \in Nat
  BY <1>0, <1>1 DEF M!TypeOK
<1>3. granted' \in [M!Codes -> Nat]
  BY <1>1, <1>2
<1>4. /\ check' \in [Requests -> M!RequestRecord]
      /\ check' = [check EXCEPT ![q] = M!Idle]
      /\ M!Idle \in M!RequestRecord /\ M!Idle.code = None
  BY <1>0, <1>1, MfaFinish
<1>5. M!TypeOK'
  BY <1>0, <1>1, <1>3, <1>4 DEF M!TypeOK
<1> QED
  BY <1>1, <1>2, <1>4, <1>5

LEMMA MfaInit == M!Init => MfaOK /\ \A n \in Nat : GrantsWithin(n)
<1> SUFFICES ASSUME M!Init PROVE MfaOK /\ \A n \in Nat : GrantsWithin(n)
  OBVIOUS
<1>1. M!Idle \in M!RequestRecord /\ M!Idle.code = None
  BY DEF M!Idle, M!RequestRecord
<1>2. M!TypeOK
  <2>1. 0 \in 0..MaxSecrets /\ 0 \in 0..MaxBatches
    BY AuthConstants DEF M!MfaConstants
  <2> QED
    BY <1>1, <2>1 DEF M!Init, M!TypeOK
<1>3. \A c \in M!Codes : granted[c] = 0 /\ code[c] = None /\ Holders(c) = {}
  BY <1>1, CodesAreCodes DEF M!Init, Holders
<1>4. MfaOK
  BY <1>1, <1>2, <1>3 DEF MfaOK, M!Init
<1>5. \A n \in Nat : GrantsWithin(n)
  BY <1>3, FS_EmptySet DEF GrantsWithin
<1> QED
  BY <1>4, <1>5

LEMMA MfaStep ==
    ASSUME MfaOK, [M!Next]_mvars
    PROVE  MfaOK'
<1>0. M!TypeOK
  BY DEF MfaOK
<1>1. CASE QuietCheck
  <2>1. /\ M!TypeOK' /\ UNCHANGED <<batches, granted>>
        /\ \A c \in M!Codes :
              /\ code'[c] = "unused" => code[c] = "unused"
              /\ code[c] = None => code'[c] = None
    BY <1>1 DEF QuietCheck
  <2>2. CASE UNCHANGED check
    BY <2>1, <2>2 DEF MfaOK, Holders
  <2>3. ASSUME NEW q \in Requests, NEW r \in M!RequestRecord, MfaGoesOn(q, r)
        PROVE  MfaOK'
    <3>1. \A k \in Requests : check'[k] = IF k = q THEN r ELSE check[k]
      BY <1>0, <2>3 DEF MfaGoesOn, M!TypeOK
    <3>2. \A k \in Requests : check'[k].op = "challenge" => check'[k].code = None
      BY <2>3, <3>1 DEF MfaOK, MfaGoesOn
    <3>3. ASSUME NEW c \in M!Codes, code'[c] = "unused"
          PROVE  /\ granted'[c] = 0
                 /\ \A k \in Holders(c)' : check'[k].pc \notin {"marked", "granting"}
      <4>1. r.code = c => r.pc \notin {"marked", "granting"}
        BY <2>3, <3>3, CodesAreCodes DEF MfaGoesOn
      <4>2. code[c] = "unused"
        BY <2>1, <3>3
      <4> QED
        BY <2>1, <3>1, <4>1, <4>2 DEF MfaOK, Holders
    <3>4. ASSUME NEW c \in M!Codes, c[1] > batches'
          PROVE  code'[c] = None /\ granted'[c] = 0 /\ Holders(c)' = {}
      <4>1. code[c] = None /\ granted[c] = 0 /\ Holders(c) = {}
        BY <2>1, <3>4 DEF MfaOK
      <4>2. r.code # c
        BY <2>3, <4>1, CodesAreCodes DEF MfaGoesOn, Holders
      <4> QED
        BY <2>1, <3>1, <4>1, <4>2 DEF Holders
    <3> QED
      BY <2>1, <3>2, <3>3, <3>4 DEF MfaOK
  <2> QED
    BY <1>1, <2>2, <2>3 DEF QuietCheck
<1>2. ASSUME NEW q \in Requests, M!CreateCodes(q)
      PROVE  MfaOK'
  <2>1. /\ M!TypeOK'
        /\ batches \in Nat /\ batches' = batches + 1
        /\ \A c \in M!Codes :
              code'[c] = IF c[1] = batches + 1 THEN "unused" ELSE code[c]
        /\ UNCHANGED granted
    BY <1>2, CreateCodesFacts
  <2>2. PICK r \in M!RequestRecord :
           /\ check' = [check EXCEPT ![q] = r]
           /\ \/ r = M!Idle
              \/ r.pc = "created" /\ r.op = "verify" /\ r.code = check[q].code
    BY <1>2, CreateCodesFacts
  <2>3. \A k \in Requests : check'[k] = IF k = q THEN r ELSE check[k]
    BY <1>0, <2>2 DEF M!TypeOK
  <2>4. M!Idle.code = None
    BY DEF M!Idle
  <2>5. \A c \in M!Codes : \A k \in Holders(c)' :
           k \in Holders(c) /\ (check'[k].pc \in {"marked", "granting"} => check'[k] = check[k])
    BY <2>2, <2>3, <2>4, CodesAreCodes DEF Holders
  <2>6. \A k \in Requests : check'[k].op = "challenge" => check'[k].code = None
    BY <2>2, <2>3, <2>4 DEF MfaOK
  <2>7. ASSUME NEW c \in M!Codes, code'[c] = "unused"
        PROVE  /\ granted'[c] = 0
               /\ \A k \in Holders(c)' : check'[k].pc \notin {"marked", "granting"}
    <3>1. CASE c[1] = batches + 1
      <4>1. c[1] > batches
        BY <2>1, <3>1
      <4>2. granted[c] = 0 /\ Holders(c) = {}
        BY <4>1 DEF MfaOK
      <4> QED
        BY <2>1, <2>5, <4>2
    <3>2. CASE c[1] # batches + 1
      <4>1. code[c] = "unused"
        BY <2>1, <2>7, <3>2
      <4> QED
        BY <2>1, <2>5, <4>1 DEF MfaOK
    <3> QED
      BY <3>1, <3>2
  <2>8. ASSUME NEW c \in M!Codes, c[1] > batches'
        PROVE  code'[c] = None /\ granted'[c] = 0 /\ Holders(c)' = {}
    <3>1. c[1] > batches /\ c[1] # batches + 1
      BY <2>1, <2>8, CodesAreCodes
    <3>2. code[c] = None /\ granted[c] = 0 /\ Holders(c) = {}
      BY <3>1 DEF MfaOK
    <3> QED
      BY <2>1, <2>5, <3>1, <3>2
  <2> QED
    BY <2>1, <2>6, <2>7, <2>8 DEF MfaOK
<1>3. ASSUME NEW q \in Requests, M!CreateSession(q)
      PROVE  MfaOK'
  <2>1. /\ M!TypeOK'
        /\ check[q].pc = "granting"
        /\ UNCHANGED <<code, batches>>
        /\ \A c \in M!Codes :
              granted'[c] = IF c = check[q].code THEN granted[c] + 1 ELSE granted[c]
        /\ check' = [check EXCEPT ![q] = M!Idle]
        /\ M!Idle.code = None
    BY <1>3, GrantFacts
  <2>2. \A k \in Requests : check'[k] = IF k = q THEN M!Idle ELSE check[k]
    BY <1>0, <2>1 DEF M!TypeOK
  <2>3. \A c \in M!Codes : \A k \in Holders(c)' : k \in Holders(c) /\ check'[k] = check[k]
    BY <2>1, <2>2, CodesAreCodes DEF Holders
  <2>4. \A c \in M!Codes : c = check[q].code => q \in Holders(c)
    BY DEF Holders
  <2>5. \A c \in M!Codes : code[c] = "unused" \/ c[1] > batches => c # check[q].code
    BY <2>1, <2>4 DEF MfaOK
  <2> QED
    BY <2>1, <2>2, <2>3, <2>5 DEF MfaOK
<1> QED
  BY <1>1, <1>2, <1>3, MfaSteps

\* A code grants no more logins than requests hold it at once: a request takes hold of it
\* while it is unused, and then it granted none.
LEMMA GrantStep ==
    ASSUME MfaOK, [M!Next]_mvars, NEW n \in Nat, GrantsWithin(n),
           \A c \in M!Codes : Cardinality(Holders(c)') <= n
    PROVE  GrantsWithin(n)'
<1> SUFFICES ASSUME NEW c \in M!Codes
             PROVE  granted'[c] + Cardinality(Holders(c)') <= n
  BY DEF GrantsWithin
<1>0. M!TypeOK /\ granted[c] \in Nat
  BY DEF MfaOK, M!TypeOK
<1>1. ASSUME granted'[c] = granted[c], Holders(c)' \subseteq Holders(c)
      PROVE  granted'[c] + Cardinality(Holders(c)') <= n
  <2>1. Cardinality(Holders(c)') <= Cardinality(Holders(c))
    BY <1>1, FiniteHolders, FS_Subset
  <2> QED
    BY <1>0, <1>1, <2>1, FiniteHolders DEF GrantsWithin
<1>2. CASE QuietCheck
  <2>1. CASE UNCHANGED check
    BY <1>1, <1>2, <2>1 DEF QuietCheck, Holders
  <2>2. ASSUME NEW q \in Requests, NEW r \in M!RequestRecord, MfaGoesOn(q, r)
        PROVE  granted'[c] + Cardinality(Holders(c)') <= n
    <3>1. \A k \in Requests : check'[k] = IF k = q THEN r ELSE check[k]
      BY <1>0, <2>2 DEF MfaGoesOn, M!TypeOK
    <3>2. CASE r.code = c /\ check[q].code # c
      <4>1. code[c] = "unused"
        BY <2>2, <3>2, CodesAreCodes DEF MfaGoesOn
      <4>2. granted'[c] = 0
        BY <1>2, <4>1 DEF MfaOK, QuietCheck
      <4> QED
        BY <4>2, FiniteHolders
    <3>3. CASE ~(r.code = c /\ check[q].code # c)
      <4>1. Holders(c)' \subseteq Holders(c)
        BY <3>1, <3>3 DEF Holders
      <4> QED
        BY <1>1, <1>2, <4>1 DEF QuietCheck
    <3> QED
      BY <3>2, <3>3
  <2> QED
    BY <1>2, <2>1, <2>2 DEF QuietCheck
<1>3. ASSUME NEW q \in Requests, M!CreateCodes(q)
      PROVE  granted'[c] + Cardinality(Holders(c)') <= n
  <2>1. PICK r \in M!RequestRecord :
           /\ check' = [check EXCEPT ![q] = r] /\ UNCHANGED granted
           /\ r = M!Idle \/ r.code = check[q].code
    BY <1>3, CreateCodesFacts
  <2>2. \A k \in Requests : check'[k] = IF k = q THEN r ELSE check[k]
    BY <1>0, <2>1 DEF M!TypeOK
  <2>3. M!Idle.code # c
    BY CodesAreCodes DEF M!Idle
  <2>4. Holders(c)' \subseteq Holders(c)
    BY <2>1, <2>2, <2>3 DEF Holders
  <2> QED
    BY <1>1, <2>1, <2>4
<1>4. ASSUME NEW q \in Requests, M!CreateSession(q)
      PROVE  granted'[c] + Cardinality(Holders(c)') <= n
  <2>1. /\ granted'[c] = IF c = check[q].code THEN granted[c] + 1 ELSE granted[c]
        /\ check' = [check EXCEPT ![q] = M!Idle]
        /\ M!Idle.code = None
    BY <1>4, GrantFacts
  <2>2. \A k \in Requests : check'[k] = IF k = q THEN M!Idle ELSE check[k]
    BY <1>0, <2>1 DEF M!TypeOK
  <2>3. Holders(c)' \subseteq Holders(c) \ {q}
    BY <2>1, <2>2, CodesAreCodes DEF Holders
  <2>4. CASE c # check[q].code
    BY <1>1, <2>1, <2>3, <2>4
  <2>5. CASE c = check[q].code
    <3>1. q \in Holders(c)
      BY <2>5 DEF Holders
    <3>2. /\ IsFiniteSet(Holders(c) \ {q})
          /\ Cardinality(Holders(c) \ {q}) = Cardinality(Holders(c)) - 1
      BY <3>1, FiniteHolders, FS_RemoveElement
    <3>3. Cardinality(Holders(c)') <= Cardinality(Holders(c)) - 1
      BY <2>3, <3>2, FS_Subset
    <3> QED
      BY <1>0, <2>1, <2>5, <3>3, FiniteHolders DEF GrantsWithin
  <2> QED
    BY <2>4, <2>5
<1> QED
  BY <1>2, <1>3, <1>4, MfaSteps

\* With one request at a time: a request that will turn two-factor authentication on, or
\* replace the secret, found it off and goes by the secret of the user, and no code is
\* left when regenerateBackupCodes makes new ones.
Verifying(q) == M!At(q, "verify", "valid") \/ M!At(q, "verify", "created")

MfaInTurn ==
    /\ \A q, k \in Requests : check[q] # M!Idle /\ check[k] # M!Idle => q = k
    /\ \A q \in Requests :
          /\ Verifying(q) => ~enabled /\ secret # None /\ check[q].secret = secret
          /\ M!At(q, "setup", "valid") => ~enabled
          /\ M!At(q, "regenerate", "deleted") => \A c \in M!Codes : ~M!Exists(c)
    /\ enabled => secret # None /\ secret = confirmed
    /\ renewed \subseteq 1..batches
    /\ M!PreviousCodesAreInvalid

\* A request that steps is alone, so what the others would rely on does not matter.
LEMMA MfaOthersIdle ==
    ASSUME M!TypeOK, MfaInTurn, NEW q \in Requests, NEW r, check' = [check EXCEPT ![q] = r],
           \A j, k \in Requests : check'[j] # M!Idle /\ check'[k] # M!Idle => j = k,
           check[q] # M!Idle \/ r # M!Idle
    PROVE  /\ check'[q] = r
           /\ \A k \in Requests : k # q => check[k] = M!Idle /\ check'[k] = M!Idle
           /\ \A k \in Requests : k # q =>
                 ~Verifying(k)' /\ ~M!At(k, "setup", "valid")' /\ ~M!At(k, "regenerate", "deleted")'
<1>1. \A k \in Requests : check'[k] = IF k = q THEN r ELSE check[k]
  BY DEF M!TypeOK
<1>2. \A k \in Requests : k # q => check[k] = M!Idle /\ check'[k] = M!Idle
  BY <1>1 DEF MfaInTurn
<1>3. M!Idle.pc = "idle"
  BY DEF M!Idle
<1> QED
  BY <1>1, <1>2, <1>3 DEF Verifying, M!At

\* A step of a request keeps the invariant if it leaves the user and the codes in order.
LEMMA MfaTurn ==
    ASSUME M!TypeOK, MfaInTurn, NEW q \in Requests, NEW r,
           check' = [check EXCEPT ![q] = r],
           \A j, k \in Requests : check'[j] # M!Idle /\ check'[k] # M!Idle => j = k,
           check[q] # M!Idle \/ r # M!Idle,
           Verifying(q)' => ~enabled' /\ secret' # None /\ r.secret = secret',
           M!At(q, "setup", "valid")' => ~enabled',
           M!At(q, "regenerate", "deleted")' => \A c \in M!Codes : ~M!Exists(c)',
           enabled' => secret' # None /\ secret' = confirmed',
           renewed' \subseteq 1..batches',
           M!PreviousCodesAreInvalid'
    PROVE  MfaInTurn'
<1>1. /\ check'[q] = r
      /\ \A k \in Requests : k # q =>
            ~Verifying(k)' /\ ~M!At(k, "setup", "valid")' /\ ~M!At(k, "regenerate", "deleted")'
  BY MfaOthersIdle
<1>2. ASSUME NEW k \in Requests
      PROVE  /\ Verifying(k)' => ~enabled' /\ secret' # None /\ check'[k].secret = secret'
             /\ M!At(k, "setup", "valid")' => ~enabled'
             /\ M!At(k, "regenerate", "deleted")' => \A c \in M!Codes : ~M!Exists(c)'
  <2>1. CASE k = q
    BY <1>1, <2>1
  <2>2. CASE k # q
    BY <1>1, <2>2
  <2> QED
    BY <2>1, <2>2
<1> QED
  BY <1>2 DEF MfaInTurn

\* Codes that vanish, or are used, are no less previous.
LEMMA FewerCodes ==
    ASSUME M!PreviousCodesAreInvalid, UNCHANGED renewed,
           \A c \in M!Codes : M!Exists(c)' => M!Exists(c)
    PROVE  M!PreviousCodesAreInvalid'
  BY DEF M!PreviousCodesAreInvalid

LEMMA MfaTakesTurns ==
    ASSUME MfaOK, MfaInTurn, [M!Next]_mvars,
           \A q, k \in Requests : check'[q] # M!Idle /\ check'[k] # M!Idle => q = k
    PROVE  MfaInTurn'
<1>0. M!TypeOK
  BY DEF MfaOK
<1>i. M!Idle.pc = "idle"
  BY DEF M!Idle
<1>n. M!PreviousCodesAreInvalid /\ renewed \subseteq 1..batches
      /\ (enabled => secret # None /\ secret = confirmed)
  BY DEF MfaInTurn
\* A request that starts.
<1>1. ASSUME NEW q \in Requests, NEW op \in M!Ops, NEW s \in Challenges \union {None},
             NEW c \in M!Codes \union {None}, NEW sec \in M!Secrets \union {None},
             M!Start(q, op, s, c, sec),
             op = "setup" => ~enabled,
             op = "verify" => ~enabled /\ secret # None /\ sec = secret
      PROVE  MfaInTurn'
  <2>1. UNCHANGED <<secret, enabled, code, batches, confirmed, renewed>>
    BY <1>0, <1>1, MfaStart
  <2>2. PICK r \in M!RequestRecord :
           check' = [check EXCEPT ![q] = r] /\ r.pc = "valid" /\ r.op = op /\ r.secret = sec
    BY <1>0, <1>1, MfaStart
  <2>3. check'[q] = r
    BY <1>0, <2>2 DEF M!TypeOK
  <2>4. /\ Verifying(q)' => ~enabled' /\ secret' # None /\ r.secret = secret'
        /\ M!At(q, "setup", "valid")' => ~enabled'
        /\ ~M!At(q, "regenerate", "deleted")'
    BY <1>1, <2>1, <2>2, <2>3 DEF Verifying, M!At
  <2>5. M!PreviousCodesAreInvalid'
    BY <1>n, <2>1, FewerCodes DEF M!Exists
  <2> QED
    BY <1>0, <1>i, <1>n, <2>1, <2>2, <2>4, <2>5, MfaTurn
\* A request that goes on, or finishes, and leaves the user and the batches as they are.
<1>2. ASSUME NEW q \in Requests, NEW r, check' = [check EXCEPT ![q] = r],
             check[q] # M!Idle,
             r.pc \in {"idle", "marked", "granting"},
             UNCHANGED <<secret, enabled, batches, confirmed, renewed>>,
             \A c \in M!Codes : M!Exists(c)' => M!Exists(c)
      PROVE  MfaInTurn'
  <2>1. check'[q] = r
    BY <1>0, <1>2 DEF M!TypeOK
  <2>2. ~Verifying(q)' /\ ~M!At(q, "setup", "valid")' /\ ~M!At(q, "regenerate", "deleted")'
    BY <1>2, <2>1 DEF Verifying, M!At
  <2>3. M!PreviousCodesAreInvalid'
    BY <1>n, <1>2, FewerCodes
  <2> QED
    BY <1>0, <1>n, <1>2, <2>2, <2>3, MfaTurn
<1>3. ASSUME NEW q \in Requests,
             \/ M!ValidateSetup(q) \/ M!ValidateVerify(q)
             \/ M!ValidateDisable(q) \/ M!ValidateRegenerate(q)
             \/ \E s \in Challenges : M!ValidateChallenge(q, s)
             \/ \E s \in Challenges, c \in M!Codes : M!ValidateConsume(q, s, c)
      PROVE  MfaInTurn'
  <2>1. \E op \in M!Ops, s \in Challenges \union {None}, c \in M!Codes \union {None},
           sec \in M!Secrets \union {None} :
           /\ M!Start(q, op, s, c, sec)
           /\ op = "setup" => ~enabled
           /\ op = "verify" => ~enabled /\ secret # None /\ sec = secret
    BY <1>0, <1>3 DEF M!ValidateSetup, M!MaySetUp, M!ValidateVerify, M!ValidateDisable,
       M!ValidateRegenerate, M!ValidateChallenge, M!ValidateConsume, M!Ops, M!TypeOK
  <2> QED
    BY <1>1, <2>1
<1>4. ASSUME NEW q \in Requests, M!SetSecret(q)
      PROVE  MfaInTurn'
  <2>1. /\ check' = [check EXCEPT ![q] = M!Idle] /\ check[q] # M!Idle
        /\ ~enabled /\ UNCHANGED <<enabled, code, batches, confirmed, renewed>>
    BY <1>i, <1>4 DEF M!SetSecret, M!Finish, M!At, M!codes, M!history, MfaInTurn
  <2>2. check'[q] = M!Idle
    BY <1>0, <2>1 DEF M!TypeOK
  <2>3. ~Verifying(q)' /\ ~M!At(q, "setup", "valid")' /\ ~M!At(q, "regenerate", "deleted")'
    BY <1>i, <2>2 DEF Verifying, M!At
  <2>4. M!PreviousCodesAreInvalid'
    BY <1>n, <2>1, FewerCodes DEF M!Exists
  <2> QED
    BY <1>0, <1>n, <2>1, <2>3, <2>4, MfaTurn
<1>5. ASSUME NEW q \in Requests, M!Enable(q)
      PROVE  MfaInTurn'
  <2>1. /\ check' = [check EXCEPT ![q] = M!Idle] /\ check[q] # M!Idle
        /\ enabled' = TRUE /\ confirmed' = check[q].secret
        /\ UNCHANGED <<secret, code, batches, renewed>>
    BY <1>i, <1>5 DEF M!Enable, M!Finish, M!At, M!codes
  <2>2. secret # None /\ check[q].secret = secret
    BY <1>5 DEF M!Enable, Verifying, MfaInTurn
  <2>3. check'[q] = M!Idle
    BY <1>0, <2>1 DEF M!TypeOK
  <2>4. ~Verifying(q)' /\ ~M!At(q, "setup", "valid")' /\ ~M!At(q, "regenerate", "deleted")'
    BY <1>i, <2>3 DEF Verifying, M!At
  <2>5. M!PreviousCodesAreInvalid'
    BY <1>n, <2>1, FewerCodes DEF M!Exists
  <2> QED
    BY <1>0, <1>n, <2>1, <2>2, <2>4, <2>5, MfaTurn
<1>6. ASSUME NEW q \in Requests, M!MarkAsUsed(q)
      PROVE  MfaInTurn'
  <2>1. /\ code' = [code EXCEPT ![check[q].code] = "used"]
        /\ code[check[q].code] \in {"unused", "used"}
        /\ M!Goto(q, "marked") /\ check[q] # M!Idle
        /\ UNCHANGED <<secret, enabled, batches, confirmed, renewed>>
    BY <1>i, <1>6 DEF M!MarkAsUsed, M!MarkedAsUsed, M!At, M!user, M!history
  <2>2. \A c \in M!Codes : M!Exists(c)' => M!Exists(c)
    BY <1>0, <2>1 DEF M!TypeOK, M!Exists
  <2>3. \E r \in M!RequestRecord : check' = [check EXCEPT ![q] = r] /\ r.pc = "marked"
    BY <1>0, <2>1, MfaGoto
  <2> QED
    BY <1>2, <2>1, <2>2, <2>3
<1>7. ASSUME NEW q \in Requests, M!MarkVerified(q)
      PROVE  MfaInTurn'
  <2>1. /\ M!Goto(q, "granting") /\ check[q] # M!Idle
        /\ UNCHANGED <<secret, enabled, code, batches, confirmed, renewed>>
    BY <1>i, <1>7 DEF M!MarkVerified, M!At, M!user, M!codes, M!history
  <2>2. \A c \in M!Codes : M!Exists(c)' => M!Exists(c)
    BY <2>1 DEF M!Exists
  <2>3. \E r \in M!RequestRecord : check' = [check EXCEPT ![q] = r] /\ r.pc = "granting"
    BY <1>0, <2>1, MfaGoto
  <2> QED
    BY <1>2, <2>1, <2>2, <2>3
<1>8. ASSUME NEW q \in Requests, M!CreateSession(q) \/ M!RequestFails(q)
      PROVE  MfaInTurn'
  <2>1. /\ check' = [check EXCEPT ![q] = M!Idle] /\ check[q] # M!Idle
        /\ UNCHANGED <<secret, enabled, code, batches, confirmed, renewed>>
    BY <1>i, <1>8 DEF M!CreateSession, M!RequestFails, M!Finish, M!user, M!codes, M!history
  <2>2. \A c \in M!Codes : M!Exists(c)' => M!Exists(c)
    BY <2>1 DEF M!Exists
  <2> QED
    BY <1>i, <1>2, <2>1, <2>2
<1>9. ASSUME NEW q \in Requests, M!Disable(q)
      PROVE  MfaInTurn'
  <2>1. /\ M!Goto(q, "off") /\ check[q] # M!Idle /\ ~enabled'
        /\ UNCHANGED <<code, batches, confirmed, renewed>>
    BY <1>i, <1>9 DEF M!Disable, M!At, M!codes, M!history
  <2>2. PICK r \in M!RequestRecord : check' = [check EXCEPT ![q] = r] /\ r.pc = "off"
    BY <1>0, <2>1, MfaGoto
  <2>3. check'[q] = r
    BY <1>0, <2>2 DEF M!TypeOK
  <2>4. ~Verifying(q)' /\ ~M!At(q, "setup", "valid")' /\ ~M!At(q, "regenerate", "deleted")'
    BY <2>2, <2>3 DEF Verifying, M!At
  <2>5. M!PreviousCodesAreInvalid'
    BY <1>n, <2>1, FewerCodes DEF M!Exists
  <2> QED
    BY <1>0, <1>n, <2>1, <2>2, <2>4, <2>5, MfaTurn
<1>10. ASSUME NEW q \in Requests, M!DeleteCodes(q)
       PROVE  MfaInTurn'
  <2>1. /\ code' = [c \in M!Codes |-> IF M!Exists(c) THEN "deleted" ELSE code[c]]
        /\ M!Finish(q) \/ M!Goto(q, "deleted")
        /\ check[q] # M!Idle
        /\ UNCHANGED <<secret, enabled, batches, confirmed, renewed>>
    BY <1>i, <1>10 DEF M!DeleteCodes, M!At, M!user, M!history
  <2>2. PICK r : check' = [check EXCEPT ![q] = r] /\ r.pc \in {"idle", "deleted"}
    <3>1. CASE M!Finish(q)
      BY <1>i, <3>1 DEF M!Finish
    <3>2. CASE M!Goto(q, "deleted")
      BY <1>0, <3>2, MfaGoto
    <3> QED
      BY <2>1, <3>1, <3>2
  <2>3. check'[q] = r
    BY <1>0, <2>2 DEF M!TypeOK
  <2>4. ~Verifying(q)' /\ ~M!At(q, "setup", "valid")'
    BY <2>2, <2>3 DEF Verifying, M!At
  <2>5. \A c \in M!Codes : ~M!Exists(c)'
    BY <2>1 DEF M!Exists
  <2>6. M!PreviousCodesAreInvalid'
    BY <2>5 DEF M!PreviousCodesAreInvalid
  <2> QED
    BY <1>0, <1>n, <2>1, <2>2, <2>4, <2>5, <2>6, MfaTurn
<1>11. ASSUME NEW q \in Requests, M!CreateCodes(q)
       PROVE  MfaInTurn'
  <2>1. /\ batches \in Nat /\ batches' = batches + 1
        /\ \A c \in M!Codes :
              code'[c] = IF c[1] = batches + 1 THEN "unused" ELSE code[c]
        /\ UNCHANGED <<secret, enabled, confirmed>>
    BY <1>11, CreateCodesFacts
  <2>2. PICK r \in M!RequestRecord :
           /\ check' = [check EXCEPT ![q] = r]
           /\ \/ /\ r = M!Idle /\ M!At(q, "regenerate", "deleted")
                 /\ renewed' = renewed \union {batches + 1}
              \/ /\ M!At(q, "verify", "valid")
                 /\ r.pc = "created" /\ r.op = "verify" /\ renewed' = renewed
                 /\ r.secret = check[q].secret
    BY <1>11, CreateCodesFacts
  <2>3. check'[q] = r /\ check[q] # M!Idle
    BY <1>0, <1>i, <2>2 DEF M!TypeOK, M!At
  <2>4. /\ ~M!At(q, "setup", "valid")'
        /\ ~M!At(q, "regenerate", "deleted")'
        /\ Verifying(q)' => M!At(q, "verify", "valid") /\ r.secret = check[q].secret
    BY <1>i, <2>2, <2>3 DEF Verifying, M!At
  <2>5. Verifying(q)' => ~enabled' /\ secret' # None /\ r.secret = secret'
    BY <2>1, <2>4 DEF Verifying, MfaInTurn
  <2>6. renewed' \subseteq 1..batches'
    <3>1. renewed' \subseteq renewed \union {batches + 1}
      BY <2>2
    <3>2. 1..batches \subseteq 1..(batches + 1) /\ batches + 1 \in 1..(batches + 1)
      BY <2>1
    <3> QED
      BY <1>n, <2>1, <3>1, <3>2
  <2>7. \A c \in M!Codes : M!Exists(c)' => c[1] = batches + 1 \/ M!Exists(c)
    BY <2>1 DEF M!Exists
  <2>8. ASSUME NEW c \in M!Codes, NEW d \in M!Codes, M!Exists(c)', M!Exists(d)', d[1] \in renewed'
        PROVE  c[1] >= d[1]
    <3>0. c[1] \in Nat /\ d[1] \in Nat
      BY CodesAreCodes
    <3>1. CASE M!At(q, "regenerate", "deleted")
      <4>1. c[1] = batches + 1 /\ d[1] = batches + 1
        BY <2>7, <2>8, <3>1 DEF MfaInTurn
      <4> QED
        BY <2>1, <4>1
    <3>2. CASE renewed' = renewed
      <4>0. d[1] \in 1..batches
        BY <1>n, <2>8, <3>2
      <4>1. d[1] <= batches
        BY <2>1, <4>0
      <4>2. d[1] # batches + 1
        BY <2>1, <3>0, <4>1
      <4>3. M!Exists(d)
        BY <2>7, <2>8, <4>2
      <4>4. c[1] = batches + 1 \/ c[1] >= d[1]
        BY <1>n, <2>7, <2>8, <3>2, <4>3 DEF M!PreviousCodesAreInvalid
      <4> QED
        BY <2>1, <3>0, <4>1, <4>4
    <3> QED
      BY <2>2, <3>1, <3>2
  <2>9. M!PreviousCodesAreInvalid'
    BY <2>8 DEF M!PreviousCodesAreInvalid
  <2> QED
    BY <1>0, <1>n, <2>1, <2>2, <2>3, <2>4, <2>5, <2>6, <2>9, MfaTurn
<1>12. CASE (\E s \in Challenges : M!LoginRequiresTwoFactor(s) \/ M!ChallengeExpires(s))
            \/ UNCHANGED mvars
  <2>1. UNCHANGED <<secret, enabled, code, batches, check, confirmed, renewed>>
    BY <1>12 DEF M!LoginRequiresTwoFactor, M!ChallengeExpires, M!user, M!codes, M!history, mvars
  <2> QED
    BY <2>1 DEF MfaInTurn, Verifying, M!At, M!Exists, M!PreviousCodesAreInvalid
<1>13. ASSUME NEW q \in Requests, M!Request(q)
       PROVE  MfaInTurn'
  BY <1>3, <1>4, <1>5, <1>6, <1>7, <1>8, <1>9, <1>10, <1>11, <1>13
  DEF M!Request, M!SetupMfa, M!VerifyMfa, M!ChallengeMfa, M!ConsumeBackupCode, M!DisableMfa,
      M!RegenerateBackupCodes
<1> QED
  BY <1>12, <1>13 DEF M!Next

\* Two-factor authentication in a behaviour of MCAuth.
MfaInv ==
    /\ MfaOK
    /\ GrantsWithin(Cardinality(Requests))
    /\ alone => GrantsWithin(1) /\ MfaInTurn

LEMMA MfaInvariance == MCSpec => []MfaInv
<1>1. MCInit => MfaInv
  <2> SUFFICES ASSUME MCInit PROVE MfaInv
    OBVIOUS
  <2>1. M!Init
    BY DEF MCInit
  <2>2. MfaOK /\ \A n \in Nat : GrantsWithin(n)
    BY <2>1, MfaInit
  <2>3. MfaInTurn
    BY <2>1, CodesAreCodes
    DEF M!Init, M!Idle, MfaInTurn, Verifying, M!At, M!PreviousCodesAreInvalid, M!Exists
  <2> QED
    BY <2>2, <2>3, Requests1 DEF MfaInv
<1>2. MfaInv /\ [MCNext]_mcvars => MfaInv'
  <2> SUFFICES ASSUME MfaInv, [MCNext]_mcvars PROVE MfaInv'
    OBVIOUS
  <2>1. CASE MfaNext
    <3>1. [M!Next]_mvars /\ alone' = alone
      BY <2>1 DEF MfaNext
    <3>2. MfaOK' /\ GrantsWithin(Cardinality(Requests))'
      BY <3>1, MfaStep, GrantStep, FiniteHolders, Requests1 DEF MfaInv
    <3>3. ASSUME alone PROVE GrantsWithin(1)' /\ MfaInTurn'
      <4>1. Cardinality({q \in Requests : check'[q] # M!Idle}) <= 1
        BY <2>1, <3>3 DEF MfaNext
      <4>2. \A q, k \in Requests : check'[q] # M!Idle /\ check'[k] # M!Idle => q = k
        <5>1. PICK f, idle : f = check' /\ idle = M!Idle
          OBVIOUS
        <5>2. Cardinality({q \in Requests : f[q] # idle}) <= 1
          BY <4>1, <5>1
        <5> QED
          BY <5>1, <5>2, OneBusy
      <4>3. \A c \in M!Codes : Cardinality(Holders(c)') <= 1
        <5> SUFFICES ASSUME NEW c \in M!Codes PROVE Cardinality(Holders(c)') <= 1
          OBVIOUS
        <5>1. \A q \in Holders(c)' : q \in Requests /\ check'[q] # M!Idle
          BY CodesAreCodes DEF Holders, M!Idle
        <5>2. \A q, k \in Holders(c)' : q = k
          BY <4>2, <5>1
        <5> QED
          BY <5>2, FiniteHolders, AtMostOne
      <4> QED
        BY <3>1, <3>3, <4>2, <4>3, GrantStep, MfaTakesTurns DEF MfaInv
    <3> QED
      BY <3>1, <3>2, <3>3 DEF MfaInv
  <2>2. CASE UNCHANGED <<mvars, alone>>
    <3>1. UNCHANGED <<secret, enabled, secrets, code, batches, challenge, check, confirmed,
                      renewed, granted, alone>>
      BY <2>2 DEF mvars
    <3>2. MfaOK'
      BY <2>2, MfaStep DEF MfaInv
    <3>3. \A n : GrantsWithin(n) => GrantsWithin(n)'
      BY <3>1 DEF GrantsWithin, Holders
    <3>4. MfaInTurn => MfaInTurn'
      BY <3>1 DEF MfaInTurn, Verifying, M!At, M!Exists, M!PreviousCodesAreInvalid
    <3> QED
      BY <3>1, <3>2, <3>3, <3>4 DEF MfaInv
  <2> QED
    BY <2>1, <2>2 DEF MCNext, AccountsNext, SessionsNext, mcvars
<1> QED
  BY <1>1, <1>2, PTL DEF MCSpec

\* Although markAsUsed does not ask whether a code is unused, it grants no more logins
\* than requests can be in progress, and one with one request at a time.
THEOREM CodesStayBounded == MCSpec => []CodeReuseIsBounded
<1>1. MfaInv => CodeReuseIsBounded
  <2> SUFFICES ASSUME MfaInv PROVE CodeReuseIsBounded
    OBVIOUS
  <2>1. \A c \in M!Codes : granted[c] \in Nat /\ Cardinality(Holders(c)) \in Nat
    BY FiniteHolders DEF MfaInv, MfaOK, M!TypeOK
  <2>2. M!CodeReuseIsBounded
    BY <2>1, Requests1, SameCounts DEF MfaInv, GrantsWithin, M!CodeReuseIsBounded
  <2>3. alone => M!CodesGrantOnce
    BY <2>1 DEF MfaInv, GrantsWithin, M!CodesGrantOnce
  <2> QED
    BY <2>2, <2>3 DEF CodeReuseIsBounded
<1> QED
  BY <1>1, MfaInvariance, PTL

\* With one request at a time, failures included, two-factor authentication is on with
\* the secret that verifyMfa checked a code of, and regenerateBackupCodes leaves no
\* previous code.
THEOREM MfaOneAtATime == MCSpec => []MfaAlone
<1>1. MfaInv => MfaAlone
  BY DEF MfaInv, MfaInTurn, MfaAlone, M!EnabledWithConfirmedSecret
<1> QED
  BY <1>1, MfaInvariance, PTL

-----------------------------------------------------------------------------
(* Password resets                                                          *)

\* With one request at a time: a token that set a password is lost, deleted, or about to
\* be deleted by the request that used it; no request that validated one relies on it
\* being new in vain.
ResetsInTurn ==
    /\ \A q, k \in Requests : request[q] # Idle /\ request[k] # Idle => q = k
    /\ used \subseteq 1..issued
    /\ \A t \in Tokens : t > issued => row[t] = None
    /\ \A q \in Requests :
          request[q].pc = "valid" /\ request[q].op = "reset" =>
             /\ request[q].token <= issued
             /\ request[q].token \in used => request[q].token \in lost
    /\ \A t \in used :
          \/ t \in lost
          \/ row[t] = None
          \/ \E q \in Requests : request[q].pc = "written" /\ request[q].token = t
    /\ again \subseteq lost

\* A step that sets no password.
LEMMA NoReset ==
    ASSUME Inv, ResetsInTurn, UNCHANGED <<used, again>>, lost \subseteq lost',
           issued' \in {issued, issued + 1},
           \A t \in Tokens : row'[t] # None => row[t] # None \/ t = issued',
           issued' = issued => \A t \in Tokens : row'[t] # None => row[t] # None,
           \A q \in Requests : request[q].pc = "written" =>
              \/ request'[q] = request[q]
              \/ request[q].token \in lost'
              \/ row'[request[q].token] = None,
           \A q \in Requests : request'[q].pc = "valid" /\ request'[q].op = "reset" =>
              \/ request'[q] = request[q]
              \/ /\ request'[q].token \in Tokens /\ row[request'[q].token] # None
                 /\ \A k \in Requests : request[k].pc # "written",
           \A q, k \in Requests : request'[q] # Idle /\ request'[k] # Idle => q = k
    PROVE  ResetsInTurn'
<1>1. issued \in Nat /\ issued' \in Nat /\ issued <= issued' /\ Tokens \subseteq Nat
  BY AccountConstants DEF Inv, TypeOK, Tokens
<1>2. used' \subseteq 1..issued'
  <2>1. 1..issued \subseteq 1..issued'
    BY <1>1
  <2> QED
    BY <2>1 DEF ResetsInTurn
<1>3. ASSUME NEW t \in Tokens, t > issued' PROVE row'[t] = None
  <2>1. t > issued /\ t # issued'
    BY <1>1, <1>3
  <2> QED
    BY <2>1 DEF ResetsInTurn
<1>4. ASSUME NEW q \in Requests, request'[q].pc = "valid", request'[q].op = "reset"
      PROVE  /\ request'[q].token <= issued'
             /\ request'[q].token \in used' => request'[q].token \in lost'
  <2>1. CASE request'[q] = request[q]
    <3>1. /\ request[q].token <= issued
          /\ request[q].token \in used => request[q].token \in lost
      BY <1>4, <2>1 DEF ResetsInTurn
    <3>2. request[q].token \in Nat
      <4>1. request[q].pc # "idle" /\ request[q].op = "reset"
        BY <1>4, <2>1
      <4>2. RequestOK(request[q]) /\ request[q] # Idle
        BY <4>1, RequestFacts
      <4> QED
        BY <1>1, <4>1, <4>2 DEF RequestOK
    <3> QED
      BY <1>1, <2>1, <3>1, <3>2
  <2>2. CASE /\ request'[q].token \in Tokens /\ row[request'[q].token] # None
             /\ \A k \in Requests : request[k].pc # "written"
    <3>1. PICK t \in Tokens : t = request'[q].token
      BY <2>2
    <3>2. row[t] # None
      BY <2>2, <3>1
    <3>3. t <= issued /\ (t \in used => t \in lost)
      BY <1>1, <2>2, <3>2 DEF ResetsInTurn
    <3> QED
      BY <1>1, <3>1, <3>3
  <2> QED
    BY <1>4, <2>1, <2>2
<1>5. ASSUME NEW t \in used'
      PROVE  \/ t \in lost'
             \/ row'[t] = None
             \/ \E q \in Requests : request'[q].pc = "written" /\ request'[q].token = t
  <2>1. t \in used /\ t \in Tokens /\ t <= issued
    BY <1>1, <1>5 DEF Inv, TypeOK, ResetsInTurn
  <2>2. CASE t \in lost
    BY <2>2
  <2>3. CASE row[t] = None
    BY <1>1, <2>1, <2>3
  <2>4. ASSUME NEW q \in Requests, request[q].pc = "written", request[q].token = t
        PROVE  \/ t \in lost'
               \/ row'[t] = None
               \/ \E k \in Requests : request'[k].pc = "written" /\ request'[k].token = t
    BY <2>4
  <2> QED
    BY <2>1, <2>2, <2>3, <2>4 DEF ResetsInTurn
<1>6. again' \subseteq lost'
  BY DEF ResetsInTurn
<1> QED
  BY <1>2, <1>3, <1>4, <1>5, <1>6 DEF ResetsInTurn

\* A step of a request that sets no password, validates no reset, and leaves no token
\* that it used.
LEMMA QuietReset ==
    ASSUME Inv, ResetsInTurn, UNCHANGED <<used, again>>, lost \subseteq lost',
           NEW q \in Requests, NEW r, request' = [request EXCEPT ![q] = r],
           ~(r.pc = "valid" /\ r.op = "reset"),
           \/ issued' = issued /\ \A t \in Tokens : row'[t] # None => row[t] # None
           \/ /\ issued' = issued + 1
              /\ \A t \in Tokens : row'[t] # None => row[t] # None \/ t = issued + 1,
           request[q].pc = "written" =>
              request[q].token \in lost' \/ row'[request[q].token] = None,
           \A j, k \in Requests : request'[j] # Idle /\ request'[k] # Idle => j = k
    PROVE  ResetsInTurn'
<1>1. \A k \in Requests : request'[k] = IF k = q THEN r ELSE request[k]
  BY DEF Inv, TypeOK
<1>2. \A k \in Requests : request[k].pc = "written" =>
         \/ request'[k] = request[k]
         \/ request[k].token \in lost'
         \/ row'[request[k].token] = None
  BY <1>1
<1>3. \A k \in Requests : request'[k].pc = "valid" /\ request'[k].op = "reset" =>
         request'[k] = request[k]
  BY <1>1
<1>4. issued \in Nat /\ issued # issued + 1
  BY DEF Inv, TypeOK
<1> QED
  BY <1>2, <1>3, <1>4, NoReset

LEMMA ResetStart ==
    ASSUME Inv, ResetsInTurn, NEW q \in Requests, NEW op, NEW u, NEW t, NEW seen, NEW new,
           Start(q, op, u, t, seen, new),
           op = "reset" => t \in Tokens /\ row[t] # None,
           \A j, k \in Requests : request'[j] # Idle /\ request'[k] # Idle => j = k
    PROVE  ResetsInTurn'
<1> DEFINE r == [pc |-> "valid", op |-> op, user |-> u, token |-> t, seen |-> seen, new |-> new]
<1>1. /\ request' = [request EXCEPT ![q] = r] /\ request[q].pc = "idle"
      /\ r.pc = "valid" /\ r.op = op /\ r.token = t
      /\ UNCHANGED <<row, issued, lost, used, again>>
  BY DEF Start, tables, history
<1>2. r # Idle
  BY DEF Idle
<1> HIDE DEF r
<1>3. \A k \in Requests : request'[k] = IF k = q THEN r ELSE request[k]
  BY <1>1 DEF Inv, TypeOK
<1>4. \A k \in Requests : request[k].pc # "written"
  <2> SUFFICES ASSUME NEW k \in Requests, request[k].pc = "written" PROVE FALSE
    OBVIOUS
  <2>1. k # q /\ request'[k] = request[k] /\ request[k] # Idle /\ request'[q] = r
    BY <1>1, <1>3 DEF Idle
  <2> QED
    BY <1>2, <2>1
<1> QED
  BY <1>1, <1>3, <1>4, NoReset

LEMMA ResetTakesTurns ==
    ASSUME Inv, ResetsInTurn, [Next]_vars,
           \A j, k \in Requests : request'[j] # Idle /\ request'[k] # Idle => j = k
    PROVE  ResetsInTurn'
<1>i. Idle.pc = "idle"
  BY DEF Idle
<1>1. ASSUME NEW q \in Requests,
             \/ \E u \in Users, p \in Passwords : ValidateRegister(q, u, p)
             \/ \E u \in Users : FindOAuthAccount(q, u)
             \/ \E u \in Users : ValidateResendVerification(q, u)
             \/ \E u \in Users : ValidateResetPasswordRequest(q, u)
             \/ \E t \in Tokens : ValidateVerifyEmail(q, t)
             \/ \E u \in Users, p \in Passwords : ValidateChangePassword(q, u, p)
             \/ \E t \in Tokens, p \in Passwords : ValidateResetPasswordConfirm(q, t, p)
      PROVE  ResetsInTurn'
  <2>1. \E op, u, t, seen, new :
           /\ Start(q, op, u, t, seen, new)
           /\ op = "reset" => t \in Tokens /\ row[t] # None
    BY <1>1 DEF ValidateRegister, FindOAuthAccount, ValidateResendVerification,
       ValidateResetPasswordRequest, ValidateVerifyEmail, ValidateChangePassword,
       ValidateResetPasswordConfirm, Valid
  <2> QED
    BY <2>1, ResetStart
<1>2. ASSUME NEW q \in Requests, CreateUser(q) \/ CreateVerificationRequest(q)
      PROVE  ResetsInTurn'
  <2>1. /\ UNCHANGED <<lost, used, again>> /\ issued' = issued + 1
        /\ request' = [request EXCEPT ![q].pc = "stored", ![q].token = issued + 1]
        /\ request[q].pc # "written"
    BY <1>2 DEF CreateUser, CreateVerificationRequest, history
  <2>2. \A t \in Tokens : row'[t] # None => row[t] # None \/ t = issued + 1
    BY <1>2 DEF CreateUser, CreateVerificationRequest, Inv, TypeOK
  <2>3. PICK r : r = [request[q] EXCEPT !.pc = "stored", !.token = issued + 1]
    OBVIOUS
  <2>4. request' = [request EXCEPT ![q] = r] /\ r.pc = "stored"
    <3>1. request[q] \in RequestRecord /\ request \in [Requests -> RequestRecord]
      BY DEF Inv, TypeOK
    <3>2. r.pc = "stored"
      BY <2>3, <3>1 DEF RequestRecord
    <3>3. request' = [request EXCEPT ![q] = r]
      BY <2>1, <2>3, <3>1
    <3> QED
      BY <3>2, <3>3
  <2> QED
    BY <2>1, <2>2, <2>4, QuietReset
<1>3. ASSUME NEW q \in Requests,
             \/ ActivateShadowUser(q) \/ LinkOAuthAccount(q) \/ CreateOAuthUser(q)
             \/ UpdatePassword(q) \/ SendToken(q)
      PROVE  ResetsInTurn'
  <2>1. /\ UNCHANGED <<row, issued, lost, used, again>>
        /\ request' = [request EXCEPT ![q] = Idle]
        /\ request[q].pc # "written"
    BY <1>3 DEF ActivateShadowUser, LinkOAuthAccount, CreateOAuthUser, UpdatePassword,
       SendToken, tables, history
  <2> QED
    BY <1>i, <2>1, QuietReset
<1>4. ASSUME NEW q \in Requests, DeleteByUserIdAndType(q)
      PROVE  ResetsInTurn'
  <2>1. /\ UNCHANGED <<issued, lost, used, again>>
        /\ request' = [request EXCEPT ![q].pc = "deleted"]
        /\ request[q].pc # "written"
        /\ \A t \in Tokens : row'[t] # None => row[t] # None
    BY <1>4 DEF DeleteByUserIdAndType, history
  <2>2. PICK r : r = [request[q] EXCEPT !.pc = "deleted"]
    OBVIOUS
  <2>3. request' = [request EXCEPT ![q] = r] /\ r.pc = "deleted"
    BY <2>1, <2>2 DEF Inv, TypeOK, RequestRecord
  <2> QED
    BY <2>1, <2>3, QuietReset
<1>5. ASSUME NEW q \in Requests, VerifyUser(q)
      PROVE  ResetsInTurn'
  <2>1. /\ UNCHANGED <<row, issued, lost, used, again>>
        /\ request' = [request EXCEPT ![q].pc = "written"]
        /\ request[q].pc # "written"
    BY <1>5 DEF VerifyUser, history
  <2>2. PICK r : r = [request[q] EXCEPT !.pc = "written"]
    OBVIOUS
  <2>3. request' = [request EXCEPT ![q] = r] /\ r.pc = "written"
    BY <2>1, <2>2 DEF Inv, TypeOK, RequestRecord
  <2> QED
    BY <2>1, <2>3, QuietReset
<1>6. ASSUME NEW q \in Requests, DeleteByToken(q) \/ RequestFails(q)
      PROVE  ResetsInTurn'
  <2>1. /\ UNCHANGED <<issued, used, again>> /\ lost \subseteq lost'
        /\ request' = [request EXCEPT ![q] = Idle]
        /\ request[q].pc # "idle"
    BY <1>6 DEF DeleteByToken, RequestFails, tables, history
  <2>2. request[q].pc = "written" => request[q].token \in Tokens
    BY <2>1, RequestFacts DEF RequestOK
  <2>3. /\ \A t \in Tokens : row'[t] # None => row[t] # None
        /\ request[q].pc = "written" =>
              request[q].token \in lost' \/ row'[request[q].token] = None
    BY <1>6, <2>2 DEF DeleteByToken, RequestFails, tables, Inv, TypeOK
  <2> QED
    BY <1>i, <2>1, <2>3, QuietReset
<1>7. ASSUME NEW q \in Requests, SetPassword(q)
      PROVE  ResetsInTurn'
  <2>t. PICK t : t = request[q].token
    OBVIOUS
  <2>1. /\ request[q].pc = "valid" /\ request[q].op = "reset"
        /\ UNCHANGED <<row, issued, lost>>
        /\ used' = used \union {t}
        /\ again' = again \union ({t} \intersect used)
        /\ request' = [request EXCEPT ![q].pc = "written"]
    BY <1>7, <2>t DEF SetPassword
  <2>2. t \in Tokens /\ t <= issued /\ (t \in used => t \in lost)
    BY <2>t, <2>1, RequestFacts DEF RequestOK, ResetsInTurn
  <2>3. /\ \A k \in Requests : k # q => request'[k] = request[k] /\ request[k] = Idle
        /\ request'[q].pc = "written" /\ request'[q].token = t
    <3>1. request[q] # Idle
      BY <1>i, <2>1
    <3>2. /\ \A k \in Requests : k # q => request'[k] = request[k]
          /\ request'[q].pc = "written" /\ request'[q].token = t
      BY <2>t, <2>1 DEF Inv, TypeOK, RequestRecord
    <3> QED
      BY <3>1, <3>2 DEF ResetsInTurn
  <2>4. used' \subseteq 1..issued'
    <3>1. t \in 1..issued
      BY <2>2 DEF Tokens, Inv, TypeOK
    <3> QED
      BY <2>1, <3>1 DEF ResetsInTurn
  <2>5. \A k \in Requests : ~(request'[k].pc = "valid" /\ request'[k].op = "reset")
    BY <1>i, <2>3
  <2>6. ASSUME NEW s \in used'
        PROVE  \/ s \in lost'
               \/ row'[s] = None
               \/ \E k \in Requests : request'[k].pc = "written" /\ request'[k].token = s
    <3>1. CASE s = t
      BY <2>3, <3>1
    <3>2. CASE s \in used
      <4>1. \A k \in Requests : request[k].pc # "written"
        BY <1>i, <2>1, <2>3
      <4> QED
        BY <2>1, <3>2, <4>1 DEF ResetsInTurn
    <3> QED
      BY <2>1, <3>1, <3>2
  <2>7. again' \subseteq lost'
    BY <2>1, <2>2 DEF ResetsInTurn
  <2>8. \A s \in Tokens : s > issued' => row'[s] = None
    BY <2>1 DEF ResetsInTurn
  <2> QED
    BY <2>4, <2>5, <2>6, <2>7, <2>8 DEF ResetsInTurn
<1>8. CASE \/ \E u \in Users : CreateShadowUser(u)
           \/ \E t \in Tokens : TokenExpires(t)
           \/ DeleteExpired
           \/ UNCHANGED vars
  <2>1. UNCHANGED <<issued, lost, used, again, request>>
    BY <1>8 DEF CreateShadowUser, TokenExpires, DeleteExpired, vars, history
  <2>2. \A t \in Tokens : row'[t] # None => row[t] # None
    BY <1>8 DEF CreateShadowUser, TokenExpires, DeleteExpired, vars, Inv, TypeOK
  <2>3. issued \in Nat
    BY DEF Inv, TypeOK
  <2> QED
    BY <2>1, <2>2, <2>3, NoReset
<1>9. ASSUME NEW q \in Requests, Request(q)
      PROVE  ResetsInTurn'
  BY <1>1, <1>2, <1>3, <1>4, <1>5, <1>6, <1>7, <1>9
  DEF Request, Register, HandleOAuthCallback, RenewToken, VerifyEmail, ConfirmPasswordReset,
      ChangePassword
<1> QED
  BY <1>8, <1>9 DEF Next

\* The accounts of a behaviour of MCAuth.
AccountsInv == Inv /\ (alone => ResetsInTurn)

LEMMA AccountsInvariance == MCSpec => []AccountsInv
<1>1. MCInit => AccountsInv
  <2> SUFFICES ASSUME MCInit PROVE Inv /\ ResetsInTurn
    BY DEF AccountsInv
  <2> QED
    BY InitInv DEF MCInit, Init, Idle, ResetsInTurn
<1>2. AccountsInv /\ [MCNext]_mcvars => AccountsInv'
  <2> SUFFICES ASSUME AccountsInv, [MCNext]_mcvars PROVE AccountsInv'
    OBVIOUS
  <2>1. CASE AccountsNext
    <3>1. [Next]_vars /\ alone' = alone
      BY <2>1 DEF AccountsNext
    <3>2. Inv'
      BY <3>1, InvStep DEF AccountsInv
    <3>3. ASSUME alone PROVE ResetsInTurn'
      <4>1. Cardinality({q \in Requests : request'[q] # Idle}) <= 1
        BY <2>1, <3>3 DEF AccountsNext
      <4>2. \A q, k \in Requests : request'[q] # Idle /\ request'[k] # Idle => q = k
        <5>1. PICK f, idle : f = request' /\ idle = Idle
          OBVIOUS
        <5>2. Cardinality({q \in Requests : f[q] # idle}) <= 1
          BY <4>1, <5>1
        <5> QED
          BY <5>1, <5>2, OneBusy
      <4> QED
        BY <3>1, <3>3, <4>2, ResetTakesTurns DEF AccountsInv
    <3> QED
      BY <3>1, <3>2, <3>3 DEF AccountsInv
  <2>2. CASE UNCHANGED <<vars, alone>>
    <3>1. UNCHANGED <<account, onboarded, row, issued, mailed, request, lost, used, again, alone>>
      BY <2>2 DEF vars
    <3>2. Inv'
      BY <2>2, InvStep DEF AccountsInv
    <3>3. ResetsInTurn => ResetsInTurn'
      BY <3>1 DEF ResetsInTurn
    <3> QED
      BY <3>1, <3>2, <3>3 DEF AccountsInv
  <2> QED
    BY <2>1, <2>2 DEF MCNext, SessionsNext, MfaNext, mcvars
<1> QED
  BY <1>1, <1>2, PTL DEF MCSpec

\* With one request at a time a link sets one password, unless its request failed between
\* the password and the deletion of the token: the deletion is all that protects it.
THEOREM ResetsOneAtATime == MCSpec => []ResetsOnceAlone
<1>1. AccountsInv => ResetsOnceAlone
  BY DEF AccountsInv, ResetsInTurn, ResetsOnceAlone, ResetsOnce
<1> QED
  BY <1>1, AccountsInvariance, PTL

\* Every user, token, session, secret, code and request has its type.
THEOREM AuthTypes == MCSpec => []TypesOK
<1>1. AccountsInv /\ SessionsInv /\ MfaInv => TypesOK
  BY DEF AccountsInv, Inv, SessionsInv, SessionsOK, MfaInv, MfaOK, TypesOK
<1> QED
  BY <1>1, AccountsInvariance, SessionsInvariance, MfaInvariance, PTL

-----------------------------------------------------------------------------
(* The components by themselves                                             *)

\* Sessions alone: its types, and that a login that lost its last session makes no
\* other, whatever overlaps.
THEOREM SessionsCorrect == S!Spec => []S!TypeOK /\ S!DeadLoginsStayDead
<1>1. SessionsOK /\ [S!Next]_(S!vars) => SessionsOK'
  BY SessionsStep DEF S!vars, svars
<1>2. SessionsOK => S!TypeOK
  BY DEF SessionsOK
<1>3. SessionsOK /\ [S!Next]_(S!vars)
         => [\A l \in 1..rows : ~S!Alive(l) => ~S!Alive(l)']_(S!vars)
  BY DeadLoginsStep DEF S!vars, svars
<1> QED
  BY SessionsInit, <1>1, <1>2, <1>3, PTL DEF S!Spec, S!DeadLoginsStayDead

\* Mfa alone: its types, and that a backup code grants no more logins than requests can
\* be in progress, whatever overlaps.
THEOREM MfaCorrect == M!Spec => [](M!TypeOK /\ M!CodeReuseIsBounded)
<1> DEFINE I == MfaOK /\ GrantsWithin(Cardinality(Requests))
<1>1. M!Init => I
  BY MfaInit, Requests1
<1>2. I /\ [M!Next]_(M!vars) => I'
  <2>1. ASSUME I, [M!Next]_mvars PROVE I'
    BY <2>1, MfaStep, GrantStep, FiniteHolders, Requests1
  <2> QED
    BY <2>1 DEF M!vars, mvars
<1>3. I => M!TypeOK /\ M!CodeReuseIsBounded
  <2> SUFFICES ASSUME I PROVE M!TypeOK /\ M!CodeReuseIsBounded
    OBVIOUS
  <2>1. \A c \in M!Codes : granted[c] \in Nat /\ Cardinality(Holders(c)) \in Nat
    BY FiniteHolders DEF MfaOK, M!TypeOK
  <2> QED
    BY <2>1, Requests1, SameCounts DEF MfaOK, GrantsWithin, M!CodeReuseIsBounded
<1> HIDE DEF I
<1> QED
  BY <1>1, <1>2, <1>3, PTL DEF M!Spec

=============================================================================
