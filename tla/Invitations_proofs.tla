------------------------- MODULE Invitations_proofs -------------------------
(***************************************************************************)
(* Proofs about Invitations, for any users, requests, seats and number of  *)
(* tokens: its types, that the workspace keeps its one owner, who becomes  *)
(* a member and how often, and that no invitation is left with dead links  *)
(* only.                                                                   *)
(***************************************************************************)
EXTENDS Invitations, FiniteSetTheorems, TLAPS

Known(u) == account[u] # "none"

\* What holds of a request: what it needs later is there, and is not the owner's role
\* or membership.
RequestOK(r) ==
    \/ r = Idle
    \/ /\ r.pc # "idle"
       /\ r.op # "delete" => r.email \in Users
       /\ r.op \in {"role", "remove"} => r.email # Owner
       /\ r.op \in {"invite", "accept", "role"} => r.role \in GrantedRoles
       /\ r.pc \in {"unknown", "known"} => r.op = "invite"
       /\ r.pc = "known" => Known(r.email)
       /\ r.pc \in {"stored", "told"} => r.token \in Tokens

RequestsOK ==
    /\ request \in [Requests -> RequestRecord]
    /\ \A q \in Requests : RequestOK(request[q])

\* The code keeps the row of an accepted invitation, which refuses every other
\* invitation of its member; and whoever has a row has a user.
MembersWereInvited ==
    \A u \in Users :
        /\ u \in Members \ {Owner} => invitation[u] # None /\ invitation[u].accepted
        /\ invitation[u] # None => account[u] # "none"

LinkIsOnItsWay ==
    \A u \in Users : invitation[u] # None =>
        \/ invitation[u].token \in inbox \union lost
        \/ \E q \in Requests : request[q].pc = "stored" /\ request[q].token = invitation[u].token

Inv ==
    /\ TypeOK
    /\ RequestsOK
    /\ OneOwner
    /\ MembersWereInvited
    /\ LinkIsOnItsWay

LEMMA IdleIsOK == Idle \in RequestRecord /\ RequestOK(Idle) /\ RequestOK(Idle)'
  BY DEF Idle, RequestRecord, RequestOK

\* What holds of a request before a step of it.
LEMMA RequestFacts ==
    ASSUME Inv, NEW q \in Requests, request[q].pc # "idle"
    PROVE  /\ RequestOK(request[q])
           /\ request[q] # Idle
           /\ request[q] \in RequestRecord
<1>1. request[q] # Idle
  BY DEF Idle
<1> QED
  BY <1>1 DEF Inv, RequestsOK

\* A request goes on; the others stay sound as long as no user vanishes.
LEMMA RequestsStep ==
    ASSUME Inv, NEW q \in Requests, NEW r \in RequestRecord,
           request' = [request EXCEPT ![q] = r],
           RequestOK(r)',
           \A u \in Users : Known(u) => Known(u)'
    PROVE  RequestsOK'
<1>1. /\ request' \in [Requests -> RequestRecord]
      /\ \A k \in Requests : request'[k] = IF k = q THEN r ELSE request[k]
  BY DEF Inv, RequestsOK
<1>2. \A k \in Requests : RequestOK(request[k])'
  <2> SUFFICES ASSUME NEW k \in Requests PROVE RequestOK(request[k])'
    OBVIOUS
  <2>1. CASE k = q
    BY <1>1, <2>1 DEF RequestOK, Known
  <2>2. CASE k # q
    <3>1. request'[k] = request[k] /\ RequestOK(request[k])
      BY <1>1, <2>2 DEF Inv, RequestsOK
    <3> QED
      BY <3>1 DEF RequestOK, Known
  <2> QED
    BY <2>1, <2>2
<1> QED
  BY <1>1, <1>2 DEF RequestsOK

\* A step that changes no row and takes no token away.
LEMMA QuietStep ==
    ASSUME Inv, NEW q \in Requests, NEW r \in RequestRecord,
           request' = [request EXCEPT ![q] = r],
           RequestOK(r)',
           UNCHANGED <<account, open, member, invitation, seats, issued, joins>>,
           inbox' \subseteq Tokens, inbox \subseteq inbox',
           lost' \subseteq Tokens, lost \subseteq lost',
           mailed' \subseteq Tokens,
           request[q].pc = "stored" => request[q].token \in inbox' \union lost'
    PROVE  Inv'
<1>1. RequestsOK'
  BY RequestsStep DEF Known
<1>2. TypeOK'
  BY <1>1 DEF Inv, TypeOK, RequestsOK
<1>3. OneOwner' /\ MembersWereInvited'
  BY DEF Inv, OneOwner, MembersWereInvited, Members
<1>4. LinkIsOnItsWay'
  <2> SUFFICES ASSUME NEW u \in Users, invitation[u] # None
               PROVE  \/ invitation[u].token \in inbox' \union lost'
                      \/ \E k \in Requests : /\ request'[k].pc = "stored"
                                             /\ request'[k].token = invitation[u].token
    BY DEF LinkIsOnItsWay
  <2>1. CASE invitation[u].token \in inbox \union lost
    BY <2>1
  <2>2. ASSUME NEW k \in Requests, request[k].pc = "stored",
               request[k].token = invitation[u].token
        PROVE  \/ invitation[u].token \in inbox' \union lost'
               \/ request'[k].pc = "stored" /\ request'[k].token = invitation[u].token
    BY <2>2 DEF Inv, TypeOK
  <2> QED
    BY <2>1, <2>2 DEF Inv, LinkIsOnItsWay
<1> QED
  BY <1>1, <1>2, <1>3, <1>4 DEF Inv

\* A step that writes the invitation of one address: its token is the one it had, or
\* the request that wrote it is about to send it.
LEMMA InvitationStep ==
    ASSUME Inv, NEW e \in Users, NEW rec \in InvitationRow,
           invitation' = [invitation EXCEPT ![e] = rec],
           RequestsOK',
           \A k \in Requests : request[k].pc = "stored" => request'[k] = request[k],
           UNCHANGED <<account, open, member, seats, inbox, mailed, joins, lost>>,
           issued' \in 0..MaxTokens,
           Known(e),
           e \in Members \ {Owner} => rec.accepted,
           \/ invitation[e] # None /\ rec.token = invitation[e].token
           \/ \E k \in Requests : request'[k].pc = "stored" /\ request'[k].token = rec.token
    PROVE  Inv'
<1>1. /\ invitation' \in [Users -> InvitationRow \union {None}]
      /\ invitation'[e] = rec
      /\ \A u \in Users \ {e} : invitation'[u] = invitation[u]
  BY DEF Inv, TypeOK
<1>2. TypeOK'
  BY <1>1 DEF Inv, TypeOK, RequestsOK
<1>3. OneOwner'
  BY DEF Inv, OneOwner, Members
<1>4. MembersWereInvited'
  BY <1>1, RowsAreRows DEF Inv, MembersWereInvited, Members, Known
<1>5. LinkIsOnItsWay'
  <2> SUFFICES ASSUME NEW u \in Users, invitation'[u] # None
               PROVE  \/ invitation'[u].token \in inbox \union lost
                      \/ \E k \in Requests : /\ request'[k].pc = "stored"
                                             /\ request'[k].token = invitation'[u].token
    BY DEF LinkIsOnItsWay
  <2>1. CASE invitation[u] # None /\ invitation'[u].token = invitation[u].token
    <3>1. \/ invitation[u].token \in inbox \union lost
          \/ \E k \in Requests : request[k].pc = "stored" /\ request[k].token = invitation[u].token
      BY <2>1 DEF Inv, LinkIsOnItsWay
    <3> QED
      BY <2>1, <3>1
  <2>2. CASE ~(invitation[u] # None /\ invitation'[u].token = invitation[u].token)
    <3>1. u = e
      BY <1>1, <2>2
    <3> QED
      BY <1>1, <2>2, <3>1
  <2> QED
    BY <2>1, <2>2
<1> QED
  BY <1>2, <1>3, <1>4, <1>5 DEF Inv

\* A step that writes the members: each is the owner or has accepted.
LEMMA MemberStep ==
    ASSUME Inv, NEW q \in Requests, NEW e \in Users, NEW role \in Roles \union {None},
           member' = [member EXCEPT ![e] = role],
           request' = [request EXCEPT ![q] = Idle],
           request[q].pc # "stored",
           UNCHANGED <<account, open, seats, issued, inbox, mailed, lost>>,
           joins' \in [Users -> Nat],
           invitation' \in [Users -> InvitationRow \union {None}],
           \A u \in Users : /\ invitation'[u] = None <=> invitation[u] = None
                            /\ invitation'[u] # None => invitation'[u].token = invitation[u].token,
           \A u \in Users \ {e} : invitation'[u] = invitation[u],
           role # "OWNER",
           open => e # Owner,
           role # None => invitation'[e] # None /\ invitation'[e].accepted
    PROVE  Inv'
<1>1. /\ member' \in [Users -> Roles \union {None}]
      /\ member'[e] = role
      /\ \A u \in Users \ {e} : member'[u] = member[u]
  BY DEF Inv, TypeOK
<1>2. RequestsOK'
  BY IdleIsOK, RequestsStep DEF Known
<1>3. TypeOK'
  BY <1>1, <1>2 DEF Inv, TypeOK, RequestsOK
<1>4. OneOwner'
  BY <1>1, InvitationConstants DEF Inv, OneOwner, Members
<1>5. MembersWereInvited'
  BY <1>1 DEF Inv, MembersWereInvited, Members
<1>6. LinkIsOnItsWay'
  <2>1. \A k \in Requests : request[k].pc = "stored" => request'[k] = request[k]
    BY DEF Inv, TypeOK
  <2> QED
    BY <2>1 DEF Inv, LinkIsOnItsWay
<1> QED
  BY <1>2, <1>3, <1>4, <1>5, <1>6 DEF Inv

-----------------------------------------------------------------------------
(* Each operation                                                           *)

LEMMA StartStep ==
    ASSUME Inv, NEW q \in Requests, NEW op \in Ops, NEW e \in Users \union {None},
           NEW role \in GrantedRoles \union {None}, NEW token \in Tokens \union {None},
           Start(q, op, e, role, token),
           op # "delete" => e \in Users,
           op \in {"role", "remove"} => e # Owner,
           op \in {"invite", "accept", "role"} => role \in GrantedRoles
    PROVE  Inv'
<1> DEFINE r == [pc |-> "valid", op |-> op, email |-> e, role |-> role, token |-> token]
<1>1. r \in RequestRecord /\ request' = [request EXCEPT ![q] = r] /\ request[q].pc = "idle"
  BY DEF Start, RequestRecord
<1>2. RequestOK(r)'
  BY DEF RequestOK
<1>3. UNCHANGED <<account, open, member, invitation, seats, issued, inbox, mailed, lost, joins>>
  BY DEF Start, tables, history
<1> HIDE DEF r
<1> QED
  BY <1>1, <1>2, <1>3, QuietStep DEF Inv, TypeOK

\* A request that ends before it wrote anything that others see, or after.
LEMMA EndStep ==
    ASSUME Inv, NEW q \in Requests,
           RefuseSecondInvitation(q) \/ SendWorkspaceInvitation(q) \/ RequestFails(q)
    PROVE  Inv'
<1>1. /\ request[q].pc # "idle"
      /\ request' = [request EXCEPT ![q] = Idle]
      /\ UNCHANGED <<account, open, member, invitation, seats, issued, inbox, joins>>
  BY DEF RefuseSecondInvitation, SendWorkspaceInvitation, RequestFails, Fail, Finish,
         tables, history
<1>2. request[q].pc \in {"stored", "told"} => request[q].token \in Tokens
  BY <1>1, RequestFacts DEF RequestOK
<1>3. mailed' \subseteq Tokens
  BY <1>2 DEF RefuseSecondInvitation, SendWorkspaceInvitation, RequestFails, Fail, Inv, TypeOK
<1>4. /\ lost' \subseteq Tokens /\ lost \subseteq lost'
      /\ request[q].pc = "stored" => request[q].token \in lost'
  BY <1>2 DEF RefuseSecondInvitation, SendWorkspaceInvitation, RequestFails, Fail, history,
              Inv, TypeOK
<1>5. inbox' \subseteq Tokens /\ inbox \subseteq inbox'
  BY <1>1 DEF Inv, TypeOK
<1> QED
  BY <1>1, <1>3, <1>4, <1>5, IdleIsOK, QuietStep

LEMMA InviteStep ==
    ASSUME Inv, NEW q \in Requests, Invite(q)
    PROVE  Inv'
<1>1. ASSUME NEW u \in Users, NEW e \in Users, NEW role \in GrantedRoles,
             ValidateInvite(q, u, e, role)
      PROVE  Inv'
  BY <1>1, StartStep DEF ValidateInvite, Ops
<1>2. CASE FindInvitee(q)
  <2>1. /\ RequestOK(request[q]) /\ request[q] # Idle /\ request[q] \in RequestRecord
        /\ request[q].op = "invite" /\ request[q].pc = "valid"
    BY <1>2, RequestFacts DEF FindInvitee
  <2>2. PICK pc \in {"known", "unknown"} :
           /\ pc = "known" => Known(request[q].email)
           /\ request' = [request EXCEPT ![q].pc = pc]
    BY <1>2 DEF FindInvitee, Known
  <2>3. PICK r : r = [request[q] EXCEPT !.pc = pc]
    OBVIOUS
  <2>4. r \in RequestRecord /\ request' = [request EXCEPT ![q] = r]
    BY <2>1, <2>2, <2>3 DEF RequestRecord, Inv, TypeOK
  <2>5. /\ r.pc = pc /\ r.op = "invite" /\ r.email = request[q].email
        /\ r.role = request[q].role
    BY <2>1, <2>3 DEF RequestRecord
  <2>6. UNCHANGED <<account, open, member, invitation, seats, issued, inbox, mailed, lost, joins>>
    BY <1>2 DEF FindInvitee, tables, history
  <2>7. RequestOK(r)
    BY <2>1, <2>2, <2>5 DEF RequestOK
  <2>8. RequestOK(r)'
    BY <2>6, <2>7 DEF RequestOK, Known
  <2> QED
    BY <2>1, <2>4, <2>6, <2>8, QuietStep DEF Inv, TypeOK
<1>3. CASE CreateShadowUser(q)
  <2>1. /\ RequestOK(request[q]) /\ request[q] # Idle /\ request[q] \in RequestRecord
        /\ request[q].op = "invite" /\ request[q].pc = "unknown" /\ request[q].email \in Users
    BY <1>3, RequestFacts DEF CreateShadowUser, RequestOK
  <2>2. /\ account' = [account EXCEPT ![request[q].email] = "shadow"]
        /\ request' = [request EXCEPT ![q].pc = "known"]
        /\ UNCHANGED <<open, member, invitation, seats, issued, inbox, mailed, lost, joins>>
    BY <1>3 DEF CreateShadowUser, history
  <2>3. PICK r : r = [request[q] EXCEPT !.pc = "known"]
    OBVIOUS
  <2>4. r \in RequestRecord /\ request' = [request EXCEPT ![q] = r]
    BY <2>1, <2>2, <2>3 DEF RequestRecord, Inv, TypeOK
  <2>5. /\ r.pc = "known" /\ r.op = "invite" /\ r.email = request[q].email
        /\ r.role = request[q].role /\ r.role \in GrantedRoles
    BY <2>1, <2>3 DEF RequestRecord, RequestOK
  <2>6. /\ account' \in [Users -> {"none", "shadow", "active"}]
        /\ account'[r.email] # "none"
        /\ \A u \in Users : Known(u) => Known(u)'
    BY <2>1, <2>2, <2>5 DEF Inv, TypeOK, Known
  <2>7. RequestOK(r)'
    BY <2>1, <2>5, <2>6 DEF RequestOK, Known
  <2>8. RequestsOK'
    BY <2>4, <2>6, <2>7, RequestsStep
  <2>9. TypeOK' /\ OneOwner'
    BY <2>2, <2>6, <2>8 DEF Inv, TypeOK, RequestsOK, OneOwner, Members
  <2>10. MembersWereInvited'
    BY <2>2, <2>6 DEF Inv, MembersWereInvited, Members, Known
  <2>11. LinkIsOnItsWay'
    <3>1. \A k \in Requests : request[k].pc = "stored" => request'[k] = request[k]
      BY <2>1, <2>2 DEF Inv, TypeOK
    <3> QED
      BY <2>2, <3>1 DEF Inv, LinkIsOnItsWay
  <2> QED
    BY <2>8, <2>9, <2>10, <2>11 DEF Inv
<1>4. CASE StoreInvitation(q)
  <2> DEFINE e == request[q].email
             rec == NewInvitation(request[q].role)
  <2>1. /\ RequestOK(request[q]) /\ request[q] # Idle /\ request[q] \in RequestRecord
        /\ request[q].op = "invite" /\ request[q].pc = "known" /\ e \in Users
        /\ request[q].role \in GrantedRoles /\ Known(e) /\ invitation[e] = None
    BY <1>4, RequestFacts DEF StoreInvitation, RequestOK
  <2>2. issued + 1 \in Tokens /\ issued + 1 \in 0..MaxTokens
    BY <1>4, InvitationConstants DEF StoreInvitation, Inv, TypeOK, Tokens
  <2>3. rec \in InvitationRow /\ rec.token = issued + 1
    BY <2>1, <2>2 DEF NewInvitation, InvitationRow
  <2>4. /\ invitation' = [invitation EXCEPT ![e] = rec]
        /\ issued' = issued + 1
        /\ request' = [request EXCEPT ![q].pc = "stored", ![q].token = issued + 1]
        /\ UNCHANGED <<account, open, member, seats, inbox, mailed, lost, joins>>
    BY <1>4 DEF StoreInvitation, history
  <2>5. PICK r : r = [request[q] EXCEPT !.pc = "stored", !.token = issued + 1]
    OBVIOUS
  <2>6. /\ r \in RequestRecord /\ request' = [request EXCEPT ![q] = r]
        /\ \A k \in Requests : request'[k] = IF k = q THEN r ELSE request[k]
    BY <2>1, <2>2, <2>4, <2>5 DEF RequestRecord, Inv, TypeOK
  <2>7. /\ r.pc = "stored" /\ r.op = "invite" /\ r.email = e /\ r.token = issued + 1
        /\ r.role \in GrantedRoles
    BY <2>1, <2>5 DEF RequestRecord
  <2>8. RequestOK(r)'
    BY <2>1, <2>2, <2>7 DEF RequestOK, Tokens
  <2>9. RequestsOK'
    BY <2>4, <2>6, <2>8, RequestsStep DEF Known
  <2>10. e \notin Members \ {Owner}
    BY <2>1 DEF Inv, MembersWereInvited
  <2> HIDE DEF rec, e
  <2>11. \A k \in Requests : request[k].pc = "stored" => request'[k] = request[k]
    BY <2>1, <2>6
  <2>12. \E k \in Requests : request'[k].pc = "stored" /\ request'[k].token = rec.token
    BY <2>3, <2>6, <2>7
  <2> QED
    BY <2>1, <2>2, <2>3, <2>4, <2>9, <2>10, <2>11, <2>12, InvitationStep
<1> QED
  BY <1>1, <1>2, <1>3, <1>4, EndStep DEF Invite

LEMMA ResendStep ==
    ASSUME Inv, NEW q \in Requests, Resend(q) \/ Tell(q)
    PROVE  Inv'
<1>1. ASSUME NEW u \in Users, NEW e \in Users, ValidateResend(q, u, e)
      PROVE  Inv'
  BY <1>1, StartStep DEF ValidateResend, Ops
<1>2. CASE UpdateToken(q)
  <2> DEFINE e == request[q].email
             rec == [invitation[e] EXCEPT !.token = issued + 1, !.expired = FALSE]
  <2>1. /\ RequestOK(request[q]) /\ request[q] # Idle /\ request[q] \in RequestRecord
        /\ request[q].op = "resend" /\ request[q].pc = "valid" /\ e \in Users
        /\ invitation[e] \in InvitationRow
    BY <1>2, RequestFacts DEF UpdateToken, RequestOK, Inv, TypeOK
  <2>2. issued + 1 \in Tokens /\ issued + 1 \in 0..MaxTokens
    BY <1>2, InvitationConstants DEF UpdateToken, Inv, TypeOK, Tokens
  <2>3. /\ rec \in InvitationRow /\ rec.token = issued + 1
        /\ rec.accepted = invitation[e].accepted
    BY <2>1, <2>2 DEF InvitationRow
  <2>4. /\ invitation' = [invitation EXCEPT ![e] = rec]
        /\ issued' = issued + 1
        /\ request' = [request EXCEPT ![q].pc = "stored", ![q].token = issued + 1]
        /\ UNCHANGED <<account, open, member, seats, inbox, mailed, lost, joins>>
    BY <1>2, <2>1 DEF UpdateToken, history, Inv, TypeOK
  <2>5. PICK r : r = [request[q] EXCEPT !.pc = "stored", !.token = issued + 1]
    OBVIOUS
  <2>6. /\ r \in RequestRecord /\ request' = [request EXCEPT ![q] = r]
        /\ \A k \in Requests : request'[k] = IF k = q THEN r ELSE request[k]
    BY <2>1, <2>2, <2>4, <2>5 DEF RequestRecord, Inv, TypeOK
  <2>7. r.pc = "stored" /\ r.op = "resend" /\ r.email = e /\ r.token = issued + 1
    BY <2>1, <2>5 DEF RequestRecord
  <2>8. RequestOK(r)'
    <3>1. r.email \in Users
      BY <2>1, <2>7
    <3> QED
      BY <2>2, <2>7, <3>1 DEF RequestOK, Tokens
  <2>9. RequestsOK'
    BY <2>4, <2>6, <2>8, RequestsStep DEF Known
  <2>10. Known(e) /\ (e \in Members \ {Owner} => invitation[e].accepted)
    BY <1>2, <2>1 DEF UpdateToken, Inv, MembersWereInvited, Known
  <2> HIDE DEF rec, e
  <2>11. \A k \in Requests : request[k].pc = "stored" => request'[k] = request[k]
    BY <2>1, <2>6
  <2>12. \E k \in Requests : request'[k].pc = "stored" /\ request'[k].token = rec.token
    BY <2>3, <2>6, <2>7
  <2>13. e \in Members \ {Owner} => rec.accepted
    BY <2>3, <2>10
  <2> QED
    BY <2>1, <2>2, <2>3, <2>4, <2>9, <2>10, <2>11, <2>12, <2>13, InvitationStep
<1>3. CASE CreateInboxMessage(q)
  <2>1. /\ RequestOK(request[q]) /\ request[q] # Idle /\ request[q] \in RequestRecord
        /\ request[q].pc = "stored" /\ request[q].token \in Tokens
    BY <1>3, RequestFacts DEF CreateInboxMessage, RequestOK
  <2>2. /\ inbox' = inbox \union {request[q].token}
        /\ request' = [request EXCEPT ![q].pc = "told"]
        /\ UNCHANGED <<account, open, member, invitation, seats, issued, mailed, lost, joins>>
    BY <1>3 DEF CreateInboxMessage, tables, history
  <2>3. PICK r : r = [request[q] EXCEPT !.pc = "told"]
    OBVIOUS
  <2>4. r \in RequestRecord /\ request' = [request EXCEPT ![q] = r]
    BY <2>1, <2>2, <2>3 DEF RequestRecord, Inv, TypeOK
  <2>5. RequestOK(r)
    BY <2>1, <2>3 DEF RequestRecord, RequestOK
  <2>6. RequestOK(r)'
    BY <2>2, <2>5 DEF RequestOK, Known
  <2> QED
    BY <2>1, <2>2, <2>4, <2>6, QuietStep DEF Inv, TypeOK
<1> QED
  BY <1>1, <1>2, <1>3, EndStep DEF Resend, Tell

LEMMA AnswerStep ==
    ASSUME Inv, NEW q \in Requests, Answer(q)
    PROVE  Inv'
<1>1. ASSUME NEW u \in Users, NEW token \in Tokens, ValidateAccept(q, u, token)
      PROVE  Inv'
  <2>1. invitation[u].role \in GrantedRoles
    BY <1>1 DEF ValidateAccept, Holds, Inv, TypeOK, InvitationRow
  <2> QED
    BY <1>1, <2>1, StartStep DEF ValidateAccept, Ops
<1>2. ASSUME NEW u \in Users, NEW token \in Tokens, ValidateReject(q, u, token)
      PROVE  Inv'
  BY <1>2, StartStep DEF ValidateReject, Ops
<1>3. CASE AcceptInvitationAndCreateMember(q)
  <2> DEFINE e == request[q].email
             rec == [invitation[e] EXCEPT !.accepted = TRUE, !.status = "ACCEPTED"]
  <2>1. /\ RequestOK(request[q]) /\ request[q] # Idle /\ request[q].pc = "valid"
        /\ e \in Users /\ request[q].role \in GrantedRoles
        /\ invitation[e] \in InvitationRow
    BY <1>3, RequestFacts DEF AcceptInvitationAndCreateMember, HasToken, RequestOK, Inv, TypeOK
  <2>2. rec \in InvitationRow /\ rec.accepted /\ rec.token = invitation[e].token
    BY <2>1 DEF InvitationRow
  <2>3. /\ invitation' = [invitation EXCEPT ![e] = rec]
        /\ member' = [member EXCEPT ![e] = request[q].role]
        /\ request' = [request EXCEPT ![q] = Idle]
        /\ UNCHANGED <<account, open, seats, issued, inbox, mailed, lost>>
        /\ joins' \in [Users -> Nat]
    <3>1. joins' = [joins EXCEPT ![e] = joins[e] + 1] /\ joins[e] + 1 \in Nat
      BY <1>3, <2>1 DEF AcceptInvitationAndCreateMember, Inv, TypeOK
    <3>2. joins' \in [Users -> Nat]
      BY <3>1 DEF Inv, TypeOK
    <3>3. invitation' = [invitation EXCEPT ![e] = rec]
      BY <1>3, <2>1 DEF AcceptInvitationAndCreateMember, Inv, TypeOK
    <3> QED
      BY <1>3, <3>2, <3>3 DEF AcceptInvitationAndCreateMember, Finish
  <2>4. /\ request[q].role \in Roles \union {None} /\ request[q].role # "OWNER"
        /\ open => e # Owner
    BY <1>3, <2>1, InvitationConstants DEF AcceptInvitationAndCreateMember, GrantedRoles, Roles,
         Members, Inv, OneOwner
  <2> HIDE DEF rec, e
  <2>5. /\ invitation' \in [Users -> InvitationRow \union {None}]
        /\ invitation'[e] = rec
        /\ \A u \in Users \ {e} : invitation'[u] = invitation[u]
    BY <2>1, <2>2, <2>3 DEF Inv, TypeOK
  <2>6. /\ \A u \in Users :
              /\ invitation'[u] = None <=> invitation[u] = None
              /\ invitation'[u] # None => invitation'[u].token = invitation[u].token
        /\ invitation'[e] # None /\ invitation'[e].accepted
    BY <2>1, <2>2, <2>5, RowsAreRows
  <2>7. request[q].pc # "stored"
    BY <2>1
  <2> QED
    BY <2>1, <2>3, <2>4, <2>5, <2>6, <2>7, MemberStep
<1>4. CASE MarkAsRejected(q)
  <2> DEFINE e == request[q].email
             rec == [invitation[e] EXCEPT !.rejected = TRUE, !.status = "REJECTED"]
  <2>1. /\ RequestOK(request[q]) /\ request[q] # Idle /\ request[q].pc = "valid"
        /\ e \in Users /\ invitation[e] \in InvitationRow /\ invitation[e] # None
    BY <1>4, RequestFacts DEF MarkAsRejected, HasToken, RequestOK, Inv, TypeOK
  <2>2. /\ rec \in InvitationRow /\ rec.accepted = invitation[e].accepted
        /\ rec.token = invitation[e].token
    BY <2>1 DEF InvitationRow
  <2>3. /\ invitation' = [invitation EXCEPT ![e] = rec]
        /\ request' = [request EXCEPT ![q] = Idle]
        /\ UNCHANGED <<account, open, member, seats, issued, inbox, mailed, lost, joins>>
    BY <1>4, <2>1 DEF MarkAsRejected, Finish, history, Inv, TypeOK
  <2>4. Known(e) /\ (e \in Members \ {Owner} => invitation[e].accepted)
    BY <2>1 DEF Inv, MembersWereInvited, Known
  <2>5. /\ RequestsOK'
        /\ \A k \in Requests : request[k].pc = "stored" => request'[k] = request[k]
    <3>1. RequestsOK'
      BY <2>3, IdleIsOK, RequestsStep DEF Known
    <3> QED
      BY <2>1, <2>3, <3>1 DEF Inv, TypeOK
  <2>6. issued' \in 0..MaxTokens
    BY <2>3 DEF Inv, TypeOK
  <2> HIDE DEF rec, e
  <2>7. e \in Members \ {Owner} => rec.accepted
    BY <2>2, <2>4
  <2> QED
    BY <2>1, <2>2, <2>3, <2>4, <2>5, <2>6, <2>7, InvitationStep
<1> QED
  BY <1>1, <1>2, <1>3, <1>4 DEF Answer

LEMMA ManageStep ==
    ASSUME Inv, NEW q \in Requests, Manage(q)
    PROVE  Inv'
<1>1. ASSUME NEW u \in Users, NEW role \in GrantedRoles, ValidateUpdateRole(q, u, role)
      PROVE  Inv'
  BY <1>1, StartStep DEF ValidateUpdateRole, Ops
<1>2. ASSUME NEW u \in Users, NEW target \in Users, ValidateRemove(q, u, target)
      PROVE  Inv'
  BY <1>2, StartStep DEF ValidateRemove, Ops
<1>3. CASE ValidateDelete(q)
  BY <1>3, StartStep DEF ValidateDelete, Ops
<1>4. CASE UpdateRole(q)
  <2> DEFINE e == request[q].email
  <2>1. /\ request[q].pc = "valid" /\ e \in Users /\ e # Owner /\ e \in Members
        /\ request[q].role \in GrantedRoles
    BY <1>4, RequestFacts DEF UpdateRole, RequestOK
  <2>2. request[q].role \in Roles \union {None} /\ request[q].role # "OWNER"
    BY <2>1 DEF GrantedRoles
  <2>3. invitation[e] # None /\ invitation[e].accepted
    BY <2>1 DEF Inv, MembersWereInvited
  <2>4. /\ member' = [member EXCEPT ![e] = request[q].role]
        /\ request' = [request EXCEPT ![q] = Idle]
        /\ UNCHANGED <<account, open, invitation, seats, issued, inbox, mailed, lost, joins>>
    BY <1>4 DEF UpdateRole, Finish, history
  <2>5. /\ joins' \in [Users -> Nat]
        /\ invitation' \in [Users -> InvitationRow \union {None}]
        /\ request[q].pc # "stored"
    BY <2>1, <2>4 DEF Inv, TypeOK
  <2> HIDE DEF e
  <2> QED
    BY <2>1, <2>2, <2>3, <2>4, <2>5, MemberStep
<1>5. CASE Remove(q)
  <2> DEFINE e == request[q].email
  <2>1. request[q].pc = "valid" /\ e \in Users /\ e # Owner
    BY <1>5, RequestFacts DEF Remove, RequestOK
  <2>2. /\ member' = [member EXCEPT ![e] = None]
        /\ request' = [request EXCEPT ![q] = Idle]
        /\ UNCHANGED <<account, open, invitation, seats, issued, inbox, mailed, lost, joins>>
    BY <1>5 DEF Remove, Finish, history
  <2>3. /\ joins' \in [Users -> Nat]
        /\ invitation' \in [Users -> InvitationRow \union {None}]
        /\ request[q].pc # "stored"
    BY <2>1, <2>2 DEF Inv, TypeOK
  <2>4. None # "OWNER"
    BY InvitationConstants
  <2> HIDE DEF e
  <2> QED
    BY <2>1, <2>2, <2>3, <2>4, MemberStep
<1>6. CASE Delete(q)
  <2>1. /\ open' = FALSE
        /\ member' = [u \in Users |-> None]
        /\ invitation' = [u \in Users |-> None]
        /\ request' = [request EXCEPT ![q] = Idle]
        /\ UNCHANGED <<account, seats, issued, inbox, mailed, lost, joins>>
    BY <1>6 DEF Delete, Finish, history
  <2>2. RequestsOK'
    BY <2>1, IdleIsOK, RequestsStep DEF Known
  <2>3. TypeOK'
    BY <2>1, <2>2 DEF Inv, TypeOK, RequestsOK
  <2>4. OneOwner' /\ MembersWereInvited' /\ LinkIsOnItsWay'
    BY <2>1 DEF OneOwner, MembersWereInvited, LinkIsOnItsWay, Members
  <2> QED
    BY <2>2, <2>3, <2>4 DEF Inv
<1> QED
  BY <1>1, <1>2, <1>3, <1>4, <1>5, <1>6 DEF Manage

\* Registrations, the passing of time and changes of the plan.
LEMMA WorldStep ==
    ASSUME Inv,
           \/ \E u \in Users : Register(u) \/ Expire(u)
           \/ \E n \in Limits : PlanChanges(n)
    PROVE  Inv'
<1>1. ASSUME NEW u \in Users, Register(u)
      PROVE  Inv'
  <2>1. /\ account' = [account EXCEPT ![u] = "active"]
        /\ UNCHANGED <<open, member, invitation, seats, issued, inbox, mailed, request,
                       lost, joins>>
    BY <1>1 DEF Register, history
  <2>2. /\ account' \in [Users -> {"none", "shadow", "active"}]
        /\ \A v \in Users : Known(v) => Known(v)'
    BY <2>1 DEF Inv, TypeOK, Known
  <2>3. RequestsOK'
    BY <2>1, <2>2 DEF Inv, RequestsOK, RequestOK, Known
  <2>4. TypeOK'
    BY <2>1, <2>2 DEF Inv, TypeOK
  <2>5. OneOwner' /\ LinkIsOnItsWay'
    BY <2>1 DEF Inv, OneOwner, LinkIsOnItsWay, Members
  <2>6. MembersWereInvited'
    BY <2>1, <2>2 DEF Inv, MembersWereInvited, Members, Known
  <2> QED
    BY <2>3, <2>4, <2>5, <2>6 DEF Inv
<1>2. ASSUME NEW e \in Users, Expire(e)
      PROVE  Inv'
  <2> DEFINE rec == [invitation[e] EXCEPT !.expired = TRUE]
  <2>1. invitation[e] \in InvitationRow /\ invitation[e] # None
    BY <1>2 DEF Expire, Inv, TypeOK
  <2>2. /\ rec \in InvitationRow /\ rec.accepted = invitation[e].accepted
        /\ rec.token = invitation[e].token
    BY <2>1 DEF InvitationRow
  <2>3. /\ invitation' = [invitation EXCEPT ![e] = rec]
        /\ UNCHANGED <<account, open, member, seats, issued, inbox, mailed, request, lost, joins>>
    BY <1>2, <2>1 DEF Expire, history, Inv, TypeOK
  <2>4. Known(e) /\ (e \in Members \ {Owner} => invitation[e].accepted)
    BY <2>1 DEF Inv, MembersWereInvited, Known
  <2>5. RequestsOK'
    BY <2>3 DEF Inv, RequestsOK, RequestOK, Known
  <2>6. issued' \in 0..MaxTokens
    BY <2>3 DEF Inv, TypeOK
  <2> HIDE DEF rec
  <2>7. e \in Members \ {Owner} => rec.accepted
    BY <2>2, <2>4
  <2> QED
    BY <2>1, <2>2, <2>3, <2>4, <2>5, <2>6, <2>7, InvitationStep
<1>3. ASSUME NEW n \in Limits, PlanChanges(n)
      PROVE  Inv'
  <2>1. UNCHANGED <<account, open, member, invitation, issued, inbox, mailed, request, lost, joins>>
    BY <1>3 DEF PlanChanges, tables, history
  <2> QED
    BY <1>3, <2>1 DEF PlanChanges, Inv, TypeOK, RequestsOK, RequestOK, Known, OneOwner, Members,
                      MembersWereInvited, LinkIsOnItsWay
<1> QED
  BY <1>1, <1>2, <1>3

-----------------------------------------------------------------------------
(* The specification                                                        *)

\* The initial states have one member, the owner, and no invitation.
THEOREM InitInv == Init => Inv
<1> SUFFICES ASSUME Init PROVE Inv
  OBVIOUS
<1>1. RequestsOK
  BY IdleIsOK DEF Init, RequestsOK
<1>2. TypeOK
  BY <1>1, InvitationConstants DEF Init, TypeOK, RequestsOK, Roles
<1>3. OneOwner /\ MembersWereInvited /\ LinkIsOnItsWay
  BY InvitationConstants DEF Init, OneOwner, MembersWereInvited, LinkIsOnItsWay, Members
<1> QED
  BY <1>1, <1>2, <1>3 DEF Inv

\* Every step of a request, and of the world around it, keeps the invariant.
THEOREM InvStep == Inv /\ [Next]_vars => Inv'
<1> SUFFICES ASSUME Inv, [Next]_vars PROVE Inv'
  OBVIOUS
<1>1. ASSUME NEW q \in Requests,
             Invite(q) \/ Resend(q) \/ Tell(q) \/ Answer(q) \/ Manage(q) \/ RequestFails(q)
      PROVE  Inv'
  BY <1>1, InviteStep, ResendStep, AnswerStep, ManageStep, EndStep
<1>2. CASE \/ \E u \in Users : Register(u) \/ Expire(u)
           \/ \E n \in Limits : PlanChanges(n)
  BY <1>2, WorldStep
<1>3. CASE UNCHANGED vars
  BY <1>3 DEF vars, Inv, TypeOK, RequestsOK, RequestOK, Known, OneOwner, Members,
              MembersWereInvited, LinkIsOnItsWay
<1> QED
  BY <1>1, <1>2, <1>3 DEF Next

\* The invariant holds of every reachable state.
THEOREM Invariance == Spec => []Inv
<1> QED
  BY InitInv, InvStep, PTL DEF Spec

\* Every row and request has its type.
THEOREM TypeCorrect == Spec => []TypeOK
<1>1. Inv => TypeOK
  BY DEF Inv
<1> QED
  BY <1>1, Invariance, PTL

\* Whatever role changes, removals and acceptances overlap, all validated against rows
\* that may have changed since, the workspace keeps its owner and gets no second one.
THEOREM OwnerStays == Spec => []OneOwner
<1>1. Inv => OneOwner
  BY DEF Inv
<1> QED
  BY <1>1, Invariance, PTL

\* Whatever resends overlap, the token that answers an invitation was sent to a user,
\* or is about to be, or its request failed.
THEOREM LiveTokensAreSent == Spec => []CurrentTokenIsOnItsWay
<1>1. Inv => CurrentTokenIsOnItsWay
  BY DEF Inv, CurrentTokenIsOnItsWay, MembersWereInvited, LinkIsOnItsWay, Known
<1> QED
  BY <1>1, Invariance, PTL

-----------------------------------------------------------------------------
(* Acceptances                                                              *)

Accepts(q) == request[q].pc = "valid" /\ request[q].op = "accept"

Accepting(u) == {q \in Requests : Accepts(q) /\ request[q].email = u}

\* An acceptance under way comes from an active user with a link that was sent to him,
\* and if that link is still the current one, it offers the role he will get.
AcceptOK(q) ==
    LET e == request[q].email
    IN  /\ account[e] = "active"
        /\ request[q].token \in inbox \union mailed
        /\ request[q].token <= issued
        /\ invitation[e] # None /\ invitation[e].token = request[q].token
              => invitation[e].role = request[q].role

\* The invitation of u, or the one he may still get, was not accepted.
Unused(u) == IF invitation[u] = None THEN open ELSE ~invitation[u].accepted

RowsAreOpen == \A u \in Users : invitation[u] # None => open /\ invitation[u].token <= issued

\* Nobody joined by an unused invitation; afterwards, only those who were let through
\* before can still join.
JoinsAreCounted ==
    \A u \in Users :
        /\ Unused(u) => joins[u] = 0
        /\ joins[u] + Cardinality(Accepting(u)) <= Cardinality(Requests)

AcceptsInv ==
    /\ \A q \in Requests : Accepts(q) => AcceptOK(q)
    /\ RowsAreOpen
    /\ JoinsAreCounted

\* The acceptances under way can be counted.
LEMMA AcceptingCount ==
    ASSUME NEW u
    PROVE  /\ IsFiniteSet(Accepting(u)) /\ Cardinality(Accepting(u)) \in Nat
           /\ Cardinality(Accepting(u)) <= Cardinality(Requests)
           /\ Cardinality(Requests) \in Nat
<1>1. Accepting(u) \subseteq Requests /\ IsFiniteSet(Requests)
  BY InvitationConstants DEF Accepting
<1> QED
  BY <1>1, FS_Subset, FS_CardinalityType

\* No step but ValidateAccept begins an acceptance.
LEMMA NoNewAccept ==
    ASSUME Inv, NEW q \in Requests, NEW r,
           request' = [request EXCEPT ![q] = r],
           r.pc # "valid" \/ r.op # "accept"
    PROVE  \A k \in Requests : Accepts(k)' => request'[k] = request[k]
  BY DEF Inv, TypeOK, Accepts

\* A request that has written, or ends, is not validated any more.
LEMMA GoesOn ==
    ASSUME Inv, NEW q \in Requests,
           \/ FindInvitee(q) \/ CreateShadowUser(q) \/ StoreInvitation(q)
           \/ RefuseSecondInvitation(q) \/ UpdateToken(q) \/ Tell(q) \/ RequestFails(q)
    PROVE  \E r : request' = [request EXCEPT ![q] = r] /\ r.pc # "valid"
<1>0. request \in [Requests -> RequestRecord] /\ request[q] \in RequestRecord
  BY DEF Inv, TypeOK
<1>1. CASE FindInvitee(q)
  <2> DEFINE pc == IF account[request[q].email] # "none" THEN "known" ELSE "unknown"
             r == [request[q] EXCEPT !.pc = pc]
  <2>1. request' = [request EXCEPT ![q] = r]
    BY <1>1 DEF FindInvitee
  <2>2. r.pc # "valid"
    BY <1>0 DEF RequestRecord
  <2> QED
    BY <2>1, <2>2
<1>2. CASE CreateShadowUser(q) \/ CreateInboxMessage(q)
  <2>1. PICK pc \in {"known", "told"} :
           request' = [request EXCEPT ![q] = [request[q] EXCEPT !.pc = pc]]
    BY <1>2 DEF CreateShadowUser, CreateInboxMessage
  <2>2. [request[q] EXCEPT !.pc = pc].pc # "valid"
    BY <1>0 DEF RequestRecord
  <2> QED
    BY <2>1, <2>2
<1>3. CASE StoreInvitation(q) \/ UpdateToken(q)
  <2> DEFINE r == [request[q] EXCEPT !.pc = "stored", !.token = issued + 1]
  <2>1. request' = [request EXCEPT ![q] = r]
    BY <1>3 DEF StoreInvitation, UpdateToken
  <2>2. r.pc # "valid"
    BY <1>0 DEF RequestRecord
  <2> QED
    BY <2>1, <2>2
<1>4. CASE RefuseSecondInvitation(q) \/ SendWorkspaceInvitation(q) \/ RequestFails(q)
  <2>1. request' = [request EXCEPT ![q] = Idle] /\ Idle.pc # "valid"
    BY <1>4 DEF RefuseSecondInvitation, SendWorkspaceInvitation, RequestFails, Fail, Finish, Idle
  <2> QED
    BY <2>1
<1> QED
  BY <1>1, <1>2, <1>3, <1>4 DEF Tell

\* A step that neither begins nor ends with a new member: of each invitation it keeps
\* token, role and acceptance, or issues a new token for it, or the workspace is gone.
LEMMA AcceptsKept ==
    ASSUME Inv, AcceptsInv, UNCHANGED joins,
           \A k \in Requests : Accepts(k)' => request'[k] = request[k],
           \A u \in Users : account[u] = "active" => account'[u] = "active",
           inbox \subseteq inbox', mailed \subseteq mailed',
           issued' \in Nat, issued <= issued',
           \A u \in Users :
              \/ invitation'[u] = None /\ (open' => open /\ invitation[u] = None)
              \/ /\ open' /\ invitation'[u] # None
                 /\ invitation'[u].token = issued' /\ issued < issued'
                 /\ Unused(u)' => Unused(u)
              \/ /\ open' /\ invitation'[u] # None /\ invitation[u] # None
                 /\ invitation'[u].token = invitation[u].token
                 /\ invitation'[u].role = invitation[u].role
                 /\ invitation'[u].accepted = invitation[u].accepted
    PROVE  AcceptsInv'
<1>0. issued \in Nat /\ inbox \subseteq Nat /\ mailed \subseteq Nat
  BY DEF Inv, TypeOK, Tokens
<1>t. \A u \in Users : invitation[u] # None => invitation[u].token \in Nat
  BY DEF Inv, TypeOK, InvitationRow, Tokens
<1>1. ASSUME NEW q \in Requests, Accepts(q)'
      PROVE  AcceptOK(q)'
  <2>1. /\ request'[q] = request[q] /\ Accepts(q)
        /\ request[q].email \in Users
    <3>1. request'[q] = request[q] /\ Accepts(q)
      BY <1>1 DEF Accepts
    <3> QED
      BY <3>1, RequestFacts DEF Accepts, RequestOK
  <2>2. AcceptOK(q)
    BY <2>1 DEF AcceptsInv
  <2> DEFINE e == request[q].email
             t == request[q].token
  <2>3. /\ account'[e] = "active" /\ t \in inbox' \union mailed' /\ t <= issued'
        /\ t \in Nat /\ t <= issued
    <3>1. account[e] = "active" /\ t \in inbox \union mailed /\ t <= issued
      BY <2>2 DEF AcceptOK
    <3>2. t \in Nat
      BY <1>0, <3>1
    <3> HIDE DEF e, t
    <3>3. account'[e] = "active" /\ t \in inbox' \union mailed'
      BY <2>1, <3>1 DEF e
    <3> QED
      BY <1>0, <3>1, <3>2, <3>3
  <2>4. ASSUME invitation'[e] # None, invitation'[e].token = t
        PROVE  invitation'[e].role = request[q].role
    <3>1. ~(invitation'[e].token = issued' /\ issued < issued')
      BY <1>0, <2>3, <2>4
    <3>2. /\ invitation[e] # None
          /\ invitation'[e].token = invitation[e].token
          /\ invitation'[e].role = invitation[e].role
      BY <2>1, <2>4, <3>1
    <3> QED
      BY <2>2, <2>4, <3>2 DEF AcceptOK
  <2> QED
    BY <2>1, <2>3, <2>4 DEF AcceptOK
<1>2. RowsAreOpen'
  <2> SUFFICES ASSUME NEW u \in Users, invitation'[u] # None
               PROVE  open' /\ invitation'[u].token <= issued'
    BY DEF RowsAreOpen
  <2>1. open'
    OBVIOUS
  <2>2. CASE invitation'[u].token = issued'
    BY <1>0, <2>1, <2>2
  <2>3. CASE invitation[u] # None /\ invitation'[u].token = invitation[u].token
    <3>1. invitation[u].token <= issued
      BY <2>3 DEF AcceptsInv, RowsAreOpen
    <3> QED
      BY <1>0, <1>t, <2>1, <2>3, <3>1
  <2> QED
    BY <2>2, <2>3
<1>3. JoinsAreCounted'
  <2> SUFFICES ASSUME NEW u \in Users
               PROVE  /\ Unused(u)' => joins[u] = 0
                      /\ joins[u] + Cardinality(Accepting(u)') <= Cardinality(Requests)
    BY DEF JoinsAreCounted
  <2>1. Unused(u)' => Unused(u)
    BY DEF Unused
  <2>2. /\ Unused(u) => joins[u] = 0
        /\ joins[u] + Cardinality(Accepting(u)) <= Cardinality(Requests)
        /\ joins[u] \in Nat
    BY DEF AcceptsInv, JoinsAreCounted, Inv, TypeOK
  <2>3. Accepting(u)' \subseteq Accepting(u)
    BY DEF Accepting, Accepts
  <2>4. /\ Cardinality(Accepting(u)') <= Cardinality(Accepting(u))
        /\ Cardinality(Accepting(u)') \in Nat
    BY <2>3, AcceptingCount, FS_Subset, FS_CardinalityType
  <2> QED
    BY <2>1, <2>2, <2>4, AcceptingCount
<1> QED
  BY <1>1, <1>2, <1>3 DEF AcceptsInv

\* A request is let through to accept an invitation, which nobody has accepted yet.
LEMMA BeginsToAccept ==
    ASSUME Inv, AcceptsInv, NEW q \in Requests, NEW u \in Users, NEW token \in Tokens,
           ValidateAccept(q, u, token)
    PROVE  AcceptsInv'
<1> DEFINE r == [pc |-> "valid", op |-> "accept", email |-> u, role |-> invitation[u].role,
                 token |-> token]
<1>1. /\ request' = [request EXCEPT ![q] = r]
      /\ UNCHANGED <<account, open, invitation, issued, inbox, mailed, joins>>
  BY DEF ValidateAccept, Start, tables, history
<1>2. /\ account[u] = "active" /\ token \in inbox \union mailed
      /\ invitation[u] # None /\ invitation[u].token = token /\ ~invitation[u].accepted
  BY DEF ValidateAccept, Holds
<1>3. /\ request'[q] = r
      /\ \A k \in Requests \ {q} : request'[k] = request[k]
  BY <1>1 DEF Inv, TypeOK
<1>4. AcceptOK(q)'
  <2>1. token <= issued
    BY <1>2 DEF AcceptsInv, RowsAreOpen
  <2> QED
    BY <1>1, <1>2, <1>3, <2>1 DEF AcceptOK
<1>5. \A k \in Requests \ {q} : Accepts(k)' => AcceptOK(k)'
  BY <1>1, <1>3 DEF AcceptsInv, Accepts, AcceptOK
<1>6. RowsAreOpen'
  BY <1>1 DEF AcceptsInv, RowsAreOpen
<1>7. JoinsAreCounted'
  <2> SUFFICES ASSUME NEW v \in Users
               PROVE  /\ Unused(v)' => joins[v] = 0
                      /\ joins[v] + Cardinality(Accepting(v)') <= Cardinality(Requests)
    BY <1>1 DEF JoinsAreCounted
  <2>1. Unused(v)' => joins[v] = 0
    BY <1>1 DEF AcceptsInv, JoinsAreCounted, Unused
  <2>2. /\ Cardinality(Accepting(v)') \in Nat
        /\ Cardinality(Accepting(v)') <= Cardinality(Requests)
    <3>1. Accepting(v)' \subseteq Requests /\ IsFiniteSet(Requests)
      BY InvitationConstants DEF Accepting
    <3> QED
      BY <3>1, FS_Subset, FS_CardinalityType
  <2>3. CASE v = u
    <3>1. joins[v] = 0
      BY <1>2, <2>3 DEF AcceptsInv, JoinsAreCounted, Unused
    <3> QED
      BY <2>1, <2>2, <3>1
  <2>4. CASE v # u
    <3>1. Accepting(v)' \subseteq Accepting(v)
      BY <1>3, <2>4 DEF Accepting, Accepts
    <3>2. Cardinality(Accepting(v)') <= Cardinality(Accepting(v))
      BY <3>1, AcceptingCount, FS_Subset
    <3>3. joins[v] + Cardinality(Accepting(v)) <= Cardinality(Requests) /\ joins[v] \in Nat
      BY DEF AcceptsInv, JoinsAreCounted, Inv, TypeOK
    <3> QED
      BY <2>1, <2>2, <3>2, <3>3, AcceptingCount
  <2> QED
    BY <2>3, <2>4
<1> QED
  BY <1>4, <1>5, <1>6, <1>7 DEF AcceptsInv

\* An acceptance makes a member, and uses the invitation up.
LEMMA EndsAccepting ==
    ASSUME Inv, AcceptsInv, NEW q \in Requests, AcceptInvitationAndCreateMember(q)
    PROVE  AcceptsInv'
<1> DEFINE e == request[q].email
           rec == [invitation[e] EXCEPT !.accepted = TRUE, !.status = "ACCEPTED"]
<1>1. /\ request' = [request EXCEPT ![q] = Idle]
      /\ invitation' = [invitation EXCEPT ![e] = rec]
      /\ joins' = [joins EXCEPT ![e] = joins[e] + 1]
      /\ UNCHANGED <<account, open, issued, inbox, mailed>>
      /\ invitation[e] # None /\ Accepts(q)
  BY DEF AcceptInvitationAndCreateMember, HasToken, Finish, Accepts
<1>2. e \in Users /\ invitation[e] \in InvitationRow
  BY <1>1, RequestFacts DEF Accepts, RequestOK, Inv, TypeOK
<1>3. /\ rec \in InvitationRow /\ rec.accepted
      /\ rec.token = invitation[e].token /\ rec.role = invitation[e].role
  BY <1>2 DEF InvitationRow
<1>4. rec # None
  BY <1>3, RowsAreRows
<1> HIDE DEF rec
<1>5. /\ request'[q] = Idle
      /\ \A k \in Requests \ {q} : request'[k] = request[k]
      /\ invitation'[e] = rec
      /\ \A u \in Users \ {e} : invitation'[u] = invitation[u] /\ joins'[u] = joins[u]
      /\ joins'[e] = joins[e] + 1
  BY <1>1, <1>2 DEF Inv, TypeOK
<1>6. ASSUME NEW k \in Requests, Accepts(k)'
      PROVE  AcceptOK(k)'
  <2>1. k # q
    BY <1>5, <1>6 DEF Accepts, Idle
  <2>2. request'[k] = request[k] /\ Accepts(k) /\ AcceptOK(k)
    BY <1>5, <1>6, <2>1 DEF Accepts, AcceptsInv
  <2>3. request[k].email \in Users
    BY <2>2, RequestFacts DEF Accepts, RequestOK
  <2> QED
    BY <1>1, <1>3, <1>5, <2>2, <2>3 DEF AcceptOK
<1>7. RowsAreOpen'
  BY <1>1, <1>2, <1>3, <1>5 DEF AcceptsInv, RowsAreOpen
<1>8. JoinsAreCounted'
  <2> SUFFICES ASSUME NEW u \in Users
               PROVE  /\ Unused(u)' => joins'[u] = 0
                      /\ joins'[u] + Cardinality(Accepting(u)') <= Cardinality(Requests)
    BY DEF JoinsAreCounted
  <2>0. /\ Unused(u) => joins[u] = 0
        /\ joins[u] + Cardinality(Accepting(u)) <= Cardinality(Requests)
        /\ joins[u] \in Nat
    BY DEF AcceptsInv, JoinsAreCounted, Inv, TypeOK
  <2>1. Accepting(u)' \subseteq Accepting(u) \ {q}
    BY <1>5 DEF Accepting, Accepts, Idle
  <2>2. CASE u = e
    <3>1. ~Unused(u)'
      BY <1>3, <1>4, <1>5, <2>2 DEF Unused
    <3>2. /\ IsFiniteSet(Accepting(u) \ {q})
          /\ Cardinality(Accepting(u) \ {q}) = Cardinality(Accepting(u)) - 1
      <4>1. q \in Accepting(u)
        BY <1>1, <2>2 DEF Accepting
      <4> QED
        BY <4>1, AcceptingCount, FS_RemoveElement
    <3>3. /\ Cardinality(Accepting(u)') <= Cardinality(Accepting(u) \ {q})
          /\ Cardinality(Accepting(u)') \in Nat
      BY <2>1, <3>2, FS_Subset, FS_CardinalityType
    <3>4. joins'[u] = joins[u] + 1
      BY <1>5, <2>2
    <3> QED
      BY <2>0, <3>1, <3>2, <3>3, <3>4, AcceptingCount
  <2>3. CASE u # e
    <3>1. Unused(u)' <=> Unused(u)
      BY <1>1, <1>5, <2>3 DEF Unused
    <3>2. Accepting(u)' \subseteq Accepting(u)
      BY <2>1
    <3>3. /\ Cardinality(Accepting(u)') <= Cardinality(Accepting(u))
          /\ Cardinality(Accepting(u)') \in Nat
      BY <3>2, AcceptingCount, FS_Subset, FS_CardinalityType
    <3>4. joins'[u] = joins[u]
      BY <1>5, <2>3
    <3> QED
      BY <2>0, <3>1, <3>3, <3>4, AcceptingCount
  <2> QED
    BY <2>2, <2>3
<1> QED
  BY <1>6, <1>7, <1>8 DEF AcceptsInv

\* The steps that touch neither the invitations nor the workspace.
LEMMA RowsUntouched ==
    ASSUME Inv, AcceptsInv, UNCHANGED <<open, invitation, issued, joins>>,
           \A k \in Requests : Accepts(k)' => request'[k] = request[k],
           \A u \in Users : account[u] = "active" => account'[u] = "active",
           inbox \subseteq inbox', mailed \subseteq mailed'
    PROVE  AcceptsInv'
<1>1. issued' \in Nat /\ issued <= issued'
  BY DEF Inv, TypeOK
<1>2. \A u \in Users : invitation[u] # None => open
  BY DEF AcceptsInv, RowsAreOpen
<1> QED
  BY <1>1, <1>2, AcceptsKept

LEMMA StartKeepsAccepts ==
    ASSUME Inv, AcceptsInv, NEW q \in Requests, NEW op, NEW e, NEW role, NEW token,
           Start(q, op, e, role, token), op # "accept"
    PROVE  AcceptsInv'
<1> DEFINE r == [pc |-> "valid", op |-> op, email |-> e, role |-> role, token |-> token]
<1>1. request' = [request EXCEPT ![q] = r] /\ r.op # "accept"
  BY DEF Start
<1>2. UNCHANGED <<account, open, invitation, issued, inbox, mailed, joins>>
  BY DEF Start, tables, history
<1> HIDE DEF r
<1> QED
  BY <1>1, <1>2, NoNewAccept, RowsUntouched

\* What a request writes that is not the table of invitations.
LEMMA WritesElsewhere ==
    ASSUME Inv, AcceptsInv, NEW q \in Requests,
           \/ FindInvitee(q) \/ CreateShadowUser(q) \/ RefuseSecondInvitation(q)
           \/ Tell(q) \/ RequestFails(q) \/ UpdateRole(q) \/ Remove(q)
    PROVE  AcceptsInv'
<1>1. UNCHANGED <<open, invitation, issued, joins>>
  BY DEF FindInvitee, CreateShadowUser, RefuseSecondInvitation, Fail, Tell, CreateInboxMessage,
         SendWorkspaceInvitation, RequestFails, UpdateRole, Remove, tables, history
<1>2. inbox \subseteq inbox' /\ mailed \subseteq mailed'
  BY DEF FindInvitee, CreateShadowUser, RefuseSecondInvitation, Fail, Tell, CreateInboxMessage,
         SendWorkspaceInvitation, RequestFails, UpdateRole, Remove
<1>3. \A u \in Users : account[u] = "active" => account'[u] = "active"
  <2>1. CASE CreateShadowUser(q)
    BY <2>1 DEF CreateShadowUser, Inv, TypeOK
  <2>2. CASE UNCHANGED account
    BY <2>2
  <2> QED
    BY <2>1, <2>2 DEF FindInvitee, RefuseSecondInvitation, Fail, Tell, CreateInboxMessage,
         SendWorkspaceInvitation, RequestFails, UpdateRole, Remove, tables
<1>4. \A k \in Requests : Accepts(k)' => request'[k] = request[k]
  <2>1. CASE UpdateRole(q) \/ Remove(q)
    BY <2>1, NoNewAccept DEF UpdateRole, Remove, Finish, Idle
  <2>2. CASE ~(UpdateRole(q) \/ Remove(q))
    BY <2>2, GoesOn, NoNewAccept
  <2> QED
    BY <2>1, <2>2
<1> QED
  BY <1>1, <1>2, <1>3, <1>4, RowsUntouched

\* A new token is not one that an acceptance under way has.
LEMMA IssueKeepsAccepts ==
    ASSUME Inv, AcceptsInv, NEW q \in Requests, StoreInvitation(q) \/ UpdateToken(q)
    PROVE  AcceptsInv'
<1> DEFINE e == request[q].email
<1>1. /\ request[q].pc # "idle" /\ e \in Users
      /\ UNCHANGED <<account, open, inbox, mailed, joins>>
      /\ issued' = issued + 1 /\ issued \in Nat
  BY RequestFacts DEF StoreInvitation, UpdateToken, RequestOK, Inv, TypeOK, history
<1>2. \A k \in Requests : Accepts(k)' => request'[k] = request[k]
  BY GoesOn, NoNewAccept
<1>3. PICK rec \in InvitationRow :
         /\ invitation' = [invitation EXCEPT ![e] = rec]
         /\ rec.token = issued + 1
         /\ invitation[e] # None => rec.accepted = invitation[e].accepted
         /\ open
  <2>0. issued + 1 \in Tokens
    BY InvitationConstants DEF StoreInvitation, UpdateToken, Inv, TypeOK, Tokens
  <2>1. CASE StoreInvitation(q)
    <3>1. request[q].role \in GrantedRoles
      BY <2>1, RequestFacts DEF StoreInvitation, RequestOK
    <3>2. /\ NewInvitation(request[q].role) \in InvitationRow
          /\ NewInvitation(request[q].role).token = issued + 1
      BY <2>0, <3>1 DEF NewInvitation, InvitationRow
    <3> QED
      BY <2>1, <3>2 DEF StoreInvitation
  <2>2. CASE UpdateToken(q)
    <3> DEFINE rec == [invitation[e] EXCEPT !.token = issued + 1, !.expired = FALSE]
    <3>1. invitation[e] \in InvitationRow /\ open
      BY <1>1, <2>2 DEF UpdateToken, Inv, TypeOK, AcceptsInv, RowsAreOpen
    <3>2. /\ rec \in InvitationRow /\ rec.token = issued + 1
          /\ rec.accepted = invitation[e].accepted
      BY <2>0, <3>1 DEF InvitationRow
    <3>3. invitation' = [invitation EXCEPT ![e] = rec]
      BY <2>2 DEF UpdateToken
    <3> QED
      BY <3>1, <3>2, <3>3
  <2> QED
    BY <2>1, <2>2
<1>4. rec # None /\ \A u \in Users : invitation'[u] = IF u = e THEN rec ELSE invitation[u]
  BY <1>3, RowsAreRows DEF Inv, TypeOK
<1>5. issued' \in Nat /\ issued <= issued' /\ issued < issued'
  BY <1>1
<1>6. ASSUME NEW u \in Users
      PROVE  \/ invitation'[u] = None /\ (open' => open /\ invitation[u] = None)
             \/ /\ open' /\ invitation'[u] # None
                /\ invitation'[u].token = issued' /\ issued < issued'
                /\ Unused(u)' => Unused(u)
             \/ /\ open' /\ invitation'[u] # None /\ invitation[u] # None
                /\ invitation'[u].token = invitation[u].token
                /\ invitation'[u].role = invitation[u].role
                /\ invitation'[u].accepted = invitation[u].accepted
  <2>1. CASE u = e
    <3>1. Unused(u)' => Unused(u)
      BY <1>1, <1>3, <1>4, <2>1 DEF Unused
    <3> QED
      BY <1>1, <1>3, <1>4, <1>5, <2>1, <3>1
  <2>2. CASE u # e
    BY <1>1, <1>3, <1>4, <2>2
  <2> QED
    BY <2>1, <2>2
<1> QED
  BY <1>1, <1>2, <1>5, <1>6, AcceptsKept

\* A rejection, or an expiry, leaves token, role and acceptance as they are.
LEMMA MarksKeepAccepts ==
    ASSUME Inv, AcceptsInv, NEW e \in Users, NEW rec \in InvitationRow,
           invitation[e] # None,
           invitation' = [invitation EXCEPT ![e] = rec],
           rec.token = invitation[e].token,
           rec.role = invitation[e].role,
           rec.accepted = invitation[e].accepted,
           \A k \in Requests : Accepts(k)' => request'[k] = request[k],
           UNCHANGED <<account, open, issued, inbox, mailed, joins>>
    PROVE  AcceptsInv'
<1>1. issued' \in Nat /\ issued <= issued'
  BY DEF Inv, TypeOK
<1>2. rec # None /\ \A u \in Users : invitation'[u] = IF u = e THEN rec ELSE invitation[u]
  BY RowsAreRows DEF Inv, TypeOK
<1>3. \A u \in Users : invitation[u] # None => open
  BY DEF AcceptsInv, RowsAreOpen
<1> QED
  BY <1>1, <1>2, <1>3, AcceptsKept

LEMMA RejectKeepsAccepts ==
    ASSUME Inv, AcceptsInv, NEW q \in Requests, MarkAsRejected(q)
    PROVE  AcceptsInv'
<1> DEFINE e == request[q].email
           rec == [invitation[e] EXCEPT !.rejected = TRUE, !.status = "REJECTED"]
<1>1. /\ invitation' = [invitation EXCEPT ![e] = rec] /\ invitation[e] # None
      /\ request' = [request EXCEPT ![q] = Idle] /\ request[q].pc # "idle"
      /\ UNCHANGED <<account, open, issued, inbox, mailed, joins>>
  BY DEF MarkAsRejected, HasToken, Finish, history
<1>2. e \in Users /\ invitation[e] \in InvitationRow
  BY <1>1, RequestFacts DEF MarkAsRejected, RequestOK, Inv, TypeOK
<1>3. /\ rec \in InvitationRow /\ rec.token = invitation[e].token
      /\ rec.role = invitation[e].role /\ rec.accepted = invitation[e].accepted
  BY <1>2 DEF InvitationRow
<1>4. \A k \in Requests : Accepts(k)' => request'[k] = request[k]
  BY <1>1, NoNewAccept DEF Idle
<1> HIDE DEF rec, e
<1> QED
  BY <1>1, <1>2, <1>3, <1>4, MarksKeepAccepts

LEMMA DeleteKeepsAccepts ==
    ASSUME Inv, AcceptsInv, NEW q \in Requests, Delete(q)
    PROVE  AcceptsInv'
<1>1. /\ ~open' /\ \A u \in Users : invitation'[u] = None
      /\ request' = [request EXCEPT ![q] = Idle]
      /\ UNCHANGED <<account, issued, inbox, mailed, joins>>
  BY DEF Delete, Finish, history
<1>2. issued' \in Nat /\ issued <= issued'
  BY <1>1 DEF Inv, TypeOK
<1>3. \A k \in Requests : Accepts(k)' => request'[k] = request[k]
  BY <1>1, NoNewAccept DEF Idle
<1> QED
  BY <1>1, <1>2, <1>3, AcceptsKept

LEMMA WorldKeepsAccepts ==
    ASSUME Inv, AcceptsInv,
           \/ \E u \in Users : Register(u) \/ Expire(u)
           \/ \E n \in Limits : PlanChanges(n)
    PROVE  AcceptsInv'
<1>1. UNCHANGED <<open, issued, inbox, mailed, request, joins>>
  BY DEF Register, Expire, PlanChanges, tables, history
<1>2. CASE \E u \in Users : Register(u)
  BY <1>1, <1>2, RowsUntouched DEF Register, Inv, TypeOK
<1>3. CASE \E n \in Limits : PlanChanges(n)
  BY <1>1, <1>3, RowsUntouched DEF PlanChanges, tables
<1>4. CASE \E e \in Users : Expire(e)
  <2>1. PICK e \in Users : Expire(e)
    BY <1>4
  <2> DEFINE rec == [invitation[e] EXCEPT !.expired = TRUE]
  <2>2. invitation' = [invitation EXCEPT ![e] = rec] /\ invitation[e] # None /\ UNCHANGED account
    BY <2>1 DEF Expire
  <2>3. /\ rec \in InvitationRow /\ rec.token = invitation[e].token
        /\ rec.role = invitation[e].role /\ rec.accepted = invitation[e].accepted
    BY <2>2 DEF Inv, TypeOK, InvitationRow
  <2> HIDE DEF rec
  <2> QED
    BY <1>1, <2>2, <2>3, MarksKeepAccepts
<1> QED
  BY <1>2, <1>3, <1>4

THEOREM InitAccepts == Init => AcceptsInv
<1> SUFFICES ASSUME Init PROVE AcceptsInv
  OBVIOUS
<1>1. \A q \in Requests : ~Accepts(q)
  BY DEF Init, Idle, Accepts
<1>2. \A u \in Users : joins[u] = 0 /\ invitation[u] = None
  BY DEF Init
<1> QED
  BY <1>1, <1>2, AcceptingCount DEF AcceptsInv, RowsAreOpen, JoinsAreCounted

\* Every step keeps what is known of the acceptances under way.
THEOREM AcceptsStep == Inv /\ AcceptsInv /\ [Next]_vars => AcceptsInv'
<1> SUFFICES ASSUME Inv, AcceptsInv, [Next]_vars PROVE AcceptsInv'
  OBVIOUS
<1>1. ASSUME NEW q \in Requests, Invite(q) \/ Resend(q)
      PROVE  AcceptsInv'
  BY <1>1, StartKeepsAccepts, WritesElsewhere, IssueKeepsAccepts
     DEF Invite, Resend, ValidateInvite, ValidateResend
<1>2. ASSUME NEW q \in Requests, Tell(q) \/ RequestFails(q)
      PROVE  AcceptsInv'
  BY <1>2, WritesElsewhere
<1>3. ASSUME NEW q \in Requests, Answer(q)
      PROVE  AcceptsInv'
  BY <1>3, BeginsToAccept, StartKeepsAccepts, EndsAccepting, RejectKeepsAccepts
     DEF Answer, ValidateReject
<1>4. ASSUME NEW q \in Requests, Manage(q)
      PROVE  AcceptsInv'
  BY <1>4, StartKeepsAccepts, WritesElsewhere, DeleteKeepsAccepts
     DEF Manage, ValidateUpdateRole, ValidateRemove, ValidateDelete
<1>5. CASE UNCHANGED vars
  BY <1>5, RowsUntouched DEF vars
<1> QED
  BY <1>1, <1>2, <1>3, <1>4, <1>5, WorldKeepsAccepts DEF Next

THEOREM AcceptsInvariance == Spec => [](Inv /\ AcceptsInv)
<1> QED
  BY InitInv, InvStep, InitAccepts, AcceptsStep, PTL DEF Spec

\* Nobody becomes a member but by the current token of an invitation, sent to him
\* before, and with its role: not by one that was replaced, nor after the workspace was
\* deleted, while he accepted it.
THEOREM MembersAreInvited == Spec => NewMembersAreInvited
<1> DEFINE Invited(u) ==
      u \notin Members /\ u \in Members' =>
          /\ open
          /\ account[u] = "active"
          /\ invitation[u] # None
          /\ invitation[u].token \in inbox \union mailed
          /\ member'[u] = invitation[u].role
<1>1. Inv /\ AcceptsInv /\ [Next]_vars => [\A u \in Users : Invited(u)]_vars
  <2> SUFFICES ASSUME Inv, AcceptsInv, Next, NEW u \in Users, u \notin Members, u \in Members'
               PROVE  Invited(u)
    OBVIOUS
  <2>1. PICK q \in Requests : AcceptInvitationAndCreateMember(q) /\ request[q].email = u
    <3>1. member[u] = None /\ member'[u] # None
      BY DEF Members
    <3>2. ASSUME UNCHANGED member PROVE FALSE
      BY <3>1, <3>2
    <3>3. ASSUME NEW q \in Requests, UpdateRole(q) \/ Remove(q) PROVE FALSE
      BY <3>1, <3>3 DEF UpdateRole, Remove, Members, Inv, TypeOK
    <3>4. ASSUME NEW q \in Requests, Delete(q) PROVE FALSE
      BY <3>1, <3>4 DEF Delete
    <3>5. ASSUME NEW q \in Requests, AcceptInvitationAndCreateMember(q)
          PROVE  request[q].email = u
      BY <3>1, <3>5 DEF AcceptInvitationAndCreateMember, Inv, TypeOK
    <3>6. \E q \in Requests : AcceptInvitationAndCreateMember(q) \/ UpdateRole(q) \/ Remove(q) \/ Delete(q)
      BY <3>2 DEF Next, Invite, Resend, Tell, Answer, Manage, ValidateInvite, FindInvitee,
         CreateShadowUser, StoreInvitation, RefuseSecondInvitation, Fail, ValidateResend,
         UpdateToken, CreateInboxMessage, SendWorkspaceInvitation, ValidateAccept, ValidateReject,
         MarkAsRejected, ValidateUpdateRole, ValidateRemove, ValidateDelete, Start, RequestFails,
         Register, Expire, PlanChanges, tables
    <3> QED
      BY <3>3, <3>4, <3>5, <3>6
  <2>2. /\ Accepts(q) /\ invitation[u] # None /\ invitation[u].token = request[q].token
        /\ member'[u] = request[q].role
    BY <2>1 DEF AcceptInvitationAndCreateMember, HasToken, Accepts, Inv, TypeOK
  <2>3. AcceptOK(q) /\ open
    BY <2>2 DEF AcceptsInv, RowsAreOpen
  <2> QED
    BY <2>1, <2>2, <2>3 DEF AcceptOK
<1> QED
  BY <1>1, AcceptsInvariance, PTL DEF Spec, NewMembersAreInvited

\* However many requests overlap, an invitation makes a member no more often than
\* requests could read it before it was first accepted.
THEOREM JoinsStayBounded == Spec => []JoinsAreBounded(Cardinality(Requests))
<1>1. Inv /\ AcceptsInv => JoinsAreBounded(Cardinality(Requests))
  <2> SUFFICES ASSUME Inv, AcceptsInv, NEW u \in Users PROVE joins[u] <= Cardinality(Requests)
    BY DEF JoinsAreBounded
  <2>1. joins[u] + Cardinality(Accepting(u)) <= Cardinality(Requests) /\ joins[u] \in Nat
    BY DEF AcceptsInv, JoinsAreCounted, Inv, TypeOK
  <2> QED
    BY <2>1, AcceptingCount
<1> QED
  BY <1>1, AcceptsInvariance, PTL

=============================================================================
