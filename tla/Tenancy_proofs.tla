--------------------------- MODULE Tenancy_proofs ---------------------------
(***************************************************************************)
(* Proofs about MCTenancy for any constants: what Workspaces keeps however *)
(* many requests overlap, what one request at a time keeps of slugs and of *)
(* answers to invitations, and that both components keep their types.      *)
(***************************************************************************)
EXTENDS Sequences, MCTenancy, Invitations_proofs, FiniteSetTheorems, WellFoundedInduction, TLAPS

-----------------------------------------------------------------------------
(* Slug numbers                                                             *)

\* Numbers that have a bound have a largest one.
LEMMA MaximumExists ==
    ASSUME NEW N \in Nat, NEW S \in SUBSET (0..N), S # {}
    PROVE  \E n \in S : \A m \in S : m <= n
<1> DEFINE Gap == {k \in Nat : N - k \in S}
           Below == {p \in Nat \X Nat : p[1] < p[2]}
<1>1. IsWellFoundedOn(Below, Nat)
  <2>1. Below = OpToRel(<, Nat)
    BY DEF OpToRel
  <2> QED
    BY <2>1, NatLessThanWellFounded
<1>2. Gap # {}
  <2>1. PICK n \in S : TRUE
    OBVIOUS
  <2>2. N - n \in Gap
    BY <2>1
  <2> QED
    BY <2>2
<1>3. PICK k \in Gap : \A j \in Gap : <<j, k>> \notin Below
  <2> Gap \subseteq Nat
    OBVIOUS
  <2> HIDE DEF Gap, Below
  <2> QED
    BY <1>1, <1>2, WFMin
<1>4. N - k \in S
  OBVIOUS
<1>5. ASSUME NEW m \in S
      PROVE  m <= N - k
  <2>1. N - m \in Gap /\ k \in Nat /\ m \in 0..N
    OBVIOUS
  <2>2. ~(N - m < k)
    BY <1>3, <2>1
  <2> QED
    BY <2>1, <2>2
<1> QED
  BY <1>4, <1>5

\* The largest number of an owner's slugs is a number: the SELECT MAX of
\* getMaxSlugNumber, when the cast of none of them throws.
LEMMA MaxSlugNumberType ==
    ASSUME NEW u, NEW base, W!Readable(u, base)
    PROVE  W!MaxSlugNumber(u, base) \in Nat
<1> DEFINE S == W!SlugNumbers(u, base)
<1>1. MaxInt \in Nat
  BY TenancyConstants DEF W!WorkspaceConstants
<1>2. S \in SUBSET (0..MaxInt) /\ S # {}
  BY <1>1 DEF W!SlugNumbers, W!Readable
<1>3. \E n \in S : \A m \in S : m <= n
  <2> HIDE DEF S
  <2> QED
    BY <1>1, <1>2, MaximumExists
<1>4. W!MaxSlugNumber(u, base) \in S
  BY <1>3 DEF W!MaxSlugNumber
<1> QED
  BY <1>2, <1>4

\* The slug of name n, or numbered from it.
IsSlugOf(slug, n) == slug = Base[n] \/ slug = Append(Base[n], slug[Len(slug)])

\* What ComputeSlug stores is a slug, and of the name that the request gives.
LEMMA ComputedSlug ==
    ASSUME NEW u, NEW n \in Names, W!Readable(u, Base[n])
    PROVE  LET slug == W!GenerateUniqueSlugFromMax(Base[n], W!MaxSlugNumber(u, Base[n]))
           IN  slug \in W!Slugs /\ IsSlugOf(slug, n)
<1> DEFINE max  == W!MaxSlugNumber(u, Base[n])
           Part == Stems \union Nat
<1>1. max \in Nat
  BY MaxSlugNumberType
<1>2. Base[n] \in Seq(Part) /\ Base[n] # <<>>
  BY TenancyConstants DEF W!WorkspaceConstants
<1>3. max + 1 \in Part
  BY <1>1
<1> HIDE DEF max, Part
<1>4. /\ Append(Base[n], max + 1) \in Seq(Part)
      /\ Len(Append(Base[n], max + 1)) = Len(Base[n]) + 1
      /\ Append(Base[n], max + 1)[Len(Base[n]) + 1] = max + 1
      /\ Append(Base[n], max + 1) # <<>>
  BY <1>2, <1>3
<1>5. W!Slugs = Seq(Part) \ {<<>>}
  BY DEF W!Slugs, Part
<1>6. W!GenerateUniqueSlugFromMax(Base[n], max) \in {Base[n], Append(Base[n], max + 1)}
  BY DEF W!GenerateUniqueSlugFromMax
<1> QED
  BY <1>2, <1>4, <1>5, <1>6 DEF max, IsSlugOf

-----------------------------------------------------------------------------
(* Workspaces, however its requests overlap                                 *)

\* A creation, renaming or deletion is idle, or it has its user and what else it needs.
CreationOK(r) ==
    \/ r = W!Idle
    \/ /\ r.pc # "idle"
       /\ r.user \in Owners
       /\ r.op \in {"create", "update", "delete"}
       /\ r.op # "create" => r.id \in Ids
       /\ r.op # "delete" => r.name \in Names
       /\ r.op = "delete" => r.pc = "ready"
       /\ r.op = "create" => r.seen = None
       /\ r.slug # None => IsSlugOf(r.slug, r.name)
       /\ r.pc = "ready" /\ r.op = "create" => r.slug \in W!Slugs
       /\ r.pc = "ready" /\ r.op = "update" /\ r.slug = None => r.name = r.seen

CreationsOK == \A q \in Requests : CreationOK(creation[q])

WorkspacesInv ==
    /\ W!TypeOK
    /\ CreationsOK
    /\ W!LimitsAreKnown
    /\ W!CreationsAreBounded

\* Workspaces counts with the operators of its own instance of FiniteSets.
LEMMA SameCounts ==
    \A S : W!Cardinality(S) = Cardinality(S) /\ (W!IsFiniteSet(S) <=> IsFiniteSet(S))
<1>1. \A S : W!IsFiniteSet(S) <=> IsFiniteSet(S)
  BY DEF W!IsFiniteSet, IsFiniteSet
<1>2. \A S : W!Cardinality(S) = Cardinality(S)
  BY DEF W!Cardinality, Cardinality
<1> QED
  BY <1>1, <1>2

LEMMA TenancyFacts ==
    /\ IsFiniteSet(Ids)
    /\ IsFiniteSet(Requests) /\ Requests # {}
    /\ MaxWorkspaces \subseteq Nat
  BY TenancyConstants, SameCounts DEF W!WorkspaceConstants

LEMMA NoneIsNobody ==
    /\ None \notin Owners /\ None \notin Ids /\ None \notin Names /\ None \notin W!Slugs
    /\ None \notin W!WorkspaceRow /\ Gone \notin W!WorkspaceRow
  BY TenancyConstants DEF W!WorkspaceConstants, W!RowsAreRows

LEMMA IdleCreation == W!Idle \in W!RequestRecord /\ W!Idle.pc = "idle"
  BY DEF W!Idle, W!RequestRecord

\* What holds of a request before a step of it.
LEMMA CreationFacts ==
    ASSUME WorkspacesInv, NEW q \in Requests, creation[q].pc # "idle"
    PROVE  /\ creation[q] \in W!RequestRecord
           /\ creation[q] # W!Idle
           /\ CreationOK(creation[q])
<1>1. creation[q] # W!Idle
  BY IdleCreation
<1> QED
  BY <1>1 DEF WorkspacesInv, CreationsOK, W!TypeOK

\* The workspaces of a user, and his creations under way, can be counted.
LEMMA Counts ==
    ASSUME NEW u
    PROVE  /\ IsFiniteSet(W!Owned(u)) /\ Cardinality(W!Owned(u)) \in Nat
           /\ IsFiniteSet(W!Creations(u)) /\ Cardinality(W!Creations(u)) \in Nat
           /\ Cardinality(W!Creations(u)) <= Cardinality(Requests)
           /\ Cardinality(Requests) \in Nat /\ Cardinality(Requests) > 0
<1>0. IsFiniteSet(Ids) /\ IsFiniteSet(Requests) /\ Requests # {}
  BY TenancyFacts
<1>1. W!Owned(u) \subseteq Ids /\ W!Creations(u) \subseteq Requests
  BY DEF W!Owned, W!Creations
<1>2. /\ IsFiniteSet(W!Owned(u)) /\ IsFiniteSet(W!Creations(u))
      /\ Cardinality(W!Creations(u)) <= Cardinality(Requests)
  BY <1>0, <1>1, FS_Subset
<1>3. Cardinality(Requests) # 0
  BY <1>0, FS_EmptySet
<1> QED
  BY <1>0, <1>2, <1>3, FS_CardinalityType

\* A step that gives no user a workspace or a creation more.
LEMMA NoMore ==
    ASSUME WorkspacesInv, W!TypeOK', CreationsOK', UNCHANGED <<limit, most>>,
           \A u \in Owners : /\ W!Owned(u)' \subseteq W!Owned(u)
                             /\ W!Creations(u)' \subseteq W!Creations(u)
    PROVE  WorkspacesInv'
<1>1. W!LimitsAreKnown'
  BY DEF WorkspacesInv, W!LimitsAreKnown
<1>2. ASSUME NEW u \in Owners
      PROVE  Cardinality(W!Owned(u)') + Cardinality(W!Creations(u)') + 1
                <= most[u] + Cardinality(Requests)
  <2>1. /\ Cardinality(W!Owned(u)') \in Nat
        /\ Cardinality(W!Owned(u)') <= Cardinality(W!Owned(u))
        /\ Cardinality(W!Creations(u)') \in Nat
        /\ Cardinality(W!Creations(u)') <= Cardinality(W!Creations(u))
    BY Counts, FS_Subset, FS_CardinalityType
  <2>2. /\ Cardinality(W!Owned(u)) + Cardinality(W!Creations(u)) + 1
              <= most[u] + Cardinality(Requests)
        /\ most[u] \in Nat
    BY TenancyFacts, SameCounts DEF WorkspacesInv, W!TypeOK, W!CreationsAreBounded
  <2> QED
    BY <2>1, <2>2, Counts
<1>3. W!CreationsAreBounded'
  BY <1>2, SameCounts DEF W!CreationsAreBounded
<1> QED
  BY <1>1, <1>3 DEF WorkspacesInv

\* A request that goes on, or ends, is no creation more.
LEMMA CreationStep ==
    ASSUME WorkspacesInv, NEW q \in Requests, NEW r \in W!RequestRecord,
           creation' = [creation EXCEPT ![q] = r],
           CreationOK(r),
           r = W!Idle \/ (r.user = creation[q].user /\ r.op = creation[q].op) \/ r.op # "create"
    PROVE  /\ creation' \in [Requests -> W!RequestRecord]
           /\ CreationsOK'
           /\ \A u \in Owners : W!Creations(u)' \subseteq W!Creations(u)
           /\ \A k \in Requests : creation'[k] = IF k = q THEN r ELSE creation[k]
<1>0. creation \in [Requests -> W!RequestRecord]
  BY DEF WorkspacesInv, W!TypeOK
<1>1. \A k \in Requests : creation'[k] = IF k = q THEN r ELSE creation[k]
  BY <1>0
<1>2. \A u \in Owners : W!Creations(u)' \subseteq W!Creations(u)
  <2>1. W!Idle.user \notin Owners
    BY NoneIsNobody DEF W!Idle
  <2> QED
    BY <1>1, <2>1 DEF W!Creations
<1>3. CreationsOK'
  BY <1>1 DEF WorkspacesInv, CreationsOK, CreationOK
<1> QED
  BY <1>0, <1>1, <1>2, <1>3

\* The limit is compared with the workspaces alone: a creation under way counts from
\* here on, for the request that it takes.
LEMMA CreateStep ==
    ASSUME WorkspacesInv, NEW q \in Requests, NEW u \in Owners, NEW n \in Names,
           W!ValidateCreate(q, u, n)
    PROVE  WorkspacesInv'
<1> DEFINE r == [pc |-> "valid", op |-> "create", user |-> u, id |-> None,
                 name |-> n, seen |-> None, slug |-> None]
<1>0. creation \in [Requests -> W!RequestRecord]
  BY DEF WorkspacesInv, W!TypeOK
<1>1. /\ creation' = [creation EXCEPT ![q] = r]
      /\ UNCHANGED <<workspace, limit, most>>
      /\ Cardinality(W!Owned(u)) < limit[u]
  BY SameCounts DEF W!ValidateCreate
<1>3. CreationOK(r) /\ r \in W!RequestRecord /\ r.user = u /\ r.op = "create"
  BY DEF CreationOK, W!RequestRecord
<1> HIDE DEF r
<1>2. \A k \in Requests : creation'[k] = IF k = q THEN r ELSE creation[k]
  BY <1>0, <1>1
<1>4. W!TypeOK' /\ CreationsOK'
  <2>1. creation' \in [Requests -> W!RequestRecord]
    BY <1>0, <1>1, <1>3
  <2> QED
    BY <1>1, <1>2, <1>3, <2>1 DEF WorkspacesInv, W!TypeOK, CreationsOK, CreationOK
<1>5. W!LimitsAreKnown'
  BY <1>1 DEF WorkspacesInv, W!LimitsAreKnown
<1>6. ASSUME NEW v \in Owners
      PROVE  Cardinality(W!Owned(v)') + Cardinality(W!Creations(v)') + 1
                <= most[v] + Cardinality(Requests)
  <2>1. W!Owned(v)' = W!Owned(v)
    BY <1>1 DEF W!Owned, W!Exists
  <2>2. /\ Cardinality(W!Creations(v)') <= Cardinality(Requests)
        /\ Cardinality(W!Creations(v)') \in Nat
    <3>1. W!Creations(v)' \subseteq Requests /\ IsFiniteSet(Requests)
      BY TenancyFacts DEF W!Creations
    <3> QED
      BY <3>1, FS_Subset, FS_CardinalityType
  <2>3. CASE v = u
    <3>1. limit[u] <= most[u] /\ limit[u] \in Nat /\ most[u] \in Nat
      BY TenancyFacts, SameCounts DEF WorkspacesInv, W!LimitsAreKnown, W!TypeOK
    <3> QED
      BY <1>1, <2>1, <2>2, <2>3, <3>1, Counts
  <2>4. CASE v # u
    <3>1. W!Creations(v)' = W!Creations(v)
      <4>1. creation[q] = W!Idle
        BY DEF W!ValidateCreate, WorkspacesInv, CreationsOK, CreationOK
      <4>2. q \notin W!Creations(v)
        BY <4>1, NoneIsNobody DEF W!Idle, W!Creations
      <4> QED
        BY <1>2, <1>3, <2>4, <4>2 DEF W!Creations
    <3> QED
      BY <2>1, <3>1, SameCounts DEF WorkspacesInv, W!CreationsAreBounded
  <2> QED
    BY <2>3, <2>4
<1>7. W!CreationsAreBounded'
  BY <1>1, <1>6, SameCounts DEF W!CreationsAreBounded
<1> QED
  BY <1>4, <1>5, <1>7 DEF WorkspacesInv

\* A creation under way becomes a workspace.
LEMMA InsertStep ==
    ASSUME WorkspacesInv, NEW q \in Requests, NEW i \in Ids,
           W!CreateWithOwnerMember(q, i)
    PROVE  WorkspacesInv'
<1> DEFINE u == creation[q].user
           rec == [owner |-> creation[q].user, name |-> creation[q].name,
                   slug |-> creation[q].slug]
<1>1. /\ workspace' = [workspace EXCEPT ![i] = rec]
      /\ creation' = [creation EXCEPT ![q] = W!Idle]
      /\ UNCHANGED <<limit, most>>
  BY DEF W!CreateWithOwnerMember
<1>2. /\ u \in Owners /\ q \in W!Creations(u)
      /\ creation[q].name \in Names /\ creation[q].slug \in W!Slugs
  BY CreationFacts DEF W!CreateWithOwnerMember, CreationOK, W!Creations
<1>3. rec.owner = u /\ rec \in W!WorkspaceRow
  BY <1>2 DEF W!WorkspaceRow
<1> HIDE DEF rec
<1>4. /\ workspace'[i] = rec
      /\ \A k \in Ids \ {i} : workspace'[k] = workspace[k]
      /\ workspace' \in [Ids -> W!WorkspaceRow \union {None, Gone}]
  BY <1>1, <1>3 DEF WorkspacesInv, W!TypeOK
<1>5. /\ creation' \in [Requests -> W!RequestRecord]
      /\ CreationsOK'
      /\ \A k \in Requests : creation'[k] = IF k = q THEN W!Idle ELSE creation[k]
  BY <1>1, CreationStep, IdleCreation DEF CreationOK
<1>6. W!TypeOK'
  BY <1>1, <1>4, <1>5 DEF WorkspacesInv, W!TypeOK
<1>7. W!LimitsAreKnown'
  BY <1>1 DEF WorkspacesInv, W!LimitsAreKnown
<1>8. ASSUME NEW v \in Owners
      PROVE  Cardinality(W!Owned(v)') + Cardinality(W!Creations(v)') + 1
                <= most[v] + Cardinality(Requests)
  <2>0. /\ Cardinality(W!Owned(v)) + Cardinality(W!Creations(v)) + 1
              <= most[v] + Cardinality(Requests)
        /\ most[v] \in Nat
    BY TenancyFacts, SameCounts DEF WorkspacesInv, W!TypeOK, W!CreationsAreBounded
  <2>00. W!Idle.user \notin Owners
    BY NoneIsNobody DEF W!Idle
  <2>1. CASE v = u
    <3>1. W!Owned(v)' \subseteq W!Owned(v) \union {i}
      BY <1>4 DEF W!Owned, W!Exists
    <3>2. W!Creations(v)' \subseteq W!Creations(v) \ {q}
      BY <1>5, <2>00 DEF W!Creations
    <3>3. /\ IsFiniteSet(W!Owned(v) \union {i})
          /\ Cardinality(W!Owned(v) \union {i}) <= Cardinality(W!Owned(v)) + 1
          /\ Cardinality(W!Owned(v) \union {i}) \in Nat
      <4>1. IsFiniteSet(W!Owned(v)) /\ Cardinality(W!Owned(v)) \in Nat
        BY Counts
      <4>2. /\ IsFiniteSet(W!Owned(v) \union {i})
            /\ Cardinality(W!Owned(v) \union {i}) =
                  IF i \in W!Owned(v) THEN Cardinality(W!Owned(v))
                  ELSE Cardinality(W!Owned(v)) + 1
        BY <4>1, FS_AddElement
      <4> QED
        BY <4>1, <4>2
    <3>4. /\ Cardinality(W!Owned(v)') <= Cardinality(W!Owned(v) \union {i})
          /\ Cardinality(W!Owned(v)') \in Nat
      BY <3>1, <3>3, FS_Subset, FS_CardinalityType
    <3>5. /\ IsFiniteSet(W!Creations(v) \ {q})
          /\ Cardinality(W!Creations(v) \ {q}) = Cardinality(W!Creations(v)) - 1
      BY <1>2, <2>1, Counts, FS_RemoveElement
    <3>6. /\ Cardinality(W!Creations(v)') <= Cardinality(W!Creations(v)) - 1
          /\ Cardinality(W!Creations(v)') \in Nat
      BY <3>2, <3>5, FS_Subset, FS_CardinalityType
    <3> QED
      BY <2>0, <3>3, <3>4, <3>6, Counts
  <2>2. CASE v # u
    <3>1. W!Owned(v)' \subseteq W!Owned(v)
      BY <1>3, <1>4, <2>2 DEF W!Owned, W!Exists
    <3>2. W!Creations(v)' \subseteq W!Creations(v)
      BY <1>5, <2>00 DEF W!Creations
    <3>3. /\ Cardinality(W!Owned(v)') <= Cardinality(W!Owned(v))
          /\ Cardinality(W!Owned(v)') \in Nat
          /\ Cardinality(W!Creations(v)') <= Cardinality(W!Creations(v))
          /\ Cardinality(W!Creations(v)') \in Nat
      BY <3>1, <3>2, Counts, FS_Subset, FS_CardinalityType
    <3> QED
      BY <2>0, <3>3, Counts
  <2> QED
    BY <2>1, <2>2
<1>9. W!CreationsAreBounded'
  BY <1>1, <1>8, SameCounts DEF W!CreationsAreBounded
<1> QED
  BY <1>5, <1>6, <1>7, <1>9 DEF WorkspacesInv

\* The steps that write no row.
LEMMA QuietCreation ==
    ASSUME WorkspacesInv, NEW q \in Requests,
           \/ \E u \in Owners, i \in Ids, n \in Names : W!ValidateUpdate(q, u, i, n)
           \/ \E u \in Owners, i \in Ids : W!ValidateDelete(q, u, i)
           \/ W!ComputeSlug(q) \/ W!KeepSlug(q) \/ W!RefuseSlug(q) \/ W!RequestFails(q)
    PROVE  WorkspacesInv'
<1>0. /\ creation \in [Requests -> W!RequestRecord]
      /\ workspace \in [Ids -> W!WorkspaceRow \union {None, Gone}]
  BY DEF WorkspacesInv, W!TypeOK
<1>1. UNCHANGED <<workspace, limit, most>>
  BY DEF W!ValidateUpdate, W!ValidateDelete, W!ComputeSlug, W!KeepSlug, W!RefuseSlug,
         W!RequestFails
<1>2. PICK r \in W!RequestRecord :
               /\ creation' = [creation EXCEPT ![q] = r]
               /\ CreationOK(r)
               /\ r = W!Idle \/ (r.user = creation[q].user /\ r.op = creation[q].op)
                  \/ r.op # "create"
  <2>1. CASE \E u \in Owners, i \in Ids, n \in Names : W!ValidateUpdate(q, u, i, n)
    <3>1. PICK u \in Owners, i \in Ids, n \in Names : W!ValidateUpdate(q, u, i, n)
      BY <2>1
    <3> DEFINE r == [pc |-> "valid", op |-> "update", user |-> u, id |-> i,
                     name |-> n, seen |-> workspace[i].name, slug |-> None]
    <3>2. workspace[i].name \in Names
      BY <1>0, <3>1 DEF W!ValidateUpdate, W!Owned, W!Exists, W!WorkspaceRow
    <3>3. creation' = [creation EXCEPT ![q] = r] /\ CreationOK(r) /\ r.op # "create"
      BY <3>1 DEF W!ValidateUpdate, CreationOK
    <3>4. r \in W!RequestRecord
      BY <3>2 DEF W!RequestRecord
    <3> QED
      BY <3>3, <3>4
  <2>2. CASE \E u \in Owners, i \in Ids : W!ValidateDelete(q, u, i)
    <3>1. PICK u \in Owners, i \in Ids : W!ValidateDelete(q, u, i)
      BY <2>2
    <3> DEFINE r == [pc |-> "ready", op |-> "delete", user |-> u, id |-> i,
                     name |-> None, seen |-> None, slug |-> None]
    <3>2. /\ creation' = [creation EXCEPT ![q] = r] /\ CreationOK(r) /\ r.op # "create"
          /\ r \in W!RequestRecord
      BY <3>1 DEF W!ValidateDelete, CreationOK, W!RequestRecord
    <3> QED
      BY <3>2
  <2>3. CASE W!ComputeSlug(q)
    <3> DEFINE n == creation[q].name
               slug == W!GenerateUniqueSlugFromMax(Base[n],
                          W!MaxSlugNumber(creation[q].user, Base[n]))
               r == [creation[q] EXCEPT !.pc = "ready", !.slug = slug]
    <3>1. /\ creation[q] \in W!RequestRecord /\ creation[q].pc = "valid"
          /\ CreationOK(creation[q]) /\ creation[q] # W!Idle
          /\ W!Readable(creation[q].user, Base[n])
          /\ creation' = [creation EXCEPT ![q].pc = "ready", ![q].slug = slug]
      BY <2>3, CreationFacts DEF W!ComputeSlug
    <3>2. n \in Names
      BY <3>1 DEF CreationOK
    <3>3. slug \in W!Slugs /\ IsSlugOf(slug, n)
      BY <3>1, <3>2, ComputedSlug
    <3> HIDE DEF slug
    <3>4. creation' = [creation EXCEPT ![q] = r]
      BY <1>0, <3>1
    <3>5. r \in W!RequestRecord /\ r.user = creation[q].user /\ r.op = creation[q].op
      BY <3>1, <3>3 DEF W!RequestRecord
    <3>6. CreationOK(r)
      BY <3>1, <3>2, <3>3, NoneIsNobody DEF CreationOK, W!RequestRecord
    <3> QED
      BY <3>4, <3>5, <3>6
  <2>4. CASE W!KeepSlug(q)
    <3> DEFINE r == [creation[q] EXCEPT !.pc = "ready"]
    <3>1. /\ creation[q] \in W!RequestRecord /\ creation[q].pc = "valid"
          /\ CreationOK(creation[q]) /\ creation[q] # W!Idle
          /\ creation[q].name = creation[q].seen
          /\ creation' = [creation EXCEPT ![q].pc = "ready"]
      BY <2>4, CreationFacts DEF W!KeepSlug
    <3>2. creation' = [creation EXCEPT ![q] = r]
      BY <1>0, <3>1
    <3>3. r \in W!RequestRecord /\ r.user = creation[q].user /\ r.op = creation[q].op
      BY <3>1 DEF W!RequestRecord
    <3>4. creation[q].op = "update"
      BY <3>1, NoneIsNobody DEF CreationOK
    <3>5. CreationOK(r)
      BY <3>1, <3>4 DEF CreationOK, W!RequestRecord
    <3> QED
      BY <3>2, <3>3, <3>5
  <2>5. CASE W!RefuseSlug(q) \/ W!RequestFails(q)
    BY <2>5, IdleCreation DEF W!RefuseSlug, W!RequestFails, CreationOK
  <2> QED
    BY <2>1, <2>2, <2>3, <2>4, <2>5
<1>3. /\ creation' \in [Requests -> W!RequestRecord] /\ CreationsOK'
      /\ \A u \in Owners : W!Creations(u)' \subseteq W!Creations(u)
  BY <1>2, CreationStep
<1>4. W!TypeOK'
  BY <1>1, <1>3 DEF WorkspacesInv, W!TypeOK
<1> QED
  BY <1>1, <1>3, <1>4, NoMore DEF W!Owned, W!Exists

\* A row that is renamed keeps its owner and gets a slug; one that is deleted is gone.
LEMMA WriteStep ==
    ASSUME WorkspacesInv, NEW q \in Requests, W!UpdateRow(q) \/ W!DeleteRow(q)
    PROVE  WorkspacesInv'
<1> DEFINE i == creation[q].id
<1>0. /\ creation[q] \in W!RequestRecord /\ CreationOK(creation[q])
      /\ creation[q] # W!Idle /\ creation[q].op \in {"update", "delete"}
      /\ workspace \in [Ids -> W!WorkspaceRow \union {None, Gone}]
  BY CreationFacts DEF W!UpdateRow, W!DeleteRow, WorkspacesInv, W!TypeOK
<1>1. /\ creation' = [creation EXCEPT ![q] = W!Idle]
      /\ UNCHANGED <<limit, most>>
      /\ W!Exists(i)
      /\ i \in Ids
  BY <1>0 DEF W!UpdateRow, W!DeleteRow, CreationOK
<1>11. workspace[i] \in W!WorkspaceRow
  BY <1>0, <1>1 DEF W!Exists
<1>2. PICK rec \in W!WorkspaceRow \union {Gone} :
               /\ workspace' = [workspace EXCEPT ![i] = rec]
               /\ rec = Gone \/ rec.owner = workspace[i].owner
  <2>1. CASE W!UpdateRow(q)
    <3> DEFINE rec == W!Renamed(workspace[i], creation[q])
    <3>1. workspace' = [workspace EXCEPT ![i] = rec]
      BY <2>1 DEF W!UpdateRow
    <3>2. creation[q].name \in Names /\ creation[q].slug \in W!Slugs \union {None}
      BY <1>0, <2>1 DEF W!UpdateRow, CreationOK, W!RequestRecord
    <3>3. rec \in W!WorkspaceRow /\ rec.owner = workspace[i].owner
      BY <1>11, <3>2 DEF W!Renamed, W!WorkspaceRow
    <3> QED
      BY <3>1, <3>3
  <2>2. CASE W!DeleteRow(q)
    BY <2>2 DEF W!DeleteRow
  <2> QED
    BY <2>1, <2>2
<1>3. /\ workspace' \in [Ids -> W!WorkspaceRow \union {None, Gone}]
      /\ \A k \in Ids : workspace'[k] = IF k = i THEN rec ELSE workspace[k]
  BY <1>0, <1>2
<1>4. /\ creation' \in [Requests -> W!RequestRecord] /\ CreationsOK'
      /\ \A u \in Owners : W!Creations(u)' \subseteq W!Creations(u)
  BY <1>1, CreationStep, IdleCreation DEF CreationOK
<1>5. W!TypeOK'
  BY <1>1, <1>3, <1>4 DEF WorkspacesInv, W!TypeOK
<1>6. \A u \in Owners : W!Owned(u)' \subseteq W!Owned(u)
  BY <1>1, <1>2, <1>3 DEF W!Owned, W!Exists
<1> QED
  BY <1>1, <1>4, <1>5, <1>6, NoMore

\* A plan may change at any time: the largest limit so far is what counts.
LEMMA PlanStep ==
    ASSUME WorkspacesInv, NEW u \in Owners, NEW n \in MaxWorkspaces, W!PlanChanges(u, n)
    PROVE  WorkspacesInv'
<1>1. /\ MaxWorkspaces \subseteq Nat
      /\ limit \in [Owners -> MaxWorkspaces] /\ most \in [Owners -> MaxWorkspaces]
      /\ limit' = [limit EXCEPT ![u] = n]
      /\ most' = [most EXCEPT ![u] = IF n > most[u] THEN n ELSE most[u]]
      /\ UNCHANGED <<workspace, creation>>
  BY TenancyFacts DEF W!PlanChanges, WorkspacesInv, W!TypeOK
<1>2. /\ limit' \in [Owners -> MaxWorkspaces] /\ most' \in [Owners -> MaxWorkspaces]
      /\ \A v \in Owners : most[v] <= most'[v] /\ (limit[v] <= most[v] => limit'[v] <= most'[v])
  <2>1. \A v \in Owners : limit[v] \in Nat /\ most[v] \in Nat
    BY <1>1
  <2>2. \A v \in Owners :
           /\ limit'[v] = IF v = u THEN n ELSE limit[v]
           /\ most'[v] = IF v = u THEN IF n > most[u] THEN n ELSE most[u] ELSE most[v]
    BY <1>1
  <2>3. limit' \in [Owners -> MaxWorkspaces] /\ most' \in [Owners -> MaxWorkspaces]
    BY <1>1
  <2>4. n \in Nat
    BY <1>1
  <2> QED
    BY <2>1, <2>2, <2>3, <2>4
<1>3. W!TypeOK' /\ CreationsOK'
  BY <1>1, <1>2 DEF WorkspacesInv, W!TypeOK, CreationsOK, CreationOK
<1>4. W!LimitsAreKnown'
  BY <1>2 DEF WorkspacesInv, W!LimitsAreKnown
<1>5. ASSUME NEW v \in Owners
      PROVE  Cardinality(W!Owned(v)) + Cardinality(W!Creations(v)) + 1
                <= most'[v] + Cardinality(Requests)
  <2>1. Cardinality(W!Owned(v)) + Cardinality(W!Creations(v)) + 1
           <= most[v] + Cardinality(Requests)
    BY SameCounts DEF WorkspacesInv, W!CreationsAreBounded
  <2>2. most[v] <= most'[v] /\ most[v] \in Nat /\ most'[v] \in Nat
    BY <1>1, <1>2
  <2> QED
    BY <2>1, <2>2, Counts
<1>6. W!CreationsAreBounded'
  BY <1>1, <1>5, SameCounts DEF W!CreationsAreBounded, W!Owned, W!Creations, W!Exists
<1> QED
  BY <1>3, <1>4, <1>6 DEF WorkspacesInv

\* A user has at most one workspace to begin with, and a limit of at least one.
LEMMA WorkspacesInit == W!Init => WorkspacesInv
<1> SUFFICES ASSUME W!Init PROVE WorkspacesInv
  OBVIOUS
<1>0. /\ MaxWorkspaces \subseteq Nat
      /\ Base \in [Names -> W!Slugs]
  BY TenancyConstants DEF W!WorkspaceConstants, W!Slugs
<1>1. W!TypeOK
  <2>1. \A u \in Owners, n \in Names :
           [owner |-> u, name |-> n, slug |-> Base[n]] \in W!WorkspaceRow
    BY <1>0 DEF W!WorkspaceRow
  <2> QED
    BY <1>0, <2>1, IdleCreation DEF W!Init, W!TypeOK
<1>2. CreationsOK
  BY DEF W!Init, CreationsOK, CreationOK
<1>4. \A u \in Owners : most[u] = limit[u] /\ most[u] \in Nat /\ most[u] # 0
  <2>1. limit \in [Owners -> MaxWorkspaces \ {0}] /\ most = limit
    BY DEF W!Init
  <2> QED
    BY <1>0, <2>1
<1>5. W!LimitsAreKnown
  BY <1>4 DEF W!LimitsAreKnown
<1>3. ASSUME NEW u \in Owners
      PROVE  Cardinality(W!Owned(u)) + Cardinality(W!Creations(u)) + 1
                <= most[u] + Cardinality(Requests)
  <2>1. Cardinality(W!Creations(u)) = 0
    <3>1. W!Creations(u) = {}
      BY NoneIsNobody DEF W!Init, W!Creations, W!Idle
    <3> QED
      BY <3>1, FS_EmptySet
  <2>2. most[u] \in Nat /\ most[u] >= 1
    BY <1>4
  <2>3. Cardinality(W!Owned(u)) <= 1
    <3>1. CASE W!Owned(u) = {}
      BY <3>1, FS_EmptySet
    <3>2. CASE W!Owned(u) # {}
      <4>1. PICK i \in Ids : W!Owned(u) = {i}
        BY <3>2 DEF W!Owned, W!Init
      <4> QED
        BY <4>1, FS_Singleton
    <3> QED
      BY <3>1, <3>2
  <2> QED
    BY <2>1, <2>2, <2>3, Counts
<1> QED
  BY <1>1, <1>2, <1>3, <1>5, SameCounts DEF WorkspacesInv, W!CreationsAreBounded

\* Every step of a request and every change of a plan keeps the invariant.
LEMMA WorkspacesStep == WorkspacesInv /\ [W!Next]_wvars => WorkspacesInv'
<1> SUFFICES ASSUME WorkspacesInv, [W!Next]_wvars PROVE WorkspacesInv'
  OBVIOUS
<1>1. ASSUME NEW q \in Requests, W!Request(q)
      PROVE  WorkspacesInv'
  BY <1>1, CreateStep, InsertStep, QuietCreation, WriteStep
     DEF W!Request, W!CreateWorkspace, W!UpdateWorkspace, W!DeleteWorkspace
<1>2. CASE \E u \in Owners, n \in MaxWorkspaces : W!PlanChanges(u, n)
  BY <1>2, PlanStep
<1>3. CASE UNCHANGED wvars
  <2>1. UNCHANGED <<workspace, limit, most, creation>>
    BY <1>3 DEF wvars
  <2>2. W!TypeOK' /\ CreationsOK'
    BY <2>1 DEF WorkspacesInv, W!TypeOK, CreationsOK, CreationOK
  <2> QED
    BY <2>1, <2>2, NoMore DEF W!Owned, W!Creations, W!Exists
<1> QED
  BY <1>1, <1>2, <1>3 DEF W!Next

LEMMA WorkspacesBound == WorkspacesInv => W!OverrunIsBounded
<1> SUFFICES ASSUME WorkspacesInv, NEW u \in Owners
             PROVE  Cardinality(W!Owned(u)) + 1 <= most[u] + Cardinality(Requests)
  BY SameCounts DEF W!OverrunIsBounded
<1>1. /\ Cardinality(W!Owned(u)) + Cardinality(W!Creations(u)) + 1
            <= most[u] + Cardinality(Requests)
      /\ most[u] \in Nat
  BY TenancyFacts, SameCounts DEF WorkspacesInv, W!TypeOK, W!CreationsAreBounded
<1> QED
  BY <1>1, Counts

-----------------------------------------------------------------------------
(* One request at a time                                                    *)

\* While requests come one at a time, at most one of them is not idle.
OneRequest ==
    \A p, q \in Requests :
        /\ request[p] # Idle /\ request[q] # Idle => p = q
        /\ creation[p] # W!Idle /\ creation[q] # W!Idle => p = q

\* An answer under way is to an invitation that nobody has accepted.
AnswersAreFirst ==
    \A q \in Requests :
        LET e == request[q].email
        IN  /\ request[q].pc = "valid" /\ request[q].op \in {"accept", "reject"}
            /\ invitation[e] # None
            => ~invitation[e].accepted

\* Who has joined has an accepted invitation, until the workspace is deleted with all
\* its members and invitations.
JoinersHaveAccepted ==
    \A u \in Users :
        /\ joins[u] <= 1
        /\ joins[u] = 1 => ~open \/ (invitation[u] # None /\ invitation[u].accepted)
        /\ ~open => member[u] = None /\ invitation[u] = None

\* A renaming under way knows the name that the workspace still has.
NamesAreFresh ==
    \A q \in Requests :
        LET i == creation[q].id
        IN  /\ creation[q].pc # "idle" /\ creation[q].op = "update"
            /\ W!Exists(i)
            => creation[q].seen = workspace[i].name

\* The row of a member's invitation stays, and says so.
MembersHaveAccepted ==
    \A u \in Members \ {Owner} : invitation[u] # None /\ invitation[u].status = "ACCEPTED"

AnswersInv == AnswersAreFirst /\ JoinersHaveAccepted /\ MembersHaveAccepted

SlugsInv == NamesAreFresh /\ W!SlugFollowsName

TenancyInv ==
    /\ Inv
    /\ WorkspacesInv
    /\ alone => OneRequest /\ AnswersInv /\ SlugsInv

\* A set of at most one element.
LEMMA AtMostOne ==
    ASSUME NEW S, IsFiniteSet(S), Cardinality(S) <= 1, NEW p \in S, NEW q \in S
    PROVE  p = q
<1> SUFFICES ASSUME p # q PROVE FALSE
  OBVIOUS
<1>1. IsFiniteSet({p}) /\ Cardinality({p}) = 1
  BY FS_Singleton
<1>3. Cardinality({p} \union {q}) = IF q \in {p} THEN Cardinality({p}) ELSE Cardinality({p}) + 1
  BY <1>1, FS_AddElement
<1>2. Cardinality({p} \union {q}) <= Cardinality(S)
  <2>1. {p} \union {q} \subseteq S
    OBVIOUS
  <2> QED
    BY <2>1, FS_Subset
<1>4. Cardinality(S) \in Nat
  BY FS_CardinalityType
<1> QED
  BY <1>1, <1>2, <1>3, <1>4

\* Whoever moves is the only one busy, before and after.
LEMMA OthersIdle ==
    ASSUME Inv, OneRequest, OneRequest', NEW q \in Requests, NEW r,
           request' = [request EXCEPT ![q] = r],
           request[q].pc # "idle" \/ r # Idle
    PROVE  /\ request'[q] = r
           /\ \A k \in Requests \ {q} : request'[k] = Idle
<1>1. request \in [Requests -> RequestRecord]
  BY DEF Inv, TypeOK
<1>2. request'[q] = r /\ \A k \in Requests \ {q} : request'[k] = request[k]
  BY <1>1
<1>3. CASE request[q].pc # "idle"
  BY <1>2, <1>3 DEF OneRequest, Idle
<1>4. CASE r # Idle
  BY <1>2, <1>4 DEF OneRequest
<1> QED
  BY <1>2, <1>3, <1>4

\* A request that goes on to something else than an answer, or ends.
LEMMA NoAnswer ==
    ASSUME Inv, OneRequest, OneRequest', NEW q \in Requests, NEW r,
           request' = [request EXCEPT ![q] = r],
           request[q].pc # "idle" \/ r # Idle,
           r.pc # "valid" \/ r.op \notin {"accept", "reject"}
    PROVE  AnswersAreFirst'
<1>1. request'[q] = r /\ \A k \in Requests \ {q} : request'[k] = Idle
  BY OthersIdle
<1>2. \A k \in Requests : request'[k].pc = "valid" => request'[k].op \notin {"accept", "reject"}
  BY <1>1 DEF Idle
<1> QED
  BY <1>2 DEF AnswersAreFirst

LEMMA RowsKept ==
    ASSUME JoinersHaveAccepted, MembersHaveAccepted, UNCHANGED <<open, member, invitation, joins>>
    PROVE  JoinersHaveAccepted' /\ MembersHaveAccepted'
  BY DEF JoinersHaveAccepted, MembersHaveAccepted, Members

\* One invitation is made, or changed in a way that does not undo its acceptance.
LEMMA InvitationKept ==
    ASSUME Inv, JoinersHaveAccepted, MembersHaveAccepted,
           UNCHANGED <<open, member, joins>>, open,
           NEW e \in Users, NEW rec \in InvitationRow,
           invitation' = [invitation EXCEPT ![e] = rec],
           joins[e] = 1 => rec.accepted,
           e \in Members \ {Owner} => rec.status = "ACCEPTED"
    PROVE  JoinersHaveAccepted' /\ MembersHaveAccepted'
<1>1. rec # None
  BY RowsAreRows
<1>2. \A u \in Users : invitation'[u] = IF u = e THEN rec ELSE invitation[u]
  BY DEF Inv, TypeOK
<1> QED
  BY <1>1, <1>2 DEF JoinersHaveAccepted, MembersHaveAccepted, Members

\* A request begins: it is an answer only to an invitation that nobody has accepted.
LEMMA StartAlone ==
    ASSUME Inv, OneRequest, OneRequest', AnswersInv,
           NEW q \in Requests, NEW op, NEW e, NEW role, NEW token,
           Start(q, op, e, role, token),
           op \in {"accept", "reject"} => ~invitation[e].accepted
    PROVE  AnswersInv'
<1> DEFINE r == [pc |-> "valid", op |-> op, email |-> e, role |-> role, token |-> token]
<1>1. /\ request' = [request EXCEPT ![q] = r]
      /\ UNCHANGED <<open, member, invitation, joins>>
      /\ r # Idle
  BY DEF Start, tables, history, Idle
<1>2. AnswersAreFirst'
  <2>1. request'[q] = r /\ \A k \in Requests \ {q} : request'[k] = Idle
    BY <1>1, OthersIdle
  <2>2. \A k \in Requests : request'[k].pc = "valid" =>
           /\ request'[k].op = op
           /\ request'[k].email = e
    BY <2>1 DEF Idle
  <2> QED
    BY <1>1, <2>2 DEF AnswersAreFirst
<1> QED
  BY <1>1, <1>2, RowsKept DEF AnswersInv

\* The steps that change no row that an answer is about.
LEMMA QuietAlone ==
    ASSUME Inv, OneRequest, OneRequest', AnswersInv, NEW q \in Requests,
           \/ FindInvitee(q) \/ CreateShadowUser(q) \/ RefuseSecondInvitation(q)
           \/ Tell(q) \/ RequestFails(q)
    PROVE  AnswersInv'
<1>0. request \in [Requests -> RequestRecord]
  BY DEF Inv, TypeOK
<1>1. UNCHANGED <<open, member, invitation, joins>>
  BY DEF FindInvitee, CreateShadowUser, RefuseSecondInvitation, Fail, Tell,
         CreateInboxMessage, SendWorkspaceInvitation, RequestFails, tables, history
<1>2. request[q].pc # "idle"
  BY DEF FindInvitee, CreateShadowUser, RefuseSecondInvitation, Tell,
         CreateInboxMessage, SendWorkspaceInvitation, RequestFails
<1>3. PICK r : request' = [request EXCEPT ![q] = r] /\ r.pc # "valid"
  BY GoesOn
<1>4. AnswersAreFirst'
  BY <1>2, <1>3, NoAnswer
<1> QED
  BY <1>1, <1>4, RowsKept DEF AnswersInv

\* A new invitation is of nobody who has joined, and a new token changes nothing else.
LEMMA IssueAlone ==
    ASSUME Inv, OneRequest, OneRequest', AnswersInv, NEW q \in Requests,
           StoreInvitation(q) \/ UpdateToken(q)
    PROVE  AnswersInv'
<1> DEFINE e == request[q].email
<1>0. /\ request \in [Requests -> RequestRecord]
      /\ request[q].pc \in {"known", "valid"} /\ request[q].pc # "idle"
      /\ e \in Users
  BY RequestFacts DEF StoreInvitation, UpdateToken, Inv, TypeOK, RequestOK
<1>1. issued + 1 \in Tokens
  BY InvitationConstants DEF StoreInvitation, UpdateToken, Inv, TypeOK, Tokens
<1>2. AnswersAreFirst'
  <2> DEFINE r == [request[q] EXCEPT !.pc = "stored", !.token = issued + 1]
  <2>1. request' = [request EXCEPT ![q] = r]
    BY DEF StoreInvitation, UpdateToken
  <2>2. r.pc # "valid"
    BY <1>0 DEF RequestRecord
  <2> QED
    BY <1>0, <2>1, <2>2, NoAnswer
<1>3. CASE StoreInvitation(q)
  <2> DEFINE rec == NewInvitation(request[q].role)
  <2>1. request[q].role \in GrantedRoles
    BY <1>3, RequestFacts DEF StoreInvitation, RequestOK
  <2>2. rec \in InvitationRow
    BY <1>1, <2>1 DEF NewInvitation, InvitationRow
  <2>3. /\ invitation' = [invitation EXCEPT ![e] = rec]
        /\ UNCHANGED <<open, member, joins>> /\ open
        /\ invitation[e] = None
    BY <1>3 DEF StoreInvitation, history
  <2>4. e \notin Members \ {Owner}
    BY <1>0, <2>3 DEF Inv, MembersWereInvited
  <2>5. joins[e] # 1
    BY <1>0, <2>3 DEF AnswersInv, JoinersHaveAccepted
  <2> HIDE DEF rec
  <2> QED
    BY <1>0, <1>2, <2>2, <2>3, <2>4, <2>5, InvitationKept DEF AnswersInv
<1>4. CASE UpdateToken(q)
  <2> DEFINE rec == [invitation[e] EXCEPT !.token = issued + 1, !.expired = FALSE]
  <2>1. /\ invitation' = [invitation EXCEPT ![e] = rec]
        /\ UNCHANGED <<open, member, joins>>
        /\ invitation[e] # None
    BY <1>4 DEF UpdateToken, history
  <2>2. invitation[e] \in InvitationRow
    BY <1>0, <2>1 DEF Inv, TypeOK
  <2>3. /\ rec \in InvitationRow
        /\ rec.accepted = invitation[e].accepted
        /\ rec.status = invitation[e].status
    BY <1>1, <2>2 DEF InvitationRow
  <2>4. open
    BY <1>0, <2>1 DEF AnswersInv, JoinersHaveAccepted
  <2>5. /\ joins[e] = 1 => invitation[e].accepted
        /\ e \in Members \ {Owner} => invitation[e].status = "ACCEPTED"
    BY <1>0, <2>4 DEF AnswersInv, JoinersHaveAccepted, MembersHaveAccepted
  <2> HIDE DEF rec
  <2> QED
    BY <1>0, <1>2, <2>1, <2>3, <2>4, <2>5, InvitationKept DEF AnswersInv
<1> QED
  BY <1>3, <1>4

\* The invitation that is answered was not accepted before: accepting it is the first
\* time, and rejecting it takes nothing from a member.
LEMMA AnswerAlone ==
    ASSUME Inv, OneRequest, OneRequest', AnswersInv, NEW q \in Requests,
           AcceptInvitationAndCreateMember(q) \/ MarkAsRejected(q)
    PROVE  AnswersInv'
<1> DEFINE e == request[q].email
<1>0. /\ request[q].pc = "valid" /\ request[q].op \in {"accept", "reject"}
      /\ request' = [request EXCEPT ![q] = Idle]
      /\ invitation[e] # None
      /\ UNCHANGED open
      /\ e \in Users
  BY RequestFacts DEF AcceptInvitationAndCreateMember, MarkAsRejected, HasToken, Finish, RequestOK
<1>1. /\ ~invitation[e].accepted
      /\ invitation[e] \in InvitationRow
      /\ open
      /\ joins[e] # 1 /\ joins[e] <= 1 /\ joins[e] \in Nat
  BY <1>0 DEF AnswersInv, AnswersAreFirst, JoinersHaveAccepted, Inv, TypeOK
<1>2. AnswersAreFirst'
  BY <1>0, NoAnswer DEF Idle
<1>3. CASE AcceptInvitationAndCreateMember(q)
  <2> DEFINE rec == [invitation[e] EXCEPT !.accepted = TRUE, !.status = "ACCEPTED"]
  <2>1. /\ invitation' = [invitation EXCEPT ![e] = rec]
        /\ member' = [member EXCEPT ![e] = request[q].role]
        /\ joins' = [joins EXCEPT ![e] = joins[e] + 1]
    BY <1>3 DEF AcceptInvitationAndCreateMember
  <2>2. rec.accepted = TRUE /\ rec.status = "ACCEPTED" /\ rec \in InvitationRow
    BY <1>1 DEF InvitationRow
  <2> HIDE DEF rec
  <2>3. \A u \in Users :
           /\ invitation'[u] = IF u = e THEN rec ELSE invitation[u]
           /\ u # e => member'[u] = member[u]
           /\ joins'[u] = IF u = e THEN joins[u] + 1 ELSE joins[u]
    BY <2>1 DEF Inv, TypeOK
  <2>4. rec # None
    BY <2>2, RowsAreRows
  <2>5. JoinersHaveAccepted'
    BY <1>0, <1>1, <2>2, <2>3, <2>4 DEF AnswersInv, JoinersHaveAccepted
  <2>6. MembersHaveAccepted'
    BY <2>2, <2>3, <2>4 DEF AnswersInv, MembersHaveAccepted, Members
  <2> QED
    BY <1>2, <2>5, <2>6 DEF AnswersInv
<1>4. CASE MarkAsRejected(q)
  <2> DEFINE rec == [invitation[e] EXCEPT !.rejected = TRUE, !.status = "REJECTED"]
  <2>1. /\ invitation' = [invitation EXCEPT ![e] = rec]
        /\ UNCHANGED <<member, joins>>
    BY <1>4 DEF MarkAsRejected, history
  <2>2. rec \in InvitationRow
    BY <1>1 DEF InvitationRow
  <2>3. e \notin Members \ {Owner}
    BY <1>0, <1>1 DEF Inv, MembersWereInvited
  <2> HIDE DEF rec
  <2> QED
    BY <1>0, <1>1, <1>2, <2>1, <2>2, <2>3, InvitationKept DEF AnswersInv
<1> QED
  BY <1>3, <1>4

\* A role, a removal or the deletion of the workspace.
LEMMA ManageAlone ==
    ASSUME Inv, OneRequest, OneRequest', AnswersInv, NEW q \in Requests,
           UpdateRole(q) \/ Remove(q) \/ Delete(q)
    PROVE  AnswersInv'
<1>0. /\ request[q].pc = "valid"
      /\ request' = [request EXCEPT ![q] = Idle]
      /\ UNCHANGED joins
  BY DEF UpdateRole, Remove, Delete, Finish, history
<1>1. AnswersAreFirst'
  BY <1>0, NoAnswer DEF Idle
<1>2. CASE UpdateRole(q) \/ Remove(q)
  <2>1. \E e \in Members : \E role : member' = [member EXCEPT ![e] = role]
    BY <1>2 DEF UpdateRole, Remove
  <2>2. UNCHANGED <<open, invitation>>
    BY <1>2 DEF UpdateRole, Remove
  <2>3. PICK e \in Members : \A u \in Users : u # e => member'[u] = member[u]
    BY <2>1 DEF Inv, TypeOK, Members
  <2>4. open
    BY <2>1 DEF AnswersInv, JoinersHaveAccepted, Members
  <2>5. JoinersHaveAccepted'
    BY <1>0, <2>2, <2>4 DEF AnswersInv, JoinersHaveAccepted
  <2>6. MembersHaveAccepted'
    BY <2>1, <2>2, <2>3 DEF AnswersInv, MembersHaveAccepted, Members
  <2> QED
    BY <1>1, <2>5, <2>6 DEF AnswersInv
<1>3. CASE Delete(q)
  BY <1>0, <1>1, <1>3
  DEF Delete, AnswersInv, JoinersHaveAccepted, MembersHaveAccepted, Members
<1> QED
  BY <1>2, <1>3

\* What others do meanwhile does not answer an invitation.
LEMMA WorldAlone ==
    ASSUME Inv, AnswersInv,
           \/ \E u \in Users : Register(u) \/ Expire(u)
           \/ \E n \in Limits : PlanChanges(n)
    PROVE  AnswersInv'
<1>1. UNCHANGED <<open, member, joins, request>>
  BY DEF Register, Expire, PlanChanges, tables, history
<1>2. ASSUME NEW u \in Users
      PROVE  /\ (invitation'[u] = None) <=> (invitation[u] = None)
             /\ invitation[u] # None =>
                   /\ invitation'[u].accepted = invitation[u].accepted
                   /\ invitation'[u].status = invitation[u].status
  <2>1. CASE \E e \in Users : Expire(e)
    <3>1. PICK e \in Users : Expire(e)
      BY <2>1
    <3> DEFINE rec == [invitation[e] EXCEPT !.expired = TRUE]
    <3>2. /\ invitation' = [invitation EXCEPT ![e] = rec]
          /\ invitation \in [Users -> InvitationRow \union {None}]
          /\ invitation[e] # None
      BY <3>1 DEF Expire, Inv, TypeOK
    <3>3. /\ rec \in InvitationRow
          /\ rec.accepted = invitation[e].accepted
          /\ rec.status = invitation[e].status
      BY <3>2 DEF InvitationRow
    <3> HIDE DEF rec
    <3> QED
      BY <3>2, <3>3, RowsAreRows
  <2>2. CASE UNCHANGED invitation
    BY <2>2
  <2> QED
    BY <2>1, <2>2 DEF Register, PlanChanges, tables
<1>3. AnswersAreFirst'
  <2> SUFFICES ASSUME NEW q \in Requests, request'[q].pc = "valid",
                      request'[q].op \in {"accept", "reject"},
                      invitation'[request'[q].email] # None
               PROVE  ~invitation'[request'[q].email].accepted
    BY DEF AnswersAreFirst
  <2>1. request'[q].email \in Users
    BY <1>1, RequestFacts DEF RequestOK
  <2> QED
    BY <1>1, <1>2, <2>1 DEF AnswersInv, AnswersAreFirst
<1>4. JoinersHaveAccepted' /\ MembersHaveAccepted'
  BY <1>1, <1>2 DEF AnswersInv, JoinersHaveAccepted, MembersHaveAccepted, Members
<1> QED
  BY <1>3, <1>4 DEF AnswersInv

LEMMA AnswersStep ==
    ASSUME Inv, OneRequest, OneRequest', AnswersInv, Next
    PROVE  AnswersInv'
<1>1. ASSUME NEW q \in Requests, Invite(q)
      PROVE  AnswersInv'
  BY <1>1, StartAlone, QuietAlone, IssueAlone DEF Invite, ValidateInvite
<1>2. ASSUME NEW q \in Requests, Resend(q) \/ Tell(q) \/ RequestFails(q)
      PROVE  AnswersInv'
  BY <1>2, StartAlone, QuietAlone, IssueAlone DEF Resend, ValidateResend
<1>3. ASSUME NEW q \in Requests, Answer(q)
      PROVE  AnswersInv'
  BY <1>3, StartAlone, AnswerAlone DEF Answer, ValidateAccept, ValidateReject
<1>4. ASSUME NEW q \in Requests, Manage(q)
      PROVE  AnswersInv'
  BY <1>4, StartAlone, ManageAlone DEF Manage, ValidateUpdateRole, ValidateRemove, ValidateDelete
<1> QED
  BY <1>1, <1>2, <1>3, <1>4, WorldAlone DEF Next

\* The same of creations, renamings and deletions.
LEMMA OtherCreationsIdle ==
    ASSUME WorkspacesInv, OneRequest, OneRequest', NEW q \in Requests, NEW r,
           creation' = [creation EXCEPT ![q] = r],
           creation[q].pc # "idle" \/ r # W!Idle
    PROVE  /\ creation'[q] = r
           /\ \A k \in Requests \ {q} : creation'[k] = W!Idle
<1>1. creation \in [Requests -> W!RequestRecord]
  BY DEF WorkspacesInv, W!TypeOK
<1>2. creation'[q] = r /\ \A k \in Requests \ {q} : creation'[k] = creation[k]
  BY <1>1
<1>3. CASE creation[q].pc # "idle"
  BY <1>2, <1>3, IdleCreation DEF OneRequest
<1>4. CASE r # W!Idle
  BY <1>2, <1>4 DEF OneRequest
<1> QED
  BY <1>2, <1>3, <1>4

\* A request begins with the name the workspace has, or it knows of none.
LEMMA BeginsFresh ==
    ASSUME WorkspacesInv, OneRequest, OneRequest', SlugsInv, UNCHANGED workspace,
           NEW q \in Requests, NEW r,
           creation' = [creation EXCEPT ![q] = r],
           creation[q].pc # "idle" \/ r # W!Idle,
           r.pc # "idle" /\ r.op = "update" /\ W!Exists(r.id) => r.seen = workspace[r.id].name
    PROVE  SlugsInv'
<1>1. creation'[q] = r /\ \A k \in Requests \ {q} : creation'[k] = W!Idle
  BY OtherCreationsIdle
<1>2. NamesAreFresh'
  BY <1>1, IdleCreation DEF NamesAreFresh, W!Exists
<1>3. W!SlugFollowsName'
  BY DEF SlugsInv, W!SlugFollowsName, W!Exists
<1> QED
  BY <1>2, <1>3 DEF SlugsInv

\* A request ends: its row, if it wrote one, has a slug of its name.
LEMMA EndsFollowing ==
    ASSUME WorkspacesInv, OneRequest, OneRequest', SlugsInv,
           NEW q \in Requests, creation[q].pc # "idle",
           creation' = [creation EXCEPT ![q] = W!Idle],
           NEW i \in Ids, NEW rec,
           workspace' = [workspace EXCEPT ![i] = rec],
           rec \in {None, Gone} \/ IsSlugOf(rec.slug, rec.name)
    PROVE  SlugsInv'
<1>1. \A k \in Requests : creation'[k] = W!Idle
  BY OtherCreationsIdle
<1>2. NamesAreFresh'
  BY <1>1, IdleCreation DEF NamesAreFresh
<1>3. \A k \in Ids : workspace'[k] = IF k = i THEN rec ELSE workspace[k]
  BY DEF WorkspacesInv, W!TypeOK
<1>4. W!SlugFollowsName'
  BY <1>3 DEF SlugsInv, W!SlugFollowsName, W!Exists, IsSlugOf
<1> QED
  BY <1>2, <1>4 DEF SlugsInv

LEMMA SlugsStep ==
    ASSUME WorkspacesInv, OneRequest, OneRequest', SlugsInv, W!Next
    PROVE  SlugsInv'
<1>0. creation \in [Requests -> W!RequestRecord]
  BY DEF WorkspacesInv, W!TypeOK
<1>1. ASSUME NEW q \in Requests, NEW u \in Owners, NEW n \in Names, W!ValidateCreate(q, u, n)
      PROVE  SlugsInv'
  <2> DEFINE r == [pc |-> "valid", op |-> "create", user |-> u, id |-> None,
                   name |-> n, seen |-> None, slug |-> None]
  <2>1. creation' = [creation EXCEPT ![q] = r] /\ UNCHANGED workspace
    BY <1>1 DEF W!ValidateCreate
  <2>2. r # W!Idle /\ r.op = "create"
    BY DEF W!Idle
  <2> HIDE DEF r
  <2> QED
    BY <2>1, <2>2, BeginsFresh
<1>2. ASSUME NEW q \in Requests, NEW u \in Owners, NEW i \in Ids, NEW n \in Names,
             W!ValidateUpdate(q, u, i, n)
      PROVE  SlugsInv'
  <2> DEFINE r == [pc |-> "valid", op |-> "update", user |-> u, id |-> i,
                   name |-> n, seen |-> workspace[i].name, slug |-> None]
  <2>1. creation' = [creation EXCEPT ![q] = r] /\ UNCHANGED workspace
    BY <1>2 DEF W!ValidateUpdate
  <2>2. r # W!Idle /\ r.id = i /\ r.seen = workspace[i].name
    BY DEF W!Idle
  <2> HIDE DEF r
  <2> QED
    BY <2>1, <2>2, BeginsFresh
<1>3. ASSUME NEW q \in Requests, NEW u \in Owners, NEW i \in Ids, W!ValidateDelete(q, u, i)
      PROVE  SlugsInv'
  <2> DEFINE r == [pc |-> "ready", op |-> "delete", user |-> u, id |-> i,
                   name |-> None, seen |-> None, slug |-> None]
  <2>1. creation' = [creation EXCEPT ![q] = r] /\ UNCHANGED workspace
    BY <1>3 DEF W!ValidateDelete
  <2>2. r # W!Idle /\ r.op = "delete"
    BY DEF W!Idle
  <2> HIDE DEF r
  <2> QED
    BY <2>1, <2>2, BeginsFresh
<1>4. ASSUME NEW q \in Requests, W!ComputeSlug(q) \/ W!KeepSlug(q)
      PROVE  SlugsInv'
  <2>1. creation[q].pc = "valid" /\ UNCHANGED workspace
    BY <1>4 DEF W!ComputeSlug, W!KeepSlug
  <2>2. PICK slug : creation' = [creation EXCEPT ![q] =
                       [creation[q] EXCEPT !.pc = "ready", !.slug = slug]]
    <3>1. CASE W!ComputeSlug(q)
      <4>1. PICK slug : creation' = [creation EXCEPT ![q].pc = "ready", ![q].slug = slug]
        BY <3>1 DEF W!ComputeSlug
      <4> QED
        BY <1>0, <4>1
    <3>2. CASE W!KeepSlug(q)
      <4>1. creation' = [creation EXCEPT ![q].pc = "ready"]
        BY <3>2 DEF W!KeepSlug
      <4>2. [creation[q] EXCEPT !.pc = "ready"] =
               [creation[q] EXCEPT !.pc = "ready", !.slug = creation[q].slug]
        BY <1>0 DEF W!RequestRecord
      <4>3. creation' = [creation EXCEPT ![q] = [creation[q] EXCEPT !.pc = "ready"]]
        BY <1>0, <4>1
      <4> QED
        BY <4>2, <4>3
    <3> QED
      BY <1>4, <3>1, <3>2
  <2> DEFINE r == [creation[q] EXCEPT !.pc = "ready", !.slug = slug]
  <2>3. /\ r.op = creation[q].op /\ r.id = creation[q].id /\ r.seen = creation[q].seen
    BY <1>0 DEF W!RequestRecord
  <2>4. creation' = [creation EXCEPT ![q] = r]
    BY <2>2
  <2> HIDE DEF r
  <2>5. r.op = "update" /\ W!Exists(r.id) => r.seen = workspace[r.id].name
    BY <2>1, <2>3 DEF SlugsInv, NamesAreFresh
  <2> QED
    BY <2>1, <2>4, <2>5, BeginsFresh
<1>5. ASSUME NEW q \in Requests, W!RefuseSlug(q) \/ W!RequestFails(q)
      PROVE  SlugsInv'
  <2>1. /\ creation[q].pc # "idle" /\ UNCHANGED workspace
        /\ creation' = [creation EXCEPT ![q] = W!Idle]
    BY <1>5 DEF W!RefuseSlug, W!RequestFails
  <2> QED
    BY <2>1, IdleCreation, BeginsFresh
<1>6. ASSUME NEW q \in Requests, NEW i \in Ids, W!CreateWithOwnerMember(q, i)
      PROVE  SlugsInv'
  <2> DEFINE rec == [owner |-> creation[q].user, name |-> creation[q].name,
                     slug |-> creation[q].slug]
  <2>1. /\ creation[q].pc = "ready" /\ creation[q].op = "create"
        /\ creation' = [creation EXCEPT ![q] = W!Idle]
        /\ workspace' = [workspace EXCEPT ![i] = rec]
    BY <1>6 DEF W!CreateWithOwnerMember
  <2>2. IsSlugOf(rec.slug, rec.name)
    BY <2>1, CreationFacts, NoneIsNobody DEF CreationOK
  <2> HIDE DEF rec
  <2> QED
    BY <2>1, <2>2, EndsFollowing
<1>7. ASSUME NEW q \in Requests, W!UpdateRow(q)
      PROVE  SlugsInv'
  <2> DEFINE i == creation[q].id
             rec == W!Renamed(workspace[i], creation[q])
  <2>1. /\ creation[q].pc = "ready" /\ creation[q].op = "update"
        /\ creation' = [creation EXCEPT ![q] = W!Idle]
        /\ workspace' = [workspace EXCEPT ![i] = rec]
        /\ W!Exists(i)
    BY <1>7 DEF W!UpdateRow
  <2>2. i \in Ids /\ CreationOK(creation[q])
    BY <2>1, CreationFacts DEF CreationOK
  <2>3. workspace[i] \in W!WorkspaceRow
    BY <2>1, <2>2 DEF W!Exists, WorkspacesInv, W!TypeOK
  <2>4. /\ rec.name = creation[q].name
        /\ rec.slug = IF creation[q].slug = None THEN workspace[i].slug ELSE creation[q].slug
    BY <2>3 DEF W!Renamed, W!WorkspaceRow
  <2>5. CASE creation[q].slug = None
    <3>1. creation[q].name = creation[q].seen /\ creation[q].seen = workspace[i].name
      BY <2>1, <2>2, <2>5, CreationFacts DEF CreationOK, SlugsInv, NamesAreFresh
    <3>2. IsSlugOf(workspace[i].slug, workspace[i].name)
      BY <2>1, <2>2 DEF SlugsInv, W!SlugFollowsName, IsSlugOf
    <3>3. IsSlugOf(rec.slug, rec.name)
      BY <2>4, <2>5, <3>1, <3>2
    <3> HIDE DEF rec
    <3> QED
      BY <2>1, <2>2, <3>3, EndsFollowing
  <2>6. CASE creation[q].slug # None
    <3>1. IsSlugOf(rec.slug, rec.name)
      BY <2>1, <2>4, <2>6, CreationFacts DEF CreationOK
    <3> HIDE DEF rec
    <3> QED
      BY <2>1, <2>2, <3>1, EndsFollowing
  <2> QED
    BY <2>5, <2>6
<1>8. ASSUME NEW q \in Requests, W!DeleteRow(q)
      PROVE  SlugsInv'
  <2>1. /\ creation[q].pc = "ready" /\ creation[q].op = "delete"
        /\ creation' = [creation EXCEPT ![q] = W!Idle]
        /\ workspace' = [workspace EXCEPT ![creation[q].id] = Gone]
    BY <1>8 DEF W!DeleteRow
  <2>2. creation[q].id \in Ids
    BY <2>1, CreationFacts DEF CreationOK
  <2> QED
    BY <2>1, <2>2, EndsFollowing
<1>9. ASSUME NEW u \in Owners, NEW n \in MaxWorkspaces, W!PlanChanges(u, n)
      PROVE  SlugsInv'
  BY <1>9 DEF W!PlanChanges, SlugsInv, NamesAreFresh, W!SlugFollowsName, W!Exists
<1> QED
  BY <1>1, <1>2, <1>3, <1>4, <1>5, <1>6, <1>7, <1>8, <1>9
  DEF W!Next, W!Request, W!CreateWorkspace, W!UpdateWorkspace, W!DeleteWorkspace

-----------------------------------------------------------------------------
(* The specification                                                        *)

LEMMA TenancyInit == MCInit => TenancyInv
<1> SUFFICES ASSUME MCInit PROVE TenancyInv
  OBVIOUS
<1>1. Inv /\ WorkspacesInv
  BY InitInv, WorkspacesInit DEF MCInit
<1>2. OneRequest
  BY DEF MCInit, Init, W!Init, OneRequest
<1>3. AnswersInv
  BY DEF MCInit, Init, AnswersInv, AnswersAreFirst, JoinersHaveAccepted, MembersHaveAccepted,
         Members, Idle
<1>4. NamesAreFresh
  BY IdleCreation DEF MCInit, W!Init, NamesAreFresh
<1>5. W!SlugFollowsName
  <2>1. workspace \in [Ids -> {None} \union
             {[owner |-> u, name |-> n, slug |-> Base[n]] : u \in Owners, n \in Names}]
    BY DEF MCInit, W!Init
  <2>2. ASSUME NEW i \in Ids, W!Exists(i)
        PROVE  workspace[i].slug = Base[workspace[i].name]
    <3>1. workspace[i] \in
             {[owner |-> u, name |-> n, slug |-> Base[n]] : u \in Owners, n \in Names}
      BY <2>1, <2>2 DEF W!Exists
    <3>2. PICK u \in Owners, n \in Names :
             workspace[i] = [owner |-> u, name |-> n, slug |-> Base[n]]
      BY <3>1
    <3> QED
      BY <3>2
  <2> QED
    BY <2>2 DEF W!SlugFollowsName
<1> QED
  BY <1>1, <1>2, <1>3, <1>4, <1>5 DEF TenancyInv, SlugsInv

LEMMA TenancyStep == TenancyInv /\ [MCNext]_mcvars => TenancyInv'
<1> SUFFICES ASSUME TenancyInv, [MCNext]_mcvars PROVE TenancyInv'
  OBVIOUS
<1>1. [Next]_vars /\ [W!Next]_wvars /\ UNCHANGED alone
  BY DEF MCNext, InvitationsNext, WorkspacesNext, mcvars
<1>2. Inv' /\ WorkspacesInv'
  BY <1>1, InvStep, WorkspacesStep DEF TenancyInv
<1>3. ASSUME alone, InvitationsNext
      PROVE  OneRequest' /\ AnswersInv' /\ SlugsInv'
  <2>1. OneRequest /\ AnswersInv /\ SlugsInv
    BY <1>3 DEF TenancyInv
  <2>2. OneRequest'
    <3> DEFINE Busy == {q \in Requests : request'[q] # Idle}
    <3>1. IsFiniteSet(Busy) /\ Cardinality(Busy) <= 1
      BY <1>3, TenancyFacts, FS_Subset DEF InvitationsNext
    <3>2. \A p, q \in Busy : p = q
      <4> HIDE DEF Busy
      <4> QED
        BY <3>1, AtMostOne
    <3>3. UNCHANGED creation
      BY <1>3 DEF InvitationsNext, wvars
    <3> QED
      BY <2>1, <3>2, <3>3 DEF OneRequest
  <2>3. AnswersInv'
    BY <1>3, <2>1, <2>2, AnswersStep DEF InvitationsNext, TenancyInv
  <2>4. SlugsInv'
    BY <1>3, <2>1
    DEF InvitationsNext, wvars, SlugsInv, NamesAreFresh, W!SlugFollowsName, W!Exists
  <2> QED
    BY <2>2, <2>3, <2>4
<1>4. ASSUME alone, WorkspacesNext
      PROVE  OneRequest' /\ AnswersInv' /\ SlugsInv'
  <2>1. OneRequest /\ AnswersInv /\ SlugsInv
    BY <1>4 DEF TenancyInv
  <2>2. OneRequest'
    <3> DEFINE Busy == {q \in Requests : creation'[q] # W!Idle}
    <3>1. IsFiniteSet(Busy) /\ Cardinality(Busy) <= 1
      BY <1>4, TenancyFacts, FS_Subset DEF WorkspacesNext
    <3>2. \A p, q \in Busy : p = q
      <4> HIDE DEF Busy
      <4> QED
        BY <3>1, AtMostOne
    <3>3. UNCHANGED request
      BY <1>4 DEF WorkspacesNext, vars
    <3> QED
      BY <2>1, <3>2, <3>3 DEF OneRequest
  <2>3. SlugsInv'
    BY <1>4, <2>1, <2>2, SlugsStep DEF WorkspacesNext, TenancyInv
  <2>4. AnswersInv'
    <3>1. UNCHANGED <<open, member, invitation, joins, request>>
      BY <1>4 DEF WorkspacesNext, vars
    <3> QED
      BY <2>1, <3>1, RowsKept DEF AnswersInv, AnswersAreFirst
  <2> QED
    BY <2>2, <2>3, <2>4
<1>5. ASSUME alone, UNCHANGED mcvars
      PROVE  OneRequest' /\ AnswersInv' /\ SlugsInv'
  <2>1. UNCHANGED <<open, member, invitation, joins, request, workspace, creation>>
    BY <1>5 DEF mcvars, vars, wvars
  <2>2. OneRequest /\ AnswersInv /\ SlugsInv
    BY <1>5 DEF TenancyInv
  <2>3. OneRequest' /\ AnswersInv'
    BY <2>1, <2>2, RowsKept DEF OneRequest, AnswersInv, AnswersAreFirst
  <2>4. SlugsInv'
    BY <2>1, <2>2 DEF SlugsInv, NamesAreFresh, W!SlugFollowsName, W!Exists
  <2> QED
    BY <2>3, <2>4
<1> QED
  BY <1>1, <1>2, <1>3, <1>4, <1>5 DEF TenancyInv, MCNext

THEOREM TenancyInvariance == MCSpec => []TenancyInv
<1> QED
  BY TenancyInit, TenancyStep, PTL DEF MCSpec

\* Every row and request of both components has its type: in particular what
\* GenerateUniqueSlugFromMax makes is a slug, for any slugs that are there.
THEOREM TenancyTypes == MCSpec => []TypesOK
<1>1. TenancyInv => TypesOK
  BY DEF TenancyInv, Inv, WorkspacesInv, TypesOK
<1> QED
  BY <1>1, TenancyInvariance, PTL

\* However many requests overlap between the count and the insert, a user gets past
\* the largest maxWorkspaces he has had by one less than they are: not at all when
\* they come one at a time.
THEOREM OverrunsStayBounded == MCSpec => []OverrunIsBounded
<1>1. TenancyInv => OverrunIsBounded
  BY WorkspacesBound DEF TenancyInv, OverrunIsBounded
<1> QED
  BY <1>1, TenancyInvariance, PTL

\* Workspaces alone keeps its types and that bound.
THEOREM WorkspacesCorrect == W!Spec => [](W!TypeOK /\ W!OverrunIsBounded)
<1>1. WorkspacesInv /\ [W!Next]_(W!vars) => WorkspacesInv'
  BY WorkspacesStep DEF W!vars, wvars
<1>2. WorkspacesInv => W!TypeOK /\ W!OverrunIsBounded
  BY WorkspacesBound DEF WorkspacesInv
<1> QED
  BY <1>1, <1>2, WorkspacesInit, PTL DEF W!Spec

\* MCTenancy does with invitations what Invitations does.
LEMMA TenancyRefines == MCSpec => Spec
<1>1. MCInit => Init
  BY DEF MCInit
<1>2. [MCNext]_mcvars => [Next]_vars
  BY DEF MCNext, InvitationsNext, WorkspacesNext, mcvars
<1> QED
  BY <1>1, <1>2, PTL DEF MCSpec, Spec

\* An invitation is used up: it makes its address a member as often as requests
\* overlapped when it was first accepted, one at a time only once, and then no member
\* has rejected his, whatever resends, removals, expiries and failures come between.
THEOREM InvitationsAreUsedUp == MCSpec => []AnswersAreUsedUp
<1>1. TenancyInv /\ JoinsAreBounded(Cardinality(Requests)) => AnswersAreUsedUp
  <2> SUFFICES ASSUME TenancyInv, JoinsAreBounded(Cardinality(Requests)) PROVE AnswersAreUsedUp
    OBVIOUS
  <2>1. CASE alone
    <3>1. JoinsAreBounded(1)
      BY <2>1 DEF TenancyInv, AnswersInv, JoinersHaveAccepted, JoinsAreBounded
    <3>2. MembersDidNotReject
      BY <2>1 DEF TenancyInv, AnswersInv, MembersHaveAccepted, MembersDidNotReject
    <3> QED
      BY <2>1, <3>1, <3>2 DEF AnswersAreUsedUp
  <2>2. CASE ~alone
    BY <2>2 DEF AnswersAreUsedUp
  <2> QED
    BY <2>1, <2>2
<1> QED
  BY <1>1, TenancyInvariance, TenancyRefines, JoinsStayBounded, PTL

\* One request at a time: the slug of a workspace is that of its name, plain or
\* numbered, after any creations, renamings and failures.
THEOREM SlugsOneAtATime == MCSpec => []SlugFollowsNameAlone
<1>1. TenancyInv => SlugFollowsNameAlone
  BY DEF TenancyInv, SlugsInv, SlugFollowsNameAlone
<1> QED
  BY <1>1, TenancyInvariance, PTL

=============================================================================
