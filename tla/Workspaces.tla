----------------------------- MODULE Workspaces -----------------------------
(***************************************************************************)
(* Creating, renaming and deleting workspaces: WorkspacesService with its  *)
(* validator, the plan's maxWorkspaces, and the slug of a workspace, which *)
(* is unique among those of its owner.  (Members and invitations are in    *)
(* module Invitations.)                                                    *)
(*                                                                         *)
(* A request validates, then reads the largest slug number, then writes.   *)
(* The three are separate queries in no transaction.                       *)
(***************************************************************************)
EXTENDS Naturals, Sequences, FiniteSets

CONSTANTS
    Users,     \* owners
    Ids,       \* ids of table workspaces; an id is never used again
    Names,     \* workspace names
    Stems,     \* the words slugs are made of
    Base,      \* generateSlug: the slug of a name
    Limits,    \* the values of plans.maxWorkspaces
    MaxInt,    \* the largest INTEGER of the database
    Requests,  \* requests that can be in progress at once
    Gone,      \* a deleted row
    None

\* A slug is a sequence: "foo" is <<"foo">> and "foo-2" is <<"foo", 2>>, be it the
\* second "foo" or the slug of the name "Foo 2".
WorkspaceConstants ==
    /\ IsFiniteSet(Ids)
    /\ IsFiniteSet(Requests)
    /\ Requests # {}
    /\ Limits \subseteq Nat
    /\ MaxInt \in Nat
    /\ Base \in [Names -> Seq(Stems \union Nat) \ {<<>>}]
    /\ {None, Gone} \intersect (Users \union Ids \union Names) = {}

VARIABLES
    workspace,  \* table workspaces
    limit,      \* maxWorkspaces of each user's plan
    most,       \* history variable: the largest limit each user has had
    request     \* requests inside WorkspacesService

vars == <<workspace, limit, most, request>>

-----------------------------------------------------------------------------

Slugs == Seq(Stems \union Nat) \ {<<>>}

WorkspaceRow == [owner : Users, name : Names, slug : Slugs]

RowsAreRows == {None, Gone} \intersect WorkspaceRow = {} /\ None \notin Slugs

Exists(i) == workspace[i] \notin {None, Gone}
Owned(u)  == {i \in Ids : Exists(i) /\ workspace[i].owner = u}

Idle == [pc |-> "idle", op |-> None, user |-> None, id |-> None,
         name |-> None, seen |-> None, slug |-> None]

RequestRecord ==
    [pc : {"idle", "valid", "ready"}, op : {"create", "update", "delete", None},
     user : Users \union {None}, id : Ids \union {None},
     name : Names \union {None}, seen : Names \union {None}, slug : Slugs \union {None}]

TypeOK ==
    /\ workspace \in [Ids -> WorkspaceRow \union {None, Gone}]
    /\ limit \in [Users -> Limits]
    /\ most \in [Users -> Limits]
    /\ request \in [Requests -> RequestRecord]

Creations(u) == {q \in Requests : request[q].op = "create" /\ request[q].user = u}

\* The first workspace of a user is made with the account, named after the user.
Init ==
    /\ workspace \in [Ids -> {None} \union {[owner |-> u, name |-> n, slug |-> Base[n]] : u \in Users, n \in Names}]
    /\ \A i, j \in Ids : Exists(i) /\ Exists(j) /\ workspace[i].owner = workspace[j].owner => i = j
    /\ limit \in [Users -> Limits \ {0}]
    /\ most = limit
    /\ request = [q \in Requests |-> Idle]

-----------------------------------------------------------------------------
(* Slugs                                                                    *)

\* getMaxSlugNumber: the numbers n of the owner's slugs "base-n", and 0, which stands
\* for "base" itself and for no such slug.
SlugNumbers(u, base) ==
    LET slugs == {workspace[i].slug : i \in Owned(u)}
        numbered == {s \in slugs : s[Len(s)] \in Nat /\ s = Append(base, s[Len(s)])}
    IN  {0} \union {s[Len(s)] : s \in numbered}

\* CAST(... AS INTEGER) throws when the number is too large.
Readable(u, base) == \A n \in SlugNumbers(u, base) : n <= MaxInt

MaxSlugNumber(u, base) ==
    CHOOSE n \in SlugNumbers(u, base) : \A m \in SlugNumbers(u, base) : m <= n

GenerateUniqueSlugFromMax(base, max) == IF max = 0 THEN base ELSE Append(base, max + 1)

\* The unique key (ownerId, slug), for a row that is not i.
SlugFree(u, i, slug) == \A j \in Owned(u) \ {i} : workspace[j].slug # slug

-----------------------------------------------------------------------------
(* createWorkspace, updateWorkspace, deleteWorkspace                        *)

\* Mutation of ValidateCreate: the limit itself is let through.
ValidateCreateOneMore(q, u, n) ==
    /\ request[q].pc = "idle"
    /\ Cardinality(Owned(u)) <= limit[u]
    /\ request' = [request EXCEPT ![q] =
          [pc |-> "valid", op |-> "create", user |-> u, id |-> None,
           name |-> n, seen |-> None, slug |-> None]]
    /\ UNCHANGED <<workspace, limit, most>>

ValidateCreate(q, u, n) ==
    /\ request[q].pc = "idle"
    /\ Cardinality(Owned(u)) < limit[u]
    /\ request' = [request EXCEPT ![q] =
          [pc |-> "valid", op |-> "create", user |-> u, id |-> None,
           name |-> n, seen |-> None, slug |-> None]]
    /\ UNCHANGED <<workspace, limit, most>>

\* Only the owner renames a workspace; the request keeps the name it has now.
ValidateUpdate(q, u, i, n) ==
    /\ request[q].pc = "idle"
    /\ i \in Owned(u)
    /\ request' = [request EXCEPT ![q] =
          [pc |-> "valid", op |-> "update", user |-> u, id |-> i,
           name |-> n, seen |-> workspace[i].name, slug |-> None]]
    /\ UNCHANGED <<workspace, limit, most>>

ValidateDelete(q, u, i) ==
    /\ request[q].pc = "idle"
    /\ i \in Owned(u)
    /\ request' = [request EXCEPT ![q] =
          [pc |-> "ready", op |-> "delete", user |-> u, id |-> i,
           name |-> None, seen |-> None, slug |-> None]]
    /\ UNCHANGED <<workspace, limit, most>>

ComputeSlug(q) ==
    LET u    == request[q].user
        base == Base[request[q].name]
    IN  /\ request[q].pc = "valid"
        /\ request[q].name # request[q].seen
        /\ Readable(u, base)
        /\ request' = [request EXCEPT
              ![q].pc = "ready",
              ![q].slug = GenerateUniqueSlugFromMax(base, MaxSlugNumber(u, base))]
        /\ UNCHANGED <<workspace, limit, most>>

\* An update to the name the workspace had leaves the slug alone.
KeepSlug(q) ==
    /\ request[q].pc = "valid"
    /\ request[q].name = request[q].seen
    /\ request' = [request EXCEPT ![q].pc = "ready"]
    /\ UNCHANGED <<workspace, limit, most>>

CreateWithOwnerMember(q, i) ==
    /\ request[q].pc = "ready"
    /\ request[q].op = "create"
    /\ workspace[i] = None
    /\ SlugFree(request[q].user, i, request[q].slug)
    /\ workspace' = [workspace EXCEPT ![i] =
          [owner |-> request[q].user, name |-> request[q].name, slug |-> request[q].slug]]
    /\ request' = [request EXCEPT ![q] = Idle]
    /\ UNCHANGED <<limit, most>>

\* What update makes of row rec: the slug is written if it was computed.
\* Mutation of Renamed: the slug is left as it is.
RenamedKeepsSlug(rec, r) == [rec EXCEPT !.name = r.name]

Renamed(rec, r) ==
    [rec EXCEPT !.name = r.name, !.slug = IF r.slug = None THEN @ ELSE r.slug]

UpdateRow(q) ==
    LET i == request[q].id
        new == Renamed(workspace[i], request[q])
    IN  /\ request[q].pc = "ready"
        /\ request[q].op = "update"
        /\ Exists(i)
        /\ SlugFree(request[q].user, i, new.slug)
        /\ workspace' = [workspace EXCEPT ![i] = new]
        /\ request' = [request EXCEPT ![q] = Idle]
        /\ UNCHANGED <<limit, most>>

DeleteRow(q) ==
    LET i == request[q].id
    IN  /\ request[q].pc = "ready"
        /\ request[q].op = "delete"
        /\ Exists(i)
        /\ workspace' = [workspace EXCEPT ![i] = Gone]
        /\ request' = [request EXCEPT ![q] = Idle]
        /\ UNCHANGED <<limit, most>>

\* The row to be written has a slug that another row of the owner has.
RefuseSlug(q) ==
    /\ request[q].pc = "ready"
    /\ request[q].slug # None
    /\ ~SlugFree(request[q].user, request[q].id, request[q].slug)
    /\ request' = [request EXCEPT ![q] = Idle]
    /\ UNCHANGED <<workspace, limit, most>>

\* The row is gone, the number is no INTEGER, the database throws or the process
\* dies: nothing was written.
RequestFails(q) ==
    /\ request[q].pc # "idle"
    /\ request' = [request EXCEPT ![q] = Idle]
    /\ UNCHANGED <<workspace, limit, most>>

\* The user's subscription changes, or ends: findActiveByUserId finds another plan,
\* or none, which leaves the free one.
PlanChanges(u, n) ==
    /\ limit' = [limit EXCEPT ![u] = n]
    /\ most' = [most EXCEPT ![u] = IF n > @ THEN n ELSE @]
    /\ UNCHANGED <<workspace, request>>

-----------------------------------------------------------------------------

CreateWorkspace(q) ==
    \/ \E u \in Users, n \in Names : ValidateCreate(q, u, n)
    \/ ComputeSlug(q)
    \/ \E i \in Ids : CreateWithOwnerMember(q, i)

UpdateWorkspace(q) ==
    \/ \E u \in Users, i \in Ids, n \in Names : ValidateUpdate(q, u, i, n)
    \/ KeepSlug(q)
    \/ UpdateRow(q)

DeleteWorkspace(q) ==
    \/ \E u \in Users, i \in Ids : ValidateDelete(q, u, i)
    \/ DeleteRow(q)

\* ComputeSlug and RefuseSlug are steps of updateWorkspace too.
Request(q) ==
    \/ CreateWorkspace(q) \/ UpdateWorkspace(q) \/ DeleteWorkspace(q)
    \/ RefuseSlug(q) \/ RequestFails(q)

Next ==
    \/ \E q \in Requests : Request(q)
    \/ \E u \in Users, n \in Limits : PlanChanges(u, n)

Spec == Init /\ [][Next]_vars

-----------------------------------------------------------------------------
(* Properties                                                               *)

\* The count of workspaces is checked long before the insert.  However requests
\* overlap, a user never gets further past the largest maxWorkspaces of the plans
\* he has had than by the other requests that can be in progress; one request at a
\* time keeps to the limit.
OverrunIsBounded ==
    \A u \in Users : Cardinality(Owned(u)) + 1 <= most[u] + Cardinality(Requests)

\* What makes it inductive: the creations under way count too.
CreationsAreBounded ==
    \A u \in Users :
        Cardinality(Owned(u)) + Cardinality(Creations(u)) + 1 <= most[u] + Cardinality(Requests)

LimitsAreKnown == \A u \in Users : limit[u] <= most[u]

\* The slug of a workspace is that of its name, or numbered from it: the comment on
\* updateWorkspace, "slug regenerated if name changes".  One request at a time
\* keeps it so.
SlugFollowsName ==
    \A i \in Ids : Exists(i) =>
        LET base == Base[workspace[i].name]
            slug == workspace[i].slug
        IN  slug = base \/ slug = Append(base, slug[Len(slug)])

=============================================================================
