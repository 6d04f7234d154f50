# TLA+ models of the NestJS backend starter

This directory holds TLA+ specifications of the backend in `src/`, the TLC
configurations that check them on small instances and TLAPS proofs of the
properties that matter most. `PROJECT.json` ties each definition to the source
lines it models, each property to a mutation of the code that breaks it, and
each known hazard to the properties that watch it.

## The system

One NestJS application, run as one or more processes over one Postgres database
(Prisma, READ COMMITTED) and one Redis (Bull queues). A request goes Controller,
Service, Validator, Repository; the validator reads what it needs to accept or
refuse, and the service then writes. Between any two `await`s other requests,
queue processors, crons and other processes run. Paths below are relative to
`src/src/`.

| Component | State | Operations | Interacts with |
|---|---|---|---|
| Stripe checkout pipeline (`apis/subscriptions`, `apis/webhooks/stripe`, `queues/processors/stripe-checkout.processor.ts`) | `stripe_checkout_sessions`, `subscriptions`, `subscription_history`, queue STRIPE_CHECKOUT | start a checkout; receive `checkout.session.completed`; process a job | Stripe, Bull, the three crons |
| Crons (`crons/processes`) | three "is running" flags of the queue clean-up | reconcile stale sessions (6 h), expire old ones (daily), fail stuck jobs (6 h), clean queues (1 h), watch Redis (10 min), delete expired login sessions and links (1 h) | sessions table, all queues |
| Stripe subscription webhooks (`apis/webhooks/stripe/handlers`) | `webhook_event_logs`, `subscriptions` | created, updated, deleted, payment failed, payment succeeded | Stripe, which redelivers until 2xx |
| Subscriptions API | as above | change plan, cancel, portal, reads | Stripe, webhooks |
| Workspaces (`apis/workspaces`) | `workspaces`, `workspace_members`, `workspace_invitations` | create, invite, resend, accept, reject, cancel, change role, remove, delete | plan of the owner's subscription, email, inbox |
| Auth (`apis/auth`) | users, sessions, verification requests, OAuth accounts | register, login, OAuth, refresh, logout, reset, verify email | registration creates user, workspace and free subscription in one transaction |
| MFA (`apis/auth`) | `totp*` of the user, challenge sessions, backup codes | set up, verify, challenge, consume a code, regenerate, disable | login |
| Push and devices | `devices`, `notifications`, queue PUSH | register, unregister, send, mark token invalid | FCM |
| Email, WhatsApp | queues EMAIL, WHATSAPP | queue, send, retry | providers |
| Brevo and WhatsApp webhooks | `webhook_event_logs` | log a status event, a batch of them | providers |
| Plans, profile, inbox, notification reads, middlewares, i18n, crypto helpers | tables they read | single-row reads and writes, stateless code | |

What is hard, and the properties that make each component correct:

- **Checkout.** The same session can be queued by the webhook and by
  reconciliation, retried by Bull, taken over when it stalls, failed by a cron
  while it runs and expired by another. Correct means: the right user gets the
  right plan, once; COMPLETED means granted; nobody stays PENDING; no job runs
  forever.
- **Subscription webhooks.** Events are duplicated, delayed, reordered and
  delivered twice at once, a request can fail between its log entry and its
  write, and a checkout can give the row to another subscription meanwhile.
  Correct means: one event is handled at most once, an acknowledged event is in
  the log, and the row says nothing Stripe did not say.
- **Workspaces.** Limits are checked before and outside the insert; a slug is
  computed from what was read before; an invitation can be accepted and rejected at
  once, resent or deleted while it is accepted, and its row stays when it was.
  Correct means: one owner; who joins was invited, by the link that counts; an
  invitation that is used up; a link that reaches the invitee; and a bound on how far
  concurrent requests exceed the limits.
- **Auth and MFA.** A user, token or code is read, then used, then deleted in
  separate calls. Correct means: a user is onboarded once, rotation and one-time
  use, logins that end for good, and a secret that is the one its owner confirmed.
- **Push.** A token is judged invalid by a job that read the device before the
  send, and a push that was sent can end as an error. Correct means: only refused
  tokens are given up, and a bounded number of sends.
- **Email and WhatsApp.** A call may never return; a refusal may be for good.
  Correct means: every message is done with, and a refusal is final.
- **Delivery webhooks.** Statuses are looked up and then stored one by one, in no
  transaction, and the sender repeats. Correct means: what was answered is stored,
  and everything is answered in the end.
- **Queue clean-up.** Two timers start the same work behind flags. Correct means:
  one clean-up at a time, no flag left set, memory that is reclaimed.

## Modules

| Module | What it is |
|---|---|
| `StripeCheckout` | the path of a paid plan, from "start checkout" to the subscription row |
| `CheckoutLedger` | what that path promises, without queue, crons or processes |
| `MCStripeCheckout` + `MCCheckout*.cfg` | small instances of it |
| `StripeCheckout_proofs` | its invariants, what holds while one process runs, and that it implements `CheckoutLedger`, proved |
| `SubscriptionSync` | how a row follows its Stripe subscription: webhooks and cancellation |
| `MCSubscriptionSync` + `MCSync*.cfg` | small instances of it |
| `SubscriptionSync_proofs` | its invariants and its action property, proved |
| `Workspaces` | creating, renaming and deleting workspaces: limits and slugs |
| `Invitations` | the members of a workspace and its invitations |
| `MCTenancy` + `MCTenancy.cfg`, `MCInvitationKept.cfg` | small instances of the two |
| `Accounts` | how a user gets an account: registration, OAuth, links, passwords |
| `Sessions` | logins and refresh tokens |
| `Mfa` | two-factor authentication |
| `MCAuth` + `.cfg` | small instances of the three |
| `PushDelivery`, `MCPush` + `.cfg` | devices and the push queue |
| `MessageQueue` | the email and the WhatsApp queue |
| `DeliveryEvents` | the Brevo and the WhatsApp webhook |
| `QueueCleanup` | the queue clean-up cron and its flags |
| `MCMessages` + `.cfg` | small instances of the three |
| `Invitations_proofs`, `Accounts_proofs`, `PushDelivery_proofs` | proofs about these modules |
| `Tenancy_proofs` | proofs about `Workspaces`, and about the two of `MCTenancy` with one request at a time; extends `Invitations_proofs` |
| `Auth_proofs` | proofs about `Sessions` and `Mfa`, and about the three of `MCAuth` with one request at a time; extends `Accounts_proofs` |
| `Messages_proofs` | proofs about `MessageQueue`, `DeliveryEvents` and `QueueCleanup` |

`StripeCheckout` sees the webhooks and cancellations as `StatusSync` (any status
for a row that has a Stripe subscription). `SubscriptionSync` sees the checkout
as `Checkout` (a row is linked to a subscription and set ACTIVE), which is what
`CommitUpdate` and `CommitCreate` do to link, status and flag. Each is thus the
other's environment, at the detail the other needs. In the same way `Workspaces`
and `Invitations` see the plan as a limit that changes at any time
(`PlanChanges`), `Invitations` sees registration as `Register`, `Accounts` sees an
invitation as `CreateShadowUser`, `Sessions` sees passwords and challenges as
`ValidateLogin`, and `MessageQueue` sees whoever sends as `QueueMessage`.

In the modules of the API a request is a record with a program counter: one step
validates (all that the validator reads counts as one read), each write is a step
of its own, with the guards and unique keys the database applies to it, and
`RequestFails` ends the request anywhere in between. What validation read and a
later write still goes by is kept in the request; what the write asks for again is
a guard of the write.

### StripeCheckout

One awaited database, Redis or Stripe call is one step. The state: the session
at Stripe (`stripe`), its row (`sess`, `age`), the webhook delivery (`hook`), the
reconciliation pass (`todo`), the queue (`job`), the processes running the
processor (`worker`), the rows (`row`), their history (`hist`) and a count of
committed transactions of each session (`applied`, a history variable).

- `CreateStripeSession`, `CreateSessionRow`: `createCheckoutSession`, split where
  a crash leaves a Stripe session without a row. `CompleteCheckout` is the
  customer. Stripe closes a session after 24 hours, so none finishes once its row
  is `Old` (48 hours).
- `WebhookQueued`, `WebhookLost`: `handleWebhook`. It logs the event and then
  queues the job; if the second call fails, the log's unique key refuses every
  redelivery, so the job is lost. A request that fails earlier changes nothing.
- `ReconcileStart`, `ReconcileQueue`, `ReconcileSkip`: one pass reads the stale
  sessions, then asks Stripe and queues one by one.
- `ExpireOldSessions`: the `updateMany` of the daily cron.
- `SkipJob`, `LoadJob`, `RejectSession`, `BeginTx`, `CommitUpdate`,
  `CommitCreate`, `AttemptFails`: `handleCheckoutSession`. It reads the session;
  inside the transaction it reads the subscription row (by Stripe id, else any
  live row of the user); it commits. Between these, everything else can run, and
  the commits use what was read. `stripeSubscriptionId` is unique, so a commit
  that would break that fails (`AttemptFails`).
- `StallJob`, `FailStuckActiveJob`, `CleanActiveJob`, `Crash`: Bull and
  `QueueCleanupCron` around it. A process whose lock is gone finishes its work,
  but its result no longer counts (`Report`).

Left out: billing interval and period bounds; error messages; the branches for a
missing plan or customer id, which end like `RejectSession`. A crash after the
commit but before Bull hears of it shows as a stall before the commit, after
which `SkipJob` ends the job.

### SubscriptionSync

Stripe's subscriptions (`stripe`) and its stream of events (`event`, an event's
id is its index), what it was answered (`acked`, `refused`), the log (`log`), the
requests inside `handleWebhook` (`request`), the cancellation of each row's user
(`cancel`), and the rows with every subscription they have had (`row`,
`carried`). `flagged`, `handled`, `refused` and `carried` are history variables.

A request is split at its awaits: `Receive` (the validator and its duplicate
check), `LogEvent` or `RefuseEvent` (the insert and its unique key), `FindRow` or
`DropEvent`, `WriteRow`; it can fail before each (`RequestFails`). The duplicate
check looks for a log row whose reference is the event's id, the log stores the
subscription's: `SyncConstants` states that these ids never coincide. `Handle`
is the switch over the five handlers. A status that the enum lacks stands for
`incomplete`, `incomplete_expired` and `paused`; TRIALING and UNPAID go the way
of ACTIVE and PAST_DUE and are not told apart. `cancelSubscription` is validate,
tell Stripe, write the row, each of which can be the last.

### Workspaces

The rows (`workspace`), `maxWorkspaces` of each user's plan (`limit`) and the
requests; `most` is a history variable. `ValidateCreate` compares the count with
the limit, `ComputeSlug` reads the owner's largest slug number (`SlugNumbers`, the
regular expression and the CAST of `workspace.repository.ts`, and
`GenerateUniqueSlugFromMax` of `utils/slug.util.ts`), `CreateWithOwnerMember` is
the transaction with its unique key. `ValidateUpdate` keeps the name it read;
`KeepSlug` or `ComputeSlug`, then `UpdateRow`. `RefuseSlug` is the unique key.
A slug is a sequence, `<<"foo", 2>>` for `foo-2`, so that a name such as "Foo 2"
can collide with a numbered slug. Left out: the image, names whose slug is empty,
members (see below).

### Invitations

The owner, others who are or become users (`account`), the members, one invitation
for each address (the table's unique key), the tokens in the inbox and in emails,
`maxSeats`, and whether the workspace exists (`open`). `ValidateInvite`,
`FindInvitee`, `CreateShadowUser`, `StoreInvitation` or `RefuseSecondInvitation`,
`CreateInboxMessage`, `SendWorkspaceInvitation` are `inviteMember`;
`ValidateResend` and `UpdateToken` lead into the same last two.
`AcceptInvitationAndCreateMember` (a transaction) and `MarkAsRejected` write by
token and ask nothing else. `ValidateUpdateRole`/`UpdateRole`,
`ValidateRemove`/`Remove`, `ValidateDelete`/`Delete` (which cascades) are the rest.
`Expire`, `Register` and `PlanChanges` are the world. A user and his address are
one, and an address has one spelling; `MEMBER` stands for READ_ONLY as well.

Only `Delete` takes an invitation away: `AcceptInvitationAndCreateMember` sets
`acceptedAt` and the status and leaves the row, although the comment on
`acceptInvitation` says that it "deletes invitation" (run `invitation_kept`). What
follows is in the model: the look-up of `ValidateInvite` (`Pending`) does not see an
accepted row and the unique key does, so that a former member cannot be invited again
(`RefuseSecondInvitation`). No property that should hold relies on the row to stay:
`NewMembersAreInvited` looks at the invitation as it is when someone joins, and
`JoinsAreBounded` counts in a history variable (`joins`).

### Accounts

Users with their status, verification date, password and OAuth link (`account`),
how often registration gave them a workspace and a subscription (`onboarded`), the
verification requests (`row`) and the tokens mailed. `ValidateRegister`, then
`CreateUser` or `ActivateShadowUser` as validation found the user;
`FindOAuthAccount`, then `LinkOAuthAccount` or `CreateOAuthUser` (the two look-ups
of the callback are one read); `ValidateResendVerification` or
`ValidateResetPasswordRequest`, then `DeleteByUserIdAndType`,
`CreateVerificationRequest`, `SendToken`; `VerifyUser` or `SetPassword`, then
`DeleteByToken`; `UpdatePassword`; the cron is `DeleteExpired`.

### Sessions

The rows, the clock in seconds, the requests, and the logins whose token was given
to logout (`ended`, a history variable). A refresh token is a JWT of the user's
data and the second of its signing, so the token *is* the second: two of one second
are equal, and `RowsWith(t)` may hold several rows. `MayRefresh`,
`ValidateRefreshToken`, `DeleteSessions`, `CreateSession` are `refreshToken`;
`ValidateLogin` and `CreateSession` are the end of every way to log in; `Logout`,
`SessionExpires`, `DeleteExpiredSessions`.

### Mfa

`totpSecret`, `totpEnabled`, the backup codes in the batches they were generated in,
the challenges and the requests of one user, who shares nothing with others.
`verifyMfa` is `ValidateVerify`, `CreateCodes`, `Enable` (which writes the flag,
whatever the secret is by now); `regenerateBackupCodes` is `ValidateRegenerate`,
`DeleteCodes`, `CreateCodes`; `disableMfa` is `Disable`, then `DeleteCodes`; a
backup code is validated (`Usable`), marked by id (`MarkAsUsed`), its challenge
marked verified and the session created. A TOTP code is valid or not; a challenge
whose ten minutes passed is `over`, a verified one is still `Open`.

### PushDelivery

The rows of `devices` (an id is never used again), tokens FCM no longer knows, the
jobs with their processor's place, the registrations. `ValidateRegister`, then
`CreateDevice` or `UpdateByToken`, as validation found the token; `Unregister`;
`QueuePush` for an enabled device. A job does `FindDevice`; `Accepted`,
`ReportedInvalid` or `SendFails`; then writes `RecordSuccess`, `MarkTokenInvalid`
or `RecordFailure`, each of which can throw: inside the `try`, so that a push that
was sent is then handled as an error (`RecordSuccessThrows`). `AfterAttempt` is
Bull's retry, `CrashAndStall` a process that dies. A process that merely loses its
lock is taken to have stopped: `StripeCheckout` models the overlap.

### MessageQueue

One queue (email, or WhatsApp) with its jobs and the processes that run one job at
a time. `Take`, then `Sent`, `RefusedForGood` (WhatsApp's `nonRetryableCodes`; the
email processor has none), `SendFails` or `Hang`; `HandlerReturns` or
`HandlerThrows` reports, which counts only while the lock is held (`Report`).
`StallJob`, `Crash`, `FailStuckActiveJob` and `CleanActiveJob` are Bull and
`QueueCleanupCron`. The Brevo client times out after 20 seconds, the WhatsApp client
never does: `MayHang` are the processes whose calls may not return, and it is empty
for email.

### DeliveryEvents

`log` with its unique key, the payloads whose sender was answered, and the
deliveries under way. `Receive`; `Extract` looks up one status after the other,
`Extracted`; `Store` stores one after the other, or `Refuse` meets the key and ends
the request; `Answer`. The look-up (`Duplicate`) asks for the message id and the key
is of the reference (`Key`), as in the code: the two agree for a message without a
tracking id, which is every message so far. Brevo's payload holds one event.

### QueueCleanup

The flags, the calls of `handleHourlyCleanup` and `handleMonitoring`, how full
Redis is and whether there are old jobs. `HandleHourlyCleanup` and
`HandleMonitoring` read and set their flag at once; `ReadMemory`, `CleanAllQueues`;
`ReadStats`, `TriggerCleanup` (which goes into the clean-up unless one is running),
`EndMonitoring`; `Finally` is the two `finally` blocks.

## Runs

| Run | Instance | Checks |
|---|---|---|
| `checkout_overlap` | 2 sessions, 1 user, 2 jobs, 2 processes, 2 rows | `TypeOK`, `LinkedRowsAreBought`, `CompletedIffApplied`, `BuyersKeepASubscription`, `ImplementsLedger` |
| `checkout_serial` | the same with 1 process | `AppliedAtMostOnce`, `ReplacedPlanIsRecorded` |
| `checkout_live` | 1 session, 2 jobs, 2 processes, fair | `PendingEnds`, `JobsEnd` |
| `checkout_twice` | 1 session, 2 processes | violates `AppliedAtMostOnce` |
| `checkout_expired` | 1 session, 1 process | violates `ExpiredWasNotFinished` |
| `sync` | 2 subscriptions on 1 row, 3 events, 2 requests (`FewAtOnce`) | `TypeOK`, `HandledAtMostOnce`, `AckedIsLogged`, `CancelFlagCameFromStripe`, `CanceledIsLeftOnlyLate` |
| `sync_refused` | 1 subscription, 3 events, 2 requests | violates `OnlyDuplicatesAreRefused` |
| `tenancy` | owner and invitee, 2 limits, 3 tokens, 2 requests; 1 owner, 3 workspaces, 2 names, 2 limits, 2 requests | `TypesOK`, `OneOwner`, `NewMembersAreInvited`, `CurrentTokenIsOnItsWay`, `AnswersAreUsedUp`, `OverrunIsBounded`, `SlugFollowsNameAlone` |
| `invitation_kept` | the same | violates `AcceptanceDeletesInvitation` |
| `auth` | 1 user, 2 requests; 1 password, 3 links; 3 session rows, 2 seconds; 2 secrets, 2 backup codes, 1 challenge | `TypesOK`, `OnboardedOnce`, `ActiveIsVerified`, `LinksAreBounded`, `ResetsOnceAlone`, `LoginsAlone`, `DeadLoginsStayDead`, `CodeReuseIsBounded`, `MfaAlone` |
| `push` | 2 users, 1 token, 2 device rows, 2 jobs, 1 registration | `TypeOK`, `SendsAreBounded`, `InvalidTokensWereReported` |
| `messages` | 2 messages, 2 processes; 2 payloads, 2 requests; 3 clean-up calls; fair | `TypesOK`, `RefusalsAreFinal`, `AnsweredIsStored`, `OneCleanupAtATime`, `MessagesEnd`, `EveryPayloadIsAnswered`, `MemoryIsReclaimed` |

`MCTenancy`, `MCAuth` and `MCMessages` hold several components that share no
state. `part` says which of them a behaviour is of; the others stay at their
initial state, so a run explores the sum of the components and not their product.
In the first two, `alone` says whether a behaviour serves one request at a time:
properties whose names end in `Alone` are those that a sequential client relies on
and that overlapping requests break, the others hold for any overlap.
`AnswersAreUsedUp` says both: a bound for any overlap, and more for one at a time.

**Bounds.** Two jobs are the webhook's and the reconciliation's, two processes
are what it takes for one to act on what the other changed, two sessions of one
user compete for a row, two rows let a second one be created. `MaxAttempts` is 2
or 3 in place of the code's 3 and `MaxStalls` 0 to 2 in place of 2: a retry and a
stall each lead back to `waiting`, and with two processes an overlap needs no
stall. Three events hold an update, a deletion and a late event; two requests
serve the same or different ones at once. `FewAtOnce` keeps `sync` small: two
requests overlap while Stripe knows one of the subscriptions, and once it knows both,
with the takeover of the row and the cancellations, one request at a time is served
whose look-up and write they come between. `Symmetry` permutes jobs, processes and
rows (requests and subscriptions), which no definition tells apart, never in a
liveness run. `View` leaves out `hist` and `refused`, which are written and never
read; step properties that mention them are checked on the steps themselves.
`CHECK_DEADLOCK FALSE`: with every session and job used up, the system stops.

In `tenancy`, `auth`, `push` and `messages` two requests give the overlap that each
race needs: what one validated, the other changes. Two limits let a plan get
smaller or larger; with `maxSeats` 3 the invitee's seat is the last one and with 4
there is room, the owner being counted twice. Three tokens are an invitation and
two overlapping resends, or a registration's link, a renewed one and a reset's.
Three workspaces are two that share a base slug and a third that meets the number;
the names `plain` and `two` are "Foo" and "Foo 2"; `MaxInt` is what the database
casts to. Three session rows are a login, its refresh and a second login, and two
seconds let tokens be equal or differ. Two secrets and two batches of one code are a
set-up and its repetition, with one challenge that may be used twice. Two device
rows for one token are a device that changes its owner. In `messages` `MaxAttempts`
is 2 for the code's 3 and `MaxStalls` 1 for its 2; the two payloads share a status,
three calls are a clean-up, a monitoring and one that finds a flag set, and the
database or Redis fails twice at most. `View` leaves out history variables no
action reads, and only where no checked property depends on them.

**Fairness** (`checkout_live`). `FairSpec` assumes that Bull's stalled check reaches
a job whose process died, and that some process takes a step while one can (a
crashed process comes back). Nothing is assumed of customers, Stripe, the webhook,
the reconciliation or the success of a job. `JobsEnd` holds under that alone,
because attempts and stalls are counted. `PendingEnds` has the clock and the daily
cron as its premise (`CronFairness`) and holds because of the expiry cron.

**Fairness** (`messages`). In `MessageQueue` an idle process takes a waiting job, a
call returns or hangs, a handler goes on; Bull's stalled check reaches a job without
a process, and the six-hourly cron a job whose call hangs. A hung call need never
return, and `MessagesEnd` needs a process whose calls do return: `MayHang` is one of
the two. In `DeliveryEvents` the event loop serves each request (weak fairness of
`Handle`), and the sender repeats what was not answered with success however often
the service was busy (strong fairness of `ReceiveAgain`): Meta and Brevo redeliver.
`MaxFailures` says that the database does not fail for ever. In `QueueCleanup` the
timers fire again and Redis answers each call. Each is assumed only of its part:
for the others it asks nothing, since they take no step.

**What the passing runs show.** Whatever overlaps, a Stripe subscription ends up
on a row of the user who paid, with the plan that was bought, on one row only,
and a COMPLETED session was really applied. With one process (a single node of
the application; Bull runs one job of a queue at a time there) a session is
applied once, and no plan is missing from the history. Webhooks never handle an
event twice and never acknowledge one they did not log; a row is marked "cancels
at period end" only if Stripe was, and leaves CANCELED only through the events
`CanceledIsLeftOnlyLate` lists.

A workspace keeps its one owner. Whatever overlaps, who becomes a member joins by the
token that his invitation has at that moment and that was sent to him, with the role
it offers; an invitation lets someone in at most as often as requests overlap, and two
of them really do let a member who was removed in again; the newest link of an
invitation is sent or its request failed. Requests at once exceed a plan's workspaces by one less than they are. A
user is onboarded once, because of two unique keys and not of the validator; status
and verification date agree; a login that lost its last session stays lost. A
backup code grants at most as many logins as overlapped, and one when requests come
one at a time. A push is sent no more often than attempts and stalls together
allow, and only tokens FCM refused are given up. A message always ends although
calls hang, a refusal for good is final unless the process was disturbed, an
answered webhook is stored, and the clean-up runs alone and reclaims memory.

What holds only with one request at a time, so that overlapping requests really
break it: an invitation lets someone in once, and a member's is not REJECTED
(`AnswersAreUsedUp`, where `alone` holds); a slug follows the name (`SlugFollowsNameAlone`); a login has one
session and ends with logout (`LoginsAlone`); a reset link sets one password unless
its request failed (`ResetsOnceAlone`); the secret that is on was confirmed and the
former backup codes are invalid (`MfaAlone`; for the codes the overlap that breaks it
needs a third batch).

**What the violations show.**
- `checkout_twice`: with two processes the status check at the top of the
  processor is not enough. Both jobs read PENDING; the second commit rewrites the
  row and adds a history entry that no plan change stands behind.
- `checkout_expired`: a paid session can expire, after which its jobs are skipped.
- `sync_refused`: the duplicate check never finds anything, and the unique key
  refuses the second event of a type for a subscription as if it were a
  duplicate. `HandledAtMostOnce` holds because of the same key.
- `invitation_kept`: acceptance keeps the invitation that its comment says it
  deletes. Invite, accept, remove: whoever invites that person again gets an error,
  for good.

## Proofs

All for every value of the constants, from the named assumptions only, which TLC
evaluates on the instances: `CheckoutConstants` (owner and plan of each session, at
least one attempt, `None` is nobody's id), `SyncConstants`, `InvitationConstants`,
`AccountConstants`, `PushConstants`, `QueueConstants` and, of the components that an
MC module instantiates, `TenancyConstants`, `AuthConstants` and `MessageConstants`.
They say that a set is finite where the code's tables and requests are, that a bound
is a number, that `None` is no row, id or word of an enum (`NoneIsNoRow`,
`RowsAreRows`, `CallsAreCalls`), that the slug of a name is a sequence of at least one
word or number, and, in `DeliveryConstants`, that a tracking id is not the id of
another message. `Stems`, `Base`, `Statuses` and `Ref` are constants of the MC modules,
so that the theorems are about any names and payloads and not about those of the
runs.

The theorems of `Tenancy_proofs`, `Auth_proofs` and `Messages_proofs` are about `MCSpec`,
the specification that the runs check, as its `alone` is part of what they say. A
behaviour of it is of one component: `WorkspacesCorrect`, `SessionsCorrect`,
`MfaCorrect`, `EventsCorrect` and `CleanupCorrect` state the main results of each
component's own `Spec`.

- **StripeCheckout** (`Invariance`). The three safety invariants are not
  inductive alone: a process commits what it read earlier. `Inv` adds
  `JobsAreFinished` (only finished sessions are queued, so what the processor
  rejects stays rejected), `ReadsStayTrue` (of what a process read it keeps only
  what nobody can change: its session's owner and plan, and the user of the row it
  settled on, but neither the row's plan nor the session's status),
  `StatusAgreesWithStripe` and `ExpiredAreOld`. One lemma for each conjunct goes
  through the actions that can disturb it. From `Inv` follow `TypeCorrect`,
  `LinksAreBought`, `CompletedMeansApplied` and `BuyersAreServed`.
- **Refinement** (`LedgerRefinement`). Under `Inv`, each step maps to one step of
  `CheckoutLedger` or to a stutter. Both commits are `Grant`: `UniqueLink` makes
  it the only row of its session, and the row's user is the session's. The ledger
  allows `Grant` for an EXPIRED or COMPLETED session, since the code does.
- **One process** (`AppliedOnceByOneProcess`, `HistoryByOneProcess`). Both are theorems
  with the assumption `OneProcess`, stated in the theorem and not of the constants: run
  `checkout_twice` shows that two processes break them. `ReadsAreFresh` is what makes
  them inductive: the session a process read as PENDING was not applied since, and the
  row it is about to write has the plan it read.
- **SubscriptionSync** (`Invariance`). `Inv` adds `LogIsOfEvents` and
  `RequestsOwnTheirEvent` (past the log, a request is the only one for its event,
  and the event is not handled yet), `HandledIsLogged`, `LinksAreCarried`,
  `FlagsAreStripes` and `DeletionIsFinal`. From it follow `TypeCorrect`,
  `EventsAreHandledOnce`, `AcknowledgedIsLogged`, `CancelFlagIsStripes` and, for
  steps, `CanceledStaysCanceled`.
- **Invitations** (`Invariance`). `Inv` is `TypeOK`, `OneOwner`, that members have a
  user and an invitation (`MembersWereInvited`, a step of the proof and not a promise
  of the code), that tokens are on their way (`LinkIsOnItsWay`), and `RequestsOK`: a
  role change or removal under way is not of the owner, a role under way is not OWNER,
  the user of an invitation under way exists. From it `TypeCorrect`, `OwnerStays`,
  `LiveTokensAreSent`.
- **Joining** (`MembersAreInvited`, for steps; `JoinsStayBounded`). What an acceptance
  validated must still hold where the transaction asks for the token alone:
  `AcceptsInv` says that its user is active and its token was sent, that the row has
  the role it read as long as it has that token (`AcceptOK`), and that rows are of a
  workspace that exists (`RowsAreOpen`). `JoinsAreCounted` counts, with the times an invitation
  let someone in, the requests that are about to: together they are no more than the
  requests, because one is admitted only while nobody has joined by it.
- **Workspaces** (`OverrunsStayBounded`, `TenancyTypes`). The bound is not inductive:
  a creation that was validated is a workspace to come. `CreationsAreBounded` counts
  it, and validation keeps it because the request that starts was idle. That slugs
  stay slugs needs the largest number among those that are there: `MaximumExists`, by
  the well-foundedness of `<` on numbers.
- **One request at a time, tenancy** (`InvitationsAreUsedUp`, `SlugsOneAtATime`). Where
  `alone` holds, `AnswersInv` says that who answers an invitation is the first to do so
  and that who joined by it is on record as having accepted; `SlugsInv` that the name a
  renaming found is still that of the row (`NamesAreFresh`). With a second request at
  work both fail, which is why the properties ask for `alone`.
- **Accounts** (`Invariance`). That `ActivateShadowUser` onboards nobody twice
  relies on the password: `RequestOK` says that the user of a registration that saw
  INVITED was not onboarded as long as he has none. From it `TypeCorrect`,
  `UsersAreOnboardedOnce`, `ActiveUsersAreVerified`. `LinksStayBounded` counts, with the
  links of a user, the requests that deleted the old ones and are about to make theirs
  (`LinksAndMakers`).
- **Sessions** (`LostLoginsStayLost`, for steps). `SessionsOK`: rows and logins are
  those that were created, so that a new login is new; `RowsShrink` is what logout,
  refreshing and the cron do to the rows that are there. `LoginsOneAtATime` adds
  `SessionsInTurn`: a login has one session, which is the one that its request is about
  to delete, if any.
- **Mfa** (`CodesStayBounded`). Nothing asks whether a code is unused when it is
  marked: the bound is that the logins a code granted and the requests that hold it
  together are at most the requests (`GrantsWithin`), which a challenge keeps because a
  code that is read as unused granted nothing (`MfaOK`). With one request at a time the
  same invariant says one login. `MfaOneAtATime` adds `MfaInTurn`.
- **Password resets** (`ResetsOneAtATime`). `ResetsInTurn`: a token that set a password
  is gone, lost in a failure, or with the request that is about to delete it.
- **PushDelivery** (`Invariance`). `SendsAreCounted` says that each send but the
  last used up an attempt or a stall, `MarksAreOfTheToken` that the row a processor
  is about to mark is gone or still has the token FCM refused. From it
  `TypeCorrect`, `SendsStayBounded`, `InvalidTokensAreReported`.
- **DeliveryEvents** (`AnswersVouch`). `DeliveryOK`: of the statuses a delivery looked
  up, each is in the log or still to be stored. That a status found counts as stored,
  though the look-up asks for the message and the log has the reference, is
  `FoundIsStored`; it holds whether messages have tracking ids or not.
- **QueueCleanup** (`CleanupsOneAtATime`). `CleanupInv`: a flag is set exactly while one
  call is in the work that it guards, which the finally blocks of both handlers keep
  because each resets the flag that its own call set, and no other.
- **MessageQueue** (`Invariance`). `WorkersHoldTheirJobs` and `RefusedJobsEnd`:
  unless the job was disturbed, its process holds the lock, and a refused message is
  with the process that knows so, or done. From it `TypeCorrect`,
  `RefusalsStayFinal`.

Every invariant and every action property that the passing runs check is thus the
statement of a theorem. Model-checked only are the liveness properties `PendingEnds`,
`JobsEnd`, `MessagesEnd`, `EveryPayloadIsAnswered` and `MemoryIsReclaimed`: liveness
under fairness is out of the prover's reach.

## Not modelled

- `checkout-session-completed.handler.ts` is dead code.
- `changePlan` only tells Stripe, and no webhook writes `planId`: its one effect on
  our tables comes with `customer.subscription.updated`, which `SubscriptionSync`
  has as `StripeUpdates`. A property about the plan would restate that nothing
  writes it.
- Plans, profile, inbox, notification reads, middlewares, translation, templates,
  signatures and crypto helpers keep no state that several steps of the program
  share.
- Seats are checked when inviting and not when accepting: invitations sent earlier
  overrun the limit without any overlap, and no bound of them is worth stating.
- `getMaxSlugNumber` returns 0 both for a base slug without a number and for none,
  so the second workspace of a name is refused. `Workspaces` models it
  (`RefuseSlug`); nothing in the code or its docs promises otherwise.
- Stripe, Brevo, Meta, FCM, Bull and the users are external: they are modelled from
  how the code uses them.

Abstractions that several modules share: a validator's reads are one step (what
they read is of one user or workspace, and the write's own guards are kept apart);
ids, tokens and codes are never guessed or repeated, but for refresh tokens of one
second; expiry is an action that may come at any time.

## Plan

1. That `SubscriptionSync` is a `StatusSync` environment for `StripeCheckout`, as a
   refinement.
2. `SubscriptionSync` with a plan for each row, once a webhook writes `planId`.

## Running

    tlc -config MCCheckoutOverlap.cfg MCStripeCheckout.tla
    tlc -config MCSync.cfg MCSubscriptionSync.tla
    tlc -config MCTenancy.cfg MCTenancy.tla
    tlc -config MCAuth.cfg MCAuth.tla
    tlc -config MCPush.cfg MCPush.tla
    tlc -config MCMessages.cfg MCMessages.tla
    for m in *_proofs.tla; do tlapm $m; done
