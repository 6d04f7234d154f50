-------------------------------- MODULE Mfa --------------------------------
(***************************************************************************)
(* Two-factor authentication of one user: AuthService.setupMfa, verifyMfa, *)
(* challengeMfa, consumeBackupCode, disableMfa and regenerateBackupCodes   *)
(* with their validators.  Users share nothing here.                       *)
(*                                                                         *)
(* A request validates in one step; each of its writes is a step of its    *)
(* own, for no transaction holds them together.  Whoever holds the         *)
(* authenticator can give a valid TOTP code at any time.                   *)
(***************************************************************************)
EXTENDS Naturals, FiniteSets

CONSTANTS
    MaxSecrets,  \* bounds how many TOTP secrets are made
    MaxBatches,  \* bounds how often backup codes are generated
    Size,        \* how many codes are generated at a time
    Challenges,  \* ids of table mfa_challenge_sessions
    Requests,    \* requests that can be in progress at once
    None

MfaConstants ==
    /\ MaxSecrets \in Nat
    /\ MaxBatches \in Nat
    /\ Size \in Nat \ {0}
    /\ IsFiniteSet(Requests)
    /\ None \notin Nat \union Challenges \union (Nat \X Nat)
    /\ None \notin {"unused", "used", "deleted", "pending", "verified", "over"}

VARIABLES
    secret,     \* users.totpSecret
    enabled,    \* users.totpEnabled
    secrets,    \* how many secrets were made; a secret is a number
    code,       \* table mfa_backup_codes
    batches,    \* how often codes were generated
    challenge,  \* table mfa_challenge_sessions
    request,    \* requests inside AuthService
    confirmed,  \* history variable: the secret verifyMfa last checked a code of
    renewed,    \* history variable: the batches regenerateBackupCodes made
    granted     \* history variable: how many logins each code granted

user == <<secret, enabled, secrets>>
codes == <<code, batches>>
history == <<confirmed, renewed, granted>>
vars == <<secret, enabled, secrets, code, batches, challenge, request,
          confirmed, renewed, granted>>

-----------------------------------------------------------------------------

Secrets == 1..MaxSecrets
Batches == 1..MaxBatches
Codes   == Batches \X (1..Size)

Ops == {"setup", "verify", "challenge", "consume", "disable", "regenerate"}

RequestRecord ==
    [pc : {"idle", "valid", "deleted", "created", "off", "marked", "granting"},
     op : Ops \union {None}, challenge : Challenges \union {None},
     code : Codes \union {None}, secret : Secrets \union {None}]

Idle == [pc |-> "idle", op |-> None, challenge |-> None, code |-> None, secret |-> None]

TypeOK ==
    /\ secret \in Secrets \union {None}
    /\ enabled \in BOOLEAN
    /\ secrets \in 0..MaxSecrets
    /\ code \in [Codes -> {None, "unused", "used", "deleted"}]
    /\ batches \in 0..MaxBatches
    /\ challenge \in [Challenges -> {None, "pending", "verified", "over"}]
    /\ request \in [Requests -> RequestRecord]
    /\ confirmed \in Secrets \union {None}
    /\ renewed \subseteq Batches
    /\ granted \in [Codes -> Nat]

Init ==
    /\ secret = None
    /\ enabled = FALSE
    /\ secrets = 0
    /\ code = [c \in Codes |-> None]
    /\ batches = 0
    /\ challenge = [s \in Challenges |-> None]
    /\ request = [q \in Requests |-> Idle]
    /\ confirmed = None
    /\ renewed = {}
    /\ granted = [c \in Codes |-> 0]

Start(q, op, s, c, sec) ==
    /\ request[q].pc = "idle"
    /\ request' = [request EXCEPT ![q] =
          [pc |-> "valid", op |-> op, challenge |-> s, code |-> c, secret |-> sec]]
    /\ UNCHANGED <<user, codes, challenge, history>>

At(q, op, pc) == request[q].op = op /\ request[q].pc = pc

Goto(q, pc) == request' = [request EXCEPT ![q].pc = pc]

Finish(q) == request' = [request EXCEPT ![q] = Idle]

-----------------------------------------------------------------------------
(* setupMfa and verifyMfa                                                   *)

MaySetUp == ~enabled

ValidateSetup(q) ==
    /\ MaySetUp
    /\ Start(q, "setup", None, None, None)

SetSecret(q) ==
    /\ At(q, "setup", "valid")
    /\ secrets < MaxSecrets
    /\ secret' = secrets + 1
    /\ secrets' = secrets + 1
    /\ Finish(q)
    /\ UNCHANGED <<enabled, codes, challenge, history>>

ValidateVerify(q) ==
    /\ ~enabled
    /\ secret # None
    /\ Start(q, "verify", None, None, secret)

\* createBackupCodes, of verifyMfa and of regenerateBackupCodes.
CreateCodes(q) ==
    /\ At(q, "verify", "valid") \/ At(q, "regenerate", "deleted")
    /\ batches < MaxBatches
    /\ code' = [c \in Codes |-> IF c[1] = batches + 1 THEN "unused" ELSE code[c]]
    /\ batches' = batches + 1
    /\ IF request[q].op = "verify"
       THEN Goto(q, "created") /\ renewed' = renewed
       ELSE Finish(q) /\ renewed' = renewed \union {batches + 1}
    /\ UNCHANGED <<user, challenge, confirmed, granted>>

\* The update writes totpEnabled alone, whatever the secret is by now.
Enable(q) ==
    /\ At(q, "verify", "created")
    /\ enabled' = TRUE
    /\ confirmed' = request[q].secret
    /\ Finish(q)
    /\ UNCHANGED <<secret, secrets, codes, challenge, renewed, granted>>

-----------------------------------------------------------------------------
(* login, challengeMfa and consumeBackupCode                                *)

\* login and the OAuth callbacks of a user with two-factor authentication.
LoginRequiresTwoFactor(s) ==
    /\ enabled
    /\ challenge[s] = None
    /\ challenge' = [challenge EXCEPT ![s] = "pending"]
    /\ UNCHANGED <<user, codes, request, history>>

\* A session that was verified is as good as a pending one, for ten minutes.
Open(s) == challenge[s] \in {"pending", "verified"}

ValidateChallenge(q, s) ==
    /\ Open(s)
    /\ enabled
    /\ secret # None
    /\ Start(q, "challenge", s, None, None)

\* Mutation of Usable: a code that was used still counts.
UsableAgain(c) == code[c] \in {"unused", "used"}

Usable(c) == code[c] = "unused"

ValidateConsume(q, s, c) ==
    /\ Open(s)
    /\ Usable(c)
    /\ Start(q, "consume", s, c, None)

\* Mutation of MarkedAsUsed: the code is left as it is.
MarkedAsUsedNever(c) == [code EXCEPT ![c] = code[c]]

MarkedAsUsed(c) == [code EXCEPT ![c] = "used"]

\* The update is by id: it asks for the row, not for its being unused.
MarkAsUsed(q) ==
    LET c == request[q].code
    IN  /\ At(q, "consume", "valid")
        /\ code[c] \in {"unused", "used"}
        /\ code' = MarkedAsUsed(c)
        /\ Goto(q, "marked")
        /\ UNCHANGED <<user, batches, challenge, history>>

MarkVerified(q) ==
    /\ At(q, "challenge", "valid") \/ At(q, "consume", "marked")
    /\ challenge' = [challenge EXCEPT ![request[q].challenge] =
          IF @ = "over" THEN @ ELSE "verified"]
    /\ Goto(q, "granting")
    /\ UNCHANGED <<user, codes, history>>

\* generateTokens and createSession: the user is logged in.
CreateSession(q) ==
    /\ request[q].pc = "granting"
    /\ granted' = [c \in Codes |-> granted[c] + IF c = request[q].code THEN 1 ELSE 0]
    /\ Finish(q)
    /\ UNCHANGED <<user, codes, challenge, confirmed, renewed>>

\* Ten minutes are over; the status of the row stays what it is.
ChallengeExpires(s) ==
    /\ Open(s)
    /\ challenge' = [challenge EXCEPT ![s] = "over"]
    /\ UNCHANGED <<user, codes, request, history>>

-----------------------------------------------------------------------------
(* disableMfa and regenerateBackupCodes                                     *)

\* With a TOTP code, or with a backup code, which stays unused.
ValidateDisable(q) ==
    /\ enabled
    /\ secret # None
    /\ Start(q, "disable", None, None, None)

Disable(q) ==
    /\ At(q, "disable", "valid")
    /\ secret' = None
    /\ enabled' = FALSE
    /\ Goto(q, "off")
    /\ UNCHANGED <<secrets, codes, challenge, history>>

ValidateRegenerate(q) ==
    /\ enabled
    /\ secret # None
    /\ Start(q, "regenerate", None, None, None)

Exists(c) == code[c] \in {"unused", "used"}

\* Mutation of DeleteCodes: regenerateBackupCodes deletes nothing.
DeleteCodesIfDisabled(q) ==
    /\ At(q, "disable", "off") \/ At(q, "regenerate", "valid")
    /\ IF request[q].op = "disable"
       THEN Finish(q) /\ code' = [c \in Codes |-> IF Exists(c) THEN "deleted" ELSE code[c]]
       ELSE Goto(q, "deleted") /\ code' = code
    /\ UNCHANGED <<user, batches, challenge, history>>

DeleteCodes(q) ==
    /\ At(q, "disable", "off") \/ At(q, "regenerate", "valid")
    /\ code' = [c \in Codes |-> IF Exists(c) THEN "deleted" ELSE code[c]]
    /\ IF request[q].op = "disable" THEN Finish(q) ELSE Goto(q, "deleted")
    /\ UNCHANGED <<user, batches, challenge, history>>

-----------------------------------------------------------------------------

\* The row to be marked is gone, the database throws or the process dies.
RequestFails(q) ==
    /\ request[q].pc # "idle"
    /\ Finish(q)
    /\ UNCHANGED <<user, codes, challenge, history>>

SetupMfa(q) == ValidateSetup(q) \/ SetSecret(q)

VerifyMfa(q) == ValidateVerify(q) \/ CreateCodes(q) \/ Enable(q)

ChallengeMfa(q) ==
    \/ \E s \in Challenges : ValidateChallenge(q, s)
    \/ MarkVerified(q)
    \/ CreateSession(q)

ConsumeBackupCode(q) ==
    \/ \E s \in Challenges, c \in Codes : ValidateConsume(q, s, c)
    \/ MarkAsUsed(q)

DisableMfa(q) == ValidateDisable(q) \/ Disable(q)

RegenerateBackupCodes(q) == ValidateRegenerate(q) \/ DeleteCodes(q)

\* CreateCodes, MarkVerified with CreateSession and DeleteCodes are each of two of them.
Request(q) ==
    \/ SetupMfa(q) \/ VerifyMfa(q)
    \/ ChallengeMfa(q) \/ ConsumeBackupCode(q)
    \/ DisableMfa(q) \/ RegenerateBackupCodes(q)
    \/ RequestFails(q)

Next ==
    \/ \E q \in Requests : Request(q)
    \/ \E s \in Challenges : LoginRequiresTwoFactor(s) \/ ChallengeExpires(s)

Spec == Init /\ [][Next]_vars

-----------------------------------------------------------------------------
(* Properties                                                               *)

\* validateMfaBackupCodeConsume asks for an unused code, markAsUsed does not: a code
\* grants as many logins as requests validated it before the first one marked it,
\* and never another.
CodeReuseIsBounded == \A c \in Codes : granted[c] <= Cardinality(Requests)

\* With one request at a time a backup code grants one login, whatever fails.
CodesGrantOnce == \A c \in Codes : granted[c] <= 1

\* With one request at a time, two-factor authentication is on with the very secret
\* verifyMfa checked a code of: the user is not locked out by a secret, or the lack
\* of one, his authenticator knows nothing of.
EnabledWithConfirmedSecret == enabled => secret # None /\ secret = confirmed

\* The comment on regenerateBackupCodes, "Generate new backup codes (invalidates
\* previous ones)".  One request at a time keeps it so.
PreviousCodesAreInvalid ==
    \A c, d \in Codes : Exists(c) /\ Exists(d) /\ d[1] \in renewed => c[1] >= d[1]

=============================================================================
