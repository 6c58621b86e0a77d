------------------------------ MODULE MfaLogin ------------------------------
(***************************************************************************)
(* Two-factor authentication of one account: enrolment, removal, recovery   *)
(* codes, and the two halves of a login, statement by statement.  The       *)
(* tokens of AuthTokens are the MFA_CHALLENGE rows.                         *)
(*                                                                         *)
(* Setup, enable, disable, regenerate and the issue of a challenge hold the *)
(* users row FOR UPDATE; the login that completes a challenge reads the     *)
(* account without a lock and takes FOR KEY SHARE when it inserts the       *)
(* session.  A page of recovery codes is interchangeable, so one code       *)
(* stands for it.  A TOTP code is the secret it was computed from.          *)
(***************************************************************************)
EXTENDS AuthTokens

CONSTANTS Secrets,   \* TOTP secrets that setups generate
          Codes,     \* ids of recovery code rows
          Sessions   \* ids of session rows

ASSUME MfaAssumption == None \notin Secrets \cup Codes \cup Sessions
\* A challenge is issued at every login, however soon after the last.
ASSUME ChallengeAssumption == ~Cooldown

VARIABLES
  status,      \* users.status
  mfa,         \* "none" (no user_mfa row), "pending", "enabled"
  secret,      \* the secret of the user_mfa row
  minted,      \* secrets generated so far
  lapsed,      \* MFA_SETUP_TTL_MINUTES passed since the setup started
  cstate,      \* "absent", "unused", "used", "deleted": a recovery code row
  page,        \* the code minted last
  codeLock,    \* the request holding the lock of a recovery code row
  keyShare,    \* the requests holding the users row FOR KEY SHARE
  sess,        \* "absent", "inserting", "live", "revoked"
  root,        \* the session a login created, of which a row is the successor
  challengeOf, codeOf,  \* what the login that created a row presented
  epoch,       \* changes of the 2FA configuration before the row's login
  changes,     \* committed changes of the configuration
  op,          \* what a request is for
  held,        \* the secret in the caller's authenticator
  code,        \* the recovery code presented
  keep,        \* the session that is to survive
  doomed,      \* the sessions a configuration change revokes
  fresh        \* the session a login inserts

accountVars == <<status, mfa, secret, minted, lapsed, changes>>
codeVars    == <<cstate, page, codeLock>>
sessionVars == <<sess, root, challengeOf, codeOf, epoch>>
localVars   == <<op, held, code, keep, doomed, fresh>>
mfaVars == <<accountVars, codeVars, keyShare, sessionVars, localVars>>
vars == <<authVars, mfaVars>>

Live(s) == sess[s] = "live"

\* Room for the rows and secrets of the requests in flight, so that the bounds on
\* Sessions, Codes and Secrets block none half-way.
Inserting == {q \in Requests : op[q] \in {"password", "totp", "recovery"}}
SessionsLeft == Cardinality({s \in Sessions : sess[s] = "absent"}) > Cardinality(Inserting)
SettingUp == {q \in Requests : op[q] = "setup"}
SecretsLeft == Cardinality(Secrets \ minted) > Cardinality(SettingUp)
Minting == {q \in Requests : op[q] \in {"enable", "regenerate"}}
CodesLeft == Cardinality({c \in Codes : cstate[c] = "absent"}) > Cardinality(Minting)

Init ==
  /\ AuthInit
  /\ status = "ACTIVE" /\ mfa = "none" /\ secret = None /\ minted = {} /\ lapsed = FALSE
  /\ changes = 0
  /\ cstate = [c \in Codes |-> "absent"] /\ page = None /\ codeLock = [c \in Codes |-> None]
  /\ keyShare = {}
  /\ sess = [s \in Sessions |-> "absent"] /\ root = [s \in Sessions |-> None]
  /\ challengeOf = [s \in Sessions |-> None] /\ codeOf = [s \in Sessions |-> None]
  /\ epoch = [s \in Sessions |-> 0]
  /\ op = [r \in Requests |-> "none"] /\ held = [r \in Requests |-> None]
  /\ code = [r \in Requests |-> None] /\ keep = [r \in Requests |-> None]
  /\ doomed = [r \in Requests |-> {}] /\ fresh = [r \in Requests |-> None]

\* The transaction ends and the request is answered: its locks and locals go.
Finish(r) ==
  /\ End(r)
  /\ keyShare' = keyShare \ {r}
  /\ codeLock' = [c \in Codes |-> IF codeLock[c] = r THEN None ELSE codeLock[c]]
  /\ op' = [op EXCEPT ![r] = "none"] /\ held' = [held EXCEPT ![r] = None]
  /\ code' = [code EXCEPT ![r] = None] /\ keep' = [keep EXCEPT ![r] = None]
  /\ doomed' = [doomed EXCEPT ![r] = {}] /\ fresh' = [fresh EXCEPT ![r] = None]

Refuse(r) ==
  /\ Finish(r)
  /\ UNCHANGED <<tokenVars, accountVars, cstate, page, sessionVars>>

\* A request arrives: what it is for, and the statement it waits for.
Begin(r, what, label) ==
  /\ pc[r] = "idle"
  /\ op' = [op EXCEPT ![r] = what]
  /\ Goto(r, label)
  /\ UNCHANGED <<tokenVars, lockVars, cand, accountVars, codeVars, keyShare, sessionVars,
                 doomed, fresh>>

Step(r, from, to) ==
  /\ pc[r] = from
  /\ Goto(r, to)
  /\ UNCHANGED <<tokenVars, tok, cand, accountVars, sessionVars>>

-----------------------------------------------------------------------------
(***************************************************************************)
(* Changing the configuration.                                             *)
(***************************************************************************)
StartSetup(r) ==
  /\ status = "ACTIVE"
  /\ SecretsLeft
  /\ Begin(r, "setup", "lockChange")
  /\ UNCHANGED <<tok, held, code, keep>>

\* The kept session is resolved from the refresh cookie before the transaction;
\* without a live one nothing is kept.
StartChange(r, what) ==
  /\ what # "disable" => CodesLeft
  /\ Begin(r, what, "lockChange")
  /\ \E x \in minted : held' = [held EXCEPT ![r] = x]
  /\ \E s \in {n \in Sessions : Live(n) /\ what # "regenerate"} \cup {None} :
       keep' = [keep EXCEPT ![r] = s]
  /\ UNCHANGED <<tok, code>>

\* Faulty: the configuration is read without the account's lock.
LockChangeNot(r) == Step(r, "lockChange", "check") /\ UNCHANGED <<lockVars, codeVars, keyShare, localVars>>

\* lockUserRow.
LockChange(r) ==
  /\ userLock = None /\ keyShare = {}
  /\ userLock' = r
  /\ Step(r, "lockChange", "check")
  /\ UNCHANGED <<tokLock, codeVars, keyShare, localVars>>

\* What each handler asks of the row it reads under the lock.
MayChange(r) ==
  \/ op[r] = "setup" /\ mfa # "enabled"
  \/ op[r] = "enable" /\ status = "ACTIVE" /\ mfa = "pending" /\ ~lapsed /\ held[r] = secret
  \/ op[r] \in {"disable", "regenerate"} /\ mfa = "enabled" /\ held[r] = secret

CheckChange(r) ==
  \/ /\ MayChange(r)
     /\ Step(r, "check", IF op[r] = "setup" THEN "changeCommit" ELSE "codes")
     /\ UNCHANGED <<lockVars, codeVars, keyShare, localVars>>
  \/ /\ pc[r] = "check" /\ ~MayChange(r)
     /\ Refuse(r)

\* The statement on the account's recovery codes waits for those a login is
\* spending; the rows it changes stay locked until the commit.
TakeCodes(r) ==
  /\ \A c \in Codes : codeLock[c] = None
  /\ codeLock' = [c \in Codes |-> IF cstate[c] \in {"unused", "used"} THEN r ELSE None]
  /\ Step(r, "codes", IF op[r] = "regenerate" THEN "changeCommit" ELSE "sessions")
  /\ UNCHANGED <<lockVars, cstate, page, keyShare, localVars>>

\* revokeAllUserSessionsExcept.
RevokeOthers(r) ==
  /\ doomed' = [doomed EXCEPT ![r] = {s \in Sessions : Live(s) /\ s # keep[r]}]
  /\ Step(r, "sessions", "challenges")
  /\ UNCHANGED <<lockVars, codeVars, keyShare, op, held, code, keep, fresh>>

\* revokeUserAuthTokens(MFA_CHALLENGE).
SnapshotChallenges(r) == SnapshotUnused(r, "challenges", "challengesTake") /\ UNCHANGED mfaVars
\* Faulty: the outstanding challenges are left as they are.
ChallengesLeft(r) == Skip(r, "challengesTake", "changeCommit") /\ UNCHANGED mfaVars
TakeChallenges(r) == TakeUnused(r, "challengesTake", "changeCommit") /\ UNCHANGED mfaVars

SpendChallenges(r) ==
  /\ tstate' = SpendLocked(r)
  /\ superseded' = superseded \cup (LockedBy(r) \ {tok[r]})
  /\ UNCHANGED <<recent, expired>>

Ready(r, what) == pc[r] = "changeCommit" /\ op[r] = what

CommitSetup(r) ==
  /\ Ready(r, "setup")
  /\ \E x \in Secrets \ minted : secret' = x /\ minted' = minted \cup {x}
  /\ mfa' = "pending" /\ lapsed' = FALSE
  /\ Finish(r)
  /\ UNCHANGED <<tokenVars, status, changes, cstate, page, sessionVars>>

\* A code page is replaced: `fate` is what becomes of the rows taken.
NewPage(r, fate) ==
  \E c \in Codes :
    /\ cstate[c] = "absent"
    /\ page' = c
    /\ cstate' = [d \in Codes |-> IF d = c THEN "unused"
                                  ELSE IF codeLock[d] = r THEN fate ELSE cstate[d]]

\* The sessions of the account after the change; the kept one belongs to it.
RevokeDoomed(r) ==
  /\ sess' = [s \in Sessions |-> IF s \in doomed[r] /\ Live(s) THEN "revoked" ELSE sess[s]]
  /\ epoch' = [s \in Sessions |-> IF s = keep[r] THEN changes + 1 ELSE epoch[s]]
  /\ changes' = changes + 1
  /\ UNCHANGED <<root, challengeOf, codeOf>>

CommitEnable(r) ==
  /\ Ready(r, "enable")
  /\ mfa' = "enabled"
  /\ NewPage(r, "deleted")
  /\ RevokeDoomed(r)
  /\ SpendChallenges(r)
  /\ Finish(r)
  /\ UNCHANGED <<status, secret, minted, lapsed>>

\* Faulty: the row is flagged, and no other statement knows the flag.
CommitDisableFlags(r) ==
  /\ Ready(r, "disable")
  /\ mfa' = "disabled" /\ secret' = None /\ page' = None
  /\ cstate' = [c \in Codes |-> IF codeLock[c] = r THEN "deleted" ELSE cstate[c]]
  /\ RevokeDoomed(r)
  /\ SpendChallenges(r)
  /\ Finish(r)
  /\ UNCHANGED <<status, minted, lapsed>>

CommitDisable(r) ==
  /\ Ready(r, "disable")
  /\ mfa' = "none" /\ secret' = None /\ page' = None
  /\ cstate' = [c \in Codes |-> IF codeLock[c] = r THEN "deleted" ELSE cstate[c]]
  /\ RevokeDoomed(r)
  /\ SpendChallenges(r)
  /\ Finish(r)
  /\ UNCHANGED <<status, minted, lapsed>>

\* Faulty: the previous page is left usable.
CommitRegenerateKeeps(r) ==
  /\ Ready(r, "regenerate")
  /\ NewPage(r, "unused")
  /\ Finish(r)
  /\ UNCHANGED <<tokenVars, accountVars, sessionVars>>

CommitRegenerate(r) ==
  /\ Ready(r, "regenerate")
  /\ NewPage(r, "used")
  /\ Finish(r)
  /\ UNCHANGED <<tokenVars, accountVars, sessionVars>>

-----------------------------------------------------------------------------
(***************************************************************************)
(* Signing in.                                                             *)
(***************************************************************************)
\* The password was right: a challenge when two-factor authentication is on, a
\* session of its own otherwise.
Login(r) ==
  /\ status = "ACTIVE"
  /\ \/ mfa = "enabled" /\ TokensLeft /\ Begin(r, "challenge", "lockIssue")
     \/ mfa # "enabled" /\ SessionsLeft /\ Begin(r, "password", "insertSession")
  /\ UNCHANGED <<tok, held, code, keep>>

\* createLoginChallenge, with the statements every link is issued with.
IssueChallenge(r) ==
  /\ \/ /\ pc[r] = "lockIssue" => keyShare = {}
        /\ LockForIssue(r) \/ CheckCooldown(r) \/ Supersede(r) \/ SupersedeApply(r)
        /\ UNCHANGED localVars
     \/ /\ IssueCommit(r)
        /\ op' = [op EXCEPT ![r] = "none"]
        /\ UNCHANGED <<held, code, keep, doomed, fresh>>
  /\ UNCHANGED <<accountVars, codeVars, keyShare, sessionVars>>

\* verifyMfaLoginChallenge up to its transaction: an unused challenge, and a code
\* of the secret that is enabled then.
AnswerTotp(r, t) ==
  /\ Usable(t) /\ mfa = "enabled" /\ SessionsLeft
  /\ Begin(r, "totp", "consume")
  /\ tok' = [tok EXCEPT ![r] = t]
  /\ held' = [held EXCEPT ![r] = secret]
  /\ UNCHANGED <<code, keep>>

\* verifyMfaLoginRecoveryCode up to its transaction: the code is not looked at yet.
AnswerRecovery(r, t, c) ==
  /\ Usable(t) /\ mfa = "enabled" /\ cstate[c] # "absent" /\ SessionsLeft
  /\ Begin(r, "recovery", "consume")
  /\ tok' = [tok EXCEPT ![r] = t]
  /\ code' = [code EXCEPT ![r] = c]
  /\ UNCHANGED <<held, keep>>

\* consumeAuthTokenByTokenHash inside the transaction.
ConsumeChallenge(r) ==
  /\ pc[r] = "consume"
  /\ tokLock[tok[r]] = None
  /\ \/ /\ Usable(tok[r])
        /\ tokLock' = [tokLock EXCEPT ![tok[r]] = r]
        /\ Step(r, "consume", "consumed")
        /\ UNCHANGED <<userLock, codeVars, keyShare, localVars>>
     \/ ~Usable(tok[r]) /\ Refuse(r)

\* The account and its two-factor state, read without a lock.
ReadAccount(r) ==
  /\ pc[r] = "consumed"
  /\ \/ /\ status = "ACTIVE" /\ mfa = "enabled"
        /\ Step(r, "consumed", IF op[r] = "recovery" THEN "spendCode" ELSE "insertSession")
        /\ UNCHANGED <<lockVars, codeVars, keyShare, localVars>>
     \/ ~(status = "ACTIVE" /\ mfa = "enabled") /\ Refuse(r)

\* Faulty: the code is compared with the hashes read, and marked used by id.
SpendCodeById(r) ==
  /\ pc[r] = "spendCode"
  /\ codeLock[code[r]] = None
  /\ codeLock' = [codeLock EXCEPT ![code[r]] = r]
  /\ Step(r, "spendCode", "insertSession")
  /\ UNCHANGED <<lockVars, cstate, page, keyShare, localVars>>

\* UPDATE recovery_codes ... WHERE usedAt IS NULL; no row rolls everything back.
SpendCode(r) ==
  /\ pc[r] = "spendCode"
  /\ codeLock[code[r]] = None
  /\ \/ /\ cstate[code[r]] = "unused"
        /\ codeLock' = [codeLock EXCEPT ![code[r]] = r]
        /\ Step(r, "spendCode", "insertSession")
        /\ UNCHANGED <<lockVars, cstate, page, keyShare, localVars>>
     \/ cstate[code[r]] # "unused" /\ Refuse(r)

\* session.create: its foreign-key check waits for FOR UPDATE.  A login without a
\* second factor commits here; the others hold FOR KEY SHARE until they do.
NewRow(r, s, state) ==
  /\ sess' = [sess EXCEPT ![s] = state]
  /\ root' = [root EXCEPT ![s] = s]
  /\ challengeOf' = [challengeOf EXCEPT ![s] = tok[r]]
  /\ codeOf' = [codeOf EXCEPT ![s] = code[r]]
  /\ epoch' = [epoch EXCEPT ![s] = changes]

InsertSession(r) ==
  /\ pc[r] = "insertSession"
  /\ userLock = None
  /\ \E s \in Sessions :
       /\ sess[s] = "absent"
       /\ \/ /\ op[r] = "password"
             /\ NewRow(r, s, "live")
             /\ Finish(r)
          \/ /\ op[r] # "password"
             /\ NewRow(r, s, "inserting")
             /\ fresh' = [fresh EXCEPT ![r] = s]
             /\ keyShare' = keyShare \cup {r}
             /\ Goto(r, "leftover")
             /\ UNCHANGED <<tok, cand, lockVars, codeLock, op, held, code, keep, doomed>>
  /\ UNCHANGED <<tokenVars, accountVars, cstate, page>>

\* The leftover challenges of the account.
SnapshotLeftover(r) == SnapshotUnused(r, "leftover", "leftoverTake") /\ UNCHANGED mfaVars
TakeLeftover(r) == TakeUnused(r, "leftoverTake", "loginCommit") /\ UNCHANGED mfaVars

CommitLogin(r) ==
  /\ pc[r] = "loginCommit"
  /\ sess' = [sess EXCEPT ![fresh[r]] = "live"]
  /\ cstate' = [c \in Codes |-> IF codeLock[c] = r THEN "used" ELSE cstate[c]]
  /\ SpendChallenges(r)
  /\ Finish(r)
  /\ UNCHANGED <<accountVars, page, root, challengeOf, codeOf, epoch>>

-----------------------------------------------------------------------------
\* A refresh replaces a live session by its successor (RefreshSessions has its
\* statements); its insert, too, waits for FOR UPDATE.
Rotate(s) ==
  /\ Live(s)
  /\ userLock = None
  /\ SessionsLeft
  /\ \E n \in Sessions :
       /\ sess[n] = "absent"
       /\ sess' = [sess EXCEPT ![s] = "revoked", ![n] = "live"]
       /\ root' = [root EXCEPT ![n] = root[s]]
       /\ epoch' = [epoch EXCEPT ![n] = epoch[s]]
  /\ UNCHANGED <<authVars, accountVars, codeVars, keyShare, challengeOf, codeOf, localVars>>

\* updateAdminUserStatus, which locks the account and revokes its sessions.
ChangeStatus ==
  /\ userLock = None /\ keyShare = {}
  /\ status' \in {"ACTIVE", "SUSPENDED"} \ {status}
  /\ sess' = [s \in Sessions |-> IF Live(s) THEN "revoked" ELSE sess[s]]
  /\ UNCHANGED <<authVars, mfa, secret, minted, lapsed, changes, codeVars, keyShare,
                 root, challengeOf, codeOf, epoch, localVars>>

SetupLapses ==
  /\ mfa = "pending" /\ ~lapsed
  /\ lapsed' = TRUE
  /\ UNCHANGED <<authVars, status, mfa, secret, minted, changes, codeVars, keyShare,
                 sessionVars, localVars>>

ExpireChallenge(t) == Expire(t) /\ UNCHANGED mfaVars

\* The transaction rolls back: crash, timeout, or a deadlock's victim.
Rollback(r) ==
  /\ Finish(r)
  /\ sess' = [s \in Sessions |-> IF s = fresh[r] THEN "absent" ELSE sess[s]]
  /\ root' = [s \in Sessions |-> IF s = fresh[r] THEN None ELSE root[s]]
  /\ challengeOf' = [s \in Sessions |-> IF s = fresh[r] THEN None ELSE challengeOf[s]]
  /\ codeOf' = [s \in Sessions |-> IF s = fresh[r] THEN None ELSE codeOf[s]]
  /\ epoch' = [s \in Sessions |-> IF s = fresh[r] THEN 0 ELSE epoch[s]]
  /\ UNCHANGED <<tokenVars, accountVars, cstate, page>>

AbortRequest(r) == pc[r] # "idle" /\ Rollback(r)

\* p waits for a row that q has locked.
WaitsFor(p, q) ==
  /\ p # q
  /\ \/ pc[p] \in {"lockChange", "lockIssue"} /\ (userLock = q \/ q \in keyShare)
     \/ pc[p] = "insertSession" /\ userLock = q
     \/ pc[p] = "consume" /\ tokLock[tok[p]] = q
     \/ pc[p] = "spendCode" /\ codeLock[code[p]] = q
     \/ pc[p] = "codes" /\ \E c \in Codes : codeLock[c] = q
     \/ /\ pc[p] \in {"challengesTake", "supersedeApply", "leftoverTake"}
        /\ \E t \in cand[p] : tokLock[t] = q

LockCycle(p, q) == WaitsFor(p, q) /\ WaitsFor(q, p)

BreakCycle == \E p, q \in Requests : LockCycle(p, q) /\ Rollback(p)

-----------------------------------------------------------------------------
Start(r) ==
  \/ Login(r) \/ StartSetup(r)
  \/ \E what \in {"enable", "disable", "regenerate"} : StartChange(r, what)
  \/ \E t \in Tokens : AnswerTotp(r, t) \/ \E c \in Codes : AnswerRecovery(r, t, c)

Continue(r) ==
  \/ LockChange(r) \/ CheckChange(r) \/ TakeCodes(r) \/ RevokeOthers(r)
  \/ SnapshotChallenges(r) \/ TakeChallenges(r)
  \/ CommitSetup(r) \/ CommitEnable(r) \/ CommitDisable(r) \/ CommitRegenerate(r)
  \/ IssueChallenge(r) \/ ConsumeChallenge(r) \/ ReadAccount(r) \/ SpendCode(r)
  \/ InsertSession(r) \/ SnapshotLeftover(r) \/ TakeLeftover(r) \/ CommitLogin(r)

Next ==
  \/ \E r \in Requests : Start(r) \/ Continue(r) \/ AbortRequest(r)
  \/ BreakCycle \/ ChangeStatus \/ SetupLapses
  \/ \E s \in Sessions : Rotate(s)
  \/ \E t \in Tokens : ExpireChallenge(t)

Spec == Init /\ [][Next]_vars

-----------------------------------------------------------------------------
Labels == {"idle", "lockChange", "check", "codes", "sessions", "challenges",
           "challengesTake", "changeCommit", "lockIssue", "cooldown", "supersede",
           "supersedeApply", "issueCommit", "consume", "consumed", "spendCode",
           "insertSession", "leftover", "leftoverTake", "loginCommit"}

TypeOK ==
  /\ tstate \in [Tokens -> {"absent", "unused", "used"}]
  /\ tokLock \in [Tokens -> Requests \cup {None}] /\ userLock \in Requests \cup {None}
  /\ pc \in [Requests -> Labels] /\ cand \in [Requests -> SUBSET Tokens]
  /\ tok \in [Requests -> Tokens \cup {None}]
  /\ status \in {"ACTIVE", "SUSPENDED"} /\ mfa \in {"none", "pending", "enabled"}
  /\ secret \in minted \cup {None} /\ minted \subseteq Secrets /\ lapsed \in BOOLEAN
  /\ changes \in Nat /\ page \in Codes \cup {None}
  /\ cstate \in [Codes -> {"absent", "unused", "used", "deleted"}]
  /\ codeLock \in [Codes -> Requests \cup {None}] /\ keyShare \subseteq Requests
  /\ sess \in [Sessions -> {"absent", "inserting", "live", "revoked"}]
  /\ root \in [Sessions -> Sessions \cup {None}] /\ epoch \in [Sessions -> Nat]
  /\ challengeOf \in [Sessions -> Tokens \cup {None}]
  /\ codeOf \in [Sessions -> Codes \cup {None}]
  /\ op \in [Requests -> {"none", "setup", "enable", "disable", "regenerate",
                          "challenge", "password", "totp", "recovery"}]
  /\ held \in [Requests -> Secrets \cup {None}] /\ code \in [Requests -> Codes \cup {None}]
  /\ keep \in [Requests -> Sessions \cup {None}] /\ doomed \in [Requests -> SUBSET Sessions]
  /\ fresh \in [Requests -> Sessions \cup {None}]

\* A challenge funds one login and a recovery code one login, however many
\* requests present them together and whatever rolls back in between.
SpentOnce ==
  \A s, n \in Sessions :
    (sess[s] \in {"live", "revoked"} /\ sess[n] \in {"live", "revoked"} /\ s # n) =>
      /\ challengeOf[s] # None => challengeOf[s] # challengeOf[n]
      /\ codeOf[s] # None => codeOf[s] # codeOf[n]

\* Only the page of recovery codes minted last can be spent, and none while
\* two-factor authentication is off.
OnlyNewestPage == \A c \in Codes : cstate[c] = "unused" => c = page /\ mfa = "enabled"

\* A completed login answered the set-up that is in force when it commits,
\* although it read the account without its lock and checked the TOTP code before
\* its transaction: nobody removed or replaced the secret in between.
CompletesCurrentSetup ==
  [][\A r \in Requests :
       (pc[r] = "loginCommit" /\ sess'[fresh[r]] = "live") =>
         mfa = "enabled" /\ (op[r] = "totp" => held[r] = secret)]_vars

\* No session that existed before a committed change of the configuration is
\* usable after it, the kept one excepted.
NothingOutlivesChange == \A s \in Sessions : Live(s) => epoch[s] = changes

\* Only a removal turns two-factor authentication off: a late setup does not.
OnlyDisableTurnsOff ==
  [][(mfa = "enabled" /\ mfa' # "enabled") => mfa' = "none"]_vars

\* A set-up is in force from its confirmation until a removal, and logins complete
\* on the one in force.
SetupIsCurrent == CompletesCurrentSetup /\ OnlyDisableTurnsOff
=============================================================================
