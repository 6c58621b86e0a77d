----------------------------- MODULE AuthTokens -----------------------------
(***************************************************************************)
(* The rows of `auth_tokens` of one type and one account, and the           *)
(* statements on them that the flows built on them share: issuing a link    *)
(* under the account's row lock, superseding the outstanding ones, and      *)
(* consuming one with a conditional UPDATE.  No statement touches the rows  *)
(* of two accounts or of two types, so one of each is enough.               *)
(*                                                                         *)
(* Writes of an open transaction are invisible to others: a row it will     *)
(* change is locked (tokLock) and changes when the transaction commits.     *)
(***************************************************************************)
EXTENDS Naturals, FiniteSets, Concurrency

CONSTANTS Tokens,    \* ids of token rows
          Cooldown   \* whether a cooldown between two issues is configured

ASSUME TokenAssumption == None \notin Tokens
ASSUME CooldownAssumption == Cooldown \in BOOLEAN

VARIABLES
  tstate,      \* "absent", "unused", "used" (usedAt set): the committed row
  recent,      \* tokens created within the cooldown
  expired,     \* tokens whose expiresAt has passed
  superseded,  \* tokens used up by a newer link, and not by their holder
  tokLock,     \* the request holding the lock of a token row
  userLock,    \* the request holding the account's row
  pc, tok, cand

tokenVars   == <<tstate, recent, expired, superseded>>
lockVars    == <<tokLock, userLock>>
requestVars == <<pc, tok, cand>>
authVars    == <<tokenVars, lockVars, requestVars>>

Unused(t) == tstate[t] = "unused"
Usable(t) == Unused(t) /\ t \notin expired
LockedBy(r) == {t \in Tokens : tokLock[t] = r}

AuthInit ==
  /\ tstate = [t \in Tokens |-> "absent"]
  /\ recent = {}
  /\ expired = {}
  /\ superseded = {}
  /\ tokLock = [t \in Tokens |-> None]
  /\ userLock = None
  /\ pc = [r \in Requests |-> "idle"]
  /\ tok = [r \in Requests |-> None]
  /\ cand = [r \in Requests |-> {}]

\* Requests that may still insert a row; they start only while a row is left for
\* each, so that the bound on Tokens blocks none half-way.
Issuing == {q \in Requests : pc[q] \in {"lockInitial", "lockIssue", "cooldown", "supersede",
                                        "supersedeApply", "issueCommit"}}
TokensLeft == Cardinality({t \in Tokens : tstate[t] = "absent"}) > Cardinality(Issuing)

Goto(r, label) == pc' = [pc EXCEPT ![r] = label]

\* The transaction commits or rolls back, and the request is answered.
End(r) ==
  /\ tokLock' = [t \in Tokens |-> IF tokLock[t] = r THEN None ELSE tokLock[t]]
  /\ userLock' = IF userLock = r THEN None ELSE userLock
  /\ Goto(r, "idle")
  /\ tok' = [tok EXCEPT ![r] = None]
  /\ cand' = [cand EXCEPT ![r] = {}]

\* SELECT ... FOR UPDATE of the account.
LockUserRow(r, from, to) ==
  /\ pc[r] = from
  /\ userLock = None
  /\ userLock' = r
  /\ Goto(r, to)
  /\ UNCHANGED <<tokenVars, tokLock, tok, cand>>

\* Used by the faulty variants: a statement that is left out.
Skip(r, from, to) ==
  /\ pc[r] = from
  /\ Goto(r, to)
  /\ UNCHANGED <<tokenVars, lockVars, tok, cand>>

(***************************************************************************)
(* Issuing a link.                                                         *)
(***************************************************************************)
\* Faulty: the account is not locked.
IssueWithoutLock(r) == Skip(r, "lockIssue", "cooldown")

LockForIssue(r) == LockUserRow(r, "lockIssue", "cooldown")

\* Faulty: the refused request is never answered.
CheckCooldownSilently(r) ==
  /\ pc[r] = "cooldown"
  /\ ~(Cooldown /\ recent # {})
  /\ Goto(r, "supersede")
  /\ UNCHANGED <<tokenVars, lockVars, tok, cand>>

\* A token created within the cooldown refuses the request.
CheckCooldown(r) ==
  /\ pc[r] = "cooldown"
  /\ \/ /\ Cooldown /\ recent # {}
        /\ End(r)
     \/ /\ ~(Cooldown /\ recent # {})
        /\ Goto(r, "supersede")
        /\ UNCHANGED <<lockVars, tok, cand>>
  /\ UNCHANGED tokenVars

\* revokeUserAuthTokens: the statement's snapshot of the unused tokens, the one
\* its own transaction has consumed left out.
SnapshotUnused(r, from, to) ==
  /\ pc[r] = from
  /\ cand' = [cand EXCEPT ![r] = {t \in Tokens : Unused(t) /\ tokLock[t] # r}]
  /\ Goto(r, to)
  /\ UNCHANGED <<tokenVars, lockVars, tok>>

\* It waits for the rows others have locked and takes those still unused.
TakeUnused(r, from, to) ==
  /\ pc[r] = from
  /\ \A t \in cand[r] : tokLock[t] = None
  /\ tokLock' = [t \in Tokens |-> IF t \in cand[r] /\ Unused(t) THEN r ELSE tokLock[t]]
  /\ Goto(r, to)
  /\ UNCHANGED <<tokenVars, userLock, tok, cand>>

Supersede(r) == SnapshotUnused(r, "supersede", "supersedeApply")

\* Faulty: the outstanding links are left as they are.
SupersedeNothing(r) == Skip(r, "supersedeApply", "issueCommit")

SupersedeApply(r) == TakeUnused(r, "supersedeApply", "issueCommit")

\* The rows a transaction consumed or superseded, once it commits.
SpendLocked(r) == [t \in Tokens |-> IF t \in LockedBy(r) THEN "used" ELSE tstate[t]]

IssueCommit(r) ==
  /\ pc[r] = "issueCommit"
  /\ \E t \in Tokens :
       /\ tstate[t] = "absent"
       /\ tstate' = [SpendLocked(r) EXCEPT ![t] = "unused"]
       /\ recent' = recent \cup {t}
  /\ superseded' = superseded \cup LockedBy(r)
  /\ End(r)
  /\ UNCHANGED expired

(***************************************************************************)
(* Presenting a link.                                                      *)
(***************************************************************************)
Present(r, t) ==
  /\ pc[r] = "idle"
  /\ tstate[t] # "absent"
  /\ tok' = [tok EXCEPT ![r] = t]
  /\ Goto(r, "consume")
  /\ UNCHANGED <<tokenVars, lockVars, cand>>

\* Faulty: the row is read first and updated by id later.
ConsumeStale(r) ==
  /\ pc[r] = "consume"
  /\ tokLock' = [tokLock EXCEPT ![tok[r]] = r]
  /\ Goto(r, "consumed")
  /\ UNCHANGED <<tokenVars, userLock, tok, cand>>

\* Faulty: a used row is deleted, and its reuse can no longer be told from a guess.
ConsumeDeletes(r) ==
  /\ pc[r] = "consume"
  /\ tokLock[tok[r]] = None
  /\ Usable(tok[r])
  /\ tstate' = [tstate EXCEPT ![tok[r]] = "deleted"]
  /\ Goto(r, "consumed")
  /\ UNCHANGED <<recent, expired, superseded, lockVars, tok, cand>>

\* Faulty: the consumption is committed at once, before the rest.
ConsumeAlone(r) ==
  /\ pc[r] = "consume"
  /\ tokLock[tok[r]] = None
  /\ Usable(tok[r])
  /\ tstate' = [tstate EXCEPT ![tok[r]] = "used"]
  /\ Goto(r, "consumed")
  /\ UNCHANGED <<recent, expired, superseded, lockVars, tok, cand>>

\* consumeAuthTokenByTokenHash: it waits for the row, then evaluates "unused and
\* not expired" on what was committed.  A rejected link is only reported.
Consume(r) ==
  /\ pc[r] = "consume"
  /\ tokLock[tok[r]] = None
  /\ \/ /\ Usable(tok[r])
        /\ tokLock' = [tokLock EXCEPT ![tok[r]] = r]
        /\ Goto(r, "consumed")
        /\ UNCHANGED <<userLock, tok, cand>>
     \/ ~Usable(tok[r]) /\ End(r)
  /\ UNCHANGED tokenVars

-----------------------------------------------------------------------------
\* The process dies, a transaction times out or the database refuses it.
Abort(r) ==
  /\ pc[r] # "idle"
  /\ End(r)
  /\ UNCHANGED tokenVars

\* A request that holds the account waits for a token row whose holder waits for
\* the account.
WaitsForUser == {"lockIssue", "lockInitial", "consumed"}
WaitCycle(i, c) ==
  /\ userLock = i
  /\ pc[c] \in WaitsForUser
  /\ \E t \in cand[i] : tokLock[t] = c

\* PostgreSQL aborts one of them.
DeadlockVictim ==
  \E i, c \in Requests :
    /\ WaitCycle(i, c)
    /\ End(i) \/ End(c)
    /\ UNCHANGED tokenVars

CooldownPasses(t) ==
  /\ t \in recent
  /\ recent' = recent \ {t}
  /\ UNCHANGED <<tstate, expired, superseded, lockVars, requestVars>>

Expire(t) ==
  /\ Usable(t)
  /\ expired' = expired \cup {t}
  /\ UNCHANGED <<tstate, recent, superseded, lockVars, requestVars>>

\* The steps common to every flow.
Issue(r) ==
  LockForIssue(r) \/ CheckCooldown(r) \/ Supersede(r) \/ SupersedeApply(r) \/ IssueCommit(r)

Passage == \E t \in Tokens : CooldownPasses(t) \/ Expire(t)

AuthTypeOK ==
  /\ tstate \in [Tokens -> {"absent", "unused", "used"}]
  /\ recent \subseteq Tokens
  /\ expired \subseteq Tokens
  /\ superseded \subseteq Tokens
  /\ tokLock \in [Tokens -> Requests \cup {None}]
  /\ userLock \in Requests \cup {None}
  /\ pc \in [Requests -> {"idle", "lockInitial", "lockIssue", "cooldown", "supersede",
                          "supersedeApply", "issueCommit", "consume", "consumed",
                          "account", "revoke", "revokeApply", "effectCommit"}]
  /\ tok \in [Requests -> Tokens \cup {None}]
  /\ cand \in [Requests -> SUBSET Tokens]

\* Only the newest link works: at most one is unused, however requests for a link
\* and uses of one interleave.
OneUnusedLink == \A s, t \in Tokens : (Unused(s) /\ Unused(t)) => s = t

\* The cooldown cannot be outrun by concurrent requests.
CooldownHolds == Cooldown => Cardinality(recent) <= 1
=============================================================================
