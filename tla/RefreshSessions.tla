-------------------------- MODULE RefreshSessions --------------------------
(***************************************************************************)
(* The rows of the `sessions` table and the HTTP requests that create,     *)
(* rotate and revoke them.  Every request is split at its database         *)
(* statements, because PostgreSQL runs them at READ COMMITTED: a statement *)
(* sees what was committed when it started, an UPDATE waits for the row    *)
(* locks of other transactions and then re-evaluates its predicate, and a  *)
(* row inserted meanwhile is invisible to it.                              *)
(*                                                                         *)
(* A session stands for its refresh token (64 random bytes, never reused)  *)
(* and a token family for the session a login created.                     *)
(***************************************************************************)
EXTENDS Naturals, FiniteSets, Concurrency

CONSTANTS Users,     \* accounts
          Sessions,  \* ids of session rows
          MaxCuts    \* bound on the guarded revocations of one account

ASSUME SessionAssumption == None \notin Sessions \cup Users
ASSUME MaxCutsAssumption == MaxCuts \in Nat

VARIABLES
  rowState,  \* "absent", "inserting" (not committed), "live", "revoked"
  owner, parent, family, gen,      \* columns of a row
  expired,   \* sessions whose expiresAt has passed
  status,    \* users.status
  cut,       \* guarded revocations committed for an account so far
  rowLock,   \* the request holding the lock of a session row
  userLock,  \* the request holding a users row FOR UPDATE
  keyShare,  \* the requests holding a users row FOR KEY SHARE
  pc, tok, subject, cand, fresh,   \* locals of a request
  burned     \* families a client was told are revoked

rowVars  == <<rowState, owner, parent, family, gen>>
lockVars == <<rowLock, userLock, keyShare>>
reqVars  == <<pc, tok, subject, cand, fresh>>
vars == <<rowVars, expired, status, cut, lockVars, reqVars, burned>>

\* SUSPENDED stands for the two statuses that refuse a login and a refresh.
Status == {"ACTIVE", "SUSPENDED"}

Committed(s) == rowState[s] \in {"live", "revoked"}
Live(s) == rowState[s] = "live"
LiveOf(S) == {s \in S : Live(s)}

\* Requests that may still insert a row; StartRefresh and StartLogin leave
\* enough unused ids for them, so that the bound on Sessions blocks no request
\* half-way.
Allocating == {q \in Requests :
                 pc[q] \in {"checkAccount", "rotateConsume", "rotateInsert", "loginInsert"}}
IdsLeft == Cardinality({s \in Sessions : rowState[s] = "absent"}) > Cardinality(Allocating)

Init ==
  /\ rowState = [s \in Sessions |-> "absent"]
  /\ owner    = [s \in Sessions |-> None]
  /\ parent   = [s \in Sessions |-> None]
  /\ family   = [s \in Sessions |-> None]
  /\ gen      = [s \in Sessions |-> 0]
  /\ expired  = {}
  /\ status   = [u \in Users |-> "ACTIVE"]
  /\ cut      = [u \in Users |-> 0]
  /\ rowLock  = [s \in Sessions |-> None]
  /\ userLock = [u \in Users |-> None]
  /\ keyShare = [u \in Users |-> {}]
  /\ pc       = [r \in Requests |-> "idle"]
  /\ tok      = [r \in Requests |-> None]
  /\ subject  = [r \in Requests |-> None]
  /\ cand     = [r \in Requests |-> {}]
  /\ fresh    = [r \in Requests |-> None]
  /\ burned   = {}

\* The request moves to its next statement, or is answered.
Goto(r, label) == pc' = [pc EXCEPT ![r] = label]
Answer(r) ==
  /\ Goto(r, "idle")
  /\ tok' = [tok EXCEPT ![r] = None]
  /\ subject' = [subject EXCEPT ![r] = None]
  /\ cand' = [cand EXCEPT ![r] = {}]
  /\ fresh' = [fresh EXCEPT ![r] = None]

(***************************************************************************)
(* POST /auth/login and /auth/register: the account is read, the password  *)
(* checked, and the row inserted later without looking at the account      *)
(* again.  The insert's foreign-key check takes the users row FOR KEY      *)
(* SHARE, so it waits for a FOR UPDATE lock.                               *)
(***************************************************************************)
StartLogin(r, u) ==
  /\ pc[r] = "idle"
  /\ status[u] = "ACTIVE"
  /\ IdsLeft
  /\ Goto(r, "loginInsert")
  /\ subject' = [subject EXCEPT ![r] = u]
  /\ UNCHANGED <<rowVars, expired, status, cut, lockVars, tok, cand, fresh, burned>>

\* createSession: a statement of its own, committed at once.
CreateSession(r) ==
  /\ pc[r] = "loginInsert"
  /\ userLock[subject[r]] = None
  /\ \E s \in Sessions :
       /\ rowState[s] = "absent"
       /\ rowState' = [rowState EXCEPT ![s] = "live"]
       /\ owner'  = [owner EXCEPT ![s] = subject[r]]
       /\ parent' = [parent EXCEPT ![s] = None]
       /\ family' = [family EXCEPT ![s] = s]
       /\ gen'    = [gen EXCEPT ![s] = cut[subject[r]]]
  /\ Answer(r)
  /\ UNCHANGED <<expired, status, cut, lockVars, burned>>

(***************************************************************************)
(* POST /auth/refresh.                                                     *)
(***************************************************************************)
\* detectRefreshTokenReuse, first query: an unrevoked row with this hash.
StartRefresh(r, t) ==
  /\ pc[r] = "idle"
  /\ Committed(t)
  /\ IdsLeft
  /\ tok' = [tok EXCEPT ![r] = t]
  /\ Goto(r, IF Live(t) THEN "checkAccount" ELSE "findSuccessor")
  /\ UNCHANGED <<rowVars, expired, status, cut, lockVars, subject, cand, fresh, burned>>

Superseded(t) == \E s \in Sessions : Committed(s) /\ parent[s] = t

\* Second query: a row that names this token as its predecessor is a reuse.
\* Without one the token is merely revoked and the request ends with a 401.
FindSuccessor(r) ==
  /\ pc[r] = "findSuccessor"
  /\ \/ /\ Superseded(tok[r])
        /\ Goto(r, "familySnapshot")
        /\ UNCHANGED <<tok, subject, cand, fresh>>
     \/ ~Superseded(tok[r]) /\ Answer(r)
  /\ UNCHANGED <<rowVars, expired, status, cut, lockVars, burned>>

MayRefresh(t) == t \notin expired /\ status[owner[t]] = "ACTIVE"

\* Faulty: a refused refresh is never answered.
CheckAccountSilently(r) ==
  /\ pc[r] = "checkAccount"
  /\ MayRefresh(tok[r])
  /\ Goto(r, "rotateConsume")
  /\ UNCHANGED <<tok, subject, cand, fresh, rowVars, expired, status, cut, lockVars, burned>>

\* The expiry and account checks between the lookup and the rotation.
CheckAccount(r) ==
  /\ pc[r] = "checkAccount"
  /\ \/ /\ MayRefresh(tok[r])
        /\ Goto(r, "rotateConsume")
        /\ UNCHANGED <<tok, subject, cand, fresh>>
     \/ ~MayRefresh(tok[r]) /\ Answer(r)
  /\ UNCHANGED <<rowVars, expired, status, cut, lockVars, burned>>

\* Faulty: the update of the consumed row does not ask for revokedAt IS NULL.
RotateConsumeById(r) ==
  /\ pc[r] = "rotateConsume"
  /\ rowLock[tok[r]] = None
  /\ rowLock' = [rowLock EXCEPT ![tok[r]] = r]
  /\ Goto(r, "rotateInsert")
  /\ UNCHANGED <<rowVars, expired, status, cut, userLock, keyShare, tok, subject, cand, fresh, burned>>

\* rotateSession, the compare-and-swap: it waits for the row's lock, then its
\* predicate (this hash, revokedAt IS NULL) is evaluated on the committed row.
RotateConsume(r) ==
  /\ pc[r] = "rotateConsume"
  /\ rowLock[tok[r]] = None
  /\ IF Live(tok[r])
     THEN /\ rowLock' = [rowLock EXCEPT ![tok[r]] = r]
          /\ Goto(r, "rotateInsert")
     ELSE /\ Goto(r, "familySnapshot")
          /\ UNCHANGED rowLock
  /\ UNCHANGED <<rowVars, expired, status, cut, userLock, keyShare, tok, subject, cand, fresh, burned>>

\* rotateSession, the successor row: the foreign-key check waits for a FOR
\* UPDATE lock on the account and holds FOR KEY SHARE until the commit.
RotateInsert(r) ==
  /\ pc[r] = "rotateInsert"
  /\ userLock[owner[tok[r]]] = None
  /\ \E s \in Sessions :
       /\ rowState[s] = "absent"
       /\ rowState' = [rowState EXCEPT ![s] = "inserting"]
       /\ owner'  = [owner EXCEPT ![s] = owner[tok[r]]]
       /\ parent' = [parent EXCEPT ![s] = tok[r]]
       /\ family' = [family EXCEPT ![s] = family[tok[r]]]
       /\ gen'    = [gen EXCEPT ![s] = gen[tok[r]]]
       /\ fresh'  = [fresh EXCEPT ![r] = s]
  /\ keyShare' = [keyShare EXCEPT ![owner[tok[r]]] = @ \cup {r}]
  /\ Goto(r, "rotateCommit")
  /\ UNCHANGED <<expired, status, cut, rowLock, userLock, tok, subject, cand, burned>>

\* Faulty: the old row is read but never revoked.
RotateCommitKeepsOld(r) ==
  /\ pc[r] = "rotateCommit"
  /\ rowState' = [rowState EXCEPT ![fresh[r]] = "live"]
  /\ rowLock' = [rowLock EXCEPT ![tok[r]] = None]
  /\ keyShare' = [keyShare EXCEPT ![owner[tok[r]]] = @ \ {r}]
  /\ Answer(r)
  /\ UNCHANGED <<owner, parent, family, gen, expired, status, cut, userLock, burned>>

RotateCommit(r) ==
  /\ pc[r] = "rotateCommit"
  /\ rowState' = [rowState EXCEPT ![tok[r]] = "revoked", ![fresh[r]] = "live"]
  /\ rowLock' = [rowLock EXCEPT ![tok[r]] = None]
  /\ keyShare' = [keyShare EXCEPT ![owner[tok[r]]] = @ \ {r}]
  /\ Answer(r)
  /\ UNCHANGED <<owner, parent, family, gen, expired, status, cut, userLock, burned>>

(***************************************************************************)
(* An updateMany of sessions: the statement fixes the rows it will try     *)
(* when it starts, waits until none of them is locked, and revokes those   *)
(* that are still live.                                                    *)
(***************************************************************************)
Unlocked(S) == \A s \in S : rowLock[s] = None
Revoke(S) == rowState' = [s \in Sessions |-> IF s \in LiveOf(S) THEN "revoked" ELSE rowState[s]]

\* revokeTokenFamily, called when a reuse was detected or a rotation lost.
FamilySnapshot(r) ==
  /\ pc[r] = "familySnapshot"
  /\ cand' = [cand EXCEPT ![r] = LiveOf({s \in Sessions : family[s] = family[tok[r]]})]
  /\ Goto(r, "familyApply")
  /\ UNCHANGED <<rowVars, expired, status, cut, lockVars, tok, subject, fresh, burned>>

\* The statement ends and the client is told that the session was revoked.
FamilyApply(r) ==
  /\ pc[r] = "familyApply"
  /\ Unlocked(cand[r])
  /\ Revoke(cand[r])
  /\ burned' = burned \cup {family[tok[r]]}
  /\ Answer(r)
  /\ UNCHANGED <<owner, parent, family, gen, expired, status, cut, lockVars>>

\* POST /auth/logout-all: revokeAllUserSessions outside any transaction.
LogoutAllSnapshot(r, u) ==
  /\ pc[r] = "idle"
  /\ status[u] = "ACTIVE"
  /\ cand' = [cand EXCEPT ![r] = LiveOf({s \in Sessions : owner[s] = u})]
  /\ Goto(r, "logoutAllApply")
  /\ UNCHANGED <<rowVars, expired, status, cut, lockVars, tok, subject, fresh, burned>>

LogoutAllApply(r) ==
  /\ pc[r] = "logoutAllApply"
  /\ Unlocked(cand[r])
  /\ Revoke(cand[r])
  /\ Answer(r)
  /\ UNCHANGED <<owner, parent, family, gen, expired, status, cut, lockVars, burned>>

\* POST /auth/logout: the row is looked up by its hash and, if it was not
\* revoked then, updated by id.
StartLogout(r, t) ==
  /\ pc[r] = "idle"
  /\ Live(t)
  /\ tok' = [tok EXCEPT ![r] = t]
  /\ Goto(r, "logoutApply")
  /\ UNCHANGED <<rowVars, expired, status, cut, lockVars, subject, cand, fresh, burned>>

\* Faulty: the row is deleted, and with it the trace a replay is recognised by.
LogoutDeletes(r) ==
  /\ pc[r] = "logoutApply"
  /\ rowLock[tok[r]] = None
  /\ rowState' = [rowState EXCEPT ![tok[r]] = "deleted"]
  /\ Answer(r)
  /\ UNCHANGED <<owner, parent, family, gen, expired, status, cut, lockVars, burned>>

LogoutApply(r) ==
  /\ pc[r] = "logoutApply"
  /\ rowLock[tok[r]] = None
  /\ rowState' = [rowState EXCEPT ![tok[r]] = "revoked"]
  /\ Answer(r)
  /\ UNCHANGED <<owner, parent, family, gen, expired, status, cut, lockVars, burned>>

(***************************************************************************)
(* A guarded revocation: an administrator changes the account's status, or *)
(* a password reset is applied.  Both take the users row FOR UPDATE before *)
(* they revoke the account's sessions, in one transaction.  A refusal under *)
(* the lock (same status, last administrator, account not active) changes   *)
(* nothing and is the Abort below.                                         *)
(***************************************************************************)
\* Faulty: a plain read of the account, or a lock that foreign-key checks do not
\* conflict with.
ReadUserRow(r, u) ==
  /\ pc[r] = "idle"
  /\ cut[u] < MaxCuts
  /\ userLock[u] = None
  /\ userLock' = [userLock EXCEPT ![u] = r]
  /\ subject' = [subject EXCEPT ![r] = u]
  /\ Goto(r, "guardSnapshot")
  /\ UNCHANGED <<rowVars, expired, status, cut, rowLock, keyShare, tok, cand, fresh, burned>>

LockUserRow(r, u) ==
  /\ pc[r] = "idle"
  /\ cut[u] < MaxCuts
  /\ userLock[u] = None
  /\ keyShare[u] = {}
  /\ userLock' = [userLock EXCEPT ![u] = r]
  /\ subject' = [subject EXCEPT ![r] = u]
  /\ Goto(r, "guardSnapshot")
  /\ UNCHANGED <<rowVars, expired, status, cut, rowLock, keyShare, tok, cand, fresh, burned>>

\* revokeAllUserSessions inside the transaction: its own snapshot.
GuardSnapshot(r) ==
  /\ pc[r] = "guardSnapshot"
  /\ cand' = [cand EXCEPT ![r] = LiveOf({s \in Sessions : owner[s] = subject[r]})]
  /\ Goto(r, "guardApply")
  /\ UNCHANGED <<rowVars, expired, status, cut, lockVars, tok, subject, fresh, burned>>

RevokeUnderLock(r) ==
  /\ pc[r] = "guardApply"
  /\ Unlocked(cand[r])
  /\ Revoke(cand[r])
  /\ cut' = [cut EXCEPT ![subject[r]] = @ + 1]
  /\ userLock' = [userLock EXCEPT ![subject[r]] = None]
  /\ Answer(r)
  /\ UNCHANGED <<owner, parent, family, gen, expired, rowLock, keyShare, burned>>

\* updateAdminUserStatus: any change of status, reactivation included, revokes.
AdminStatusCommit(r) ==
  /\ RevokeUnderLock(r)
  /\ \E next \in Status \ {status[subject[r]]} :
       status' = [status EXCEPT ![subject[r]] = next]

\* resetPasswordWithToken: only an ACTIVE account gets the new password.
PasswordResetCommit(r) ==
  /\ RevokeUnderLock(r)
  /\ status[subject[r]] = "ACTIVE"
  /\ UNCHANGED status

(***************************************************************************)
(* The request dies: the process crashes, a transaction times out, the     *)
(* database refuses it.  Its locks are released and its insert undone.     *)
(***************************************************************************)
Rollback(r) ==
  /\ rowState' = [s \in Sessions |-> IF s = fresh[r] THEN "absent" ELSE rowState[s]]
  /\ owner'  = [s \in Sessions |-> IF s = fresh[r] THEN None ELSE owner[s]]
  /\ parent' = [s \in Sessions |-> IF s = fresh[r] THEN None ELSE parent[s]]
  /\ family' = [s \in Sessions |-> IF s = fresh[r] THEN None ELSE family[s]]
  /\ gen'    = [s \in Sessions |-> IF s = fresh[r] THEN 0 ELSE gen[s]]
  /\ rowLock' = [s \in Sessions |-> IF rowLock[s] = r THEN None ELSE rowLock[s]]
  /\ userLock' = [u \in Users |-> IF userLock[u] = r THEN None ELSE userLock[u]]
  /\ keyShare' = [u \in Users |-> keyShare[u] \ {r}]
  /\ Answer(r)
  /\ UNCHANGED <<expired, status, cut, burned>>

Abort(r) == pc[r] # "idle" /\ Rollback(r)

\* A rotation holds a session row and waits for the account; a guarded
\* revocation holds the account and waits for that row.
WaitCycle(r, g) ==
  /\ pc[r] = "rotateInsert" /\ userLock[owner[tok[r]]] = g
  /\ pc[g] = "guardApply"   /\ tok[r] \in cand[g]

\* PostgreSQL's deadlock detector aborts one of the two transactions.
DeadlockVictim ==
  \E r, g \in Requests : WaitCycle(r, g) /\ (Rollback(r) \/ Rollback(g))

Expire(s) ==
  /\ Live(s)
  /\ s \notin expired
  /\ expired' = expired \cup {s}
  /\ UNCHANGED <<rowVars, status, cut, lockVars, reqVars, burned>>

-----------------------------------------------------------------------------
Start(r) ==
  \/ \E u \in Users : StartLogin(r, u) \/ LogoutAllSnapshot(r, u) \/ LockUserRow(r, u)
  \/ \E t \in Sessions : StartRefresh(r, t) \/ StartLogout(r, t)

Continue(r) ==
  \/ CreateSession(r)
  \/ FindSuccessor(r) \/ CheckAccount(r)
  \/ RotateConsume(r) \/ RotateInsert(r) \/ RotateCommit(r)
  \/ FamilySnapshot(r) \/ FamilyApply(r)
  \/ LogoutAllApply(r) \/ LogoutApply(r)
  \/ GuardSnapshot(r) \/ AdminStatusCommit(r) \/ PasswordResetCommit(r)

Next ==
  \/ \E r \in Requests : Start(r) \/ Continue(r) \/ Abort(r)
  \/ DeadlockVictim
  \/ \E s \in Sessions : Expire(s)

Spec == Init /\ [][Next]_vars

\* The event loop keeps running a request whose next statement can execute, a
\* lock is granted to its waiters in the order they came (hence strong
\* fairness: others may take it in between, but not forever), and the deadlock
\* detector runs after deadlock_timeout.  Nothing is assumed of clients,
\* crashes or expiry.
Fairness ==
  /\ \A r \in Requests : SF_vars(Continue(r))
  /\ WF_vars(DeadlockVictim)

FairSpec == Spec /\ Fairness

-----------------------------------------------------------------------------
TypeOK ==
  /\ rowState \in [Sessions -> {"absent", "inserting", "live", "revoked"}]
  /\ owner \in [Sessions -> Users \cup {None}]
  /\ parent \in [Sessions -> Sessions \cup {None}]
  /\ family \in [Sessions -> Sessions \cup {None}]
  /\ gen \in [Sessions -> Nat]
  /\ expired \subseteq Sessions
  /\ status \in [Users -> Status]
  /\ cut \in [Users -> Nat]
  /\ rowLock \in [Sessions -> Requests \cup {None}]
  /\ userLock \in [Users -> Requests \cup {None}]
  /\ keyShare \in [Users -> SUBSET Requests]
  /\ pc \in [Requests -> {"idle", "loginInsert", "checkAccount", "findSuccessor",
                          "rotateConsume", "rotateInsert", "rotateCommit",
                          "familySnapshot", "familyApply", "logoutAllApply",
                          "logoutApply", "guardSnapshot", "guardApply"}]
  /\ tok \in [Requests -> Sessions \cup {None}]
  /\ subject \in [Requests -> Users \cup {None}]
  /\ cand \in [Requests -> SUBSET Sessions]
  /\ fresh \in [Requests -> Sessions \cup {None}]
  /\ burned \subseteq Sessions

\* A refresh token is spent once: however many requests present it at the same
\* time, at most one successor is ever committed for it (rotateSession).
SingleSuccessor ==
  \A s, t \in Sessions :
    (Committed(s) /\ Committed(t) /\ parent[s] = parent[t] /\ parent[s] # None) => s = t

\* A family never has two usable tokens: rotation moves the one login forward
\* and forks it in no interleaving.
OneLivePerFamily ==
  \A s, t \in Sessions : (Live(s) /\ Live(t) /\ family[s] = family[t]) => s = t

\* No session that existed before a status change or a password reset was
\* committed is live after it, and no rotation in flight carries one across:
\* every live session descends from a login inserted after the last of them.
GuardedRevocationComplete ==
  \A s \in Sessions : Live(s) => gen[s] = cut[owner[s]]

\* A token gets a successor only in the step that spends it: a session that
\* logout, a reuse or an administrator revoked is never rotated afterwards.
RotatedWhileLive ==
  [][\A s \in Sessions :
       (~Committed(s) /\ Committed(s)' /\ parent'[s] # None) => Live(parent'[s])]_vars

\* Every request is answered, also those that wait for each other's row locks.
RequestsFinish == \A r \in Requests : (pc[r] # "idle") ~> (pc[r] = "idle")

\* What the comment in authController.test.ts says of the family: once a reuse
\* was reported, no token of the family is usable.
ReportedFamilyIsDead ==
  \A s \in Sessions : Live(s) => family[s] \notin burned
=============================================================================
