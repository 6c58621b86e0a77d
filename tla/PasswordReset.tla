--------------------------- MODULE PasswordReset ---------------------------
(***************************************************************************)
(* POST /auth/forgot-password and /auth/reset-password for one account,     *)
(* statement by statement, with an administrator changing its status.       *)
(* The revocation of the sessions in the same transaction is in             *)
(* RefreshSessions.                                                         *)
(***************************************************************************)
EXTENDS AuthTokens

VARIABLES status,   \* users.status
          applied   \* tokens whose new password was committed

vars == <<authVars, status, applied>>

Init == AuthInit /\ status = "ACTIVE" /\ applied = {}

\* requestPasswordReset: the account is read, and not again when it is locked.
RequestReset(r) ==
  /\ pc[r] = "idle"
  /\ status = "ACTIVE"
  /\ TokensLeft
  /\ Goto(r, "lockIssue")
  /\ UNCHANGED <<tokenVars, lockVars, tok, cand>>

\* Faulty: the account is read without its lock.
OwnerUnlocked(r) == Skip(r, "consumed", "account")

\* resetPasswordWithToken after the consumption: the owner is known only now.
LockOwner(r) == LockUserRow(r, "consumed", "account")

\* The account is read under the lock.
ReadAccount(r) ==
  /\ pc[r] = "account"
  /\ status = "ACTIVE"
  /\ Goto(r, "revoke")
  /\ UNCHANGED <<tokenVars, lockVars, tok, cand>>

\* The refusal of an account that is not active commits the consumption.
RefuseIneligible(r) ==
  /\ pc[r] = "account"
  /\ status # "ACTIVE"
  /\ tstate' = SpendLocked(r)
  /\ End(r)
  /\ UNCHANGED <<recent, expired, superseded>>

\* The other outstanding links.
RevokeLinks(r) == SnapshotUnused(r, "revoke", "revokeApply")
RevokeLinksApply(r) == TakeUnused(r, "revokeApply", "effectCommit")

ResetCommit(r) ==
  /\ pc[r] = "effectCommit"
  /\ tstate' = SpendLocked(r)
  /\ applied' = applied \cup {tok[r]}
  /\ superseded' = superseded \cup (LockedBy(r) \ {tok[r]})
  /\ End(r)
  /\ UNCHANGED <<recent, expired>>

\* updateAdminUserStatus, which takes the account's row FOR UPDATE.
ChangeStatus ==
  /\ userLock = None
  /\ status' \in {"ACTIVE", "SUSPENDED"} \ {status}
  /\ UNCHANGED <<authVars, applied>>

Start(r) == RequestReset(r) \/ \E t \in Tokens : Present(r, t)

Continue(r) ==
  \/ /\ \/ Issue(r) \/ Consume(r)
        \/ LockOwner(r) \/ ReadAccount(r) \/ RefuseIneligible(r)
        \/ RevokeLinks(r) \/ RevokeLinksApply(r)
     /\ UNCHANGED applied
  \/ ResetCommit(r)

Next ==
  \/ /\ \/ \E r \in Requests : (Start(r) \/ Abort(r)) /\ UNCHANGED applied
        \/ \E r \in Requests : Continue(r)
        \/ (DeadlockVictim \/ Passage) /\ UNCHANGED applied
     /\ UNCHANGED status
  \/ ChangeStatus

Spec == Init /\ [][Next]_vars

\* A lock is granted to its waiters in the order they came, so a request is not
\* overtaken for ever; the deadlock detector runs.  Nothing is assumed of
\* clients, crashes and the clock.
Fairness ==
  /\ \A r \in Requests : SF_vars(Continue(r) /\ UNCHANGED status)
  /\ WF_vars(DeadlockVictim /\ UNCHANGED <<status, applied>>)

-----------------------------------------------------------------------------
TypeOK ==
  /\ AuthTypeOK
  /\ status \in {"ACTIVE", "SUSPENDED"}
  /\ applied \subseteq Tokens

\* The password of an account that is not active is never changed, although the
\* request read the status some statements before it commits.
OnlyActiveIsReset == [][applied' # applied => status = "ACTIVE"]_vars

\* The links as SingleUseLink sees them.
link == [t \in Tokens |-> IF t \in applied THEN "applied"
                          ELSE IF tstate[t] = "absent" THEN "none"
                          ELSE IF tstate[t] = "unused" THEN "usable" ELSE "dead"]

Promise == INSTANCE SingleUseLink WITH Links <- Tokens

\* A link has its effect at most once, only while it is the newest one, and in the
\* step that spends it.
KeepsPromise == Promise!Spec

RequestsFinish == \A r \in Requests : (pc[r] # "idle") ~> (pc[r] = "idle")
=============================================================================
