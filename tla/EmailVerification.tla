------------------------- MODULE EmailVerification -------------------------
(***************************************************************************)
(* Verification links of one account: registration issues the first, POST   *)
(* /auth/resend-verification a new one, POST /auth/verify-email uses one.   *)
(***************************************************************************)
EXTENDS AuthTokens

VARIABLES registered,  \* the account's row is committed
          verified,    \* users.emailVerifiedAt is set
          stamps       \* how often it was set

vars == <<authVars, registered, verified, stamps>>
accountVars == <<registered, verified, stamps>>

Init == AuthInit /\ registered = FALSE /\ verified = FALSE /\ stamps = 0

\* register: the account is committed before its first link is issued.
Register(r) ==
  /\ pc[r] = "idle"
  /\ ~registered
  /\ registered' = TRUE
  /\ Goto(r, "lockInitial")
  /\ UNCHANGED <<tokenVars, lockVars, tok, cand, verified, stamps>>

\* issueInitialEmailVerification: no cooldown, and nothing is superseded.
LockForInitial(r) == LockUserRow(r, "lockInitial", "issueCommit")

\* resendEmailVerification: the address is looked up before the transaction.
RequestResend(r) ==
  /\ pc[r] = "idle"
  /\ registered /\ ~verified
  /\ TokensLeft
  /\ Goto(r, "lockIssue")
  /\ UNCHANGED <<tokenVars, lockVars, tok, cand>>

\* verifyEmailWithToken: an account that is not verified is updated, which waits
\* for its row; one that is already verified does not match the update.
LockForStamp(r) ==
  /\ ~verified
  /\ LockUserRow(r, "consumed", "effectCommit")

FindVerified(r) ==
  /\ pc[r] = "consumed"
  /\ verified
  /\ Goto(r, "effectCommit")
  /\ UNCHANGED <<tokenVars, lockVars, tok, cand>>

\* Faulty: the update does not ask for emailVerifiedAt IS NULL.
StampAgain(r) ==
  /\ pc[r] = "effectCommit"
  /\ tstate' = SpendLocked(r)
  /\ verified' = TRUE
  /\ stamps' = stamps + 1
  /\ End(r)
  /\ UNCHANGED <<recent, expired, superseded, registered>>

VerifyCommit(r) ==
  /\ pc[r] = "effectCommit"
  /\ tstate' = SpendLocked(r)
  /\ verified' = TRUE
  /\ stamps' = IF userLock = r THEN stamps + 1 ELSE stamps
  /\ End(r)
  /\ UNCHANGED <<recent, expired, superseded, registered>>

Start(r) == RequestResend(r) \/ \E t \in Tokens : Present(r, t)

Continue(r) ==
  \/ /\ Issue(r) \/ LockForInitial(r) \/ Consume(r) \/ LockForStamp(r) \/ FindVerified(r)
     /\ UNCHANGED accountVars
  \/ VerifyCommit(r)

Next ==
  \/ \E r \in Requests : Register(r) \/ Continue(r)
  \/ \E r \in Requests : (Start(r) \/ Abort(r)) /\ UNCHANGED accountVars
  \/ (DeadlockVictim \/ Passage) /\ UNCHANGED accountVars

Spec == Init /\ [][Next]_vars

-----------------------------------------------------------------------------
TypeOK ==
  /\ AuthTypeOK
  /\ registered \in BOOLEAN
  /\ verified \in BOOLEAN
  /\ stamps \in Nat

\* "Token consumed" and "email verified" never disagree, also when a request dies
\* between the two: a used link was either superseded or verified the address.
ConsumedMeansVerified ==
  \A t \in Tokens : (tstate[t] = "used" /\ t \notin superseded) => verified

\* The time of the verification is set once, however many links are used.
StampedOnce == stamps <= 1
=============================================================================
