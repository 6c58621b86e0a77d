--------------------------- MODULE MfaLoginProofs ---------------------------
(***************************************************************************)
(* Proofs about MfaLogin, for any number of challenges, code pages,        *)
(* sessions, secrets and requests.  The invariant has three layers, each   *)
(* proved with the one before: what a request is at and which locks it     *)
(* holds (Protocol), what is true of the rows it holds (Held), and what    *)
(* was read under a lock and is used when the transaction commits          *)
(* (Current).                                                              *)
(***************************************************************************)
EXTENDS MfaLogin, TLAPS

Change    == {"setup", "enable", "disable", "regenerate"}
Answer    == {"totp", "recovery"}
Issuance  == {"cooldown", "supersede", "supersedeApply", "issueCommit"}
Locked    == {"check", "codes", "sessions", "challenges", "challengesTake", "changeCommit"}
Inserted  == {"leftover", "leftoverTake", "loginCommit"}
Consumed  == {"consumed", "spendCode", "insertSession"} \cup Inserted

\* What a request is for says which statements it can be at.
Phases ==
  \A r \in Requests :
    /\ pc[r] = "idle"                       => op[r] = "none"
    /\ pc[r] \in {"lockChange"} \cup Locked => op[r] \in Change
    /\ pc[r] = "codes"                      => op[r] # "setup"
    /\ pc[r] \in {"sessions", "challenges", "challengesTake"} => op[r] \in {"enable", "disable"}
    /\ pc[r] \in {"lockIssue"} \cup Issuance => op[r] = "challenge"
    /\ pc[r] \in {"consume", "consumed"} \cup Inserted => op[r] \in Answer
    /\ pc[r] = "spendCode"                  => op[r] = "recovery"
    /\ pc[r] = "insertSession"              => op[r] \in Answer \cup {"password"}

\* What a request holds in its locals: nothing, or what it presents.
Presented ==
  \A r \in Requests :
    /\ op[r] \in Answer => tok[r] \in Tokens
    /\ op[r] = "recovery" => code[r] \in Codes
    /\ op[r] \notin Answer => tok[r] = None
    /\ op[r] # "recovery" => code[r] = None
    /\ fresh[r] # None <=> pc[r] \in Inserted

\* The account is held FOR UPDATE between the lock and the commit, and FOR KEY SHARE
\* by the logins that have inserted a session, and not both.
AccountLock ==
  /\ \A r \in Requests : pc[r] \in Locked \cup Issuance => userLock = r
  /\ \A r \in Requests : r \in keyShare <=> pc[r] \in Inserted
  /\ keyShare # {} => userLock = None

Protocol == TypeOK /\ Phases /\ Presented /\ AccountLock

\* A locked challenge is unused; the challenge a login answers is its own from the
\* consumption to the commit.
ChallengeLock ==
  /\ \A t \in Tokens : tokLock[t] # None =>
        Unused(t) /\ pc[tokLock[t]] \in Consumed \cup {"changeCommit", "issueCommit"}
  /\ \A r \in Requests : op[r] \in Answer /\ pc[r] \in Consumed => tokLock[tok[r]] = r
  /\ \A r \in Requests : op[r] \in Answer => tstate[tok[r]] # "absent"

\* A locked code is minted; the code a login spends is its own and unused until the commit.
CodeLock ==
  /\ \A c \in Codes : codeLock[c] # None => cstate[c] \in {"unused", "used"}
  /\ \A r \in Requests : op[r] = "recovery" /\ pc[r] \in {"insertSession"} \cup Inserted =>
        codeLock[code[r]] = r /\ cstate[code[r]] = "unused"
  /\ \A c \in Codes : codeLock[c] # None =>
        \/ pc[codeLock[c]] \in {"sessions", "challenges", "challengesTake", "changeCommit"}
        \/ pc[codeLock[c]] \in {"insertSession"} \cup Inserted /\ code[codeLock[c]] = c

\* A session row that is being inserted belongs to one login and says what it presented;
\* a row that is not there says nothing.
RowOfLogin ==
  /\ \A r \in Requests : pc[r] \in Inserted =>
        /\ sess[fresh[r]] = "inserting"
        /\ challengeOf[fresh[r]] = tok[r] /\ codeOf[fresh[r]] = code[r]
  /\ \A s \in Sessions : sess[s] = "inserting" => \E r \in Requests : fresh[r] = s
  /\ \A q, r \in Requests : fresh[q] # None /\ fresh[q] = fresh[r] => q = r
  /\ \A s \in Sessions : sess[s] = "absent" => challengeOf[s] = None /\ codeOf[s] = None

\* What a session that exists was created with is spent.
FundsAreSpent ==
  \A s \in Sessions : sess[s] \in {"live", "revoked"} =>
    /\ challengeOf[s] # None => tstate[challengeOf[s]] = "used"
    /\ codeOf[s] # None => cstate[codeOf[s]] \in {"used", "deleted"}

Held == ChallengeLock /\ CodeLock /\ RowOfLogin /\ FundsAreSpent /\ SpentOnce

\* The rows a change of the configuration found, and then locked, stay all of them,
\* because nobody adds one while the account is held.
CodesTaken(r)    == \/ pc[r] \in {"sessions", "challenges", "challengesTake"}
                    \/ pc[r] = "changeCommit" /\ op[r] # "setup"
SessionsRead(r)  == \/ pc[r] \in {"challenges", "challengesTake"}
                    \/ pc[r] = "changeCommit" /\ op[r] \in {"enable", "disable"}
ChallengesTaken(r) == pc[r] = "changeCommit" /\ op[r] \in {"enable", "disable"}

SnapshotsComplete ==
  \A r \in Requests :
    /\ CodesTaken(r) => \A c \in Codes : cstate[c] = "unused" => codeLock[c] = r
    /\ SessionsRead(r) => \A s \in Sessions : Live(s) => s \in doomed[r] \/ s = keep[r]
    /\ pc[r] = "challengesTake" => \A t \in Tokens : Unused(t) => t \in cand[r]
    /\ ChallengesTaken(r) => \A t \in Tokens : Unused(t) => tokLock[t] = r

\* What the check found under the account's lock.
CheckHolds ==
  \A r \in Requests : pc[r] \in Locked \ {"check"} =>
    /\ op[r] = "setup" => mfa # "enabled"
    /\ op[r] = "enable" => mfa = "pending"
    /\ op[r] \in {"disable", "regenerate"} => mfa = "enabled"

\* As long as its challenge is unused, a login answers the set-up in force.
AnswersInForce ==
  \A r \in Requests : op[r] \in Answer /\ Unused(tok[r]) =>
    mfa = "enabled" /\ (op[r] = "totp" => held[r] = secret)

\* The session being inserted knows the last change.
InsertedIsCurrent == \A s \in Sessions : sess[s] = "inserting" => epoch[s] = changes

Current == SnapshotsComplete /\ CheckHolds /\ AnswersInForce /\ InsertedIsCurrent
             /\ OnlyNewestPage /\ NothingOutlivesChange

IInv == Protocol /\ Held /\ Current

-----------------------------------------------------------------------------
(* What a step can be: the alternatives of an action, one by one.          *)

CheckPasses(r) ==
  /\ MayChange(r)
  /\ Step(r, "check", IF op[r] = "setup" THEN "changeCommit" ELSE "codes")
  /\ UNCHANGED <<lockVars, codeVars, keyShare, localVars>>

Issues(r) ==
  /\ pc[r] = "lockIssue" => keyShare = {}
  /\ LockForIssue(r) \/ CheckCooldown(r) \/ Supersede(r) \/ SupersedeApply(r)
  /\ UNCHANGED mfaVars

IssueCommits(r) ==
  /\ IssueCommit(r)
  /\ op' = [op EXCEPT ![r] = "none"]
  /\ UNCHANGED <<accountVars, codeVars, keyShare, sessionVars, held, code, keep, doomed, fresh>>

ConsumePasses(r) ==
  /\ tokLock[tok[r]] = None /\ Usable(tok[r])
  /\ tokLock' = [tokLock EXCEPT ![tok[r]] = r]
  /\ Step(r, "consume", "consumed")
  /\ UNCHANGED <<userLock, codeVars, keyShare, localVars>>

AccountPasses(r) ==
  /\ mfa = "enabled"
  /\ Step(r, "consumed", IF op[r] = "recovery" THEN "spendCode" ELSE "insertSession")
  /\ UNCHANGED <<lockVars, codeVars, keyShare, localVars>>

CodePasses(r) ==
  /\ codeLock[code[r]] = None /\ cstate[code[r]] = "unused"
  /\ codeLock' = [codeLock EXCEPT ![code[r]] = r]
  /\ Step(r, "spendCode", "insertSession")
  /\ UNCHANGED <<lockVars, cstate, page, keyShare, localVars>>

Refuses(r) == pc[r] \in {"check", "consume", "consumed", "spendCode"} /\ Refuse(r)

InsertLive(r) ==
  /\ pc[r] = "insertSession" /\ userLock = None /\ op[r] = "password"
  /\ \E s \in Sessions : sess[s] = "absent" /\ NewRow(r, s, "live")
  /\ Finish(r)
  /\ UNCHANGED <<tokenVars, accountVars, cstate, page>>

InsertHeld(r) ==
  /\ pc[r] = "insertSession" /\ userLock = None /\ op[r] # "password"
  /\ \E s \in Sessions : /\ sess[s] = "absent" /\ NewRow(r, s, "inserting")
                          /\ fresh' = [fresh EXCEPT ![r] = s]
  /\ keyShare' = keyShare \cup {r}
  /\ Goto(r, "leftover")
  /\ UNCHANGED <<tokenVars, accountVars, cstate, page, tok, cand, lockVars, codeLock, op, held,
                 code, keep, doomed>>

Moves(r) ==
  \/ Login(r) \/ StartSetup(r) \/ \E what \in Change \ {"setup"} : StartChange(r, what)
  \/ \E t \in Tokens : AnswerTotp(r, t) \/ \E c \in Codes : AnswerRecovery(r, t, c)
  \/ LockChange(r) \/ CheckPasses(r) \/ TakeCodes(r) \/ RevokeOthers(r)
  \/ SnapshotChallenges(r) \/ TakeChallenges(r)
  \/ CommitSetup(r) \/ CommitEnable(r) \/ CommitDisable(r) \/ CommitRegenerate(r)
  \/ Issues(r) \/ IssueCommits(r) \/ ConsumePasses(r) \/ AccountPasses(r) \/ CodePasses(r)
  \/ Refuses(r) \/ InsertLive(r) \/ InsertHeld(r)
  \/ SnapshotLeftover(r) \/ TakeLeftover(r) \/ CommitLogin(r) \/ Rollback(r)

\* Every step is one of these.
LEMMA Decompose ==
  ASSUME [Next]_vars
  PROVE  \/ \E r \in Requests : Moves(r)
         \/ ChangeStatus \/ SetupLapses \/ UNCHANGED vars
         \/ (\E s \in Sessions : Rotate(s)) \/ \E t \in Tokens : ExpireChallenge(t)
<1> USE DEF Moves
<1>1. ASSUME NEW r \in Requests, Start(r) PROVE Moves(r)
  BY <1>1 DEF Start, Change
<1>2. ASSUME NEW r \in Requests, CheckChange(r) PROVE CheckPasses(r) \/ Refuses(r)
  BY <1>2 DEF CheckChange, CheckPasses, Refuses
<1>3. ASSUME NEW r \in Requests, IssueChallenge(r) PROVE Issues(r) \/ IssueCommits(r)
  BY <1>3 DEF IssueChallenge, Issues, IssueCommits, mfaVars
<1>4. ASSUME NEW r \in Requests, ConsumeChallenge(r) PROVE ConsumePasses(r) \/ Refuses(r)
  BY <1>4 DEF ConsumeChallenge, ConsumePasses, Refuses
<1>5. ASSUME NEW r \in Requests, ReadAccount(r) PROVE AccountPasses(r) \/ Refuses(r)
  BY <1>5 DEF ReadAccount, AccountPasses, Refuses
<1>6. ASSUME NEW r \in Requests, SpendCode(r) PROVE CodePasses(r) \/ Refuses(r)
  BY <1>6 DEF SpendCode, CodePasses, Refuses
<1>7. ASSUME NEW r \in Requests, InsertSession(r) PROVE InsertLive(r) \/ InsertHeld(r)
  BY <1>7 DEF InsertSession, InsertLive, InsertHeld
<1>8. ASSUME NEW r \in Requests, Continue(r) PROVE Moves(r)
  BY <1>2, <1>3, <1>4, <1>5, <1>6, <1>7, <1>8 DEF Continue
<1> QED BY <1>1, <1>8 DEF Next, AbortRequest, BreakCycle

\* A step keeps every variable within its type (users, user_mfa, auth_tokens,
\* recovery_codes, sessions rows and the locals of the handlers).
LEMMA TypeStep ==
  ASSUME TypeOK, [Next]_vars
  PROVE  TypeOK'
<1> USE NoneAssumption, TokenAssumption, MfaAssumption, ChallengeAssumption DEF TypeOK,
   Labels, Change, tokenVars, lockVars, accountVars, codeVars, sessionVars, localVars,
   mfaVars
<1>1. ASSUME NEW r \in Requests, Login(r) PROVE TypeOK'
  BY <1>1 DEF Login, Begin, Goto
<1>2. ASSUME NEW r \in Requests, StartSetup(r) PROVE TypeOK'
  BY <1>2 DEF StartSetup, Begin, Goto
<1>3. ASSUME NEW r \in Requests, NEW what \in Change \ {"setup"}, StartChange(r, what) PROVE TypeOK'
  BY <1>3 DEF StartChange, Begin, Goto
<1>4. ASSUME NEW r \in Requests, NEW t \in Tokens, AnswerTotp(r, t) PROVE TypeOK'
  BY <1>4 DEF AnswerTotp, Usable, Begin, Goto
<1>5. ASSUME NEW r \in Requests, NEW t \in Tokens, NEW c \in Codes, AnswerRecovery(r, t, c) PROVE TypeOK'
  BY <1>5 DEF AnswerRecovery, Usable, Begin, Goto
<1>6. ASSUME NEW r \in Requests, LockChange(r) PROVE TypeOK'
  BY <1>6 DEF LockChange, Step, Goto
<1>7. ASSUME NEW r \in Requests, CheckPasses(r) PROVE TypeOK'
  BY <1>7 DEF CheckPasses, MayChange, Step, Goto
<1>8. ASSUME NEW r \in Requests, TakeCodes(r) PROVE TypeOK'
  BY <1>8 DEF TakeCodes, Step, Goto
<1>9. ASSUME NEW r \in Requests, RevokeOthers(r) PROVE TypeOK'
  BY <1>9 DEF RevokeOthers, Step, Goto
<1>10. ASSUME NEW r \in Requests, SnapshotChallenges(r) PROVE TypeOK'
  BY <1>10 DEF SnapshotChallenges, SnapshotUnused, Goto
<1>11. ASSUME NEW r \in Requests, TakeChallenges(r) PROVE TypeOK'
  BY <1>11 DEF TakeChallenges, TakeUnused, Goto
<1>12. ASSUME NEW r \in Requests, CommitSetup(r) PROVE TypeOK'
  BY <1>12 DEF CommitSetup, Ready, Finish, End, Goto
<1>13. ASSUME NEW r \in Requests, CommitEnable(r) PROVE TypeOK'
  BY <1>13 DEF CommitEnable, Ready, NewPage, RevokeDoomed, SpendChallenges, SpendLocked,
     LockedBy, Finish, End, Goto
<1>14. ASSUME NEW r \in Requests, CommitDisable(r) PROVE TypeOK'
  BY <1>14 DEF CommitDisable, Ready, RevokeDoomed, SpendChallenges, SpendLocked, LockedBy,
     Finish, End, Goto
<1>15. ASSUME NEW r \in Requests, CommitRegenerate(r) PROVE TypeOK'
  BY <1>15 DEF CommitRegenerate, Ready, NewPage, Finish, End, Goto
<1>16. ASSUME NEW r \in Requests, Issues(r) PROVE TypeOK'
  BY <1>16 DEF Issues, LockForIssue, LockUserRow, CheckCooldown, Supersede, SnapshotUnused,
     SupersedeApply, TakeUnused, Goto
<1>17. ASSUME NEW r \in Requests, IssueCommits(r) PROVE TypeOK'
  BY <1>17 DEF IssueCommits, IssueCommit, SpendLocked, LockedBy, End, Goto
<1>18. ASSUME NEW r \in Requests, ConsumePasses(r) PROVE TypeOK'
  BY <1>18 DEF ConsumePasses, Usable, Step, Goto
<1>19. ASSUME NEW r \in Requests, AccountPasses(r) PROVE TypeOK'
  BY <1>19 DEF AccountPasses, Step, Goto
<1>20. ASSUME NEW r \in Requests, CodePasses(r) PROVE TypeOK'
  BY <1>20 DEF CodePasses, Step, Goto
<1>21. ASSUME NEW r \in Requests, Refuses(r) PROVE TypeOK'
  BY <1>21 DEF Refuses, Refuse, Finish, End, Goto
<1>22. ASSUME NEW r \in Requests, InsertLive(r) PROVE TypeOK'
  BY <1>22 DEF InsertLive, NewRow, Finish, End, Goto
<1>23. ASSUME NEW r \in Requests, InsertHeld(r) PROVE TypeOK'
  BY <1>23 DEF InsertHeld, NewRow, Goto
<1>24. ASSUME NEW r \in Requests, SnapshotLeftover(r) PROVE TypeOK'
  BY <1>24 DEF SnapshotLeftover, SnapshotUnused, Goto
<1>25. ASSUME NEW r \in Requests, TakeLeftover(r) PROVE TypeOK'
  BY <1>25 DEF TakeLeftover, TakeUnused, Goto
<1>26. ASSUME NEW r \in Requests, CommitLogin(r) PROVE TypeOK'
  BY <1>26 DEF CommitLogin, SpendChallenges, SpendLocked, LockedBy, Finish, End, Goto
<1>27. ASSUME NEW r \in Requests, Rollback(r) PROVE TypeOK'
  BY <1>27 DEF Rollback, Finish, End, Goto
<1>28. CASE ChangeStatus
  BY <1>28 DEF ChangeStatus, authVars, requestVars
<1>29. CASE SetupLapses
  BY <1>29 DEF SetupLapses, authVars, requestVars
<1>30. ASSUME NEW s \in Sessions, Rotate(s) PROVE TypeOK'
  BY <1>30 DEF Rotate, authVars, requestVars
<1>31. ASSUME NEW t \in Tokens, ExpireChallenge(t) PROVE TypeOK'
  BY <1>31 DEF ExpireChallenge, Expire, Usable, requestVars
<1>32. CASE UNCHANGED vars
  BY <1>32 DEF vars, authVars, requestVars
<1> HIDE DEF TypeOK, Labels, Change
<1> QED BY Decompose, <1>1, <1>2, <1>3, <1>4, <1>5, <1>6, <1>7, <1>8, <1>9, <1>10, <1>11,
   <1>12, <1>13, <1>14, <1>15, <1>16, <1>17, <1>18, <1>19, <1>20, <1>21, <1>22, <1>23,
   <1>24, <1>25, <1>26, <1>27, <1>28, <1>29, <1>30, <1>31, <1>32 DEF Moves

\* A handler only reaches the statements of its own operation.
LEMMA PhasesStep ==
  ASSUME Protocol, [Next]_vars
  PROVE  Phases'
<1> USE NoneAssumption, TokenAssumption, MfaAssumption, ChallengeAssumption DEF Protocol,
   TypeOK, Phases, Labels, Change, Answer, Issuance, Locked, Inserted, Consumed, tokenVars,
   lockVars, accountVars, codeVars, sessionVars, localVars, mfaVars
<1>1. ASSUME NEW r \in Requests, Login(r) PROVE Phases'
  BY <1>1 DEF Login, Begin, Goto
<1>2. ASSUME NEW r \in Requests, StartSetup(r) PROVE Phases'
  BY <1>2 DEF StartSetup, Begin, Goto
<1>3. ASSUME NEW r \in Requests, NEW what \in Change \ {"setup"}, StartChange(r, what) PROVE Phases'
  BY <1>3 DEF StartChange, Begin, Goto
<1>4. ASSUME NEW r \in Requests, NEW t \in Tokens, AnswerTotp(r, t) PROVE Phases'
  BY <1>4 DEF AnswerTotp, Usable, Begin, Goto
<1>5. ASSUME NEW r \in Requests, NEW t \in Tokens, NEW c \in Codes, AnswerRecovery(r, t, c) PROVE Phases'
  BY <1>5 DEF AnswerRecovery, Usable, Begin, Goto
<1>6. ASSUME NEW r \in Requests, LockChange(r) PROVE Phases'
  BY <1>6 DEF LockChange, Step, Goto
<1>7. ASSUME NEW r \in Requests, CheckPasses(r) PROVE Phases'
  BY <1>7 DEF CheckPasses, MayChange, Step, Goto
<1>8. ASSUME NEW r \in Requests, TakeCodes(r) PROVE Phases'
  BY <1>8 DEF TakeCodes, Step, Goto
<1>9. ASSUME NEW r \in Requests, RevokeOthers(r) PROVE Phases'
  BY <1>9 DEF RevokeOthers, Step, Goto
<1>10. ASSUME NEW r \in Requests, SnapshotChallenges(r) PROVE Phases'
  BY <1>10 DEF SnapshotChallenges, SnapshotUnused, Goto
<1>11. ASSUME NEW r \in Requests, TakeChallenges(r) PROVE Phases'
  BY <1>11 DEF TakeChallenges, TakeUnused, Goto
<1>12. ASSUME NEW r \in Requests, CommitSetup(r) PROVE Phases'
  BY <1>12 DEF CommitSetup, Ready, Finish, End, Goto
<1>13. ASSUME NEW r \in Requests, CommitEnable(r) PROVE Phases'
  BY <1>13 DEF CommitEnable, Ready, NewPage, RevokeDoomed, SpendChallenges, SpendLocked,
     LockedBy, Finish, End, Goto
<1>14. ASSUME NEW r \in Requests, CommitDisable(r) PROVE Phases'
  BY <1>14 DEF CommitDisable, Ready, RevokeDoomed, SpendChallenges, SpendLocked, LockedBy,
     Finish, End, Goto
<1>15. ASSUME NEW r \in Requests, CommitRegenerate(r) PROVE Phases'
  BY <1>15 DEF CommitRegenerate, Ready, NewPage, Finish, End, Goto
<1>16. ASSUME NEW r \in Requests, Issues(r) PROVE Phases'
  BY <1>16 DEF Issues, LockForIssue, LockUserRow, CheckCooldown, Supersede, SnapshotUnused,
     SupersedeApply, TakeUnused, Goto
<1>17. ASSUME NEW r \in Requests, IssueCommits(r) PROVE Phases'
  BY <1>17 DEF IssueCommits, IssueCommit, SpendLocked, LockedBy, End, Goto
<1>18. ASSUME NEW r \in Requests, ConsumePasses(r) PROVE Phases'
  BY <1>18 DEF ConsumePasses, Usable, Step, Goto
<1>19. ASSUME NEW r \in Requests, AccountPasses(r) PROVE Phases'
  BY <1>19 DEF AccountPasses, Step, Goto
<1>20. ASSUME NEW r \in Requests, CodePasses(r) PROVE Phases'
  BY <1>20 DEF CodePasses, Step, Goto
<1>21. ASSUME NEW r \in Requests, Refuses(r) PROVE Phases'
  BY <1>21 DEF Refuses, Refuse, Finish, End, Goto
<1>22. ASSUME NEW r \in Requests, InsertLive(r) PROVE Phases'
  BY <1>22 DEF InsertLive, NewRow, Finish, End, Goto
<1>23. ASSUME NEW r \in Requests, InsertHeld(r) PROVE Phases'
  BY <1>23 DEF InsertHeld, NewRow, Goto
<1>24. ASSUME NEW r \in Requests, SnapshotLeftover(r) PROVE Phases'
  BY <1>24 DEF SnapshotLeftover, SnapshotUnused, Goto
<1>25. ASSUME NEW r \in Requests, TakeLeftover(r) PROVE Phases'
  BY <1>25 DEF TakeLeftover, TakeUnused, Goto
<1>26. ASSUME NEW r \in Requests, CommitLogin(r) PROVE Phases'
  BY <1>26 DEF CommitLogin, SpendChallenges, SpendLocked, LockedBy, Finish, End, Goto
<1>27. ASSUME NEW r \in Requests, Rollback(r) PROVE Phases'
  BY <1>27 DEF Rollback, Finish, End, Goto
<1>28. CASE ChangeStatus
  BY <1>28 DEF ChangeStatus, authVars, requestVars
<1>29. CASE SetupLapses
  BY <1>29 DEF SetupLapses, authVars, requestVars
<1>30. ASSUME NEW s \in Sessions, Rotate(s) PROVE Phases'
  BY <1>30 DEF Rotate, authVars, requestVars
<1>31. ASSUME NEW t \in Tokens, ExpireChallenge(t) PROVE Phases'
  BY <1>31 DEF ExpireChallenge, Expire, Usable, requestVars
<1>32. CASE UNCHANGED vars
  BY <1>32 DEF vars, authVars, requestVars
<1> HIDE DEF Protocol, TypeOK, Phases, Labels, Change, Answer, Issuance, Locked, Inserted, Consumed
<1> QED BY Decompose, <1>1, <1>2, <1>3, <1>4, <1>5, <1>6, <1>7, <1>8, <1>9, <1>10, <1>11,
   <1>12, <1>13, <1>14, <1>15, <1>16, <1>17, <1>18, <1>19, <1>20, <1>21, <1>22, <1>23,
   <1>24, <1>25, <1>26, <1>27, <1>28, <1>29, <1>30, <1>31, <1>32 DEF Moves

\* A request's locals are what it presented, from its arrival to its answer.
LEMMA PresentedStep ==
  ASSUME Protocol, [Next]_vars
  PROVE  Presented'
<1> USE NoneAssumption, TokenAssumption, MfaAssumption, ChallengeAssumption DEF Protocol,
   TypeOK, Phases, Presented, Labels, Change, Answer, Issuance, Locked, Inserted, Consumed,
   tokenVars, lockVars, accountVars, codeVars, sessionVars, localVars, mfaVars
<1>1. ASSUME NEW r \in Requests, Login(r) PROVE Presented'
  BY <1>1 DEF Login, Begin, Goto
<1>2. ASSUME NEW r \in Requests, StartSetup(r) PROVE Presented'
  BY <1>2 DEF StartSetup, Begin, Goto
<1>3. ASSUME NEW r \in Requests, NEW what \in Change \ {"setup"}, StartChange(r, what) PROVE Presented'
  BY <1>3 DEF StartChange, Begin, Goto
<1>4. ASSUME NEW r \in Requests, NEW t \in Tokens, AnswerTotp(r, t) PROVE Presented'
  BY <1>4 DEF AnswerTotp, Usable, Begin, Goto
<1>5. ASSUME NEW r \in Requests, NEW t \in Tokens, NEW c \in Codes, AnswerRecovery(r, t, c) PROVE Presented'
  BY <1>5 DEF AnswerRecovery, Usable, Begin, Goto
<1>6. ASSUME NEW r \in Requests, LockChange(r) PROVE Presented'
  BY <1>6 DEF LockChange, Step, Goto
<1>7. ASSUME NEW r \in Requests, CheckPasses(r) PROVE Presented'
  BY <1>7 DEF CheckPasses, MayChange, Step, Goto
<1>8. ASSUME NEW r \in Requests, TakeCodes(r) PROVE Presented'
  BY <1>8 DEF TakeCodes, Step, Goto
<1>9. ASSUME NEW r \in Requests, RevokeOthers(r) PROVE Presented'
  BY <1>9 DEF RevokeOthers, Step, Goto
<1>10. ASSUME NEW r \in Requests, SnapshotChallenges(r) PROVE Presented'
  BY <1>10 DEF SnapshotChallenges, SnapshotUnused, Goto
<1>11. ASSUME NEW r \in Requests, TakeChallenges(r) PROVE Presented'
  BY <1>11 DEF TakeChallenges, TakeUnused, Goto
<1>12. ASSUME NEW r \in Requests, CommitSetup(r) PROVE Presented'
  BY <1>12 DEF CommitSetup, Ready, Finish, End, Goto
<1>13. ASSUME NEW r \in Requests, CommitEnable(r) PROVE Presented'
  BY <1>13 DEF CommitEnable, Ready, NewPage, RevokeDoomed, SpendChallenges, SpendLocked,
     LockedBy, Finish, End, Goto
<1>14. ASSUME NEW r \in Requests, CommitDisable(r) PROVE Presented'
  BY <1>14 DEF CommitDisable, Ready, RevokeDoomed, SpendChallenges, SpendLocked, LockedBy,
     Finish, End, Goto
<1>15. ASSUME NEW r \in Requests, CommitRegenerate(r) PROVE Presented'
  BY <1>15 DEF CommitRegenerate, Ready, NewPage, Finish, End, Goto
<1>16. ASSUME NEW r \in Requests, Issues(r) PROVE Presented'
  BY <1>16 DEF Issues, LockForIssue, LockUserRow, CheckCooldown, Supersede, SnapshotUnused,
     SupersedeApply, TakeUnused, Goto
<1>17. ASSUME NEW r \in Requests, IssueCommits(r) PROVE Presented'
  BY <1>17 DEF IssueCommits, IssueCommit, SpendLocked, LockedBy, End, Goto
<1>18. ASSUME NEW r \in Requests, ConsumePasses(r) PROVE Presented'
  BY <1>18 DEF ConsumePasses, Usable, Step, Goto
<1>19. ASSUME NEW r \in Requests, AccountPasses(r) PROVE Presented'
  BY <1>19 DEF AccountPasses, Step, Goto
<1>20. ASSUME NEW r \in Requests, CodePasses(r) PROVE Presented'
  BY <1>20 DEF CodePasses, Step, Goto
<1>21. ASSUME NEW r \in Requests, Refuses(r) PROVE Presented'
  BY <1>21 DEF Refuses, Refuse, Finish, End, Goto
<1>22. ASSUME NEW r \in Requests, InsertLive(r) PROVE Presented'
  BY <1>22 DEF InsertLive, NewRow, Finish, End, Goto
<1>23. ASSUME NEW r \in Requests, InsertHeld(r) PROVE Presented'
  BY <1>23 DEF InsertHeld, NewRow, Goto
<1>24. ASSUME NEW r \in Requests, SnapshotLeftover(r) PROVE Presented'
  BY <1>24 DEF SnapshotLeftover, SnapshotUnused, Goto
<1>25. ASSUME NEW r \in Requests, TakeLeftover(r) PROVE Presented'
  BY <1>25 DEF TakeLeftover, TakeUnused, Goto
<1>26. ASSUME NEW r \in Requests, CommitLogin(r) PROVE Presented'
  BY <1>26 DEF CommitLogin, SpendChallenges, SpendLocked, LockedBy, Finish, End, Goto
<1>27. ASSUME NEW r \in Requests, Rollback(r) PROVE Presented'
  BY <1>27 DEF Rollback, Finish, End, Goto
<1>28. CASE ChangeStatus
  BY <1>28 DEF ChangeStatus, authVars, requestVars
<1>29. CASE SetupLapses
  BY <1>29 DEF SetupLapses, authVars, requestVars
<1>30. ASSUME NEW s \in Sessions, Rotate(s) PROVE Presented'
  BY <1>30 DEF Rotate, authVars, requestVars
<1>31. ASSUME NEW t \in Tokens, ExpireChallenge(t) PROVE Presented'
  BY <1>31 DEF ExpireChallenge, Expire, Usable, requestVars
<1>32. CASE UNCHANGED vars
  BY <1>32 DEF vars, authVars, requestVars
<1> HIDE DEF Protocol, TypeOK, Phases, Presented, Labels, Change, Answer, Issuance, Locked, Inserted, Consumed
<1> QED BY Decompose, <1>1, <1>2, <1>3, <1>4, <1>5, <1>6, <1>7, <1>8, <1>9, <1>10, <1>11,
   <1>12, <1>13, <1>14, <1>15, <1>16, <1>17, <1>18, <1>19, <1>20, <1>21, <1>22, <1>23,
   <1>24, <1>25, <1>26, <1>27, <1>28, <1>29, <1>30, <1>31, <1>32 DEF Moves

\* lockUserRow keeps others out: the account is held by the change or the issue
\* that is past its lock, or shared by the logins that have inserted a session.
LEMMA AccountLockStep ==
  ASSUME Protocol, [Next]_vars
  PROVE  AccountLock'
<1> USE NoneAssumption, TokenAssumption, MfaAssumption, ChallengeAssumption DEF Protocol,
   TypeOK, Phases, AccountLock, Labels, Change, Answer, Issuance, Locked, Inserted,
   Consumed, tokenVars, lockVars, accountVars, codeVars, sessionVars, localVars, mfaVars
<1>1. ASSUME NEW r \in Requests, Login(r) PROVE AccountLock'
  BY <1>1 DEF Login, Begin, Goto
<1>2. ASSUME NEW r \in Requests, StartSetup(r) PROVE AccountLock'
  BY <1>2 DEF StartSetup, Begin, Goto
<1>3. ASSUME NEW r \in Requests, NEW what \in Change \ {"setup"}, StartChange(r, what) PROVE AccountLock'
  BY <1>3 DEF StartChange, Begin, Goto
<1>4. ASSUME NEW r \in Requests, NEW t \in Tokens, AnswerTotp(r, t) PROVE AccountLock'
  BY <1>4 DEF AnswerTotp, Usable, Begin, Goto
<1>5. ASSUME NEW r \in Requests, NEW t \in Tokens, NEW c \in Codes, AnswerRecovery(r, t, c) PROVE AccountLock'
  BY <1>5 DEF AnswerRecovery, Usable, Begin, Goto
<1>6. ASSUME NEW r \in Requests, LockChange(r) PROVE AccountLock'
  BY <1>6 DEF LockChange, Step, Goto
<1>7. ASSUME NEW r \in Requests, CheckPasses(r) PROVE AccountLock'
  BY <1>7 DEF CheckPasses, MayChange, Step, Goto
<1>8. ASSUME NEW r \in Requests, TakeCodes(r) PROVE AccountLock'
  BY <1>8 DEF TakeCodes, Step, Goto
<1>9. ASSUME NEW r \in Requests, RevokeOthers(r) PROVE AccountLock'
  BY <1>9 DEF RevokeOthers, Step, Goto
<1>10. ASSUME NEW r \in Requests, SnapshotChallenges(r) PROVE AccountLock'
  BY <1>10 DEF SnapshotChallenges, SnapshotUnused, Goto
<1>11. ASSUME NEW r \in Requests, TakeChallenges(r) PROVE AccountLock'
  BY <1>11 DEF TakeChallenges, TakeUnused, Goto
<1>12. ASSUME NEW r \in Requests, CommitSetup(r) PROVE AccountLock'
  BY <1>12 DEF CommitSetup, Ready, Finish, End, Goto
<1>13. ASSUME NEW r \in Requests, CommitEnable(r) PROVE AccountLock'
  BY <1>13 DEF CommitEnable, Ready, NewPage, RevokeDoomed, SpendChallenges, SpendLocked,
     LockedBy, Finish, End, Goto
<1>14. ASSUME NEW r \in Requests, CommitDisable(r) PROVE AccountLock'
  BY <1>14 DEF CommitDisable, Ready, RevokeDoomed, SpendChallenges, SpendLocked, LockedBy,
     Finish, End, Goto
<1>15. ASSUME NEW r \in Requests, CommitRegenerate(r) PROVE AccountLock'
  BY <1>15 DEF CommitRegenerate, Ready, NewPage, Finish, End, Goto
<1>16. ASSUME NEW r \in Requests, Issues(r) PROVE AccountLock'
  BY <1>16 DEF Issues, LockForIssue, LockUserRow, CheckCooldown, Supersede, SnapshotUnused,
     SupersedeApply, TakeUnused, Goto
<1>17. ASSUME NEW r \in Requests, IssueCommits(r) PROVE AccountLock'
  BY <1>17 DEF IssueCommits, IssueCommit, SpendLocked, LockedBy, End, Goto
<1>18. ASSUME NEW r \in Requests, ConsumePasses(r) PROVE AccountLock'
  BY <1>18 DEF ConsumePasses, Usable, Step, Goto
<1>19. ASSUME NEW r \in Requests, AccountPasses(r) PROVE AccountLock'
  BY <1>19 DEF AccountPasses, Step, Goto
<1>20. ASSUME NEW r \in Requests, CodePasses(r) PROVE AccountLock'
  BY <1>20 DEF CodePasses, Step, Goto
<1>21. ASSUME NEW r \in Requests, Refuses(r) PROVE AccountLock'
  BY <1>21 DEF Refuses, Refuse, Finish, End, Goto
<1>22. ASSUME NEW r \in Requests, InsertLive(r) PROVE AccountLock'
  BY <1>22 DEF InsertLive, NewRow, Finish, End, Goto
<1>23. ASSUME NEW r \in Requests, InsertHeld(r) PROVE AccountLock'
  BY <1>23 DEF InsertHeld, NewRow, Goto
<1>24. ASSUME NEW r \in Requests, SnapshotLeftover(r) PROVE AccountLock'
  BY <1>24 DEF SnapshotLeftover, SnapshotUnused, Goto
<1>25. ASSUME NEW r \in Requests, TakeLeftover(r) PROVE AccountLock'
  BY <1>25 DEF TakeLeftover, TakeUnused, Goto
<1>26. ASSUME NEW r \in Requests, CommitLogin(r) PROVE AccountLock'
  BY <1>26 DEF CommitLogin, SpendChallenges, SpendLocked, LockedBy, Finish, End, Goto
<1>27. ASSUME NEW r \in Requests, Rollback(r) PROVE AccountLock'
  BY <1>27 DEF Rollback, Finish, End, Goto
<1>28. CASE ChangeStatus
  BY <1>28 DEF ChangeStatus, authVars, requestVars
<1>29. CASE SetupLapses
  BY <1>29 DEF SetupLapses, authVars, requestVars
<1>30. ASSUME NEW s \in Sessions, Rotate(s) PROVE AccountLock'
  BY <1>30 DEF Rotate, authVars, requestVars
<1>31. ASSUME NEW t \in Tokens, ExpireChallenge(t) PROVE AccountLock'
  BY <1>31 DEF ExpireChallenge, Expire, Usable, requestVars
<1>32. CASE UNCHANGED vars
  BY <1>32 DEF vars, authVars, requestVars
<1> HIDE DEF Protocol, TypeOK, Phases, AccountLock, Labels, Change, Answer, Issuance, Locked, Inserted, Consumed
<1> QED BY Decompose, <1>1, <1>2, <1>3, <1>4, <1>5, <1>6, <1>7, <1>8, <1>9, <1>10, <1>11,
   <1>12, <1>13, <1>14, <1>15, <1>16, <1>17, <1>18, <1>19, <1>20, <1>21, <1>22, <1>23,
   <1>24, <1>25, <1>26, <1>27, <1>28, <1>29, <1>30, <1>31, <1>32 DEF Moves

\* consumeAuthTokenByTokenHash: the challenge a login consumed is unused and its own
\* until the transaction ends.
LEMMA ChallengeLockStep ==
  ASSUME Protocol, ChallengeLock, [Next]_vars
  PROVE  ChallengeLock'
<1> USE NoneAssumption, TokenAssumption, MfaAssumption, ChallengeAssumption DEF Protocol,
   TypeOK, Phases, Presented, AccountLock, Labels, Unused, Live, Change, Answer, Issuance,
   Locked, Inserted, Consumed, ChallengeLock, tokenVars, lockVars, accountVars, codeVars,
   sessionVars, localVars, mfaVars
<1>1. ASSUME NEW r \in Requests, Login(r) PROVE ChallengeLock'
  BY <1>1 DEF Login, Begin, Goto
<1>2. ASSUME NEW r \in Requests, StartSetup(r) PROVE ChallengeLock'
  BY <1>2 DEF StartSetup, Begin, Goto
<1>3. ASSUME NEW r \in Requests, NEW what \in Change \ {"setup"}, StartChange(r, what) PROVE ChallengeLock'
  BY <1>3 DEF StartChange, Begin, Goto
<1>4. ASSUME NEW r \in Requests, NEW t \in Tokens, AnswerTotp(r, t) PROVE ChallengeLock'
  BY <1>4 DEF AnswerTotp, Usable, Begin, Goto
<1>5. ASSUME NEW r \in Requests, NEW t \in Tokens, NEW c \in Codes, AnswerRecovery(r, t, c) PROVE ChallengeLock'
  BY <1>5 DEF AnswerRecovery, Usable, Begin, Goto
<1>6. ASSUME NEW r \in Requests, LockChange(r) PROVE ChallengeLock'
  BY <1>6 DEF LockChange, Step, Goto
<1>7. ASSUME NEW r \in Requests, CheckPasses(r) PROVE ChallengeLock'
  BY <1>7 DEF CheckPasses, MayChange, Step, Goto
<1>8. ASSUME NEW r \in Requests, TakeCodes(r) PROVE ChallengeLock'
  BY <1>8 DEF TakeCodes, Step, Goto
<1>9. ASSUME NEW r \in Requests, RevokeOthers(r) PROVE ChallengeLock'
  BY <1>9 DEF RevokeOthers, Step, Goto
<1>10. ASSUME NEW r \in Requests, SnapshotChallenges(r) PROVE ChallengeLock'
  BY <1>10 DEF SnapshotChallenges, SnapshotUnused, Goto
<1>11. ASSUME NEW r \in Requests, TakeChallenges(r) PROVE ChallengeLock'
  BY <1>11 DEF TakeChallenges, TakeUnused, Goto
<1>12. ASSUME NEW r \in Requests, CommitSetup(r) PROVE ChallengeLock'
  BY <1>12 DEF CommitSetup, Ready, Finish, End, Goto
<1>13. ASSUME NEW r \in Requests, CommitEnable(r) PROVE ChallengeLock'
  BY <1>13 DEF CommitEnable, Ready, NewPage, RevokeDoomed, SpendChallenges, SpendLocked,
     LockedBy, Finish, End, Goto
<1>14. ASSUME NEW r \in Requests, CommitDisable(r) PROVE ChallengeLock'
  BY <1>14 DEF CommitDisable, Ready, RevokeDoomed, SpendChallenges, SpendLocked, LockedBy,
     Finish, End, Goto
<1>15. ASSUME NEW r \in Requests, CommitRegenerate(r) PROVE ChallengeLock'
  BY <1>15 DEF CommitRegenerate, Ready, NewPage, Finish, End, Goto
<1>16. ASSUME NEW r \in Requests, Issues(r) PROVE ChallengeLock'
  BY <1>16, SMTT(30) DEF Issues, LockForIssue, LockUserRow, CheckCooldown, Supersede, SnapshotUnused,
     SupersedeApply, TakeUnused, Goto
<1>17. ASSUME NEW r \in Requests, IssueCommits(r) PROVE ChallengeLock'
  <2>1. PICK t \in Tokens : /\ tstate[t] = "absent"
                            /\ tstate' = [SpendLocked(r) EXCEPT ![t] = "unused"]
    BY <1>17 DEF IssueCommits, IssueCommit
  <2>2. /\ \A u \in Tokens : tokLock'[u] = IF tokLock[u] = r THEN None ELSE tokLock[u]
        /\ pc[r] = "issueCommit" /\ pc' = [pc EXCEPT ![r] = "idle"]
        /\ tok' = [tok EXCEPT ![r] = None] /\ op' = [op EXCEPT ![r] = "none"]
    BY <1>17 DEF IssueCommits, IssueCommit, End, Goto
  <2>3. /\ tstate'[t] = "unused" /\ tokLock[t] = None
        /\ \A u \in Tokens \ {t} : tstate'[u] = IF tokLock[u] = r THEN "used" ELSE tstate[u]
    BY <2>1 DEF SpendLocked, LockedBy
  <2>4. \A o \in Requests \ {r} : op'[o] = op[o] /\ pc'[o] = pc[o] /\ tok'[o] = tok[o]
    BY <2>2
  <2>5. \A u \in Tokens : tokLock'[u] # None => tokLock[u] = tokLock'[u] /\ tokLock[u] # r /\ u # t
    BY <2>2, <2>3
  <2> QED BY <2>2, <2>3, <2>4, <2>5, SMTT(30)
<1>18. ASSUME NEW r \in Requests, ConsumePasses(r) PROVE ChallengeLock'
  BY <1>18 DEF ConsumePasses, Usable, Step, Goto
<1>19. ASSUME NEW r \in Requests, AccountPasses(r) PROVE ChallengeLock'
  BY <1>19 DEF AccountPasses, Step, Goto
<1>20. ASSUME NEW r \in Requests, CodePasses(r) PROVE ChallengeLock'
  BY <1>20 DEF CodePasses, Step, Goto
<1>21. ASSUME NEW r \in Requests, Refuses(r) PROVE ChallengeLock'
  BY <1>21 DEF Refuses, Refuse, Finish, End, Goto
<1>22. ASSUME NEW r \in Requests, InsertLive(r) PROVE ChallengeLock'
  BY <1>22 DEF InsertLive, NewRow, Finish, End, Goto
<1>23. ASSUME NEW r \in Requests, InsertHeld(r) PROVE ChallengeLock'
  BY <1>23 DEF InsertHeld, NewRow, Goto
<1>24. ASSUME NEW r \in Requests, SnapshotLeftover(r) PROVE ChallengeLock'
  BY <1>24 DEF SnapshotLeftover, SnapshotUnused, Goto
<1>25. ASSUME NEW r \in Requests, TakeLeftover(r) PROVE ChallengeLock'
  BY <1>25 DEF TakeLeftover, TakeUnused, Goto
<1>26. ASSUME NEW r \in Requests, CommitLogin(r) PROVE ChallengeLock'
  BY <1>26 DEF CommitLogin, SpendChallenges, SpendLocked, LockedBy, Finish, End, Goto
<1>27. ASSUME NEW r \in Requests, Rollback(r) PROVE ChallengeLock'
  BY <1>27 DEF Rollback, Finish, End, Goto
<1>28. CASE ChangeStatus
  BY <1>28 DEF ChangeStatus, authVars, requestVars
<1>29. CASE SetupLapses
  BY <1>29 DEF SetupLapses, authVars, requestVars
<1>30. ASSUME NEW s \in Sessions, Rotate(s) PROVE ChallengeLock'
  BY <1>30 DEF Rotate, authVars, requestVars
<1>31. ASSUME NEW t \in Tokens, ExpireChallenge(t) PROVE ChallengeLock'
  BY <1>31 DEF ExpireChallenge, Expire, Usable, requestVars
<1>32. CASE UNCHANGED vars
  BY <1>32 DEF vars, authVars, requestVars
<1> HIDE DEF Protocol, TypeOK, Phases, Presented, AccountLock, Labels, Unused, Live, Change, Answer, Issuance, Locked, Inserted, Consumed, ChallengeLock
<1> QED BY Decompose, <1>1, <1>2, <1>3, <1>4, <1>5, <1>6, <1>7, <1>8, <1>9, <1>10, <1>11,
   <1>12, <1>13, <1>14, <1>15, <1>16, <1>17, <1>18, <1>19, <1>20, <1>21, <1>22, <1>23,
   <1>24, <1>25, <1>26, <1>27, <1>28, <1>29, <1>30, <1>31, <1>32 DEF Moves

\* The conditional update of a recovery code: the code is unused and its own until the
\* transaction ends.
LEMMA CodeLockStep ==
  ASSUME Protocol, CodeLock, [Next]_vars
  PROVE  CodeLock'
<1> USE NoneAssumption, TokenAssumption, MfaAssumption, ChallengeAssumption DEF Protocol,
   TypeOK, Phases, Presented, AccountLock, Labels, Unused, Live, Change, Answer, Issuance,
   Locked, Inserted, Consumed, CodeLock, tokenVars, lockVars, accountVars, codeVars,
   sessionVars, localVars, mfaVars
<1>1. ASSUME NEW r \in Requests, Login(r) PROVE CodeLock'
  BY <1>1 DEF Login, Begin, Goto
<1>2. ASSUME NEW r \in Requests, StartSetup(r) PROVE CodeLock'
  BY <1>2 DEF StartSetup, Begin, Goto
<1>3. ASSUME NEW r \in Requests, NEW what \in Change \ {"setup"}, StartChange(r, what) PROVE CodeLock'
  BY <1>3 DEF StartChange, Begin, Goto
<1>4. ASSUME NEW r \in Requests, NEW t \in Tokens, AnswerTotp(r, t) PROVE CodeLock'
  BY <1>4 DEF AnswerTotp, Usable, Begin, Goto
<1>5. ASSUME NEW r \in Requests, NEW t \in Tokens, NEW c \in Codes, AnswerRecovery(r, t, c) PROVE CodeLock'
  BY <1>5 DEF AnswerRecovery, Usable, Begin, Goto
<1>6. ASSUME NEW r \in Requests, LockChange(r) PROVE CodeLock'
  BY <1>6 DEF LockChange, Step, Goto
<1>7. ASSUME NEW r \in Requests, CheckPasses(r) PROVE CodeLock'
  BY <1>7 DEF CheckPasses, MayChange, Step, Goto
<1>8. ASSUME NEW r \in Requests, TakeCodes(r) PROVE CodeLock'
  BY <1>8 DEF TakeCodes, Step, Goto
<1>9. ASSUME NEW r \in Requests, RevokeOthers(r) PROVE CodeLock'
  BY <1>9 DEF RevokeOthers, Step, Goto
<1>10. ASSUME NEW r \in Requests, SnapshotChallenges(r) PROVE CodeLock'
  BY <1>10 DEF SnapshotChallenges, SnapshotUnused, Goto
<1>11. ASSUME NEW r \in Requests, TakeChallenges(r) PROVE CodeLock'
  BY <1>11 DEF TakeChallenges, TakeUnused, Goto
<1>12. ASSUME NEW r \in Requests, CommitSetup(r) PROVE CodeLock'
  BY <1>12 DEF CommitSetup, Ready, Finish, End, Goto
<1>13. ASSUME NEW r \in Requests, CommitEnable(r) PROVE CodeLock'
  BY <1>13 DEF CommitEnable, Ready, NewPage, RevokeDoomed, SpendChallenges, SpendLocked,
     LockedBy, Finish, End, Goto
<1>14. ASSUME NEW r \in Requests, CommitDisable(r) PROVE CodeLock'
  BY <1>14 DEF CommitDisable, Ready, RevokeDoomed, SpendChallenges, SpendLocked, LockedBy,
     Finish, End, Goto
<1>15. ASSUME NEW r \in Requests, CommitRegenerate(r) PROVE CodeLock'
  BY <1>15 DEF CommitRegenerate, Ready, NewPage, Finish, End, Goto
<1>16. ASSUME NEW r \in Requests, Issues(r) PROVE CodeLock'
  BY <1>16 DEF Issues, LockForIssue, LockUserRow, CheckCooldown, Supersede, SnapshotUnused,
     SupersedeApply, TakeUnused, Goto
<1>17. ASSUME NEW r \in Requests, IssueCommits(r) PROVE CodeLock'
  BY <1>17 DEF IssueCommits, IssueCommit, SpendLocked, LockedBy, End, Goto
<1>18. ASSUME NEW r \in Requests, ConsumePasses(r) PROVE CodeLock'
  BY <1>18 DEF ConsumePasses, Usable, Step, Goto
<1>19. ASSUME NEW r \in Requests, AccountPasses(r) PROVE CodeLock'
  BY <1>19 DEF AccountPasses, Step, Goto
<1>20. ASSUME NEW r \in Requests, CodePasses(r) PROVE CodeLock'
  BY <1>20 DEF CodePasses, Step, Goto
<1>21. ASSUME NEW r \in Requests, Refuses(r) PROVE CodeLock'
  BY <1>21 DEF Refuses, Refuse, Finish, End, Goto
<1>22. ASSUME NEW r \in Requests, InsertLive(r) PROVE CodeLock'
  BY <1>22 DEF InsertLive, NewRow, Finish, End, Goto
<1>23. ASSUME NEW r \in Requests, InsertHeld(r) PROVE CodeLock'
  BY <1>23 DEF InsertHeld, NewRow, Goto
<1>24. ASSUME NEW r \in Requests, SnapshotLeftover(r) PROVE CodeLock'
  BY <1>24 DEF SnapshotLeftover, SnapshotUnused, Goto
<1>25. ASSUME NEW r \in Requests, TakeLeftover(r) PROVE CodeLock'
  BY <1>25 DEF TakeLeftover, TakeUnused, Goto
<1>26. ASSUME NEW r \in Requests, CommitLogin(r) PROVE CodeLock'
  BY <1>26 DEF CommitLogin, SpendChallenges, SpendLocked, LockedBy, Finish, End, Goto
<1>27. ASSUME NEW r \in Requests, Rollback(r) PROVE CodeLock'
  BY <1>27 DEF Rollback, Finish, End, Goto
<1>28. CASE ChangeStatus
  BY <1>28 DEF ChangeStatus, authVars, requestVars
<1>29. CASE SetupLapses
  BY <1>29 DEF SetupLapses, authVars, requestVars
<1>30. ASSUME NEW s \in Sessions, Rotate(s) PROVE CodeLock'
  BY <1>30 DEF Rotate, authVars, requestVars
<1>31. ASSUME NEW t \in Tokens, ExpireChallenge(t) PROVE CodeLock'
  BY <1>31 DEF ExpireChallenge, Expire, Usable, requestVars
<1>32. CASE UNCHANGED vars
  BY <1>32 DEF vars, authVars, requestVars
<1> HIDE DEF Protocol, TypeOK, Phases, Presented, AccountLock, Labels, Unused, Live, Change, Answer, Issuance, Locked, Inserted, Consumed, CodeLock
<1> QED BY Decompose, <1>1, <1>2, <1>3, <1>4, <1>5, <1>6, <1>7, <1>8, <1>9, <1>10, <1>11,
   <1>12, <1>13, <1>14, <1>15, <1>16, <1>17, <1>18, <1>19, <1>20, <1>21, <1>22, <1>23,
   <1>24, <1>25, <1>26, <1>27, <1>28, <1>29, <1>30, <1>31, <1>32 DEF Moves

\* The session.create of a login: the row is its own until the transaction ends.
LEMMA RowOfLoginStep ==
  ASSUME Protocol, RowOfLogin, [Next]_vars
  PROVE  RowOfLogin'
<1> USE NoneAssumption, TokenAssumption, MfaAssumption, ChallengeAssumption DEF Protocol,
   TypeOK, Phases, Presented, AccountLock, Labels, Unused, Live, Change, Answer, Issuance,
   Locked, Inserted, Consumed, RowOfLogin, tokenVars, lockVars, accountVars, codeVars,
   sessionVars, localVars, mfaVars
<1>1. ASSUME NEW r \in Requests, Login(r) PROVE RowOfLogin'
  BY <1>1 DEF Login, Begin, Goto
<1>2. ASSUME NEW r \in Requests, StartSetup(r) PROVE RowOfLogin'
  BY <1>2 DEF StartSetup, Begin, Goto
<1>3. ASSUME NEW r \in Requests, NEW what \in Change \ {"setup"}, StartChange(r, what) PROVE RowOfLogin'
  BY <1>3 DEF StartChange, Begin, Goto
<1>4. ASSUME NEW r \in Requests, NEW t \in Tokens, AnswerTotp(r, t) PROVE RowOfLogin'
  BY <1>4 DEF AnswerTotp, Usable, Begin, Goto
<1>5. ASSUME NEW r \in Requests, NEW t \in Tokens, NEW c \in Codes, AnswerRecovery(r, t, c) PROVE RowOfLogin'
  BY <1>5 DEF AnswerRecovery, Usable, Begin, Goto
<1>6. ASSUME NEW r \in Requests, LockChange(r) PROVE RowOfLogin'
  BY <1>6 DEF LockChange, Step, Goto
<1>7. ASSUME NEW r \in Requests, CheckPasses(r) PROVE RowOfLogin'
  BY <1>7 DEF CheckPasses, MayChange, Step, Goto
<1>8. ASSUME NEW r \in Requests, TakeCodes(r) PROVE RowOfLogin'
  BY <1>8 DEF TakeCodes, Step, Goto
<1>9. ASSUME NEW r \in Requests, RevokeOthers(r) PROVE RowOfLogin'
  BY <1>9 DEF RevokeOthers, Step, Goto
<1>10. ASSUME NEW r \in Requests, SnapshotChallenges(r) PROVE RowOfLogin'
  BY <1>10 DEF SnapshotChallenges, SnapshotUnused, Goto
<1>11. ASSUME NEW r \in Requests, TakeChallenges(r) PROVE RowOfLogin'
  BY <1>11 DEF TakeChallenges, TakeUnused, Goto
<1>12. ASSUME NEW r \in Requests, CommitSetup(r) PROVE RowOfLogin'
  BY <1>12 DEF CommitSetup, Ready, Finish, End, Goto
<1>13. ASSUME NEW r \in Requests, CommitEnable(r) PROVE RowOfLogin'
  BY <1>13 DEF CommitEnable, Ready, NewPage, RevokeDoomed, SpendChallenges, SpendLocked,
     LockedBy, Finish, End, Goto
<1>14. ASSUME NEW r \in Requests, CommitDisable(r) PROVE RowOfLogin'
  BY <1>14 DEF CommitDisable, Ready, RevokeDoomed, SpendChallenges, SpendLocked, LockedBy,
     Finish, End, Goto
<1>15. ASSUME NEW r \in Requests, CommitRegenerate(r) PROVE RowOfLogin'
  BY <1>15 DEF CommitRegenerate, Ready, NewPage, Finish, End, Goto
<1>16. ASSUME NEW r \in Requests, Issues(r) PROVE RowOfLogin'
  BY <1>16 DEF Issues, LockForIssue, LockUserRow, CheckCooldown, Supersede, SnapshotUnused,
     SupersedeApply, TakeUnused, Goto
<1>17. ASSUME NEW r \in Requests, IssueCommits(r) PROVE RowOfLogin'
  BY <1>17 DEF IssueCommits, IssueCommit, SpendLocked, LockedBy, End, Goto
<1>18. ASSUME NEW r \in Requests, ConsumePasses(r) PROVE RowOfLogin'
  BY <1>18 DEF ConsumePasses, Usable, Step, Goto
<1>19. ASSUME NEW r \in Requests, AccountPasses(r) PROVE RowOfLogin'
  BY <1>19 DEF AccountPasses, Step, Goto
<1>20. ASSUME NEW r \in Requests, CodePasses(r) PROVE RowOfLogin'
  BY <1>20 DEF CodePasses, Step, Goto
<1>21. ASSUME NEW r \in Requests, Refuses(r) PROVE RowOfLogin'
  BY <1>21 DEF Refuses, Refuse, Finish, End, Goto
<1>22. ASSUME NEW r \in Requests, InsertLive(r) PROVE RowOfLogin'
  BY <1>22 DEF InsertLive, NewRow, Finish, End, Goto
<1>23. ASSUME NEW r \in Requests, InsertHeld(r) PROVE RowOfLogin'
  BY <1>23 DEF InsertHeld, NewRow, Goto
<1>24. ASSUME NEW r \in Requests, SnapshotLeftover(r) PROVE RowOfLogin'
  BY <1>24 DEF SnapshotLeftover, SnapshotUnused, Goto
<1>25. ASSUME NEW r \in Requests, TakeLeftover(r) PROVE RowOfLogin'
  BY <1>25 DEF TakeLeftover, TakeUnused, Goto
<1>26. ASSUME NEW r \in Requests, CommitLogin(r) PROVE RowOfLogin'
  BY <1>26 DEF CommitLogin, SpendChallenges, SpendLocked, LockedBy, Finish, End, Goto
<1>27. ASSUME NEW r \in Requests, Rollback(r) PROVE RowOfLogin'
  BY <1>27 DEF Rollback, Finish, End, Goto
<1>28. CASE ChangeStatus
  BY <1>28 DEF ChangeStatus, authVars, requestVars
<1>29. CASE SetupLapses
  BY <1>29 DEF SetupLapses, authVars, requestVars
<1>30. ASSUME NEW s \in Sessions, Rotate(s) PROVE RowOfLogin'
  BY <1>30 DEF Rotate, authVars, requestVars
<1>31. ASSUME NEW t \in Tokens, ExpireChallenge(t) PROVE RowOfLogin'
  BY <1>31 DEF ExpireChallenge, Expire, Usable, requestVars
<1>32. CASE UNCHANGED vars
  BY <1>32 DEF vars, authVars, requestVars
<1> HIDE DEF Protocol, TypeOK, Phases, Presented, AccountLock, Labels, Unused, Live, Change, Answer, Issuance, Locked, Inserted, Consumed, RowOfLogin
<1> QED BY Decompose, <1>1, <1>2, <1>3, <1>4, <1>5, <1>6, <1>7, <1>8, <1>9, <1>10, <1>11,
   <1>12, <1>13, <1>14, <1>15, <1>16, <1>17, <1>18, <1>19, <1>20, <1>21, <1>22, <1>23,
   <1>24, <1>25, <1>26, <1>27, <1>28, <1>29, <1>30, <1>31, <1>32 DEF Moves

\* A login that commits marks what it presented, and nothing unmarks it.
LEMMA FundsAreSpentStep ==
  ASSUME Protocol, Held, [Next]_vars
  PROVE  FundsAreSpent'
<1> USE NoneAssumption, TokenAssumption, MfaAssumption, ChallengeAssumption DEF Protocol,
   TypeOK, Phases, Presented, AccountLock, Labels, Unused, Live, Change, Answer, Issuance,
   Locked, Inserted, Consumed, Held, ChallengeLock, CodeLock, RowOfLogin, FundsAreSpent,
   tokenVars, lockVars, accountVars, codeVars, sessionVars, localVars, mfaVars
<1>1. ASSUME NEW r \in Requests, Login(r) PROVE FundsAreSpent'
  BY <1>1 DEF Login, Begin, Goto
<1>2. ASSUME NEW r \in Requests, StartSetup(r) PROVE FundsAreSpent'
  BY <1>2 DEF StartSetup, Begin, Goto
<1>3. ASSUME NEW r \in Requests, NEW what \in Change \ {"setup"}, StartChange(r, what) PROVE FundsAreSpent'
  BY <1>3 DEF StartChange, Begin, Goto
<1>4. ASSUME NEW r \in Requests, NEW t \in Tokens, AnswerTotp(r, t) PROVE FundsAreSpent'
  BY <1>4 DEF AnswerTotp, Usable, Begin, Goto
<1>5. ASSUME NEW r \in Requests, NEW t \in Tokens, NEW c \in Codes, AnswerRecovery(r, t, c) PROVE FundsAreSpent'
  BY <1>5 DEF AnswerRecovery, Usable, Begin, Goto
<1>6. ASSUME NEW r \in Requests, LockChange(r) PROVE FundsAreSpent'
  BY <1>6 DEF LockChange, Step, Goto
<1>7. ASSUME NEW r \in Requests, CheckPasses(r) PROVE FundsAreSpent'
  BY <1>7 DEF CheckPasses, MayChange, Step, Goto
<1>8. ASSUME NEW r \in Requests, TakeCodes(r) PROVE FundsAreSpent'
  BY <1>8 DEF TakeCodes, Step, Goto
<1>9. ASSUME NEW r \in Requests, RevokeOthers(r) PROVE FundsAreSpent'
  BY <1>9 DEF RevokeOthers, Step, Goto
<1>10. ASSUME NEW r \in Requests, SnapshotChallenges(r) PROVE FundsAreSpent'
  BY <1>10 DEF SnapshotChallenges, SnapshotUnused, Goto
<1>11. ASSUME NEW r \in Requests, TakeChallenges(r) PROVE FundsAreSpent'
  BY <1>11 DEF TakeChallenges, TakeUnused, Goto
<1>12. ASSUME NEW r \in Requests, CommitSetup(r) PROVE FundsAreSpent'
  BY <1>12 DEF CommitSetup, Ready, Finish, End, Goto
<1>13. ASSUME NEW r \in Requests, CommitEnable(r) PROVE FundsAreSpent'
  BY <1>13 DEF CommitEnable, Ready, NewPage, RevokeDoomed, SpendChallenges, SpendLocked,
     LockedBy, Finish, End, Goto
<1>14. ASSUME NEW r \in Requests, CommitDisable(r) PROVE FundsAreSpent'
  BY <1>14 DEF CommitDisable, Ready, RevokeDoomed, SpendChallenges, SpendLocked, LockedBy,
     Finish, End, Goto
<1>15. ASSUME NEW r \in Requests, CommitRegenerate(r) PROVE FundsAreSpent'
  BY <1>15 DEF CommitRegenerate, Ready, NewPage, Finish, End, Goto
<1>16. ASSUME NEW r \in Requests, Issues(r) PROVE FundsAreSpent'
  BY <1>16 DEF Issues, LockForIssue, LockUserRow, CheckCooldown, Supersede, SnapshotUnused,
     SupersedeApply, TakeUnused, Goto
<1>17. ASSUME NEW r \in Requests, IssueCommits(r) PROVE FundsAreSpent'
  BY <1>17 DEF IssueCommits, IssueCommit, SpendLocked, LockedBy, End, Goto
<1>18. ASSUME NEW r \in Requests, ConsumePasses(r) PROVE FundsAreSpent'
  BY <1>18 DEF ConsumePasses, Usable, Step, Goto
<1>19. ASSUME NEW r \in Requests, AccountPasses(r) PROVE FundsAreSpent'
  BY <1>19 DEF AccountPasses, Step, Goto
<1>20. ASSUME NEW r \in Requests, CodePasses(r) PROVE FundsAreSpent'
  BY <1>20 DEF CodePasses, Step, Goto
<1>21. ASSUME NEW r \in Requests, Refuses(r) PROVE FundsAreSpent'
  BY <1>21 DEF Refuses, Refuse, Finish, End, Goto
<1>22. ASSUME NEW r \in Requests, InsertLive(r) PROVE FundsAreSpent'
  BY <1>22 DEF InsertLive, NewRow, Finish, End, Goto
<1>23. ASSUME NEW r \in Requests, InsertHeld(r) PROVE FundsAreSpent'
  BY <1>23 DEF InsertHeld, NewRow, Goto
<1>24. ASSUME NEW r \in Requests, SnapshotLeftover(r) PROVE FundsAreSpent'
  BY <1>24 DEF SnapshotLeftover, SnapshotUnused, Goto
<1>25. ASSUME NEW r \in Requests, TakeLeftover(r) PROVE FundsAreSpent'
  BY <1>25 DEF TakeLeftover, TakeUnused, Goto
<1>26. ASSUME NEW r \in Requests, CommitLogin(r) PROVE FundsAreSpent'
  BY <1>26 DEF CommitLogin, SpendChallenges, SpendLocked, LockedBy, Finish, End, Goto
<1>27. ASSUME NEW r \in Requests, Rollback(r) PROVE FundsAreSpent'
  BY <1>27 DEF Rollback, Finish, End, Goto
<1>28. CASE ChangeStatus
  BY <1>28 DEF ChangeStatus, authVars, requestVars
<1>29. CASE SetupLapses
  BY <1>29 DEF SetupLapses, authVars, requestVars
<1>30. ASSUME NEW s \in Sessions, Rotate(s) PROVE FundsAreSpent'
  BY <1>30 DEF Rotate, authVars, requestVars
<1>31. ASSUME NEW t \in Tokens, ExpireChallenge(t) PROVE FundsAreSpent'
  BY <1>31 DEF ExpireChallenge, Expire, Usable, requestVars
<1>32. CASE UNCHANGED vars
  BY <1>32 DEF vars, authVars, requestVars
<1> HIDE DEF Protocol, TypeOK, Phases, Presented, AccountLock, Labels, Unused, Live, Change, Answer, Issuance, Locked, Inserted, Consumed, Held, ChallengeLock, CodeLock, RowOfLogin, FundsAreSpent
<1> QED BY Decompose, <1>1, <1>2, <1>3, <1>4, <1>5, <1>6, <1>7, <1>8, <1>9, <1>10, <1>11,
   <1>12, <1>13, <1>14, <1>15, <1>16, <1>17, <1>18, <1>19, <1>20, <1>21, <1>22, <1>23,
   <1>24, <1>25, <1>26, <1>27, <1>28, <1>29, <1>30, <1>31, <1>32 DEF Moves

\* Two sessions never come from one challenge or one recovery code.
LEMMA SpentOnceStep ==
  ASSUME Protocol, Held, [Next]_vars
  PROVE  SpentOnce'
<1> USE NoneAssumption, TokenAssumption, MfaAssumption, ChallengeAssumption DEF Protocol,
   TypeOK, Phases, Presented, AccountLock, Labels, Unused, Live, Change, Answer, Issuance,
   Locked, Inserted, Consumed, Held, ChallengeLock, CodeLock, RowOfLogin, FundsAreSpent,
   SpentOnce, tokenVars, lockVars, accountVars, codeVars, sessionVars, localVars, mfaVars
<1>1. ASSUME NEW r \in Requests, Login(r) PROVE SpentOnce'
  BY <1>1, SMTT(30) DEF Login, Begin, Goto
<1>2. ASSUME NEW r \in Requests, StartSetup(r) PROVE SpentOnce'
  BY <1>2, SMTT(30) DEF StartSetup, Begin, Goto
<1>3. ASSUME NEW r \in Requests, NEW what \in Change \ {"setup"}, StartChange(r, what) PROVE SpentOnce'
  BY <1>3, SMTT(30) DEF StartChange, Begin, Goto
<1>4. ASSUME NEW r \in Requests, NEW t \in Tokens, AnswerTotp(r, t) PROVE SpentOnce'
  BY <1>4, SMTT(30) DEF AnswerTotp, Usable, Begin, Goto
<1>5. ASSUME NEW r \in Requests, NEW t \in Tokens, NEW c \in Codes, AnswerRecovery(r, t, c) PROVE SpentOnce'
  BY <1>5, SMTT(30) DEF AnswerRecovery, Usable, Begin, Goto
<1>6. ASSUME NEW r \in Requests, LockChange(r) PROVE SpentOnce'
  BY <1>6, SMTT(30) DEF LockChange, Step, Goto
<1>7. ASSUME NEW r \in Requests, CheckPasses(r) PROVE SpentOnce'
  BY <1>7, SMTT(30) DEF CheckPasses, MayChange, Step, Goto
<1>8. ASSUME NEW r \in Requests, TakeCodes(r) PROVE SpentOnce'
  BY <1>8, SMTT(30) DEF TakeCodes, Step, Goto
<1>9. ASSUME NEW r \in Requests, RevokeOthers(r) PROVE SpentOnce'
  BY <1>9, SMTT(30) DEF RevokeOthers, Step, Goto
<1>10. ASSUME NEW r \in Requests, SnapshotChallenges(r) PROVE SpentOnce'
  BY <1>10, SMTT(30) DEF SnapshotChallenges, SnapshotUnused, Goto
<1>11. ASSUME NEW r \in Requests, TakeChallenges(r) PROVE SpentOnce'
  BY <1>11, SMTT(30) DEF TakeChallenges, TakeUnused, Goto
<1>12. ASSUME NEW r \in Requests, CommitSetup(r) PROVE SpentOnce'
  BY <1>12, SMTT(30) DEF CommitSetup, Ready, Finish, End, Goto
<1>13. ASSUME NEW r \in Requests, CommitEnable(r) PROVE SpentOnce'
  BY <1>13, SMTT(30) DEF CommitEnable, Ready, NewPage, RevokeDoomed, SpendChallenges, SpendLocked,
     LockedBy, Finish, End, Goto
<1>14. ASSUME NEW r \in Requests, CommitDisable(r) PROVE SpentOnce'
  BY <1>14, SMTT(30) DEF CommitDisable, Ready, RevokeDoomed, SpendChallenges, SpendLocked, LockedBy,
     Finish, End, Goto
<1>15. ASSUME NEW r \in Requests, CommitRegenerate(r) PROVE SpentOnce'
  BY <1>15, SMTT(30) DEF CommitRegenerate, Ready, NewPage, Finish, End, Goto
<1>16. ASSUME NEW r \in Requests, Issues(r) PROVE SpentOnce'
  BY <1>16, SMTT(30) DEF Issues, LockForIssue, LockUserRow, CheckCooldown, Supersede, SnapshotUnused,
     SupersedeApply, TakeUnused, Goto
<1>17. ASSUME NEW r \in Requests, IssueCommits(r) PROVE SpentOnce'
  BY <1>17, SMTT(30) DEF IssueCommits, IssueCommit, SpendLocked, LockedBy, End, Goto
<1>18. ASSUME NEW r \in Requests, ConsumePasses(r) PROVE SpentOnce'
  BY <1>18, SMTT(30) DEF ConsumePasses, Usable, Step, Goto
<1>19. ASSUME NEW r \in Requests, AccountPasses(r) PROVE SpentOnce'
  BY <1>19, SMTT(30) DEF AccountPasses, Step, Goto
<1>20. ASSUME NEW r \in Requests, CodePasses(r) PROVE SpentOnce'
  BY <1>20, SMTT(30) DEF CodePasses, Step, Goto
<1>21. ASSUME NEW r \in Requests, Refuses(r) PROVE SpentOnce'
  BY <1>21, SMTT(30) DEF Refuses, Refuse, Finish, End, Goto
<1>22. ASSUME NEW r \in Requests, InsertLive(r) PROVE SpentOnce'
  BY <1>22, SMTT(30) DEF InsertLive, NewRow, Finish, End, Goto
<1>23. ASSUME NEW r \in Requests, InsertHeld(r) PROVE SpentOnce'
  BY <1>23, SMTT(30) DEF InsertHeld, NewRow, Goto
<1>24. ASSUME NEW r \in Requests, SnapshotLeftover(r) PROVE SpentOnce'
  BY <1>24, SMTT(30) DEF SnapshotLeftover, SnapshotUnused, Goto
<1>25. ASSUME NEW r \in Requests, TakeLeftover(r) PROVE SpentOnce'
  BY <1>25, SMTT(30) DEF TakeLeftover, TakeUnused, Goto
<1>26. ASSUME NEW r \in Requests, CommitLogin(r) PROVE SpentOnce'
  BY <1>26, SMTT(30) DEF CommitLogin, SpendChallenges, SpendLocked, LockedBy, Finish, End, Goto
<1>27. ASSUME NEW r \in Requests, Rollback(r) PROVE SpentOnce'
  BY <1>27, SMTT(30) DEF Rollback, Finish, End, Goto
<1>28. CASE ChangeStatus
  BY <1>28 DEF ChangeStatus, authVars, requestVars
<1>29. CASE SetupLapses
  BY <1>29 DEF SetupLapses, authVars, requestVars
<1>30. ASSUME NEW s \in Sessions, Rotate(s) PROVE SpentOnce'
  BY <1>30, SMTT(30) DEF Rotate, authVars, requestVars
<1>31. ASSUME NEW t \in Tokens, ExpireChallenge(t) PROVE SpentOnce'
  BY <1>31, SMTT(30) DEF ExpireChallenge, Expire, Usable, requestVars
<1>32. CASE UNCHANGED vars
  BY <1>32 DEF vars, authVars, requestVars
<1> HIDE DEF Protocol, TypeOK, Phases, Presented, AccountLock, Labels, Unused, Live, Change, Answer, Issuance, Locked, Inserted, Consumed, Held, ChallengeLock, CodeLock, RowOfLogin, FundsAreSpent, SpentOnce
<1> QED BY Decompose, <1>1, <1>2, <1>3, <1>4, <1>5, <1>6, <1>7, <1>8, <1>9, <1>10, <1>11,
   <1>12, <1>13, <1>14, <1>15, <1>16, <1>17, <1>18, <1>19, <1>20, <1>21, <1>22, <1>23,
   <1>24, <1>25, <1>26, <1>27, <1>28, <1>29, <1>30, <1>31, <1>32 DEF Moves

\* What a change of the configuration read under the account lock is still all there
\* is when it commits: nobody adds a code, a session or a challenge meanwhile.
LEMMA SnapshotsCompleteStep ==
  ASSUME Protocol, Held, Current, [Next]_vars
  PROVE  SnapshotsComplete'
<1> USE NoneAssumption, TokenAssumption, MfaAssumption, ChallengeAssumption DEF Protocol,
   TypeOK, Phases, Presented, AccountLock, Labels, Unused, Live, Change, Answer, Issuance,
   Locked, Inserted, Consumed, Held, ChallengeLock, CodeLock, RowOfLogin, Current,
   SnapshotsComplete, CodesTaken, SessionsRead, ChallengesTaken, CheckHolds, AnswersInForce,
   InsertedIsCurrent, OnlyNewestPage, NothingOutlivesChange, tokenVars, lockVars,
   accountVars, codeVars, sessionVars, localVars, mfaVars
<1>1. ASSUME NEW r \in Requests, Login(r) PROVE SnapshotsComplete'
  BY <1>1 DEF Login, Begin, Goto
<1>2. ASSUME NEW r \in Requests, StartSetup(r) PROVE SnapshotsComplete'
  BY <1>2 DEF StartSetup, Begin, Goto
<1>3. ASSUME NEW r \in Requests, NEW what \in Change \ {"setup"}, StartChange(r, what) PROVE SnapshotsComplete'
  BY <1>3 DEF StartChange, Begin, Goto
<1>4. ASSUME NEW r \in Requests, NEW t \in Tokens, AnswerTotp(r, t) PROVE SnapshotsComplete'
  BY <1>4 DEF AnswerTotp, Usable, Begin, Goto
<1>5. ASSUME NEW r \in Requests, NEW t \in Tokens, NEW c \in Codes, AnswerRecovery(r, t, c) PROVE SnapshotsComplete'
  BY <1>5 DEF AnswerRecovery, Usable, Begin, Goto
<1>6. ASSUME NEW r \in Requests, LockChange(r) PROVE SnapshotsComplete'
  BY <1>6 DEF LockChange, Step, Goto
<1>7. ASSUME NEW r \in Requests, CheckPasses(r) PROVE SnapshotsComplete'
  BY <1>7 DEF CheckPasses, MayChange, Step, Goto
<1>8. ASSUME NEW r \in Requests, TakeCodes(r) PROVE SnapshotsComplete'
  BY <1>8 DEF TakeCodes, Step, Goto
<1>9. ASSUME NEW r \in Requests, RevokeOthers(r) PROVE SnapshotsComplete'
  BY <1>9 DEF RevokeOthers, Step, Goto
<1>10. ASSUME NEW r \in Requests, SnapshotChallenges(r) PROVE SnapshotsComplete'
  BY <1>10 DEF SnapshotChallenges, SnapshotUnused, Goto
<1>11. ASSUME NEW r \in Requests, TakeChallenges(r) PROVE SnapshotsComplete'
  BY <1>11 DEF TakeChallenges, TakeUnused, Goto
<1>12. ASSUME NEW r \in Requests, CommitSetup(r) PROVE SnapshotsComplete'
  BY <1>12 DEF CommitSetup, Ready, Finish, End, Goto
<1>13. ASSUME NEW r \in Requests, CommitEnable(r) PROVE SnapshotsComplete'
  BY <1>13 DEF CommitEnable, Ready, NewPage, RevokeDoomed, SpendChallenges, SpendLocked,
     LockedBy, Finish, End, Goto
<1>14. ASSUME NEW r \in Requests, CommitDisable(r) PROVE SnapshotsComplete'
  BY <1>14 DEF CommitDisable, Ready, RevokeDoomed, SpendChallenges, SpendLocked, LockedBy,
     Finish, End, Goto
<1>15. ASSUME NEW r \in Requests, CommitRegenerate(r) PROVE SnapshotsComplete'
  BY <1>15 DEF CommitRegenerate, Ready, NewPage, Finish, End, Goto
<1>16. ASSUME NEW r \in Requests, Issues(r) PROVE SnapshotsComplete'
  BY <1>16 DEF Issues, LockForIssue, LockUserRow, CheckCooldown, Supersede, SnapshotUnused,
     SupersedeApply, TakeUnused, Goto
<1>17. ASSUME NEW r \in Requests, IssueCommits(r) PROVE SnapshotsComplete'
  BY <1>17 DEF IssueCommits, IssueCommit, SpendLocked, LockedBy, End, Goto
<1>18. ASSUME NEW r \in Requests, ConsumePasses(r) PROVE SnapshotsComplete'
  BY <1>18 DEF ConsumePasses, Usable, Step, Goto
<1>19. ASSUME NEW r \in Requests, AccountPasses(r) PROVE SnapshotsComplete'
  BY <1>19 DEF AccountPasses, Step, Goto
<1>20. ASSUME NEW r \in Requests, CodePasses(r) PROVE SnapshotsComplete'
  BY <1>20 DEF CodePasses, Step, Goto
<1>21. ASSUME NEW r \in Requests, Refuses(r) PROVE SnapshotsComplete'
  BY <1>21 DEF Refuses, Refuse, Finish, End, Goto
<1>22. ASSUME NEW r \in Requests, InsertLive(r) PROVE SnapshotsComplete'
  BY <1>22 DEF InsertLive, NewRow, Finish, End, Goto
<1>23. ASSUME NEW r \in Requests, InsertHeld(r) PROVE SnapshotsComplete'
  BY <1>23 DEF InsertHeld, NewRow, Goto
<1>24. ASSUME NEW r \in Requests, SnapshotLeftover(r) PROVE SnapshotsComplete'
  BY <1>24 DEF SnapshotLeftover, SnapshotUnused, Goto
<1>25. ASSUME NEW r \in Requests, TakeLeftover(r) PROVE SnapshotsComplete'
  BY <1>25 DEF TakeLeftover, TakeUnused, Goto
<1>26. ASSUME NEW r \in Requests, CommitLogin(r) PROVE SnapshotsComplete'
  BY <1>26 DEF CommitLogin, SpendChallenges, SpendLocked, LockedBy, Finish, End, Goto
<1>27. ASSUME NEW r \in Requests, Rollback(r) PROVE SnapshotsComplete'
  BY <1>27 DEF Rollback, Finish, End, Goto
<1>28. CASE ChangeStatus
  BY <1>28 DEF ChangeStatus, authVars, requestVars
<1>29. CASE SetupLapses
  BY <1>29 DEF SetupLapses, authVars, requestVars
<1>30. ASSUME NEW s \in Sessions, Rotate(s) PROVE SnapshotsComplete'
  BY <1>30 DEF Rotate, authVars, requestVars
<1>31. ASSUME NEW t \in Tokens, ExpireChallenge(t) PROVE SnapshotsComplete'
  BY <1>31 DEF ExpireChallenge, Expire, Usable, requestVars
<1>32. CASE UNCHANGED vars
  BY <1>32 DEF vars, authVars, requestVars
<1> HIDE DEF Protocol, TypeOK, Phases, Presented, AccountLock, Labels, Unused, Live, Change, Answer, Issuance, Locked, Inserted, Consumed, Held, ChallengeLock, CodeLock, RowOfLogin, Current, SnapshotsComplete, CodesTaken, SessionsRead, ChallengesTaken, CheckHolds, AnswersInForce, InsertedIsCurrent, OnlyNewestPage, NothingOutlivesChange
<1> QED BY Decompose, <1>1, <1>2, <1>3, <1>4, <1>5, <1>6, <1>7, <1>8, <1>9, <1>10, <1>11,
   <1>12, <1>13, <1>14, <1>15, <1>16, <1>17, <1>18, <1>19, <1>20, <1>21, <1>22, <1>23,
   <1>24, <1>25, <1>26, <1>27, <1>28, <1>29, <1>30, <1>31, <1>32 DEF Moves

\* What a change of the configuration checked under the account lock still holds when
\* it commits.
LEMMA CheckHoldsStep ==
  ASSUME Protocol, Held, Current, [Next]_vars
  PROVE  CheckHolds'
<1> USE NoneAssumption, TokenAssumption, MfaAssumption, ChallengeAssumption DEF Protocol,
   TypeOK, Phases, Presented, AccountLock, Labels, Unused, Live, Change, Answer, Issuance,
   Locked, Inserted, Consumed, Held, ChallengeLock, CodeLock, RowOfLogin, Current,
   SnapshotsComplete, CodesTaken, SessionsRead, ChallengesTaken, CheckHolds, AnswersInForce,
   InsertedIsCurrent, OnlyNewestPage, NothingOutlivesChange, tokenVars, lockVars,
   accountVars, codeVars, sessionVars, localVars, mfaVars
<1>1. ASSUME NEW r \in Requests, Login(r) PROVE CheckHolds'
  BY <1>1 DEF Login, Begin, Goto
<1>2. ASSUME NEW r \in Requests, StartSetup(r) PROVE CheckHolds'
  BY <1>2 DEF StartSetup, Begin, Goto
<1>3. ASSUME NEW r \in Requests, NEW what \in Change \ {"setup"}, StartChange(r, what) PROVE CheckHolds'
  BY <1>3 DEF StartChange, Begin, Goto
<1>4. ASSUME NEW r \in Requests, NEW t \in Tokens, AnswerTotp(r, t) PROVE CheckHolds'
  BY <1>4 DEF AnswerTotp, Usable, Begin, Goto
<1>5. ASSUME NEW r \in Requests, NEW t \in Tokens, NEW c \in Codes, AnswerRecovery(r, t, c) PROVE CheckHolds'
  BY <1>5 DEF AnswerRecovery, Usable, Begin, Goto
<1>6. ASSUME NEW r \in Requests, LockChange(r) PROVE CheckHolds'
  BY <1>6 DEF LockChange, Step, Goto
<1>7. ASSUME NEW r \in Requests, CheckPasses(r) PROVE CheckHolds'
  BY <1>7 DEF CheckPasses, MayChange, Step, Goto
<1>8. ASSUME NEW r \in Requests, TakeCodes(r) PROVE CheckHolds'
  BY <1>8 DEF TakeCodes, Step, Goto
<1>9. ASSUME NEW r \in Requests, RevokeOthers(r) PROVE CheckHolds'
  BY <1>9 DEF RevokeOthers, Step, Goto
<1>10. ASSUME NEW r \in Requests, SnapshotChallenges(r) PROVE CheckHolds'
  BY <1>10 DEF SnapshotChallenges, SnapshotUnused, Goto
<1>11. ASSUME NEW r \in Requests, TakeChallenges(r) PROVE CheckHolds'
  BY <1>11 DEF TakeChallenges, TakeUnused, Goto
<1>12. ASSUME NEW r \in Requests, CommitSetup(r) PROVE CheckHolds'
  BY <1>12 DEF CommitSetup, Ready, Finish, End, Goto
<1>13. ASSUME NEW r \in Requests, CommitEnable(r) PROVE CheckHolds'
  BY <1>13 DEF CommitEnable, Ready, NewPage, RevokeDoomed, SpendChallenges, SpendLocked,
     LockedBy, Finish, End, Goto
<1>14. ASSUME NEW r \in Requests, CommitDisable(r) PROVE CheckHolds'
  BY <1>14 DEF CommitDisable, Ready, RevokeDoomed, SpendChallenges, SpendLocked, LockedBy,
     Finish, End, Goto
<1>15. ASSUME NEW r \in Requests, CommitRegenerate(r) PROVE CheckHolds'
  BY <1>15 DEF CommitRegenerate, Ready, NewPage, Finish, End, Goto
<1>16. ASSUME NEW r \in Requests, Issues(r) PROVE CheckHolds'
  BY <1>16 DEF Issues, LockForIssue, LockUserRow, CheckCooldown, Supersede, SnapshotUnused,
     SupersedeApply, TakeUnused, Goto
<1>17. ASSUME NEW r \in Requests, IssueCommits(r) PROVE CheckHolds'
  BY <1>17 DEF IssueCommits, IssueCommit, SpendLocked, LockedBy, End, Goto
<1>18. ASSUME NEW r \in Requests, ConsumePasses(r) PROVE CheckHolds'
  BY <1>18 DEF ConsumePasses, Usable, Step, Goto
<1>19. ASSUME NEW r \in Requests, AccountPasses(r) PROVE CheckHolds'
  BY <1>19 DEF AccountPasses, Step, Goto
<1>20. ASSUME NEW r \in Requests, CodePasses(r) PROVE CheckHolds'
  BY <1>20 DEF CodePasses, Step, Goto
<1>21. ASSUME NEW r \in Requests, Refuses(r) PROVE CheckHolds'
  BY <1>21 DEF Refuses, Refuse, Finish, End, Goto
<1>22. ASSUME NEW r \in Requests, InsertLive(r) PROVE CheckHolds'
  BY <1>22 DEF InsertLive, NewRow, Finish, End, Goto
<1>23. ASSUME NEW r \in Requests, InsertHeld(r) PROVE CheckHolds'
  BY <1>23 DEF InsertHeld, NewRow, Goto
<1>24. ASSUME NEW r \in Requests, SnapshotLeftover(r) PROVE CheckHolds'
  BY <1>24 DEF SnapshotLeftover, SnapshotUnused, Goto
<1>25. ASSUME NEW r \in Requests, TakeLeftover(r) PROVE CheckHolds'
  BY <1>25 DEF TakeLeftover, TakeUnused, Goto
<1>26. ASSUME NEW r \in Requests, CommitLogin(r) PROVE CheckHolds'
  BY <1>26 DEF CommitLogin, SpendChallenges, SpendLocked, LockedBy, Finish, End, Goto
<1>27. ASSUME NEW r \in Requests, Rollback(r) PROVE CheckHolds'
  BY <1>27 DEF Rollback, Finish, End, Goto
<1>28. CASE ChangeStatus
  BY <1>28 DEF ChangeStatus, authVars, requestVars
<1>29. CASE SetupLapses
  BY <1>29 DEF SetupLapses, authVars, requestVars
<1>30. ASSUME NEW s \in Sessions, Rotate(s) PROVE CheckHolds'
  BY <1>30 DEF Rotate, authVars, requestVars
<1>31. ASSUME NEW t \in Tokens, ExpireChallenge(t) PROVE CheckHolds'
  BY <1>31 DEF ExpireChallenge, Expire, Usable, requestVars
<1>32. CASE UNCHANGED vars
  BY <1>32 DEF vars, authVars, requestVars
<1> HIDE DEF Protocol, TypeOK, Phases, Presented, AccountLock, Labels, Unused, Live, Change, Answer, Issuance, Locked, Inserted, Consumed, Held, ChallengeLock, CodeLock, RowOfLogin, Current, SnapshotsComplete, CodesTaken, SessionsRead, ChallengesTaken, CheckHolds, AnswersInForce, InsertedIsCurrent, OnlyNewestPage, NothingOutlivesChange
<1> QED BY Decompose, <1>1, <1>2, <1>3, <1>4, <1>5, <1>6, <1>7, <1>8, <1>9, <1>10, <1>11,
   <1>12, <1>13, <1>14, <1>15, <1>16, <1>17, <1>18, <1>19, <1>20, <1>21, <1>22, <1>23,
   <1>24, <1>25, <1>26, <1>27, <1>28, <1>29, <1>30, <1>31, <1>32 DEF Moves

\* A set-up cannot be replaced while a challenge of it is unused: enable and disable
\* spend every challenge, and setup refuses when the account is enabled.
LEMMA AnswersInForceStep ==
  ASSUME Protocol, Held, Current, [Next]_vars
  PROVE  AnswersInForce'
<1> USE NoneAssumption, TokenAssumption, MfaAssumption, ChallengeAssumption DEF Protocol,
   TypeOK, Phases, Presented, AccountLock, Labels, Unused, Live, Change, Answer, Issuance,
   Locked, Inserted, Consumed, Held, ChallengeLock, CodeLock, RowOfLogin, Current,
   SnapshotsComplete, CodesTaken, SessionsRead, ChallengesTaken, CheckHolds, AnswersInForce,
   InsertedIsCurrent, OnlyNewestPage, NothingOutlivesChange, tokenVars, lockVars,
   accountVars, codeVars, sessionVars, localVars, mfaVars
<1>1. ASSUME NEW r \in Requests, Login(r) PROVE AnswersInForce'
  BY <1>1 DEF Login, Begin, Goto
<1>2. ASSUME NEW r \in Requests, StartSetup(r) PROVE AnswersInForce'
  BY <1>2 DEF StartSetup, Begin, Goto
<1>3. ASSUME NEW r \in Requests, NEW what \in Change \ {"setup"}, StartChange(r, what) PROVE AnswersInForce'
  BY <1>3 DEF StartChange, Begin, Goto
<1>4. ASSUME NEW r \in Requests, NEW t \in Tokens, AnswerTotp(r, t) PROVE AnswersInForce'
  BY <1>4 DEF AnswerTotp, Usable, Begin, Goto
<1>5. ASSUME NEW r \in Requests, NEW t \in Tokens, NEW c \in Codes, AnswerRecovery(r, t, c) PROVE AnswersInForce'
  BY <1>5 DEF AnswerRecovery, Usable, Begin, Goto
<1>6. ASSUME NEW r \in Requests, LockChange(r) PROVE AnswersInForce'
  BY <1>6 DEF LockChange, Step, Goto
<1>7. ASSUME NEW r \in Requests, CheckPasses(r) PROVE AnswersInForce'
  BY <1>7 DEF CheckPasses, MayChange, Step, Goto
<1>8. ASSUME NEW r \in Requests, TakeCodes(r) PROVE AnswersInForce'
  BY <1>8 DEF TakeCodes, Step, Goto
<1>9. ASSUME NEW r \in Requests, RevokeOthers(r) PROVE AnswersInForce'
  BY <1>9 DEF RevokeOthers, Step, Goto
<1>10. ASSUME NEW r \in Requests, SnapshotChallenges(r) PROVE AnswersInForce'
  BY <1>10 DEF SnapshotChallenges, SnapshotUnused, Goto
<1>11. ASSUME NEW r \in Requests, TakeChallenges(r) PROVE AnswersInForce'
  BY <1>11 DEF TakeChallenges, TakeUnused, Goto
<1>12. ASSUME NEW r \in Requests, CommitSetup(r) PROVE AnswersInForce'
  BY <1>12 DEF CommitSetup, Ready, Finish, End, Goto
<1>13. ASSUME NEW r \in Requests, CommitEnable(r) PROVE AnswersInForce'
  BY <1>13 DEF CommitEnable, Ready, NewPage, RevokeDoomed, SpendChallenges, SpendLocked,
     LockedBy, Finish, End, Goto
<1>14. ASSUME NEW r \in Requests, CommitDisable(r) PROVE AnswersInForce'
  BY <1>14 DEF CommitDisable, Ready, RevokeDoomed, SpendChallenges, SpendLocked, LockedBy,
     Finish, End, Goto
<1>15. ASSUME NEW r \in Requests, CommitRegenerate(r) PROVE AnswersInForce'
  BY <1>15 DEF CommitRegenerate, Ready, NewPage, Finish, End, Goto
<1>16. ASSUME NEW r \in Requests, Issues(r) PROVE AnswersInForce'
  BY <1>16 DEF Issues, LockForIssue, LockUserRow, CheckCooldown, Supersede, SnapshotUnused,
     SupersedeApply, TakeUnused, Goto
<1>17. ASSUME NEW r \in Requests, IssueCommits(r) PROVE AnswersInForce'
  BY <1>17 DEF IssueCommits, IssueCommit, SpendLocked, LockedBy, End, Goto
<1>18. ASSUME NEW r \in Requests, ConsumePasses(r) PROVE AnswersInForce'
  BY <1>18 DEF ConsumePasses, Usable, Step, Goto
<1>19. ASSUME NEW r \in Requests, AccountPasses(r) PROVE AnswersInForce'
  BY <1>19 DEF AccountPasses, Step, Goto
<1>20. ASSUME NEW r \in Requests, CodePasses(r) PROVE AnswersInForce'
  BY <1>20 DEF CodePasses, Step, Goto
<1>21. ASSUME NEW r \in Requests, Refuses(r) PROVE AnswersInForce'
  BY <1>21 DEF Refuses, Refuse, Finish, End, Goto
<1>22. ASSUME NEW r \in Requests, InsertLive(r) PROVE AnswersInForce'
  BY <1>22 DEF InsertLive, NewRow, Finish, End, Goto
<1>23. ASSUME NEW r \in Requests, InsertHeld(r) PROVE AnswersInForce'
  BY <1>23 DEF InsertHeld, NewRow, Goto
<1>24. ASSUME NEW r \in Requests, SnapshotLeftover(r) PROVE AnswersInForce'
  BY <1>24 DEF SnapshotLeftover, SnapshotUnused, Goto
<1>25. ASSUME NEW r \in Requests, TakeLeftover(r) PROVE AnswersInForce'
  BY <1>25 DEF TakeLeftover, TakeUnused, Goto
<1>26. ASSUME NEW r \in Requests, CommitLogin(r) PROVE AnswersInForce'
  BY <1>26 DEF CommitLogin, SpendChallenges, SpendLocked, LockedBy, Finish, End, Goto
<1>27. ASSUME NEW r \in Requests, Rollback(r) PROVE AnswersInForce'
  BY <1>27 DEF Rollback, Finish, End, Goto
<1>28. CASE ChangeStatus
  BY <1>28 DEF ChangeStatus, authVars, requestVars
<1>29. CASE SetupLapses
  BY <1>29 DEF SetupLapses, authVars, requestVars
<1>30. ASSUME NEW s \in Sessions, Rotate(s) PROVE AnswersInForce'
  BY <1>30 DEF Rotate, authVars, requestVars
<1>31. ASSUME NEW t \in Tokens, ExpireChallenge(t) PROVE AnswersInForce'
  BY <1>31 DEF ExpireChallenge, Expire, Usable, requestVars
<1>32. CASE UNCHANGED vars
  BY <1>32 DEF vars, authVars, requestVars
<1> HIDE DEF Protocol, TypeOK, Phases, Presented, AccountLock, Labels, Unused, Live, Change, Answer, Issuance, Locked, Inserted, Consumed, Held, ChallengeLock, CodeLock, RowOfLogin, Current, SnapshotsComplete, CodesTaken, SessionsRead, ChallengesTaken, CheckHolds, AnswersInForce, InsertedIsCurrent, OnlyNewestPage, NothingOutlivesChange
<1> QED BY Decompose, <1>1, <1>2, <1>3, <1>4, <1>5, <1>6, <1>7, <1>8, <1>9, <1>10, <1>11,
   <1>12, <1>13, <1>14, <1>15, <1>16, <1>17, <1>18, <1>19, <1>20, <1>21, <1>22, <1>23,
   <1>24, <1>25, <1>26, <1>27, <1>28, <1>29, <1>30, <1>31, <1>32 DEF Moves

\* No change of the configuration commits while a login has its session inserted.
LEMMA InsertedIsCurrentStep ==
  ASSUME Protocol, Held, Current, [Next]_vars
  PROVE  InsertedIsCurrent'
<1> USE NoneAssumption, TokenAssumption, MfaAssumption, ChallengeAssumption DEF Protocol,
   TypeOK, Phases, Presented, AccountLock, Labels, Unused, Live, Change, Answer, Issuance,
   Locked, Inserted, Consumed, Held, ChallengeLock, CodeLock, RowOfLogin, Current,
   SnapshotsComplete, CodesTaken, SessionsRead, ChallengesTaken, CheckHolds, AnswersInForce,
   InsertedIsCurrent, OnlyNewestPage, NothingOutlivesChange, tokenVars, lockVars,
   accountVars, codeVars, sessionVars, localVars, mfaVars
<1>1. ASSUME NEW r \in Requests, Login(r) PROVE InsertedIsCurrent'
  BY <1>1 DEF Login, Begin, Goto
<1>2. ASSUME NEW r \in Requests, StartSetup(r) PROVE InsertedIsCurrent'
  BY <1>2 DEF StartSetup, Begin, Goto
<1>3. ASSUME NEW r \in Requests, NEW what \in Change \ {"setup"}, StartChange(r, what) PROVE InsertedIsCurrent'
  BY <1>3 DEF StartChange, Begin, Goto
<1>4. ASSUME NEW r \in Requests, NEW t \in Tokens, AnswerTotp(r, t) PROVE InsertedIsCurrent'
  BY <1>4 DEF AnswerTotp, Usable, Begin, Goto
<1>5. ASSUME NEW r \in Requests, NEW t \in Tokens, NEW c \in Codes, AnswerRecovery(r, t, c) PROVE InsertedIsCurrent'
  BY <1>5 DEF AnswerRecovery, Usable, Begin, Goto
<1>6. ASSUME NEW r \in Requests, LockChange(r) PROVE InsertedIsCurrent'
  BY <1>6 DEF LockChange, Step, Goto
<1>7. ASSUME NEW r \in Requests, CheckPasses(r) PROVE InsertedIsCurrent'
  BY <1>7 DEF CheckPasses, MayChange, Step, Goto
<1>8. ASSUME NEW r \in Requests, TakeCodes(r) PROVE InsertedIsCurrent'
  BY <1>8 DEF TakeCodes, Step, Goto
<1>9. ASSUME NEW r \in Requests, RevokeOthers(r) PROVE InsertedIsCurrent'
  BY <1>9 DEF RevokeOthers, Step, Goto
<1>10. ASSUME NEW r \in Requests, SnapshotChallenges(r) PROVE InsertedIsCurrent'
  BY <1>10 DEF SnapshotChallenges, SnapshotUnused, Goto
<1>11. ASSUME NEW r \in Requests, TakeChallenges(r) PROVE InsertedIsCurrent'
  BY <1>11 DEF TakeChallenges, TakeUnused, Goto
<1>12. ASSUME NEW r \in Requests, CommitSetup(r) PROVE InsertedIsCurrent'
  BY <1>12 DEF CommitSetup, Ready, Finish, End, Goto
<1>13. ASSUME NEW r \in Requests, CommitEnable(r) PROVE InsertedIsCurrent'
  BY <1>13 DEF CommitEnable, Ready, NewPage, RevokeDoomed, SpendChallenges, SpendLocked,
     LockedBy, Finish, End, Goto
<1>14. ASSUME NEW r \in Requests, CommitDisable(r) PROVE InsertedIsCurrent'
  BY <1>14 DEF CommitDisable, Ready, RevokeDoomed, SpendChallenges, SpendLocked, LockedBy,
     Finish, End, Goto
<1>15. ASSUME NEW r \in Requests, CommitRegenerate(r) PROVE InsertedIsCurrent'
  BY <1>15 DEF CommitRegenerate, Ready, NewPage, Finish, End, Goto
<1>16. ASSUME NEW r \in Requests, Issues(r) PROVE InsertedIsCurrent'
  BY <1>16 DEF Issues, LockForIssue, LockUserRow, CheckCooldown, Supersede, SnapshotUnused,
     SupersedeApply, TakeUnused, Goto
<1>17. ASSUME NEW r \in Requests, IssueCommits(r) PROVE InsertedIsCurrent'
  BY <1>17 DEF IssueCommits, IssueCommit, SpendLocked, LockedBy, End, Goto
<1>18. ASSUME NEW r \in Requests, ConsumePasses(r) PROVE InsertedIsCurrent'
  BY <1>18 DEF ConsumePasses, Usable, Step, Goto
<1>19. ASSUME NEW r \in Requests, AccountPasses(r) PROVE InsertedIsCurrent'
  BY <1>19 DEF AccountPasses, Step, Goto
<1>20. ASSUME NEW r \in Requests, CodePasses(r) PROVE InsertedIsCurrent'
  BY <1>20 DEF CodePasses, Step, Goto
<1>21. ASSUME NEW r \in Requests, Refuses(r) PROVE InsertedIsCurrent'
  BY <1>21 DEF Refuses, Refuse, Finish, End, Goto
<1>22. ASSUME NEW r \in Requests, InsertLive(r) PROVE InsertedIsCurrent'
  BY <1>22 DEF InsertLive, NewRow, Finish, End, Goto
<1>23. ASSUME NEW r \in Requests, InsertHeld(r) PROVE InsertedIsCurrent'
  BY <1>23 DEF InsertHeld, NewRow, Goto
<1>24. ASSUME NEW r \in Requests, SnapshotLeftover(r) PROVE InsertedIsCurrent'
  BY <1>24 DEF SnapshotLeftover, SnapshotUnused, Goto
<1>25. ASSUME NEW r \in Requests, TakeLeftover(r) PROVE InsertedIsCurrent'
  BY <1>25 DEF TakeLeftover, TakeUnused, Goto
<1>26. ASSUME NEW r \in Requests, CommitLogin(r) PROVE InsertedIsCurrent'
  BY <1>26 DEF CommitLogin, SpendChallenges, SpendLocked, LockedBy, Finish, End, Goto
<1>27. ASSUME NEW r \in Requests, Rollback(r) PROVE InsertedIsCurrent'
  BY <1>27 DEF Rollback, Finish, End, Goto
<1>28. CASE ChangeStatus
  BY <1>28 DEF ChangeStatus, authVars, requestVars
<1>29. CASE SetupLapses
  BY <1>29 DEF SetupLapses, authVars, requestVars
<1>30. ASSUME NEW s \in Sessions, Rotate(s) PROVE InsertedIsCurrent'
  BY <1>30 DEF Rotate, authVars, requestVars
<1>31. ASSUME NEW t \in Tokens, ExpireChallenge(t) PROVE InsertedIsCurrent'
  BY <1>31 DEF ExpireChallenge, Expire, Usable, requestVars
<1>32. CASE UNCHANGED vars
  BY <1>32 DEF vars, authVars, requestVars
<1> HIDE DEF Protocol, TypeOK, Phases, Presented, AccountLock, Labels, Unused, Live, Change, Answer, Issuance, Locked, Inserted, Consumed, Held, ChallengeLock, CodeLock, RowOfLogin, Current, SnapshotsComplete, CodesTaken, SessionsRead, ChallengesTaken, CheckHolds, AnswersInForce, InsertedIsCurrent, OnlyNewestPage, NothingOutlivesChange
<1> QED BY Decompose, <1>1, <1>2, <1>3, <1>4, <1>5, <1>6, <1>7, <1>8, <1>9, <1>10, <1>11,
   <1>12, <1>13, <1>14, <1>15, <1>16, <1>17, <1>18, <1>19, <1>20, <1>21, <1>22, <1>23,
   <1>24, <1>25, <1>26, <1>27, <1>28, <1>29, <1>30, <1>31, <1>32 DEF Moves

\* enable, regenerate and disable leave no older code usable.
LEMMA OnlyNewestPageStep ==
  ASSUME Protocol, Held, Current, [Next]_vars
  PROVE  OnlyNewestPage'
<1> USE NoneAssumption, TokenAssumption, MfaAssumption, ChallengeAssumption DEF Protocol,
   TypeOK, Phases, Presented, AccountLock, Labels, Unused, Live, Change, Answer, Issuance,
   Locked, Inserted, Consumed, Held, ChallengeLock, CodeLock, RowOfLogin, Current,
   SnapshotsComplete, CodesTaken, SessionsRead, ChallengesTaken, CheckHolds, AnswersInForce,
   InsertedIsCurrent, OnlyNewestPage, NothingOutlivesChange, tokenVars, lockVars,
   accountVars, codeVars, sessionVars, localVars, mfaVars
<1>1. ASSUME NEW r \in Requests, Login(r) PROVE OnlyNewestPage'
  BY <1>1 DEF Login, Begin, Goto
<1>2. ASSUME NEW r \in Requests, StartSetup(r) PROVE OnlyNewestPage'
  BY <1>2 DEF StartSetup, Begin, Goto
<1>3. ASSUME NEW r \in Requests, NEW what \in Change \ {"setup"}, StartChange(r, what) PROVE OnlyNewestPage'
  BY <1>3 DEF StartChange, Begin, Goto
<1>4. ASSUME NEW r \in Requests, NEW t \in Tokens, AnswerTotp(r, t) PROVE OnlyNewestPage'
  BY <1>4 DEF AnswerTotp, Usable, Begin, Goto
<1>5. ASSUME NEW r \in Requests, NEW t \in Tokens, NEW c \in Codes, AnswerRecovery(r, t, c) PROVE OnlyNewestPage'
  BY <1>5 DEF AnswerRecovery, Usable, Begin, Goto
<1>6. ASSUME NEW r \in Requests, LockChange(r) PROVE OnlyNewestPage'
  BY <1>6 DEF LockChange, Step, Goto
<1>7. ASSUME NEW r \in Requests, CheckPasses(r) PROVE OnlyNewestPage'
  BY <1>7 DEF CheckPasses, MayChange, Step, Goto
<1>8. ASSUME NEW r \in Requests, TakeCodes(r) PROVE OnlyNewestPage'
  BY <1>8 DEF TakeCodes, Step, Goto
<1>9. ASSUME NEW r \in Requests, RevokeOthers(r) PROVE OnlyNewestPage'
  BY <1>9 DEF RevokeOthers, Step, Goto
<1>10. ASSUME NEW r \in Requests, SnapshotChallenges(r) PROVE OnlyNewestPage'
  BY <1>10 DEF SnapshotChallenges, SnapshotUnused, Goto
<1>11. ASSUME NEW r \in Requests, TakeChallenges(r) PROVE OnlyNewestPage'
  BY <1>11 DEF TakeChallenges, TakeUnused, Goto
<1>12. ASSUME NEW r \in Requests, CommitSetup(r) PROVE OnlyNewestPage'
  BY <1>12 DEF CommitSetup, Ready, Finish, End, Goto
<1>13. ASSUME NEW r \in Requests, CommitEnable(r) PROVE OnlyNewestPage'
  BY <1>13 DEF CommitEnable, Ready, NewPage, RevokeDoomed, SpendChallenges, SpendLocked,
     LockedBy, Finish, End, Goto
<1>14. ASSUME NEW r \in Requests, CommitDisable(r) PROVE OnlyNewestPage'
  BY <1>14 DEF CommitDisable, Ready, RevokeDoomed, SpendChallenges, SpendLocked, LockedBy,
     Finish, End, Goto
<1>15. ASSUME NEW r \in Requests, CommitRegenerate(r) PROVE OnlyNewestPage'
  BY <1>15 DEF CommitRegenerate, Ready, NewPage, Finish, End, Goto
<1>16. ASSUME NEW r \in Requests, Issues(r) PROVE OnlyNewestPage'
  BY <1>16 DEF Issues, LockForIssue, LockUserRow, CheckCooldown, Supersede, SnapshotUnused,
     SupersedeApply, TakeUnused, Goto
<1>17. ASSUME NEW r \in Requests, IssueCommits(r) PROVE OnlyNewestPage'
  BY <1>17 DEF IssueCommits, IssueCommit, SpendLocked, LockedBy, End, Goto
<1>18. ASSUME NEW r \in Requests, ConsumePasses(r) PROVE OnlyNewestPage'
  BY <1>18 DEF ConsumePasses, Usable, Step, Goto
<1>19. ASSUME NEW r \in Requests, AccountPasses(r) PROVE OnlyNewestPage'
  BY <1>19 DEF AccountPasses, Step, Goto
<1>20. ASSUME NEW r \in Requests, CodePasses(r) PROVE OnlyNewestPage'
  BY <1>20 DEF CodePasses, Step, Goto
<1>21. ASSUME NEW r \in Requests, Refuses(r) PROVE OnlyNewestPage'
  BY <1>21 DEF Refuses, Refuse, Finish, End, Goto
<1>22. ASSUME NEW r \in Requests, InsertLive(r) PROVE OnlyNewestPage'
  BY <1>22 DEF InsertLive, NewRow, Finish, End, Goto
<1>23. ASSUME NEW r \in Requests, InsertHeld(r) PROVE OnlyNewestPage'
  BY <1>23 DEF InsertHeld, NewRow, Goto
<1>24. ASSUME NEW r \in Requests, SnapshotLeftover(r) PROVE OnlyNewestPage'
  BY <1>24 DEF SnapshotLeftover, SnapshotUnused, Goto
<1>25. ASSUME NEW r \in Requests, TakeLeftover(r) PROVE OnlyNewestPage'
  BY <1>25 DEF TakeLeftover, TakeUnused, Goto
<1>26. ASSUME NEW r \in Requests, CommitLogin(r) PROVE OnlyNewestPage'
  BY <1>26 DEF CommitLogin, SpendChallenges, SpendLocked, LockedBy, Finish, End, Goto
<1>27. ASSUME NEW r \in Requests, Rollback(r) PROVE OnlyNewestPage'
  BY <1>27 DEF Rollback, Finish, End, Goto
<1>28. CASE ChangeStatus
  BY <1>28 DEF ChangeStatus, authVars, requestVars
<1>29. CASE SetupLapses
  BY <1>29 DEF SetupLapses, authVars, requestVars
<1>30. ASSUME NEW s \in Sessions, Rotate(s) PROVE OnlyNewestPage'
  BY <1>30 DEF Rotate, authVars, requestVars
<1>31. ASSUME NEW t \in Tokens, ExpireChallenge(t) PROVE OnlyNewestPage'
  BY <1>31 DEF ExpireChallenge, Expire, Usable, requestVars
<1>32. CASE UNCHANGED vars
  BY <1>32 DEF vars, authVars, requestVars
<1> HIDE DEF Protocol, TypeOK, Phases, Presented, AccountLock, Labels, Unused, Live, Change, Answer, Issuance, Locked, Inserted, Consumed, Held, ChallengeLock, CodeLock, RowOfLogin, Current, SnapshotsComplete, CodesTaken, SessionsRead, ChallengesTaken, CheckHolds, AnswersInForce, InsertedIsCurrent, OnlyNewestPage, NothingOutlivesChange
<1> QED BY Decompose, <1>1, <1>2, <1>3, <1>4, <1>5, <1>6, <1>7, <1>8, <1>9, <1>10, <1>11,
   <1>12, <1>13, <1>14, <1>15, <1>16, <1>17, <1>18, <1>19, <1>20, <1>21, <1>22, <1>23,
   <1>24, <1>25, <1>26, <1>27, <1>28, <1>29, <1>30, <1>31, <1>32 DEF Moves

\* enable and disable revoke every session but the kept one.
LEMMA NothingOutlivesChangeStep ==
  ASSUME Protocol, Held, Current, [Next]_vars
  PROVE  NothingOutlivesChange'
<1> USE NoneAssumption, TokenAssumption, MfaAssumption, ChallengeAssumption DEF Protocol,
   TypeOK, Phases, Presented, AccountLock, Labels, Unused, Live, Change, Answer, Issuance,
   Locked, Inserted, Consumed, Held, ChallengeLock, CodeLock, RowOfLogin, Current,
   SnapshotsComplete, CodesTaken, SessionsRead, ChallengesTaken, CheckHolds, AnswersInForce,
   InsertedIsCurrent, OnlyNewestPage, NothingOutlivesChange, tokenVars, lockVars,
   accountVars, codeVars, sessionVars, localVars, mfaVars
<1>1. ASSUME NEW r \in Requests, Login(r) PROVE NothingOutlivesChange'
  BY <1>1 DEF Login, Begin, Goto
<1>2. ASSUME NEW r \in Requests, StartSetup(r) PROVE NothingOutlivesChange'
  BY <1>2 DEF StartSetup, Begin, Goto
<1>3. ASSUME NEW r \in Requests, NEW what \in Change \ {"setup"}, StartChange(r, what) PROVE NothingOutlivesChange'
  BY <1>3 DEF StartChange, Begin, Goto
<1>4. ASSUME NEW r \in Requests, NEW t \in Tokens, AnswerTotp(r, t) PROVE NothingOutlivesChange'
  BY <1>4 DEF AnswerTotp, Usable, Begin, Goto
<1>5. ASSUME NEW r \in Requests, NEW t \in Tokens, NEW c \in Codes, AnswerRecovery(r, t, c) PROVE NothingOutlivesChange'
  BY <1>5 DEF AnswerRecovery, Usable, Begin, Goto
<1>6. ASSUME NEW r \in Requests, LockChange(r) PROVE NothingOutlivesChange'
  BY <1>6 DEF LockChange, Step, Goto
<1>7. ASSUME NEW r \in Requests, CheckPasses(r) PROVE NothingOutlivesChange'
  BY <1>7 DEF CheckPasses, MayChange, Step, Goto
<1>8. ASSUME NEW r \in Requests, TakeCodes(r) PROVE NothingOutlivesChange'
  BY <1>8 DEF TakeCodes, Step, Goto
<1>9. ASSUME NEW r \in Requests, RevokeOthers(r) PROVE NothingOutlivesChange'
  BY <1>9 DEF RevokeOthers, Step, Goto
<1>10. ASSUME NEW r \in Requests, SnapshotChallenges(r) PROVE NothingOutlivesChange'
  BY <1>10 DEF SnapshotChallenges, SnapshotUnused, Goto
<1>11. ASSUME NEW r \in Requests, TakeChallenges(r) PROVE NothingOutlivesChange'
  BY <1>11 DEF TakeChallenges, TakeUnused, Goto
<1>12. ASSUME NEW r \in Requests, CommitSetup(r) PROVE NothingOutlivesChange'
  BY <1>12 DEF CommitSetup, Ready, Finish, End, Goto
<1>13. ASSUME NEW r \in Requests, CommitEnable(r) PROVE NothingOutlivesChange'
  BY <1>13 DEF CommitEnable, Ready, NewPage, RevokeDoomed, SpendChallenges, SpendLocked,
     LockedBy, Finish, End, Goto
<1>14. ASSUME NEW r \in Requests, CommitDisable(r) PROVE NothingOutlivesChange'
  BY <1>14 DEF CommitDisable, Ready, RevokeDoomed, SpendChallenges, SpendLocked, LockedBy,
     Finish, End, Goto
<1>15. ASSUME NEW r \in Requests, CommitRegenerate(r) PROVE NothingOutlivesChange'
  BY <1>15 DEF CommitRegenerate, Ready, NewPage, Finish, End, Goto
<1>16. ASSUME NEW r \in Requests, Issues(r) PROVE NothingOutlivesChange'
  BY <1>16 DEF Issues, LockForIssue, LockUserRow, CheckCooldown, Supersede, SnapshotUnused,
     SupersedeApply, TakeUnused, Goto
<1>17. ASSUME NEW r \in Requests, IssueCommits(r) PROVE NothingOutlivesChange'
  BY <1>17 DEF IssueCommits, IssueCommit, SpendLocked, LockedBy, End, Goto
<1>18. ASSUME NEW r \in Requests, ConsumePasses(r) PROVE NothingOutlivesChange'
  BY <1>18 DEF ConsumePasses, Usable, Step, Goto
<1>19. ASSUME NEW r \in Requests, AccountPasses(r) PROVE NothingOutlivesChange'
  BY <1>19 DEF AccountPasses, Step, Goto
<1>20. ASSUME NEW r \in Requests, CodePasses(r) PROVE NothingOutlivesChange'
  BY <1>20 DEF CodePasses, Step, Goto
<1>21. ASSUME NEW r \in Requests, Refuses(r) PROVE NothingOutlivesChange'
  BY <1>21 DEF Refuses, Refuse, Finish, End, Goto
<1>22. ASSUME NEW r \in Requests, InsertLive(r) PROVE NothingOutlivesChange'
  BY <1>22 DEF InsertLive, NewRow, Finish, End, Goto
<1>23. ASSUME NEW r \in Requests, InsertHeld(r) PROVE NothingOutlivesChange'
  BY <1>23 DEF InsertHeld, NewRow, Goto
<1>24. ASSUME NEW r \in Requests, SnapshotLeftover(r) PROVE NothingOutlivesChange'
  BY <1>24 DEF SnapshotLeftover, SnapshotUnused, Goto
<1>25. ASSUME NEW r \in Requests, TakeLeftover(r) PROVE NothingOutlivesChange'
  BY <1>25 DEF TakeLeftover, TakeUnused, Goto
<1>26. ASSUME NEW r \in Requests, CommitLogin(r) PROVE NothingOutlivesChange'
  BY <1>26 DEF CommitLogin, SpendChallenges, SpendLocked, LockedBy, Finish, End, Goto
<1>27. ASSUME NEW r \in Requests, Rollback(r) PROVE NothingOutlivesChange'
  BY <1>27 DEF Rollback, Finish, End, Goto
<1>28. CASE ChangeStatus
  BY <1>28 DEF ChangeStatus, authVars, requestVars
<1>29. CASE SetupLapses
  BY <1>29 DEF SetupLapses, authVars, requestVars
<1>30. ASSUME NEW s \in Sessions, Rotate(s) PROVE NothingOutlivesChange'
  BY <1>30 DEF Rotate, authVars, requestVars
<1>31. ASSUME NEW t \in Tokens, ExpireChallenge(t) PROVE NothingOutlivesChange'
  BY <1>31 DEF ExpireChallenge, Expire, Usable, requestVars
<1>32. CASE UNCHANGED vars
  BY <1>32 DEF vars, authVars, requestVars
<1> HIDE DEF Protocol, TypeOK, Phases, Presented, AccountLock, Labels, Unused, Live, Change, Answer, Issuance, Locked, Inserted, Consumed, Held, ChallengeLock, CodeLock, RowOfLogin, Current, SnapshotsComplete, CodesTaken, SessionsRead, ChallengesTaken, CheckHolds, AnswersInForce, InsertedIsCurrent, OnlyNewestPage, NothingOutlivesChange
<1> QED BY Decompose, <1>1, <1>2, <1>3, <1>4, <1>5, <1>6, <1>7, <1>8, <1>9, <1>10, <1>11,
   <1>12, <1>13, <1>14, <1>15, <1>16, <1>17, <1>18, <1>19, <1>20, <1>21, <1>22, <1>23,
   <1>24, <1>25, <1>26, <1>27, <1>28, <1>29, <1>30, <1>31, <1>32 DEF Moves

\* A step that turns two-factor authentication off is a removal.
LEMMA OnlyDisableStep ==
  ASSUME Protocol, Held, Current, [Next]_vars
  PROVE  (mfa = "enabled" /\ mfa' # "enabled") => mfa' = "none"
<1> USE NoneAssumption, TokenAssumption, MfaAssumption, ChallengeAssumption DEF Protocol,
   TypeOK, Phases, Presented, AccountLock, Labels, Unused, Live, Change, Answer, Issuance,
   Locked, Inserted, Consumed, Held, ChallengeLock, CodeLock, RowOfLogin, Current,
   SnapshotsComplete, CodesTaken, SessionsRead, ChallengesTaken, CheckHolds, AnswersInForce,
   InsertedIsCurrent, OnlyNewestPage, NothingOutlivesChange, tokenVars, lockVars,
   accountVars, codeVars, sessionVars, localVars, mfaVars
<1>1. ASSUME NEW r \in Requests, Login(r) PROVE (mfa = "enabled" /\ mfa' # "enabled") => mfa' = "none"
  BY <1>1 DEF Login, Begin, Goto
<1>2. ASSUME NEW r \in Requests, StartSetup(r) PROVE (mfa = "enabled" /\ mfa' # "enabled") => mfa' = "none"
  BY <1>2 DEF StartSetup, Begin, Goto
<1>3. ASSUME NEW r \in Requests, NEW what \in Change \ {"setup"}, StartChange(r, what) PROVE (mfa = "enabled" /\ mfa' # "enabled") => mfa' = "none"
  BY <1>3 DEF StartChange, Begin, Goto
<1>4. ASSUME NEW r \in Requests, NEW t \in Tokens, AnswerTotp(r, t) PROVE (mfa = "enabled" /\ mfa' # "enabled") => mfa' = "none"
  BY <1>4 DEF AnswerTotp, Usable, Begin, Goto
<1>5. ASSUME NEW r \in Requests, NEW t \in Tokens, NEW c \in Codes, AnswerRecovery(r, t, c) PROVE (mfa = "enabled" /\ mfa' # "enabled") => mfa' = "none"
  BY <1>5 DEF AnswerRecovery, Usable, Begin, Goto
<1>6. ASSUME NEW r \in Requests, LockChange(r) PROVE (mfa = "enabled" /\ mfa' # "enabled") => mfa' = "none"
  BY <1>6 DEF LockChange, Step, Goto
<1>7. ASSUME NEW r \in Requests, CheckPasses(r) PROVE (mfa = "enabled" /\ mfa' # "enabled") => mfa' = "none"
  BY <1>7 DEF CheckPasses, MayChange, Step, Goto
<1>8. ASSUME NEW r \in Requests, TakeCodes(r) PROVE (mfa = "enabled" /\ mfa' # "enabled") => mfa' = "none"
  BY <1>8 DEF TakeCodes, Step, Goto
<1>9. ASSUME NEW r \in Requests, RevokeOthers(r) PROVE (mfa = "enabled" /\ mfa' # "enabled") => mfa' = "none"
  BY <1>9 DEF RevokeOthers, Step, Goto
<1>10. ASSUME NEW r \in Requests, SnapshotChallenges(r) PROVE (mfa = "enabled" /\ mfa' # "enabled") => mfa' = "none"
  BY <1>10 DEF SnapshotChallenges, SnapshotUnused, Goto
<1>11. ASSUME NEW r \in Requests, TakeChallenges(r) PROVE (mfa = "enabled" /\ mfa' # "enabled") => mfa' = "none"
  BY <1>11 DEF TakeChallenges, TakeUnused, Goto
<1>12. ASSUME NEW r \in Requests, CommitSetup(r) PROVE (mfa = "enabled" /\ mfa' # "enabled") => mfa' = "none"
  BY <1>12 DEF CommitSetup, Ready, Finish, End, Goto
<1>13. ASSUME NEW r \in Requests, CommitEnable(r) PROVE (mfa = "enabled" /\ mfa' # "enabled") => mfa' = "none"
  BY <1>13 DEF CommitEnable, Ready, NewPage, RevokeDoomed, SpendChallenges, SpendLocked,
     LockedBy, Finish, End, Goto
<1>14. ASSUME NEW r \in Requests, CommitDisable(r) PROVE (mfa = "enabled" /\ mfa' # "enabled") => mfa' = "none"
  BY <1>14 DEF CommitDisable, Ready, RevokeDoomed, SpendChallenges, SpendLocked, LockedBy,
     Finish, End, Goto
<1>15. ASSUME NEW r \in Requests, CommitRegenerate(r) PROVE (mfa = "enabled" /\ mfa' # "enabled") => mfa' = "none"
  BY <1>15 DEF CommitRegenerate, Ready, NewPage, Finish, End, Goto
<1>16. ASSUME NEW r \in Requests, Issues(r) PROVE (mfa = "enabled" /\ mfa' # "enabled") => mfa' = "none"
  BY <1>16 DEF Issues, LockForIssue, LockUserRow, CheckCooldown, Supersede, SnapshotUnused,
     SupersedeApply, TakeUnused, Goto
<1>17. ASSUME NEW r \in Requests, IssueCommits(r) PROVE (mfa = "enabled" /\ mfa' # "enabled") => mfa' = "none"
  BY <1>17 DEF IssueCommits, IssueCommit, SpendLocked, LockedBy, End, Goto
<1>18. ASSUME NEW r \in Requests, ConsumePasses(r) PROVE (mfa = "enabled" /\ mfa' # "enabled") => mfa' = "none"
  BY <1>18 DEF ConsumePasses, Usable, Step, Goto
<1>19. ASSUME NEW r \in Requests, AccountPasses(r) PROVE (mfa = "enabled" /\ mfa' # "enabled") => mfa' = "none"
  BY <1>19 DEF AccountPasses, Step, Goto
<1>20. ASSUME NEW r \in Requests, CodePasses(r) PROVE (mfa = "enabled" /\ mfa' # "enabled") => mfa' = "none"
  BY <1>20 DEF CodePasses, Step, Goto
<1>21. ASSUME NEW r \in Requests, Refuses(r) PROVE (mfa = "enabled" /\ mfa' # "enabled") => mfa' = "none"
  BY <1>21 DEF Refuses, Refuse, Finish, End, Goto
<1>22. ASSUME NEW r \in Requests, InsertLive(r) PROVE (mfa = "enabled" /\ mfa' # "enabled") => mfa' = "none"
  BY <1>22 DEF InsertLive, NewRow, Finish, End, Goto
<1>23. ASSUME NEW r \in Requests, InsertHeld(r) PROVE (mfa = "enabled" /\ mfa' # "enabled") => mfa' = "none"
  BY <1>23 DEF InsertHeld, NewRow, Goto
<1>24. ASSUME NEW r \in Requests, SnapshotLeftover(r) PROVE (mfa = "enabled" /\ mfa' # "enabled") => mfa' = "none"
  BY <1>24 DEF SnapshotLeftover, SnapshotUnused, Goto
<1>25. ASSUME NEW r \in Requests, TakeLeftover(r) PROVE (mfa = "enabled" /\ mfa' # "enabled") => mfa' = "none"
  BY <1>25 DEF TakeLeftover, TakeUnused, Goto
<1>26. ASSUME NEW r \in Requests, CommitLogin(r) PROVE (mfa = "enabled" /\ mfa' # "enabled") => mfa' = "none"
  BY <1>26 DEF CommitLogin, SpendChallenges, SpendLocked, LockedBy, Finish, End, Goto
<1>27. ASSUME NEW r \in Requests, Rollback(r) PROVE (mfa = "enabled" /\ mfa' # "enabled") => mfa' = "none"
  BY <1>27 DEF Rollback, Finish, End, Goto
<1>28. CASE ChangeStatus
  BY <1>28 DEF ChangeStatus, authVars, requestVars
<1>29. CASE SetupLapses
  BY <1>29 DEF SetupLapses, authVars, requestVars
<1>30. ASSUME NEW s \in Sessions, Rotate(s) PROVE (mfa = "enabled" /\ mfa' # "enabled") => mfa' = "none"
  BY <1>30 DEF Rotate, authVars, requestVars
<1>31. ASSUME NEW t \in Tokens, ExpireChallenge(t) PROVE (mfa = "enabled" /\ mfa' # "enabled") => mfa' = "none"
  BY <1>31 DEF ExpireChallenge, Expire, Usable, requestVars
<1>32. CASE UNCHANGED vars
  BY <1>32 DEF vars, authVars, requestVars
<1> HIDE DEF Protocol, TypeOK, Phases, Presented, AccountLock, Labels, Unused, Live, Change, Answer, Issuance, Locked, Inserted, Consumed, Held, ChallengeLock, CodeLock, RowOfLogin, Current, SnapshotsComplete, CodesTaken, SessionsRead, ChallengesTaken, CheckHolds, AnswersInForce, InsertedIsCurrent, OnlyNewestPage, NothingOutlivesChange
<1> QED BY Decompose, <1>1, <1>2, <1>3, <1>4, <1>5, <1>6, <1>7, <1>8, <1>9, <1>10, <1>11,
   <1>12, <1>13, <1>14, <1>15, <1>16, <1>17, <1>18, <1>19, <1>20, <1>21, <1>22, <1>23,
   <1>24, <1>25, <1>26, <1>27, <1>28, <1>29, <1>30, <1>31, <1>32 DEF Moves

-----------------------------------------------------------------------------

\* The invariant holds of an account without two-factor authentication.
LEMMA InitIInv ==
  ASSUME Init
  PROVE  IInv
<1> USE NoneAssumption, TokenAssumption, MfaAssumption DEF Init, AuthInit
<1>1. TypeOK
  BY DEF TypeOK, Labels
<1>2. Protocol
  BY <1>1 DEF Protocol, Phases, Presented, AccountLock, Change, Answer, Issuance, Locked, Inserted
<1>3. ChallengeLock /\ CodeLock /\ RowOfLogin
  BY DEF ChallengeLock, CodeLock, RowOfLogin, Answer, Consumed, Inserted
<1>4. FundsAreSpent /\ SpentOnce
  BY DEF FundsAreSpent, SpentOnce
<1>5. SnapshotsComplete /\ CheckHolds
  BY DEF SnapshotsComplete, CodesTaken, SessionsRead, ChallengesTaken, CheckHolds, Locked
<1>6. AnswersInForce /\ InsertedIsCurrent /\ OnlyNewestPage /\ NothingOutlivesChange
  BY DEF AnswersInForce, Answer, InsertedIsCurrent, OnlyNewestPage, NothingOutlivesChange, Live
<1> QED BY <1>2, <1>3, <1>4, <1>5, <1>6 DEF IInv, Held, Current

\* The invariant is inductive: each layer from itself and those before it.
LEMMA StepIInv ==
  ASSUME IInv, [Next]_vars
  PROVE  IInv'
<1>1. Protocol'
  BY TypeStep, PhasesStep, PresentedStep, AccountLockStep DEF IInv, Protocol
<1>2. Held'
  BY ChallengeLockStep, CodeLockStep, RowOfLoginStep, FundsAreSpentStep, SpentOnceStep
     DEF IInv, Held
<1>3. Current'
  BY SnapshotsCompleteStep, CheckHoldsStep, AnswersInForceStep, InsertedIsCurrentStep,
     OnlyNewestPageStep, NothingOutlivesChangeStep DEF IInv, Current
<1> QED BY <1>1, <1>2, <1>3 DEF IInv

\* The inductive invariant holds in every reachable state.
THEOREM Invariance == Spec => []IInv
<1>1. Init => IInv
  BY InitIInv
<1>2. IInv /\ [Next]_vars => IInv'
  BY StepIInv
<1> QED BY <1>1, <1>2, PTL DEF Spec

\* Every variable of the account keeps its type.
THEOREM TypeCorrectness == Spec => []TypeOK
<1>1. IInv => TypeOK
  BY DEF IInv, Protocol
<1> QED BY <1>1, Invariance, PTL

\* A challenge funds one login and a recovery code one login, for any number of
\* requests presenting them together (verifyMfaLoginChallenge, verifyMfaLoginRecoveryCode).
THEOREM FactorsAreSpentOnce == Spec => []SpentOnce
<1>1. IInv => SpentOnce
  BY DEF IInv, Held
<1> QED BY <1>1, Invariance, PTL

\* Only the page of recovery codes minted last can be spent, and none while two-factor
\* authentication is off (enableMfa, regenerateMfaRecoveryCodes, disableMfa).
THEOREM OldPagesAreDead == Spec => []OnlyNewestPage
<1>1. IInv => OnlyNewestPage
  BY DEF IInv, Current
<1> QED BY <1>1, Invariance, PTL

\* After a committed change of the configuration, no earlier session is usable but the
\* kept one, whatever logins and rotations were in flight (revokeAllUserSessionsExcept).
THEOREM ChangesEndSessions == Spec => []NothingOutlivesChange
<1>1. IInv => NothingOutlivesChange
  BY DEF IInv, Current
<1> QED BY <1>1, Invariance, PTL

\* A login completes on the set-up in force although it reads the account without a
\* lock, and only a removal turns two-factor authentication off.
THEOREM CompletesCurrent == Spec => SetupIsCurrent
<1>1. ASSUME IInv, NEW r \in Requests, pc[r] = "loginCommit"
      PROVE  mfa = "enabled" /\ (op[r] = "totp" => held[r] = secret)
  <2>1. op[r] \in Answer /\ tok[r] \in Tokens
    BY <1>1 DEF IInv, Protocol, Phases, Presented, Inserted
  <2>2. tokLock[tok[r]] = r
    BY <1>1, <2>1 DEF IInv, Held, ChallengeLock, Consumed, Inserted
  <2>3. Unused(tok[r])
    BY <1>1, <2>1, <2>2, NoneAssumption, TokenAssumption DEF IInv, Held, ChallengeLock
  <2> QED BY <1>1, <2>1, <2>3 DEF IInv, Current, AnswersInForce
<1>2. IInv /\ [Next]_vars =>
        [\A r \in Requests : (pc[r] = "loginCommit" /\ sess'[fresh[r]] = "live") =>
            mfa = "enabled" /\ (op[r] = "totp" => held[r] = secret)]_vars
  BY <1>1
<1>3. IInv /\ [Next]_vars =>
        [(mfa = "enabled" /\ mfa' # "enabled") => mfa' = "none"]_vars
  BY OnlyDisableStep DEF IInv
<1> QED BY <1>2, <1>3, Invariance, PTL
       DEF Spec, SetupIsCurrent, CompletesCurrentSetup, OnlyDisableTurnsOff
=============================================================================
