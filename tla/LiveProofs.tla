----------------------------- MODULE LiveProofs -----------------------------
(***************************************************************************)
(* Proofs about the parts of MCLive.  PasswordReset: its safety properties *)
(* and that it implements SingleUseLink, for every number of links and     *)
(* requests.  EmailVerification is proved about in a module of its own;    *)
(* what a run checks of it follows in every behaviour that exercises one   *)
(* of the parts.  The process: its exit, for any number of requests in     *)
(* progress.  The pages of the client: what is left on the screen when     *)
(* everything is quiet, the signs of a load, and that answers stay with    *)
(* the dialogs they are for, for every number of rows, queries, handlers   *)
(* and requests.                                                           *)
(***************************************************************************)
EXTENDS MCLive, FiniteSetTheorems, SequenceTheorems, TLAPS

-----------------------------------------------------------------------------
(* Password reset.                                                         *)

HoldsUser == {"cooldown", "supersede", "supersedeApply", "issueCommit",
              "account", "revoke", "revokeApply", "effectCommit"}
HoldsToken == {"consumed", "account", "revoke", "revokeApply", "effectCommit"}

\* The account's row is held exactly by the request between its lock and its
\* commit.
UserLockInv ==
  /\ \A r \in Requests : pc[r] \in HoldsUser => userLock = r
  /\ userLock # None => pc[userLock] \in HoldsUser

\* A locked token is unused, its holder consumed it or is replacing it.
TokLockInv ==
  /\ \A t \in Tokens : tokLock[t] # None =>
       Unused(t) /\ pc[tokLock[t]] \in HoldsToken \cup {"issueCommit"}
  /\ \A r \in Requests : pc[r] \in HoldsToken => tok[r] \in Tokens /\ tokLock[tok[r]] = r
  /\ \A r \in Requests : pc[r] = "consume" => tok[r] \in Tokens

\* Nobody else inserts a token while the account is held, so the rows that a
\* request found, and then locked, stay all the unused ones.
SnapshotInv ==
  \A r \in Requests, t \in Tokens :
    /\ (pc[r] \in {"supersedeApply", "revokeApply"} /\ Unused(t)) => t \in cand[r] \/ tokLock[t] = r
    /\ (pc[r] \in {"issueCommit", "effectCommit"} /\ Unused(t)) => tokLock[t] = r

\* What the cooldown check and the status check found holds until the commit.
ChecksInv ==
  /\ \A r \in Requests : (Cooldown /\ pc[r] \in {"supersede", "supersedeApply", "issueCommit"})
                            => recent = {}
  /\ \A r \in Requests : pc[r] \in {"revoke", "revokeApply", "effectCommit"} => status = "ACTIVE"

RecentInv == Cooldown => \A s, t \in recent : s = t
AppliedInv == \A t \in applied : tstate[t] = "used"

Inv ==
  /\ TypeOK
  /\ UserLockInv
  /\ TokLockInv
  /\ SnapshotInv
  /\ ChecksInv
  /\ RecentInv
  /\ AppliedInv
  /\ OneUnusedLink

\* An account without links satisfies the invariant.
LEMMA InitInv == Init => Inv
BY NoneAssumption, TokenAssumption DEF Init, AuthInit, Inv, TypeOK, AuthTypeOK, UserLockInv, TokLockInv,
   SnapshotInv, ChecksInv, RecentInv, AppliedInv, OneUnusedLink, HoldsUser, HoldsToken, Unused

\* A transaction that ends without changing a row.
LEMMA EndInv ==
  ASSUME Inv, NEW r \in Requests, End(r), UNCHANGED <<tokenVars, status, applied>>
  PROVE  Inv'
BY NoneAssumption, TokenAssumption, SMTT(60) DEF Inv, TypeOK, AuthTypeOK, UserLockInv, TokLockInv, SnapshotInv,
   ChecksInv, RecentInv, AppliedInv, OneUnusedLink, HoldsUser, HoldsToken, Unused, End, Goto,
   tokenVars

\* Issuing a link.
LEMMA IssueInv ==
  ASSUME Inv, NEW r \in Requests, Issue(r), UNCHANGED <<status, applied>>
  PROVE  Inv'
<1> USE NoneAssumption, TokenAssumption DEF Inv, TypeOK, AuthTypeOK, UserLockInv, TokLockInv, SnapshotInv,
        ChecksInv, RecentInv, AppliedInv, OneUnusedLink, HoldsUser, HoldsToken, Unused, Goto,
        tokenVars, lockVars
<1>1. CASE LockForIssue(r)
  BY <1>1, SMTT(60) DEF LockForIssue, LockUserRow
<1>2. CASE CheckCooldown(r)
  <2>1. CASE End(r)
    BY <1>2, <2>1, EndInv DEF CheckCooldown
  <2>2. CASE ~(Cooldown /\ recent # {}) /\ Goto(r, "supersede") /\ UNCHANGED <<lockVars, tok, cand>>
    BY <1>2, <2>2, SMTT(60) DEF CheckCooldown
  <2> QED
    BY <1>2, <2>1, <2>2 DEF CheckCooldown
<1>3. CASE Supersede(r)
  BY <1>3, SMTT(60) DEF Supersede, SnapshotUnused
<1>4. CASE SupersedeApply(r)
  BY <1>4, SMTT(60) DEF SupersedeApply, TakeUnused
<1>5. CASE IssueCommit(r)
  BY <1>5, SMTT(60) DEF IssueCommit, End, SpendLocked, LockedBy
<1> QED
  BY <1>1, <1>2, <1>3, <1>4, <1>5 DEF Issue

\* Using a link.
LEMMA UseInv ==
  ASSUME Inv, NEW r \in Requests, UNCHANGED status,
         \/ /\ \/ Consume(r) \/ LockOwner(r) \/ ReadAccount(r) \/ RefuseIneligible(r)
               \/ RevokeLinks(r) \/ RevokeLinksApply(r)
            /\ UNCHANGED applied
         \/ ResetCommit(r)
  PROVE  Inv'
<1> USE NoneAssumption, TokenAssumption DEF Inv, TypeOK, AuthTypeOK, UserLockInv, TokLockInv, SnapshotInv,
        ChecksInv, RecentInv, AppliedInv, OneUnusedLink, HoldsUser, HoldsToken, Unused, Goto,
        tokenVars, lockVars
<1>1. CASE Consume(r) /\ UNCHANGED applied
  <2>1. CASE End(r)
    BY <1>1, <2>1, EndInv DEF Consume
  <2>2. CASE Usable(tok[r]) /\ tokLock' = [tokLock EXCEPT ![tok[r]] = r] /\ Goto(r, "consumed")
             /\ UNCHANGED <<userLock, tok, cand>>
    BY <1>1, <2>2, SMTT(60) DEF Consume, Usable
  <2> QED
    BY <1>1, <2>1, <2>2 DEF Consume
<1>2. CASE LockOwner(r) /\ UNCHANGED applied
  BY <1>2, SMTT(60) DEF LockOwner, LockUserRow
<1>3. CASE ReadAccount(r) /\ UNCHANGED applied
  BY <1>3, SMTT(60) DEF ReadAccount
<1>4. CASE RefuseIneligible(r) /\ UNCHANGED applied
  BY <1>4, SMTT(60) DEF RefuseIneligible, End, SpendLocked, LockedBy
<1>5. CASE RevokeLinks(r) /\ UNCHANGED applied
  BY <1>5, SMTT(60) DEF RevokeLinks, SnapshotUnused
<1>6. CASE RevokeLinksApply(r) /\ UNCHANGED applied
  BY <1>6, SMTT(60) DEF RevokeLinksApply, TakeUnused
<1>7. CASE ResetCommit(r)
  BY <1>7, SMTT(60) DEF ResetCommit, End, SpendLocked, LockedBy
<1> QED
  BY <1>1, <1>2, <1>3, <1>4, <1>5, <1>6, <1>7

\* The invariant is inductive.
LEMMA InvStep == Inv /\ [Next]_vars => Inv'
<1> SUFFICES ASSUME Inv, [Next]_vars PROVE Inv'
  OBVIOUS
<1>1. ASSUME NEW r \in Requests, Continue(r), UNCHANGED status PROVE Inv'
  BY <1>1, IssueInv, UseInv DEF Continue
<1>2. ASSUME NEW r \in Requests, Start(r), UNCHANGED <<status, applied>> PROVE Inv'
  BY <1>2, NoneAssumption, TokenAssumption, SMTT(60) DEF Start, RequestReset, Present, Inv, TypeOK, AuthTypeOK,
     UserLockInv, TokLockInv, SnapshotInv, ChecksInv, RecentInv, AppliedInv, OneUnusedLink,
     HoldsUser, HoldsToken, Unused, Goto, tokenVars, lockVars
<1>3. ASSUME NEW r \in Requests, End(r), UNCHANGED <<tokenVars, status, applied>> PROVE Inv'
  BY <1>3, EndInv
<1>4. CASE Passage /\ UNCHANGED <<status, applied>>
  BY <1>4, NoneAssumption, TokenAssumption, SMTT(60) DEF Passage, CooldownPasses, Expire, Inv, TypeOK, AuthTypeOK,
     UserLockInv, TokLockInv, SnapshotInv, ChecksInv, RecentInv, AppliedInv, OneUnusedLink,
     HoldsUser, HoldsToken, Unused, lockVars, requestVars
<1>5. CASE ChangeStatus
  BY <1>5, NoneAssumption, TokenAssumption, SMTT(60) DEF ChangeStatus, Inv, TypeOK, AuthTypeOK, UserLockInv,
     TokLockInv, SnapshotInv, ChecksInv, RecentInv, AppliedInv, OneUnusedLink, HoldsUser,
     HoldsToken, Unused, authVars, tokenVars, lockVars, requestVars
<1>6. CASE UNCHANGED vars
  BY <1>6 DEF vars, Inv, TypeOK, AuthTypeOK, UserLockInv, TokLockInv, SnapshotInv, ChecksInv,
     RecentInv, AppliedInv, OneUnusedLink, HoldsUser, HoldsToken, Unused, authVars, tokenVars,
     lockVars, requestVars
<1> QED
  BY <1>1, <1>2, <1>3, <1>4, <1>5, <1>6 DEF Next, Abort, DeadlockVictim

\* The invariant holds in every reachable state.
THEOREM Invariance == Spec => []Inv
<1>1. Init => Inv
  BY InitInv
<1>2. Inv /\ [Next]_vars => Inv'
  BY InvStep
<1> QED
  BY <1>1, <1>2, PTL DEF Spec

\* Every variable keeps its type.
THEOREM TypeCorrectness == Spec => []TypeOK
<1>1. Inv => TypeOK
  BY DEF Inv
<1> QED
  BY Invariance, <1>1, PTL

\* At most one reset link of an account is unused.
THEOREM OnlyNewestLinkWorks == Spec => []OneUnusedLink
<1>1. Inv => OneUnusedLink
  BY DEF Inv
<1> QED
  BY Invariance, <1>1, PTL

\* Concurrent requests do not outrun the cooldown.
THEOREM CooldownEnforced == Spec => []CooldownHolds
<1>1. Inv => CooldownHolds
  <2> SUFFICES ASSUME Inv, Cooldown PROVE Cardinality(recent) <= 1
    BY DEF CooldownHolds
  <2>1. CASE recent = {}
    BY <2>1, FS_EmptySet
  <2>2. CASE recent # {}
    <3>1. PICK t \in recent : TRUE
      BY <2>2
    <3>2. recent = {t}
      BY <3>1 DEF Inv, RecentInv
    <3> QED
      BY <3>2, FS_Singleton
  <2> QED
    BY <2>1, <2>2
<1> QED
  BY Invariance, <1>1, PTL

\* A password changes only while the account is ACTIVE.
THEOREM IneligibleIsNeverReset == Spec => OnlyActiveIsReset
<1>1. Inv /\ [Next]_vars => (applied' # applied => status = "ACTIVE")
  <2> SUFFICES ASSUME Inv, [Next]_vars, applied' # applied PROVE status = "ACTIVE"
    OBVIOUS
  <2>1. PICK r \in Requests : ResetCommit(r)
    BY DEF Next, Continue, ChangeStatus, vars
  <2> QED
    BY <2>1 DEF ResetCommit, Inv, ChecksInv
<1>2. Inv /\ [Next]_vars => [applied' # applied => status = "ACTIVE"]_vars
  BY <1>1
<1> QED
  BY Invariance, <1>2, PTL DEF Spec, OnlyActiveIsReset

-----------------------------------------------------------------------------
\* A step that changes neither a row nor `applied` is a stutter of the promise.
LEMMA Stutter == ASSUME UNCHANGED <<tstate, applied>> PROVE UNCHANGED link
BY DEF link

\* PasswordReset implements SingleUseLink: committing an issue, a reset or a
\* refusal is the abstract step of that name, and nothing else is seen.
THEOREM ImplementsPromise == Spec => KeepsPromise
<1>1. Init => Promise!Init
  BY DEF Init, AuthInit, Promise!Init, link
<1>2. Inv /\ [Next]_vars => [Promise!Next]_link
  <2> SUFFICES ASSUME Inv, [Next]_vars PROVE Promise!Next \/ UNCHANGED link
    OBVIOUS
  <2> USE DEF Inv, TypeOK, AuthTypeOK, Unused
  <2>1. ASSUME NEW r \in Requests, IssueCommit(r), UNCHANGED applied PROVE Promise!Next
    <3>1. PICK t \in Tokens : tstate[t] = "absent" /\ tstate' = [SpendLocked(r) EXCEPT ![t] = "unused"]
      BY <2>1 DEF IssueCommit
    <3>2. \A s \in Tokens : Unused(s) => tokLock[s] = r
      BY <2>1 DEF IssueCommit, SnapshotInv
    <3>3. \A s \in Tokens : tokLock[s] = r => Unused(s)
      BY NoneAssumption, TokenAssumption DEF TokLockInv
    <3>4. Promise!Issue(t)
      BY <2>1, <3>1, <3>2, <3>3, SMTT(60) DEF Promise!Issue, Promise!Replace, link, SpendLocked,
         LockedBy, AppliedInv
    <3> QED
      BY <3>4 DEF Promise!Next
  <2>2. ASSUME NEW r \in Requests, ResetCommit(r) PROVE Promise!Next
    <3>1. tok[r] \in Tokens /\ tokLock[tok[r]] = r
      BY <2>2 DEF ResetCommit, TokLockInv, HoldsToken
    <3>2. \A s \in Tokens : Unused(s) <=> tokLock[s] = r
      BY <2>2, NoneAssumption, TokenAssumption DEF ResetCommit, SnapshotInv, TokLockInv
    <3>3. Promise!Apply(tok[r])
      BY <2>2, <3>1, <3>2, SMTT(60) DEF ResetCommit, Promise!Apply, Promise!Replace, link,
         SpendLocked, LockedBy, AppliedInv
    <3> QED
      BY <3>1, <3>3 DEF Promise!Next
  <2>3. ASSUME NEW r \in Requests, RefuseIneligible(r), UNCHANGED applied PROVE Promise!Next
    <3>1. tok[r] \in Tokens /\ tokLock[tok[r]] = r /\ Unused(tok[r])
      BY <2>3, NoneAssumption, TokenAssumption DEF RefuseIneligible, TokLockInv, HoldsToken
    <3>2. \A s \in Tokens : tokLock[s] = r => s = tok[r]
      BY <3>1, NoneAssumption, TokenAssumption DEF TokLockInv, OneUnusedLink
    <3>3. Promise!Refuse(tok[r])
      BY <2>3, <3>1, <3>2, SMTT(60) DEF RefuseIneligible, Promise!Refuse, link, SpendLocked,
         LockedBy, AppliedInv
    <3> QED
      BY <3>1, <3>3 DEF Promise!Next
  <2>4. CASE UNCHANGED <<tstate, applied>>
    BY <2>4, Stutter
  <2> QED
    <3> USE DEF tokenVars
    <3>1. ASSUME NEW r \in Requests, Continue(r) PROVE Promise!Next \/ UNCHANGED <<tstate, applied>>
      BY <2>1, <2>2, <2>3, <3>1 DEF Continue, Issue, LockForIssue, LockUserRow, CheckCooldown,
         Supersede, SnapshotUnused, SupersedeApply, TakeUnused, Consume, LockOwner, ReadAccount,
         RevokeLinks, RevokeLinksApply
    <3>2. ASSUME NEW r \in Requests, Start(r) \/ Abort(r), UNCHANGED applied
          PROVE  UNCHANGED <<tstate, applied>>
      BY <3>2 DEF Start, RequestReset, Present, Abort
    <3>3. ASSUME DeadlockVictim \/ Passage, UNCHANGED applied PROVE UNCHANGED <<tstate, applied>>
      BY <3>3 DEF DeadlockVictim, Passage, CooldownPasses, Expire
    <3>4. CASE ChangeStatus
      BY <2>4, <3>4 DEF ChangeStatus, authVars
    <3>5. CASE UNCHANGED vars
      BY <2>4, <3>5 DEF vars, authVars
    <3> QED
      BY <2>4, <3>1, <3>2, <3>3, <3>4, <3>5 DEF Next
<1> QED
  BY Invariance, <1>1, <1>2, PTL DEF Spec, KeepsPromise, Promise!Spec

-----------------------------------------------------------------------------
(* The process.  What is proved of an exit says nothing of the time before *)
(* it; ProcessInv says what holds until then: the code kept is the gravest *)
(* (CodeKept), and while the server is closing only the timer can have     *)
(* asked for the disconnect (ClosingWaits), so that an exit with 0 comes   *)
(* after it closed.                                                        *)

CodeKept == IF stopping THEN exitCode = worst ELSE worst = 0 /\ server # "closing"

ClosingWaits ==
  /\ server = "closing" => disconnect # "shutdown"
  /\ server \in {"none", "closed"} => busy = 0
  /\ disconnect # "nobody" \/ forceTimer = "set" => stopping
  /\ server = "none" <=> startup # "serving"

\* What is true once the process has exited.
ExitExplained ==
  exited => /\ processStatus >= worst
            /\ processStatus = 0 => disconnect = "shutdown"

ProcessInv == Process!TypeOK /\ CodeKept /\ ClosingWaits /\ ExitExplained

LEMMA ProcessInit == Process!Init => ProcessInv
<1> SUFFICES ASSUME Process!Init PROVE ProcessInv OBVIOUS
<1>1. Process!TypeOK
  <2>1. stopping \in BOOLEAN BY DEF Process!Init
  <2>2. exited \in BOOLEAN BY DEF Process!Init
  <2> QED BY <2>1, <2>2 DEF Process!Init, Process!TypeOK, Process!ExitCodes
<1>2. CodeKept BY DEF Process!Init, CodeKept
<1>3. ClosingWaits BY DEF Process!Init, ClosingWaits
<1>4. ExitExplained BY DEF Process!Init, ExitExplained
<1> QED BY <1>1, <1>2, <1>3, <1>4 DEF ProcessInv

\* A request to shut down keeps what concerns the shutdown.
LEMMA ShutdownKeeps ==
  ASSUME ProcessInv, ~exited, NEW code \in Process!ExitCodes, Process!shutdown(code),
         startup' = startup \/ (server = "none" /\ startup' = "failed"),
         UNCHANGED <<busy, exited, processStatus>>
  PROVE  ProcessInv'
<1> USE DEF ProcessInv, Process!TypeOK, Process!ExitCodes, Process!Larger
<1>1. CASE Process!BeginShutdown(code)
  <2>1. Process!TypeOK' BY <1>1 DEF Process!shutdown, Process!BeginShutdown, Process!CloseServer, Process!disconnectOnce
  <2>2. CodeKept' BY <1>1 DEF Process!shutdown, Process!BeginShutdown, CodeKept
  <2>3. ClosingWaits' BY <1>1 DEF Process!BeginShutdown, Process!CloseServer, Process!disconnectOnce, CodeKept, ClosingWaits
  <2> QED BY <2>1, <2>2, <2>3 DEF ExitExplained
<1>2. CASE Process!Escalate(code)
  <2>1. Process!TypeOK' BY <1>2 DEF Process!shutdown, Process!Escalate
  <2>2. CodeKept' BY <1>2 DEF Process!shutdown, Process!Escalate, CodeKept
  <2>3. ClosingWaits' BY <1>2 DEF Process!Escalate, ClosingWaits
  <2> QED BY <2>1, <2>2, <2>3 DEF ExitExplained
<1> QED BY <1>1, <1>2 DEF Process!shutdown

LEMMA ProcessStep == ProcessInv /\ [Process!Next]_Process!lifecycleVars => ProcessInv'
<1> SUFFICES ASSUME ProcessInv, [Process!Next]_Process!lifecycleVars PROVE ProcessInv' OBVIOUS
<1>1. CASE Process!ProcessEvent BY <1>1, ShutdownKeeps DEF Process!ProcessEvent
<1>2. CASE Process!CheckFails
  <2>1. server = "none" BY <1>2 DEF ProcessInv, ClosingWaits, Process!CheckFails
  <2> QED BY <1>2, <2>1, ShutdownKeeps DEF Process!CheckFails, Process!ExitCodes
<1> USE DEF ProcessInv, Process!TypeOK, CodeKept, ClosingWaits, ExitExplained, Process!ExitCodes, Process!disconnectOnce
<1>3. CASE Process!CheckPasses BY <1>3 DEF Process!CheckPasses
<1>4. CASE Process!BeginRequest BY <1>4 DEF Process!BeginRequest
<1>5. CASE Process!EndRequest BY <1>5 DEF Process!EndRequest
<1>6. CASE Process!Drained BY <1>6 DEF Process!Drained
<1>7. CASE Process!forceShutdown BY <1>7 DEF Process!forceShutdown
<1>8. CASE Process!finish BY <1>8 DEF Process!finish, Process!ForcedCode
<1>9. CASE UNCHANGED Process!lifecycleVars BY <1>9 DEF Process!lifecycleVars
<1> QED BY <1>1, <1>2, <1>3, <1>4, <1>5, <1>6, <1>7, <1>8, <1>9 DEF Process!Next

LEMMA ProcessInvariance == Process!Spec => []ProcessInv
BY ProcessInit, ProcessStep, PTL DEF Process!Spec

-----------------------------------------------------------------------------
(* What a behaviour of MCLive is to its parts: each moves by its own steps *)
(* or not at all.                                                          *)

\* A step of one part leaves the verification links alone or is a step of theirs.
LEMMA MailRuns == LiveSpec => Mail!Spec
<1>1. LiveInit => Mail!Init
  BY DEF LiveInit
<1>2. [LiveNext]_<<part, vars, mailVars, processVars, pageVars>> => [Mail!Next]_Mail!vars
  BY DEF LiveNext, AtRest, mailVars, Mail!vars, Mail!authVars, Mail!tokenVars, Mail!lockVars,
     Mail!requestVars
<1> QED
  BY <1>1, <1>2, PTL DEF LiveSpec, Mail!Spec

\* A step of one part leaves the process alone or is a step of it.
LEMMA ProcessRuns == LiveSpec => Process!Spec
<1>1. LiveInit => Process!Init
  BY DEF LiveInit
<1>2. [LiveNext]_<<part, vars, mailVars, processVars, pageVars>>
        => [Process!Next]_Process!lifecycleVars
  BY DEF LiveNext, AtRest, processVars, Process!lifecycleVars
<1> QED
  BY <1>1, <1>2, PTL DEF LiveSpec, Process!Spec

\* A step of one part leaves the reset links alone or is a step of theirs.
LEMMA ResetRuns == LiveSpec => Spec
<1>1. LiveInit => Init
  BY DEF LiveInit
<1>2. [LiveNext]_<<part, vars, mailVars, processVars, pageVars>> => [Next]_vars
  BY DEF LiveNext, AtRest, vars, authVars, tokenVars, lockVars, requestVars
<1> QED
  BY <1>1, <1>2, PTL DEF LiveSpec, Spec

\* However requests interleave and die, a used link was superseded or verified the
\* address, and the address is stamped once.
THEOREM LinksVerifyOnce == LiveSpec => []VerifiedOnceByItsLink
<1>1. Mail!Spec => []Mail!ConsumedMeansVerified
  BY NoneAssumption, TokenAssumption, CooldownAssumption, Mail!UsedLinkVerified
<1>2. Mail!Spec => []Mail!StampedOnce
  BY NoneAssumption, TokenAssumption, CooldownAssumption, Mail!VerifiedOnce
<1>3. Mail!ConsumedMeansVerified /\ Mail!StampedOnce => VerifiedOnceByItsLink
  BY DEF VerifiedOnceByItsLink
<1> QED
  BY MailRuns, <1>1, <1>2, <1>3, PTL

\* However signals, errors, requests and the timer interleave, the process exits with
\* the gravest code asked of it, and with 0 only when its requests were drained.
THEOREM ExitsHonestly == LiveSpec => []ExitCodeIsHonest
<1>1. ProcessInv => Process!GravestCode
  BY DEF ProcessInv, ExitExplained, Process!GravestCode
<1>2. ProcessInv => Process!CleanMeansDrained
  BY DEF ProcessInv, Process!TypeOK, ClosingWaits, ExitExplained, Process!CleanMeansDrained
<1>3. Process!GravestCode /\ Process!CleanMeansDrained => ExitCodeIsHonest
  BY DEF ExitCodeIsHonest
<1> QED
  BY ProcessRuns, ProcessInvariance, <1>1, <1>2, <1>3, PTL
-----------------------------------------------------------------------------
(* The pages of the client: what holds of the screen, of the loads in      *)
(* flight, of the handlers and of the requests of dialogs.                 *)

\* What a dialog can be open for, and the flags of the page's handlers.
Subjects == Things \cup {"new", None}
Openings == [DOMAIN Pages!Dialogs -> Subjects]
Details  == [DOMAIN Pages!Dialogs -> Things \cup {None}]
Raised   == {Pages!Acts[a].flag : a \in DOMAIN Pages!Acts}
Shown    == {None} \cup [query : Queries, has : SUBSET Nat]

\* A screen, a load in flight, a handler in progress, a request of a dialog.
Screens  == [query : Queries, rows : Shown, loading : BOOLEAN, fetching : BOOLEAN, loaded : BOOLEAN,
             error : BOOLEAN, busy : SUBSET Raised, open : Openings, detail : Details]
Flights  == [initial : BOOLEAN, query : Queries, slot : Slots \cup {0}, overtaken : BOOLEAN, behind : BOOLEAN,
             data : {None} \cup [has : SUBSET Nat]]
Fetching  == {d \in DOMAIN Pages!Dialogs : Pages!Dialogs[d].fetches \in {"mounted", "unguarded", "whole"}}
Inquiries == [dialog : Fetching, thing : Things, slot : Slots \cup {0}, mounted : BOOLEAN]

\* A handler in progress is one of the page's, for what its dialog was open for, and what
\* it changed is made.
Proper(call, made) ==
  /\ call \in Progress
  /\ \E a \in DOMAIN Pages!Acts : call.act = Pages!Acts[a]
  /\ call.own \subseteq DOMAIN Pages!Dialogs
  /\ call.thing # None => call.act.fetches \in DOMAIN Pages!Dialogs
  /\ call.change \in made \cup {0}

ScreenTypes ==
  /\ page \in DOMAIN Design
  /\ ui \in Screens
  /\ loads \in Seq(Flights)
  /\ calls \in [Slots -> {None} \cup Progress]
  /\ \A s \in Slots : calls[s] # None => Proper(calls[s], committed)
  /\ fetches \subseteq Inquiries
  /\ committed \subseteq Nat /\ IsFiniteSet(committed)

\* What is opened for no row is offered by the page.
NewIsOffered == \A d \in DOMAIN Pages!Dialogs : ui.open[d] = "new" => d \in DOMAIN Pages!Layout.offers

Flight == 1..Len(loads)
Newest == loads[Len(loads)]
At(s, stage) == calls[s] # None /\ calls[s].stage = stage

\* All but the newest load have been overtaken, and so has what a later answer came before.
Ordered == \A i \in Flight : /\ i < Len(loads) => loads[i].overtaken
                             /\ loads[i].behind => loads[i].overtaken

\* A handler that waits for a load, or a dialog, waits for one.
Awaited ==
  /\ \A i \in Flight : loads[i].slot # 0 => At(loads[i].slot, "loading")
  /\ \A i, j \in Flight : loads[i].slot # 0 /\ loads[i].slot = loads[j].slot => i = j
  /\ \A f \in fetches : f.slot # 0 => At(f.slot, "fetching")
  /\ \A f, g \in fetches : f.slot # 0 /\ f.slot = g.slot => f = g

PageTypes == ScreenTypes /\ NewIsOffered /\ Awaited

\* On a page that asks for nothing while it loads, a load is alone.
Single == {"health", "operations"}
Alone ==
  page \in Single /\ loads # << >> =>
    /\ Len(loads) = 1 /\ ~Newest.overtaken /\ ~ui.error
    /\ IF Pages!Loader.raises = "always" THEN ui.loading ELSE ui.loading \/ ui.fetching

\* Pages on which a load with an old query is no newest one.
Steady == DOMAIN Design \ (Pages!Racing \cup {"habits"})
Queried ==
  page \in Steady =>
    /\ \A i \in Flight : ~loads[i].overtaken => loads[i].query = ui.query
    /\ DOMAIN Pages!Acts # {} => /\ \A i \in Flight : loads[i].query = ui.query
                                 /\ \A s \in Slots : calls[s] # None => calls[s].query = ui.query

\* What is amiss is what the page is known for.
Reasons == \A why \in amiss : why \in DOMAIN Pages!Excused /\ page \in Pages!Excused[why]

\* A change that is known to be made, after which no load has begun.
Owing == \E s \in Slots : At(s, "done") \/ At(s, "fetching")

\* Whether a load brings what the server has; whether the page shows it, or a failure.
Answering(i) == loads[i].data = None \/ loads[i].data.has = committed
Fine == ui.error \/ ui.rows = Pages!Current
\* With nothing amiss, the newest load will show what the server has; or that is shown, and
\* no load in flight makes it older unnoticed.
Fresh ==
  amiss = {} /\ ~Owing =>
    \/ loads # << >> /\ ~Newest.overtaken /\ Answering(Len(loads))
    \/ Fine /\ \A i \in Flight : loads[i].behind \/ (ui.error /\ ~Pages!Loader.absolves) \/ Answering(i)
\* A page without handlers changes nothing.
Uncommitted == DOMAIN Pages!Acts = {} => committed = {} /\ \A i \in Flight : Answering(i)

\* What a raised flag stands for.
NewestIs(kind) ==
  /\ loads # << >> /\ ~Newest.overtaken
  /\ IF kind = "loud" THEN Pages!Loud(Newest.initial) ELSE Pages!Quiet(Newest.initial)

\* A numbered page that raises a flag for some loads only, before it shows anything.
Picky == page \notin Pages!Stuck /\ Pages!Loader.guarded /\ Pages!Loader.raises # "always"
Blank == Picky /\ ~ui.loaded

Spinning ==
  page \notin Pages!Stuck =>
    IF ~Pages!Loader.guarded
    THEN /\ ui.loading => \E i \in Flight : Pages!Loud(loads[i].initial)
         /\ ui.fetching => \E i \in Flight : Pages!Quiet(loads[i].initial)
    ELSE /\ ui.loading /\ (Pages!Loader.raises = "kind" => ~ui.loaded) => NewestIs("loud")
         /\ ui.fetching => NewestIs("quiet")

\* Such a page has no failure beside its newest load, and until it shows something nothing
\* is opened or changed.
Sober ==
  /\ Picky /\ ui.error /\ loads # << >> => Newest.overtaken
  /\ Blank => /\ ui.rows = None /\ Pages!Open = {} /\ fetches = {}
              /\ \A s \in Slots : calls[s] = None

PageInv == /\ PageTypes /\ Ordered /\ Alone /\ Queried /\ Reasons
           /\ Fresh /\ Uncommitted /\ Spinning /\ Sober

-----------------------------------------------------------------------------
\* Screens that show the same rows, failure and signs of loading.
Alike(u, v) == /\ u.query = v.query /\ u.rows = v.rows
               /\ (u.loaded <=> v.loaded) /\ (u.error <=> v.error)
               /\ (u.loading <=> v.loading) /\ (u.fetching <=> v.fetching)

\* A handler that ends lowers its flag and no sign of loading.
LEMMA FinishedIs ==
  ASSUME NEW u \in Screens, NEW call
  PROVE  LET v == Pages!Finished(u, call) IN
         v \in Screens /\ Alike(v, u) /\ v.open = u.open /\ v.detail = u.detail
BY DEF Pages!Finished, Screens, Alike

\* Dialogs that are left are open for nothing.
LEMMA LeftIs ==
  ASSUME NEW u \in Screens, NEW ds
  PROVE  LET v == Pages!Left(u, ds) IN
         /\ v \in Screens /\ Alike(v, u) /\ v.detail = u.detail
         /\ v.open = [d \in DOMAIN u.open |-> IF d \in ds THEN None ELSE u.open[d]]
<1> DEFINE open == [d \in DOMAIN u.open |-> IF d \in ds THEN None ELSE u.open[d]]
<1>1. u.open \in Openings
  BY DEF Screens
<1>2. open \in Openings
  BY <1>1 DEF Openings, Subjects
<1>3. Pages!Left(u, ds) = [u EXCEPT !.open = open, !.busy = @ \ Pages!Resets(ds)]
  BY DEF Pages!Left
<1> HIDE DEF open
<1>4. LET v == Pages!Left(u, ds) IN v \in Screens /\ Alike(v, u) /\ v.detail = u.detail /\ v.open = open
  BY <1>2, <1>3 DEF Screens, Alike
<1> QED
  BY <1>4 DEF open

\* A dialog that is opened is open for what it is opened for.
LEMMA OpenedIs ==
  ASSUME NEW u \in Screens, NEW d \in DOMAIN Pages!Dialogs, NEW x \in Subjects
  PROVE  LET v == Pages!Opened(u, d, x) IN
         /\ v \in Screens /\ Alike(v, u)
         /\ \A e \in DOMAIN Pages!Dialogs : v.open[e] = IF e = d THEN x ELSE u.open[e]
<1> DEFINE open == [u.open EXCEPT ![d] = x]
           detail == [u.detail EXCEPT ![d] = None]
<1>1. u.open \in Openings /\ u.detail \in Details
  BY DEF Screens
<1>2. open \in Openings /\ detail \in Details
  BY <1>1 DEF Openings, Details
<1>3. Pages!Opened(u, d, x) = [u EXCEPT !.open = open, !.detail = detail, !.busy = @ \ Pages!Resets({d})]
  BY DEF Pages!Opened
<1>4. \A e \in DOMAIN Pages!Dialogs : open[e] = IF e = d THEN x ELSE u.open[e]
  BY <1>1 DEF Openings
<1> HIDE DEF open, detail
<1>5. LET v == Pages!Opened(u, d, x) IN v \in Screens /\ Alike(v, u) /\ v.open = open
  BY <1>2, <1>3 DEF Screens, Alike
<1> QED
  BY <1>4, <1>5

\* What an answer for a dialog does to the screen.
LEMMA ReceivedIs ==
  ASSUME NEW u \in Screens, NEW d \in DOMAIN Pages!Dialogs, NEW x \in Things \cup {None}
  PROVE  LET v == [u EXCEPT !.detail[d] = x] IN
         v \in Screens /\ Alike(v, u) /\ v.open = u.open
<1> DEFINE detail == [u.detail EXCEPT ![d] = x]
<1>1. detail \in Details
  BY DEF Screens, Details
<1>2. [u EXCEPT !.detail[d] = x] = [u EXCEPT !.detail = detail]
  OBVIOUS
<1> HIDE DEF detail
<1> QED
  BY <1>1, <1>2 DEF Screens, Alike

\* An answer that replaces what a dialog is open for.
LEMMA ReplacedIs ==
  ASSUME NEW u \in Screens, NEW d \in DOMAIN Pages!Dialogs, NEW x \in Things
  PROVE  LET v == [u EXCEPT !.open[d] = x] IN
         /\ v \in Screens /\ Alike(v, u)
         /\ \A e \in DOMAIN Pages!Dialogs : v.open[e] = IF e = d THEN x ELSE u.open[e]
<1> DEFINE open == [u.open EXCEPT ![d] = x]
<1>1. u.open \in Openings
  BY DEF Screens
<1>2. open \in Openings
  BY <1>1 DEF Openings, Subjects
<1>3. [u EXCEPT !.open[d] = x] = [u EXCEPT !.open = open]
  OBVIOUS
<1>4. \A e \in DOMAIN Pages!Dialogs : open[e] = IF e = d THEN x ELSE u.open[e]
  BY <1>1 DEF Openings
<1> HIDE DEF open
<1>5. LET v == [u EXCEPT !.open[d] = x] IN v \in Screens /\ Alike(v, u) /\ v.open = open
  BY <1>2, <1>3 DEF Screens, Alike
<1> QED
  BY <1>4, <1>5

\* A handler that starts raises a flag of the page.
LEMMA BusyIs ==
  ASSUME NEW u \in Screens, NEW flag \in Raised
  PROVE  LET v == [u EXCEPT !.busy = @ \cup {flag}] IN
         v \in Screens /\ Alike(v, u) /\ v.open = u.open /\ v.detail = u.detail
BY DEF Screens, Alike

\* Another query.
LEMMA AskedIs ==
  ASSUME NEW u \in Screens, NEW q \in Queries
  PROVE  LET v == [u EXCEPT !.query = q] IN
         /\ v \in Screens /\ v.query = q /\ v.rows = u.rows /\ v.open = u.open
         /\ v.loaded = u.loaded /\ v.error = u.error /\ v.loading = u.loading /\ v.fetching = u.fetching
BY DEF Screens

\* A load raises its flag, and takes the failure away.
Raises(v, u, initial) ==
  /\ v \in Screens /\ v.query = u.query /\ v.rows = u.rows /\ v.open = u.open
  /\ v.loaded = u.loaded /\ ~v.error
  /\ (v.loading <=> u.loading \/ Pages!Loud(initial))
  /\ (v.fetching <=> u.fetching \/ Pages!Quiet(initial))

\* What Load does to the screen.
LEMMA LoadingIs ==
  ASSUME NEW u \in Screens, NEW initial \in BOOLEAN
  PROVE  Raises([u EXCEPT !.loading = @ \/ Pages!Loud(initial), !.fetching = @ \/ Pages!Quiet(initial),
                          !.error = FALSE], u, initial)
<1> DEFINE loading == u.loading \/ Pages!Loud(initial)
           fetching == u.fetching \/ Pages!Quiet(initial)
           v == [u EXCEPT !.loading = loading, !.fetching = fetching, !.error = FALSE]
<1>1. loading \in BOOLEAN /\ fetching \in BOOLEAN
  OBVIOUS
<1> HIDE DEF loading, fetching
<1>2. /\ v \in Screens /\ v.query = u.query /\ v.rows = u.rows /\ v.open = u.open
      /\ v.loaded = u.loaded /\ v.error = FALSE
      /\ v.loading = loading /\ v.fetching = fetching
  BY <1>1 DEF Screens
<1> HIDE DEF v
<1>3. Raises(v, u, initial)
  BY <1>2, Zenon DEF loading, fetching, Raises
<1> QED
  BY <1>3, Zenon DEF v, loading, fetching

\* What the end of a load lowers.
LEMMA LoweredIs ==
  ASSUME NEW u \in Screens, NEW load
  PROVE  LET v == Pages!Lowered(u, load) IN
         /\ v \in Screens /\ v.query = u.query /\ v.rows = u.rows /\ v.open = u.open
         /\ v.loaded = u.loaded /\ v.error = u.error
         /\ v.loading <=> u.loading /\ ~(Pages!Loud(load.initial) \/ Pages!Loader.lowers = "both")
         /\ v.fetching <=> u.fetching /\ ~(Pages!Quiet(load.initial) \/ Pages!Loader.lowers = "both")
<1> DEFINE loading == u.loading /\ ~(Pages!Loud(load.initial) \/ Pages!Loader.lowers = "both")
           fetching == u.fetching /\ ~(Pages!Quiet(load.initial) \/ Pages!Loader.lowers = "both")
<1>1. loading \in BOOLEAN /\ fetching \in BOOLEAN
  OBVIOUS
<1>2. Pages!Lowered(u, load) = [u EXCEPT !.loading = loading, !.fetching = fetching]
  BY DEF Pages!Lowered
<1> HIDE DEF loading, fetching
<1>3. LET v == Pages!Lowered(u, load) IN
      /\ v \in Screens /\ v.query = u.query /\ v.rows = u.rows /\ v.open = u.open
      /\ v.loaded = u.loaded /\ v.error = u.error
      /\ v.loading = loading /\ v.fetching = fetching
  BY <1>1, <1>2 DEF Screens
<1> QED
  BY <1>3, Zenon DEF loading, fetching

\* The answer of a load.
LEMMA FilledIs ==
  ASSUME NEW u \in Screens, NEW load \in Flights, load.data # None
  PROVE  LET v == Pages!Filled(u, load) IN
         /\ v \in Screens /\ v.query = u.query /\ v.open = u.open
         /\ v.rows = [query |-> load.query, has |-> load.data.has]
         /\ v.loaded /\ (v.error <=> u.error /\ ~Pages!Loader.absolves)
         /\ v.loading = u.loading /\ v.fetching = u.fetching
<1> DEFINE rows == [query |-> load.query, has |-> load.data.has]
           error == u.error /\ ~Pages!Loader.absolves
<1>1. rows \in Shown
  BY DEF Flights, Shown
<1>2. error \in BOOLEAN
  OBVIOUS
<1>3. Pages!Filled(u, load) = [u EXCEPT !.rows = rows, !.loaded = TRUE, !.error = error]
  BY DEF Pages!Filled
<1> HIDE DEF rows, error
<1>4. LET v == Pages!Filled(u, load) IN
      /\ v \in Screens /\ v.query = u.query /\ v.open = u.open
      /\ v.rows = rows /\ v.loaded = TRUE /\ v.error = error
      /\ v.loading = u.loading /\ v.fetching = u.fetching
  BY <1>1, <1>2, <1>3 DEF Screens
<1> QED
  BY <1>4, Zenon DEF rows, error

\* Its failure, which is told or leaves the screen as it was.
LEMMA DisappointedIs ==
  ASSUME NEW u \in Screens, NEW load
  PROVE  LET v == Pages!Disappointed(u, load) IN
         /\ v \in Screens /\ v.query = u.query /\ v.open = u.open
         /\ v.rows \in {u.rows, None} /\ v.loaded = u.loaded
         /\ u.error => v.error
         /\ Pages!Loader.tells = "always" => v.error
         /\ ~v.error => v = u
         /\ v.loading = u.loading /\ v.fetching = u.fetching
<1>1. CASE Pages!Loader.tells = "always" \/ load.initial \/ u.loaded
  <2> DEFINE rows == IF Pages!Loader.failure = "empties" THEN None ELSE u.rows
  <2>1. rows \in Shown /\ rows \in {u.rows, None}
    BY DEF Screens, Shown
  <2>2. Pages!Disappointed(u, load) = [u EXCEPT !.rows = rows, !.error = TRUE]
    BY <1>1 DEF Pages!Disappointed
  <2> HIDE DEF rows
  <2>3. LET v == Pages!Disappointed(u, load) IN
        /\ v \in Screens /\ v.query = u.query /\ v.open = u.open
        /\ v.rows = rows /\ v.loaded = u.loaded /\ v.error = TRUE
        /\ v.loading = u.loading /\ v.fetching = u.fetching
    BY <2>1, <2>2 DEF Screens
  <2> QED
    BY <2>1, <2>3
<1>2. CASE ~(Pages!Loader.tells = "always" \/ load.initial \/ u.loaded)
  BY <1>2 DEF Pages!Disappointed
<1> QED
  BY <1>1, <1>2

-----------------------------------------------------------------------------
\* The same load, but for what happens to it on the way.
SameLoad(x, y) == (x.initial <=> y.initial) /\ x.query = y.query /\ x.slot = y.slot

\* A load is begun: it overtakes the others.
Begun(initial, query, slot) ==
  /\ loads' \in Seq(Flights) /\ Len(loads') = Len(loads) + 1
  /\ \A i \in Flight : /\ SameLoad(loads'[i], loads[i]) /\ loads'[i].overtaken
                       /\ (loads'[i].behind <=> loads[i].behind) /\ loads'[i].data = loads[i].data
  /\ LET new == loads'[Len(loads) + 1] IN
       /\ (new.initial <=> initial) /\ new.query = query /\ new.slot = slot
       /\ ~new.overtaken /\ ~new.behind /\ new.data = None

\* One has been answered: an answer that is applied leaves the earlier ones behind.
Ended(i, taken) ==
  /\ loads' \in Seq(Flights) /\ Len(loads') = Len(loads) - 1
  /\ \A j \in 1..(Len(loads) - 1) :
       LET old == loads[IF j < i THEN j ELSE j + 1] IN
       /\ SameLoad(loads'[j], old) /\ (loads'[j].overtaken <=> old.overtaken) /\ loads'[j].data = old.data
       /\ (loads'[j].behind <=> old.behind \/ (j < i /\ taken))

\* The server has answered one.
Replied(i) ==
  /\ loads' \in Seq(Flights) /\ Len(loads') = Len(loads)
  /\ \A j \in Flight : /\ SameLoad(loads'[j], loads[j])
                       /\ (loads'[j].overtaken <=> loads[j].overtaken) /\ (loads'[j].behind <=> loads[j].behind)
                       /\ loads'[j].data = IF j = i THEN [has |-> committed] ELSE loads[j].data

\* The loads in flight, by their place.
LEMMA FlightIs ==
  ASSUME loads \in Seq(Flights)
  PROVE  Len(loads) \in Nat /\ DOMAIN loads = Flight /\ \A i \in Flight : loads[i] \in Flights
BY LenProperties, ElementOfSeq DEF Flight

\* A load that is overtaken, and one that is left behind.
LEMMA OvertakenIs ==
  ASSUME NEW x \in Flights
  PROVE  LET y == [x EXCEPT !.overtaken = TRUE] IN
         y \in Flights /\ SameLoad(y, x) /\ y.overtaken /\ (y.behind <=> x.behind) /\ y.data = x.data
BY DEF Flights, SameLoad

LEMMA BehindIs ==
  ASSUME NEW x \in Flights, NEW b \in BOOLEAN
  PROVE  LET y == [x EXCEPT !.behind = @ \/ b] IN
         y \in Flights /\ SameLoad(y, x) /\ (y.behind <=> x.behind \/ b) /\ (y.overtaken <=> x.overtaken) /\ y.data = x.data
<1> DEFINE behind == x.behind \/ b
<1>1. behind \in BOOLEAN
  OBVIOUS
<1>2. [x EXCEPT !.behind = @ \/ b] = [x EXCEPT !.behind = behind]
  OBVIOUS
<1> HIDE DEF behind
<1>3. LET y == [x EXCEPT !.behind = @ \/ b] IN
      y \in Flights /\ SameLoad(y, x) /\ y.behind = behind /\ (y.overtaken <=> x.overtaken) /\ y.data = x.data
  BY <1>1, <1>2 DEF Flights, SameLoad
<1> QED
  BY <1>3, Zenon DEF behind

\* What Load, the server's answer and the end of a load do to those in flight.
LEMMA LoadBegins ==
  ASSUME loads \in Seq(Flights), NEW u, NEW initial \in BOOLEAN, NEW query \in Queries, NEW slot \in Slots \cup {0},
         Pages!Load(u, initial, query, slot)
  PROVE  Begun(initial, query, slot)
<1> DEFINE older == [i \in DOMAIN loads |-> [loads[i] EXCEPT !.overtaken = TRUE]]
           new == [initial |-> initial, query |-> query, slot |-> slot, overtaken |-> FALSE, behind |-> FALSE, data |-> None]
<1>1. loads' = Append(older, new)
  BY Zenon DEF Pages!Load
<1>2. new \in Flights /\ new.initial = initial /\ new.query = query /\ new.slot = slot
      /\ ~new.overtaken /\ ~new.behind /\ new.data = None
  BY DEF Flights
<1>3. Len(loads) \in Nat /\ DOMAIN loads = 1..Len(loads) /\ \A i \in Flight : loads[i] \in Flights
  BY FlightIs DEF Flight
<1>4. ASSUME NEW i \in Flight
      PROVE  /\ older[i] \in Flights /\ SameLoad(older[i], loads[i]) /\ older[i].overtaken
             /\ (older[i].behind <=> loads[i].behind) /\ older[i].data = loads[i].data
  BY <1>3, <1>4, OvertakenIs DEF Flight
<1>5. older \in Seq(Flights) /\ Len(older) = Len(loads)
  <2> DEFINE N == Len(loads)
  <2>1. N \in Nat /\ older = [i \in 1..N |-> older[i]] /\ \A i \in 1..N : older[i] \in Flights
    BY <1>3, <1>4 DEF Flight
  <2> HIDE DEF older, N
  <2>2. older \in Seq(Flights) /\ DOMAIN older = 1..N
    BY <2>1
  <2> QED
    BY <2>1, <2>2, LenProperties DEF N
<1> HIDE DEF older, new
<1>6. /\ loads' \in Seq(Flights) /\ Len(loads') = Len(loads) + 1
      /\ \A i \in Flight : loads'[i] = older[i]
      /\ loads'[Len(loads) + 1] = new
  BY <1>1, <1>2, <1>3, <1>5 DEF Flight
<1> QED
  BY <1>2, <1>4, <1>6 DEF Begun

LEMMA LoadReplies ==
  ASSUME loads \in Seq(Flights), committed \subseteq Nat, NEW i \in Flight, Pages!Served(i)
  PROVE  Replied(i)
<1> DEFINE new == [loads[i] EXCEPT !.data = [has |-> committed]]
<1>1. loads' = [loads EXCEPT ![i].data = [has |-> committed]]
  BY Zenon DEF Pages!Served
<1>2. Len(loads) \in Nat /\ DOMAIN loads = 1..Len(loads) /\ \A j \in Flight : loads[j] \in Flights
  BY FlightIs DEF Flight
<1>3. /\ new \in Flights /\ SameLoad(new, loads[i])
      /\ (new.overtaken <=> loads[i].overtaken) /\ (new.behind <=> loads[i].behind) /\ new.data = [has |-> committed]
  BY <1>2 DEF Flights, SameLoad
<1>4. loads' = [loads EXCEPT ![i] = new]
  BY <1>1
<1> HIDE DEF new
<1>5. /\ loads' \in Seq(Flights) /\ Len(loads') = Len(loads)
      /\ \A j \in Flight : loads'[j] = IF j = i THEN new ELSE loads[j]
  BY <1>2, <1>3, <1>4 DEF Flight
<1> QED
  BY <1>3, <1>5 DEF Replied, SameLoad

\* Whether the answer of a load is ignored, a failure, or applied.
Ignored(i) == Pages!Loader.guarded /\ loads[i].overtaken
Applied(i) == loads[i].data # None /\ ~Ignored(i)

LEMMA LoadEnds ==
  ASSUME loads \in Seq(Flights), NEW i \in Flight, Pages!Settle(i)
  PROVE  Ended(i, Applied(i))
<1> DEFINE new(j) == IF j < i THEN [loads[j] EXCEPT !.behind = @ \/ Applied(i)] ELSE loads[j + 1]
           N == Len(loads) - 1
<1>1. loads' = [j \in 1..(Len(loads) - 1) |-> new(j)]
  BY Zenon DEF Pages!Settle, Applied, Ignored, Pages!Failed
<1>2. Len(loads) \in Nat /\ N \in Nat /\ \A j \in Flight : loads[j] \in Flights
  BY FlightIs DEF Flight
<1>3. ASSUME NEW j \in 1..(Len(loads) - 1)
      PROVE  LET old == loads[IF j < i THEN j ELSE j + 1] IN
             /\ new(j) \in Flights
             /\ SameLoad(new(j), old) /\ (new(j).overtaken <=> old.overtaken) /\ new(j).data = old.data
             /\ (new(j).behind <=> old.behind \/ (j < i /\ Applied(i)))
  <2>1. j \in Flight /\ j + 1 \in Flight
    BY <1>2 DEF Flight
  <2>2. Applied(i) \in BOOLEAN
    BY DEF Applied
  <2>3. CASE j < i
    BY <1>2, <2>1, <2>2, <2>3, BehindIs
  <2>4. CASE ~(j < i)
    BY <1>2, <2>1, <2>4 DEF SameLoad
  <2> QED
    BY <2>3, <2>4
<1> HIDE DEF new
<1>4. loads' = [j \in 1..N |-> new(j)] /\ \A j \in 1..N : new(j) \in Flights
  BY <1>1, <1>3
<1> HIDE DEF N
<1>5. loads' \in Seq(Flights) /\ DOMAIN loads' = 1..N
  BY <1>2, <1>4
<1>6. Len(loads') = N
  BY <1>2, <1>5, LenProperties
<1>7. \A j \in 1..N : loads'[j] = new(j)
  BY <1>4
<1> QED
  BY <1>3, <1>5, <1>6, <1>7 DEF Ended, N

-----------------------------------------------------------------------------
\* What belongs to the page stays, since the page does.
LEMMA SamePage ==
  ASSUME page' = page
  PROVE  /\ Pages!Loader' = Pages!Loader /\ Pages!Layout' = Pages!Layout /\ Pages!Acts' = Pages!Acts
         /\ Pages!List' = Pages!List /\ Pages!Dialogs' = Pages!Dialogs /\ Pages!Keys' = Pages!Keys
         /\ Screens' = Screens /\ Fetching' = Fetching /\ Inquiries' = Inquiries
BY DEF Pages!Loader, Pages!Layout, Pages!Acts, Pages!List, Pages!Dialogs, Pages!Keys, Screens, Openings, Details,
       Raised, Fetching, Inquiries

\* What is assumed of the table, for the page that is open.
LEMMA OfThePage ==
  ASSUME page \in DOMAIN Design
  PROVE  LET controls == DOMAIN Pages!Layout.offers \cup DOMAIN Pages!List
             still    == DOMAIN Pages!Acts = {}
             unasked  == /\ Asked \cap controls = {}
                         /\ \A a \in DOMAIN Pages!Acts : "steps back" \notin Pages!Acts[a].then
         IN /\ Pages!Loader.raises \in {"kind", "first", "always"}
            /\ page \in Pages!Numbered => Pages!Loader.guarded
            /\ page \in {"health", "operations"} =>
                 /\ still /\ controls \subseteq {"refresh", "retry quietly"} /\ Pages!Loader.raises # "first"
                 /\ "refresh" \in DOMAIN Pages!Layout.offers =>
                      "loading" \in Pages!Layout.offers["refresh"]
                      /\ (Pages!Loader.raises = "kind" => "fetching" \in Pages!Layout.offers["refresh"])
            /\ page \notin Pages!Racing \cup {"habits"} => still \/ unasked
            /\ page \notin Pages!SilentAtFirst => Pages!Loader.tells = "always"
            /\ Pages!Loader.absolves => still
            /\ page \notin Pages!Stuck /\ Pages!Loader.guarded /\ Pages!Loader.raises # "always" =>
                 /\ unasked /\ DOMAIN Pages!Layout.offers \subseteq {"retry"}
                 /\ "retry" \notin DOMAIN Pages!Acts \cup DOMAIN Pages!Dialogs
                 /\ IF Pages!Loader.raises = "kind" THEN Pages!Layout.loading = "first" ELSE still
BY TableAssumption DEF Pages!Loader, Pages!Layout, Pages!Acts, Pages!List, Pages!Dialogs

\* And of its dialogs and handlers.
LEMMA OfItsDialogs ==
  ASSUME page \in DOMAIN Design
  PROVE  /\ \A x \in DOMAIN Pages!Dialogs :
              /\ Pages!Dialogs[x].fetches \in {"nothing", "mounted", "unguarded", "whole"}
              /\ x \in DOMAIN Pages!Layout.offers => DOMAIN Pages!Dialogs[x].offers \cap DOMAIN Pages!Dialogs = {}
         /\ \A a \in DOMAIN Pages!Acts : Pages!Acts[a].fetches \in DOMAIN Pages!Dialogs =>
              /\ Pages!Dialogs[Pages!Acts[a].fetches].fetches # "nothing"
              /\ Pages!Acts[a].fetches \notin DOMAIN Pages!Layout.offers
         /\ \A a \in DOMAIN Pages!Acts : Pages!Acts[a] \in Handlers
         /\ DOMAIN Pages!Dialogs \subseteq UNION {DOMAIN Design[p].dialogs : p \in DOMAIN Design}
BY DialogAssumption DEF Pages!Loader, Pages!Layout, Pages!Acts, Pages!Dialogs, Handlers
-----------------------------------------------------------------------------
\* The same handler, for the same thing, with the same query.
SameCall(c, d) == /\ c.act = d.act /\ c.query = d.query /\ c.thing = d.thing

\* What becomes of a handler that stays as far as it is, but may lose its dialogs.
Kept(s) ==
  /\ calls'[s] = None <=> calls[s] = None
  /\ calls[s] # None => /\ Proper(calls'[s], committed) /\ SameCall(calls'[s], calls[s])
                        /\ calls'[s].stage = calls[s].stage

\* A handler that loses dialogs, that gets on, or whose change is made, is one of the page's still.
LEMMA DisownedIs ==
  ASSUME NEW c, Proper(c, committed), NEW ds
  PROVE  LET d == [c EXCEPT !.own = @ \ ds] IN
         Proper(d, committed) /\ SameCall(d, c) /\ d.stage = c.stage
<1> DEFINE own == c.own \ ds
           d == [c EXCEPT !.own = own]
<1>1. c \in Progress
  BY DEF Proper
<1>2. own \subseteq c.own
  OBVIOUS
<1>3. own \in SUBSET UNION {DOMAIN Design[p].dialogs : p \in DOMAIN Design}
  BY <1>1 DEF Progress
<1> HIDE DEF own
<1>4. /\ d \in Progress /\ d.act = c.act /\ d.query = c.query /\ d.own = own /\ d.stage = c.stage
      /\ d.change = c.change /\ d.thing = c.thing
  BY <1>1, <1>3 DEF Progress
<1> HIDE DEF d
<1>5. Proper(d, committed) /\ SameCall(d, c) /\ d.stage = c.stage
  BY <1>2, <1>4 DEF Proper, SameCall
<1> QED
  BY <1>5 DEF d, own

LEMMA StagedIs ==
  ASSUME NEW made, NEW c, Proper(c, made), NEW stage \in {"sent", "done", "refused", "fetching", "loading"},
         NEW d, d = [c EXCEPT !.stage = stage]
  PROVE  Proper(d, made) /\ SameCall(d, c) /\ d.stage = stage
<1>1. c \in Progress
  BY DEF Proper
<1>2. /\ d \in Progress /\ d.act = c.act /\ d.query = c.query /\ d.own = c.own /\ d.stage = stage
      /\ d.change = c.change /\ d.thing = c.thing
  BY <1>1 DEF Progress
<1>3. Proper(d, made) /\ SameCall(d, c) /\ d.stage = stage
  BY <1>2 DEF Proper, SameCall
<1> QED
  BY <1>3

LEMMA MadeIs ==
  ASSUME NEW made, NEW c, Proper(c, made), NEW n \in Nat
  PROVE  LET d == [c EXCEPT !.stage = "done", !.change = n] IN
         Proper(d, made \cup {n}) /\ SameCall(d, c) /\ d.stage = "done"
<1> DEFINE d == [c EXCEPT !.stage = "done", !.change = n]
<1>1. c \in Progress
  BY DEF Proper
<1>2. /\ d \in Progress /\ d.act = c.act /\ d.query = c.query /\ d.own = c.own /\ d.stage = "done"
      /\ d.change = n /\ d.thing = c.thing
  BY <1>1 DEF Progress
<1> HIDE DEF d
<1>3. Proper(d, made \cup {n}) /\ SameCall(d, c) /\ d.stage = "done"
  BY <1>2 DEF Proper, SameCall
<1> QED
  BY <1>3 DEF d

\* Every handler stays, with the dialogs that are left taken from it.
LEMMA CallsStay ==
  ASSUME ScreenTypes, NEW ds, calls' = calls \/ calls' = Pages!Disowned(ds)
  PROVE  calls' \in [Slots -> {None} \cup Progress] /\ \A s \in Slots : Kept(s)
<1>1. calls \in [Slots -> {None} \cup Progress] /\ \A s \in Slots : calls[s] # None => Proper(calls[s], committed)
  BY DEF ScreenTypes
<1>2. CASE calls' = calls
  BY <1>1, <1>2 DEF Kept, SameCall
<1>3. CASE calls' = Pages!Disowned(ds)
  <2>1. calls' = [s \in Slots |-> IF calls[s] = None THEN None ELSE [calls[s] EXCEPT !.own = @ \ ds]]
    BY <1>3 DEF Pages!Disowned
  <2>2. ASSUME NEW s \in Slots
        PROVE  Kept(s) /\ calls'[s] \in {None} \cup Progress
    <3>1. CASE calls[s] = None
      BY <2>1, <3>1 DEF Kept
    <3>2. CASE calls[s] # None
      <4>1. calls'[s] = [calls[s] EXCEPT !.own = @ \ ds]
        BY <2>1, <3>2
      <4>2. Proper(calls'[s], committed) /\ SameCall(calls'[s], calls[s]) /\ calls'[s].stage = calls[s].stage
        BY <1>1, <3>2, <4>1, DisownedIs
      <4>3. calls'[s] # None
        BY <4>2, PageAssumption DEF Proper
      <4> QED
        BY <3>2, <4>2, <4>3 DEF Kept, Proper
    <3> QED
      BY <3>1, <3>2
  <2> QED
    BY <2>1, <2>2
<1> QED
  BY <1>2, <1>3

\* One handler moves on.
LEMMA CallMoves ==
  ASSUME ScreenTypes, NEW ds, NEW s \in Slots, NEW c \in {None} \cup Progress,
         calls' = [calls EXCEPT ![s] = c] \/ calls' = [Pages!Disowned(ds) EXCEPT ![s] = c]
  PROVE  /\ calls' \in [Slots -> {None} \cup Progress] /\ calls'[s] = c
         /\ \A t \in Slots \ {s} : Kept(t)
<1>1. calls \in [Slots -> {None} \cup Progress] /\ \A t \in Slots : calls[t] # None => Proper(calls[t], committed)
  BY DEF ScreenTypes
<1>2. CASE calls' = [calls EXCEPT ![s] = c]
  BY <1>1, <1>2 DEF Kept, SameCall
<1>3. CASE calls' = [Pages!Disowned(ds) EXCEPT ![s] = c]
  <2>1. calls' = [t \in Slots |-> IF t = s THEN c ELSE IF calls[t] = None THEN None ELSE [calls[t] EXCEPT !.own = @ \ ds]]
    BY <1>3 DEF Pages!Disowned
  <2>2. ASSUME NEW t \in Slots \ {s}
        PROVE  Kept(t) /\ calls'[t] \in {None} \cup Progress
    <3>1. CASE calls[t] = None
      BY <2>1, <3>1 DEF Kept
    <3>2. CASE calls[t] # None
      <4>1. calls'[t] = [calls[t] EXCEPT !.own = @ \ ds]
        BY <2>1, <3>2
      <4>2. Proper(calls'[t], committed) /\ SameCall(calls'[t], calls[t]) /\ calls'[t].stage = calls[t].stage
        BY <1>1, <3>2, <4>1, DisownedIs
      <4>3. calls'[t] # None
        BY <4>2, PageAssumption DEF Proper
      <4> QED
        BY <3>2, <4>2, <4>3 DEF Kept, Proper
    <3> QED
      BY <3>1, <3>2
  <2>3. calls'[s] = c /\ DOMAIN calls' = Slots
    BY <2>1
  <2> QED
    BY <2>1, <2>2, <2>3
<1> QED
  BY <1>2, <1>3

-----------------------------------------------------------------------------
(* What a step does to the loads.                                          *)

\* Handlers have the query of the screen, or that they had.
Inherits ==
  \A s \in Slots : calls'[s] # None =>
    calls'[s].query = ui.query \/ (calls[s] # None /\ calls'[s].query = calls[s].query)

\* None begins or ends, and a change that is owed for still is.
Stays ==
  /\ loads' = loads /\ committed' = committed /\ amiss' = amiss
  /\ ui' \in Screens /\ Alike(ui', ui)
  /\ (Owing => Owing') /\ Inherits

\* One begins, and why: another query is asked for, the same one again, or a handler loads.
Asks(query) ==
  /\ ui'.query = query
  /\ \/ Asked \cap (DOMAIN Pages!Layout.offers \cup DOMAIN Pages!List) # {}
     \/ \E a \in DOMAIN Pages!Acts : "steps back" \in Pages!Acts[a].then

Retries(initial, query) ==
  /\ ui'.query = ui.query /\ query = ui.query
  /\ \E c \in {"retry", "retry quietly", "refresh"} :
       /\ c \in {"retry", "retry quietly"} => Pages!FailureShown
       /\ Pages!PageOffers(c) /\ (initial <=> c = "retry")

Follows(initial, query) ==
  /\ ui'.query = ui.query /\ ~initial
  /\ \E s \in Slots : calls[s] # None /\ query = calls[s].query

Begins ==
  /\ committed' = committed /\ amiss' = amiss
  /\ ui' \in Screens /\ ui'.rows = ui.rows /\ ui'.loaded = ui.loaded /\ ~ui'.error /\ Inherits
  /\ \E initial \in BOOLEAN, query \in Queries, slot \in Slots \cup {0} :
       /\ Begun(initial, query, slot)
       /\ ui'.loading <=> ui.loading \/ Pages!Loud(initial)
       /\ ui'.fetching <=> ui.fetching \/ Pages!Quiet(initial)
       /\ Asks(query) \/ Retries(initial, query) \/ Follows(initial, query)

\* The server answers one.
Replies ==
  /\ ui' = ui /\ calls' = calls /\ committed' = committed /\ amiss' = amiss
  /\ \E i \in Flight : Replied(i)

\* The server makes a change, and its answer is lost or is not.
Commits ==
  /\ ui' = ui /\ loads' = loads
  /\ \E s \in Slots : calls[s] # None
  /\ Owing' \/ amiss' = amiss \cup {"lost answer"}
  /\ amiss' = amiss \/ amiss' = amiss \cup {"lost answer"}
  /\ Inherits

Effect == Stays \/ Begins \/ Replies \/ Commits

\* Handlers that stay, or all but one that keeps its query, have no new query.
LEMMA KeptInherits ==
  ASSUME \A s \in Slots : Kept(s)
  PROVE  Inherits
BY DEF Kept, Inherits, SameCall

LEMMA MovedInherits ==
  ASSUME NEW s \in Slots, \A t \in Slots \ {s} : Kept(t),
         calls'[s] # None => calls'[s].query = ui.query \/ (calls[s] # None /\ calls'[s].query = calls[s].query)
  PROVE  Inherits
BY DEF Kept, Inherits, SameCall

\* The parts of PageTypes after a step, from facts about the page before it.
LEMMA TypesKept ==
  ASSUME page \in DOMAIN Design, page' = page, ui' \in Screens, loads' \in Seq(Flights),
         calls' \in [Slots -> {None} \cup Progress],
         \A s \in Slots : calls'[s] # None => Proper(calls'[s], committed'),
         fetches' \subseteq Inquiries, committed' \subseteq Nat, IsFiniteSet(committed'),
         \A d \in DOMAIN Pages!Dialogs : ui'.open[d] = "new" => d \in DOMAIN Pages!Layout.offers,
         Awaited'
  PROVE  PageTypes'
<1>1. Screens' = Screens /\ Inquiries' = Inquiries /\ Pages!Dialogs' = Pages!Dialogs
      /\ Pages!Layout' = Pages!Layout /\ Pages!Acts' = Pages!Acts
  BY SamePage
<1>2. \A s \in Slots : calls'[s] # None => Proper(calls[s], committed)'
  BY <1>1 DEF Proper
<1>3. ScreenTypes'
  BY <1>1, <1>2 DEF ScreenTypes
<1>4. NewIsOffered'
  BY <1>1 DEF NewIsOffered
<1> QED
  BY <1>3, <1>4 DEF PageTypes

\* Who waits, when no load begins or ends and no dialog asks for a handler.
LEMMA AwaitedKept ==
  ASSUME Awaited, loads \in Seq(Flights), fetches \subseteq Inquiries, \A s \in Slots : Kept(s), loads' = loads,
         \A f \in fetches' : f.slot # 0 => \E g \in fetches : g.slot = f.slot,
         \A f, g \in fetches' : f.slot # 0 /\ f.slot = g.slot => f = g
  PROVE  Awaited' /\ (Owing => Owing')
<1>1. \A s \in Slots : \A stage : At(s, stage) => At(s, stage)'
  BY DEF Kept, At
<1>2. \A i \in Flight : loads[i].slot \in Slots \cup {0}
  BY FlightIs DEF Flights
<1>3. \A f \in fetches : f.slot \in Slots \cup {0}
  BY DEF Inquiries
<1>4. Awaited'
  BY <1>1, <1>2, <1>3 DEF Awaited, Flight, Flights, Inquiries
<1>5. Owing => Owing'
  BY <1>1 DEF Owing
<1> QED
  BY <1>4, <1>5

\* Requests of dialogs that go on when these are left.
LEMMA UnmountedIs ==
  ASSUME fetches \subseteq Inquiries, NEW ds
  PROVE  /\ Pages!Unmounted(ds) \subseteq Inquiries
         /\ \A f \in Pages!Unmounted(ds) : \E g \in fetches :
              g.slot = f.slot /\ g.thing = f.thing /\ g.dialog = f.dialog /\ f = [g EXCEPT !.mounted = @ /\ g.dialog \notin ds]
<1>1. Pages!Unmounted(ds) = {[f EXCEPT !.mounted = @ /\ f.dialog \notin ds] : f \in fetches}
  BY DEF Pages!Unmounted
<1>2. ASSUME NEW g \in fetches
      PROVE  LET f == [g EXCEPT !.mounted = @ /\ g.dialog \notin ds] IN
             f \in Inquiries /\ f.slot = g.slot /\ f.thing = g.thing /\ f.dialog = g.dialog
  <2> DEFINE mounted == g.mounted /\ g.dialog \notin ds
  <2>1. g \in Inquiries /\ mounted \in BOOLEAN
    OBVIOUS
  <2>2. [g EXCEPT !.mounted = @ /\ g.dialog \notin ds] = [g EXCEPT !.mounted = mounted]
    OBVIOUS
  <2> HIDE DEF mounted
  <2> QED
    BY <2>1, <2>2 DEF Inquiries
<1> QED
  BY <1>1, <1>2

\* No two of them are awaited by one handler.
LEMMA UnmountedWaits ==
  ASSUME fetches \subseteq Inquiries, NEW ds, Awaited
  PROVE  \A f, g \in Pages!Unmounted(ds) : f.slot # 0 /\ f.slot = g.slot => f = g
<1> SUFFICES ASSUME NEW f \in Pages!Unmounted(ds), NEW g \in Pages!Unmounted(ds), f.slot # 0, f.slot = g.slot
             PROVE  f = g
  OBVIOUS
<1>1. PICK x \in fetches : x.slot = f.slot /\ f = [x EXCEPT !.mounted = @ /\ x.dialog \notin ds]
  BY UnmountedIs
<1>2. PICK y \in fetches : y.slot = g.slot /\ g = [y EXCEPT !.mounted = @ /\ y.dialog \notin ds]
  BY UnmountedIs
<1>3. x = y
  BY <1>1, <1>2 DEF Awaited
<1> QED
  BY <1>1, <1>2, <1>3

-----------------------------------------------------------------------------
(* The actions of a page, one by one.                                      *)

\* What is open is a dialog of the page, for something.
LEMMA LoadsTyped ==
  ASSUME ScreenTypes
  PROVE  /\ ui.open \in Openings /\ ui.detail \in Details /\ ui.query \in Queries
         /\ Pages!Open \subseteq DOMAIN Pages!Dialogs
         /\ \A d \in Pages!Open : ui.open[d] \in Things \cup {"new"}
BY DEF ScreenTypes, Screens, Openings, Subjects, Pages!Open

\* The server answers a load: nothing else changes.
LEMMA ServedStep ==
  ASSUME PageTypes, NEW i \in DOMAIN loads, Pages!Served(i)
  PROVE  PageTypes' /\ page' = page /\ Effect
<1>1. /\ page' = page /\ ui' = ui /\ calls' = calls /\ fetches' = fetches
      /\ committed' = committed /\ amiss' = amiss
  BY Zenon DEF Pages!Served
<1>2. ScreenTypes /\ NewIsOffered /\ Awaited /\ loads \in Seq(Flights) /\ DOMAIN loads = Flight
  BY FlightIs DEF PageTypes, ScreenTypes
<1>3. Replied(i)
  BY <1>2, LoadReplies DEF ScreenTypes
<1>4. Awaited'
  BY <1>1, <1>2, <1>3 DEF Awaited, Replied, SameLoad, Flight, At
<1>5. PageTypes'
  BY <1>1, <1>2, <1>3, <1>4, TypesKept DEF ScreenTypes, NewIsOffered, Replied
<1> QED
  BY <1>1, <1>2, <1>3, <1>5 DEF Effect, Replies

\* A dialog asks for what it is open for: no handler waits for that.
LEMMA FetchIs ==
  ASSUME page \in DOMAIN Design, NEW d \in DOMAIN Pages!Dialogs, NEW x \in Things \cup {"new"},
         NEW before \in SUBSET Inquiries, Pages!Fetch(d, x, before)
  PROVE  /\ fetches' \subseteq Inquiries
         /\ \A f \in fetches' : f \in before \/ f.slot = 0
<1>1. CASE Pages!Dialogs[d].fetches = "nothing" \/ x = "new"
  BY <1>1 DEF Pages!Fetch
<1>2. CASE ~(Pages!Dialogs[d].fetches = "nothing" \/ x = "new")
  <2> DEFINE f == [dialog |-> d, thing |-> x, slot |-> 0, mounted |-> TRUE]
  <2>1. fetches' = before \cup {f}
    BY <1>2 DEF Pages!Fetch
  <2>2. d \in Fetching
    BY <1>2, OfItsDialogs DEF Fetching
  <2>3. f \in Inquiries /\ f.slot = 0
    BY <1>2, <2>2 DEF Inquiries
  <2> HIDE DEF f
  <2> QED
    BY <2>1, <2>3
<1> QED
  BY <1>1, <1>2

\* A step that opens or leaves dialogs.
LEMMA DialogStep ==
  ASSUME PageTypes, page' = page, ui' \in Screens, Alike(ui', ui),
         \A d \in DOMAIN Pages!Dialogs : ui'.open[d] = "new" => d \in DOMAIN Pages!Layout.offers,
         loads' = loads, committed' = committed, amiss' = amiss,
         NEW ds, calls' = calls \/ calls' = Pages!Disowned(ds),
         fetches' \subseteq Inquiries,
         \A f \in fetches' : f.slot # 0 => \E g \in fetches : g.slot = f.slot,
         \A f, g \in fetches' : f.slot # 0 /\ f.slot = g.slot => f = g
  PROVE  PageTypes' /\ page' = page /\ Effect
<1>1. ScreenTypes /\ Awaited
  BY DEF PageTypes
<1>2. calls' \in [Slots -> {None} \cup Progress] /\ \A s \in Slots : Kept(s)
  BY <1>1, CallsStay
<1>3. Awaited' /\ (Owing => Owing')
  BY <1>1, <1>2, AwaitedKept DEF ScreenTypes
<1>4. \A s \in Slots : calls'[s] # None => Proper(calls'[s], committed')
  BY <1>2 DEF Kept
<1>5. PageTypes'
  BY <1>1, <1>2, <1>3, <1>4, TypesKept DEF ScreenTypes
<1>6. Stays
  BY <1>2, <1>3, KeptInherits DEF Stays
<1> QED
  BY <1>5, <1>6 DEF Effect

\* A dialog is opened.
LEMMA OpenStep ==
  ASSUME PageTypes, NEW d \in DOMAIN Pages!Dialogs, NEW x \in Things \cup {"new"}, Pages!OpenDialog(d, x)
  PROVE  PageTypes' /\ page' = page /\ Effect
<1>1. /\ page' = page /\ loads' = loads /\ calls' = calls /\ committed' = committed /\ amiss' = amiss
      /\ ui' = Pages!Opened(ui, d, x) /\ Pages!Fetch(d, x, fetches)
      /\ x = "new" => Pages!PageOffers(d)
  BY Zenon DEF Pages!OpenDialog
<1>2. ScreenTypes /\ NewIsOffered /\ Awaited
  BY DEF PageTypes
<1>3. /\ ui' \in Screens /\ Alike(ui', ui)
      /\ \A e \in DOMAIN Pages!Dialogs : ui'.open[e] = IF e = d THEN x ELSE ui.open[e]
  <2>1. ui \in Screens /\ x \in Subjects
    BY <1>2 DEF ScreenTypes, Subjects
  <2> QED
    BY <1>1, <2>1, OpenedIs
<1>4. \A e \in DOMAIN Pages!Dialogs : ui'.open[e] = "new" => e \in DOMAIN Pages!Layout.offers
  BY <1>1, <1>2, <1>3 DEF NewIsOffered, Pages!PageOffers
<1>5. fetches' \subseteq Inquiries /\ \A f \in fetches' : f \in fetches \/ f.slot = 0
  BY <1>1, <1>2, FetchIs DEF ScreenTypes
<1>6. \A f, g \in fetches' : f.slot # 0 /\ f.slot = g.slot => f = g
  BY <1>2, <1>5 DEF Awaited
<1> QED
  BY <1>1, <1>3, <1>4, <1>5, <1>6, DialogStep

\* It fetches again.
LEMMA FetchAgainStep ==
  ASSUME PageTypes, NEW d \in DOMAIN Pages!Dialogs, Pages!FetchAgain(d)
  PROVE  PageTypes' /\ page' = page /\ Effect
<1>1. /\ page' = page /\ ui' = ui /\ loads' = loads /\ calls' = calls /\ committed' = committed /\ amiss' = amiss
      /\ d \in Pages!Open /\ Pages!Fetch(d, ui.open[d], fetches)
  BY Zenon DEF Pages!FetchAgain
<1>2. ScreenTypes /\ NewIsOffered /\ Awaited
  BY DEF PageTypes
<1>3. ui' \in Screens /\ Alike(ui', ui)
  BY <1>1, <1>2 DEF ScreenTypes, Alike
<1>4. \A e \in DOMAIN Pages!Dialogs : ui'.open[e] = "new" => e \in DOMAIN Pages!Layout.offers
  BY <1>1, <1>2 DEF NewIsOffered
<1>5. ui.open[d] \in Things \cup {"new"}
  BY <1>1, <1>2, LoadsTyped
<1>6. fetches' \subseteq Inquiries /\ \A f \in fetches' : f \in fetches \/ f.slot = 0
  BY <1>1, <1>2, <1>5, FetchIs DEF ScreenTypes
<1>7. \A f, g \in fetches' : f.slot # 0 /\ f.slot = g.slot => f = g
  BY <1>2, <1>6 DEF Awaited
<1> QED
  BY <1>1, <1>3, <1>4, <1>6, <1>7, DialogStep

\* Dialogs are left.
LEMMA LeaveStep ==
  ASSUME PageTypes, NEW ds, Pages!Leave(ds)
  PROVE  PageTypes' /\ page' = page /\ Effect
<1>1. /\ page' = page /\ loads' = loads /\ calls' = Pages!Disowned(ds) /\ committed' = committed /\ amiss' = amiss
      /\ ui' = Pages!Left(ui, ds) /\ fetches' = Pages!Unmounted(ds)
  BY Zenon DEF Pages!Leave
<1>2. ScreenTypes /\ NewIsOffered /\ Awaited
  BY DEF PageTypes
<1>3. /\ ui' \in Screens /\ Alike(ui', ui)
      /\ ui'.open = [e \in DOMAIN ui.open |-> IF e \in ds THEN None ELSE ui.open[e]]
  BY <1>1, <1>2, LeftIs DEF ScreenTypes
<1>4. \A e \in DOMAIN Pages!Dialogs : ui'.open[e] = "new" => e \in DOMAIN Pages!Layout.offers
  BY <1>1, <1>2, <1>3, LoadsTyped, PageAssumption DEF NewIsOffered, Openings
<1>5. fetches' \subseteq Inquiries /\ \A f \in fetches' : \E g \in fetches : g.slot = f.slot
  BY <1>1, <1>2, UnmountedIs DEF ScreenTypes
<1>6. \A f, g \in fetches' : f.slot # 0 /\ f.slot = g.slot => f = g
  BY <1>1, <1>2, UnmountedWaits DEF ScreenTypes
<1> QED
  BY <1>1, <1>3, <1>4, <1>5, <1>6, DialogStep

\* One gives way to another: it was open for a row, as only those of a row are offered that.
LEMMA ReplaceStep ==
  ASSUME PageTypes, NEW d \in DOMAIN Pages!Dialogs, NEW e, Pages!Replace(d, e)
  PROVE  PageTypes' /\ page' = page /\ Effect
<1>1. /\ page' = page /\ loads' = loads /\ calls' = Pages!Disowned({d}) /\ committed' = committed /\ amiss' = amiss
      /\ ui' = Pages!Opened(Pages!Left(ui, {d}), e, ui.open[d])
      /\ Pages!Fetch(e, ui.open[d], Pages!Unmounted({d}))
      /\ e \in DOMAIN Pages!Dialogs /\ d \in Pages!Open /\ e \in DOMAIN Pages!Dialogs[d].offers
  BY Zenon DEF Pages!Replace, Pages!DialogOffers
<1>2. ScreenTypes /\ NewIsOffered /\ Awaited
  BY DEF PageTypes
<1>3. ui.open[d] \in Things \cup {"new"} /\ ui.open[d] # "new"
  BY <1>1, <1>2, LoadsTyped, OfItsDialogs DEF NewIsOffered, ScreenTypes
<1> DEFINE u == Pages!Left(ui, {d})
<1>4. /\ u \in Screens /\ Alike(u, ui) /\ u.open = [x \in DOMAIN ui.open |-> IF x \in {d} THEN None ELSE ui.open[x]]
  BY <1>2, LeftIs DEF ScreenTypes
<1> HIDE DEF u
<1>5. PICK y \in Subjects : y = ui.open[d]
  BY <1>3 DEF Subjects
<1>5a. /\ ui' \in Screens /\ Alike(ui', u)
       /\ \A x \in DOMAIN Pages!Dialogs : ui'.open[x] = IF x = e THEN y ELSE u.open[x]
  <2>1. e \in DOMAIN Pages!Dialogs /\ ui' = Pages!Opened(u, e, y)
    BY <1>1, <1>5 DEF u
  <2>2. u \in Screens /\ e \in DOMAIN Pages!Dialogs /\ y \in Subjects
    BY <1>4, <2>1
  <2>3. LET v == Pages!Opened(u, e, y) IN
        /\ v \in Screens /\ Alike(v, u)
        /\ \A x \in DOMAIN Pages!Dialogs : v.open[x] = IF x = e THEN y ELSE u.open[x]
    BY <2>2, OpenedIs
  <2> QED
    BY <2>1, <2>3
<1>6. Alike(ui', ui)
  BY <1>4, <1>5a DEF Alike
<1>7. \A x \in DOMAIN Pages!Dialogs : ui'.open[x] = "new" => x \in DOMAIN Pages!Layout.offers
  <2>2. DOMAIN ui.open = DOMAIN Pages!Dialogs
    BY <1>2, LoadsTyped DEF Openings
  <2> SUFFICES ASSUME NEW x \in DOMAIN Pages!Dialogs, ui'.open[x] = "new"
               PROVE  x \in DOMAIN Pages!Layout.offers
    OBVIOUS
  <2>3. x # e
    BY <1>3, <1>5, <1>5a
  <2>4. u.open[x] = "new"
    BY <1>5a, <2>3
  <2>5. CASE x # d
    BY <1>2, <1>4, <2>2, <2>4, <2>5 DEF NewIsOffered
  <2>6. CASE x = d
    BY <1>4, <2>2, <2>4, <2>6, PageAssumption
  <2> QED
    BY <2>5, <2>6
<1>8. Pages!Unmounted({d}) \in SUBSET Inquiries /\ \A f \in Pages!Unmounted({d}) : \E g \in fetches : g.slot = f.slot
  BY <1>2, UnmountedIs DEF ScreenTypes
<1>9. fetches' \subseteq Inquiries /\ \A f \in fetches' : f \in Pages!Unmounted({d}) \/ f.slot = 0
  BY <1>1, <1>2, <1>3, <1>8, FetchIs DEF ScreenTypes
<1>10. \A f, g \in fetches' : f.slot # 0 /\ f.slot = g.slot => f = g
  BY <1>2, <1>9, UnmountedWaits DEF ScreenTypes
<1>11. \A f \in fetches' : f.slot # 0 => \E g \in fetches : g.slot = f.slot
  BY <1>8, <1>9
<1> QED
  BY <1>1, <1>5a, <1>6, <1>7, <1>9, <1>10, <1>11, DialogStep

-----------------------------------------------------------------------------
\* Load, seen from the screen and from the loads.
LEMMA LoadIs ==
  ASSUME ScreenTypes, NEW u \in Screens, NEW initial \in BOOLEAN, NEW query \in Queries, NEW slot \in Slots \cup {0},
         Pages!Load(u, initial, query, slot)
  PROVE  Begun(initial, query, slot) /\ Raises(ui', u, initial)
<1>1. loads \in Seq(Flights)
  BY DEF ScreenTypes
<1>2. Begun(initial, query, slot)
  BY <1>1, LoadBegins
<1>3. ui' = [u EXCEPT !.loading = @ \/ Pages!Loud(initial), !.fetching = @ \/ Pages!Quiet(initial), !.error = FALSE]
  BY Zenon DEF Pages!Load
<1>4. Raises(ui', u, initial)
  BY <1>3, LoadingIs, Zenon
<1> QED
  BY <1>2, <1>4

\* A handler, or nobody, waits for the load that begins.
LEMMA AwaitedBegins ==
  ASSUME Awaited, loads \in Seq(Flights), NEW initial, NEW query, NEW slot \in Slots \cup {0}, Begun(initial, query, slot),
         \A i \in Flight : loads[i].slot # 0 => Kept(loads[i].slot),
         \A f \in fetches' : f.slot # 0 => Kept(f.slot) /\ \E g \in fetches : g.slot = f.slot,
         \A f, g \in fetches' : f.slot # 0 /\ f.slot = g.slot => f = g,
         slot # 0 => At(slot, "loading")' /\ \A i \in Flight : loads[i].slot # slot
  PROVE  Awaited'
<1>1. Len(loads) \in Nat /\ Len(loads') = Len(loads) + 1
  BY FlightIs DEF Begun
<1>2. \A s, stage : Kept(s) /\ At(s, stage) => calls'[s] # None /\ calls'[s].stage = stage
  BY DEF Kept, At
<1>3. \A i \in Flight' : \/ i \in Flight /\ loads'[i].slot = loads[i].slot
                         \/ i = Len(loads) + 1 /\ loads'[i].slot = slot
  BY <1>1 DEF Flight, Begun, SameLoad
<1>4. ASSUME NEW i \in Flight', loads'[i].slot # 0
      PROVE  calls'[loads'[i].slot] # None /\ calls'[loads'[i].slot].stage = "loading"
  <2>1. CASE i \in Flight /\ loads'[i].slot = loads[i].slot
    BY <1>2, <1>4, <2>1 DEF Awaited, At
  <2>2. CASE loads'[i].slot = slot
    BY <1>4, <2>2 DEF At
  <2> QED
    BY <1>3, <2>1, <2>2
<1>5. \A i, j \in Flight' : loads'[i].slot # 0 /\ loads'[i].slot = loads'[j].slot => i = j
  BY <1>3 DEF Awaited
<1>6. \A f \in fetches' : f.slot # 0 => calls'[f.slot] # None /\ calls'[f.slot].stage = "fetching"
  BY <1>2 DEF Awaited
<1> QED
  BY <1>4, <1>5, <1>6 DEF Awaited, At

\* A dialog's request, or nobody, is what a handler comes to wait for.
LEMMA AwaitedMoves ==
  ASSUME Awaited, loads' = loads,
         \A i \in Flight : loads[i].slot # 0 => Kept(loads[i].slot),
         \A f \in fetches' : f.slot # 0 => \/ At(f.slot, "fetching")'
                                           \/ Kept(f.slot) /\ \E g \in fetches : g.slot = f.slot,
         \A f, g \in fetches' : f.slot # 0 /\ f.slot = g.slot => f = g
  PROVE  Awaited'
<1>1. \A s, stage : Kept(s) /\ At(s, stage) => At(s, stage)'
  BY DEF Kept, At
<1>2. \A i \in Flight : loads[i].slot # 0 => At(loads[i].slot, "loading")'
  BY <1>1 DEF Awaited
<1>3. \A f \in fetches' : f.slot # 0 => At(f.slot, "fetching")'
  BY <1>1 DEF Awaited
<1> QED
  BY <1>2, <1>3 DEF Awaited, At, Flight

\* A step that begins a load.
LEMMA LoadStep ==
  ASSUME PageTypes, page' = page, committed' = committed, amiss' = amiss,
         NEW u \in Screens, NEW initial \in BOOLEAN, NEW query \in Queries, NEW slot \in Slots \cup {0},
         Pages!Load(u, initial, query, slot),
         u.rows = ui.rows, u.loaded = ui.loaded, u.loading = ui.loading, u.fetching = ui.fetching,
         \A d \in DOMAIN Pages!Dialogs : u.open[d] = "new" => d \in DOMAIN Pages!Layout.offers,
         calls' \in [Slots -> {None} \cup Progress],
         \A s \in Slots : calls'[s] # None => Proper(calls'[s], committed), Inherits,
         fetches' \subseteq Inquiries,
         \A i \in Flight : loads[i].slot # 0 => Kept(loads[i].slot),
         \A f \in fetches' : f.slot # 0 => Kept(f.slot) /\ \E g \in fetches : g.slot = f.slot,
         \A f, g \in fetches' : f.slot # 0 /\ f.slot = g.slot => f = g,
         slot # 0 => At(slot, "loading")' /\ \A i \in Flight : loads[i].slot # slot,
         Asks(query) \/ Retries(initial, query) \/ Follows(initial, query)
  PROVE  PageTypes' /\ page' = page /\ Effect
<1>1. ScreenTypes /\ Awaited
  BY DEF PageTypes
<1>2. Begun(initial, query, slot) /\ Raises(ui', u, initial)
  BY <1>1, LoadIs
<1>3. Awaited'
  BY <1>1, <1>2, AwaitedBegins DEF ScreenTypes
<1>4. PageTypes'
  BY <1>1, <1>2, <1>3, TypesKept DEF ScreenTypes, Begun, Raises
<1>5. Begins
  BY <1>2 DEF Begins, Raises
<1> QED
  BY <1>4, <1>5 DEF Effect

\* A filter or a page number is changed.
LEMMA AskStep ==
  ASSUME PageTypes, NEW c \in {"filter", "pager", "search"}, Pages!Ask(c)
  PROVE  PageTypes' /\ page' = page /\ Effect
<1>1. PICK q \in Queries, initial \in BOOLEAN : Pages!Load([ui EXCEPT !.query = q], initial, q, 0)
  BY Zenon DEF Pages!Ask
<1>2. /\ page' = page /\ calls' = calls /\ fetches' = fetches /\ committed' = committed /\ amiss' = amiss
      /\ c \in DOMAIN Pages!Layout.offers \cup DOMAIN Pages!List
  BY Zenon DEF Pages!Ask, Pages!PageOffers, Pages!ListOffers
<1>3. ScreenTypes /\ NewIsOffered /\ Awaited
  BY DEF PageTypes
<1> DEFINE u == [ui EXCEPT !.query = q]
<1>4. /\ u \in Screens /\ u.query = q /\ u.rows = ui.rows /\ u.open = ui.open
      /\ u.loaded = ui.loaded /\ u.loading = ui.loading /\ u.fetching = ui.fetching
  BY <1>3, AskedIs DEF ScreenTypes
<1> HIDE DEF u
<1>5. calls' \in [Slots -> {None} \cup Progress] /\ \A s \in Slots : Kept(s)
  BY <1>2, <1>3, CallsStay
<1>6. Pages!Load(u, initial, q, 0)
  BY <1>1 DEF u
<1>7. Asks(q)
  <2>1. ui'.query = q
    BY <1>3, <1>4, <1>6, LoadIs DEF Raises
  <2> QED
    BY <1>2, <2>1 DEF Asks, Asked
<1>8. \A i \in Flight : loads[i].slot \in Slots \cup {0}
  BY <1>3, FlightIs DEF ScreenTypes, Flights
<1>9. fetches' \subseteq Inquiries /\ \A f \in fetches' : f.slot \in Slots \cup {0}
  BY <1>2, <1>3 DEF ScreenTypes, Inquiries
<1>10. \A f, g \in fetches' : f.slot # 0 /\ f.slot = g.slot => f = g
  BY <1>2, <1>3 DEF Awaited
<1>11. Inherits /\ \A s \in Slots : calls'[s] # None => Proper(calls'[s], committed)
  BY <1>5, KeptInherits DEF Kept
<1>12. \A d \in DOMAIN Pages!Dialogs : u.open[d] = "new" => d \in DOMAIN Pages!Layout.offers
  BY <1>3, <1>4 DEF NewIsOffered
<1> QED
  BY <1>2, <1>4, <1>5, <1>6, <1>7, <1>8, <1>9, <1>10, <1>11, <1>12, LoadStep

\* The page is loaded again.
LEMMA ReloadStep ==
  ASSUME PageTypes, NEW c \in {"retry", "retry quietly", "refresh"}, Pages!Reload(c)
  PROVE  PageTypes' /\ page' = page /\ Effect
<1>1. /\ page' = page /\ calls' = calls /\ fetches' = fetches /\ committed' = committed /\ amiss' = amiss
      /\ Pages!Load(ui, c = "retry", ui.query, 0)
      /\ (c \in {"retry", "retry quietly"} => Pages!FailureShown) /\ Pages!PageOffers(c)
  BY Zenon DEF Pages!Reload
<1>2. ScreenTypes /\ NewIsOffered /\ Awaited
  BY DEF PageTypes
<1>3. calls' \in [Slots -> {None} \cup Progress] /\ \A s \in Slots : Kept(s)
  BY <1>1, <1>2, CallsStay
<1> DEFINE initial == c = "retry"
<1>4. initial \in BOOLEAN /\ Pages!Load(ui, initial, ui.query, 0)
  BY <1>1
<1>5. ui \in Screens /\ ui.query \in Queries
  BY <1>2, LoadsTyped DEF ScreenTypes
<1>6. Retries(initial, ui.query)
  <2> HIDE DEF initial
  <2>1. ui'.query = ui.query
    BY <1>2, <1>4, <1>5, LoadIs DEF Raises
  <2> QED
    BY <1>1, <2>1 DEF Retries, initial
<1> HIDE DEF initial
<1>7. \A i \in Flight : loads[i].slot \in Slots \cup {0}
  BY <1>2, FlightIs DEF ScreenTypes, Flights
<1>8. fetches' \subseteq Inquiries /\ \A f \in fetches' : f.slot \in Slots \cup {0}
  BY <1>1, <1>2 DEF ScreenTypes, Inquiries
<1>9. \A f, g \in fetches' : f.slot # 0 /\ f.slot = g.slot => f = g
  BY <1>1, <1>2 DEF Awaited
<1>10. Inherits /\ \A s \in Slots : calls'[s] # None => Proper(calls'[s], committed)
  BY <1>3, KeptInherits DEF Kept
<1>11. \A d \in DOMAIN Pages!Dialogs : ui.open[d] = "new" => d \in DOMAIN Pages!Layout.offers
  BY <1>2 DEF NewIsOffered
<1> QED
  BY <1>1, <1>3, <1>4, <1>5, <1>6, <1>7, <1>8, <1>9, <1>10, <1>11, LoadStep

-----------------------------------------------------------------------------
\* One handler gets to another stage.
LEMMA CallAdvances ==
  ASSUME ScreenTypes, NEW ds, NEW s \in Slots, calls[s] # None,
         NEW stage \in {"sent", "done", "refused", "fetching", "loading"},
         \/ calls' = [calls EXCEPT ![s].stage = stage]
         \/ calls' = [Pages!Disowned(ds) EXCEPT ![s].stage = stage]
  PROVE  /\ calls' \in [Slots -> {None} \cup Progress] /\ \A t \in Slots \ {s} : Kept(t)
         /\ calls'[s] # None /\ Proper(calls'[s], committed) /\ SameCall(calls'[s], calls[s])
         /\ calls'[s].stage = stage
<1>1. calls \in [Slots -> {None} \cup Progress] /\ Proper(calls[s], committed)
  BY DEF ScreenTypes
<1>2. PICK c \in {calls[s], [calls[s] EXCEPT !.own = @ \ ds]} :
        LET d == [c EXCEPT !.stage = stage] IN
        calls' = [calls EXCEPT ![s] = d] \/ calls' = [Pages!Disowned(ds) EXCEPT ![s] = d]
  <2>1. CASE calls' = [calls EXCEPT ![s].stage = stage]
    BY <1>1, <2>1
  <2>2. CASE calls' = [Pages!Disowned(ds) EXCEPT ![s].stage = stage]
    <3>1. Pages!Disowned(ds)[s] = [calls[s] EXCEPT !.own = @ \ ds]
      BY DEF Pages!Disowned
    <3>2. calls' = [Pages!Disowned(ds) EXCEPT ![s] = [Pages!Disowned(ds)[s] EXCEPT !.stage = stage]]
      BY <2>2
    <3> QED
      BY <3>1, <3>2
  <2> QED
    BY <2>1, <2>2
<1> DEFINE d == [c EXCEPT !.stage = stage]
<1>3. Proper(c, committed) /\ SameCall(c, calls[s])
  <2> DEFINE own == [calls[s] EXCEPT !.own = @ \ ds]
  <2>1. Proper(own, committed) /\ SameCall(own, calls[s])
    BY <1>1, DisownedIs, Zenon
  <2> HIDE DEF own
  <2>2. c \in {calls[s], own}
    BY <1>2 DEF own
  <2> QED
    BY <1>1, <2>1, <2>2 DEF SameCall
<1>4. Proper(d, committed) /\ SameCall(d, c) /\ d.stage = stage
  <2>1. d = [c EXCEPT !.stage = stage]
    OBVIOUS
  <2> HIDE DEF d
  <2> QED
    BY <1>3, <2>1, StagedIs
<1>5. calls' = [calls EXCEPT ![s] = d] \/ calls' = [Pages!Disowned(ds) EXCEPT ![s] = d]
  BY <1>2
<1> HIDE DEF d
<1>6. d \in Progress /\ d # None
  BY <1>4, PageAssumption DEF Proper
<1>7. calls' \in [Slots -> {None} \cup Progress] /\ calls'[s] = d /\ \A t \in Slots \ {s} : Kept(t)
  BY <1>5, <1>6, CallMoves
<1> QED
  BY <1>3, <1>4, <1>6, <1>7 DEF SameCall

\* One handler ends.
LEMMA CallEnds ==
  ASSUME ScreenTypes, NEW ds, NEW s \in Slots,
         calls' = [calls EXCEPT ![s] = None] \/ calls' = [Pages!Disowned(ds) EXCEPT ![s] = None]
  PROVE  /\ calls' \in [Slots -> {None} \cup Progress] /\ \A t \in Slots \ {s} : Kept(t)
         /\ calls'[s] = None
BY CallMoves

\* What a handler, or a dialog, puts on the screen.
LEMMA ScreenIs ==
  ASSUME ScreenTypes, NEW u \in Screens, Alike(u, ui)
  PROVE  u.rows = ui.rows /\ u.query = ui.query /\ u.loaded = ui.loaded
         /\ u.loading = ui.loading /\ u.fetching = ui.fetching /\ u.error = ui.error
<1>1. ui \in Screens
  BY DEF ScreenTypes
<1> QED
  BY <1>1 DEF Screens, Alike

\* What an answer for a dialog leaves on the screen.
LEMMA AnswerIs ==
  ASSUME PageTypes, NEW f \in fetches, NEW answered \in BOOLEAN
  PROVE  LET d     == f.dialog
             how   == Pages!Dialogs[d].fetches
             shown == [ui EXCEPT !.detail[d] = IF answered THEN f.thing ELSE None]
             after == CASE how = "whole"     -> [shown EXCEPT !.open[d] = f.thing]
                        [] how = "mounted"   -> IF f.mounted THEN shown ELSE ui
                        [] how = "unguarded" -> shown
         IN  /\ after \in Screens /\ Alike(after, ui)
             /\ \A e \in DOMAIN Pages!Dialogs : after.open[e] = "new" => e \in DOMAIN Pages!Layout.offers
<1> DEFINE d     == f.dialog
           how   == Pages!Dialogs[d].fetches
           x     == IF answered THEN f.thing ELSE None
           shown == [ui EXCEPT !.detail[d] = x]
           whole == [shown EXCEPT !.open[d] = f.thing]
<1>1. ui \in Screens /\ f \in Inquiries
  BY DEF PageTypes, ScreenTypes
<1>2. d \in DOMAIN Pages!Dialogs /\ how \in {"mounted", "unguarded", "whole"} /\ f.thing \in Things
      /\ x \in Things \cup {None}
  BY <1>1 DEF Inquiries, Fetching
<1>3. \A e \in DOMAIN Pages!Dialogs : ui.open[e] = "new" => e \in DOMAIN Pages!Layout.offers
  BY DEF PageTypes, NewIsOffered
<1>4. ui \in Screens /\ Alike(ui, ui)
  BY <1>1 DEF Alike
<1> HIDE DEF d, x, how
<1>5. shown \in Screens /\ Alike(shown, ui) /\ shown.open = ui.open
  BY <1>1, <1>2, ReceivedIs
<1> HIDE DEF shown
<1>6. /\ whole \in Screens /\ Alike(whole, shown)
      /\ \A e \in DOMAIN Pages!Dialogs : whole.open[e] = IF e = d THEN f.thing ELSE shown.open[e]
  BY <1>2, <1>5, ReplacedIs
<1>7. \A e \in DOMAIN Pages!Dialogs : whole.open[e] = "new" => e \in DOMAIN Pages!Layout.offers
  BY <1>2, <1>3, <1>5, <1>6, PageAssumption
<1>8. Alike(whole, ui)
  BY <1>5, <1>6 DEF Alike
<1> HIDE DEF whole
<1>9. LET after == CASE how = "whole"     -> whole
                     [] how = "mounted"   -> IF f.mounted THEN shown ELSE ui
                     [] how = "unguarded" -> shown
      IN  /\ after \in Screens /\ Alike(after, ui)
          /\ \A e \in DOMAIN Pages!Dialogs : after.open[e] = "new" => e \in DOMAIN Pages!Layout.offers
  BY <1>2, <1>3, <1>4, <1>5, <1>6, <1>7, <1>8
<1> QED
  BY <1>9 DEF d, how, x, shown, whole

\* The answer for a dialog: a handler that waited for it loads.
LEMMA ReceiveStep ==
  ASSUME PageTypes, NEW f \in fetches, NEW answered \in BOOLEAN, Pages!Receive(f, answered)
  PROVE  PageTypes' /\ page' = page /\ Effect
<1> DEFINE d     == f.dialog
           how   == Pages!Dialogs[d].fetches
           shown == [ui EXCEPT !.detail[d] = IF answered THEN f.thing ELSE None]
           after == CASE how = "whole"     -> [shown EXCEPT !.open[d] = f.thing]
                      [] how = "mounted"   -> IF f.mounted THEN shown ELSE ui
                      [] how = "unguarded" -> shown
           s     == f.slot
<1>1. /\ page' = page /\ committed' = committed /\ amiss' = amiss /\ fetches' = fetches \ {f}
      /\ IF s = 0 THEN ui' = after /\ loads' = loads /\ calls' = calls
         ELSE /\ Pages!Load(after, FALSE, calls[s].query, s)
              /\ calls' = [calls EXCEPT ![s].stage = "loading"]
  BY Zenon DEF Pages!Receive
<1>2. /\ after \in Screens /\ Alike(after, ui)
      /\ \A e \in DOMAIN Pages!Dialogs : after.open[e] = "new" => e \in DOMAIN Pages!Layout.offers
  BY AnswerIs, Zenon
<1>3. ScreenTypes /\ Awaited
  BY DEF PageTypes
<1>4. s \in Slots \cup {0}
  BY <1>3 DEF ScreenTypes, Inquiries
<1>5. /\ fetches' \subseteq Inquiries /\ \A g \in fetches' : g.slot # 0 => g.slot # s /\ g.slot \in Slots
      /\ \A g \in fetches' : \E h \in fetches : h.slot = g.slot
      /\ \A g, h \in fetches' : g.slot # 0 /\ g.slot = h.slot => g = h
  BY <1>1, <1>3 DEF ScreenTypes, Awaited, Inquiries
<1> HIDE DEF after
<1>6. CASE s = 0
  BY <1>1, <1>2, <1>5, <1>6, DialogStep
<1>7. CASE s # 0
  <2>1. s \in Slots /\ At(s, "fetching")
    BY <1>3, <1>4, <1>7 DEF Awaited
  <2> HIDE DEF s
  <2>2. calls[s] # None /\ calls[s].query \in Queries
    BY <1>3, <2>1 DEF At, ScreenTypes, Proper, Progress
  <2>3. /\ calls' \in [Slots -> {None} \cup Progress] /\ \A t \in Slots \ {s} : Kept(t)
        /\ calls'[s] # None /\ Proper(calls'[s], committed) /\ SameCall(calls'[s], calls[s])
        /\ calls'[s].stage = "loading"
    BY <1>1, <1>3, <1>7, <2>1, <2>2, CallAdvances
  <2>4. At(s, "loading")'
    BY <2>3 DEF At
  <2>5. \A i \in Flight : loads[i].slot # s /\ loads[i].slot \in Slots \cup {0}
    BY <1>3, <1>7, <2>1, FlightIs DEF Awaited, At, ScreenTypes, Flights
  <2>6. Inherits /\ \A t \in Slots : calls'[t] # None => Proper(calls'[t], committed)
    BY <2>1, <2>2, <2>3, MovedInherits DEF SameCall, Kept
  <2>7. Begun(FALSE, calls[s].query, s) /\ Raises(ui', after, FALSE)
    BY <1>1, <1>2, <1>3, <1>7, <2>1, <2>2, LoadIs
  <2>8. Follows(FALSE, calls[s].query)
    BY <1>2, <2>1, <2>2, <2>7 DEF Follows, Raises, Alike
  <2>9. after.rows = ui.rows /\ after.loaded = ui.loaded /\ after.loading = ui.loading /\ after.fetching = ui.fetching
    BY <1>2, <1>3, ScreenIs
  <2>10. \A g \in fetches' : g.slot # 0 => Kept(g.slot) /\ \E h \in fetches : h.slot = g.slot
    BY <1>5, <2>3
  <2>11. \A i \in Flight : loads[i].slot # 0 => Kept(loads[i].slot)
    BY <2>3, <2>5
  <2> QED
    BY <1>1, <1>2, <1>5, <1>7, <2>1, <2>2, <2>3, <2>4, <2>5, <2>6, <2>8, <2>9, <2>10, <2>11, LoadStep
<1> QED
  BY <1>6, <1>7

\* A step in which a handler begins, or goes on without a load.
LEMMA HandlerStep ==
  ASSUME PageTypes, page' = page, loads' = loads, committed' = committed, amiss' = amiss,
         ui' \in Screens, Alike(ui', ui),
         \A d \in DOMAIN Pages!Dialogs : ui'.open[d] = "new" => d \in DOMAIN Pages!Layout.offers,
         NEW s \in Slots, calls' \in [Slots -> {None} \cup Progress], \A t \in Slots \ {s} : Kept(t),
         calls'[s] # None => Proper(calls'[s], committed)
                             /\ (calls'[s].query = ui.query \/ (calls[s] # None /\ calls'[s].query = calls[s].query)),
         \A i \in Flight : loads[i].slot # s,
         At(s, "done") \/ At(s, "fetching") => At(s, "done")' \/ At(s, "fetching")',
         fetches' \subseteq Inquiries,
         \A f \in fetches' : f.slot # 0 => \/ f.slot = s /\ At(s, "fetching")'
                                           \/ f.slot # s /\ \E g \in fetches : g.slot = f.slot,
         \A f, g \in fetches' : f.slot # 0 /\ f.slot = g.slot => f = g
  PROVE  PageTypes' /\ page' = page /\ Effect
<1>1. ScreenTypes /\ Awaited
  BY DEF PageTypes
<1>2. \A i \in Flight : loads[i].slot # 0 => Kept(loads[i].slot)
  BY <1>1, FlightIs DEF ScreenTypes, Flights
<1>3. \A f \in fetches' : f.slot # 0 => \/ At(f.slot, "fetching")'
                                        \/ Kept(f.slot) /\ \E g \in fetches : g.slot = f.slot
  <2>1. \A f \in fetches' : f.slot \in Slots \cup {0}
    BY DEF Inquiries
  <2> QED
    BY <2>1 DEF At
<1>4. Awaited'
  BY <1>1, <1>2, <1>3, AwaitedMoves
<1>5. \A t \in Slots : calls'[t] # None => Proper(calls'[t], committed')
  BY DEF Kept
<1>6. PageTypes'
  BY <1>1, <1>4, <1>5, TypesKept DEF ScreenTypes
<1>7. Owing => Owing'
  <2> SUFFICES ASSUME NEW t \in Slots, At(t, "done") \/ At(t, "fetching") PROVE Owing'
    BY DEF Owing
  <2>1. CASE t = s
    BY <2>1 DEF Owing
  <2>2. CASE t # s
    BY <2>2 DEF Owing, At, Kept
  <2> QED
    BY <2>1, <2>2
<1>8. Inherits
  BY MovedInherits
<1>9. Stays
  BY <1>7, <1>8 DEF Stays
<1> QED
  BY <1>6, <1>9 DEF Effect

\* A handler starts; what it will fetch for is a row.
LEMMA StartStep ==
  ASSUME PageTypes, NEW act \in DOMAIN Pages!Acts, NEW from \in SUBSET Pages!Open, Pages!Start(act, from)
  PROVE  PageTypes' /\ page' = page /\ Effect
<1> DEFINE chosen == Pages!Acts[act]
           own    == chosen.closes \cap from
           thing  == IF chosen.fetches \in Pages!Open THEN ui.open[chosen.fetches] ELSE None
           call   == [act |-> chosen, query |-> ui.query, own |-> own, stage |-> "sent", change |-> 0, thing |-> thing]
<1>1. PICK s \in Slots : calls[s] = None /\ calls' = [calls EXCEPT ![s] = call]
  BY Zenon DEF Pages!Start
<1>2. /\ page' = page /\ loads' = loads /\ fetches' = fetches /\ committed' = committed /\ amiss' = amiss
      /\ ui' = [ui EXCEPT !.busy = @ \cup {chosen.flag}]
  BY Zenon DEF Pages!Start
<1>3. ScreenTypes /\ NewIsOffered /\ Awaited /\ ui \in Screens /\ page \in DOMAIN Design
  BY DEF PageTypes, ScreenTypes
<1>4. chosen \in Handlers /\ chosen.flag \in Raised
  BY <1>3, OfItsDialogs DEF Raised
<1>5. ui' \in Screens /\ Alike(ui', ui) /\ ui'.open = ui.open
  BY <1>2, <1>3, <1>4, BusyIs
<1>6. /\ thing \in Things \cup {None}
      /\ thing # None => chosen.fetches \in DOMAIN Pages!Dialogs
  <2>1. CASE chosen.fetches \in Pages!Open
    <3>1. chosen.fetches \in DOMAIN Pages!Dialogs /\ ui.open[chosen.fetches] \in Things \cup {"new"}
      BY <1>3, <2>1, LoadsTyped
    <3>2. chosen.fetches \notin DOMAIN Pages!Layout.offers
      BY <1>3, <3>1, OfItsDialogs
    <3>3. ui.open[chosen.fetches] # "new"
      BY <1>3, <3>1, <3>2 DEF NewIsOffered
    <3> QED
      BY <2>1, <3>1, <3>3
  <2>2. CASE chosen.fetches \notin Pages!Open
    BY <2>2
  <2> QED
    BY <2>1, <2>2
<1>7. own \subseteq DOMAIN Pages!Dialogs /\ own \in SUBSET UNION {DOMAIN Design[p].dialogs : p \in DOMAIN Design}
  BY <1>3, LoadsTyped, OfItsDialogs
<1>8. ui.query \in Queries
  BY <1>3 DEF Screens
<1> HIDE DEF thing, own
<1>9. Proper(call, committed) /\ call.query = ui.query
  BY <1>4, <1>6, <1>7, <1>8 DEF Proper, Progress
<1> HIDE DEF call
<1>10. call \in Progress /\ call # None
  BY <1>9, PageAssumption DEF Proper
<1>11. /\ calls' \in [Slots -> {None} \cup Progress] /\ calls'[s] = call
       /\ \A t \in Slots \ {s} : Kept(t)
  BY <1>1, <1>3, <1>10, CallMoves
<1>12. ~At(s, "done") /\ ~At(s, "fetching") /\ \A i \in Flight : loads[i].slot # s
  BY <1>1, <1>3, PageAssumption DEF At, Awaited
<1>13. \A f \in fetches : f.slot # s
  BY <1>1, <1>3, PageAssumption DEF At, Awaited
<1>14. \A d \in DOMAIN Pages!Dialogs : ui'.open[d] = "new" => d \in DOMAIN Pages!Layout.offers
  BY <1>3, <1>5 DEF NewIsOffered
<1>15. fetches' \subseteq Inquiries /\ \A f, g \in fetches' : f.slot # 0 /\ f.slot = g.slot => f = g
  BY <1>2, <1>3 DEF ScreenTypes, Awaited
<1> QED
  BY <1>2, <1>5, <1>9, <1>11, <1>12, <1>13, <1>14, <1>15, HandlerStep

\* The server refuses a change.
LEMMA RefuseStep ==
  ASSUME PageTypes, NEW s \in Slots, Pages!Refuse(s)
  PROVE  PageTypes' /\ page' = page /\ Effect
<1>1. /\ page' = page /\ ui' = ui /\ loads' = loads /\ fetches' = fetches /\ committed' = committed /\ amiss' = amiss
      /\ At(s, "sent") /\ calls' = [calls EXCEPT ![s].stage = "refused"]
  BY Zenon DEF Pages!Refuse, At
<1>2. ScreenTypes /\ NewIsOffered /\ Awaited /\ ui \in Screens
  BY DEF PageTypes, ScreenTypes
<1>3. /\ calls' \in [Slots -> {None} \cup Progress] /\ \A t \in Slots \ {s} : Kept(t)
      /\ calls'[s] # None /\ Proper(calls'[s], committed) /\ SameCall(calls'[s], calls[s])
  BY <1>1, <1>2, CallAdvances DEF At
<1>4. ui' \in Screens /\ Alike(ui', ui) /\ fetches' \subseteq Inquiries
  BY <1>1, <1>2 DEF Alike, ScreenTypes
<1>5. ~At(s, "done") /\ ~At(s, "fetching") /\ \A i \in Flight : loads[i].slot # s
  BY <1>1, <1>2, PageAssumption DEF At, Awaited
<1>6. \A f \in fetches : f.slot # s
  BY <1>1, <1>2, PageAssumption DEF At, Awaited
<1>7. \A d \in DOMAIN Pages!Dialogs : ui'.open[d] = "new" => d \in DOMAIN Pages!Layout.offers
  BY <1>1, <1>2 DEF NewIsOffered
<1>8. \A f, g \in fetches' : f.slot # 0 /\ f.slot = g.slot => f = g
  BY <1>1, <1>2 DEF Awaited
<1>9. calls[s] # None /\ calls'[s].query = calls[s].query
  BY <1>1, <1>3 DEF At, SameCall
<1> QED
  BY <1>1, <1>3, <1>4, <1>5, <1>6, <1>7, <1>8, <1>9, HandlerStep

\* The two instances of FiniteSets agree.
LEMMA SameCardinality == ASSUME NEW S PROVE Pages!Cardinality(S) = Cardinality(S)
BY DEF Pages!Cardinality, Cardinality, IsFiniteSet, Pages!IsFiniteSet

\* What is made stays made.
LEMMA ProperGrows ==
  ASSUME NEW c, NEW made, NEW more, Proper(c, made), made \subseteq more
  PROVE  Proper(c, more)
BY DEF Proper

\* The server makes a change: it is owed for, or its answer is lost.
LEMMA CommitStep ==
  ASSUME PageTypes, NEW s \in Slots, Pages!Commit(s)
  PROVE  PageTypes' /\ page' = page /\ Effect
<1> DEFINE change == Pages!Cardinality(committed) + 1
<1>1. /\ page' = page /\ ui' = ui /\ loads' = loads /\ fetches' = fetches
      /\ At(s, "sent") /\ committed' = committed \cup {change}
      /\ \/ calls' = [calls EXCEPT ![s].stage = "done", ![s].change = change] /\ amiss' = amiss
         \/ calls' = [calls EXCEPT ![s].stage = "refused"] /\ amiss' = amiss \cup {"lost answer"}
  BY DEF Pages!Commit, At
<1>2. ScreenTypes /\ NewIsOffered /\ Awaited /\ ui \in Screens
  BY DEF PageTypes, ScreenTypes
<1>3. change \in Nat /\ committed' \subseteq Nat /\ IsFiniteSet(committed')
  <2>1. committed \subseteq Nat /\ IsFiniteSet(committed)
    BY <1>2 DEF ScreenTypes
  <2>2. change \in Nat
    BY <2>1, SameCardinality, FS_CardinalityType
  <2> QED
    BY <1>1, <2>1, <2>2, FS_AddElement
<1> HIDE DEF change
<1>4. calls \in [Slots -> {None} \cup Progress] /\ calls[s] # None /\ Proper(calls[s], committed)
  BY <1>1, <1>2 DEF ScreenTypes, At
<1>5. /\ calls' \in [Slots -> {None} \cup Progress] /\ \A t \in Slots \ {s} : Kept(t)
      /\ calls'[s] # None /\ Proper(calls'[s], committed') /\ SameCall(calls'[s], calls[s])
      /\ amiss' = amiss => calls'[s].stage = "done"  \/ "lost answer" \in amiss
  <2>1. CASE calls' = [calls EXCEPT ![s].stage = "done", ![s].change = change] /\ amiss' = amiss
    <3> DEFINE c == [calls[s] EXCEPT !.stage = "done", !.change = change]
    <3>1. Proper(c, committed \cup {change}) /\ SameCall(c, calls[s]) /\ c.stage = "done"
      BY <1>3, <1>4, MadeIs, Zenon
    <3>2. calls' = [calls EXCEPT ![s] = c]
      BY <1>4, <2>1
    <3> HIDE DEF c
    <3>3. c \in Progress /\ c # None
      BY <3>1, PageAssumption DEF Proper
    <3>4. calls' \in [Slots -> {None} \cup Progress] /\ calls'[s] = c /\ \A t \in Slots \ {s} : Kept(t)
      BY <1>2, <3>2, <3>3, CallMoves
    <3> QED
      BY <1>1, <3>1, <3>3, <3>4
  <2>2. CASE calls' = [calls EXCEPT ![s].stage = "refused"] /\ amiss' = amiss \cup {"lost answer"}
    <3>1. /\ calls' \in [Slots -> {None} \cup Progress] /\ \A t \in Slots \ {s} : Kept(t)
          /\ calls'[s] # None /\ Proper(calls'[s], committed) /\ SameCall(calls'[s], calls[s])
      BY <1>2, <1>4, <2>2, CallAdvances
    <3>2. Proper(calls'[s], committed')
      <4>1. committed \subseteq committed'
        BY <1>1
      <4> QED
        BY <3>1, <4>1, ProperGrows, Zenon
    <3>3. amiss' = amiss => "lost answer" \in amiss
      BY <2>2
    <3> QED
      BY <3>1, <3>2, <3>3
  <2> QED
    BY <1>1, <2>1, <2>2
<1>6. \A t \in Slots : calls'[t] # None => Proper(calls'[t], committed')
  BY <1>1, <1>5, ProperGrows DEF Kept
<1>7. \A i \in Flight : loads[i].slot # s
  BY <1>1, <1>2, PageAssumption DEF At, Awaited
<1>8. \A f \in fetches : f.slot # s
  BY <1>1, <1>2, PageAssumption DEF At, Awaited
<1>9. \A i \in Flight : loads[i].slot # 0 => Kept(loads[i].slot)
  BY <1>2, <1>5, <1>7, FlightIs DEF ScreenTypes, Flights
<1>10. \A f \in fetches' : f.slot # 0 => Kept(f.slot) /\ \E g \in fetches : g.slot = f.slot
  BY <1>1, <1>2, <1>5, <1>8 DEF ScreenTypes, Inquiries
<1>11. \A f, g \in fetches' : f.slot # 0 /\ f.slot = g.slot => f = g
  BY <1>1, <1>2 DEF Awaited
<1>12. Awaited'
  BY <1>1, <1>2, <1>9, <1>10, <1>11, AwaitedMoves
<1>13. PageTypes'
  BY <1>1, <1>2, <1>3, <1>5, <1>6, <1>12, TypesKept DEF ScreenTypes, NewIsOffered
<1>14. Inherits
  BY <1>4, <1>5, MovedInherits DEF SameCall
<1>15. Owing' \/ amiss' = amiss \cup {"lost answer"}
  BY <1>1, <1>5 DEF Owing, At
<1>16. Commits
  BY <1>1, <1>4, <1>14, <1>15 DEF Commits
<1> QED
  BY <1>1, <1>13, <1>16 DEF Effect

\* A handler that has its answer waits for nothing yet.
LEMMA NotAwaited ==
  ASSUME PageTypes, NEW s \in Slots, NEW stage \in {"sent", "done", "refused"}, At(s, stage)
  PROVE  /\ \A i \in Flight : loads[i].slot # s /\ loads[i].slot \in Slots \cup {0}
         /\ \A f \in fetches : f.slot # s /\ f.slot \in Slots \cup {0}
         /\ calls[s] \in Progress /\ calls[s].query \in Queries /\ Proper(calls[s], committed)
         /\ \A f, g \in fetches : f.slot # 0 /\ f.slot = g.slot => f = g
<1>1. ScreenTypes /\ Awaited /\ s # 0
  BY PageAssumption DEF PageTypes
<1>2. \A i \in Flight : loads[i].slot # s /\ loads[i].slot \in Slots \cup {0}
  BY <1>1, FlightIs DEF ScreenTypes, Flights, Awaited, At
<1>3. \A f \in fetches : f.slot # s /\ f.slot \in Slots \cup {0}
  BY <1>1 DEF ScreenTypes, Inquiries, Awaited, At
<1>4. Proper(calls[s], committed)
  BY <1>1 DEF ScreenTypes, At
<1>5. calls[s] \in Progress /\ calls[s].query \in Queries
  BY <1>4 DEF Proper, Progress
<1> QED
  BY <1>1, <1>2, <1>3, <1>4, <1>5 DEF Awaited

\* A refused handler ends, or loads all the same.
LEMMA RefusedStep ==
  ASSUME PageTypes, NEW s \in Slots, Pages!Refused(s)
  PROVE  PageTypes' /\ page' = page /\ Effect
<1>1. /\ page' = page /\ fetches' = fetches /\ committed' = committed /\ amiss' = amiss /\ At(s, "refused")
      /\ \/ Pages!Load(ui, FALSE, calls[s].query, s) /\ calls' = [calls EXCEPT ![s].stage = "loading"]
         \/ ui' = Pages!Finished(ui, calls[s]) /\ calls' = [calls EXCEPT ![s] = None] /\ loads' = loads
  BY Zenon DEF Pages!Refused, At
<1>2. ScreenTypes /\ NewIsOffered /\ ui \in Screens /\ fetches \subseteq Inquiries
  BY DEF PageTypes, ScreenTypes
<1>3. /\ \A i \in Flight : loads[i].slot # s /\ loads[i].slot \in Slots \cup {0}
      /\ \A f \in fetches : f.slot # s /\ f.slot \in Slots \cup {0}
      /\ calls[s] \in Progress /\ calls[s].query \in Queries
      /\ \A f, g \in fetches : f.slot # 0 /\ f.slot = g.slot => f = g
  BY <1>1, NotAwaited
<1>4. calls[s] # None
  BY <1>1 DEF At
<1>5. CASE Pages!Load(ui, FALSE, calls[s].query, s) /\ calls' = [calls EXCEPT ![s].stage = "loading"]
  <2>1. /\ calls' \in [Slots -> {None} \cup Progress] /\ \A t \in Slots \ {s} : Kept(t)
        /\ calls'[s] # None /\ Proper(calls'[s], committed) /\ SameCall(calls'[s], calls[s])
        /\ calls'[s].stage = "loading"
    BY <1>2, <1>4, <1>5, CallAdvances
  <2>2. At(s, "loading")'
    BY <2>1 DEF At
  <2>3. Inherits /\ \A t \in Slots : calls'[t] # None => Proper(calls'[t], committed)
    BY <1>4, <2>1, MovedInherits DEF SameCall, Kept
  <2>4. Begun(FALSE, calls[s].query, s) /\ Raises(ui', ui, FALSE)
    BY <1>2, <1>3, <1>5, LoadIs
  <2>5. Follows(FALSE, calls[s].query)
    BY <1>4, <2>4 DEF Follows, Raises
  <2>6. \A g \in fetches' : g.slot # 0 => Kept(g.slot) /\ \E h \in fetches : h.slot = g.slot
    BY <1>1, <1>3, <2>1
  <2>7. \A i \in Flight : loads[i].slot # 0 => Kept(loads[i].slot)
    BY <1>3, <2>1
  <2>8. \A d \in DOMAIN Pages!Dialogs : ui.open[d] = "new" => d \in DOMAIN Pages!Layout.offers
    BY <1>2 DEF NewIsOffered
  <2> QED
    BY <1>1, <1>2, <1>3, <1>5, <2>1, <2>2, <2>3, <2>5, <2>6, <2>7, <2>8, LoadStep
<1>6. CASE ui' = Pages!Finished(ui, calls[s]) /\ calls' = [calls EXCEPT ![s] = None] /\ loads' = loads
  <2>1. ui' \in Screens /\ Alike(ui', ui) /\ ui'.open = ui.open
    BY <1>2, <1>6, FinishedIs
  <2>2. /\ calls' \in [Slots -> {None} \cup Progress] /\ \A t \in Slots \ {s} : Kept(t)
        /\ calls'[s] = None
    BY <1>2, <1>6, CallEnds
  <2>3. \A d \in DOMAIN Pages!Dialogs : ui'.open[d] = "new" => d \in DOMAIN Pages!Layout.offers
    BY <1>2, <2>1 DEF NewIsOffered
  <2>4. ~At(s, "done") /\ ~At(s, "fetching")
    BY <1>1 DEF At
  <2> QED
    BY <1>1, <1>2, <1>3, <1>6, <2>1, <2>2, <2>3, <2>4, HandlerStep
<1> QED
  BY <1>1, <1>5, <1>6

\* The screens a handler makes once it is answered.
LEMMA ContinuedIs ==
  ASSUME ScreenTypes, NewIsOffered, NEW call
  PROVE  LET reset  == IF call.act.resets THEN Pages!Finished(ui, call) ELSE ui
             closed == Pages!Left(reset, call.act.closes)
             freed  == Pages!Finished(closed, call)
         IN  /\ closed \in Screens /\ Alike(closed, ui)
             /\ freed \in Screens /\ Alike(freed, ui)
             /\ \A d \in DOMAIN Pages!Dialogs : closed.open[d] = "new" => d \in DOMAIN Pages!Layout.offers
             /\ freed.open = closed.open
<1> DEFINE reset  == IF call.act.resets THEN Pages!Finished(ui, call) ELSE ui
           closed == Pages!Left(reset, call.act.closes)
           freed  == Pages!Finished(closed, call)
<1>1. ui \in Screens
  BY DEF ScreenTypes
<1>2. reset \in Screens /\ Alike(reset, ui) /\ reset.open = ui.open
  BY <1>1, FinishedIs DEF Alike
<1> HIDE DEF reset
<1>3. /\ closed \in Screens /\ Alike(closed, reset)
      /\ closed.open = [d \in DOMAIN reset.open |-> IF d \in call.act.closes THEN None ELSE reset.open[d]]
  BY <1>2, LeftIs
<1> HIDE DEF closed
<1>4. freed \in Screens /\ Alike(freed, closed) /\ freed.open = closed.open
  BY <1>3, FinishedIs
<1> HIDE DEF freed
<1>5. Alike(closed, ui) /\ Alike(freed, ui)
  BY <1>2, <1>3, <1>4 DEF Alike
<1>6. DOMAIN ui.open = DOMAIN Pages!Dialogs
  BY LoadsTyped DEF Openings
<1>7. \A d \in DOMAIN Pages!Dialogs : closed.open[d] = "new" => d \in DOMAIN Pages!Layout.offers
  BY <1>2, <1>3, <1>6, PageAssumption DEF NewIsOffered
<1> QED
  BY <1>3, <1>4, <1>5, <1>7, Zenon DEF reset, closed, freed

\* The requests of dialogs, when an answered handler has closed some, or asks for one.
LEMMA ClosedIs ==
  ASSUME PageTypes, NEW s \in Slots, At(s, "done"), NEW ds, fetches' = Pages!Unmounted(ds),
         \A t \in Slots \ {s} : Kept(t)
  PROVE  /\ fetches' \subseteq Inquiries
         /\ \A f \in fetches' : f.slot # s /\ f.slot \in Slots \cup {0}
         /\ \A f \in fetches' : f.slot # 0 => Kept(f.slot) /\ \E g \in fetches : g.slot = f.slot
         /\ \A f, g \in fetches' : f.slot # 0 /\ f.slot = g.slot => f = g
<1>1. fetches \subseteq Inquiries /\ Awaited
  BY DEF PageTypes, ScreenTypes
<1>2. fetches' \subseteq Inquiries /\ \A f \in fetches' : \E g \in fetches : g.slot = f.slot
  BY <1>1, UnmountedIs
<1>3. \A f \in fetches : f.slot # s /\ f.slot \in Slots \cup {0}
  BY NotAwaited
<1>4. \A f, g \in fetches' : f.slot # 0 /\ f.slot = g.slot => f = g
  BY <1>1, UnmountedWaits
<1> QED
  BY <1>2, <1>3, <1>4

\* An answered handler fetches, loads and waits, loads and ends, or steps back a page.
LEMMA AnsweredStep ==
  ASSUME PageTypes, NEW s \in Slots, Pages!Answered(s)
  PROVE  PageTypes' /\ page' = page /\ Effect
<1> DEFINE call   == calls[s]
           act    == call.act
           reset  == IF act.resets THEN Pages!Finished(ui, call) ELSE ui
           closed == Pages!Left(reset, act.closes)
           freed  == Pages!Finished(closed, call)
           ds     == act.closes
           asked  == [dialog |-> act.fetches, thing |-> call.thing, slot |-> s, mounted |-> TRUE]
           Owes   == [Pages!Disowned(ds) EXCEPT ![s].stage = "fetching"]
           Waits  == [Pages!Disowned(ds) EXCEPT ![s].stage = "loading"]
           Ends   == [Pages!Disowned(ds) EXCEPT ![s] = None]
<1>1. page' = page /\ committed' = committed /\ amiss' = amiss /\ At(s, "done")
  BY Zenon DEF Pages!Answered, At
<1>2. \/ /\ call.thing # None /\ ui' = closed /\ fetches' = fetches \cup {asked}
         /\ calls' = Owes /\ loads' = loads
      \/ /\ Pages!Load(closed, FALSE, call.query, s)
         /\ calls' = Waits /\ fetches' = Pages!Unmounted(ds)
      \/ /\ Pages!Load(freed, FALSE, call.query, 0)
         /\ calls' = Ends /\ fetches' = Pages!Unmounted(ds)
      \/ /\ "steps back" \in act.then
         /\ \E q \in Queries \ {call.query} : Pages!Load([freed EXCEPT !.query = q], ~ui.loaded, q, 0)
         /\ calls' = Ends /\ fetches' = Pages!Unmounted(ds)
  BY Zenon DEF Pages!Answered
<1>3. ScreenTypes /\ NewIsOffered /\ ui \in Screens /\ fetches \subseteq Inquiries
  BY DEF PageTypes, ScreenTypes
<1>4. /\ closed \in Screens /\ Alike(closed, ui)
      /\ freed \in Screens /\ Alike(freed, ui)
      /\ \A d \in DOMAIN Pages!Dialogs : closed.open[d] = "new" => d \in DOMAIN Pages!Layout.offers
      /\ freed.open = closed.open
  BY <1>3, ContinuedIs, Zenon
<1>5. /\ \A i \in Flight : loads[i].slot # s /\ loads[i].slot \in Slots \cup {0}
      /\ \A f \in fetches : f.slot # s /\ f.slot \in Slots \cup {0}
      /\ call \in Progress /\ call.query \in Queries /\ Proper(call, committed)
      /\ \A f, g \in fetches : f.slot # 0 /\ f.slot = g.slot => f = g
  BY <1>1, NotAwaited
<1>6. calls[s] # None
  BY <1>1 DEF At
<1> HIDE DEF closed, freed, ds
<1>7. CASE /\ call.thing # None /\ ui' = closed /\ fetches' = fetches \cup {asked}
           /\ calls' = Owes /\ loads' = loads
  <2>1. /\ calls' \in [Slots -> {None} \cup Progress] /\ \A t \in Slots \ {s} : Kept(t)
        /\ calls'[s] # None /\ Proper(calls'[s], committed) /\ SameCall(calls'[s], calls[s])
        /\ calls'[s].stage = "fetching"
    BY <1>3, <1>6, <1>7, CallAdvances
  <2>2. At(s, "fetching")' /\ calls'[s].query = calls[s].query
    BY <2>1 DEF At, SameCall
  <2>3. asked \in Inquiries
    <3>1. call.thing \in Things /\ act.fetches \in DOMAIN Pages!Dialogs
      BY <1>5, <1>7 DEF Proper, Progress
    <3>2. act.fetches \in Fetching
      BY <1>3, <1>5, <3>1, OfItsDialogs DEF Fetching, Proper, ScreenTypes
    <3> QED
      BY <3>1, <3>2 DEF Inquiries
  <2>4. asked.slot = s
    OBVIOUS
  <2> HIDE DEF asked
  <2>5. fetches' \subseteq Inquiries
    BY <1>3, <1>7, <2>3
  <2>6. \A f \in fetches' : f.slot # 0 => \/ f.slot = s /\ At(f.slot, "fetching")'
                                          \/ f.slot # s /\ \E g \in fetches : g.slot = f.slot
    BY <1>5, <1>7, <2>2, <2>4
  <2>7. \A f, g \in fetches' : f.slot # 0 /\ f.slot = g.slot => f = g
    BY <1>5, <1>7, <2>4
  <2> QED
    BY <1>1, <1>4, <1>5, <1>6, <1>7, <2>1, <2>2, <2>5, <2>6, <2>7, HandlerStep
<1>8. closed.rows = ui.rows /\ closed.loaded = ui.loaded /\ closed.loading = ui.loading /\ closed.fetching = ui.fetching
      /\ closed.query = ui.query
  BY <1>3, <1>4, ScreenIs
<1>9. freed.rows = ui.rows /\ freed.loaded = ui.loaded /\ freed.loading = ui.loading /\ freed.fetching = ui.fetching
      /\ freed.query = ui.query
  BY <1>3, <1>4, ScreenIs
<1>10. CASE Pages!Load(closed, FALSE, call.query, s) /\ calls' = Waits /\ fetches' = Pages!Unmounted(ds)
  <2>1. /\ calls' \in [Slots -> {None} \cup Progress] /\ \A t \in Slots \ {s} : Kept(t)
        /\ calls'[s] # None /\ Proper(calls'[s], committed) /\ SameCall(calls'[s], calls[s])
        /\ calls'[s].stage = "loading"
    BY <1>3, <1>6, <1>10, CallAdvances
  <2>2. At(s, "loading")'
    BY <2>1 DEF At
  <2>3. Inherits /\ \A t \in Slots : calls'[t] # None => Proper(calls'[t], committed)
    BY <1>6, <2>1, MovedInherits DEF SameCall, Kept
  <2>4. Begun(FALSE, call.query, s) /\ Raises(ui', closed, FALSE)
    BY <1>3, <1>4, <1>5, <1>10, LoadIs
  <2>5. Follows(FALSE, call.query)
    BY <1>6, <1>8, <2>4 DEF Follows, Raises
  <2>6. /\ fetches' \subseteq Inquiries
        /\ \A f \in fetches' : f.slot # 0 => Kept(f.slot) /\ \E g \in fetches : g.slot = f.slot
        /\ \A f, g \in fetches' : f.slot # 0 /\ f.slot = g.slot => f = g
    BY <1>1, <1>10, <2>1, ClosedIs
  <2>7. \A i \in Flight : loads[i].slot # 0 => Kept(loads[i].slot)
    BY <1>5, <2>1
  <2> QED
    BY <1>1, <1>4, <1>5, <1>8, <1>10, <2>1, <2>2, <2>3, <2>5, <2>6, <2>7, LoadStep
<1>11. ASSUME NEW u \in Screens, NEW initial \in BOOLEAN, NEW q \in Queries,
              Pages!Load(u, initial, q, 0), calls' = Ends, fetches' = Pages!Unmounted(ds),
              u.rows = ui.rows, u.loaded = ui.loaded, u.loading = ui.loading, u.fetching = ui.fetching,
              u.open = freed.open,
              Asks(q) \/ Follows(initial, q)
       PROVE  PageTypes' /\ page' = page /\ Effect
  <2>1. /\ calls' \in [Slots -> {None} \cup Progress] /\ \A t \in Slots \ {s} : Kept(t)
        /\ calls'[s] = None
    BY <1>3, <1>11, CallEnds
  <2>2. Inherits /\ \A t \in Slots : calls'[t] # None => Proper(calls'[t], committed)
    BY <2>1, MovedInherits DEF Kept
  <2>3. /\ fetches' \subseteq Inquiries
        /\ \A f \in fetches' : f.slot # 0 => Kept(f.slot) /\ \E g \in fetches : g.slot = f.slot
        /\ \A f, g \in fetches' : f.slot # 0 /\ f.slot = g.slot => f = g
    BY <1>1, <1>11, <2>1, ClosedIs
  <2>4. \A i \in Flight : loads[i].slot # 0 => Kept(loads[i].slot)
    BY <1>5, <2>1
  <2>5. \A d \in DOMAIN Pages!Dialogs : u.open[d] = "new" => d \in DOMAIN Pages!Layout.offers
    BY <1>4, <1>11
  <2> DEFINE slot == 0
  <2>7. slot \in Slots \cup {0} /\ Pages!Load(u, initial, q, slot) /\ ~(slot # 0)
    BY <1>11
  <2> HIDE DEF slot
  <2> QED
    BY <1>1, <1>11, <2>1, <2>2, <2>3, <2>4, <2>5, <2>7, LoadStep
<1>12. CASE Pages!Load(freed, FALSE, call.query, 0) /\ calls' = Ends /\ fetches' = Pages!Unmounted(ds)
  <2>1. Begun(FALSE, call.query, 0) /\ Raises(ui', freed, FALSE)
    BY <1>3, <1>4, <1>5, <1>12, LoadIs
  <2>2. Follows(FALSE, call.query)
    BY <1>6, <1>9, <2>1 DEF Follows, Raises
  <2> QED
    BY <1>4, <1>5, <1>9, <1>11, <1>12, <2>2
<1>13. CASE /\ "steps back" \in act.then
            /\ \E q \in Queries \ {call.query} : Pages!Load([freed EXCEPT !.query = q], ~ui.loaded, q, 0)
            /\ calls' = Ends /\ fetches' = Pages!Unmounted(ds)
  <2>1. PICK q \in Queries : Pages!Load([freed EXCEPT !.query = q], ~ui.loaded, q, 0)
    BY <1>13
  <2> DEFINE u == [freed EXCEPT !.query = q]
  <2>2. /\ u \in Screens /\ u.query = q /\ u.rows = freed.rows /\ u.open = freed.open
        /\ u.loaded = freed.loaded /\ u.loading = freed.loading /\ u.fetching = freed.fetching
    BY <1>4, AskedIs
  <2> HIDE DEF u
  <2>3. Pages!Load(u, ~ui.loaded, q, 0) /\ (~ui.loaded) \in BOOLEAN
    BY <2>1 DEF u
  <2>4. ui'.query = q
    BY <1>3, <2>2, <2>3, LoadIs DEF Raises
  <2>5. Asks(q)
    BY <1>5, <1>13, <2>4 DEF Asks, Proper
  <2> QED
    BY <1>9, <1>11, <1>13, <2>2, <2>3, <2>5
<1> QED
  BY <1>2, <1>7, <1>10, <1>12, <1>13

-----------------------------------------------------------------------------
(* The end of a load.                                                      *)

Failing(i) == loads[i].data = None /\ ~Ignored(i)

\* What it leaves on the screen.
Shows(u, i) ==
  /\ u \in Screens /\ u.query = ui.query /\ u.open = ui.open
  /\ Ignored(i) => Alike(u, ui)
  /\ Applied(i) => /\ u.rows = [query |-> loads[i].query, has |-> loads[i].data.has]
                   /\ u.loaded /\ (u.error <=> ui.error /\ ~Pages!Loader.absolves)
  /\ Failing(i) => /\ u.rows \in {ui.rows, None} /\ u.loaded = ui.loaded
                   /\ (ui.error => u.error) /\ (Pages!Loader.tells = "always" => u.error)
                   /\ (~u.error => u.rows = ui.rows)
  /\ ~Ignored(i) =>
       /\ u.loading  <=> ui.loading /\ ~(Pages!Loud(loads[i].initial) \/ Pages!Loader.lowers = "both")
       /\ u.fetching <=> ui.fetching /\ ~(Pages!Quiet(loads[i].initial) \/ Pages!Loader.lowers = "both")

\* And why its rows may differ from the server's.
Reason(i, why) ==
  \/ why = "out of order" /\ Applied(i) /\ loads[i].behind
  \/ why = "old query"    /\ Applied(i) /\ loads[i].query # ui.query
  \/ why = "untold"       /\ Failing(i) /\ ~ui'.error
  \/ why = "old failure"  /\ Failing(i) /\ ui'.error /\ loads[i].overtaken

Ends(i) ==
  /\ Ended(i, Applied(i)) /\ Shows(ui', i)
  /\ committed' = committed /\ Inherits /\ (Owing <=> Owing')
  /\ \A s \in Slots : calls[s] = None => calls'[s] = None
  /\ \/ /\ amiss' = {} /\ ui'.rows = Pages!Current /\ ~ui'.error
        /\ \A j \in Flight \ {i} : loads[j].data = None
     \/ amiss \subseteq amiss' /\ \A why : why \in amiss' <=> why \in amiss \/ Reason(i, why)

\* What Settle leaves on the screen, before the handler ends.
LEMMA EndedIs ==
  ASSUME ScreenTypes, NEW i \in Flight
  PROVE  LET load  == loads[i]
             after == IF Ignored(i) THEN ui
                      ELSE Pages!Lowered(IF Failing(i) THEN Pages!Disappointed(ui, load) ELSE Pages!Filled(ui, load), load)
         IN  Shows(after, i)
<1> DEFINE load == loads[i]
           sad  == Pages!Disappointed(ui, load)
           full == Pages!Filled(ui, load)
           low(u) == Pages!Lowered(u, load)
           after == IF Ignored(i) THEN ui ELSE low(IF Failing(i) THEN sad ELSE full)
<1>1. ui \in Screens /\ load \in Flights
  BY FlightIs DEF ScreenTypes
<1>2. CASE Ignored(i)
  <2>1. after = ui
    BY <1>2
  <2>2. ~Applied(i) /\ ~Failing(i)
    BY <1>2 DEF Applied, Failing
  <2>3. Shows(ui, i)
    BY <1>1, <1>2, <2>2 DEF Shows, Alike
  <2> QED
    BY <2>1, <2>3
<1>3. CASE Failing(i)
  <2>1. /\ sad \in Screens /\ sad.query = ui.query /\ sad.open = ui.open
        /\ sad.rows \in {ui.rows, None} /\ sad.loaded = ui.loaded
        /\ (ui.error => sad.error) /\ (Pages!Loader.tells = "always" => sad.error)
        /\ (~sad.error => sad = ui)
        /\ sad.loading = ui.loading /\ sad.fetching = ui.fetching
    BY <1>1, DisappointedIs
  <2> HIDE DEF sad
  <2> DEFINE v == Pages!Lowered(sad, load)
  <2>2. /\ v \in Screens /\ v.query = sad.query /\ v.rows = sad.rows /\ v.open = sad.open
        /\ v.loaded = sad.loaded /\ v.error = sad.error
        /\ v.loading <=> sad.loading /\ ~(Pages!Loud(load.initial) \/ Pages!Loader.lowers = "both")
        /\ v.fetching <=> sad.fetching /\ ~(Pages!Quiet(load.initial) \/ Pages!Loader.lowers = "both")
    BY <2>1, LoweredIs
  <2> HIDE DEF v
  <2>3. ~Ignored(i) /\ ~Applied(i)
    BY <1>3 DEF Failing, Applied
  <2>4. Shows(v, i)
    BY <1>3, <2>1, <2>2, <2>3 DEF Shows
  <2> QED
    BY <1>3, <2>3, <2>4 DEF v, sad
<1>4. CASE Applied(i)
  <2>0. load.data # None
    BY <1>4 DEF Applied
  <2>1. /\ full \in Screens /\ full.query = ui.query /\ full.open = ui.open
        /\ full.rows = [query |-> load.query, has |-> load.data.has]
        /\ full.loaded /\ (full.error <=> ui.error /\ ~Pages!Loader.absolves)
        /\ full.loading = ui.loading /\ full.fetching = ui.fetching
    BY <1>1, <2>0, FilledIs
  <2> HIDE DEF full
  <2> DEFINE v == Pages!Lowered(full, load)
  <2>2. /\ v \in Screens /\ v.query = full.query /\ v.rows = full.rows /\ v.open = full.open
        /\ v.loaded = full.loaded /\ v.error = full.error
        /\ v.loading <=> full.loading /\ ~(Pages!Loud(load.initial) \/ Pages!Loader.lowers = "both")
        /\ v.fetching <=> full.fetching /\ ~(Pages!Quiet(load.initial) \/ Pages!Loader.lowers = "both")
    BY <2>1, LoweredIs
  <2> HIDE DEF v
  <2>3. ~Ignored(i) /\ ~Failing(i)
    BY <1>4 DEF Failing, Applied
  <2>4. Shows(v, i)
    BY <1>4, <2>1, <2>2, <2>3 DEF Shows
  <2> QED
    BY <1>4, <2>3, <2>4 DEF v, full
<1>5. Ignored(i) \/ Failing(i) \/ Applied(i)
  BY DEF Applied, Failing
<1> QED
  BY <1>2, <1>3, <1>4, <1>5, Zenon

\* The handler that awaited it takes its flag down.
LEMMA ShowsFinished ==
  ASSUME NEW u, NEW i, Shows(u, i), NEW call, ui \in Screens
  PROVE  LET v == Pages!Finished(u, call) IN
         Shows(v, i) /\ v.rows = u.rows /\ (v.error <=> u.error)
<1> DEFINE v == Pages!Finished(u, call)
<1>1. u \in Screens
  BY DEF Shows
<1>2. v \in Screens /\ Alike(v, u) /\ v.open = u.open
  BY <1>1, FinishedIs
<1> HIDE DEF v
<1>3. Shows(v, i) /\ v.rows = u.rows /\ (v.error <=> u.error)
  BY <1>1, <1>2 DEF Shows, Alike, Screens
<1> QED
  BY <1>3 DEF v

\* A load ends, and with it the handler that waited for it.
LEMMA SettleStep ==
  ASSUME PageTypes, NEW i \in DOMAIN loads, Pages!Settle(i)
  PROVE  PageTypes' /\ page' = page /\ i \in Flight /\ Ends(i)
<1> DEFINE load  == loads[i]
           after == IF Ignored(i) THEN ui
                    ELSE Pages!Lowered(IF Failing(i) THEN Pages!Disappointed(ui, load) ELSE Pages!Filled(ui, load), load)
           reasons == {why \in {"out of order"} : Applied(i) /\ load.behind}
                        \cup {why \in {"old query"} : Applied(i) /\ load.query # ui.query}
                        \cup {why \in {"untold"} : Failing(i) /\ ~after.error}
                        \cup {why \in {"old failure"} : Failing(i) /\ after.error /\ load.overtaken}
           s == load.slot
<1>1. /\ page' = page /\ fetches' = fetches /\ committed' = committed
      /\ ui' = IF s = 0 THEN after ELSE Pages!Finished(after, calls[s])
      /\ calls' = IF s = 0 THEN calls ELSE [calls EXCEPT ![s] = None]
      /\ amiss' = IF after.rows = Pages!Current /\ ~after.error /\ \A j \in DOMAIN loads \ {i} : loads[j].data = None
                  THEN {} ELSE amiss \cup reasons
  BY Zenon DEF Pages!Settle, Applied, Failing, Ignored, Pages!Failed
<1>2. ScreenTypes /\ NewIsOffered /\ Awaited /\ ui \in Screens /\ loads \in Seq(Flights) /\ DOMAIN loads = Flight
  BY FlightIs DEF PageTypes, ScreenTypes
<1>3. i \in Flight /\ Ended(i, Applied(i)) /\ load \in Flights
  BY <1>2, LoadEnds, FlightIs
<1>4. Shows(after, i)
  BY <1>2, <1>3, EndedIs, Zenon
<1> HIDE DEF after
<1>5. Shows(ui', i) /\ ui'.rows = after.rows /\ (ui'.error <=> after.error)
  BY <1>1, <1>2, <1>4, ShowsFinished
<1>6. s \in Slots \cup {0} /\ (s # 0 => At(s, "loading"))
  BY <1>2, <1>3 DEF Flights, Awaited
<1>7. /\ calls' \in [Slots -> {None} \cup Progress]
      /\ \A t \in Slots : t # s => Kept(t)
      /\ s # 0 => calls'[s] = None
  <2> HIDE DEF s
  <2>1. CASE s = 0
    <3>1. calls' = calls
      BY <1>1, <2>1
    <3> QED
      BY <1>2, <2>1, <3>1, CallsStay
  <2>2. CASE s # 0
    <3>1. s \in Slots /\ calls' = [calls EXCEPT ![s] = None]
      BY <1>1, <1>6, <2>2
    <3> QED
      BY <1>2, <3>1, CallEnds
  <2> QED
    BY <2>1, <2>2
<1>8. Inherits /\ (Owing <=> Owing') /\ \A t \in Slots : calls[t] = None => calls'[t] = None
  <2>1. \A t \in Slots : t = s => calls'[t] = None /\ ~At(t, "done") /\ ~At(t, "fetching")
    BY <1>6, <1>7, PageAssumption DEF At
  <2>2. Inherits
    BY <1>7, <2>1 DEF Inherits, Kept, SameCall
  <2>3. \A t \in Slots, stage \in {"done", "fetching"} : At(t, stage) <=> At(t, stage)'
    BY <1>7, <2>1 DEF At, Kept
  <2>4. Owing <=> Owing'
    BY <2>3 DEF Owing
  <2> QED
    BY <1>7, <2>1, <2>2, <2>4 DEF Kept
<1>9. Awaited'
  <2> DEFINE from(j) == IF j < i THEN j ELSE j + 1
  <2>1. Len(loads) \in Nat /\ i \in 1..Len(loads) /\ Len(loads') = Len(loads) - 1
    BY <1>2, <1>3, FlightIs DEF Ended, Flight
  <2>2. \A j \in Flight' : from(j) \in Flight /\ from(j) # i /\ loads'[j].slot = loads[from(j)].slot
    BY <1>3, <2>1 DEF Flight, Ended, SameLoad
  <2>3. \A j, k \in Flight' : from(j) = from(k) => j = k
    BY <2>1 DEF Flight
  <2> HIDE DEF from
  <2>4. \A j \in Flight' : loads'[j].slot # 0 => loads'[j].slot # s /\ loads'[j].slot \in Slots /\ At(loads'[j].slot, "loading")
    BY <1>2, <1>3, <2>2, FlightIs DEF Awaited, Flights
  <2>5. \A f \in fetches : f.slot # 0 => f.slot # s /\ f.slot \in Slots /\ At(f.slot, "fetching")
    BY <1>2, <1>6 DEF Awaited, At, ScreenTypes, Inquiries
  <2>6. \A t \in Slots, stage \in {"loading", "fetching"} :
          t # s /\ At(t, stage) => calls'[t] # None /\ calls'[t].stage = stage
    BY <1>7 DEF At, Kept
  <2>7. \A j, k \in Flight' : loads'[j].slot # 0 /\ loads'[j].slot = loads'[k].slot => j = k
    BY <1>2, <2>2, <2>3 DEF Awaited
  <2>8. \A j \in Flight' : loads'[j].slot # 0 => calls'[loads'[j].slot] # None /\ calls'[loads'[j].slot].stage = "loading"
    BY <2>4, <2>6
  <2>9. \A f \in fetches : f.slot # 0 => calls'[f.slot] # None /\ calls'[f.slot].stage = "fetching"
    BY <2>5, <2>6
  <2> QED
    BY <1>1, <1>2, <2>7, <2>8, <2>9 DEF Awaited, At
<1>10. PageTypes'
  <2>1. \A t \in Slots : calls'[t] # None => Proper(calls'[t], committed')
    <3> SUFFICES ASSUME NEW t \in Slots, calls'[t] # None PROVE Proper(calls'[t], committed')
      OBVIOUS
    <3>1. t # s
      BY <1>6, <1>7, PageAssumption
    <3> QED
      BY <1>1, <1>7, <3>1 DEF Kept
  <2>2. \A d \in DOMAIN Pages!Dialogs : ui'.open[d] = "new" => d \in DOMAIN Pages!Layout.offers
    BY <1>2, <1>5 DEF Shows, NewIsOffered
  <2> QED
    BY <1>1, <1>2, <1>3, <1>5, <1>7, <1>9, <2>1, <2>2, TypesKept DEF ScreenTypes, Ended, Shows
<1>11. \/ /\ amiss' = {} /\ ui'.rows = Pages!Current /\ ~ui'.error
          /\ \A j \in Flight \ {i} : loads[j].data = None
       \/ amiss \subseteq amiss' /\ \A why : why \in amiss' <=> why \in amiss \/ Reason(i, why)
  <2>1. \A why : why \in reasons <=> Reason(i, why)
    BY <1>5 DEF Reason
  <2> HIDE DEF reasons
  <2>2. CASE after.rows = Pages!Current /\ ~after.error /\ \A j \in DOMAIN loads \ {i} : loads[j].data = None
    BY <1>1, <1>2, <1>5, <2>2
  <2>3. CASE amiss' = amiss \cup reasons
    BY <2>1, <2>3
  <2> QED
    BY <1>1, <2>2, <2>3
<1> QED
  BY <1>1, <1>3, <1>5, <1>8, <1>10, <1>11 DEF Ends

-----------------------------------------------------------------------------
(* A step of a page.                                                       *)

Change == Effect \/ \E i \in Flight : Ends(i)

\* Nothing happens.
LEMMA StutterStep ==
  ASSUME PageTypes, UNCHANGED pageVars
  PROVE  PageTypes' /\ page' = page /\ Effect
<1>1. /\ page' = page /\ ui' = ui /\ loads' = loads /\ calls' = calls /\ fetches' = fetches
      /\ committed' = committed /\ amiss' = amiss
  BY DEF pageVars
<1>2. ScreenTypes /\ NewIsOffered /\ Awaited
  BY DEF PageTypes
<1>3. ui' \in Screens /\ Alike(ui', ui)
  BY <1>1, <1>2 DEF ScreenTypes, Alike
<1>4. \A d \in DOMAIN Pages!Dialogs : ui'.open[d] = "new" => d \in DOMAIN Pages!Layout.offers
  BY <1>1, <1>2 DEF NewIsOffered
<1>5. fetches' \subseteq Inquiries /\ \A f, g \in fetches' : f.slot # 0 /\ f.slot = g.slot => f = g
  BY <1>1, <1>2 DEF ScreenTypes, Awaited
<1> QED
  BY <1>1, <1>3, <1>4, <1>5, DialogStep

\* Whatever happens.
LEMMA NextStep ==
  ASSUME PageTypes, Pages!Next
  PROVE  PageTypes' /\ page' = page /\ Change
<1>1. ASSUME NEW i \in DOMAIN loads, Pages!Served(i) PROVE PageTypes' /\ page' = page /\ Change
  BY <1>1, ServedStep DEF Change
<1>2. ASSUME NEW i \in DOMAIN loads, Pages!Settle(i) PROVE PageTypes' /\ page' = page /\ Change
  BY <1>2, SettleStep DEF Change
<1>3. ASSUME NEW c \in {"filter", "pager", "search"}, Pages!Ask(c) PROVE PageTypes' /\ page' = page /\ Change
  BY <1>3, AskStep DEF Change
<1>4. ASSUME NEW c \in {"retry", "retry quietly", "refresh"}, Pages!Reload(c) PROVE PageTypes' /\ page' = page /\ Change
  BY <1>4, ReloadStep DEF Change
<1>5. ASSUME NEW d \in DOMAIN Pages!Dialogs, Pages!CloseDialog(d) PROVE PageTypes' /\ page' = page /\ Change
  BY <1>5, LeaveStep DEF Change, Pages!CloseDialog
<1>6. ASSUME NEW d \in DOMAIN Pages!Dialogs, Pages!FetchAgain(d) PROVE PageTypes' /\ page' = page /\ Change
  BY <1>6, FetchAgainStep DEF Change
<1>7. ASSUME NEW d \in DOMAIN Pages!Dialogs, NEW x \in Things \cup {"new"}, Pages!OpenDialog(d, x)
      PROVE  PageTypes' /\ page' = page /\ Change
  BY <1>7, OpenStep DEF Change
<1>8. ASSUME NEW d \in DOMAIN Pages!Dialogs, NEW e \in DOMAIN Pages!Dialogs[d].offers, Pages!Replace(d, e)
      PROVE  PageTypes' /\ page' = page /\ Change
  BY <1>8, ReplaceStep DEF Change
<1>9. ASSUME Pages!Escape PROVE PageTypes' /\ page' = page /\ Change
  BY <1>9, LeaveStep DEF Change, Pages!Escape
<1>10. ASSUME NEW f \in fetches, NEW answered \in BOOLEAN, Pages!Receive(f, answered)
       PROVE  PageTypes' /\ page' = page /\ Change
  BY <1>10, ReceiveStep DEF Change
<1>11. ASSUME NEW act \in DOMAIN Pages!Acts, Pages!Start(act, {}) PROVE PageTypes' /\ page' = page /\ Change
  BY <1>11, StartStep DEF Change
<1>12. ASSUME NEW act \in DOMAIN Pages!Acts, NEW d \in Pages!Open, Pages!Start(act, {d})
       PROVE  PageTypes' /\ page' = page /\ Change
  BY <1>12, StartStep DEF Change
<1>13. ASSUME NEW s \in Slots, Pages!Commit(s) PROVE PageTypes' /\ page' = page /\ Change
  BY <1>13, CommitStep DEF Change
<1>14. ASSUME NEW s \in Slots, Pages!Refuse(s) PROVE PageTypes' /\ page' = page /\ Change
  BY <1>14, RefuseStep DEF Change
<1>15. ASSUME NEW s \in Slots, Pages!Answered(s) PROVE PageTypes' /\ page' = page /\ Change
  BY <1>15, AnsweredStep DEF Change
<1>16. ASSUME NEW s \in Slots, Pages!Refused(s) PROVE PageTypes' /\ page' = page /\ Change
  BY <1>16, RefusedStep DEF Change
<1> QED
  BY <1>1, <1>2, <1>3, <1>4, <1>5, <1>6, <1>7, <1>8, <1>9, <1>10, <1>11, <1>12, <1>13, <1>14, <1>15, <1>16, ZenonT(60)
     DEF Pages!Next

\* Before such a page shows anything it can only load.
LEMMA BlankStep ==
  ASSUME PageTypes, Sober, Blank, Pages!Next
  PROVE  /\ fetches' = fetches /\ ui'.open = ui.open /\ (ui'.rows = None \/ ui'.loaded)
         /\ \A s \in Slots : calls'[s] = None
<1>1. /\ ui.rows = None /\ Pages!Open = {} /\ fetches = {} /\ \A s \in Slots : calls[s] = None
  BY DEF Sober
<1>2. ScreenTypes /\ page \in DOMAIN Design /\ ui \in Screens /\ DOMAIN loads = Flight
  BY FlightIs DEF PageTypes, ScreenTypes
<1>3. /\ Asked \cap (DOMAIN Pages!Layout.offers \cup DOMAIN Pages!List) = {}
      /\ DOMAIN Pages!Layout.offers \subseteq {"retry"}
      /\ "retry" \notin DOMAIN Pages!Acts \cup DOMAIN Pages!Dialogs
  BY <1>2, OfThePage DEF Blank, Picky
<1>4. /\ \A c : ~Pages!ListOffers(c)
      /\ \A c \in DOMAIN Pages!Acts \cup DOMAIN Pages!Dialogs : ~Pages!PageOffers(c)
  BY <1>1, <1>3 DEF Pages!ListOffers, Pages!PageOffers
<1>5. \/ \E i \in DOMAIN loads : Pages!Served(i) \/ Pages!Settle(i)
      \/ \E c \in {"retry", "retry quietly", "refresh"} : Pages!Reload(c)
  <2>1. ASSUME NEW c \in {"filter", "pager", "search"}, Pages!Ask(c) PROVE FALSE
    <3>1. Pages!PageOffers(c) \/ c \in DOMAIN Pages!Layout.offers
      BY <1>4, <2>1, Zenon DEF Pages!Ask
    <3>2. c \in DOMAIN Pages!Layout.offers
      BY <3>1 DEF Pages!PageOffers
    <3> QED
      BY <1>3, <3>2
  <2>2. ASSUME NEW d, Pages!CloseDialog(d) PROVE FALSE
    BY <1>1, <2>2, Zenon DEF Pages!CloseDialog
  <2>3. ASSUME NEW d, Pages!FetchAgain(d) PROVE FALSE
    BY <1>1, <2>3, Zenon DEF Pages!FetchAgain
  <2>4. ASSUME NEW d \in DOMAIN Pages!Dialogs, NEW x, Pages!OpenDialog(d, x) PROVE FALSE
    BY <1>4, <2>4, Zenon DEF Pages!OpenDialog
  <2>5. ASSUME NEW d, NEW e, Pages!Replace(d, e) PROVE FALSE
    BY <1>1, <2>5, Zenon DEF Pages!Replace, Pages!DialogOffers
  <2>6. ASSUME Pages!Escape PROVE FALSE
    <3>1. {d \in Pages!Open \cap DOMAIN Pages!Keys : Pages!Free(Pages!Keys[d])} # {}
      BY <2>6, Zenon DEF Pages!Escape, Pages!Leave
    <3> QED
      BY <1>1, <3>1
  <2>7. ASSUME NEW s \in Slots, Pages!Commit(s) \/ Pages!Refuse(s) \/ Pages!Answered(s) \/ Pages!Refused(s) PROVE FALSE
    BY <1>1, <2>7, Zenon DEF Pages!Commit, Pages!Refuse, Pages!Answered, Pages!Refused
  <2> QED
    BY <1>1, <1>4, <2>1, <2>2, <2>3, <2>4, <2>5, <2>6, <2>7, ZenonT(60) DEF Pages!Next
<1>6. ASSUME NEW i \in DOMAIN loads, Pages!Served(i) PROVE fetches' = fetches /\ ui' = ui /\ calls' = calls
  BY <1>6, Zenon DEF Pages!Served
<1>7. ASSUME NEW i \in DOMAIN loads, Pages!Settle(i)
      PROVE  /\ fetches' = fetches /\ ui'.open = ui.open /\ (ui'.rows = None \/ ui'.loaded)
             /\ \A s \in Slots : calls'[s] = None
  <2>1. fetches' = fetches
    BY <1>7, Zenon DEF Pages!Settle
  <2>2. i \in Flight /\ Ends(i)
    BY <1>7, SettleStep
  <2>3. Shows(ui', i) /\ \A s \in Slots : calls'[s] = None
    BY <1>1, <2>2 DEF Ends
  <2>4. Ignored(i) \/ Failing(i) \/ Applied(i)
    BY DEF Applied, Failing
  <2> QED
    BY <1>1, <2>1, <2>3, <2>4 DEF Shows, Alike
<1>8. ASSUME NEW c \in {"retry", "retry quietly", "refresh"}, Pages!Reload(c)
      PROVE  fetches' = fetches /\ ui'.open = ui.open /\ ui'.rows = ui.rows /\ calls' = calls
  <2> DEFINE initial == c = "retry"
  <2>1. fetches' = fetches /\ calls' = calls /\ Pages!Load(ui, initial, ui.query, 0)
    BY <1>8, Zenon DEF Pages!Reload
  <2>2. initial \in BOOLEAN /\ ui.query \in Queries
    BY <1>2 DEF Screens
  <2> HIDE DEF initial
  <2>3. Raises(ui', ui, initial)
    BY <1>2, <2>1, <2>2, LoadIs
  <2> QED
    BY <2>1, <2>3 DEF Raises
<1> QED
  BY <1>1, <1>5, <1>6, <1>7, <1>8

\* The races by the pages they are known for.
LEMMA ExcusedIs ==
  /\ DOMAIN Pages!Excused = {"lost answer", "out of order", "old query", "untold", "old failure"}
  /\ Pages!Excused["lost answer"] = DOMAIN Design
  /\ Pages!Excused["old query"] = Pages!Racing \cup {"habits"}
  /\ Pages!Excused["untold"] = Pages!SilentAtFirst
  /\ \A why \in {"out of order", "old failure"} : Pages!Excused[why] = Pages!Racing
BY DEF Pages!Excused

-----------------------------------------------------------------------------
(* What a step keeps, one part of PageInv after the other.                 *)

\* A page without handlers has none in progress.
LEMMA Handled ==
  ASSUME ScreenTypes, NEW s \in Slots, calls[s] # None
  PROVE  DOMAIN Pages!Acts # {}
BY DEF ScreenTypes, Proper

\* Where an earlier load is, once one has ended.
Was(i, j) == IF j < i THEN j ELSE j + 1

\* The loads that are left are the others, in their order.
LEMMA WasIs ==
  ASSUME ScreenTypes, NEW i \in Flight, NEW taken, Ended(i, taken)
  PROVE  /\ Len(loads) \in Nat /\ Len(loads') = Len(loads) - 1 /\ i \in 1..Len(loads)
         /\ loads' \in Seq(Flights)
         /\ \A j \in Flight' :
              /\ Was(i, j) \in Flight /\ Was(i, j) # i
              /\ SameLoad(loads'[j], loads[Was(i, j)])
              /\ (loads'[j].overtaken <=> loads[Was(i, j)].overtaken)
              /\ loads'[j].data = loads[Was(i, j)].data
              /\ (loads'[j].behind <=> loads[Was(i, j)].behind \/ (j < i /\ taken))
         /\ i < Len(loads)  => Len(loads') # 0 /\ Was(i, Len(loads')) = Len(loads) /\ ~(Len(loads') < i)
         /\ \A k \in Flight : k # i => \E j \in Flight' : Was(i, j) = k
<1>1. Len(loads) \in Nat /\ Len(loads') = Len(loads) - 1 /\ i \in 1..Len(loads)
  BY FlightIs DEF ScreenTypes, Ended, Flight
<1>2. \A j \in Flight' : Was(i, j) \in Flight /\ Was(i, j) # i /\ j \in 1..(Len(loads) - 1)
  BY <1>1 DEF Flight, Was
<1>3. i < Len(loads) => Len(loads') # 0 /\ Was(i, Len(loads')) = Len(loads) /\ ~(Len(loads') < i)
  BY <1>1 DEF Was
<1>4. \A k \in Flight : k # i => \E j \in Flight' : Was(i, j) = k
  <2> SUFFICES ASSUME NEW k \in Flight, k # i PROVE \E j \in Flight' : Was(i, j) = k
    OBVIOUS
  <2>1. CASE k < i
    <3>1. k \in Flight' /\ Was(i, k) = k
      BY <1>1, <2>1 DEF Flight, Was
    <3> QED
      BY <3>1
  <2>2. CASE i < k
    <3>1. (k - 1) \in Flight' /\ Was(i, k - 1) = k
      BY <1>1, <2>2 DEF Flight, Was
    <3> QED
      BY <3>1
  <2> QED
    BY <1>1, <2>1, <2>2 DEF Flight
<1> QED
  BY <1>1, <1>2, <1>3, <1>4 DEF Ended, Was

\* Without a load in flight there is none.
LEMMA NoLoads ==
  ASSUME loads \in Seq(Flights)
  PROVE  loads = << >> <=> Len(loads) = 0
BY EmptySeq, LenProperties

\* The first of no others.
LEMMA FirstBegun ==
  ASSUME Len(loads) = 0, NEW initial, NEW query, NEW slot, Begun(initial, query, slot)
  PROVE  Len(loads') = 1 /\ ~Newest'.overtaken
BY DEF Begun, Newest

\* A load that begins overtakes the others.
LEMMA OrderedKept ==
  ASSUME PageTypes, Ordered, Change
  PROVE  Ordered'
<1>1. ScreenTypes /\ Len(loads) \in Nat
  BY FlightIs DEF PageTypes, ScreenTypes
<1>2. CASE Stays \/ Commits
  BY <1>2 DEF Stays, Commits, Ordered, Flight
<1>3. CASE Replies
  BY <1>3 DEF Replies, Replied, Ordered, Flight
<1>4. CASE Begins
  <2>1. PICK initial, query, slot : Begun(initial, query, slot)
    BY <1>4 DEF Begins
  <2>2. \A i \in Flight' : i \in Flight \/ i = Len(loads) + 1
    BY <1>1, <2>1 DEF Begun, Flight
  <2> QED
    BY <1>1, <2>1, <2>2 DEF Begun, Ordered, Flight
<1>5. ASSUME NEW i \in Flight, Ends(i) PROVE Ordered'
  <2>1. Ended(i, Applied(i))
    BY <1>5 DEF Ends
  <2>2. \A j \in Flight' : (j < Len(loads') => Was(i, j) < Len(loads)) /\ (j < i => Was(i, j) < Len(loads))
    BY <1>1, <2>1, WasIs DEF Was, Flight
  <2> QED
    BY <1>1, <2>1, <2>2, WasIs DEF Ordered
<1> QED
  BY <1>2, <1>3, <1>4, <1>5 DEF Change, Effect

\* "refresh" waits for the load in flight, and there is no failure beside it.
LEMMA AloneKept ==
  ASSUME PageTypes, PageTypes', page' = page, Alone, Change
  PROVE  Alone'
<1> SUFFICES ASSUME page \in Single, loads' # << >>
             PROVE  /\ Len(loads') = 1 /\ ~Newest'.overtaken /\ ~ui'.error
                    /\ IF Pages!Loader.raises = "always" THEN ui'.loading ELSE ui'.loading \/ ui'.fetching
  BY SamePage DEF Alone
<1>1. /\ ScreenTypes /\ Len(loads) \in Nat /\ ui \in Screens /\ loads \in Seq(Flights)
      /\ (loads = << >> <=> Len(loads) = 0)
  BY FlightIs, NoLoads DEF PageTypes, ScreenTypes
<1>2. loads' \in Seq(Flights) /\ (loads' = << >> <=> Len(loads') = 0)
  BY EmptySeq, LenProperties DEF PageTypes, ScreenTypes
<1>3. /\ DOMAIN Pages!Acts = {}
      /\ DOMAIN Pages!Layout.offers \cup DOMAIN Pages!List \subseteq {"refresh", "retry quietly"}
      /\ Pages!Loader.raises \in {"kind", "always"}
      /\ "refresh" \in DOMAIN Pages!Layout.offers =>
           "loading" \in Pages!Layout.offers["refresh"]
           /\ (Pages!Loader.raises = "kind" => "fetching" \in Pages!Layout.offers["refresh"])
  BY <1>1, OfThePage DEF Single, ScreenTypes
<1>4. CASE Stays
  BY <1>4 DEF Stays, Alike, Alone, Newest
<1>5. CASE Commits
  BY <1>1, <1>3, <1>5, Handled DEF Commits
<1>6. CASE Replies
  BY <1>1, <1>2, <1>6 DEF Replies, Replied, Alone, Newest, Flight
<1>7. CASE Begins
  <2>1. PICK initial \in BOOLEAN, query \in Queries, slot \in Slots \cup {0} :
           /\ Begun(initial, query, slot)
           /\ ui'.loading <=> ui.loading \/ Pages!Loud(initial)
           /\ ui'.fetching <=> ui.fetching \/ Pages!Quiet(initial)
           /\ Asks(query) \/ Retries(initial, query) \/ Follows(initial, query)
    BY <1>7 DEF Begins
  <2>2. ~Asks(query)
    BY <1>3 DEF Asks, Asked
  <2>3. ~Follows(initial, query)
    BY <1>1, <1>3, Handled DEF Follows
  <2>4. PICK c \in {"retry", "retry quietly", "refresh"} :
          /\ c \in {"retry", "retry quietly"} => Pages!FailureShown
          /\ Pages!PageOffers(c)
    BY <2>1, <2>2, <2>3 DEF Retries
  <2>5. loads = << >>
    <3>1. CASE c = "refresh"
      <4>1. Pages!Flags \cap Pages!Layout.offers["refresh"] = {} /\ "refresh" \in DOMAIN Pages!Layout.offers
        BY <2>4, <3>1 DEF Pages!PageOffers, Pages!Free
      <4>2. (ui.loading => "loading" \in Pages!Flags) /\ (ui.fetching => "fetching" \in Pages!Flags)
        BY DEF Pages!Flags
      <4>3. ~ui.loading /\ (Pages!Loader.raises = "kind" => ~ui.fetching)
        BY <1>3, <4>1, <4>2
      <4> QED
        BY <1>3, <4>3 DEF Alone
    <3>2. CASE c # "refresh"
      BY <2>4, <3>2 DEF Alone, Pages!FailureShown
    <3> QED
      BY <3>1, <3>2
  <2>6. Len(loads') = 1 /\ ~Newest'.overtaken
    BY <1>1, <2>1, <2>5, FirstBegun
  <2>7. IF Pages!Loader.raises = "always" THEN ui'.loading ELSE ui'.loading \/ ui'.fetching
    BY <1>3, <2>1 DEF Pages!Loud, Pages!Quiet
  <2> QED
    BY <1>7, <2>6, <2>7 DEF Begins
<1>8. ASSUME NEW i \in Flight, Ends(i) PROVE FALSE
  <2>1. Len(loads') = Len(loads) - 1 /\ Len(loads) # 0
    BY <1>1, <1>8 DEF Ends, Ended, Flight
  <2> QED
    BY <1>1, <1>2, <2>1 DEF Alone
<1> QED
  BY <1>4, <1>5, <1>6, <1>7, <1>8 DEF Change, Effect

\* A page with handlers does not ask for another query here, and one that asks has none.
LEMMA QueriedKept ==
  ASSUME PageTypes, page' = page, Queried, Change
  PROVE  Queried'
<1> SUFFICES ASSUME page \in Steady
             PROVE  /\ \A i \in Flight' : ~loads'[i].overtaken => loads'[i].query = ui'.query
                    /\ DOMAIN Pages!Acts # {} => /\ \A i \in Flight' : loads'[i].query = ui'.query
                                                 /\ \A s \in Slots : calls'[s] # None => calls'[s].query = ui'.query
  BY SamePage DEF Queried
<1>1. ScreenTypes /\ Len(loads) \in Nat
  BY FlightIs DEF PageTypes, ScreenTypes
<1>2. /\ \A i \in Flight : ~loads[i].overtaken => loads[i].query = ui.query
      /\ DOMAIN Pages!Acts # {} => /\ \A i \in Flight : loads[i].query = ui.query
                                   /\ \A s \in Slots : calls[s] # None => calls[s].query = ui.query
  BY DEF Queried
<1>3. \/ DOMAIN Pages!Acts = {}
      \/ /\ Asked \cap (DOMAIN Pages!Layout.offers \cup DOMAIN Pages!List) = {}
         /\ \A a \in DOMAIN Pages!Acts : "steps back" \notin Pages!Acts[a].then
  BY <1>1, OfThePage DEF Steady, ScreenTypes
<1>4. Inherits /\ DOMAIN Pages!Acts # {} => \A s \in Slots : calls'[s] # None => calls'[s].query = ui.query
  BY <1>2 DEF Inherits
<1>5. CASE Stays \/ Commits
  BY <1>2, <1>4, <1>5 DEF Stays, Commits, Alike, Flight
<1>6. CASE Replies
  BY <1>2, <1>6 DEF Replies, Replied, SameLoad, Flight
<1>7. CASE Begins
  <2>1. PICK initial \in BOOLEAN, query \in Queries, slot \in Slots \cup {0} :
           /\ Begun(initial, query, slot)
           /\ Asks(query) \/ Retries(initial, query) \/ Follows(initial, query)
    BY <1>7 DEF Begins
  <2>2. Inherits
    BY <1>7 DEF Begins
  <2>3. \A i \in Flight' : \/ i \in Flight /\ loads'[i].query = loads[i].query /\ loads'[i].overtaken
                           \/ i = Len(loads) + 1 /\ loads'[i].query = query
    BY <1>1, <2>1 DEF Begun, Flight, SameLoad
  <2>4. DOMAIN Pages!Acts # {} => ui'.query = ui.query /\ query = ui.query
    BY <1>2, <1>3, <2>1 DEF Asks, Retries, Follows
  <2>5. query = ui'.query
    <3>1. CASE Asks(query) \/ Retries(initial, query)
      BY <3>1 DEF Asks, Retries
    <3>2. CASE Follows(initial, query)
      BY <1>1, <2>4, <3>2, Handled DEF Follows
    <3> QED
      BY <2>1, <3>1, <3>2
  <2> QED
    BY <1>2, <1>4, <2>2, <2>3, <2>4, <2>5
<1>8. ASSUME NEW i \in Flight, Ends(i)
      PROVE  /\ \A j \in Flight' : ~loads'[j].overtaken => loads'[j].query = ui'.query
             /\ DOMAIN Pages!Acts # {} => /\ \A j \in Flight' : loads'[j].query = ui'.query
                                          /\ \A s \in Slots : calls'[s] # None => calls'[s].query = ui'.query
  <2>1. Ended(i, Applied(i)) /\ Inherits /\ ui'.query = ui.query
    BY <1>8 DEF Ends, Shows
  <2>2. \A j \in Flight' : /\ Was(i, j) \in Flight /\ loads'[j].query = loads[Was(i, j)].query
                           /\ (loads'[j].overtaken <=> loads[Was(i, j)].overtaken)
    BY <1>1, <2>1, WasIs DEF SameLoad
  <2> QED
    BY <1>2, <1>4, <2>1, <2>2
<1> QED
  BY <1>5, <1>6, <1>7, <1>8 DEF Change, Effect

\* Each reason needs a page of its kind.
LEMMA ReasonsKept ==
  ASSUME PageTypes, page' = page, Ordered, Alone, Queried, Reasons, Change
  PROVE  Reasons'
<1>1. ScreenTypes /\ page \in DOMAIN Design /\ loads \in Seq(Flights) /\ Len(loads) \in Nat
  BY FlightIs DEF PageTypes, ScreenTypes
<1>2. CASE amiss' = amiss
  BY <1>2 DEF Reasons
<1>3. CASE amiss' = amiss \cup {"lost answer"}
  BY <1>1, <1>3, ExcusedIs DEF Reasons
<1>4. ASSUME NEW i \in Flight, Ends(i) PROVE Reasons'
  <2>1. page \in Single => ~loads[i].overtaken
    <3> SUFFICES ASSUME page \in Single PROVE ~loads[i].overtaken
      OBVIOUS
    <3>1. Len(loads) = 1 /\ ~Newest.overtaken
      BY <1>1, NoLoads DEF Alone, Flight
    <3> QED
      BY <3>1 DEF Newest, Flight
  <2>2. page \in Pages!Numbered => Pages!Loader.guarded
    BY <1>1, OfThePage
  <2>3. page \in Pages!Racing <=> page \notin Pages!Numbered /\ page \notin Single
    BY <1>1 DEF Pages!Racing, Single
  <2>4. loads[i].overtaken /\ ~Ignored(i) => page \in Pages!Racing
    BY <2>1, <2>2, <2>3 DEF Ignored
  <2> SUFFICES ASSUME NEW why \in amiss' PROVE why \in DOMAIN Pages!Excused /\ page \in Pages!Excused[why]
    BY DEF Reasons
  <2>5. CASE why \in amiss
    BY <2>5 DEF Reasons
  <2>6. CASE why = "out of order" /\ Applied(i) /\ loads[i].behind
    BY <2>4, <2>6, ExcusedIs DEF Ordered, Applied
  <2>7. CASE why = "old failure" /\ Failing(i) /\ ui'.error /\ loads[i].overtaken
    BY <2>4, <2>7, ExcusedIs DEF Failing
  <2>8. CASE why = "untold" /\ Failing(i) /\ ~ui'.error
    <3>1. Pages!Loader.tells # "always"
      BY <1>4, <2>8 DEF Ends, Shows
    <3> QED
      BY <1>1, <2>8, <3>1, OfThePage, ExcusedIs
  <2>9. CASE why = "old query" /\ Applied(i) /\ loads[i].query # ui.query
    <3>1. page \in Steady => loads[i].overtaken
      BY <2>9 DEF Queried
    <3>2. page \in Pages!Racing \/ page \notin Steady
      BY <2>4, <2>9, <3>1 DEF Applied
    <3> QED
      BY <1>1, <2>9, <3>2, ExcusedIs DEF Steady
  <2> QED
    BY <1>4, <2>5, <2>6, <2>7, <2>8, <2>9 DEF Ends, Reason
<1> QED
  BY <1>2, <1>3, <1>4 DEF Change, Effect, Stays, Begins, Replies, Commits

\* Without handlers there are no changes.
LEMMA UncommittedKept ==
  ASSUME PageTypes, page' = page, Uncommitted, Change
  PROVE  Uncommitted'
<1> SUFFICES ASSUME DOMAIN Pages!Acts = {}
             PROVE  committed' = {} /\ \A i \in Flight' : loads'[i].data = None \/ loads'[i].data.has = committed'
  BY SamePage DEF Uncommitted, Answering
<1>1. ScreenTypes /\ Len(loads) \in Nat
  BY FlightIs DEF PageTypes, ScreenTypes
<1>2. committed = {} /\ \A i \in Flight : loads[i].data = None \/ loads[i].data.has = committed
  BY DEF Uncommitted, Answering
<1>3. CASE Stays
  BY <1>2, <1>3 DEF Stays, Flight
<1>4. CASE Commits
  BY <1>1, <1>4, Handled DEF Commits
<1>5. CASE Replies
  BY <1>2, <1>5 DEF Replies, Replied, Flight
<1>6. CASE Begins
  <2>1. PICK initial, query, slot : Begun(initial, query, slot)
    BY <1>6 DEF Begins
  <2>2. \A i \in Flight' : i \in Flight \/ i = Len(loads) + 1
    BY <1>1, <2>1 DEF Begun, Flight
  <2>3. committed' = committed
    BY <1>6 DEF Begins
  <2> QED
    BY <1>2, <2>1, <2>2, <2>3 DEF Begun
<1>7. ASSUME NEW i \in Flight, Ends(i)
      PROVE  committed' = {} /\ \A j \in Flight' : loads'[j].data = None \/ loads'[j].data.has = committed'
  <2>1. Ended(i, Applied(i)) /\ committed' = committed
    BY <1>7 DEF Ends
  <2>2. \A j \in Flight' : Was(i, j) \in Flight /\ loads'[j].data = loads[Was(i, j)].data
    BY <1>1, <2>1, WasIs
  <2> QED
    BY <1>2, <2>1, <2>2
<1> QED
  BY <1>3, <1>4, <1>5, <1>6, <1>7 DEF Change, Effect

\* What the page is to show is the same after the end of a load.
LEMMA EndsFresh ==
  ASSUME PageTypes, page' = page, Ordered, Fresh, Uncommitted, NEW i \in Flight, Ends(i), amiss' = {}, ~Owing'
  PROVE  \/ loads' # << >> /\ ~Newest'.overtaken /\ Answering(Len(loads))'
         \/ Fine' /\ \A j \in Flight' : loads'[j].behind \/ (ui'.error /\ ~Pages!Loader.absolves) \/ Answering(j)'
<1>1. ScreenTypes /\ ui \in Screens /\ loads \in Seq(Flights) /\ loads # << >>
  BY FlightIs, NoLoads DEF PageTypes, ScreenTypes, Flight
<1>2. /\ Ended(i, Applied(i)) /\ Shows(ui', i) /\ committed' = committed /\ ~Owing
  BY DEF Ends
<1>3. /\ Len(loads) \in Nat /\ Len(loads') = Len(loads) - 1 /\ i \in 1..Len(loads) /\ loads' \in Seq(Flights)
      /\ \A j \in Flight' :
           /\ Was(i, j) \in Flight /\ Was(i, j) # i
           /\ (loads'[j].overtaken <=> loads[Was(i, j)].overtaken)
           /\ loads'[j].data = loads[Was(i, j)].data
           /\ (loads'[j].behind <=> loads[Was(i, j)].behind \/ (j < i /\ Applied(i)))
      /\ i < Len(loads) => Len(loads') # 0 /\ Was(i, Len(loads')) = Len(loads)
  BY <1>1, <1>2, WasIs
<1>4. Pages!Current' = Pages!Current
  BY <1>2 DEF Pages!Current, Shows
<1>5. \A j \in Flight' : Answering(Was(i, j)) => Answering(j)'
  BY <1>2, <1>3 DEF Answering
<1>6. CASE ui'.rows = Pages!Current /\ ~ui'.error /\ \A j \in Flight \ {i} : loads[j].data = None
  <2>1. Fine'
    BY <1>4, <1>6 DEF Fine
  <2>2. \A j \in Flight' : Answering(j)'
    BY <1>3, <1>6 DEF Answering
  <2> QED
    BY <2>1, <2>2
<1>7. CASE amiss \subseteq amiss' /\ \A why : why \in amiss' <=> why \in amiss \/ Reason(i, why)
  <2>1. amiss = {} /\ ~Reason(i, "out of order") /\ ~Reason(i, "old query") /\ ~Reason(i, "untold")
    BY <1>7
  <2>2. Failing(i) => ui'.error
    BY <2>1 DEF Reason
  <2>3. Applied(i) => ~loads[i].behind /\ loads[i].query = ui.query
    BY <2>1 DEF Reason
  <2>4. Applied(i) /\ Answering(i) => ui'.rows = Pages!Current
    BY <1>2, <2>3 DEF Shows, Applied, Answering, Pages!Current
  <2>5. Failing(i) => Fine' /\ \A j \in Flight' : (ui'.error /\ ~Pages!Loader.absolves) \/ Answering(j)'
    <3> SUFFICES ASSUME Failing(i)
                 PROVE  Fine' /\ \A j \in Flight' : (ui'.error /\ ~Pages!Loader.absolves) \/ Answering(j)'
      OBVIOUS
    <3>1. CASE ~Pages!Loader.absolves
      BY <2>2, <3>1 DEF Fine
    <3>2. CASE Pages!Loader.absolves
      <4>1. DOMAIN Pages!Acts = {}
        BY <1>1, <3>2, OfThePage DEF ScreenTypes
      <4>2. \A j \in Flight' : Answering(j)'
        BY <1>3, <1>5, <4>1 DEF Uncommitted
      <4> QED
        BY <2>2, <4>2 DEF Fine
    <3> QED
      BY <3>1, <3>2
  <2>6. CASE loads # << >> /\ ~Newest.overtaken /\ Answering(Len(loads))
    <3>1. CASE i < Len(loads)
      <4>1. Len(loads') \in Flight' /\ loads' # << >>
        BY <1>3, <3>1, EmptySeq, LenProperties DEF Flight
      <4>2. ~Newest'.overtaken /\ Answering(Len(loads))'
        <5> DEFINE n == Len(loads')
        <5>1. n \in Flight' /\ Was(i, n) = Len(loads)
          BY <1>3, <3>1, <4>1
        <5>2. ~loads'[n].overtaken
          BY <1>3, <2>6, <5>1 DEF Newest
        <5>3. loads'[n].data = None \/ loads'[n].data.has = committed'
          BY <1>2, <1>3, <2>6, <5>1 DEF Answering
        <5> QED
          BY <5>2, <5>3 DEF Newest, Answering
      <4> QED
        BY <4>1, <4>2
    <3>2. CASE i = Len(loads)
      <4>1. ~loads[i].overtaken /\ Answering(i)
        BY <2>6, <3>2 DEF Newest
      <4>2. Failing(i) \/ Applied(i)
        BY <4>1 DEF Failing, Applied, Ignored
      <4>3. CASE Applied(i)
        <5>1. Fine'
          BY <1>4, <2>4, <4>1, <4>3 DEF Fine
        <5>2. \A j \in Flight' : loads'[j].behind
          BY <1>3, <3>2, <4>3 DEF Flight
        <5> QED
          BY <5>1, <5>2
      <4> QED
        BY <2>5, <4>2, <4>3
    <3> QED
      BY <1>3, <3>1, <3>2
  <2>7. CASE Fine /\ \A j \in Flight : loads[j].behind \/ (ui.error /\ ~Pages!Loader.absolves) \/ Answering(j)
    <3>1. CASE Ignored(i)
      <4>1. ui'.rows = ui.rows /\ (ui'.error <=> ui.error)
        BY <1>2, <3>1 DEF Shows, Alike
      <4> QED
        BY <1>3, <1>4, <1>5, <2>7, <4>1 DEF Fine
    <3>2. CASE Applied(i)
      <4>1. CASE ui.error /\ ~Pages!Loader.absolves
        <5>1. ui'.error
          BY <1>2, <3>2, <4>1 DEF Shows
        <5> QED
          BY <4>1, <5>1 DEF Fine
      <4>2. CASE ~(ui.error /\ ~Pages!Loader.absolves)
        <5>1. Answering(i)
          BY <2>3, <2>7, <3>2, <4>2
        <5>2. Fine'
          BY <1>4, <2>4, <3>2, <5>1 DEF Fine
        <5>3. \A j \in Flight' : loads'[j].behind \/ Answering(j)'
          BY <1>3, <1>5, <2>7, <4>2
        <5> QED
          BY <5>2, <5>3
      <4> QED
        BY <4>1, <4>2
    <3>3. Ignored(i) \/ Failing(i) \/ Applied(i)
      BY DEF Failing, Applied
    <3> QED
      BY <2>5, <3>1, <3>2, <3>3
  <2> QED
    BY <1>2, <2>1, <2>6, <2>7 DEF Fresh
<1> QED
  BY <1>6, <1>7 DEF Ends

\* The newest load brings what the server has, or the page shows that.
LEMMA FreshKept ==
  ASSUME PageTypes, page' = page, Ordered, Fresh, Uncommitted, Change
  PROVE  Fresh'
<1>1. ScreenTypes /\ ui \in Screens /\ loads \in Seq(Flights) /\ Len(loads) \in Nat
  BY FlightIs DEF PageTypes, ScreenTypes
<1>2. Pages!Loader' = Pages!Loader
  BY SamePage
<1>3. CASE Stays
  <2>1. ui'.rows = ui.rows /\ ui'.query = ui.query /\ (ui'.error <=> ui.error)
    BY <1>3 DEF Stays, Alike
  <2> QED
    BY <1>2, <1>3, <2>1 DEF Stays, Fresh, Fine, Pages!Current, Answering, Flight, Newest
<1>4. CASE Commits
  BY <1>4 DEF Commits, Fresh
<1>5. CASE Replies
  <2>1. PICK i \in Flight : Replied(i)
    BY <1>5 DEF Replies
  <2>2. ui' = ui /\ calls' = calls /\ committed' = committed /\ amiss' = amiss
    BY <1>5 DEF Replies
  <2>3. /\ Len(loads') = Len(loads) /\ Flight' = Flight
        /\ \A j \in Flight : (loads'[j].overtaken <=> loads[j].overtaken) /\ (loads'[j].behind <=> loads[j].behind)
    BY <2>1 DEF Replied, Flight
  <2>4. \A j \in Flight : Answering(j) => loads'[j].data = None \/ loads'[j].data.has = committed'
    BY <2>1, <2>2 DEF Replied, Answering
  <2>5. Owing' <=> Owing
    BY <2>2 DEF Owing, At
  <2>6. Fine' <=> Fine
    BY <2>2 DEF Fine, Pages!Current
  <2> SUFFICES ASSUME amiss' = {}, ~Owing'
               PROVE  \/ loads' # << >> /\ ~Newest'.overtaken /\ Answering(Len(loads))'
                      \/ Fine' /\ \A j \in Flight' : loads'[j].behind \/ (ui'.error /\ ~Pages!Loader.absolves) \/ Answering(j)'
    BY <1>2 DEF Fresh
  <2>7. CASE loads # << >> /\ ~Newest.overtaken /\ Answering(Len(loads))
    <3>1. Len(loads) \in Flight /\ loads' # << >>
      BY <1>1, <2>1, <2>7, NoLoads DEF Replied, Flight
    <3>2. ~loads'[Len(loads')].overtaken
      BY <2>3, <2>7, <3>1 DEF Newest
    <3>3. loads'[Len(loads')].data = None \/ loads'[Len(loads')].data.has = committed'
      BY <2>3, <2>4, <2>7, <3>1
    <3> QED
      BY <3>1, <3>2, <3>3 DEF Newest, Answering
  <2>8. CASE Fine /\ \A j \in Flight : loads[j].behind \/ (ui.error /\ ~Pages!Loader.absolves) \/ Answering(j)
    BY <2>2, <2>3, <2>4, <2>6, <2>8 DEF Answering
  <2> QED
    BY <2>2, <2>5, <2>7, <2>8 DEF Fresh
<1>6. CASE Begins
  <2>1. PICK initial, query, slot : Begun(initial, query, slot)
    BY <1>6 DEF Begins
  <2>2. Len(loads') = Len(loads) + 1 /\ loads' \in Seq(Flights) /\ loads' # << >>
    BY <1>1, <2>1, EmptySeq, LenProperties DEF Begun
  <2>3. ~loads'[Len(loads')].overtaken /\ loads'[Len(loads')].data = None
    BY <2>1, <2>2 DEF Begun
  <2> QED
    BY <2>2, <2>3 DEF Fresh, Newest, Answering
<1>7. ASSUME NEW i \in Flight, Ends(i) PROVE Fresh'
  BY <1>2, <1>7, EndsFresh DEF Fresh
<1> QED
  BY <1>3, <1>4, <1>5, <1>6, <1>7 DEF Change, Effect

\* The newest load after the end of one.
LEMMA NewestIsAfter ==
  ASSUME ScreenTypes, NEW i \in Flight, NEW taken, Ended(i, taken)
  PROVE  /\ i < Len(loads) =>
              /\ loads' # << >> /\ SameLoad(Newest', Newest) /\ (Newest'.overtaken <=> Newest.overtaken)
         /\ i = Len(loads) => Newest = loads[i] /\ (Ordered /\ loads' # << >> => Newest'.overtaken)
<1>1. /\ Len(loads) \in Nat /\ Len(loads') = Len(loads) - 1 /\ i \in 1..Len(loads) /\ loads' \in Seq(Flights)
      /\ \A j \in Flight' : /\ Was(i, j) \in Flight /\ SameLoad(loads'[j], loads[Was(i, j)])
                            /\ (loads'[j].overtaken <=> loads[Was(i, j)].overtaken)
      /\ i < Len(loads) => Len(loads') # 0 /\ Was(i, Len(loads')) = Len(loads)
  BY WasIs
<1>2. loads' # << >> <=> Len(loads') # 0
  BY <1>1, EmptySeq, LenProperties
<1>3. Len(loads') # 0 => Len(loads') \in Flight' /\ Was(i, Len(loads')) \in Flight
  BY <1>1 DEF Flight
<1>4. CASE i < Len(loads)
  <2> DEFINE n == Len(loads')
  <2>1. n \in Flight' /\ Was(i, n) = Len(loads) /\ loads' # << >>
    BY <1>1, <1>2, <1>3, <1>4
  <2>2. SameLoad(loads'[n], loads[Was(i, n)]) /\ (loads'[n].overtaken <=> loads[Was(i, n)].overtaken)
    BY <1>1, <2>1
  <2> QED
    BY <1>4, <2>1, <2>2 DEF Newest
<1>5. CASE i = Len(loads)
  <2>1. ASSUME Ordered, loads' # << >> PROVE Newest'.overtaken
    <3> DEFINE n == Len(loads')
    <3>1. n \in Flight' /\ Was(i, n) \in Flight /\ Was(i, n) < Len(loads)
      BY <1>1, <1>2, <1>3, <1>5, <2>1 DEF Was
    <3>2. loads'[n].overtaken
      BY <1>1, <2>1, <3>1 DEF Ordered
    <3> QED
      BY <3>2 DEF Newest
  <2> QED
    BY <1>5, <2>1 DEF Newest
<1> QED
  BY <1>1, <1>4, <1>5

\* An ignored answer was not the newest load's, and any other was.
LEMMA NewestAlone ==
  ASSUME ScreenTypes, Ordered, Pages!Loader.guarded, NEW i \in Flight
  PROVE  /\ i < Len(loads) => Ignored(i)
         /\ i = Len(loads) => (Ignored(i) <=> Newest.overtaken)
BY FlightIs DEF Ordered, Ignored, Newest, Flight, ScreenTypes

\* Where every answer is taken.
LEMMA SpinningUnguarded ==
  ASSUME PageTypes, Spinning, Change, page \notin Pages!Stuck, ~Pages!Loader.guarded
  PROVE  /\ ui'.loading => \E i \in Flight' : Pages!Loud(loads'[i].initial)
         /\ ui'.fetching => \E i \in Flight' : Pages!Quiet(loads'[i].initial)
<1>1. ScreenTypes /\ Len(loads) \in Nat
  BY FlightIs DEF PageTypes, ScreenTypes
<1>2. /\ ui.loading => \E i \in Flight : Pages!Loud(loads[i].initial)
      /\ ui.fetching => \E i \in Flight : Pages!Quiet(loads[i].initial)
  BY DEF Spinning
<1>3. \A x, y : (x <=> y) => (Pages!Loud(x) <=> Pages!Loud(y)) /\ (Pages!Quiet(x) <=> Pages!Quiet(y))
  BY DEF Pages!Loud, Pages!Quiet
<1>4. CASE Stays \/ Commits
  BY <1>2, <1>4 DEF Stays, Commits, Alike, Flight
<1>5. CASE Replies
  <2>1. PICK i \in Flight : Replied(i)
    BY <1>5 DEF Replies
  <2>2. Flight' = Flight /\ \A j \in Flight : loads'[j].initial <=> loads[j].initial
    BY <2>1 DEF Replied, SameLoad, Flight
  <2> QED
    BY <1>2, <1>3, <1>5, <2>2 DEF Replies
<1>6. CASE Begins
  <2>1. PICK initial, query, slot :
           /\ Begun(initial, query, slot)
           /\ ui'.loading <=> ui.loading \/ Pages!Loud(initial)
           /\ ui'.fetching <=> ui.fetching \/ Pages!Quiet(initial)
    BY <1>6 DEF Begins
  <2>2. /\ \A j \in Flight : j \in Flight' /\ (loads'[j].initial <=> loads[j].initial)
        /\ (Len(loads) + 1) \in Flight' /\ (loads'[Len(loads) + 1].initial <=> initial)
    BY <1>1, <2>1 DEF Begun, SameLoad, Flight
  <2> QED
    BY <1>2, <1>3, <2>1, <2>2
<1>7. ASSUME NEW i \in Flight, Ends(i)
      PROVE  /\ ui'.loading => \E j \in Flight' : Pages!Loud(loads'[j].initial)
             /\ ui'.fetching => \E j \in Flight' : Pages!Quiet(loads'[j].initial)
  <2>1. /\ Ended(i, Applied(i)) /\ ~Ignored(i)
        /\ ui'.loading  => ui.loading /\ ~Pages!Loud(loads[i].initial)
        /\ ui'.fetching => ui.fetching /\ ~Pages!Quiet(loads[i].initial)
    BY <1>7 DEF Ends, Shows, Ignored
  <2>2. \A k \in Flight : k # i => \E j \in Flight' : loads'[j].initial <=> loads[k].initial
    BY <1>1, <2>1, WasIs DEF SameLoad
  <2> QED
    BY <1>2, <1>3, <2>1, <2>2
<1> QED
  BY <1>4, <1>5, <1>6, <1>7 DEF Change, Effect

\* Where only the newest load's is.
LEMMA SpinningGuarded ==
  ASSUME PageTypes, PageTypes', page' = page, Ordered, Spinning, Sober, Change, page \notin Pages!Stuck, Pages!Loader.guarded
  PROVE  /\ ui'.loading /\ (Pages!Loader.raises = "kind" => ~ui'.loaded) =>
              loads' # << >> /\ ~Newest'.overtaken /\ Pages!Loud(Newest'.initial)
         /\ ui'.fetching => loads' # << >> /\ ~Newest'.overtaken /\ Pages!Quiet(Newest'.initial)
<1>1. /\ ScreenTypes /\ ui \in Screens /\ page \in DOMAIN Design /\ loads \in Seq(Flights) /\ Len(loads) \in Nat
      /\ (loads = << >> <=> Len(loads) = 0)
  BY FlightIs, NoLoads DEF PageTypes, ScreenTypes
<1>2. loads' \in Seq(Flights) /\ (loads' = << >> <=> Len(loads') = 0)
  BY EmptySeq, LenProperties DEF PageTypes, ScreenTypes
<1>3. /\ ui.loading /\ (Pages!Loader.raises = "kind" => ~ui.loaded) =>
           loads # << >> /\ ~Newest.overtaken /\ Pages!Loud(Newest.initial)
      /\ ui.fetching => loads # << >> /\ ~Newest.overtaken /\ Pages!Quiet(Newest.initial)
  BY DEF Spinning, NewestIs
<1>4. \A x, y : (x <=> y) => (Pages!Loud(x) <=> Pages!Loud(y)) /\ (Pages!Quiet(x) <=> Pages!Quiet(y))
  BY DEF Pages!Loud, Pages!Quiet
<1>5. CASE Stays
  BY <1>3, <1>5 DEF Stays, Alike, Newest
<1>6. CASE Commits
  BY <1>3, <1>6 DEF Commits, Newest
<1>7. CASE Replies
  <2>1. PICK i \in Flight : Replied(i)
    BY <1>7 DEF Replies
  <2>2. Len(loads') = Len(loads) /\ Len(loads) \in Flight
    BY <1>1, <2>1 DEF Replied, Flight
  <2>3. (Newest'.initial <=> Newest.initial) /\ (Newest'.overtaken <=> Newest.overtaken) /\ loads' # << >>
    BY <1>1, <1>2, <2>1, <2>2 DEF Replied, SameLoad, Newest, Flight
  <2> QED
    BY <1>3, <1>4, <1>7, <2>3 DEF Replies
<1>8. CASE Begins
  <2>1. PICK initial \in BOOLEAN, query \in Queries, slot \in Slots \cup {0} :
           /\ Begun(initial, query, slot)
           /\ ui'.loading <=> ui.loading \/ Pages!Loud(initial)
           /\ ui'.fetching <=> ui.fetching \/ Pages!Quiet(initial)
           /\ Asks(query) \/ Retries(initial, query) \/ Follows(initial, query)
    BY <1>8 DEF Begins
  <2>2. loads' # << >> /\ ~Newest'.overtaken /\ (Newest'.initial <=> initial)
    <3>1. Len(loads') = Len(loads) + 1
      BY <2>1 DEF Begun
    <3> QED
      BY <1>1, <1>2, <2>1, <3>1 DEF Begun, Newest
  <2>3. ui'.loaded = ui.loaded
    BY <1>8 DEF Begins
  <2>4. Pages!Loader.raises \in {"kind", "first", "always"}
    BY <1>1, OfThePage
  <2>5. /\ ui'.loading /\ (Pages!Loader.raises = "kind" => ~ui'.loaded) => Pages!Loud(initial)
        /\ ui'.fetching => Pages!Quiet(initial)
    <3>1. CASE Pages!Loader.raises = "always"
      BY <1>3, <2>1, <3>1 DEF Pages!Loud, Pages!Quiet
    <3>2. CASE Pages!Loader.raises # "always"
      <4>1. /\ Picky /\ DOMAIN Pages!Layout.offers \subseteq {"retry"}
            /\ Pages!Loader.raises # "kind" => DOMAIN Pages!Acts = {}
        BY <1>1, <3>2, OfThePage DEF Picky
      <4>2. ~Asks(query)
        BY <1>1, <3>2, OfThePage DEF Asks
      <4>3. CASE Retries(initial, query)
        <5>1. PICK c \in {"retry", "retry quietly", "refresh"} :
                /\ c \in {"retry", "retry quietly"} => Pages!FailureShown
                /\ Pages!PageOffers(c) /\ (initial <=> c = "retry")
          BY <4>3 DEF Retries
        <5>2. initial /\ ui.error
          BY <4>1, <5>1 DEF Pages!PageOffers, Pages!FailureShown
        <5>3. ~ui.fetching
          BY <1>3, <4>1, <5>2 DEF Sober
        <5> QED
          BY <2>1, <5>2, <5>3 DEF Pages!Loud, Pages!Quiet
      <4>4. CASE Follows(initial, query)
        <5>1. ~initial /\ DOMAIN Pages!Acts # {} /\ ~Blank
          BY <1>1, <4>4, Handled DEF Follows, Sober
        <5>2. Pages!Loader.raises = "kind" /\ ui.loaded
          BY <4>1, <5>1 DEF Blank
        <5> QED
          BY <2>1, <2>3, <5>1, <5>2 DEF Pages!Quiet
      <4> QED
        BY <2>1, <4>2, <4>3, <4>4
    <3> QED
      BY <3>1, <3>2
  <2> QED
    BY <1>4, <2>2, <2>5
<1>9. ASSUME NEW i \in Flight, Ends(i)
      PROVE  /\ ui'.loading /\ (Pages!Loader.raises = "kind" => ~ui'.loaded) =>
                  loads' # << >> /\ ~Newest'.overtaken /\ Pages!Loud(Newest'.initial)
             /\ ui'.fetching => loads' # << >> /\ ~Newest'.overtaken /\ Pages!Quiet(Newest'.initial)
  <2>1. Ended(i, Applied(i)) /\ Shows(ui', i)
    BY <1>9 DEF Ends
  <2>2. CASE i < Len(loads)
    <3>1. /\ loads' # << >> /\ (Newest'.initial <=> Newest.initial) /\ (Newest'.overtaken <=> Newest.overtaken)
      BY <1>1, <2>1, <2>2, NewestIsAfter DEF SameLoad
    <3>2. Alike(ui', ui)
      BY <1>1, <2>1, <2>2, NewestAlone DEF Shows
    <3> QED
      BY <1>3, <1>4, <3>1, <3>2 DEF Alike
  <2>3. CASE i = Len(loads)
    <3>1. Newest = loads[i] /\ (Ignored(i) <=> Newest.overtaken)
      BY <1>1, <2>3, NewestAlone DEF Newest
    <3>2. CASE Newest.overtaken
      BY <1>3, <2>1, <3>1, <3>2 DEF Shows, Alike
    <3>3. CASE ~Newest.overtaken
      <4>1. /\ ui'.loading  => ui.loading /\ ~Pages!Loud(Newest.initial)
            /\ ui'.fetching => ui.fetching /\ ~Pages!Quiet(Newest.initial)
        BY <2>1, <3>1, <3>3 DEF Shows
      <4>2. ~ui'.loaded => ~ui.loaded
        BY <2>1, <3>1, <3>3 DEF Shows, Failing, Applied
      <4> QED
        BY <1>3, <4>1, <4>2
    <3> QED
      BY <3>2, <3>3
  <2> QED
    BY <1>1, <2>2, <2>3 DEF Flight
<1> QED
  BY <1>5, <1>6, <1>7, <1>8, <1>9 DEF Change, Effect

\* Both kinds of page.
LEMMA SpinningKept ==
  ASSUME PageTypes, PageTypes', page' = page, Ordered, Spinning, Sober, Change
  PROVE  Spinning'
<1>1. Pages!Loader' = Pages!Loader
  BY SamePage
<1>2. CASE page \notin Pages!Stuck /\ ~Pages!Loader.guarded
  <2>1. /\ ui'.loading => \E i \in Flight' : Pages!Loud(loads'[i].initial)
        /\ ui'.fetching => \E i \in Flight' : Pages!Quiet(loads'[i].initial)
    BY <1>2, SpinningUnguarded
  <2> QED
    BY <1>1, <1>2, <2>1 DEF Spinning, Pages!Loud, Pages!Quiet
<1>3. CASE page \notin Pages!Stuck /\ Pages!Loader.guarded
  <2>1. /\ ui'.loading /\ (Pages!Loader.raises = "kind" => ~ui'.loaded) =>
              loads' # << >> /\ ~Newest'.overtaken /\ Pages!Loud(Newest'.initial)
        /\ ui'.fetching => loads' # << >> /\ ~Newest'.overtaken /\ Pages!Quiet(Newest'.initial)
    BY <1>3, SpinningGuarded
  <2> QED
    BY <1>1, <1>3, <2>1 DEF Spinning, NewestIs, Pages!Loud, Pages!Quiet
<1>4. CASE page \in Pages!Stuck
  BY <1>4 DEF Spinning, Pages!Stuck
<1> QED
  BY <1>2, <1>3, <1>4

\* A failure is older than the newest load.
LEMMA SoberKept ==
  ASSUME PageTypes, PageTypes', page' = page, Ordered, Sober, Change,
         Blank => /\ fetches' = fetches /\ ui'.open = ui.open /\ (ui'.rows = None \/ ui'.loaded)
                  /\ \A s \in Slots : calls'[s] = None
  PROVE  Sober'
<1>1. Pages!Loader' = Pages!Loader /\ Pages!Dialogs' = Pages!Dialogs /\ (Picky' <=> Picky)
  BY SamePage DEF Picky, Pages!Stuck
<1>2. ScreenTypes /\ ui \in Screens /\ loads \in Seq(Flights) /\ Len(loads) \in Nat
  BY FlightIs DEF PageTypes, ScreenTypes
<1>3. loads' \in Seq(Flights) /\ (loads' = << >> <=> Len(loads') = 0)
  BY EmptySeq, LenProperties DEF PageTypes, ScreenTypes
<1>4. Picky /\ ui'.error /\ loads' # << >> => Newest'.overtaken
  <2> SUFFICES ASSUME Picky, ui'.error, loads' # << >> PROVE Newest'.overtaken
    OBVIOUS
  <2>1. CASE Stays
    BY <2>1 DEF Stays, Alike, Sober, Newest
  <2>2. CASE Commits
    BY <2>2 DEF Commits, Sober, Newest
  <2>3. CASE Begins
    BY <2>3 DEF Begins
  <2>4. CASE Replies
    <3>1. PICK i \in Flight : Replied(i)
      BY <2>4 DEF Replies
    <3>2. Len(loads') = Len(loads) /\ Len(loads) \in Flight /\ loads # << >>
      BY <1>2, <3>1, NoLoads DEF Replied, Flight
    <3>3. Newest'.overtaken <=> Newest.overtaken
      BY <3>1, <3>2 DEF Replied, Newest
    <3> QED
      BY <2>4, <3>2, <3>3 DEF Replies, Sober
  <2>5. ASSUME NEW i \in Flight, Ends(i) PROVE Newest'.overtaken
    <3>1. Ended(i, Applied(i)) /\ Shows(ui', i) /\ Pages!Loader.guarded
      BY <2>5 DEF Ends, Picky
    <3>2. CASE i < Len(loads)
      <4>1. Newest'.overtaken <=> Newest.overtaken
        BY <1>2, <3>1, <3>2, NewestIsAfter
      <4>2. Alike(ui', ui) /\ loads # << >>
        BY <1>2, <3>1, <3>2, NewestAlone, NoLoads DEF Shows, Flight
      <4> QED
        BY <4>1, <4>2 DEF Alike, Sober
    <3>3. CASE i = Len(loads)
      BY <1>2, <3>1, <3>3, NewestIsAfter
    <3> QED
      BY <1>2, <3>2, <3>3 DEF Flight
  <2> QED
    BY <2>1, <2>2, <2>3, <2>4, <2>5 DEF Change, Effect
<1>5. Blank' => Blank /\ ~ui'.loaded
  <2>1. ui.loaded => ui'.loaded
    <3>1. CASE Effect
      BY <3>1 DEF Effect, Stays, Commits, Begins, Replies, Alike
    <3>2. ASSUME NEW i \in Flight, Ends(i) PROVE ui.loaded => ui'.loaded
      BY <3>2 DEF Ends, Shows, Alike, Failing, Applied
    <3> QED
      BY <3>1, <3>2 DEF Change
  <2> QED
    BY <1>1, <2>1 DEF Blank
<1>6. Blank' => /\ ui'.rows = None /\ Pages!Open' = {} /\ fetches' = {}
                /\ \A s \in Slots : calls'[s] = None
  <2> SUFFICES ASSUME Blank' PROVE /\ ui'.rows = None /\ Pages!Open' = {} /\ fetches' = {}
                                   /\ \A s \in Slots : calls'[s] = None
    OBVIOUS
  <2>1. Blank /\ ~ui'.loaded
    BY <1>5
  <2> QED
    BY <1>1, <2>1 DEF Sober, Pages!Open
<1> QED
  BY <1>1, <1>4, <1>6 DEF Sober

-----------------------------------------------------------------------------
\* A page that is mounted.
LEMMA InitPage == Pages!Init => PageInv
<1> SUFFICES ASSUME Pages!Init PROVE PageInv
  OBVIOUS
<1> DEFINE first == [initial |-> TRUE, query |-> ui.query, slot |-> 0, overtaken |-> FALSE, behind |-> FALSE, data |-> None]
           open   == [d \in DOMAIN Pages!Dialogs |-> None]
           detail == [d \in DOMAIN Pages!Dialogs |-> None]
           q0     == CHOOSE q \in Queries : TRUE
<1>1. /\ page \in DOMAIN Design
      /\ ui = [query |-> q0, rows |-> None, loading |-> TRUE, fetching |-> FALSE, loaded |-> FALSE, error |-> FALSE,
               busy |-> {}, open |-> open, detail |-> detail]
      /\ loads = << first >> /\ calls = [s \in Slots |-> None]
      /\ fetches = {} /\ committed = {} /\ amiss = {}
  BY Zenon DEF Pages!Init
<1>2. q0 \in Queries
  BY PageAssumption
<1>3. open \in Openings /\ detail \in Details /\ \A d \in DOMAIN Pages!Dialogs : open[d] = None
  BY DEF Openings, Details, Subjects
<1> HIDE DEF open, detail, q0
<1>4. /\ ui \in Screens /\ ui.query \in Queries /\ ui.rows = None /\ ui.loading /\ ~ui.fetching /\ ~ui.loaded /\ ~ui.error
      /\ ui.open = open
  BY <1>1, <1>2, <1>3 DEF Screens, Shown
<1>5. /\ first \in Flights /\ first.initial /\ first.query = ui.query /\ first.slot = 0
      /\ ~first.overtaken /\ ~first.behind /\ first.data = None
  BY <1>4 DEF Flights
<1> HIDE DEF first
<1>6. /\ loads \in Seq(Flights) /\ Len(loads) = 1 /\ loads # << >> /\ Flight = {1} /\ loads[1] = first /\ Newest = first
  BY <1>1, <1>5 DEF Flight, Newest
<1>7. \A s \in Slots : calls[s] = None
  BY <1>1
<1>8. calls \in [Slots -> {None} \cup Progress]
  BY <1>1
<1>9. ScreenTypes
  <2>1. fetches \subseteq Inquiries /\ committed \subseteq Nat /\ IsFiniteSet(committed)
    BY <1>1, FS_EmptySet
  <2> QED
    BY <1>1, <1>4, <1>6, <1>7, <1>8, <2>1 DEF ScreenTypes
<1>10. NewIsOffered /\ Awaited
  BY <1>1, <1>3, <1>4, <1>5, <1>6, PageAssumption DEF NewIsOffered, Awaited
<1>11. Ordered /\ Queried /\ Reasons /\ Fresh /\ Uncommitted
  BY <1>1, <1>5, <1>6, <1>7 DEF Ordered, Queried, Reasons, Fresh, Uncommitted, Answering
<1>12. Alone /\ Spinning
  BY <1>4, <1>5, <1>6 DEF Alone, Spinning, NewestIs, Pages!Loud
<1>13. Sober
  <2>1. Pages!Open = {}
    BY <1>3, <1>4 DEF Pages!Open
  <2> QED
    BY <1>1, <1>4, <1>7, <2>1 DEF Sober
<1> QED
  BY <1>9, <1>10, <1>11, <1>12, <1>13 DEF PageInv, PageTypes

\* The invariant is inductive.
LEMMA PageStep == PageInv /\ [Pages!Next]_pageVars => PageInv'
<1> SUFFICES ASSUME PageInv, [Pages!Next]_pageVars PROVE PageInv'
  OBVIOUS
<1> USE DEF PageInv
<1>1. PageTypes' /\ page' = page /\ Change
  BY NextStep, StutterStep DEF Change
<1>2. Blank => /\ fetches' = fetches /\ ui'.open = ui.open /\ (ui'.rows = None \/ ui'.loaded)
               /\ \A s \in Slots : calls'[s] = None
  <2>1. CASE Pages!Next
    BY <2>1, BlankStep
  <2>2. CASE UNCHANGED pageVars
    BY <2>2 DEF pageVars, Sober
  <2> QED
    BY <2>1, <2>2
<1>3. Ordered'
  BY <1>1, OrderedKept
<1>4. Alone'
  BY <1>1, AloneKept
<1>5. Queried'
  BY <1>1, QueriedKept
<1>6. Reasons'
  BY <1>1, ReasonsKept
<1>7. Fresh'
  BY <1>1, FreshKept
<1>8. Uncommitted'
  BY <1>1, UncommittedKept
<1>9. Spinning'
  BY <1>1, SpinningKept
<1>10. Sober'
  BY <1>1, <1>2, SoberKept
<1> QED
  BY <1>1, <1>3, <1>4, <1>5, <1>6, <1>7, <1>8, <1>9, <1>10

\* The page of a behaviour moves by its own steps or not at all.
THEOREM PagesInvariance == LiveSpec => [](part = "page" => PageInv)
<1> DEFINE PartInv == part = "page" => PageInv
<1>1. LiveInit => PartInv
  BY InitPage DEF LiveInit
<1>2. PartInv /\ [LiveNext]_<<part, vars, mailVars, processVars, pageVars>> => PartInv'
  <2> SUFFICES ASSUME PartInv, [LiveNext]_<<part, vars, mailVars, processVars, pageVars>>, part' = "page" PROVE PageInv'
    OBVIOUS
  <2>1. part = "page" /\ [Pages!Next]_pageVars
    BY DEF LiveNext, AtRest
  <2> QED
    BY <2>1, PageStep
<1> QED
  BY <1>1, <1>2, PTL DEF LiveSpec

\* With nothing in flight a page shows what the server has, or a failure, but for the races
\* it is known for: for every number of rows, queries, handlers and requests.
THEOREM PagesAreFresh == LiveSpec => []RowsAreFresh
<1>1. PageInv => Pages!RowsAreFresh
  <2> SUFFICES ASSUME PageInv, loads = << >>, Pages!Idle, ~ \E why \in amiss : page \in Pages!Excused[why]
               PROVE  IF ui.error THEN "old failure" \notin amiss ELSE ui.rows = Pages!Current
    BY DEF Pages!RowsAreFresh
  <2>1. amiss = {}
    BY DEF PageInv, Reasons
  <2>2. ~Owing
    BY DEF Pages!Idle, Owing, At
  <2> QED
    BY <2>1, <2>2 DEF PageInv, Fresh, Fine
<1>2. (part = "page" => PageInv) => RowsAreFresh
  BY <1>1 DEF RowsAreFresh
<1> QED
  BY PagesInvariance, <1>2, PTL

\* What says that a page is loading stands for a load of that kind in flight.
THEOREM SpinnersAreHonest == LiveSpec => []SpinnerIsHonest
<1>1. PageInv => Pages!SpinnerIsHonest
  <2> SUFFICES ASSUME PageInv, page \notin Pages!Stuck
               PROVE  /\ Pages!LoadingShown => \E i \in DOMAIN loads : Pages!Loud(loads[i].initial)
                      /\ ui.fetching  => \E i \in DOMAIN loads : Pages!Quiet(loads[i].initial)
    BY DEF Pages!SpinnerIsHonest
  <2>1. ScreenTypes /\ Spinning /\ loads \in Seq(Flights) /\ page \in DOMAIN Design
    BY DEF PageInv, PageTypes, ScreenTypes
  <2>2. DOMAIN loads = Flight /\ (loads # << >> => Len(loads) \in Flight)
    BY <2>1, FlightIs, NoLoads DEF Flight
  <2>3. CASE ~Pages!Loader.guarded
    BY <2>1, <2>2, <2>3 DEF Spinning, Pages!LoadingShown
  <2>4. CASE Pages!Loader.guarded
    <3>1. Pages!LoadingShown /\ Pages!Loader.raises = "kind" => ~ui.loaded
      BY <2>1, <2>4, OfThePage DEF Pages!LoadingShown
    <3> QED
      BY <2>1, <2>2, <2>4, <3>1 DEF Spinning, NewestIs, Newest, Pages!LoadingShown
  <2> QED
    BY <2>3, <2>4
<1>2. (part = "page" => PageInv) => SpinnerIsHonest
  BY <1>1 DEF SpinnerIsHonest
<1> QED
  BY PagesInvariance, <1>2, PTL

\* What is open, raised or begun belongs to the page; and the types of the other parts.
THEOREM LivePartsTyped == LiveSpec => []LiveTypeOK
<1>1. PageInv => Pages!TypeOK
  <2> SUFFICES ASSUME PageInv PROVE Pages!TypeOK
    OBVIOUS
  <2>1. ScreenTypes /\ Awaited /\ loads \in Seq(Flights) /\ DOMAIN loads = Flight
    BY FlightIs DEF PageInv, PageTypes, ScreenTypes
  <2>2. ui.query \in Queries /\ ui.busy \subseteq Raised /\ ui.open \in Openings /\ ui.detail \in Details
    BY <2>1 DEF ScreenTypes, Screens
  <2>3. \A d \in DOMAIN Pages!Dialogs : ui.open[d] \in Things \cup {"new", None} /\ ui.detail[d] \in Things \cup {None}
    BY <2>2 DEF Openings, Details, Subjects
  <2>4. \A s \in Slots : calls[s] # None => calls[s].own \subseteq DOMAIN Pages!Dialogs /\ calls[s].change \in committed \cup {0}
    BY <2>1 DEF ScreenTypes, Proper
  <2>5. \A f \in fetches : f.dialog \in DOMAIN Pages!Dialogs /\ f.slot # 0 => calls[f.slot].stage = "fetching"
    BY <2>1 DEF ScreenTypes, Inquiries, Fetching, Awaited, At
  <2>6. \A i \in DOMAIN loads : loads[i].slot # 0 => calls[loads[i].slot].stage = "loading"
    BY <2>1 DEF Awaited, At
  <2> QED
    BY <2>1, <2>2, <2>3, <2>4, <2>5, <2>6 DEF Pages!TypeOK, ScreenTypes, Raised
<1>2. LiveSpec => []TypeOK
  BY ResetRuns, TypeCorrectness, PTL
<1>3. LiveSpec => []Mail!TypeOK
  BY NoneAssumption, TokenAssumption, CooldownAssumption, MailRuns, Mail!TypeCorrectness, PTL
<1>4. LiveSpec => []Process!TypeOK
  <2>1. ProcessInv => Process!TypeOK
    BY DEF ProcessInv
  <2> QED
    BY ProcessRuns, ProcessInvariance, <2>1, PTL
<1>5. (part = "page" => PageInv) /\ TypeOK /\ Mail!TypeOK /\ Process!TypeOK => LiveTypeOK
  BY <1>1 DEF LiveTypeOK
<1> QED
  BY PagesInvariance, <1>2, <1>3, <1>4, <1>5, PTL
-----------------------------------------------------------------------------
(* The dialogs of a page: no answer touches one that is not its own.       *)

\* Pages whose forms stay while they are saved, and whose answers close nothing else.
Strict == page \notin Pages!LooseForms
Firm   == Strict /\ page # "imported"

\* The flags of handlers that close dialogs.
Closers == {a \in DOMAIN Pages!Acts : Pages!Acts[a].closes # {}}
Gated   == {Pages!Acts[a].flag : a \in Closers}

\* A handler whose flag is up for it; one whose answer is still to close dialogs.
Active(s)  == calls[s] # None /\ ~(calls[s].act.local /\ calls[s].own = {})
Pending(s) == calls[s] # None /\ calls[s].stage \in {"sent", "done"} /\ calls[s].act.closes # {}

Whole(d) == Pages!Dialogs[d].fetches = "whole"
OfferedIn(act, d) == \E a \in DOMAIN Pages!Dialogs[d].offers \cap DOMAIN Pages!Acts : act = Pages!Acts[a]

\* A dialog belongs to a handler that was started from it, while it is open.
Owned ==
  \A s \in Slots : calls[s] # None =>
    /\ calls[s].own \subseteq calls[s].act.closes
    /\ \A d \in calls[s].own : d \in Pages!Open /\ OfferedIn(calls[s].act, d)

\* What a dialog shows, and what it waits for, is of the row it is open for.
Matched ==
  page \notin {"goals", "habits"} =>
    /\ \A d \in Pages!Open : ui.detail[d] \in {None, ui.open[d]}
    /\ \A f \in fetches : f.mounted /\ Pages!Dialogs[f.dialog].fetches = "mounted" => ui.open[f.dialog] = f.thing

\* One dialog is open, beside one that an answer may open again.
OneOpen == \A d, e \in Pages!Open : d = e \/ Whole(d) \/ Whole(e)

\* While a handler that closes dialogs is in progress its flag is up, and it is the only
\* one with that flag; a dialog belongs to one.
Tight ==
  Strict =>
    /\ \A s \in Slots : Active(s) /\ calls[s].act.flag \in Gated => calls[s].act.flag \in ui.busy
    /\ \A s, t \in Slots :
         Active(s) /\ Active(t) /\ calls[s].act.flag \in Gated /\ calls[s].act.flag = calls[t].act.flag => s = t
    /\ \A s, t \in Slots : calls[s] # None /\ calls[t] # None /\ s # t => calls[s].own \cap calls[t].own = {}

\* Until it is answered it has its dialog, and nothing else that it closes is open.
Pent ==
  Firm => \A s \in Slots : Pending(s) =>
            calls[s].own # {} /\ calls[s].act.closes \cap Pages!Open \subseteq calls[s].own

\* What went astray is what the page is known for.
Known == \A what \in astray : page \in Pages!Strays[what]

DialogInv == Owned /\ Matched /\ OneOpen /\ Tight /\ Pent /\ Known

\* What is assumed of the forms, for the page that is open.
LEMMA OfItsForms ==
  ASSUME page \in DOMAIN Design
  PROVE
    /\ \A x \in DOMAIN Pages!Dialogs :
         /\ Pages!Dialogs[x].fetches = "unguarded" => page \in {"goals", "habits"}
         /\ Whole(x) => /\ page = "users" /\ DOMAIN Pages!Dialogs[x].offers = {}
                        /\ \A a \in DOMAIN Pages!Acts : x \notin Pages!Acts[a].closes
    /\ \A a \in DOMAIN Pages!Acts :
         /\ Pages!Acts[a].closes \subseteq DOMAIN Pages!Dialogs
         /\ Pages!Acts[a].fetches \in DOMAIN Pages!Dialogs =>
              \A x \in Pages!Acts[a].closes \cup {Pages!Acts[a].fetches} : Pages!Dialogs[x].fetches # "mounted"
    /\ Strict =>
         /\ \A a \in DOMAIN Pages!Acts : ~Pages!Acts[a].resets
         /\ \A a \in DOMAIN Pages!Acts : Pages!Acts[a].flag \in Gated =>
              /\ \A x \in DOMAIN Pages!Dialogs :
                   a \in DOMAIN Pages!Dialogs[x].offers => Pages!Acts[a].flag \in Pages!Dialogs[x].offers[a]
              /\ a \in DOMAIN Pages!Layout.offers => Pages!Acts[a].flag \in Pages!Layout.offers[a]
              /\ a \in DOMAIN Pages!List => Pages!Acts[a].flag \in Pages!List[a]
         /\ \A c \in Closers :
              /\ c \notin DOMAIN Pages!Layout.offers \cup DOMAIN Pages!List
              /\ \A x \in DOMAIN Pages!Dialogs : c \in DOMAIN Pages!Dialogs[x].offers => x \in Pages!Acts[c].closes
         /\ \A a, c \in Closers, x \in DOMAIN Pages!Dialogs :
              a \in DOMAIN Pages!Dialogs[x].offers /\ c \in DOMAIN Pages!Dialogs[x].offers
                => Pages!Acts[c].flag \in Pages!Dialogs[x].offers[a]
         /\ \A x \in DOMAIN Pages!Dialogs, a \in DOMAIN Pages!Acts : Pages!Acts[a].flag \in Pages!Dialogs[x].resets =>
              /\ Pages!Acts[a].local /\ Pages!Acts[a].closes \subseteq {x}
              /\ \A y \in DOMAIN Pages!Dialogs : x \notin DOMAIN Pages!Dialogs[y].offers
    /\ Firm =>
         \A c \in Closers, x \in DOMAIN Pages!Dialogs : c \in DOMAIN Pages!Dialogs[x].offers =>
           /\ Pages!Acts[c].flag \in Pages!Dialogs[x].leave
           /\ x \in DOMAIN Pages!Keys => Pages!Acts[c].flag \in Pages!Keys[x]
           /\ DOMAIN Pages!Dialogs[x].offers \cap DOMAIN Pages!Dialogs = {}
<1> DEFINE d == Design[page]
<1>1. Pages!Acts = d.acts /\ Pages!Dialogs = d.dialogs /\ Pages!Layout = d.view /\ Pages!List = d.list /\ Pages!Keys = d.keys
  BY DEF Pages!Acts, Pages!Dialogs, Pages!Layout, Pages!List, Pages!Keys
<1>2. Closers = Closing(page)
  BY <1>1 DEF Closers, Closing
<1>3. \A a \in DOMAIN d.acts : d.acts[a].flag \in Gated => \E c \in Closing(page) : d.acts[a].flag = d.acts[c].flag
  BY <1>1, <1>2 DEF Gated
<1>4. \A a \in DOMAIN d.acts : WaitsForFlag(page, a) =>
        /\ \A x \in DOMAIN d.dialogs : a \in DOMAIN d.dialogs[x].offers => d.acts[a].flag \in d.dialogs[x].offers[a]
        /\ a \in DOMAIN d.view.offers => d.acts[a].flag \in d.view.offers[a]
        /\ a \in DOMAIN d.list => d.acts[a].flag \in d.list[a]
  BY DEF WaitsForFlag
<1>5. /\ \A x \in DOMAIN d.dialogs :
           /\ d.dialogs[x].fetches = "unguarded" => page \in {"goals", "habits"}
           /\ d.dialogs[x].fetches = "whole" => /\ page = "users"
                                               /\ DOMAIN d.dialogs[x].offers = {}
                                               /\ \A a \in DOMAIN d.acts : x \notin d.acts[a].closes
      /\ \A a \in DOMAIN d.acts :
           /\ d.acts[a].closes \subseteq DOMAIN d.dialogs
           /\ d.acts[a].fetches \in DOMAIN d.dialogs =>
                \A x \in d.acts[a].closes \cup {d.acts[a].fetches} : d.dialogs[x].fetches # "mounted"
  BY FormAssumption, Zenon
<1>6. Strict =>
         /\ \A a \in DOMAIN d.acts : ~d.acts[a].resets
         /\ \A a \in DOMAIN d.acts, c \in Closing(page) : d.acts[a].flag = d.acts[c].flag => WaitsForFlag(page, a)
         /\ \A c \in Closing(page) :
              /\ c \notin DOMAIN d.view.offers \cup DOMAIN d.list
              /\ \A x \in DOMAIN d.dialogs : c \in DOMAIN d.dialogs[x].offers => x \in d.acts[c].closes
         /\ \A a, c \in Closing(page), x \in DOMAIN d.dialogs :
              a \in DOMAIN d.dialogs[x].offers /\ c \in DOMAIN d.dialogs[x].offers => d.acts[c].flag \in d.dialogs[x].offers[a]
         /\ \A x \in DOMAIN d.dialogs, a \in DOMAIN d.acts : d.acts[a].flag \in d.dialogs[x].resets =>
              /\ d.acts[a].local /\ d.acts[a].closes \subseteq {x}
              /\ \A y \in DOMAIN d.dialogs : x \notin DOMAIN d.dialogs[y].offers
  BY FormAssumption, Zenon DEF Strict
<1>7. Firm =>
         \A c \in Closing(page), x \in DOMAIN d.dialogs : c \in DOMAIN d.dialogs[x].offers =>
           /\ d.acts[c].flag \in d.dialogs[x].leave
           /\ x \in DOMAIN d.keys => d.acts[c].flag \in d.keys[x]
           /\ DOMAIN d.dialogs[x].offers \cap DOMAIN d.dialogs = {}
  BY FormAssumption DEF Firm, Strict
<1> HIDE DEF d
<1>8. Strict =>
         \A a \in DOMAIN d.acts : d.acts[a].flag \in Gated =>
              /\ \A x \in DOMAIN d.dialogs :
                   a \in DOMAIN d.dialogs[x].offers => d.acts[a].flag \in d.dialogs[x].offers[a]
              /\ a \in DOMAIN d.view.offers => d.acts[a].flag \in d.view.offers[a]
              /\ a \in DOMAIN d.list => d.acts[a].flag \in d.list[a]
  BY <1>3, <1>4, <1>6
<1> QED
  BY <1>1, <1>2, <1>5, <1>6, <1>7, <1>8 DEF Whole

\* What a screen shows of its dialogs, and which flags are up.
SameForms(v, u) == v.open = u.open /\ v.detail = u.detail /\ v.busy = u.busy

LEMMA LoadForms ==
  ASSUME NEW u \in Screens, NEW initial, NEW query, NEW slot, Pages!Load(u, initial, query, slot)
  PROVE  SameForms(ui', u)
<1>1. ui' = [u EXCEPT !.loading = @ \/ Pages!Loud(initial), !.fetching = @ \/ Pages!Quiet(initial), !.error = FALSE]
  BY Zenon DEF Pages!Load
<1>2. \A x, y : LET v == [u EXCEPT !.loading = x, !.fetching = y, !.error = FALSE] IN
                v.open = u.open /\ v.detail = u.detail /\ v.busy = u.busy
  BY DEF Screens
<1> QED
  BY <1>1, <1>2, Zenon DEF SameForms

LEMMA QueryForms == ASSUME NEW u \in Screens, NEW q PROVE SameForms([u EXCEPT !.query = q], u)
BY DEF Screens, SameForms

LEMMA FinishedForms ==
  ASSUME NEW u \in Screens, NEW call
  PROVE  LET v == Pages!Finished(u, call) IN
         /\ v.open = u.open /\ v.detail = u.detail
         /\ v.busy = IF call.act.local /\ call.own = {} THEN u.busy ELSE u.busy \ {call.act.flag}
BY DEF Pages!Finished, Screens

LEMMA LeftForms ==
  ASSUME NEW u \in Screens, NEW ds
  PROVE  LET v == Pages!Left(u, ds) IN
         /\ \A d \in DOMAIN Pages!Dialogs : v.open[d] = IF d \in ds THEN None ELSE u.open[d]
         /\ v.detail = u.detail /\ v.busy = u.busy \ Pages!Resets(ds)
<1>1. u.open \in Openings
  BY DEF Screens
<1> DEFINE open == [d \in DOMAIN u.open |-> IF d \in ds THEN None ELSE u.open[d]]
<1>2. \A d \in DOMAIN Pages!Dialogs : open[d] = IF d \in ds THEN None ELSE u.open[d]
  BY <1>1 DEF Openings
<1>3. Pages!Left(u, ds) = [u EXCEPT !.open = open, !.busy = @ \ Pages!Resets(ds)]
  BY DEF Pages!Left
<1> HIDE DEF open
<1>4. LET v == Pages!Left(u, ds) IN v.open = open /\ v.detail = u.detail /\ v.busy = u.busy \ Pages!Resets(ds)
  BY <1>3 DEF Screens
<1> QED
  BY <1>2, <1>4

LEMMA OpenedForms ==
  ASSUME NEW u \in Screens, NEW d \in DOMAIN Pages!Dialogs, NEW x \in Subjects
  PROVE  LET v == Pages!Opened(u, d, x) IN
         /\ \A e \in DOMAIN Pages!Dialogs : /\ v.open[e] = IF e = d THEN x ELSE u.open[e]
                                            /\ v.detail[e] = IF e = d THEN None ELSE u.detail[e]
         /\ v.busy = u.busy \ Pages!Resets({d})
<1> DEFINE open == [u.open EXCEPT ![d] = x]
           detail == [u.detail EXCEPT ![d] = None]
<1>1. u.open \in Openings /\ u.detail \in Details
  BY DEF Screens
<1>2. Pages!Opened(u, d, x) = [u EXCEPT !.open = open, !.detail = detail, !.busy = @ \ Pages!Resets({d})]
  BY DEF Pages!Opened
<1>3. \A e \in DOMAIN Pages!Dialogs : /\ open[e] = IF e = d THEN x ELSE u.open[e]
                                      /\ detail[e] = IF e = d THEN None ELSE u.detail[e]
  BY <1>1 DEF Openings, Details
<1> HIDE DEF open, detail
<1>4. LET v == Pages!Opened(u, d, x) IN v.open = open /\ v.detail = detail /\ v.busy = u.busy \ Pages!Resets({d})
  BY <1>2 DEF Screens
<1> QED
  BY <1>3, <1>4

\* The end of a load shows rows, a failure and signs of loading, and nothing else.
LEMMA SettledForms ==
  ASSUME NEW u \in Screens, NEW load
  PROVE  /\ SameForms(Pages!Lowered(u, load), u) /\ SameForms(Pages!Filled(u, load), u)
         /\ SameForms(Pages!Disappointed(u, load), u)
<1>1. \A x, y : SameForms([u EXCEPT !.loading = x, !.fetching = y], u)
  BY DEF Screens, SameForms
<1>2. \A x, y, z : SameForms([u EXCEPT !.rows = x, !.loaded = y, !.error = z], u)
  BY DEF Screens, SameForms
<1>3. \A x, y : SameForms([u EXCEPT !.rows = x, !.error = y], u)
  BY DEF Screens, SameForms
<1>4. SameForms(u, u)
  BY DEF SameForms
<1>5. SameForms(Pages!Lowered(u, load), u)
  BY <1>1, Zenon DEF Pages!Lowered
<1>6. SameForms(Pages!Filled(u, load), u)
  BY <1>2, Zenon DEF Pages!Filled
<1>7. SameForms(Pages!Disappointed(u, load), u)
  BY <1>3, <1>4, Zenon DEF Pages!Disappointed
<1> QED
  BY <1>5, <1>6, <1>7

\* A handler that stays as far as it is but loses dialogs.
Yields(s, ds) ==
  /\ calls'[s] = None <=> calls[s] = None
  /\ calls[s] # None => /\ calls'[s].act = calls[s].act /\ calls'[s].stage = calls[s].stage
                        /\ calls'[s].own = calls[s].own \ ds

LEMMA AllYield ==
  ASSUME ScreenTypes, NEW ds, calls' = Pages!Disowned(ds), NEW s \in Slots
  PROVE  Yields(s, ds)
<1>1. calls[s] \in {None} \cup Progress /\ None \notin Progress
  BY PageAssumption DEF ScreenTypes
<1>2. calls'[s] = IF calls[s] = None THEN None ELSE [calls[s] EXCEPT !.own = @ \ ds]
  BY DEF Pages!Disowned
<1>3. CASE calls[s] # None
  <2>1. calls'[s] = [calls[s] EXCEPT !.own = @ \ ds] /\ calls[s] \in Progress
    BY <1>1, <1>2, <1>3
  <2>2. Kept(s)
    BY CallsStay
  <2> QED
    BY <1>3, <2>1, <2>2 DEF Yields, Progress, Kept
<1> QED
  BY <1>2, <1>3 DEF Yields

LEMMA OthersYield ==
  ASSUME ScreenTypes, NEW ds, NEW s \in Slots, NEW c,
         calls' = [Pages!Disowned(ds) EXCEPT ![s] = c], NEW t \in Slots \ {s}
  PROVE  Yields(t, ds)
<1>1. calls[t] \in {None} \cup Progress /\ None \notin Progress
  BY PageAssumption DEF ScreenTypes
<1>2. calls'[t] = IF calls[t] = None THEN None ELSE [calls[t] EXCEPT !.own = @ \ ds]
  BY DEF Pages!Disowned
<1>3. CASE calls[t] # None
  <2> DEFINE d == [calls[t] EXCEPT !.own = @ \ ds]
  <2>1. calls'[t] = d /\ calls[t] \in Progress
    BY <1>1, <1>2, <1>3
  <2>2. Proper(calls[t], committed)
    BY <1>3 DEF ScreenTypes
  <2>3. Proper(d, committed)
    BY <2>2, DisownedIs
  <2>4. d # None
    BY <1>1, <2>3 DEF Proper
  <2> QED
    BY <1>3, <2>1, <2>4 DEF Yields, Progress
<1> QED
  BY <1>2, <1>3 DEF Yields

\* Another one moves, or none does.
LEMMA OthersStay ==
  ASSUME ScreenTypes, NEW s, NEW c, calls' = calls \/ calls' = [calls EXCEPT ![s] = c], NEW t \in Slots \ {s}
  PROVE  Yields(t, {})
<1>1. calls'[t] = calls[t]
  BY DEF ScreenTypes
<1> QED
  BY <1>1 DEF Yields

-----------------------------------------------------------------------------
(* What each part of the invariant needs of a step.                        *)

\* Handlers of the page: what they close, and the table, for one in progress.
LEMMA OfItsHandlers ==
  ASSUME PageTypes, NEW s \in Slots, calls[s] # None
  PROVE  \E a \in DOMAIN Pages!Acts :
           calls[s].act = Pages!Acts[a] /\ (calls[s].act.closes # {} => a \in Closers /\ calls[s].act.flag \in Gated)
BY DEF PageTypes, ScreenTypes, Proper, Closers, Gated

LEMMA SameTable ==
  ASSUME page' = page
  PROVE  /\ Gated' = Gated /\ (Strict <=> Strict') /\ (Firm <=> Firm')
         /\ \A d : Whole(d) <=> Whole(d)'
<1>1. Pages!Acts' = Pages!Acts /\ Pages!Dialogs' = Pages!Dialogs
  BY SamePage
<1>2. Gated' = Gated
  BY <1>1 DEF Gated, Closers
<1>3. (Strict <=> Strict') /\ (Firm <=> Firm')
  BY DEF Strict, Firm
<1>4. \A d : Whole(d) <=> Whole(d)'
  BY <1>1 DEF Whole
<1> QED
  BY <1>2, <1>3, <1>4

LEMMA OpenIs ==
  /\ \A d : d \in Pages!Open <=> d \in DOMAIN Pages!Dialogs /\ ui.open[d] # None
  /\ page' = page => \A d : d \in Pages!Open' <=> d \in DOMAIN Pages!Dialogs /\ ui'.open[d] # None
<1>1. \A d : d \in Pages!Open <=> d \in DOMAIN Pages!Dialogs /\ ui.open[d] # None
  BY DEF Pages!Open
<1>2. ASSUME page' = page PROVE \A d : d \in Pages!Open' <=> d \in DOMAIN Pages!Dialogs /\ ui'.open[d] # None
  BY <1>2, SamePage DEF Pages!Open
<1> QED
  BY <1>1, <1>2

\* No handler begins, and none gets a dialog.
Lessens ==
  \A s \in Slots : calls'[s] # None =>
    calls[s] # None /\ calls'[s].act = calls[s].act /\ calls'[s].own \subseteq calls[s].own

LEMMA OwnedKept ==
  ASSUME Owned, page' = page, Lessens,
         \A s \in Slots : calls'[s] # None => \A d \in calls'[s].own : d \in Pages!Open'
  PROVE  Owned'
<1> SUFFICES ASSUME NEW s \in Slots, calls'[s] # None
             PROVE  /\ calls'[s].own \subseteq calls'[s].act.closes
                    /\ \A d \in calls'[s].own : d \in Pages!Open' /\ OfferedIn(calls'[s].act, d)
  BY SamePage DEF Owned, OfferedIn
<1>1. calls[s] # None /\ calls'[s].act = calls[s].act /\ calls'[s].own \subseteq calls[s].own
  BY DEF Lessens
<1>2. calls[s].own \subseteq calls[s].act.closes /\ \A d \in calls[s].own : OfferedIn(calls[s].act, d)
  BY <1>1 DEF Owned
<1> QED
  BY <1>1, <1>2

\* A flag that stays up, for every handler that needs it.
LEMMA TightKept ==
  ASSUME Tight, page' = page, Lessens,
         Strict => \A s \in Slots :
           Active(s) /\ Active(s)' /\ calls[s].act.flag \in Gated /\ calls[s].act.flag \in ui.busy => calls[s].act.flag \in ui'.busy
  PROVE  Tight'
<1>1. \A s \in Slots : Active(s)' => Active(s) /\ calls'[s].act = calls[s].act
  BY DEF Active, Lessens
<1> SUFFICES ASSUME Strict
             PROVE  /\ \A s \in Slots : Active(s)' /\ calls'[s].act.flag \in Gated => calls'[s].act.flag \in ui'.busy
                    /\ \A s, t \in Slots :
                         Active(s)' /\ Active(t)' /\ calls'[s].act.flag \in Gated /\ calls'[s].act.flag = calls'[t].act.flag => s = t
                    /\ \A s, t \in Slots : calls'[s] # None /\ calls'[t] # None /\ s # t => calls'[s].own \cap calls'[t].own = {}
  BY SameTable DEF Tight
<1>2. \A s \in Slots : Active(s)' /\ calls'[s].act.flag \in Gated => calls'[s].act.flag \in ui'.busy
  BY <1>1 DEF Tight
<1>3. \A s, t \in Slots :
        Active(s)' /\ Active(t)' /\ calls'[s].act.flag \in Gated /\ calls'[s].act.flag = calls'[t].act.flag => s = t
  BY <1>1 DEF Tight
<1>4. \A s, t \in Slots : calls'[s] # None /\ calls'[t] # None /\ s # t => calls'[s].own \cap calls'[t].own = {}
  BY DEF Tight, Lessens
<1> QED
  BY <1>2, <1>3, <1>4

LEMMA PentKept ==
  ASSUME Pent, page' = page, Lessens,
         Firm => \A s \in Slots : Pending(s)' =>
           /\ Pending(s) /\ calls'[s].own = calls[s].own
           /\ calls[s].act.closes \cap Pages!Open' \subseteq Pages!Open
  PROVE  Pent'
<1>1. \A s \in Slots : Pending(s)' => calls'[s].act = calls[s].act
  BY DEF Pending, Lessens
<1> QED
  BY <1>1, SameTable DEF Pent

LEMMA MatchedKept ==
  ASSUME Matched, page' = page,
         page \notin {"goals", "habits"} => \A d \in DOMAIN Pages!Dialogs : ui'.open[d] # None =>
           \/ ui'.detail[d] \in {None, ui'.open[d]}
           \/ ui'.open[d] = ui.open[d] /\ ui'.detail[d] = ui.detail[d],
         page \notin {"goals", "habits"} => \A f \in fetches' : f.mounted /\ Pages!Dialogs[f.dialog].fetches = "mounted" =>
           \/ ui'.open[f.dialog] = f.thing
           \/ /\ \E g \in fetches : g.mounted /\ g.dialog = f.dialog /\ g.thing = f.thing
              /\ ui'.open[f.dialog] = ui.open[f.dialog]
  PROVE  Matched'
<1> SUFFICES ASSUME page \notin {"goals", "habits"}
             PROVE  /\ \A d \in Pages!Open' : ui'.detail[d] \in {None, ui'.open[d]}
                    /\ \A f \in fetches' : f.mounted /\ Pages!Dialogs[f.dialog].fetches = "mounted" => ui'.open[f.dialog] = f.thing
  BY SamePage DEF Matched
<1>1. \A d \in Pages!Open : ui.detail[d] \in {None, ui.open[d]}
  BY DEF Matched
<1>2. \A d \in Pages!Open' : ui'.detail[d] \in {None, ui'.open[d]}
  BY <1>1, OpenIs
<1>3. \A f \in fetches' : f.mounted /\ Pages!Dialogs[f.dialog].fetches = "mounted" => ui'.open[f.dialog] = f.thing
  BY DEF Matched
<1> QED
  BY <1>2, <1>3

\* Nothing is opened, except over the dialog that an answer may open again.
LEMMA OneOpenKept ==
  ASSUME OneOpen, page' = page, \A d \in Pages!Open' : d \in Pages!Open \/ Whole(d)
  PROVE  OneOpen'
BY SameTable DEF OneOpen

LEMMA KnownKept ==
  ASSUME Known, page' = page, \A what \in astray' : what \in astray \/ page \in Pages!Strays[what]
  PROVE  Known'
BY DEF Known

\* A step that touches no dialog and no handler.
LEMMA QuietStep ==
  ASSUME DialogInv, page' = page, SameForms(ui', ui), calls' = calls, fetches' = fetches, astray' = astray
  PROVE  DialogInv'
<1> USE DEF DialogInv
<1>1. ui'.open = ui.open /\ ui'.detail = ui.detail /\ ui'.busy = ui.busy
  BY DEF SameForms
<1>2. Lessens
  BY DEF Lessens
<1>3. \A d : d \in Pages!Open' <=> d \in Pages!Open
  BY <1>1, OpenIs
<1>4. Owned'
  BY <1>2, <1>3, OwnedKept DEF Owned
<1>5. Matched'
  BY <1>1, MatchedKept
<1>6. OneOpen'
  BY <1>3, OneOpenKept
<1>7. Tight'
  BY <1>1, <1>2, TightKept
<1>8. Pent'
  <2>1. \A s \in Slots : Pending(s)' => Pending(s)
    BY DEF Pending
  <2> QED
    BY <1>2, <1>3, <2>1, PentKept
<1>9. Known'
  BY KnownKept
<1> QED
  BY <1>4, <1>5, <1>6, <1>7, <1>8, <1>9

-----------------------------------------------------------------------------
(* Steps that leave dialogs, or in which a handler gets on or ends.        *)

\* What a handler in progress may close.
LEMMA ItCloses ==
  ASSUME PageTypes, NEW s \in Slots, calls[s] # None
  PROVE  /\ calls[s].act.closes \subseteq DOMAIN Pages!Dialogs
         /\ \A d \in calls[s].act.closes : ~Whole(d)
         /\ Strict => ~calls[s].act.resets
<1>1. PICK a \in DOMAIN Pages!Acts : calls[s].act = Pages!Acts[a]
  BY OfItsHandlers
<1>2. page \in DOMAIN Design
  BY DEF PageTypes, ScreenTypes
<1> QED
  BY <1>1, <1>2, OfItsForms

\* A flag that goes with a dialog is of a handler that belongs to that dialog.
LEMMA ResetWith ==
  ASSUME PageTypes, Owned, Strict, NEW s \in Slots, calls[s] # None,
         NEW d \in DOMAIN Pages!Dialogs, calls[s].act.flag \in Pages!Dialogs[d].resets
  PROVE  /\ calls[s].act.local /\ calls[s].own \subseteq {d}
         /\ \A e \in DOMAIN Pages!Dialogs : d \notin DOMAIN Pages!Dialogs[e].offers
<1>1. PICK a \in DOMAIN Pages!Acts : calls[s].act = Pages!Acts[a]
  BY OfItsHandlers
<1>2. page \in DOMAIN Design
  BY DEF PageTypes, ScreenTypes
<1>3. /\ Pages!Acts[a].local /\ Pages!Acts[a].closes \subseteq {d}
      /\ \A e \in DOMAIN Pages!Dialogs : d \notin DOMAIN Pages!Dialogs[e].offers
  BY <1>1, <1>2, OfItsForms
<1> QED
  BY <1>1, <1>3 DEF Owned

LEMMA ClosesStep ==
  ASSUME PageTypes, DialogInv, page' = page, NEW ds \in SUBSET DOMAIN Pages!Dialogs,
         \A s \in Slots : calls'[s] # None =>
           calls[s] # None /\ calls'[s].act = calls[s].act /\ calls'[s].own = calls[s].own \ ds,
         \A d \in DOMAIN Pages!Dialogs : Whole(d) \/ ui'.open[d] = IF d \in ds THEN None ELSE ui.open[d],
         Strict => \A flag \in ui.busy : \/ flag \in ui'.busy \/ flag \in Pages!Resets(ds)
                                         \/ \E s \in Slots : Active(s) /\ calls'[s] = None /\ flag = calls[s].act.flag,
         Firm => \A s \in Slots : Pending(s)' => Pending(s) /\ calls[s].own \cap ds = {}
  PROVE  Owned' /\ OneOpen' /\ Tight' /\ Pent'
<1> USE DEF DialogInv
<1>1. Lessens
  BY DEF Lessens
<1>2. \A d : d \in Pages!Open' => d \in Pages!Open \/ Whole(d)
  BY OpenIs
<1>3. OneOpen'
  BY <1>2, OneOpenKept
<1>4. Owned'
  <2> SUFFICES ASSUME NEW s \in Slots, calls'[s] # None, NEW d \in calls'[s].own
               PROVE  d \in Pages!Open'
    BY <1>1, OwnedKept
  <2>1. calls[s] # None /\ d \in calls[s].own /\ d \notin ds
    OBVIOUS
  <2>2. d \in Pages!Open /\ d \in calls[s].act.closes
    BY <2>1 DEF Owned
  <2>3. ~Whole(d)
    BY <2>1, <2>2, ItCloses
  <2> QED
    BY <2>1, <2>2, <2>3, OpenIs
<1>5. Tight'
  <2> SUFFICES ASSUME Strict, NEW s \in Slots, Active(s), Active(s)', calls[s].act.flag \in Gated,
                      calls[s].act.flag \in ui.busy, calls[s].act.flag \notin ui'.busy
               PROVE  FALSE
    BY <1>1, TightKept
  <2>1. calls[s] # None /\ calls'[s] # None /\ calls'[s].act = calls[s].act /\ calls'[s].own = calls[s].own \ ds
    BY DEF Active
  <2>2. CASE calls[s].act.flag \in Pages!Resets(ds)
    <3>1. PICK d \in ds : calls[s].act.flag \in Pages!Dialogs[d].resets
      BY <2>2 DEF Pages!Resets
    <3>2. calls[s].act.local /\ calls[s].own \subseteq {d}
      BY <2>1, <3>1, ResetWith
    <3> QED
      BY <2>1, <3>1, <3>2 DEF Active
  <2>3. CASE \E t \in Slots : Active(t) /\ calls'[t] = None /\ calls[s].act.flag = calls[t].act.flag
    BY <2>1, <2>3 DEF Tight
  <2> QED
    BY <2>2, <2>3
<1>6. Pent'
  <2> SUFFICES ASSUME Firm, NEW s \in Slots, Pending(s)'
               PROVE  /\ Pending(s) /\ calls'[s].own = calls[s].own
                      /\ calls[s].act.closes \cap Pages!Open' \subseteq Pages!Open
    BY <1>1, PentKept
  <2>1. Pending(s) /\ calls[s].own \cap ds = {} /\ calls'[s] # None /\ calls[s] # None
    BY DEF Pending
  <2> QED
    BY <1>2, <2>1, ItCloses
<1> QED
  BY <1>3, <1>4, <1>5, <1>6

\* A request that is still for its dialog when others are left.
LEMMA StillMounted ==
  ASSUME fetches \subseteq Inquiries, NEW ds, NEW f \in Pages!Unmounted(ds), f.mounted
  PROVE  f.dialog \notin ds /\ \E g \in fetches : g.mounted /\ g.dialog = f.dialog /\ g.thing = f.thing
<1>1. PICK g \in fetches : f = [g EXCEPT !.mounted = @ /\ g.dialog \notin ds]
  BY UnmountedIs
<1>2. g \in Inquiries
  OBVIOUS
<1> QED
  BY <1>1, <1>2 DEF Inquiries

LEMMA MatchedLeft ==
  ASSUME PageTypes, Matched, page' = page, NEW ds, ui'.detail = ui.detail,
         \A d \in DOMAIN Pages!Dialogs : ui'.open[d] = IF d \in ds THEN None ELSE ui.open[d],
         \/ fetches' = Pages!Unmounted(ds)
         \/ /\ \A f \in fetches' : f \in fetches \/ Pages!Dialogs[f.dialog].fetches # "mounted"
            /\ \A d \in ds : Pages!Dialogs[d].fetches # "mounted"
  PROVE  Matched'
<1>1. fetches \subseteq Inquiries /\ \A f \in fetches : f.dialog \in DOMAIN Pages!Dialogs
  BY DEF PageTypes, ScreenTypes, Inquiries, Fetching
<1>2. ASSUME NEW f \in fetches', f.mounted, Pages!Dialogs[f.dialog].fetches = "mounted"
      PROVE  /\ \E g \in fetches : g.mounted /\ g.dialog = f.dialog /\ g.thing = f.thing
             /\ ui'.open[f.dialog] = ui.open[f.dialog]
  <2>1. CASE fetches' = Pages!Unmounted(ds)
    BY <1>1, <1>2, <2>1, StillMounted
  <2>2. CASE f \in fetches /\ \A d \in ds : Pages!Dialogs[d].fetches # "mounted"
    BY <1>1, <1>2, <2>2
  <2> QED
    BY <1>2, <2>1, <2>2
<1>3. \A d \in DOMAIN Pages!Dialogs : ui'.open[d] # None => ui'.open[d] = ui.open[d] /\ ui'.detail[d] = ui.detail[d]
  OBVIOUS
<1> QED
  BY <1>2, <1>3, MatchedKept

\* Dialogs are left: none that belongs to a handler on a page that is firm.
LEMMA LeaveForms ==
  ASSUME PageTypes, DialogInv, NEW ds \in SUBSET Pages!Open, Pages!Leave(ds),
         Firm => \A s \in Slots : Pending(s) => calls[s].own \cap ds = {}
  PROVE  DialogInv'
<1>1. /\ page' = page /\ ui' = Pages!Left(ui, ds) /\ fetches' = Pages!Unmounted(ds)
      /\ calls' = Pages!Disowned(ds) /\ astray' = astray
  BY Zenon DEF Pages!Leave
<1>2. ScreenTypes /\ ui \in Screens /\ ds \in SUBSET DOMAIN Pages!Dialogs
  BY OpenIs DEF PageTypes, ScreenTypes
<1>3. /\ \A d \in DOMAIN Pages!Dialogs : ui'.open[d] = IF d \in ds THEN None ELSE ui.open[d]
      /\ ui'.detail = ui.detail /\ ui'.busy = ui.busy \ Pages!Resets(ds)
  BY <1>1, <1>2, LeftForms
<1>4. \A s \in Slots : Yields(s, ds)
  BY <1>1, <1>2, AllYield
<1>5. Matched'
  BY <1>1, <1>3, MatchedLeft DEF DialogInv
<1>6. Known'
  BY <1>1, KnownKept DEF DialogInv
<1>7. \A s \in Slots : Pending(s)' => Pending(s)
  BY <1>4 DEF Yields, Pending
<1>8. Owned' /\ OneOpen' /\ Tight' /\ Pent'
  BY <1>1, <1>2, <1>3, <1>4, <1>7, ClosesStep DEF Yields
<1> QED
  BY <1>5, <1>6, <1>8 DEF DialogInv

\* A dialog of a handler that is not answered waits, on a firm page, with the way out by
\* its buttons and by the Escape key.
LEMMA OwnWaits ==
  ASSUME PageTypes, DialogInv, Firm, NEW s \in Slots, calls[s] # None, NEW d \in calls[s].own
  PROVE  /\ calls[s].act.flag \in ui.busy /\ calls[s].act.flag \in Pages!Dialogs[d].leave
         /\ d \in DOMAIN Pages!Keys => calls[s].act.flag \in Pages!Keys[d]
         /\ DOMAIN Pages!Dialogs[d].offers \cap DOMAIN Pages!Dialogs = {}
<1>1. d \in Pages!Open /\ d \in calls[s].act.closes /\ OfferedIn(calls[s].act, d) /\ d \in DOMAIN Pages!Dialogs
  BY OpenIs DEF DialogInv, Owned
<1>2. PICK a \in DOMAIN Pages!Dialogs[d].offers \cap DOMAIN Pages!Acts : calls[s].act = Pages!Acts[a]
  BY <1>1 DEF OfferedIn
<1>3. a \in Closers /\ page \in DOMAIN Design
  BY <1>1, <1>2 DEF Closers, PageTypes, ScreenTypes
<1>4. calls[s].act.flag \in Gated /\ Active(s) /\ Strict
  BY <1>2, <1>3 DEF Gated, Active, Firm
<1>5. calls[s].act.flag \in ui.busy
  BY <1>4 DEF DialogInv, Tight
<1> QED
  BY <1>1, <1>2, <1>3, <1>5, OfItsForms

LEMMA CloseForms ==
  ASSUME PageTypes, DialogInv, NEW d \in DOMAIN Pages!Dialogs, Pages!CloseDialog(d)
  PROVE  DialogInv'
<1>1. Pages!Leave({d}) /\ d \in Pages!Open /\ Pages!Free(Pages!Dialogs[d].leave)
  BY Zenon DEF Pages!CloseDialog
<1>2. ASSUME Firm, NEW s \in Slots, Pending(s)
      PROVE  calls[s].own \cap {d} = {}
  <2>1. CASE d \in calls[s].own
    BY <1>1, <1>2, <2>1, OwnWaits DEF Pending, Pages!Free, Pages!Flags
  <2> QED
    BY <2>1
<1> QED
  BY <1>1, <1>2, LeaveForms

LEMMA EscapeForms ==
  ASSUME PageTypes, DialogInv, Pages!Escape
  PROVE  DialogInv'
<1> DEFINE ds == {d \in Pages!Open \cap DOMAIN Pages!Keys : Pages!Free(Pages!Keys[d])}
<1>1. Pages!Leave(ds) /\ ds \in SUBSET Pages!Open
  BY Zenon DEF Pages!Escape
<1>2. ASSUME Firm, NEW s \in Slots, Pending(s), NEW d \in calls[s].own
      PROVE  d \notin ds
  BY <1>2, OwnWaits DEF Pending, Pages!Free, Pages!Flags
<1> HIDE DEF ds
<1> QED
  BY <1>1, <1>2, LeaveForms

\* The request of a dialog that opens, or asks again.
LEMMA FetchForms ==
  ASSUME NEW d, NEW x, NEW before, Pages!Fetch(d, x, before)
  PROVE  \A f \in fetches' : f \in before \/ (f.dialog = d /\ f.thing = x)
BY DEF Pages!Fetch

\* A dialog opens while none is open: no handler has one, and nothing is asked for.
LEMMA OpenForms ==
  ASSUME PageTypes, DialogInv, NEW d \in DOMAIN Pages!Dialogs, NEW x \in Things \cup {"new"}, Pages!OpenDialog(d, x)
  PROVE  DialogInv'
<1>1. /\ page' = page /\ calls' = calls /\ ui' = Pages!Opened(ui, d, x) /\ Pages!Fetch(d, x, fetches)
      /\ astray' = astray /\ Pages!Open = {}
  BY Zenon DEF Pages!OpenDialog, Pages!PageOffers, Pages!ListOffers
<1>2. ui \in Screens /\ fetches \subseteq Inquiries /\ x \in Subjects /\ x # None
  BY PageAssumption DEF PageTypes, ScreenTypes, Subjects
<1>3. /\ \A e \in DOMAIN Pages!Dialogs : /\ ui'.open[e] = IF e = d THEN x ELSE ui.open[e]
                                         /\ ui'.detail[e] = IF e = d THEN None ELSE ui.detail[e]
      /\ ui'.busy = ui.busy \ Pages!Resets({d})
  BY <1>1, <1>2, OpenedForms
<1>4. \A e \in DOMAIN Pages!Dialogs : ui.open[e] = None
  BY <1>1, OpenIs
<1>5. Lessens /\ \A s \in Slots : calls[s] # None => calls[s].own = {}
  BY <1>1 DEF Lessens, DialogInv, Owned
<1>6. Owned'
  BY <1>1, <1>5, OwnedKept DEF DialogInv
<1>7. Matched'
  <2>1. \A f \in fetches : f.dialog \in DOMAIN Pages!Dialogs /\ f.thing # None
    BY <1>2, PageAssumption DEF Inquiries, Fetching
  <2>2. page \notin {"goals", "habits"} => \A f \in fetches : ~(f.mounted /\ Pages!Dialogs[f.dialog].fetches = "mounted")
    BY <1>4, <2>1 DEF DialogInv, Matched
  <2>3. \A f \in fetches' : f \in fetches \/ (f.dialog = d /\ f.thing = x)
    BY <1>1, FetchForms
  <2> QED
    BY <1>1, <1>3, <1>4, <2>2, <2>3, MatchedKept DEF DialogInv
<1>8. OneOpen'
  <2>1. \A e \in Pages!Open' : e = d
    BY <1>1, <1>3, <1>4, OpenIs
  <2> QED
    BY <2>1 DEF OneOpen
<1>9. Tight'
  <2> SUFFICES ASSUME Strict, NEW s \in Slots, Active(s), calls[s].act.flag \in ui.busy, calls[s].act.flag \notin ui'.busy
               PROVE  FALSE
    BY <1>1, <1>5, TightKept DEF DialogInv
  <2>1. calls[s].act.flag \in Pages!Dialogs[d].resets
    BY <1>3 DEF Pages!Resets
  <2>2. calls[s].act.local
    BY <2>1, ResetWith DEF DialogInv, Active
  <2> QED
    BY <1>5, <2>2 DEF Active
<1>10. Pent'
  <2>1. Firm => \A s \in Slots : ~Pending(s)
    BY <1>5 DEF DialogInv, Pent, Pending
  <2>2. \A s \in Slots : Pending(s)' => Pending(s)
    BY <1>1 DEF Pending
  <2> QED
    BY <1>1, <1>5, <2>1, <2>2, PentKept DEF DialogInv
<1>11. Known'
  BY <1>1, KnownKept DEF DialogInv
<1> QED
  BY <1>6, <1>7, <1>8, <1>9, <1>10, <1>11 DEF DialogInv

LEMMA FetchAgainForms ==
  ASSUME PageTypes, DialogInv, NEW d \in DOMAIN Pages!Dialogs, Pages!FetchAgain(d)
  PROVE  DialogInv'
<1>1. /\ page' = page /\ ui' = ui /\ calls' = calls /\ astray' = astray /\ Pages!Fetch(d, ui.open[d], fetches)
  BY Zenon DEF Pages!FetchAgain
<1>2. \A f \in fetches' : f \in fetches \/ (f.dialog = d /\ f.thing = ui.open[d])
  BY <1>1, FetchForms
<1>3. Matched'
  BY <1>1, <1>2, MatchedKept DEF DialogInv
<1>4. \A s \in Slots : Pending(s)' => Pending(s)
  BY <1>1 DEF Pending
<1>5. \A s \in Slots : calls'[s] # None => calls[s] # None /\ calls'[s].act = calls[s].act /\ calls'[s].own = calls[s].own \ {}
  BY <1>1
<1>6. {} \in SUBSET DOMAIN Pages!Dialogs
  OBVIOUS
<1>7. Owned' /\ OneOpen' /\ Tight' /\ Pent'
  BY <1>1, <1>4, <1>5, <1>6, ClosesStep
<1>8. Known'
  BY <1>1, KnownKept DEF DialogInv
<1> QED
  BY <1>3, <1>7, <1>8 DEF DialogInv

\* A dialog that offers another one has nothing in progress on a firm page.
LEMMA ReplaceForms ==
  ASSUME PageTypes, DialogInv, NEW d \in DOMAIN Pages!Dialogs, NEW e, Pages!Replace(d, e)
  PROVE  DialogInv'
<1> DEFINE u == Pages!Left(ui, {d})
<1>1. /\ page' = page /\ calls' = Pages!Disowned({d}) /\ astray' = astray
      /\ ui' = Pages!Opened(u, e, ui.open[d]) /\ Pages!Fetch(e, ui.open[d], Pages!Unmounted({d}))
      /\ e \in DOMAIN Pages!Dialogs /\ d \in Pages!Open /\ e \in DOMAIN Pages!Dialogs[d].offers
  BY Zenon DEF Pages!Replace, Pages!DialogOffers
<1>2. ScreenTypes /\ ui \in Screens /\ fetches \subseteq Inquiries /\ page \in DOMAIN Design
  BY DEF PageTypes, ScreenTypes
<1>3. /\ u \in Screens /\ u.detail = ui.detail /\ u.busy = ui.busy \ Pages!Resets({d})
      /\ \A x \in DOMAIN Pages!Dialogs : u.open[x] = IF x = d THEN None ELSE ui.open[x]
  <2>1. u \in Screens
    BY <1>2, LeftIs
  <2>2. /\ \A x \in DOMAIN Pages!Dialogs : u.open[x] = IF x \in {d} THEN None ELSE ui.open[x]
        /\ u.detail = ui.detail /\ u.busy = ui.busy \ Pages!Resets({d})
    BY <1>2, LeftForms
  <2> HIDE DEF u
  <2> QED
    BY <2>1, <2>2
<1> HIDE DEF u
<1>4. PICK y \in Subjects : y = ui.open[d]
  BY <1>1, <1>2, LoadsTyped DEF Subjects
<1>5. /\ \A x \in DOMAIN Pages!Dialogs : /\ ui'.open[x] = IF x = e THEN y ELSE u.open[x]
                                         /\ ui'.detail[x] = IF x = e THEN None ELSE u.detail[x]
      /\ ui'.busy = u.busy \ Pages!Resets({e})
  <2>1. u \in Screens /\ e \in DOMAIN Pages!Dialogs /\ ui' = Pages!Opened(u, e, y)
    BY <1>1, <1>3, <1>4 DEF u
  <2>2. u \in Screens /\ e \in DOMAIN Pages!Dialogs /\ y \in Subjects
    BY <2>1
  <2>3. LET v == Pages!Opened(u, e, y) IN
        /\ \A x \in DOMAIN Pages!Dialogs : /\ v.open[x] = IF x = e THEN y ELSE u.open[x]
                                           /\ v.detail[x] = IF x = e THEN None ELSE u.detail[x]
        /\ v.busy = u.busy \ Pages!Resets({e})
    BY <2>2, OpenedForms
  <2> QED
    BY <2>1, <2>3
<1>6. \A s \in Slots : Yields(s, {d})
  BY <1>1, <1>2, AllYield
<1>7. Lessens
  BY <1>6 DEF Lessens, Yields
<1>8. \A x \in Pages!Open : x = d \/ Whole(x)
  BY <1>1, <1>2, OfItsForms DEF DialogInv, OneOpen
<1>9. \A s \in Slots : calls[s] # None => calls[s].own \subseteq {d}
  BY <1>8, ItCloses DEF DialogInv, Owned
<1>10. Owned'
  BY <1>1, <1>6, <1>7, <1>9, OwnedKept DEF DialogInv, Yields
<1>11. Matched'
  <2>1. \A f \in fetches' : f \in Pages!Unmounted({d}) \/ (f.dialog = e /\ f.thing = ui.open[d])
    BY <1>1, FetchForms
  <2>2. ASSUME NEW f \in Pages!Unmounted({d}), f.mounted
        PROVE  f.dialog # d /\ \E g \in fetches : g.mounted /\ g.dialog = f.dialog /\ g.thing = f.thing
    <3>1. PICK ds : ds = {d}
      OBVIOUS
    <3>2. f \in Pages!Unmounted(ds)
      BY <3>1
    <3>3. f.dialog \notin ds /\ \E g \in fetches : g.mounted /\ g.dialog = f.dialog /\ g.thing = f.thing
      BY <1>2, <2>2, <3>2, StillMounted
    <3> QED
      BY <3>1, <3>3
  <2>3. \A g \in fetches : g.dialog \in DOMAIN Pages!Dialogs /\ g.thing # None
    BY <1>2, PageAssumption DEF Inquiries, Fetching
  <2>4. ASSUME page \notin {"goals", "habits"}, NEW f \in fetches', f.mounted, Pages!Dialogs[f.dialog].fetches = "mounted"
        PROVE  \/ ui'.open[f.dialog] = f.thing
               \/ /\ \E g \in fetches : g.mounted /\ g.dialog = f.dialog /\ g.thing = f.thing
                  /\ ui'.open[f.dialog] = ui.open[f.dialog]
    <3>1. CASE f.dialog = e /\ f.thing = ui.open[d]
      BY <1>1, <1>4, <1>5, <3>1
    <3>2. CASE f \in Pages!Unmounted({d})
      <4>1. PICK g \in fetches : g.mounted /\ g.dialog = f.dialog /\ g.thing = f.thing
        BY <2>2, <2>4, <3>2
      <4>2. ui.open[f.dialog] = f.thing /\ f.dialog \in DOMAIN Pages!Dialogs /\ f.thing # None
        BY <2>3, <2>4, <4>1 DEF DialogInv, Matched
      <4>3. f.dialog = d
        BY <1>8, <2>4, <4>2, OpenIs DEF Whole
      <4> QED
        BY <2>2, <2>4, <3>2, <4>3
    <3> QED
      BY <2>1, <3>1, <3>2
  <2> QED
    BY <1>1, <1>3, <1>5, <2>4, MatchedKept DEF DialogInv
<1>12. OneOpen'
  <2>1. \A x \in Pages!Open' : x = e \/ Whole(x)
    BY <1>1, <1>3, <1>4, <1>5, <1>8, OpenIs
  <2> QED
    BY <1>1, <2>1, SameTable DEF OneOpen
<1>13. Tight'
  <2> SUFFICES ASSUME Strict, NEW s \in Slots, Active(s), Active(s)', calls[s].act.flag \in ui.busy, calls[s].act.flag \notin ui'.busy
               PROVE  FALSE
    BY <1>1, <1>7, TightKept DEF DialogInv
  <2>1. calls[s] # None /\ calls'[s].own = {}  /\ calls'[s].act = calls[s].act
    BY <1>6, <1>9 DEF Active, Yields
  <2>2. PICK x \in {d, e} : calls[s].act.flag \in Pages!Dialogs[x].resets
    BY <1>3, <1>5 DEF Pages!Resets
  <2>3. calls[s].act.local
    BY <1>1, <2>1, <2>2, ResetWith DEF DialogInv
  <2> QED
    BY <2>1, <2>3 DEF Active
<1>14. Pent'
  <2>1. Firm => \A s \in Slots : ~Pending(s)
    <3> SUFFICES ASSUME Firm, NEW s \in Slots, Pending(s) PROVE FALSE
      OBVIOUS
    <3>1. calls[s] # None /\ d \in calls[s].own
      BY <1>9 DEF DialogInv, Pent, Pending
    <3>2. DOMAIN Pages!Dialogs[d].offers \cap DOMAIN Pages!Dialogs = {}
      BY <3>1, OwnWaits
    <3> QED
      BY <1>1, <3>2
  <2>2. \A s \in Slots : Pending(s)' => Pending(s)
    BY <1>6 DEF Pending, Yields
  <2> QED
    BY <1>1, <1>7, <2>1, <2>2, PentKept DEF DialogInv
<1>15. Known'
  BY <1>1, KnownKept DEF DialogInv
<1> QED
  BY <1>10, <1>11, <1>12, <1>13, <1>14, <1>15 DEF DialogInv

-----------------------------------------------------------------------------
(* Handlers and answers.                                                   *)

\* The steps of a handler, and what is taken from the others meanwhile.
LEMMA AdvancesForms ==
  ASSUME ScreenTypes, NEW s \in Slots, calls[s] # None, NEW ds,
         NEW stage \in {"sent", "done", "refused", "fetching", "loading"},
         \/ calls' = [calls EXCEPT ![s].stage = stage] /\ ds = {}
         \/ calls' = [Pages!Disowned(ds) EXCEPT ![s].stage = stage]
  PROVE  /\ calls'[s] # None /\ calls'[s].act = calls[s].act /\ calls'[s].stage = stage
         /\ calls'[s].own = calls[s].own \ ds
         /\ \A t \in Slots \ {s} : Yields(t, ds)
<1>1. calls[s] \in Progress /\ calls \in [Slots -> {None} \cup Progress]
  BY DEF ScreenTypes
<1>2. calls'[s] # None /\ SameCall(calls'[s], calls[s]) /\ calls'[s].stage = stage
  BY CallAdvances
<1>3. CASE calls' = [calls EXCEPT ![s].stage = stage] /\ ds = {}
  <2> DEFINE c == [calls[s] EXCEPT !.stage = stage]
  <2>1. calls' = [calls EXCEPT ![s] = c]
    BY <1>3
  <2>2. c.own = calls[s].own
    BY <1>1 DEF Progress
  <2> HIDE DEF c
  <2>3. calls'[s].own = calls[s].own \ ds
    BY <1>1, <1>3, <2>1, <2>2
  <2>4. \A t \in Slots \ {s} : Yields(t, ds)
    BY <1>3, <2>1, OthersStay
  <2> QED
    BY <1>2, <2>3, <2>4 DEF SameCall
<1>4. CASE calls' = [Pages!Disowned(ds) EXCEPT ![s].stage = stage]
  <2> DEFINE own == [calls[s] EXCEPT !.own = @ \ ds]
             c   == [own EXCEPT !.stage = stage]
  <2>1. Pages!Disowned(ds)[s] = own /\ DOMAIN Pages!Disowned(ds) = Slots
    BY DEF Pages!Disowned
  <2>2. own \in Progress /\ own.own = calls[s].own \ ds
    <3>1. calls[s].own \ ds \in SUBSET UNION {DOMAIN Design[p].dialogs : p \in DOMAIN Design}
      BY <1>1 DEF Progress
    <3> QED
      BY <1>1, <3>1 DEF Progress
  <2> HIDE DEF own
  <2>3. calls' = [Pages!Disowned(ds) EXCEPT ![s] = c]
    BY <1>4, <2>1
  <2>4. c.own = calls[s].own \ ds
    BY <2>2 DEF Progress
  <2> HIDE DEF c
  <2>5. calls'[s].own = calls[s].own \ ds
    BY <2>1, <2>3, <2>4
  <2>6. \A t \in Slots \ {s} : Yields(t, ds)
    BY <2>3, OthersYield
  <2> QED
    BY <1>2, <2>5, <2>6 DEF SameCall
<1> QED
  BY <1>3, <1>4

\* What an answer leaves of the dialogs.
LEMMA AnswerForms ==
  ASSUME NEW u \in Screens, NEW d \in DOMAIN Pages!Dialogs, NEW x \in Things \cup {None}, NEW y \in Things
  PROVE  LET shown == [u EXCEPT !.detail[d] = x]
             whole == [shown EXCEPT !.open[d] = y]
         IN  /\ shown.open = u.open /\ shown.busy = u.busy
             /\ whole.detail = shown.detail /\ whole.busy = u.busy
             /\ \A e \in DOMAIN Pages!Dialogs : /\ shown.detail[e] = IF e = d THEN x ELSE u.detail[e]
                                                /\ whole.open[e] = IF e = d THEN y ELSE u.open[e]
<1> DEFINE open == [u.open EXCEPT ![d] = y]
           detail == [u.detail EXCEPT ![d] = x]
           shown == [u EXCEPT !.detail = detail]
           whole == [shown EXCEPT !.open = open]
<1>1. u.open \in Openings /\ u.detail \in Details
  BY DEF Screens
<1>2. \A e \in DOMAIN Pages!Dialogs : /\ open[e] = IF e = d THEN y ELSE u.open[e]
                                      /\ detail[e] = IF e = d THEN x ELSE u.detail[e]
  BY <1>1 DEF Openings, Details
<1>3. [u EXCEPT !.detail[d] = x] = shown
  OBVIOUS
<1>4. shown.open = u.open
  BY DEF Screens
<1>5. [shown EXCEPT !.open[d] = y] = whole
  BY <1>4
<1> HIDE DEF open, detail
<1>6. /\ shown.detail = detail /\ shown.busy = u.busy
      /\ whole.detail = detail /\ whole.busy = u.busy /\ whole.open = open
  BY DEF Screens
<1> HIDE DEF shown, whole
<1> QED
  BY <1>2, <1>3, <1>4, <1>5, <1>6

\* The pages that an answer may go astray on.
LEMMA StraysAre ==
  /\ Pages!Strays["closes"] = Pages!LooseForms \cup {"imported"} /\ Pages!Strays["twice"] = Pages!LooseForms
  /\ Pages!Strays["mixes"] = {"goals", "habits"} /\ Pages!Strays["reopens"] = {"users"}
BY DEF Pages!Strays

LEMMA ReceiveForms ==
  ASSUME PageTypes, DialogInv, NEW f \in fetches, NEW answered \in BOOLEAN, Pages!Receive(f, answered)
  PROVE  DialogInv'
<1> DEFINE d     == f.dialog
           how   == Pages!Dialogs[d].fetches
           x     == IF answered THEN f.thing ELSE None
           shown == [ui EXCEPT !.detail[d] = x]
           whole == [shown EXCEPT !.open[d] = f.thing]
           after == CASE how = "whole"     -> whole
                      [] how = "mounted"   -> IF f.mounted THEN shown ELSE ui
                      [] how = "unguarded" -> shown
           s     == f.slot
<1>1. /\ page' = page /\ fetches' = fetches \ {f}
      /\ IF s = 0 THEN ui' = after /\ calls' = calls
         ELSE /\ Pages!Load(after, FALSE, calls[s].query, s)
              /\ calls' = [calls EXCEPT ![s].stage = "loading"]
      /\ astray' = astray \cup {what \in {"reopens"} : d \notin Pages!Open /\ after.open[d] # None}
                          \cup {what \in {"mixes"} : d \in Pages!Open /\ after.detail[d] \notin {None, after.open[d]}}
  BY Zenon DEF Pages!Receive
<1>2. ScreenTypes /\ Awaited /\ ui \in Screens /\ f \in Inquiries /\ page \in DOMAIN Design
  BY DEF PageTypes, ScreenTypes
<1>3. d \in DOMAIN Pages!Dialogs /\ how \in {"mounted", "unguarded", "whole"} /\ f.thing \in Things
      /\ x \in Things \cup {None}
  BY <1>2 DEF Inquiries, Fetching
<1>4. after \in Screens
  BY AnswerIs, Zenon
<1> HIDE DEF x
<1>5. /\ shown.open = ui.open /\ shown.busy = ui.busy /\ whole.detail = shown.detail /\ whole.busy = ui.busy
      /\ \A e \in DOMAIN Pages!Dialogs : /\ shown.detail[e] = IF e = d THEN x ELSE ui.detail[e]
                                         /\ whole.open[e] = IF e = d THEN f.thing ELSE ui.open[e]
  <2> HIDE DEF d
  <2>1. PICK y \in Things : y = f.thing
    BY <1>3
  <2> DEFINE entire == [shown EXCEPT !.open[d] = y]
  <2>2. /\ shown.open = ui.open /\ shown.busy = ui.busy /\ entire.detail = shown.detail /\ entire.busy = ui.busy
        /\ \A e \in DOMAIN Pages!Dialogs : /\ shown.detail[e] = IF e = d THEN x ELSE ui.detail[e]
                                           /\ entire.open[e] = IF e = d THEN y ELSE ui.open[e]
    BY <1>2, <1>3, AnswerForms
  <2>3. whole = entire
    BY <2>1
  <2> QED
    BY <2>1, <2>2, <2>3, Zenon
<1> HIDE DEF shown, whole
<1>6. /\ after.busy = ui.busy
      /\ \A e \in DOMAIN Pages!Dialogs :
           /\ after.open[e] = IF e = d /\ how = "whole" THEN f.thing ELSE ui.open[e]
           /\ after.detail[e] = IF e = d /\ (how = "mounted" => f.mounted) THEN x ELSE ui.detail[e]
  BY <1>3, <1>5
<1> HIDE DEF after
<1>7. SameForms(ui', after)
  <2>1. CASE s = 0
    BY <1>1, <2>1 DEF SameForms
  <2>2. CASE s # 0
    BY <1>1, <1>4, <2>2, LoadForms
  <2> QED
    BY <2>1, <2>2
<1> HIDE DEF d, how, s
<1>8. /\ ui'.busy = ui.busy
      /\ \A e \in DOMAIN Pages!Dialogs :
           /\ ui'.open[e] = IF e = d /\ how = "whole" THEN f.thing ELSE ui.open[e]
           /\ ui'.detail[e] = IF e = d /\ (how = "mounted" => f.mounted) THEN x ELSE ui.detail[e]
  BY <1>6, <1>7 DEF SameForms
<1>9. \A t \in Slots : Yields(t, {}) \/ (At(t, "fetching") /\ calls'[t] # None /\ calls'[t].act = calls[t].act
                                        /\ calls'[t].stage = "loading" /\ calls'[t].own = calls[t].own \ {})
  <2>1. CASE s = 0
    BY <1>1, <2>1 DEF Yields
  <2>2. CASE s # 0
    <3>1. s \in Slots /\ At(s, "fetching") /\ calls[s] # None
      BY <1>2, <2>2 DEF Awaited, At, Inquiries, s
    <3>2. PICK ds : ds = {}
      OBVIOUS
    <3>3. calls' = [calls EXCEPT ![s].stage = "loading"]
      BY <1>1, <2>2
    <3>4. /\ calls'[s] # None /\ calls'[s].act = calls[s].act /\ calls'[s].stage = "loading"
          /\ calls'[s].own = calls[s].own \ ds /\ \A t \in Slots \ {s} : Yields(t, ds)
      BY <1>2, <3>1, <3>2, <3>3, AdvancesForms
    <3> QED
      BY <3>1, <3>2, <3>4
  <2> QED
    BY <2>1, <2>2
<1>10. Owned' /\ OneOpen' /\ Tight' /\ Pent'
  <2>1. \A t \in Slots : calls'[t] # None =>
          calls[t] # None /\ calls'[t].act = calls[t].act /\ calls'[t].own = calls[t].own \ {}
    BY <1>9 DEF Yields, At
  <2>2. \A e \in DOMAIN Pages!Dialogs : Whole(e) \/ ui'.open[e] = IF e \in {} THEN None ELSE ui.open[e]
    BY <1>8 DEF Whole, how
  <2>3. \A t \in Slots : Pending(t)' => Pending(t)
    BY <1>9 DEF Pending, Yields
  <2>4. PICK ds \in SUBSET DOMAIN Pages!Dialogs : ds = {}
    OBVIOUS
  <2> QED
    BY <1>1, <1>8, <2>1, <2>2, <2>3, <2>4, ClosesStep
<1>11. page \notin {"goals", "habits"} => how \in {"mounted", "whole"}
  BY <1>2, <1>3, OfItsForms DEF how
<1>12. ASSUME page \notin {"goals", "habits"}, NEW e \in DOMAIN Pages!Dialogs, ui'.open[e] # None
       PROVE  \/ ui'.detail[e] \in {None, ui'.open[e]}
              \/ ui'.open[e] = ui.open[e] /\ ui'.detail[e] = ui.detail[e]
  <2>1. CASE e = d /\ how = "whole"
    BY <1>8, <2>1 DEF x
  <2>2. CASE e = d /\ how = "mounted" /\ f.mounted
    <3>1. ui.open[d] = f.thing
      BY <1>12, <2>2 DEF DialogInv, Matched, d, how
    <3> QED
      BY <1>8, <2>2, <3>1 DEF x
  <2>3. CASE e # d \/ (how = "mounted" /\ ~f.mounted)
    BY <1>8, <2>3
  <2> QED
    BY <1>11, <1>12, <2>1, <2>2, <2>3
<1>13. Matched'
  <2>1. ASSUME NEW g \in fetches', Pages!Dialogs[g.dialog].fetches = "mounted"
        PROVE  g \in fetches /\ ui'.open[g.dialog] = ui.open[g.dialog]
    <3>1. g \in fetches /\ g.dialog \in DOMAIN Pages!Dialogs
      BY <1>1, <1>2 DEF ScreenTypes, Inquiries, Fetching
    <3>2. g.dialog # d \/ how # "whole"
      BY <2>1 DEF how
    <3> QED
      BY <1>8, <3>1, <3>2
  <2> QED
    BY <1>1, <1>12, <2>1, MatchedKept DEF DialogInv
<1>14. Known'
  <2>1. ASSUME NEW what \in astray', what \notin astray
        PROVE  page \in Pages!Strays[what]
    <3>1. CASE what = "reopens" /\ d \notin Pages!Open /\ after.open[d] # None
      <4>1. how = "whole"
        BY <1>3, <1>6, <3>1, OpenIs DEF d
      <4> QED
        BY <1>2, <1>3, <3>1, <4>1, OfItsForms, StraysAre DEF Whole, how, d
    <3>2. CASE what = "mixes" /\ d \in Pages!Open /\ after.detail[d] \notin {None, after.open[d]}
      <4>1. CASE page \in {"goals", "habits"}
        BY <3>2, <4>1, StraysAre
      <4>2. CASE page \notin {"goals", "habits"}
        <5>1. d \in DOMAIN Pages!Dialogs /\ ui.open[d] # None /\ ui.detail[d] \in {None, ui.open[d]}
          BY <3>2, <4>2, OpenIs DEF DialogInv, Matched
        <5>2. ui'.detail[d] \notin {None, ui'.open[d]} /\ ui'.open[d] # None
          BY <1>3, <1>7, <1>8, <3>2, <5>1, PageAssumption DEF SameForms, d
        <5> QED
          BY <1>12, <4>2, <5>1, <5>2
      <4> QED
        BY <4>1, <4>2
    <3> QED
      BY <1>1, <2>1, <3>1, <3>2
  <2> QED
    BY <1>1, <2>1, KnownKept DEF DialogInv
<1> QED
  BY <1>10, <1>13, <1>14 DEF DialogInv

\* A handler starts: on a strict page none that closes dialogs is in its way.
LEMMA StartForms ==
  ASSUME PageTypes, DialogInv, NEW act \in DOMAIN Pages!Acts, NEW from \in SUBSET Pages!Open, Pages!Start(act, from),
         \/ from = {} /\ (Pages!PageOffers(act) \/ Pages!ListOffers(act))
         \/ \E d \in Pages!Open : from = {d} /\ Pages!DialogOffers(d, act)
  PROVE  DialogInv'
<1> DEFINE chosen == Pages!Acts[act]
           own    == chosen.closes \cap from
           thing  == IF chosen.fetches \in Pages!Open THEN ui.open[chosen.fetches] ELSE None
           call   == [act |-> chosen, query |-> ui.query, own |-> own, stage |-> "sent", change |-> 0, thing |-> thing]
<1>1. /\ page' = page /\ fetches' = fetches /\ ui' = [ui EXCEPT !.busy = @ \cup {chosen.flag}]
      /\ astray' = astray \cup {what \in {"twice"} : \E s \in Slots : calls[s] # None /\ calls[s].own \cap own # {}}
  BY Zenon DEF Pages!Start
<1>2. PICK s \in Slots : calls[s] = None /\ calls' = [calls EXCEPT ![s] = call]
  BY Zenon DEF Pages!Start
<1>3. ui \in Screens /\ page \in DOMAIN Design /\ calls \in [Slots -> {None} \cup Progress]
  BY DEF PageTypes, ScreenTypes
<1>4. ui'.open = ui.open /\ ui'.detail = ui.detail /\ ui'.busy = ui.busy \cup {chosen.flag}
  BY <1>1, <1>3 DEF Screens
<1>5. calls'[s] = call /\ \A t \in Slots \ {s} : calls'[t] = calls[t]
  BY <1>2, <1>3
<1>6. call.act = chosen /\ call.own = own /\ call.stage = "sent"
  OBVIOUS
<1>7. \A d : d \in Pages!Open' <=> d \in Pages!Open
  BY <1>1, <1>4, OpenIs
<1>8. Strict /\ chosen.flag \in Gated => chosen.flag \notin ui.busy
  <2>1. ASSUME Strict, chosen.flag \in Gated, Pages!PageOffers(act) \/ Pages!ListOffers(act)
        PROVE  chosen.flag \notin ui.busy
    BY <1>3, <2>1, OfItsForms DEF Pages!PageOffers, Pages!ListOffers, Pages!Free, Pages!Flags
  <2>2. ASSUME Strict, chosen.flag \in Gated, NEW d \in Pages!Open, Pages!DialogOffers(d, act)
        PROVE  chosen.flag \notin ui.busy
    BY <1>3, <2>2, OpenIs, OfItsForms DEF Pages!DialogOffers, Pages!Free, Pages!Flags
  <2> QED
    BY <2>1, <2>2
<1>9. chosen.closes # {} => act \in Closers /\ chosen.flag \in Gated
  BY DEF Closers, Gated
<1>10. \A d \in own : /\ d \in Pages!Open /\ d \in chosen.closes /\ from = {d} /\ Pages!DialogOffers(d, act)
                      /\ act \in DOMAIN Pages!Dialogs[d].offers
  BY DEF Pages!DialogOffers
<1>11. Strict => \A t \in Slots : calls[t] # None => calls[t].own \cap own = {}
  <2> SUFFICES ASSUME Strict, NEW t \in Slots, calls[t] # None, NEW d \in own, d \in calls[t].own
               PROVE  FALSE
    OBVIOUS
  <2>1. d \in DOMAIN Pages!Dialogs /\ d \in calls[t].act.closes /\ OfferedIn(calls[t].act, d)
    BY OpenIs DEF DialogInv, Owned
  <2>2. PICK c \in DOMAIN Pages!Dialogs[d].offers \cap DOMAIN Pages!Acts : calls[t].act = Pages!Acts[c]
    BY <2>1 DEF OfferedIn
  <2>3. c \in Closers /\ Pages!Acts[c].flag \in Gated
    BY <2>1, <2>2 DEF Closers, Gated
  <2>4. Pages!Acts[c].flag \in ui.busy
    BY <2>2, <2>3 DEF DialogInv, Tight, Active
  <2>5. act \in Closers /\ act \in DOMAIN Pages!Dialogs[d].offers
    BY <1>9, <1>10
  <2>6. Pages!Acts[c].flag \in Pages!Dialogs[d].offers[act]
    BY <1>3, <2>1, <2>2, <2>3, <2>5, OfItsForms
  <2> QED
    BY <1>10, <2>4, <2>6 DEF Pages!DialogOffers, Pages!Free, Pages!Flags
<1> HIDE DEF own, thing, call
<1>12. Owned'
  <2> SUFFICES ASSUME NEW t \in Slots, calls'[t] # None
               PROVE  /\ calls'[t].own \subseteq calls'[t].act.closes
                      /\ \A d \in calls'[t].own : d \in Pages!Open' /\ OfferedIn(calls'[t].act, d)
    BY <1>1, SamePage DEF Owned, OfferedIn
  <2>1. CASE t = s
    BY <1>5, <1>6, <1>7, <1>10, <2>1 DEF own, OfferedIn
  <2>2. CASE t # s
    BY <1>5, <1>7, <2>2 DEF DialogInv, Owned
  <2> QED
    BY <2>1, <2>2
<1>13. Matched'
  BY <1>1, <1>4, MatchedKept DEF DialogInv
<1>14. OneOpen'
  BY <1>1, <1>7, OneOpenKept DEF DialogInv
<1>15. \A t \in Slots : t # s => (Active(t)' <=> Active(t)) /\ (Pending(t)' <=> Pending(t))
  BY <1>5 DEF Active, Pending
<1>16. Tight'
  <2> SUFFICES ASSUME Strict
               PROVE  /\ \A t \in Slots : Active(t)' /\ calls'[t].act.flag \in Gated => calls'[t].act.flag \in ui'.busy
                      /\ \A t, r \in Slots :
                           Active(t)' /\ Active(r)' /\ calls'[t].act.flag \in Gated /\ calls'[t].act.flag = calls'[r].act.flag => t = r
                      /\ \A t, r \in Slots : calls'[t] # None /\ calls'[r] # None /\ t # r => calls'[t].own \cap calls'[r].own = {}
    BY <1>1, SameTable DEF Tight
  <2>1. \A t \in Slots : t # s /\ Active(t) /\ calls[t].act.flag \in Gated => calls[t].act.flag \in ui.busy
    BY DEF DialogInv, Tight
  <2>2. \A t \in Slots : Active(t)' /\ calls'[t].act.flag \in Gated => calls'[t].act.flag \in ui'.busy
    BY <1>4, <1>5, <1>6, <1>15, <2>1
  <2>3. \A t \in Slots : t # s /\ Active(t)' /\ calls'[t].act.flag \in Gated => calls'[t].act.flag # chosen.flag
    BY <1>5, <1>8, <1>15, <2>1
  <2>4. \A t, r \in Slots :
          Active(t)' /\ Active(r)' /\ calls'[t].act.flag \in Gated /\ calls'[t].act.flag = calls'[r].act.flag => t = r
    BY <1>5, <1>6, <1>15, <2>3 DEF DialogInv, Tight
  <2>5. \A t, r \in Slots : calls'[t] # None /\ calls'[r] # None /\ t # r => calls'[t].own \cap calls'[r].own = {}
    BY <1>5, <1>6, <1>11 DEF DialogInv, Tight
  <2> QED
    BY <2>2, <2>4, <2>5
<1>17. Pent'
  <2> SUFFICES ASSUME Firm, NEW t \in Slots, Pending(t)'
               PROVE  calls'[t].own # {} /\ calls'[t].act.closes \cap Pages!Open' \subseteq calls'[t].own
    BY <1>1, SameTable DEF Pent
  <2>1. CASE t # s
    BY <1>5, <1>7, <1>15, <2>1 DEF DialogInv, Pent
  <2>2. CASE t = s
    <3>1. act \in Closers
      BY <1>5, <1>6, <1>9, <2>2 DEF Pending
    <3>2. act \notin DOMAIN Pages!Layout.offers \cup DOMAIN Pages!List
      BY <1>3, <3>1, OfItsForms DEF Firm
    <3>3. PICK d \in Pages!Open : from = {d} /\ Pages!DialogOffers(d, act)
      BY <3>2 DEF Pages!PageOffers, Pages!ListOffers
    <3>4. d \in DOMAIN Pages!Dialogs /\ act \in DOMAIN Pages!Dialogs[d].offers
      BY <3>3, OpenIs DEF Pages!DialogOffers
    <3>5. d \in chosen.closes
      BY <1>3, <3>1, <3>4, OfItsForms DEF Firm
    <3>6. \A e \in chosen.closes \cap Pages!Open : e = d
      <4>1. \A e \in chosen.closes : ~Whole(e)
        BY <1>3, OfItsForms
      <4> QED
        BY <3>5, <4>1 DEF DialogInv, OneOpen
    <3> QED
      BY <1>5, <1>6, <1>7, <2>2, <3>3, <3>5, <3>6 DEF own
  <2> QED
    BY <2>1, <2>2
<1>18. Known'
  <2>1. ASSUME NEW what \in astray', what \notin astray PROVE page \in Pages!Strays[what]
    <3>1. what = "twice" /\ ~Strict
      BY <1>1, <1>11, <2>1
    <3> QED
      BY <3>1, StraysAre DEF Strict
  <2> QED
    BY <1>1, <2>1, KnownKept DEF DialogInv
<1> QED
  BY <1>12, <1>13, <1>14, <1>16, <1>17, <1>18 DEF DialogInv

\* A handler gets on, or ends, and no dialog closes: none waits for an answer that did not.
LEMMA StageForms ==
  ASSUME PageTypes, DialogInv, page' = page, ui'.open = ui.open, ui'.detail = ui.detail,
         NEW s \in Slots, calls[s] # None, \A t \in Slots \ {s} : Yields(t, {}),
         calls'[s] # None => /\ calls'[s].act = calls[s].act /\ calls'[s].own = calls[s].own
                             /\ calls'[s].stage \in {"sent", "done"} => calls[s].stage \in {"sent", "done"},
         \/ ui'.busy = ui.busy
         \/ calls'[s] = None /\ ui'.busy = IF calls[s].act.local /\ calls[s].own = {} THEN ui.busy ELSE ui.busy \ {calls[s].act.flag},
         fetches' = fetches, astray' = astray
  PROVE  DialogInv'
<1>1. \A t \in Slots : calls'[t] # None =>
        /\ calls[t] # None /\ calls'[t].act = calls[t].act /\ calls'[t].own = calls[t].own \ {}
        /\ Pending(t)' => Pending(t)
  BY DEF Yields, Pending
<1>2. \A flag \in ui.busy : flag \in ui'.busy \/ \E t \in Slots : Active(t) /\ calls'[t] = None /\ flag = calls[t].act.flag
  BY DEF Active
<1>3. PICK ds \in SUBSET DOMAIN Pages!Dialogs : ds = {}
  OBVIOUS
<1>4. \A t \in Slots : Pending(t)' => Pending(t) /\ calls[t].own \cap ds = {}
  BY <1>1, <1>3 DEF Pending
<1>5. Owned' /\ OneOpen' /\ Tight' /\ Pent'
  BY <1>1, <1>2, <1>3, <1>4, ClosesStep
<1>6. Matched'
  BY MatchedKept DEF DialogInv
<1>7. Known'
  BY KnownKept DEF DialogInv
<1> QED
  BY <1>5, <1>6, <1>7 DEF DialogInv

LEMMA RefuseForms ==
  ASSUME PageTypes, DialogInv, NEW s \in Slots, Pages!Refuse(s)
  PROVE  DialogInv'
<1>1. /\ page' = page /\ ui' = ui /\ fetches' = fetches /\ astray' = astray
      /\ calls[s] # None /\ calls' = [calls EXCEPT ![s].stage = "refused"]
  BY Zenon DEF Pages!Refuse
<1>2. PICK ds : ds = {}
  OBVIOUS
<1>3. ScreenTypes
  BY DEF PageTypes
<1>4. /\ calls'[s].act = calls[s].act /\ calls'[s].stage = "refused" /\ calls'[s].own = calls[s].own \ ds
      /\ \A t \in Slots \ {s} : Yields(t, ds)
  BY <1>1, <1>2, <1>3, AdvancesForms
<1> QED
  BY <1>1, <1>2, <1>4, StageForms

LEMMA CommitForms ==
  ASSUME PageTypes, DialogInv, NEW s \in Slots, Pages!Commit(s)
  PROVE  DialogInv'
<1>1. /\ page' = page /\ ui' = ui /\ fetches' = fetches /\ astray' = astray
      /\ calls[s] # None /\ calls[s].stage = "sent"
      /\ \/ \E n : calls' = [calls EXCEPT ![s].stage = "done", ![s].change = n]
         \/ calls' = [calls EXCEPT ![s].stage = "refused"]
  BY Zenon DEF Pages!Commit
<1>2. PICK ds : ds = {}
  OBVIOUS
<1>3. ScreenTypes /\ calls \in [Slots -> {None} \cup Progress] /\ calls[s] \in Progress
  BY <1>1 DEF PageTypes, ScreenTypes
<1>4. CASE \E n : calls' = [calls EXCEPT ![s].stage = "done", ![s].change = n]
  <2>1. PICK n : calls' = [calls EXCEPT ![s].stage = "done", ![s].change = n]
    BY <1>4
  <2> DEFINE c == [calls[s] EXCEPT !.stage = "done", !.change = n]
  <2>2. calls' = [calls EXCEPT ![s] = c]
    BY <1>3, <2>1
  <2>3. c.act = calls[s].act /\ c.own = calls[s].own
    BY <1>3 DEF Progress
  <2> HIDE DEF c
  <2>4. \A t \in Slots \ {s} : Yields(t, {})
    BY <1>3, <2>2, OthersStay
  <2>5. calls'[s].act = calls[s].act /\ calls'[s].own = calls[s].own
    BY <1>3, <2>2, <2>3
  <2> QED
    BY <1>1, <2>4, <2>5, StageForms
<1>5. CASE calls' = [calls EXCEPT ![s].stage = "refused"]
  <2>1. /\ calls'[s].act = calls[s].act /\ calls'[s].stage = "refused" /\ calls'[s].own = calls[s].own \ ds
        /\ \A t \in Slots \ {s} : Yields(t, ds)
    BY <1>1, <1>2, <1>3, <1>5, AdvancesForms
  <2> QED
    BY <1>1, <1>2, <2>1, StageForms
<1> QED
  BY <1>1, <1>4, <1>5

LEMMA RefusedForms ==
  ASSUME PageTypes, DialogInv, NEW s \in Slots, Pages!Refused(s)
  PROVE  DialogInv'
<1>1. /\ page' = page /\ fetches' = fetches /\ astray' = astray /\ calls[s] # None
      /\ \/ Pages!Load(ui, FALSE, calls[s].query, s) /\ calls' = [calls EXCEPT ![s].stage = "loading"]
         \/ ui' = Pages!Finished(ui, calls[s]) /\ calls' = [calls EXCEPT ![s] = None]
  BY Zenon DEF Pages!Refused
<1>2. ScreenTypes /\ ui \in Screens /\ calls \in [Slots -> {None} \cup Progress]
  BY DEF PageTypes, ScreenTypes
<1>3. CASE Pages!Load(ui, FALSE, calls[s].query, s) /\ calls' = [calls EXCEPT ![s].stage = "loading"]
  <2>1. PICK ds : ds = {}
    OBVIOUS
  <2>2. /\ calls'[s].act = calls[s].act /\ calls'[s].stage = "loading" /\ calls'[s].own = calls[s].own \ ds
        /\ \A t \in Slots \ {s} : Yields(t, ds)
    BY <1>1, <1>2, <1>3, <2>1, AdvancesForms
  <2>3. SameForms(ui', ui)
    BY <1>2, <1>3, LoadForms
  <2> QED
    BY <1>1, <2>1, <2>2, <2>3, StageForms DEF SameForms
<1>4. CASE ui' = Pages!Finished(ui, calls[s]) /\ calls' = [calls EXCEPT ![s] = None]
  <2>1. /\ ui'.open = ui.open /\ ui'.detail = ui.detail
        /\ ui'.busy = IF calls[s].act.local /\ calls[s].own = {} THEN ui.busy ELSE ui.busy \ {calls[s].act.flag}
    BY <1>2, <1>4, FinishedForms
  <2>2. calls'[s] = None /\ \A t \in Slots \ {s} : Yields(t, {})
    BY <1>2, <1>4, OthersStay
  <2> QED
    BY <1>1, <2>1, <2>2, StageForms
<1> QED
  BY <1>1, <1>3, <1>4

LEMMA SettleForms ==
  ASSUME PageTypes, DialogInv, NEW i \in DOMAIN loads, Pages!Settle(i)
  PROVE  DialogInv'
<1> DEFINE load  == loads[i]
           after == IF Ignored(i) THEN ui
                    ELSE Pages!Lowered(IF Failing(i) THEN Pages!Disappointed(ui, load) ELSE Pages!Filled(ui, load), load)
           s     == load.slot
<1>1. /\ page' = page /\ fetches' = fetches /\ astray' = astray
      /\ ui' = IF s = 0 THEN after ELSE Pages!Finished(after, calls[s])
      /\ calls' = IF s = 0 THEN calls ELSE [calls EXCEPT ![s] = None]
  BY Zenon DEF Pages!Settle, Applied, Failing, Ignored, Pages!Failed
<1>2. ScreenTypes /\ Awaited /\ ui \in Screens /\ loads \in Seq(Flights) /\ DOMAIN loads = Flight
      /\ calls \in [Slots -> {None} \cup Progress]
  BY FlightIs DEF PageTypes, ScreenTypes
<1>3. load \in Flights
  BY <1>2, FlightIs
<1>4. after \in Screens
  <2>1. Shows(after, i)
    BY <1>2, EndedIs, Zenon
  <2> QED
    BY <2>1, Zenon DEF Shows
<1>5. SameForms(after, ui)
  <2>1. \A u \in Screens : /\ SameForms(Pages!Lowered(u, load), u) /\ SameForms(Pages!Filled(u, load), u)
                           /\ SameForms(Pages!Disappointed(u, load), u)
    BY SettledForms
  <2>2. Pages!Disappointed(ui, load) \in Screens
    BY <1>2, <1>3, DisappointedIs
  <2>3. ~Ignored(i) /\ ~Failing(i) => Pages!Filled(ui, load) \in Screens
    BY <1>2, <1>3, FilledIs DEF Failing
  <2> QED
    BY <1>2, <2>1, <2>2, <2>3 DEF SameForms
<1> HIDE DEF after
<1>6. CASE s = 0
  BY <1>1, <1>5, <1>6, QuietStep
<1>7. CASE s # 0
  <2>1. s \in Slots /\ calls[s] # None
    BY <1>2, <1>3, <1>7 DEF Awaited, At, Flights
  <2> HIDE DEF s
  <2>2. /\ ui'.open = ui.open /\ ui'.detail = ui.detail
        /\ ui'.busy = IF calls[s].act.local /\ calls[s].own = {} THEN ui.busy ELSE ui.busy \ {calls[s].act.flag}
    BY <1>1, <1>4, <1>5, <1>7, FinishedForms DEF SameForms
  <2>3. calls'[s] = None /\ \A t \in Slots \ {s} : Yields(t, {})
    BY <1>1, <1>2, <1>7, <2>1, OthersStay
  <2> QED
    BY <1>1, <2>1, <2>2, <2>3, StageForms
<1> QED
  BY <1>6, <1>7

\* What a handler that is answered leaves of the dialogs.
LEMMA ContinuedForms ==
  ASSUME ui \in Screens, NEW call
  PROVE  LET reset  == IF call.act.resets THEN Pages!Finished(ui, call) ELSE ui
             closed == Pages!Left(reset, call.act.closes)
             freed  == Pages!Finished(closed, call)
         IN  /\ \A d \in DOMAIN Pages!Dialogs : closed.open[d] = IF d \in call.act.closes THEN None ELSE ui.open[d]
             /\ closed.detail = ui.detail
             /\ ~call.act.resets => closed.busy = ui.busy \ Pages!Resets(call.act.closes)
             /\ freed.open = closed.open /\ freed.detail = closed.detail
             /\ freed.busy = IF call.act.local /\ call.own = {} THEN closed.busy ELSE closed.busy \ {call.act.flag}
<1> DEFINE reset  == IF call.act.resets THEN Pages!Finished(ui, call) ELSE ui
           closed == Pages!Left(reset, call.act.closes)
           freed  == Pages!Finished(closed, call)
<1>1. reset \in Screens /\ reset.open = ui.open /\ reset.detail = ui.detail /\ (~call.act.resets => reset.busy = ui.busy)
  BY FinishedIs
<1> HIDE DEF reset
<1>2. /\ closed \in Screens
      /\ \A d \in DOMAIN Pages!Dialogs : closed.open[d] = IF d \in call.act.closes THEN None ELSE reset.open[d]
      /\ closed.detail = reset.detail /\ closed.busy = reset.busy \ Pages!Resets(call.act.closes)
  <2> DEFINE ds == call.act.closes
  <2> HIDE DEF ds
  <2>1. LET v == Pages!Left(reset, ds) IN
        /\ \A d \in DOMAIN Pages!Dialogs : v.open[d] = IF d \in ds THEN None ELSE reset.open[d]
        /\ v.detail = reset.detail /\ v.busy = reset.busy \ Pages!Resets(ds)
    BY <1>1, LeftForms
  <2>2. Pages!Left(reset, ds) \in Screens
    BY <1>1, LeftIs
  <2> QED
    BY <2>1, <2>2 DEF ds
<1> HIDE DEF closed
<1>3. /\ freed.open = closed.open /\ freed.detail = closed.detail
      /\ freed.busy = IF call.act.local /\ call.own = {} THEN closed.busy ELSE closed.busy \ {call.act.flag}
  BY <1>2, FinishedForms
<1> HIDE DEF freed
<1>4. /\ \A d \in DOMAIN Pages!Dialogs : closed.open[d] = IF d \in call.act.closes THEN None ELSE ui.open[d]
      /\ closed.detail = ui.detail
      /\ ~call.act.resets => closed.busy = ui.busy \ Pages!Resets(call.act.closes)
  BY <1>1, <1>2
<1> QED
  BY <1>3, <1>4, Zenon DEF reset, closed, freed

\* An answered handler closes its dialog, and on a firm page no other one.
LEMMA AnsweredForms ==
  ASSUME PageTypes, DialogInv, NEW s \in Slots, Pages!Answered(s)
  PROVE  DialogInv'
<1> DEFINE call   == calls[s]
           act    == call.act
           reset  == IF act.resets THEN Pages!Finished(ui, call) ELSE ui
           closed == Pages!Left(reset, act.closes)
           freed  == Pages!Finished(closed, call)
           ds     == act.closes
           asked  == [dialog |-> act.fetches, thing |-> call.thing, slot |-> s, mounted |-> TRUE]
           Owes   == [Pages!Disowned(ds) EXCEPT ![s].stage = "fetching"]
           Waits  == [Pages!Disowned(ds) EXCEPT ![s].stage = "loading"]
           Gone   == [Pages!Disowned(ds) EXCEPT ![s] = None]
<1>1. /\ page' = page /\ calls[s] # None /\ calls[s].stage = "done"
      /\ astray' = astray \cup {what \in {"closes"} : {d \in ds \cap Pages!Open : d \notin call.own} # {}}
  BY Zenon DEF Pages!Answered
<1>2. \/ /\ call.thing # None /\ ui' = closed /\ fetches' = fetches \cup {asked} /\ calls' = Owes
      \/ /\ Pages!Load(closed, FALSE, call.query, s) /\ calls' = Waits /\ fetches' = Pages!Unmounted(ds)
      \/ /\ Pages!Load(freed, FALSE, call.query, 0) /\ calls' = Gone /\ fetches' = Pages!Unmounted(ds)
      \/ /\ \E q \in Queries \ {call.query} : Pages!Load([freed EXCEPT !.query = q], ~ui.loaded, q, 0)
         /\ calls' = Gone /\ fetches' = Pages!Unmounted(ds)
  BY Zenon DEF Pages!Answered
<1>3. ScreenTypes /\ NewIsOffered /\ ui \in Screens /\ page \in DOMAIN Design /\ calls \in [Slots -> {None} \cup Progress]
  BY DEF PageTypes, ScreenTypes
<1>4. closed \in Screens /\ freed \in Screens
  BY <1>3, ContinuedIs, Zenon
<1>5. /\ \A d \in DOMAIN Pages!Dialogs : closed.open[d] = IF d \in ds THEN None ELSE ui.open[d]
      /\ closed.detail = ui.detail /\ (~act.resets => closed.busy = ui.busy \ Pages!Resets(ds))
      /\ freed.open = closed.open /\ freed.detail = closed.detail
      /\ freed.busy = IF act.local /\ call.own = {} THEN closed.busy ELSE closed.busy \ {act.flag}
  BY <1>3, ContinuedForms, Zenon
<1>6. ds \in SUBSET DOMAIN Pages!Dialogs /\ (Strict => ~act.resets)
  BY <1>1, ItCloses
<1>7. PICK a \in DOMAIN Pages!Acts : act = Pages!Acts[a] /\ (ds # {} => a \in Closers /\ act.flag \in Gated)
  BY <1>1, OfItsHandlers
<1> HIDE DEF closed, freed
<1>8. \/ SameForms(ui', closed) /\ calls' \in {Owes, Waits}
      \/ SameForms(ui', freed) /\ calls' = Gone
  <2>1. \A q : SameForms([freed EXCEPT !.query = q], freed) /\ (q \in Queries => [freed EXCEPT !.query = q] \in Screens)
    BY <1>4, QueryForms, AskedIs
  <2>2. SameForms(closed, closed)
    BY DEF SameForms
  <2>3. CASE /\ \E q \in Queries \ {call.query} : Pages!Load([freed EXCEPT !.query = q], ~ui.loaded, q, 0)
             /\ calls' = Gone
    <3>1. PICK q \in Queries : Pages!Load([freed EXCEPT !.query = q], ~ui.loaded, q, 0)
      BY <2>3
    <3> DEFINE u == [freed EXCEPT !.query = q]
    <3>2. u \in Screens /\ SameForms(u, freed) /\ Pages!Load(u, ~ui.loaded, q, 0)
      BY <2>1, <3>1
    <3> HIDE DEF u
    <3>3. SameForms(ui', u)
      BY <3>2, LoadForms
    <3> QED
      BY <2>3, <3>2, <3>3 DEF SameForms
  <2>4. CASE Pages!Load(closed, FALSE, call.query, s) /\ calls' = Waits
    BY <1>4, <2>4, LoadForms
  <2>5. CASE Pages!Load(freed, FALSE, call.query, 0) /\ calls' = Gone
    BY <1>4, <2>5, LoadForms
  <2> QED
    BY <1>2, <2>2, <2>3, <2>4, <2>5
<1>9. /\ \A d \in DOMAIN Pages!Dialogs : ui'.open[d] = IF d \in ds THEN None ELSE ui.open[d]
      /\ ui'.detail = ui.detail
      /\ Strict => \A flag \in ui.busy :
           flag \in ui'.busy \/ flag \in Pages!Resets(ds)
             \/ (calls' = Gone /\ flag = act.flag /\ ~(act.local /\ call.own = {}))
  BY <1>5, <1>6, <1>8 DEF SameForms
<1> HIDE DEF ds
<1>10. /\ \A t \in Slots \ {s} : Yields(t, ds)
       /\ calls' = Gone => calls'[s] = None
       /\ calls'[s] # None => /\ calls'[s].act = calls[s].act /\ calls'[s].own = calls[s].own \ ds
                              /\ calls'[s].stage \in {"fetching", "loading"}
  <2>1. calls' = Gone => calls'[s] = None
    BY <1>3, CallEnds
  <2>2. CASE calls' = Owes
    <3>1. /\ calls'[s] # None /\ calls'[s].act = calls[s].act /\ calls'[s].stage = "fetching"
          /\ calls'[s].own = calls[s].own \ ds /\ \A t \in Slots \ {s} : Yields(t, ds)
      BY <1>1, <1>3, <2>2, AdvancesForms
    <3> QED
      BY <2>1, <3>1
  <2>3. CASE calls' = Waits
    <3>1. /\ calls'[s] # None /\ calls'[s].act = calls[s].act /\ calls'[s].stage = "loading"
          /\ calls'[s].own = calls[s].own \ ds /\ \A t \in Slots \ {s} : Yields(t, ds)
      BY <1>1, <1>3, <2>3, AdvancesForms
    <3> QED
      BY <2>1, <3>1
  <2>4. CASE calls' = Gone
    <3>1. calls'[s] = None
      BY <1>3, <2>4, CallEnds
    <3> QED
      BY <1>3, <2>4, <3>1, OthersYield
  <2> QED
    BY <1>8, <2>2, <2>3, <2>4
<1>11. Firm => ds \cap Pages!Open \subseteq call.own
  BY <1>1 DEF DialogInv, Pent, Pending, ds
<1>12. Owned' /\ OneOpen' /\ Tight' /\ Pent'
  <2>1. \A t \in Slots : calls'[t] # None =>
          calls[t] # None /\ calls'[t].act = calls[t].act /\ calls'[t].own = calls[t].own \ ds
    BY <1>1, <1>10 DEF Yields
  <2>2. ASSUME Firm, NEW t \in Slots, Pending(t)'
        PROVE  Pending(t) /\ calls[t].own \cap ds = {}
    <3>1. t # s /\ Pending(t) /\ calls[t] # None
      BY <1>10, <2>2 DEF Pending, Yields
    <3>2. calls[t].own \subseteq Pages!Open
      BY <3>1 DEF DialogInv, Owned
    <3>3. calls[t].own \cap call.own = {}
      BY <1>1, <2>2, <3>1 DEF DialogInv, Tight, Firm
    <3> QED
      BY <1>11, <2>2, <3>1, <3>2, <3>3
  <2>3. Strict => \A flag \in ui.busy : \/ flag \in ui'.busy \/ flag \in Pages!Resets(ds)
                                        \/ \E t \in Slots : Active(t) /\ calls'[t] = None /\ flag = calls[t].act.flag
    BY <1>1, <1>9, <1>10 DEF Active
  <2> QED
    BY <1>1, <1>6, <1>9, <2>1, <2>2, <2>3, ClosesStep
<1>13. Matched'
  <2>1. CASE fetches' = Pages!Unmounted(ds)
    BY <1>1, <1>9, <2>1, MatchedLeft DEF DialogInv
  <2>2. CASE call.thing # None /\ fetches' = fetches \cup {asked}
    <3>1. act.fetches \in DOMAIN Pages!Dialogs
      BY <1>1, <1>3, <2>2 DEF ScreenTypes, Proper
    <3>2. \A d \in ds \cup {act.fetches} : Pages!Dialogs[d].fetches # "mounted"
      BY <1>3, <1>7, <3>1, OfItsForms DEF ds
    <3> QED
      BY <1>1, <1>9, <2>2, <3>2, MatchedLeft DEF DialogInv
  <2> QED
    BY <1>2, <2>1, <2>2
<1>14. Known'
  <2>1. ASSUME NEW what \in astray', what \notin astray PROVE page \in Pages!Strays[what]
    <3>1. what = "closes" /\ ~Firm
      BY <1>1, <1>11, <2>1
    <3> QED
      BY <1>3, <3>1, StraysAre DEF Firm, Strict
  <2> QED
    BY <1>1, <2>1, KnownKept DEF DialogInv
<1> QED
  BY <1>12, <1>13, <1>14 DEF DialogInv

\* The answer of the server, a load that is asked for: no dialog is touched.
LEMMA ServedForms ==
  ASSUME PageTypes, DialogInv, NEW i \in DOMAIN loads, Pages!Served(i)
  PROVE  DialogInv'
<1>1. page' = page /\ ui' = ui /\ calls' = calls /\ fetches' = fetches /\ astray' = astray
  BY Zenon DEF Pages!Served
<1> QED
  BY <1>1, QuietStep DEF SameForms

LEMMA AskForms ==
  ASSUME PageTypes, DialogInv, NEW c, Pages!Ask(c)
  PROVE  DialogInv'
<1>1. PICK q \in Queries, initial \in BOOLEAN : Pages!Load([ui EXCEPT !.query = q], initial, q, 0)
  BY Zenon DEF Pages!Ask
<1>2. page' = page /\ calls' = calls /\ fetches' = fetches /\ astray' = astray
  BY Zenon DEF Pages!Ask
<1> DEFINE u == [ui EXCEPT !.query = q]
<1>3. u \in Screens /\ SameForms(u, ui) /\ Pages!Load(u, initial, q, 0)
  BY <1>1, AskedIs, QueryForms DEF PageTypes, ScreenTypes
<1> HIDE DEF u
<1>4. SameForms(ui', u)
  BY <1>3, LoadForms
<1> QED
  BY <1>2, <1>3, <1>4, QuietStep DEF SameForms

LEMMA ReloadForms ==
  ASSUME PageTypes, DialogInv, NEW c, Pages!Reload(c)
  PROVE  DialogInv'
<1>1. page' = page /\ calls' = calls /\ fetches' = fetches /\ astray' = astray /\ Pages!Load(ui, c = "retry", ui.query, 0)
  BY Zenon DEF Pages!Reload
<1>2. SameForms(ui', ui)
  BY <1>1, LoadForms DEF PageTypes, ScreenTypes
<1> QED
  BY <1>1, <1>2, QuietStep

-----------------------------------------------------------------------------
\* Whatever happens, each dialog stays with the handlers that were started from it.
LEMMA DialogStaysOwn ==
  ASSUME PageTypes, DialogInv, Pages!Next
  PROVE  DialogInv'
<1>1. ASSUME NEW i \in DOMAIN loads, Pages!Served(i) \/ Pages!Settle(i) PROVE DialogInv'
  BY <1>1, ServedForms, SettleForms
<1>2. ASSUME NEW c \in {"filter", "pager", "search"}, Pages!Ask(c) PROVE DialogInv'
  BY <1>2, AskForms
<1>3. ASSUME NEW c \in {"retry", "retry quietly", "refresh"}, Pages!Reload(c) PROVE DialogInv'
  BY <1>3, ReloadForms
<1>4. ASSUME NEW d \in DOMAIN Pages!Dialogs, Pages!CloseDialog(d) \/ Pages!FetchAgain(d) PROVE DialogInv'
  BY <1>4, CloseForms, FetchAgainForms
<1>5. ASSUME NEW d \in DOMAIN Pages!Dialogs, NEW x \in Things \cup {"new"}, Pages!OpenDialog(d, x) PROVE DialogInv'
  BY <1>5, OpenForms
<1>6. ASSUME NEW d \in DOMAIN Pages!Dialogs, NEW e \in DOMAIN Pages!Dialogs[d].offers, Pages!Replace(d, e) PROVE DialogInv'
  BY <1>6, ReplaceForms
<1>7. ASSUME Pages!Escape PROVE DialogInv'
  BY <1>7, EscapeForms
<1>8. ASSUME NEW f \in fetches, NEW answered \in BOOLEAN, Pages!Receive(f, answered) PROVE DialogInv'
  BY <1>8, ReceiveForms
<1>9. ASSUME NEW act \in DOMAIN Pages!Acts, Pages!PageOffers(act) \/ Pages!ListOffers(act), Pages!Start(act, {}) PROVE DialogInv'
  BY <1>9, StartForms
<1>10. ASSUME NEW act \in DOMAIN Pages!Acts, NEW d \in Pages!Open, Pages!DialogOffers(d, act), Pages!Start(act, {d}) PROVE DialogInv'
  <2> DEFINE from == {d}
  <2>1. from \in SUBSET Pages!Open /\ Pages!Start(act, from) /\ \E x \in Pages!Open : from = {x} /\ Pages!DialogOffers(x, act)
    BY <1>10
  <2> HIDE DEF from
  <2> QED
    BY <2>1, StartForms
<1>11. ASSUME NEW s \in Slots, Pages!Commit(s) \/ Pages!Refuse(s) \/ Pages!Answered(s) \/ Pages!Refused(s) PROVE DialogInv'
  BY <1>11, CommitForms, RefuseForms, AnsweredForms, RefusedForms
<1> QED
  BY <1>1, <1>2, <1>3, <1>4, <1>5, <1>6, <1>7, <1>8, <1>9, <1>10, <1>11, ZenonT(60) DEF Pages!Next

\* When a page is mounted nothing is open and nothing is in progress.
LEMMA InitForms == Pages!Init => DialogInv
<1> SUFFICES ASSUME Pages!Init PROVE DialogInv
  OBVIOUS
<1> DEFINE open == [d \in DOMAIN Pages!Dialogs |-> None]
<1>1. calls = [s \in Slots |-> None] /\ fetches = {} /\ astray = {} /\ ui.open = open
  BY DEF Pages!Init
<1>2. (\A s \in Slots : calls[s] = None) /\ Pages!Open = {}
  BY <1>1 DEF Pages!Open
<1> QED
  BY <1>1, <1>2 DEF DialogInv, Owned, Matched, OneOpen, Tight, Pent, Known, Active, Pending

\* An answer closes, reopens or fills no dialog but the one it is for, and no form is sent
\* again before it is answered, but on the pages that are known for it: for every number
\* of rows, queries, handlers and requests.
THEOREM DialogsStayApart == LiveSpec => []DialogsAreOwn
<1> DEFINE PartInv == part = "page" => PageInv
           FormInv == part = "page" => DialogInv
<1>1. LiveInit => FormInv
  BY InitForms DEF LiveInit
<1>2. PartInv /\ FormInv /\ [LiveNext]_<<part, vars, mailVars, processVars, pageVars>> => FormInv'
  <2> SUFFICES ASSUME PartInv, FormInv, [LiveNext]_<<part, vars, mailVars, processVars, pageVars>>, part' = "page"
               PROVE  DialogInv'
    OBVIOUS
  <2>1. part = "page" /\ [Pages!Next]_pageVars /\ PageTypes /\ DialogInv
    BY DEF LiveNext, AtRest, PageInv
  <2>2. CASE Pages!Next
    BY <2>1, <2>2, DialogStaysOwn
  <2>3. CASE UNCHANGED pageVars
    <3>1. page' = page /\ ui' = ui /\ calls' = calls /\ fetches' = fetches /\ astray' = astray
      BY <2>3 DEF pageVars
    <3> QED
      BY <2>1, <3>1, QuietStep DEF SameForms
  <2> QED
    BY <2>1, <2>2, <2>3
<1>3. FormInv => DialogsAreOwn
  BY DEF DialogsAreOwn, Pages!DialogsAreOwn, DialogInv, Known
<1>4. LiveSpec => []PartInv
  BY PagesInvariance
<1> QED
  BY <1>1, <1>2, <1>3, <1>4, PTL DEF LiveSpec
=============================================================================
