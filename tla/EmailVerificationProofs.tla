---------------------- MODULE EmailVerificationProofs ----------------------
(***************************************************************************)
(* Proofs about EmailVerification, for every number of links and requests. *)
(* That the address is stamped once rests on who holds the account's row:  *)
(* a request about to commit holds it exactly if it found the address      *)
(* unverified (StampsInv), and one that does not is not late, because a    *)
(* request that reads the status holds no row yet (HolderInv).             *)
(***************************************************************************)
EXTENDS EmailVerification, TLAPS

\* Whoever holds the account's row is past its lock.
HolderInv ==
  userLock # None => pc[userLock] \in {"cooldown", "supersede", "supersedeApply",
                                       "issueCommit", "effectCommit"}

StampsInv ==
  /\ stamps = IF verified THEN 1 ELSE 0
  /\ \A r \in Requests : pc[r] = "effectCommit" => (userLock = r <=> ~verified)

\* A request that uses a link knows which.
PresentedInv ==
  \A r \in Requests : pc[r] = "consume" => tok[r] \in Tokens

Inv == TypeOK /\ HolderInv /\ StampsInv /\ PresentedInv /\ ConsumedMeansVerified

\* An account without links, and not yet registered, satisfies the invariant.
LEMMA InitInv == Init => Inv
<1> SUFFICES ASSUME Init PROVE Inv OBVIOUS
<1>1. registered = FALSE /\ verified = FALSE /\ stamps = 0 BY DEF Init
<1>2. AuthTypeOK BY DEF Init, AuthInit, AuthTypeOK
<1>3. TypeOK BY <1>1, <1>2 DEF TypeOK
<1>4. StampsInv BY <1>1 DEF StampsInv, Init, AuthInit
<1>5. HolderInv /\ PresentedInv /\ ConsumedMeansVerified
  BY DEF Init, AuthInit, HolderInv, PresentedInv, ConsumedMeansVerified
<1> QED BY <1>3, <1>4, <1>5 DEF Inv

\* A transaction that ends without changing a row.
LEMMA EndInv ==
  ASSUME Inv, NEW r \in Requests, End(r), UNCHANGED <<tokenVars, accountVars>>
  PROVE  Inv'
BY NoneAssumption, SMTT(60) DEF Inv, TypeOK, AuthTypeOK, HolderInv, StampsInv, PresentedInv,
   ConsumedMeansVerified, End, Goto, tokenVars, accountVars

\* A request that waits for the account's row gets it.
LEMMA LockInv ==
  ASSUME Inv, NEW r \in Requests, NEW from, NEW to, LockUserRow(r, from, to),
         \/ to \in {"cooldown", "issueCommit"}
         \/ to = "effectCommit" /\ ~verified,
         UNCHANGED accountVars
  PROVE  Inv'
BY NoneAssumption, SMTT(60) DEF Inv, TypeOK, AuthTypeOK, HolderInv, StampsInv, PresentedInv,
   ConsumedMeansVerified, LockUserRow, Goto, tokenVars, accountVars

\* Issuing a link.
LEMMA IssueInv ==
  ASSUME Inv, NEW r \in Requests, Issue(r), UNCHANGED accountVars
  PROVE  Inv'
<1> USE NoneAssumption, TokenAssumption DEF Inv, TypeOK, AuthTypeOK, HolderInv, StampsInv,
        PresentedInv, ConsumedMeansVerified, Goto, tokenVars, lockVars, accountVars
<1>1. CASE LockForIssue(r)
  BY <1>1, LockInv DEF LockForIssue
<1>2. CASE CheckCooldown(r)
  <2>1. CASE End(r)
    BY <1>2, <2>1, EndInv DEF CheckCooldown
  <2>2. CASE Goto(r, "supersede") /\ UNCHANGED <<lockVars, tok, cand>>
    BY <1>2, <2>2, SMTT(60) DEF CheckCooldown
  <2> QED
    BY <1>2, <2>1, <2>2 DEF CheckCooldown
<1>3. CASE Supersede(r)
  BY <1>3, SMTT(60) DEF Supersede, SnapshotUnused
<1>4. CASE SupersedeApply(r)
  BY <1>4, SMTT(60) DEF SupersedeApply, TakeUnused
<1>5. CASE IssueCommit(r)
  BY <1>5, SMTT(60) DEF IssueCommit, End, SpendLocked, LockedBy
<1> QED
  BY <1>1, <1>2, <1>3, <1>4, <1>5 DEF Issue

\* Using a link.
LEMMA UseInv ==
  ASSUME Inv, NEW r \in Requests,
         \/ /\ Consume(r) \/ LockForStamp(r) \/ FindVerified(r)
            /\ UNCHANGED accountVars
         \/ VerifyCommit(r)
  PROVE  Inv'
<1> USE NoneAssumption, TokenAssumption DEF Inv, TypeOK, AuthTypeOK, HolderInv, StampsInv,
        PresentedInv, ConsumedMeansVerified, Goto, tokenVars, lockVars, accountVars
<1>1. CASE Consume(r) /\ UNCHANGED accountVars
  <2>1. CASE End(r)
    BY <1>1, <2>1, EndInv DEF Consume
  <2>2. CASE /\ pc[r] = "consume" /\ tokLock' = [tokLock EXCEPT ![tok[r]] = r]
             /\ Goto(r, "consumed") /\ UNCHANGED <<tokenVars, userLock, tok, cand>>
    BY <1>1, <2>2, SMTT(60)
  <2> QED
    BY <1>1, <2>1, <2>2 DEF Consume
<1>2. CASE LockForStamp(r) /\ UNCHANGED accountVars
  BY <1>2, LockInv DEF LockForStamp
<1>3. CASE FindVerified(r) /\ UNCHANGED accountVars
  BY <1>3, SMTT(60) DEF FindVerified
<1>4. CASE VerifyCommit(r)
  BY <1>4, SMTT(60) DEF VerifyCommit, End, SpendLocked, LockedBy
<1> QED
  BY <1>1, <1>2, <1>3, <1>4

\* The invariant is inductive.
LEMMA InvStep == Inv /\ [Next]_vars => Inv'
<1> SUFFICES ASSUME Inv, [Next]_vars PROVE Inv'
  OBVIOUS
<1>1. ASSUME NEW r \in Requests, Continue(r) PROVE Inv'
  <2>1. CASE LockForInitial(r) /\ UNCHANGED accountVars
    BY <2>1, LockInv DEF LockForInitial
  <2> QED
    BY <1>1, <2>1, IssueInv, UseInv DEF Continue
<1> USE NoneAssumption, TokenAssumption
<1>2. ASSUME NEW r \in Requests, Register(r) PROVE Inv'
  BY <1>2, SMTT(60) DEF Register, Inv, TypeOK, AuthTypeOK, HolderInv, StampsInv, PresentedInv,
     ConsumedMeansVerified, Goto, tokenVars, lockVars
<1>3. ASSUME NEW r \in Requests, Start(r), UNCHANGED accountVars PROVE Inv'
  BY <1>3, SMTT(60) DEF Start, RequestResend, Present, Inv, TypeOK, AuthTypeOK, HolderInv,
     StampsInv, PresentedInv, ConsumedMeansVerified, Goto, tokenVars, lockVars, accountVars
<1>4. ASSUME NEW r \in Requests, End(r), UNCHANGED <<tokenVars, accountVars>> PROVE Inv'
  BY <1>4, EndInv
<1>5. CASE Passage /\ UNCHANGED accountVars
  BY <1>5, SMTT(60) DEF Passage, CooldownPasses, Expire, Inv, TypeOK, AuthTypeOK, HolderInv,
     StampsInv, PresentedInv, ConsumedMeansVerified, lockVars, requestVars, accountVars
<1>6. CASE UNCHANGED vars
  BY <1>6 DEF vars, authVars, tokenVars, lockVars, requestVars, Inv, TypeOK, AuthTypeOK,
     HolderInv, StampsInv, PresentedInv, ConsumedMeansVerified
<1> QED
  BY <1>1, <1>2, <1>3, <1>4, <1>5, <1>6 DEF Next, Abort, DeadlockVictim, accountVars

\* The invariant holds in every reachable state.
LEMMA Invariance == Spec => []Inv
BY InitInv, InvStep, PTL DEF Spec

\* Every variable keeps its type.
THEOREM TypeCorrectness == Spec => []TypeOK
<1>1. Inv => TypeOK
  BY DEF Inv
<1> QED
  BY Invariance, <1>1, PTL

\* A link that is used verified the address, unless a later link superseded it,
\* also when requests die between the two.
THEOREM UsedLinkVerified == Spec => []ConsumedMeansVerified
<1>1. Inv => ConsumedMeansVerified
  BY DEF Inv
<1> QED
  BY Invariance, <1>1, PTL

\* The time of the verification is set once, however many links are used at once.
THEOREM VerifiedOnce == Spec => []StampedOnce
<1>1. Inv => StampedOnce
  BY DEF Inv, StampsInv, StampedOnce
<1> QED
  BY Invariance, <1>1, PTL

=============================================================================
